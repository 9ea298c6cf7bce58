---------------------------- MODULE AdsStatePoller --------------------------
(***************************************************************************)
(* Background state monitoring (src/pkg/ads/client_state.go) next to the    *)
(* session calls that start and stop it.  A poller is identified by its     *)
(* statePollerID; at any time one time.AfterFunc timer or one running       *)
(* checkState carries it on.  stopStatePoller and startStatePoller do not   *)
(* wait for a running check, so checks of earlier pollers run concurrently  *)
(* with the current one and with Connect and Disconnect.                    *)
(*                                                                          *)
(* A step touches one shared field, or the fields of one critical section:  *)
(* consecutiveReadFailures, which no lock guards, is read, written, compared *)
(* and reset in steps of their own.                                          *)
(*                                                                          *)
(* The TwinCAT system is external: it changes state, restarts, and becomes  *)
(* unreachable, when every read of a check ends in an error or a timeout.   *)
(***************************************************************************)
EXTENDS Integers, FiniteSets

CONSTANTS
  MaxPoller,     \* bound: the last statePollerID
  MaxRestarts,   \* bound: the last restart index of the TwinCAT system
  MaxFailures,   \* settings.MaxConsecutiveReadFailures
  AdsStates,     \* the values of AdsState, "Run" among them
  ExtendedServed \* whether the system serves extended state reads: a set of cases

ASSUME PollerAssumption ==
  /\ MaxPoller \in Nat
  /\ MaxRestarts \in Nat
  /\ MaxFailures \in Nat \ {0}
  /\ "Run" \in AdsStates
  /\ "nil" \notin AdsStates
  /\ ExtendedServed \subseteq BOOLEAN

VARIABLES
  plc,              \* the TwinCAT system: AdsState, restart index, reachability
                    \* and whether it serves extended state reads
  session,          \* where the application is between Connect and Disconnect
  currentState,     \* Client.currentState: the cached AdsState or "nil"
  statePollerID,    \* Client.statePollerID
  statePollerTimer, \* Client.statePollerTimer: the poller it was made for, 0 if nil
  armed,            \* the pollers whose timer has neither fired nor been stopped
  check,            \* check[n]: the running checkState(n) and its local variables,
                    \* those it still reads
  extended,         \* extendedStateSupported: "unknown", "yes" or "no"
  lastRestartIndex, \* lastRestartIndex, NoIndex if nil
  failures,         \* consecutiveReadFailures
  lost              \* the pollers whose check has called OnConnectionLost (the
                    \* hooks run in goroutines of their own and change nothing here)

extVars == <<extended, lastRestartIndex>>
timerVars == <<statePollerID, statePollerTimer, armed>>
vars == <<plc, session, currentState, statePollerID, statePollerTimer, armed,
          check, extended, lastRestartIndex, failures, lost>>

Pollers == 1 .. MaxPoller
NoIndex == -1
Indexes == 0 .. MaxRestarts
StateOrNil == AdsStates \union {"nil"}

NotRunning == [pc |-> "idle", old |-> "nil", oldIndex |-> NoIndex,
               new |-> "nil", newIndex |-> NoIndex, count |-> 0]

Sessions == {"down", "connecting", "starting", "up", "stopping", "clearing"}
Steps == {"idle", "begin", "snapshot", "support", "probe", "extended", "supported", "index",
          "basic", "failed", "counting", "counted", "limit", "unreachable", "ok",
          "store", "decide", "schedule"}

\* The local variables of checkState: the old and the new state and restart
\* index, the failure count it is writing.
Checks ==
  [pc : Steps, old : StateOrNil, oldIndex : Indexes \union {NoIndex},
   new : StateOrNil, newIndex : Indexes \union {NoIndex}, count : Nat]

TypeOK ==
  /\ plc \in [state : AdsStates, index : Indexes, reachable : BOOLEAN, ext : BOOLEAN]
  /\ session \in Sessions
  /\ currentState \in StateOrNil
  /\ statePollerID \in 0 .. MaxPoller
  /\ statePollerTimer \in 0 .. MaxPoller
  /\ armed \subseteq Pollers
  /\ check \in [Pollers -> Checks]
  /\ extended \in {"unknown", "yes", "no"}
  /\ lastRestartIndex \in Indexes \union {NoIndex}
  /\ failures \in Nat
  /\ lost \subseteq Pollers

Init ==
  /\ plc \in [state : AdsStates, index : {0}, reachable : {TRUE}, ext : ExtendedServed]
  /\ session = "down"
  /\ currentState = "nil"
  /\ statePollerID = 0
  /\ statePollerTimer = 0
  /\ armed = {}
  /\ check = [n \in Pollers |-> NotRunning]
  /\ extended = "unknown"
  /\ lastRestartIndex = NoIndex
  /\ failures = 0
  /\ lost = {}

-----------------------------------------------------------------------------
(* The TwinCAT system, external.                                           *)

\* It moves to another state, and may be restarted on the way.
PlcChanges(s, i) ==
  /\ i \in {plc.index, plc.index + 1} \intersect Indexes
  /\ plc' = [plc EXCEPT !.state = s, !.index = i]
  /\ plc' # plc
  /\ UNCHANGED <<session, currentState, timerVars, check, extVars, failures, lost>>

ReachabilityChanges ==
  /\ plc' = [plc EXCEPT !.reachable = ~@]
  /\ UNCHANGED <<session, currentState, timerVars, check, extVars, failures, lost>>

-----------------------------------------------------------------------------
(* The poller's timer.                                                      *)

\* startStatePoller, one critical section of statePollerMutex.
StartStatePoller ==
  /\ statePollerID < MaxPoller
  /\ statePollerID' = statePollerID + 1
  /\ statePollerTimer' = statePollerID + 1
  /\ armed' = (armed \ {statePollerTimer}) \union {statePollerID + 1}

\* stopStatePoller, likewise.
StopStatePoller ==
  /\ statePollerID < MaxPoller
  /\ statePollerID' = statePollerID + 1
  /\ statePollerTimer' = 0
  /\ armed' = armed \ {statePollerTimer}

-----------------------------------------------------------------------------
(* The application's session.                                              *)

\* Connect has a connection.  It may be called without Disconnect, after the
\* connection was lost: the old poller then still runs.
Connect ==
  /\ session \in {"down", "up"}
  /\ plc.reachable
  /\ session' = "connecting"
  /\ UNCHANGED <<plc, currentState, timerVars, check, extVars, failures, lost>>

\* Connect reads the initial state and reports it before it returns.
InitialStateRead ==
  /\ session = "connecting"
  /\ plc.reachable
  /\ session' = "starting"
  /\ currentState' = plc.state
  /\ UNCHANGED <<plc, timerVars, check, extVars, failures, lost>>

\* The read fails: Connect warns and goes on.
InitialStateFails ==
  /\ session = "connecting"
  /\ ~plc.reachable
  /\ session' = "starting"
  /\ UNCHANGED <<plc, currentState, timerVars, check, extVars, failures, lost>>

ConnectStartsPoller ==
  /\ session = "starting"
  /\ StartStatePoller
  /\ session' = "up"
  /\ UNCHANGED <<plc, currentState, check, extVars, failures, lost>>

\* RestartStatePoller, called by the application.
RestartStatePoller ==
  /\ session = "up"
  /\ StartStatePoller
  /\ UNCHANGED <<plc, session, currentState, check, extVars, failures, lost>>

\* Disconnect, called by the application or by a Connect whose OnConnect hook
\* failed, stops the poller first and then clears the cache and the counter.
DisconnectStopsPoller ==
  /\ session \in {"up", "connecting"}
  /\ StopStatePoller
  /\ session' = "stopping"
  /\ UNCHANGED <<plc, currentState, check, extVars, failures, lost>>

DisconnectClearsState ==
  /\ session = "stopping"
  /\ session' = "clearing"
  /\ currentState' = "nil"
  /\ UNCHANGED <<plc, timerVars, check, extVars, failures, lost>>

DisconnectClearsFailures ==
  /\ session = "clearing"
  /\ session' = "down"
  /\ failures' = 0
  /\ UNCHANGED <<plc, currentState, timerVars, check, extVars, lost>>

\* receive sees its connection fail: invokeConnectionLostHook.
ReceiveLosesConnection ==
  /\ session # "down"
  /\ currentState' = "nil"
  /\ UNCHANGED <<plc, session, timerVars, check, extVars, failures, lost>>

-----------------------------------------------------------------------------
(* checkState(n), in the goroutine of the timer of poller n.                *)

Goto(n, step) == check' = [check EXCEPT ![n].pc = step]
Finish(n) == check' = [check EXCEPT ![n] = NotRunning]

\* To a step after which no local variable is read again: they are forgotten.
Leave(n, step) == check' = [check EXCEPT ![n] = [NotRunning EXCEPT !.pc = step]]

TimerFires(n) ==
  /\ n \in armed
  /\ armed' = armed \ {n}
  /\ Goto(n, "begin")
  /\ UNCHANGED <<plc, session, currentState, statePollerID, statePollerTimer, extVars,
                 failures, lost>>

\* The poller is compared with statePollerID, once.
CheckIsValid(n) ==
  /\ check[n].pc = "begin"
  /\ n = statePollerID
  /\ Goto(n, "snapshot")
  /\ UNCHANGED <<plc, session, currentState, timerVars, extVars, failures, lost>>

CheckIsStale(n) ==
  /\ check[n].pc = "begin"
  /\ n # statePollerID
  /\ Finish(n)
  /\ UNCHANGED <<plc, session, currentState, timerVars, extVars, failures, lost>>

\* The old state, under stateMutex.
SnapshotState(n) ==
  /\ check[n].pc = "snapshot"
  /\ check' = [check EXCEPT ![n] = [@ EXCEPT !.old = currentState, !.pc = "support"]]
  /\ UNCHANGED <<plc, session, currentState, timerVars, extVars, failures, lost>>

\* What is known of extended reads, under extendedStateMutex.  The restart index
\* of before is of no use to a check that makes a basic read.
SnapshotSupport(n) ==
  /\ check[n].pc = "support"
  /\ check' = [check EXCEPT ![n] =
                 IF extended = "no" THEN [@ EXCEPT !.pc = "basic"]
                 ELSE [@ EXCEPT !.oldIndex = lastRestartIndex,
                                !.pc = IF extended = "yes" THEN "extended" ELSE "probe"]]
  /\ UNCHANGED <<plc, session, currentState, timerVars, extVars, failures, lost>>

\* ReadTcSystemExtendedState answers.
ReadExtended(n) ==
  /\ check[n].pc \in {"probe", "extended"}
  /\ plc.reachable /\ plc.ext
  /\ check' = [check EXCEPT ![n] =
                 [@ EXCEPT !.new = plc.state, !.newIndex = plc.index,
                           !.pc = IF check[n].pc = "probe" THEN "supported"
                                   ELSE "index"]]
  /\ UNCHANGED <<plc, session, currentState, timerVars, extVars, failures, lost>>

StateDiffers(n) == check[n].old = "nil" \/ check[n].new # check[n].old
IndexDiffers(n) ==
  /\ check[n].newIndex # NoIndex /\ check[n].oldIndex # NoIndex
  /\ check[n].newIndex # check[n].oldIndex

\* The support is noted if it was unknown, the restart index always.  The local
\* indexes are looked at again only where they differ under the same state.
RecordSupport(n) ==
  /\ check[n].pc = "supported"
  /\ extended' = "yes"
  /\ Goto(n, "index")
  /\ UNCHANGED <<plc, session, currentState, timerVars, lastRestartIndex, failures, lost>>

RecordIndex(n) ==
  /\ check[n].pc = "index"
  /\ lastRestartIndex' = check[n].newIndex
  /\ check' = [check EXCEPT ![n] =
                 IF ~StateDiffers(n) /\ IndexDiffers(n) THEN [@ EXCEPT !.pc = "ok"]
                 ELSE [@ EXCEPT !.oldIndex = NoIndex, !.newIndex = NoIndex, !.pc = "ok"]]
  /\ UNCHANGED <<plc, session, currentState, timerVars, extended, failures, lost>>

\* It fails although extended reads worked before: the remote is gone.
ExtendedFails(n) ==
  /\ check[n].pc = "extended"
  /\ ~(plc.reachable /\ plc.ext)
  /\ Leave(n, "failed")
  /\ UNCHANGED <<plc, session, currentState, timerVars, extVars, failures, lost>>

\* It fails at the first attempt: extended reads are taken to be unsupported,
\* for good, and the basic read decides.
ExtendedUnsupported(n) ==
  /\ check[n].pc = "probe"
  /\ ~(plc.reachable /\ plc.ext)
  /\ extended' = "no"
  /\ check' = [check EXCEPT ![n] = [NotRunning EXCEPT !.old = check[n].old, !.pc = "basic"]]
  /\ UNCHANGED <<plc, session, currentState, timerVars, lastRestartIndex, failures, lost>>

ReadBasic(n) ==
  /\ check[n].pc = "basic"
  /\ plc.reachable
  /\ check' = [check EXCEPT ![n] = [@ EXCEPT !.new = plc.state, !.pc = "ok"]]
  /\ UNCHANGED <<plc, session, currentState, timerVars, extVars, failures, lost>>

BasicFails(n) ==
  /\ check[n].pc = "basic"
  /\ ~plc.reachable
  /\ Leave(n, "failed")
  /\ UNCHANGED <<plc, session, currentState, timerVars, extVars, failures, lost>>

\* consecutiveReadFailures++ holds no lock: a read, then a write.
ReadFailures(n) ==
  /\ check[n].pc = "failed"
  /\ check' = [check EXCEPT ![n] = [@ EXCEPT !.count = failures + 1, !.pc = "counting"]]
  /\ UNCHANGED <<plc, session, currentState, timerVars, extVars, failures, lost>>

\* Faulty: the failure is not counted.
WriteFailures_Uncounted(n) ==
  /\ check[n].pc = "counting"
  /\ Leave(n, "counted")
  /\ UNCHANGED <<plc, session, currentState, timerVars, extVars, failures, lost>>

WriteFailures(n) ==
  /\ check[n].pc = "counting"
  /\ failures' = check[n].count
  /\ Leave(n, "counted")
  /\ UNCHANGED <<plc, session, currentState, timerVars, extVars, lost>>

\* The limit is compared with the counter as it is then, whoever wrote it last.
LimitReached(n) ==
  /\ check[n].pc = "counted"
  /\ failures >= MaxFailures
  /\ Goto(n, "limit")
  /\ UNCHANGED <<plc, session, currentState, timerVars, extVars, failures, lost>>

\* Faulty: only a counter exactly at its limit is seen.
TolerateFailure_Beyond(n) ==
  /\ check[n].pc = "counted"
  /\ failures # MaxFailures
  /\ Leave(n, "schedule")
  /\ UNCHANGED <<plc, session, currentState, timerVars, extVars, failures, lost>>

\* Below the limit the poller goes on.
TolerateFailure(n) ==
  /\ check[n].pc = "counted"
  /\ failures < MaxFailures
  /\ Leave(n, "schedule")
  /\ UNCHANGED <<plc, session, currentState, timerVars, extVars, failures, lost>>

\* At the limit the counter restarts,
ResetFailures(n) ==
  /\ check[n].pc = "limit"
  /\ failures' = 0
  /\ Goto(n, "unreachable")
  /\ UNCHANGED <<plc, session, currentState, timerVars, extVars, lost>>

\* the state is forgotten, the hook is called and the poller ends.
ReportUnreachable(n) ==
  /\ check[n].pc = "unreachable"
  /\ currentState' = "nil"
  /\ lost' = lost \union {n}
  /\ Finish(n)
  /\ UNCHANGED <<plc, session, timerVars, extVars, failures>>

\* Faulty: a success takes back one failure instead of all.
SucceedingReadResets_ByOne(n) ==
  /\ check[n].pc = "ok"
  /\ failures' = failures - 1
  /\ Goto(n, "store")
  /\ UNCHANGED <<plc, session, currentState, timerVars, extVars, lost>>

\* A successful read resets the counter,
SucceedingReadResets(n) ==
  /\ check[n].pc = "ok"
  /\ failures' = 0
  /\ Goto(n, "store")
  /\ UNCHANGED <<plc, session, currentState, timerVars, extVars, lost>>

\* Faulty: the cache is filled once and then kept.
UpdateState_FirstOnly(n) ==
  /\ check[n].pc = "store"
  /\ currentState' = IF check[n].old = "nil" THEN check[n].new ELSE currentState
  /\ Goto(n, "decide")
  /\ UNCHANGED <<plc, session, timerVars, extVars, failures, lost>>

\* and replaces the cached state, in whatever session the client is by now.
UpdateState(n) ==
  /\ check[n].pc = "store"
  /\ currentState' = check[n].new
  /\ Goto(n, "decide")
  /\ UNCHANGED <<plc, session, timerVars, extVars, failures, lost>>

\* A first or different state is reported with OnStateChange.
ReportStateChange(n) ==
  /\ check[n].pc = "decide"
  /\ StateDiffers(n)
  /\ Leave(n, "schedule")
  /\ UNCHANGED <<plc, session, currentState, timerVars, extVars, failures, lost>>

\* The same state under a new restart index: both hooks, and the poller ends.
ReportRestart(n) ==
  /\ check[n].pc = "decide"
  /\ ~StateDiffers(n) /\ IndexDiffers(n)
  /\ currentState' = "nil"
  /\ lost' = lost \union {n}
  /\ Finish(n)
  /\ UNCHANGED <<plc, session, timerVars, extVars, failures>>

\* Faulty: an uneventful check returns without scheduling the next one.
NothingChanged_Ends(n) ==
  /\ check[n].pc = "decide"
  /\ ~StateDiffers(n) /\ ~IndexDiffers(n)
  /\ Finish(n)
  /\ UNCHANGED <<plc, session, currentState, timerVars, extVars, failures, lost>>

NothingChanged(n) ==
  /\ check[n].pc = "decide"
  /\ ~StateDiffers(n) /\ ~IndexDiffers(n)
  /\ Leave(n, "schedule")
  /\ UNCHANGED <<plc, session, currentState, timerVars, extVars, failures, lost>>

\* Faulty: the poller is not compared with statePollerID again.
ScheduleNext_Unchecked(n) ==
  /\ check[n].pc = "schedule"
  /\ armed' = armed \union {n} /\ statePollerTimer' = n
  /\ Finish(n)
  /\ UNCHANGED <<plc, session, currentState, statePollerID, extVars, failures, lost>>

\* scheduleNextStateCheck compares the poller again and arms the next timer.
ScheduleNext(n) ==
  /\ check[n].pc = "schedule"
  /\ IF n = statePollerID
     THEN armed' = armed \union {n} /\ statePollerTimer' = n
     ELSE UNCHANGED <<armed, statePollerTimer>>
  /\ Finish(n)
  /\ UNCHANGED <<plc, session, currentState, statePollerID, extVars, failures, lost>>

-----------------------------------------------------------------------------

App ==
  \/ Connect
  \/ InitialStateRead
  \/ InitialStateFails
  \/ ConnectStartsPoller
  \/ RestartStatePoller
  \/ DisconnectStopsPoller
  \/ DisconnectClearsState
  \/ DisconnectClearsFailures
  \/ ReceiveLosesConnection

CheckStep(n) ==
  \/ CheckIsValid(n)
  \/ CheckIsStale(n)
  \/ SnapshotState(n)
  \/ SnapshotSupport(n)
  \/ ReadExtended(n)
  \/ RecordSupport(n)
  \/ RecordIndex(n)
  \/ ExtendedFails(n)
  \/ ExtendedUnsupported(n)
  \/ ReadBasic(n)
  \/ BasicFails(n)
  \/ ReadFailures(n)
  \/ WriteFailures(n)
  \/ LimitReached(n)
  \/ TolerateFailure(n)
  \/ ResetFailures(n)
  \/ ReportUnreachable(n)
  \/ SucceedingReadResets(n)
  \/ UpdateState(n)
  \/ ReportStateChange(n)
  \/ ReportRestart(n)
  \/ NothingChanged(n)
  \/ ScheduleNext(n)

Next ==
  \/ \E s \in AdsStates, i \in Indexes : PlcChanges(s, i)
  \/ ReachabilityChanges
  \/ App
  \/ \E n \in Pollers : TimerFires(n) \/ CheckStep(n)

\* Timers fire and running checks proceed: every read ends, by its timeout.
Fairness == \A n \in Pollers : WF_vars(TimerFires(n)) /\ WF_vars(CheckStep(n))

SafeSpec == Init /\ [][Next]_vars
Spec == SafeSpec /\ Fairness

-----------------------------------------------------------------------------
(* Properties.                                                             *)

Running(n) == check[n].pc # "idle"

\* "unique poller ID to prevent multiple timers" (client.go:37): at most one
\* timer is armed, it is the one statePollerTimer can stop, it belongs to the
\* current poller, and that poller has no check running beside it.
OneTimer ==
  \A n \in armed :
    /\ n = statePollerID
    /\ n = statePollerTimer
    /\ ~Running(n)

\* Monitoring never dies silently: a poller that is current has its timer
\* armed or a check running, until one of its checks has called
\* OnConnectionLost (client_state.go:162, 166, 205, 209).
NoSilentStop ==
  session = "up" =>
    \/ statePollerID \in armed
    \/ Running(statePollerID)
    \/ statePollerID \in lost

\* The counter has no lock, so checks of several generations may push it past
\* its limit; but as long as it stands there, one of them is about to compare
\* it, or has, and restarts it: none tolerates a failure too many
\* (client_state.go:150-158).
LimitIsActedOn ==
  failures >= MaxFailures => \E n \in Pollers : check[n].pc \in {"counted", "limit"}

\* A poller that stays current while the system stays unreachable ends in
\* OnConnectionLost, however many failures are tolerated and whatever checks of
\* earlier pollers do to the counter (client_state.go:156).
UnreachableIsReported ==
  /\ <>[][UNCHANGED statePollerID]_vars
  /\ <>[](session = "up" /\ ~plc.reachable)
  => <>[](statePollerID \in lost)

\* A poller that stays current while the system is reachable and keeps its
\* state comes to cache that state, unless it reports the connection lost
\* (client_state.go:174-176).
StateIsFollowed ==
  /\ <>[][UNCHANGED <<statePollerID, plc.state>>]_vars
  /\ <>[](session = "up" /\ plc.reachable)
  => <>[](statePollerID \in lost) \/ []<>(currentState = plc.state)
=============================================================================
