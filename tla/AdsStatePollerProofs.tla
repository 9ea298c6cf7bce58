------------------------ MODULE AdsStatePollerProofs ------------------------
(***************************************************************************)
(* The poller's timer discipline and its failure counter for any number of   *)
(* pollers, restarts, tolerated failures and ADS states.  Most steps are      *)
(* either one of a check that goes on (GoesOn), of one that ends (Ends), or    *)
(* one of the application that leaves the checks alone (OutsideStep).         *)
(***************************************************************************)
EXTENDS AdsStatePoller, TLAPS

\* Only pollers that were started have run.
PollersStarted ==
  /\ \A n \in Pollers : Running(n) => n <= statePollerID
  /\ session = "up" => statePollerID \in Pollers

\* The inductive invariant.
TimerInv == TypeOK /\ PollersStarted /\ OneTimer /\ NoSilentStop /\ LimitIsActedOn

\* The steps of a check that is about to compare the counter, or has.
AtCounter == {"counted", "limit"}

\* How checkState's local variables change type: not at all.
LEMMA CheckTypes ==
  ASSUME TypeOK, NEW n \in Pollers
  PROVE  /\ check[n] \in Checks
         /\ NotRunning \in Checks /\ NotRunning.pc = "idle"
         /\ \A p \in Steps : /\ [check[n] EXCEPT !.pc = p] \in Checks
                             /\ [check[n] EXCEPT !.pc = p].pc = p
                             /\ [NotRunning EXCEPT !.pc = p] \in Checks
                             /\ [NotRunning EXCEPT !.pc = p].pc = p
         /\ \A p \in Steps : Goto(n, p) => check' = [check EXCEPT ![n] = [check[n] EXCEPT !.pc = p]]
  <1>1. check[n] \in Checks /\ check \in [Pollers -> Checks]
    BY DEF TypeOK
  <1>2. NotRunning \in Checks /\ NotRunning.pc = "idle"
    BY DEF Checks, NotRunning, Steps, StateOrNil, NoIndex
  <1> QED
    BY <1>1, <1>2 DEF Checks, Goto

LEMMA InitTimerInv == Init => TimerInv
  <1> SUFFICES ASSUME Init PROVE TimerInv
    OBVIOUS
  <1> USE PollerAssumption DEF Init
  <1>1. NotRunning \in Checks
    BY DEF NotRunning, Checks, Steps, StateOrNil, NoIndex
  <1>2. plc \in [state : AdsStates, index : Indexes, reachable : BOOLEAN, ext : BOOLEAN]
    <2>1. {0} \subseteq Indexes /\ {TRUE} \subseteq BOOLEAN
      BY DEF Indexes
    <2>2. plc \in [state : AdsStates, index : {0}, reachable : {TRUE}, ext : ExtendedServed]
      OBVIOUS
    <2> QED
      BY <2>1, <2>2
  <1>3. TypeOK
    BY <1>1, <1>2 DEF TypeOK, Sessions, StateOrNil, NoIndex
  <1>4. PollersStarted /\ OneTimer /\ NoSilentStop /\ LimitIsActedOn
    BY DEF PollersStarted, OneTimer, NoSilentStop, LimitIsActedOn, Running, NotRunning
  <1> QED
    BY <1>3, <1>4 DEF TimerInv

-----------------------------------------------------------------------------
(* The kinds of steps.                                                      *)

\* The variables of which only the type is asked.
OtherTypes ==
  /\ plc \in [state : AdsStates, index : Indexes, reachable : BOOLEAN, ext : BOOLEAN]
  /\ currentState \in StateOrNil
  /\ extended \in {"unknown", "yes", "no"}
  /\ lastRestartIndex \in Indexes \union {NoIndex}

\* A check goes on to another step.  If it leaves the counter, the counter is
\* below its limit; if it sets it, it stays there to compare it.
LEMMA GoesOn ==
  ASSUME TimerInv, NEW n \in Pollers, Running(n), NEW r \in Checks, r.pc # "idle",
         check' = [check EXCEPT ![n] = r], OtherTypes', failures' \in Nat,
         UNCHANGED <<session, statePollerID, statePollerTimer, armed, lost>>,
         failures' >= MaxFailures =>
           r.pc \in AtCounter \/ (failures' = failures /\ check[n].pc \notin AtCounter)
  PROVE  TimerInv'
  <1>1. TypeOK'
    BY DEF TimerInv, TypeOK, OtherTypes
  <1>2. check'[n] = r /\ \A m \in Pollers \ {n} : check'[m] = check[m]
    BY DEF TimerInv, TypeOK
  <1>3. PollersStarted' /\ OneTimer' /\ NoSilentStop'
    BY <1>2 DEF TimerInv, TypeOK, PollersStarted, OneTimer, NoSilentStop, Running, Pollers
  <1>4. LimitIsActedOn'
    BY <1>2 DEF TimerInv, LimitIsActedOn, AtCounter
  <1> QED
    BY <1>1, <1>3, <1>4 DEF TimerInv

\* A check that is not at the counter ends, because it is stale or with a report.
LEMMA Ends ==
  ASSUME TimerInv, NEW n \in Pollers, check[n].pc \notin AtCounter,
         check' = [check EXCEPT ![n] = NotRunning], OtherTypes',
         UNCHANGED <<session, statePollerID, statePollerTimer, armed, failures>>,
         lost' \in {lost, lost \union {n}}, n # statePollerID \/ n \in lost'
  PROVE  TimerInv'
  <1>0. NotRunning \in Checks /\ NotRunning.pc = "idle"
    BY CheckTypes DEF TimerInv
  <1>1. TypeOK'
    BY <1>0 DEF TimerInv, TypeOK, OtherTypes
  <1>2. check'[n] = NotRunning /\ \A m \in Pollers \ {n} : check'[m] = check[m]
    BY DEF TimerInv, TypeOK
  <1>3. PollersStarted' /\ OneTimer' /\ NoSilentStop'
    BY <1>0, <1>2 DEF TimerInv, TypeOK, PollersStarted, OneTimer, NoSilentStop, Running, Pollers
  <1>4. LimitIsActedOn'
    BY <1>0, <1>2 DEF TimerInv, LimitIsActedOn, AtCounter
  <1> QED
    BY <1>1, <1>3, <1>4 DEF TimerInv

\* Something happens outside of checkState, to the session or to the system.
LEMMA OutsideStep ==
  ASSUME TimerInv, OtherTypes', UNCHANGED <<check, lost>>, failures' \in {failures, 0},
         session' \in Sessions, statePollerID' \in 0 .. MaxPoller,
         statePollerTimer' \in 0 .. MaxPoller, armed' \subseteq Pollers,
         statePollerID' >= statePollerID,
         session' = "up" => statePollerID' \in Pollers /\ NoSilentStop',
         OneTimer'
  PROVE  TimerInv'
  <1> USE PollerAssumption
  <1>1. TypeOK'
    BY DEF TimerInv, TypeOK, OtherTypes
  <1>2. PollersStarted'
    BY DEF TimerInv, TypeOK, PollersStarted, Running, Pollers
  <1>3. NoSilentStop'
    BY DEF NoSilentStop
  <1>4. LimitIsActedOn'
    BY DEF TimerInv, TypeOK, LimitIsActedOn
  <1> QED
    BY <1>1, <1>2, <1>3, <1>4 DEF TimerInv

-----------------------------------------------------------------------------
(* The steps.                                                               *)

\* The TwinCAT system, the application and receive leave the timer alone, or
\* give it to a new poller.
LEMMA SessionTimerInv ==
  ASSUME TimerInv,
         ReachabilityChanges \/ App \/ \E s \in AdsStates, i \in Indexes : PlcChanges(s, i)
  PROVE  TimerInv'
  <1> USE DEF timerVars, extVars
  <1>1. OtherTypes /\ session \in Sessions
    BY DEF TimerInv, TypeOK, OtherTypes
  <1>2. ASSUME UNCHANGED <<timerVars, check, lost>>, OtherTypes', failures' \in {failures, 0},
               session' \in Sessions, session' = "up" => session = "up"
        PROVE  TimerInv'
    <2>1. OneTimer' /\ (session' = "up" => statePollerID' \in Pollers /\ NoSilentStop')
      BY <1>2 DEF TimerInv, OneTimer, NoSilentStop, PollersStarted, Running
    <2> QED
      BY <1>2, <2>1, OutsideStep DEF TimerInv, TypeOK
  <1>3. ASSUME StartStatePoller, UNCHANGED <<check, lost, failures>>, OtherTypes', session' = "up"
        PROVE  TimerInv'
    <2> USE <1>3, PollerAssumption DEF StartStatePoller
    <2>1. /\ statePollerID' \in Pollers /\ statePollerID' \in 0 .. MaxPoller
          /\ statePollerTimer' = statePollerID' /\ statePollerID' > statePollerID
      BY DEF TimerInv, TypeOK, Pollers
    <2>2. armed' = {statePollerID'}
      BY DEF TimerInv, TypeOK, OneTimer, Pollers
    <2>3. OneTimer' /\ NoSilentStop'
      BY <2>1, <2>2 DEF TimerInv, TypeOK, OneTimer, NoSilentStop, PollersStarted, Running, Pollers
    <2>4. session' \in Sessions /\ armed' \subseteq Pollers
      BY <2>1, <2>2 DEF Sessions
    <2> QED
      BY <2>1, <2>3, <2>4, OutsideStep DEF TimerInv, TypeOK
  <1>4. ASSUME NEW s \in AdsStates, NEW i \in Indexes, PlcChanges(s, i) PROVE TimerInv'
    <2>1. OtherTypes'
      BY <1>1, <1>4 DEF PlcChanges, OtherTypes
    <2> QED
      BY <1>1, <1>2, <1>4, <2>1 DEF PlcChanges
  <1>5. CASE ReachabilityChanges
    <2>1. OtherTypes'
      BY <1>1, <1>5 DEF ReachabilityChanges, OtherTypes
    <2> QED
      BY <1>1, <1>2, <1>5, <2>1 DEF ReachabilityChanges
  <1>6. CASE Connect
    BY <1>1, <1>2, <1>6 DEF Connect, OtherTypes, StateOrNil, Sessions
  <1>7. CASE InitialStateRead
    BY <1>1, <1>2, <1>7 DEF InitialStateRead, OtherTypes, StateOrNil, Sessions
  <1>8. CASE InitialStateFails
    BY <1>1, <1>2, <1>8 DEF InitialStateFails, OtherTypes, StateOrNil, Sessions
  <1>9. CASE DisconnectClearsState
    BY <1>1, <1>2, <1>9 DEF DisconnectClearsState, OtherTypes, StateOrNil, Sessions
  <1>10. CASE DisconnectClearsFailures
    BY <1>1, <1>2, <1>10 DEF DisconnectClearsFailures, OtherTypes, StateOrNil, Sessions
  <1>11. CASE ReceiveLosesConnection
    BY <1>1, <1>2, <1>11 DEF ReceiveLosesConnection, OtherTypes, StateOrNil, Sessions
  <1>12. CASE ConnectStartsPoller
    BY <1>1, <1>3, <1>12 DEF ConnectStartsPoller, OtherTypes
  <1>13. CASE RestartStatePoller
    BY <1>1, <1>3, <1>13 DEF RestartStatePoller, OtherTypes
  <1>14. CASE DisconnectStopsPoller
    <2> USE <1>14, PollerAssumption DEF DisconnectStopsPoller, StopStatePoller
    <2>1. armed' = {} /\ OneTimer'
      BY DEF TimerInv, TypeOK, OneTimer
    <2>2. /\ statePollerID' \in 0 .. MaxPoller /\ statePollerID' >= statePollerID
          /\ statePollerTimer' \in 0 .. MaxPoller /\ session' \in Sessions /\ session' # "up"
      BY DEF TimerInv, TypeOK, Sessions
    <2> QED
      BY <1>1, <2>1, <2>2, OutsideStep DEF OtherTypes
  <1> QED
    BY <1>4, <1>5, <1>6, <1>7, <1>8, <1>9, <1>10, <1>11, <1>12, <1>13, <1>14 DEF App

\* A timer fires only if no check of its poller runs.
LEMMA TimerFiresTimerInv ==
  ASSUME TimerInv, NEW n \in Pollers, TimerFires(n)
  PROVE  TimerInv'
  <1> DEFINE r == [check[n] EXCEPT !.pc = "begin"]
  <1> USE DEF TimerFires, extVars
  <1>1. r \in Checks /\ r.pc = "begin" /\ check' = [check EXCEPT ![n] = r]
    BY CheckTypes DEF TimerInv, Steps
  <1>2. check'[n] = r /\ \A m \in Pollers \ {n} : check'[m] = check[m]
    BY <1>1 DEF TimerInv, TypeOK
  <1>3. armed = {n} /\ n = statePollerID /\ ~Running(n) /\ armed' = {}
    BY DEF TimerInv, OneTimer, TypeOK
  <1> HIDE DEF r
  <1>4. TypeOK'
    BY <1>1, <1>3 DEF TimerInv, TypeOK
  <1>5. PollersStarted' /\ OneTimer' /\ NoSilentStop'
    BY <1>1, <1>2, <1>3 DEF TimerInv, TypeOK, PollersStarted, OneTimer, NoSilentStop, Running, Pollers
  <1>6. LimitIsActedOn'
    BY <1>1, <1>2, <1>3 DEF TimerInv, LimitIsActedOn, Running
  <1> QED
    BY <1>4, <1>5, <1>6 DEF TimerInv

\* The steps of checkState.
LEMMA CheckStepTimerInv ==
  ASSUME TimerInv, NEW n \in Pollers, CheckStep(n)
  PROVE  TimerInv'
  <1> USE DEF timerVars, extVars
  <1>a. /\ TypeOK /\ OtherTypes /\ failures \in Nat /\ failures + 1 \in Nat /\ check[n] \in Checks
        /\ check \in [Pollers -> Checks] /\ MaxFailures \in Nat \ {0}
        /\ NotRunning \in Checks
        /\ plc.state \in StateOrNil /\ plc.index \in Indexes
    BY PollerAssumption, CheckTypes DEF TimerInv, TypeOK, OtherTypes, StateOrNil
  <1>1. CASE CheckIsValid(n)
    <2> DEFINE r == [check[n] EXCEPT !.pc = "snapshot"]
    <2>1. r \in Checks /\ r.pc = "snapshot" /\ check' = [check EXCEPT ![n] = r]
      BY <1>a, <1>1, CheckTypes DEF CheckIsValid, Goto, Steps
    <2>2. Running(n)
      BY <1>1 DEF CheckIsValid, Running
    <2>3. OtherTypes' /\ failures' \in Nat
      BY <1>a, <1>1 DEF CheckIsValid, OtherTypes, Checks, StateOrNil
    <2> HIDE DEF r
    <2>4. failures' >= MaxFailures =>
            r.pc \in AtCounter \/ (failures' = failures /\ check[n].pc \notin AtCounter)
      BY <1>a, <1>1, <2>1 DEF CheckIsValid, AtCounter
    <2> QED
      BY <1>1, <2>1, <2>2, <2>3, <2>4, GoesOn DEF CheckIsValid
  <1>2. CASE CheckIsStale(n)
    BY <1>a, <1>2, Ends DEF CheckIsStale, Finish, OtherTypes, StateOrNil, AtCounter, TypeOK
  <1>3. CASE SnapshotState(n)
    <2> DEFINE r == [check[n] EXCEPT !.old = currentState, !.pc = "support"]
    <2>1. r \in Checks
      BY <1>a, <1>3 DEF SnapshotState, TypeOK, Checks, Steps, StateOrNil
    <2>2. r.pc \in {"support"}
      BY <1>a, <1>3 DEF SnapshotState, Checks
    <2>3. check' = [check EXCEPT ![n] = r]
      BY <1>a, <1>3 DEF SnapshotState
    <2>4. Running(n) /\ check[n].pc \notin AtCounter
      BY <1>3 DEF SnapshotState, Running, AtCounter
    <2>5. OtherTypes' /\ failures' \in Nat
      BY <1>a, <1>3 DEF SnapshotState, OtherTypes
    <2> HIDE DEF r
    <2> QED
      BY <1>3, <2>1, <2>2, <2>3, <2>4, <2>5, GoesOn DEF SnapshotState
  <1>4. CASE SnapshotSupport(n)
    <2> DEFINE r == IF extended = "no" THEN [check[n] EXCEPT !.pc = "basic"]
                    ELSE [check[n] EXCEPT !.oldIndex = lastRestartIndex,
                                          !.pc = IF extended = "yes" THEN "extended" ELSE "probe"]
    <2>1. r \in Checks
      BY <1>a, <1>4 DEF SnapshotSupport, TypeOK, Checks, Steps, StateOrNil
    <2>2. r.pc \in {"basic", "extended", "probe"}
      BY <1>a, <1>4 DEF SnapshotSupport, Checks
    <2>3. check' = [check EXCEPT ![n] = r]
      BY <1>a, <1>4 DEF SnapshotSupport
    <2>4. Running(n) /\ check[n].pc \notin AtCounter
      BY <1>4 DEF SnapshotSupport, Running, AtCounter
    <2>5. OtherTypes' /\ failures' \in Nat
      BY <1>a, <1>4 DEF SnapshotSupport, OtherTypes
    <2> HIDE DEF r
    <2> QED
      BY <1>4, <2>1, <2>2, <2>3, <2>4, <2>5, GoesOn DEF SnapshotSupport
  <1>5. CASE ReadExtended(n)
    <2> DEFINE r == [check[n] EXCEPT !.new = plc.state, !.newIndex = plc.index,
                                       !.pc = IF check[n].pc = "probe" THEN "supported" ELSE "index"]
    <2>1. r \in Checks
      BY <1>a, <1>5 DEF ReadExtended, TypeOK, Checks, Steps, StateOrNil
    <2>2. r.pc \in {"supported", "index"}
      BY <1>a, <1>5 DEF ReadExtended, Checks
    <2>3. check' = [check EXCEPT ![n] = r]
      BY <1>a, <1>5 DEF ReadExtended
    <2>4. Running(n) /\ check[n].pc \notin AtCounter
      BY <1>5 DEF ReadExtended, Running, AtCounter
    <2>5. OtherTypes' /\ failures' \in Nat
      BY <1>a, <1>5 DEF ReadExtended, OtherTypes
    <2> HIDE DEF r
    <2> QED
      BY <1>5, <2>1, <2>2, <2>3, <2>4, <2>5, GoesOn DEF ReadExtended
  <1>6. CASE RecordSupport(n)
    <2> DEFINE r == [check[n] EXCEPT !.pc = "index"]
    <2>1. r \in Checks /\ r.pc = "index" /\ check' = [check EXCEPT ![n] = r]
      BY <1>a, <1>6, CheckTypes DEF RecordSupport, Goto, Steps
    <2>2. Running(n)
      BY <1>6 DEF RecordSupport, Running
    <2>3. OtherTypes' /\ failures' \in Nat
      BY <1>a, <1>6 DEF RecordSupport, OtherTypes, Checks, StateOrNil
    <2> HIDE DEF r
    <2>4. failures' >= MaxFailures =>
            r.pc \in AtCounter \/ (failures' = failures /\ check[n].pc \notin AtCounter)
      BY <1>a, <1>6, <2>1 DEF RecordSupport, AtCounter
    <2> QED
      BY <1>6, <2>1, <2>2, <2>3, <2>4, GoesOn DEF RecordSupport
  <1>7. CASE RecordIndex(n)
    <2> DEFINE r == IF ~StateDiffers(n) /\ IndexDiffers(n) THEN [check[n] EXCEPT !.pc = "ok"]
                    ELSE [check[n] EXCEPT !.oldIndex = NoIndex, !.newIndex = NoIndex, !.pc = "ok"]
    <2>0. check' = [check EXCEPT ![n] = r]
      BY <1>7 DEF RecordIndex
    <2>1. r \in Checks /\ r.pc = "ok" /\ check' = [check EXCEPT ![n] = r]
      BY <1>a, <2>0 DEF Checks, Steps, TypeOK
    <2>2. Running(n)
      BY <1>7 DEF RecordIndex, Running
    <2>3. OtherTypes' /\ failures' \in Nat
      BY <1>a, <1>7 DEF RecordIndex, OtherTypes, Checks, StateOrNil
    <2> HIDE DEF r
    <2>4. failures' >= MaxFailures =>
            r.pc \in AtCounter \/ (failures' = failures /\ check[n].pc \notin AtCounter)
      BY <1>a, <1>7, <2>1 DEF RecordIndex, AtCounter
    <2> QED
      BY <1>7, <2>1, <2>2, <2>3, <2>4, GoesOn DEF RecordIndex
  <1>8. CASE ExtendedFails(n)
    <2> DEFINE r == [NotRunning EXCEPT !.pc = "failed"]
    <2>1. r \in Checks /\ r.pc = "failed" /\ check' = [check EXCEPT ![n] = r]
      BY <1>a, <1>8, CheckTypes DEF ExtendedFails, Leave, Steps
    <2>2. Running(n)
      BY <1>8 DEF ExtendedFails, Running
    <2>3. OtherTypes' /\ failures' \in Nat
      BY <1>a, <1>8 DEF ExtendedFails, OtherTypes, Checks, StateOrNil
    <2> HIDE DEF r
    <2>4. failures' >= MaxFailures =>
            r.pc \in AtCounter \/ (failures' = failures /\ check[n].pc \notin AtCounter)
      BY <1>a, <1>8, <2>1 DEF ExtendedFails, AtCounter
    <2> QED
      BY <1>8, <2>1, <2>2, <2>3, <2>4, GoesOn DEF ExtendedFails
  <1>9. CASE ExtendedUnsupported(n)
    <2> DEFINE r == [NotRunning EXCEPT !.old = check[n].old, !.pc = "basic"]
    <2>1. r \in Checks
      BY <1>a, <1>9 DEF ExtendedUnsupported, TypeOK, Checks, Steps, StateOrNil
    <2>2. r.pc \in {"basic"}
      BY <1>a, <1>9 DEF ExtendedUnsupported, Checks
    <2>3. check' = [check EXCEPT ![n] = r]
      BY <1>a, <1>9 DEF ExtendedUnsupported
    <2>4. Running(n) /\ check[n].pc \notin AtCounter
      BY <1>9 DEF ExtendedUnsupported, Running, AtCounter
    <2>5. OtherTypes' /\ failures' \in Nat
      BY <1>a, <1>9 DEF ExtendedUnsupported, OtherTypes
    <2> HIDE DEF r
    <2> QED
      BY <1>9, <2>1, <2>2, <2>3, <2>4, <2>5, GoesOn DEF ExtendedUnsupported
  <1>10. CASE ReadBasic(n)
    <2> DEFINE r == [check[n] EXCEPT !.new = plc.state, !.pc = "ok"]
    <2>1. r \in Checks
      BY <1>a, <1>10 DEF ReadBasic, TypeOK, Checks, Steps, StateOrNil
    <2>2. r.pc \in {"ok"}
      BY <1>a, <1>10 DEF ReadBasic, Checks
    <2>3. check' = [check EXCEPT ![n] = r]
      BY <1>a, <1>10 DEF ReadBasic
    <2>4. Running(n) /\ check[n].pc \notin AtCounter
      BY <1>10 DEF ReadBasic, Running, AtCounter
    <2>5. OtherTypes' /\ failures' \in Nat
      BY <1>a, <1>10 DEF ReadBasic, OtherTypes
    <2> HIDE DEF r
    <2> QED
      BY <1>10, <2>1, <2>2, <2>3, <2>4, <2>5, GoesOn DEF ReadBasic
  <1>11. CASE BasicFails(n)
    <2> DEFINE r == [NotRunning EXCEPT !.pc = "failed"]
    <2>1. r \in Checks /\ r.pc = "failed" /\ check' = [check EXCEPT ![n] = r]
      BY <1>a, <1>11, CheckTypes DEF BasicFails, Leave, Steps
    <2>2. Running(n)
      BY <1>11 DEF BasicFails, Running
    <2>3. OtherTypes' /\ failures' \in Nat
      BY <1>a, <1>11 DEF BasicFails, OtherTypes, Checks, StateOrNil
    <2> HIDE DEF r
    <2>4. failures' >= MaxFailures =>
            r.pc \in AtCounter \/ (failures' = failures /\ check[n].pc \notin AtCounter)
      BY <1>a, <1>11, <2>1 DEF BasicFails, AtCounter
    <2> QED
      BY <1>11, <2>1, <2>2, <2>3, <2>4, GoesOn DEF BasicFails
  <1>12. CASE ReadFailures(n)
    <2> DEFINE r == [check[n] EXCEPT !.count = failures + 1, !.pc = "counting"]
    <2>1. r \in Checks
      BY <1>a, <1>12 DEF ReadFailures, TypeOK, Checks, Steps, StateOrNil
    <2>2. r.pc \in {"counting"}
      BY <1>a, <1>12 DEF ReadFailures, Checks
    <2>3. check' = [check EXCEPT ![n] = r]
      BY <1>a, <1>12 DEF ReadFailures
    <2>4. Running(n) /\ check[n].pc \notin AtCounter
      BY <1>12 DEF ReadFailures, Running, AtCounter
    <2>5. OtherTypes' /\ failures' \in Nat
      BY <1>a, <1>12 DEF ReadFailures, OtherTypes
    <2> HIDE DEF r
    <2> QED
      BY <1>12, <2>1, <2>2, <2>3, <2>4, <2>5, GoesOn DEF ReadFailures
  <1>13. CASE WriteFailures(n)
    <2> DEFINE r == [NotRunning EXCEPT !.pc = "counted"]
    <2>1. r \in Checks /\ r.pc = "counted" /\ check' = [check EXCEPT ![n] = r]
      BY <1>a, <1>13, CheckTypes DEF WriteFailures, Leave, Steps
    <2>2. Running(n)
      BY <1>13 DEF WriteFailures, Running
    <2>3. OtherTypes' /\ failures' \in Nat
      BY <1>a, <1>13 DEF WriteFailures, OtherTypes, Checks, StateOrNil
    <2> HIDE DEF r
    <2>4. failures' >= MaxFailures =>
            r.pc \in AtCounter \/ (failures' = failures /\ check[n].pc \notin AtCounter)
      BY <1>a, <1>13, <2>1 DEF WriteFailures, AtCounter
    <2> QED
      BY <1>13, <2>1, <2>2, <2>3, <2>4, GoesOn DEF WriteFailures
  <1>14. CASE LimitReached(n)
    <2> DEFINE r == [check[n] EXCEPT !.pc = "limit"]
    <2>1. r \in Checks /\ r.pc = "limit" /\ check' = [check EXCEPT ![n] = r]
      BY <1>a, <1>14, CheckTypes DEF LimitReached, Goto, Steps
    <2>2. Running(n)
      BY <1>14 DEF LimitReached, Running
    <2>3. OtherTypes' /\ failures' \in Nat
      BY <1>a, <1>14 DEF LimitReached, OtherTypes, Checks, StateOrNil
    <2> HIDE DEF r
    <2>4. failures' >= MaxFailures =>
            r.pc \in AtCounter \/ (failures' = failures /\ check[n].pc \notin AtCounter)
      BY <1>a, <1>14, <2>1 DEF LimitReached, AtCounter
    <2> QED
      BY <1>14, <2>1, <2>2, <2>3, <2>4, GoesOn DEF LimitReached
  <1>15. CASE TolerateFailure(n)
    <2> DEFINE r == [NotRunning EXCEPT !.pc = "schedule"]
    <2>1. r \in Checks /\ r.pc = "schedule" /\ check' = [check EXCEPT ![n] = r]
      BY <1>a, <1>15, CheckTypes DEF TolerateFailure, Leave, Steps
    <2>2. Running(n)
      BY <1>15 DEF TolerateFailure, Running
    <2>3. OtherTypes' /\ failures' \in Nat
      BY <1>a, <1>15 DEF TolerateFailure, OtherTypes, Checks, StateOrNil
    <2> HIDE DEF r
    <2>4. failures' >= MaxFailures =>
            r.pc \in AtCounter \/ (failures' = failures /\ check[n].pc \notin AtCounter)
      BY <1>a, <1>15, <2>1 DEF TolerateFailure, AtCounter
    <2> QED
      BY <1>15, <2>1, <2>2, <2>3, <2>4, GoesOn DEF TolerateFailure
  <1>16. CASE ResetFailures(n)
    <2> DEFINE r == [check[n] EXCEPT !.pc = "unreachable"]
    <2>1. r \in Checks /\ r.pc = "unreachable" /\ check' = [check EXCEPT ![n] = r]
      BY <1>a, <1>16, CheckTypes DEF ResetFailures, Goto, Steps
    <2>2. Running(n)
      BY <1>16 DEF ResetFailures, Running
    <2>3. OtherTypes' /\ failures' \in Nat
      BY <1>a, <1>16 DEF ResetFailures, OtherTypes, Checks, StateOrNil
    <2> HIDE DEF r
    <2>4. failures' >= MaxFailures =>
            r.pc \in AtCounter \/ (failures' = failures /\ check[n].pc \notin AtCounter)
      BY <1>a, <1>16, <2>1 DEF ResetFailures, AtCounter
    <2> QED
      BY <1>16, <2>1, <2>2, <2>3, <2>4, GoesOn DEF ResetFailures
  <1>17. CASE ReportUnreachable(n)
    BY <1>a, <1>17, Ends DEF ReportUnreachable, Finish, OtherTypes, StateOrNil, AtCounter, TypeOK
  <1>18. CASE SucceedingReadResets(n)
    <2> DEFINE r == [check[n] EXCEPT !.pc = "store"]
    <2>1. r \in Checks /\ r.pc = "store" /\ check' = [check EXCEPT ![n] = r]
      BY <1>a, <1>18, CheckTypes DEF SucceedingReadResets, Goto, Steps
    <2>2. Running(n)
      BY <1>18 DEF SucceedingReadResets, Running
    <2>3. OtherTypes' /\ failures' \in Nat
      BY <1>a, <1>18 DEF SucceedingReadResets, OtherTypes, Checks, StateOrNil
    <2> HIDE DEF r
    <2>4. failures' >= MaxFailures =>
            r.pc \in AtCounter \/ (failures' = failures /\ check[n].pc \notin AtCounter)
      BY <1>a, <1>18, <2>1 DEF SucceedingReadResets, AtCounter
    <2> QED
      BY <1>18, <2>1, <2>2, <2>3, <2>4, GoesOn DEF SucceedingReadResets
  <1>19. CASE UpdateState(n)
    <2> DEFINE r == [check[n] EXCEPT !.pc = "decide"]
    <2>1. r \in Checks /\ r.pc = "decide" /\ check' = [check EXCEPT ![n] = r]
      BY <1>a, <1>19, CheckTypes DEF UpdateState, Goto, Steps
    <2>2. Running(n)
      BY <1>19 DEF UpdateState, Running
    <2>3. OtherTypes' /\ failures' \in Nat
      BY <1>a, <1>19 DEF UpdateState, OtherTypes, Checks, StateOrNil
    <2> HIDE DEF r
    <2>4. failures' >= MaxFailures =>
            r.pc \in AtCounter \/ (failures' = failures /\ check[n].pc \notin AtCounter)
      BY <1>a, <1>19, <2>1 DEF UpdateState, AtCounter
    <2> QED
      BY <1>19, <2>1, <2>2, <2>3, <2>4, GoesOn DEF UpdateState
  <1>20. CASE ReportStateChange(n)
    <2> DEFINE r == [NotRunning EXCEPT !.pc = "schedule"]
    <2>1. r \in Checks /\ r.pc = "schedule" /\ check' = [check EXCEPT ![n] = r]
      BY <1>a, <1>20, CheckTypes DEF ReportStateChange, Leave, Steps
    <2>2. Running(n)
      BY <1>20 DEF ReportStateChange, Running
    <2>3. OtherTypes' /\ failures' \in Nat
      BY <1>a, <1>20 DEF ReportStateChange, OtherTypes, Checks, StateOrNil
    <2> HIDE DEF r
    <2>4. failures' >= MaxFailures =>
            r.pc \in AtCounter \/ (failures' = failures /\ check[n].pc \notin AtCounter)
      BY <1>a, <1>20, <2>1 DEF ReportStateChange, AtCounter
    <2> QED
      BY <1>20, <2>1, <2>2, <2>3, <2>4, GoesOn DEF ReportStateChange
  <1>21. CASE ReportRestart(n)
    BY <1>a, <1>21, Ends DEF ReportRestart, Finish, OtherTypes, StateOrNil, AtCounter, TypeOK
  <1>22. CASE NothingChanged(n)
    <2> DEFINE r == [NotRunning EXCEPT !.pc = "schedule"]
    <2>1. r \in Checks /\ r.pc = "schedule" /\ check' = [check EXCEPT ![n] = r]
      BY <1>a, <1>22, CheckTypes DEF NothingChanged, Leave, Steps
    <2>2. Running(n)
      BY <1>22 DEF NothingChanged, Running
    <2>3. OtherTypes' /\ failures' \in Nat
      BY <1>a, <1>22 DEF NothingChanged, OtherTypes, Checks, StateOrNil
    <2> HIDE DEF r
    <2>4. failures' >= MaxFailures =>
            r.pc \in AtCounter \/ (failures' = failures /\ check[n].pc \notin AtCounter)
      BY <1>a, <1>22, <2>1 DEF NothingChanged, AtCounter
    <2> QED
      BY <1>22, <2>1, <2>2, <2>3, <2>4, GoesOn DEF NothingChanged
  <1>23. CASE ScheduleNext(n)
    <2>1. CASE n # statePollerID
      BY <1>a, <1>23, <2>1, Ends DEF ScheduleNext, Finish, OtherTypes, AtCounter, TypeOK
    <2>2. CASE n = statePollerID
      <3> USE <1>23, <2>2 DEF ScheduleNext, Finish
      <3>1. armed' = {n} /\ statePollerTimer' = n /\ statePollerID' = n
        BY DEF TimerInv, TypeOK, OneTimer, Running
      <3>2. /\ check' = [check EXCEPT ![n] = NotRunning]
            /\ NotRunning \in Checks /\ NotRunning.pc = "idle"
        BY <1>a, CheckTypes
      <3>3. check'[n] = NotRunning /\ \A m \in Pollers \ {n} : check'[m] = check[m]
        BY <1>a, <3>2
      <3>4. TypeOK'
        BY <3>1, <3>2 DEF TimerInv, TypeOK, Pollers
      <3>5. PollersStarted' /\ OneTimer' /\ NoSilentStop'
        BY <3>1, <3>2, <3>3
           DEF TimerInv, TypeOK, PollersStarted, OneTimer, NoSilentStop, Running, Pollers
      <3>6. LimitIsActedOn'
        BY <3>3 DEF TimerInv, LimitIsActedOn
      <3> QED
        BY <3>4, <3>5, <3>6 DEF TimerInv
    <2> QED
      BY <2>1, <2>2
  <1> QED
    BY <1>1, <1>2, <1>3, <1>4, <1>5, <1>6, <1>7, <1>8, <1>9, <1>10, <1>11, <1>12, <1>13, <1>14,
       <1>15, <1>16, <1>17, <1>18, <1>19, <1>20, <1>21, <1>22, <1>23 DEF CheckStep

LEMMA NextTimerInv == TimerInv /\ [Next]_vars => TimerInv'
  <1> SUFFICES ASSUME TimerInv, [Next]_vars PROVE TimerInv'
    OBVIOUS
  <1>1. CASE ReachabilityChanges \/ App \/ \E s \in AdsStates, i \in Indexes : PlcChanges(s, i)
    BY <1>1, SessionTimerInv
  <1>2. ASSUME NEW n \in Pollers, TimerFires(n) PROVE TimerInv'
    BY <1>2, TimerFiresTimerInv
  <1>3. ASSUME NEW n \in Pollers, CheckStep(n) PROVE TimerInv'
    BY <1>3, CheckStepTimerInv
  <1>4. CASE UNCHANGED vars
    BY <1>4 DEF vars, TimerInv, TypeOK, PollersStarted, OneTimer, NoSilentStop, LimitIsActedOn,
                Running
  <1> QED
    BY <1>1, <1>2, <1>3, <1>4 DEF Next

-----------------------------------------------------------------------------
(* The theorems.                                                            *)

\* The inductive invariant of the state poller (client_state.go:19-229).
THEOREM Invariance == SafeSpec => []TimerInv
  BY InitTimerInv, NextTimerInv, PTL DEF SafeSpec

\* The poller's variables, and those of every running check, keep their types;
\* consecutiveReadFailures never becomes negative, but has no other bound
\* (client_state.go:150, 158, 171).
THEOREM TypeCorrect == SafeSpec => []TypeOK
  BY Invariance, PTL DEF TimerInv

\* The poller ID prevents multiple timers (client.go:37, client_state.go:36).
THEOREM AtMostOneTimer == SafeSpec => []OneTimer
  BY Invariance, PTL DEF TimerInv

\* The current poller of a session polls on until it has called OnConnectionLost
\* (client_state.go:162, 166, 205, 209).
THEOREM PollingGoesOn == SafeSpec => []NoSilentStop
  BY Invariance, PTL DEF TimerInv

\* A counter at or beyond its limit always has a check that is about to compare
\* it or has found it there, however many checks count without a lock
\* (client_state.go:150-158).
THEOREM LimitsAreActedOn == SafeSpec => []LimitIsActedOn
  BY Invariance, PTL DEF TimerInv
=============================================================================
