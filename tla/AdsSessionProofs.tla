-------------------------- MODULE AdsSessionProofs --------------------------
(***************************************************************************)
(* Proofs about AdsSession, for any number of connections.  Client.conn is    *)
(* always the connection dialled last, and a receive goroutine's connection    *)
(* was dialled no later; so a goroutine on its way out holds a connection that  *)
(* is lost, closed or superseded, and its Close hurts nobody.                 *)
(***************************************************************************)
EXTENDS AdsSession, TLAPS

Receiving == {"reading", "got", "writing", "broken", "closing"}

\* Nothing runs before the first dial.
Begun ==
  conn = 0 => /\ at["app"] \in {"dial", "down"} /\ at["loop"] = "off"
              /\ losses = [by \in Reporters |-> 0] /\ ~poller
              /\ \A k \in Conns : receiver[k] = "none"

\* A receive goroutine was started for a connection that was dialled and holds that
\* one or a later one, and what is over is over.
Captured ==
  \A k \in Conns :
    /\ receiver[k] # "none" => k <= conn
    /\ receiver[k] \in Receiving =>
         /\ mine[k] \in k .. conn
         /\ receiver[k] = "broken" => socket[mine[k]] # "open"
         /\ receiver[k] = "closing" => socket[mine[k]] # "open" \/ mine[k] # conn

IInv == TypeOK /\ conn = dialled /\ Begun /\ Captured

LEMMA Numbers ==
  /\ MaxConn \in Nat \ {0} /\ 0 \in 0 .. MaxConn
  /\ \A n \in 0 .. MaxConn : n # 0 => n \in Conns
  /\ \A n \in 0 .. MaxConn : n < MaxConn => n + 1 \in Conns /\ n + 1 \in 0 .. MaxConn /\ n + 1 # 0
  /\ \A k \in Conns : k \in 0 .. MaxConn
  /\ \A n \in 0 .. MaxConn : \A k \in 1 .. n : k \in Conns /\ k # n + 1 /\ k \in 1 .. n + 1
  /\ \A n \in 0 .. MaxConn : n # 0 => n \in 1 .. n
  /\ \A n \in 0 .. MaxConn : \A k \in Conns : \A m \in k .. n : m \in 1 .. n
  BY SessionAssumption DEF Conns

\* Hooks are counted as they start and as they run.
LEMMA Counts ==
  ASSUME TypeOK, NEW by \in Reporters
  PROVE  /\ losses[by] \in Nat
         /\ [losses EXCEPT ![by] = @ + 1] \in [Reporters -> Nat]
         /\ losses[by] > 0 => [losses EXCEPT ![by] = @ - 1] \in [Reporters -> Nat]
  BY DEF TypeOK

LEMMA InitIsInv ==
  ASSUME Init
  PROVE  IInv
  <1>1. TypeOK
    BY Numbers DEF Init, TypeOK, Callers
  <1> QED
    BY <1>1 DEF Init, IInv, Begun, Captured, Receiving, Callers

LEMMA DialKeeps ==
  ASSUME IInv, NEW p \in Callers, Dial(p)
  PROVE  IInv'
  <1> USE DEF Dial, Goto, appVars, hookVars, receiveVars
  <1>0. conn' = dialled + 1 /\ dialled + 1 \in Conns /\ conn' # 0
    BY Numbers DEF IInv, TypeOK
  <1>1. TypeOK'
    BY <1>0, Numbers DEF IInv, TypeOK, Callers
  <1>2. (conn = dialled)'
    BY DEF IInv
  <1>3. Begun'
    BY <1>0, Numbers DEF IInv, TypeOK, Begun, Callers
  <1>4. Captured'
    BY <1>0, Numbers DEF IInv, TypeOK, Captured, Begun, Receiving
  <1> QED
    BY <1>1, <1>2, <1>3, <1>4 DEF IInv

LEMMA ResetBufferKeeps ==
  ASSUME IInv, NEW p \in Callers, ResetBuffer(p)
  PROVE  IInv'
  <1> USE DEF ResetBuffer, Goto, appVars, hookVars, receiveVars
  <1>1. TypeOK'
    BY Numbers DEF IInv, TypeOK, Callers
  <1>2. (conn = dialled)'
    BY DEF IInv
  <1>3. Begun'
    BY Numbers DEF IInv, TypeOK, Begun, Callers
  <1>4. Captured'
    BY Numbers DEF IInv, TypeOK, Captured, Begun, Receiving
  <1> QED
    BY <1>1, <1>2, <1>3, <1>4 DEF IInv

LEMMA RegisterKeeps ==
  ASSUME IInv, NEW p \in Callers, Register(p)
  PROVE  IInv'
  <1> USE DEF Register, Goto, appVars, hookVars, receiveVars
  <1>1. TypeOK'
    BY Numbers DEF IInv, TypeOK, Callers
  <1>2. (conn = dialled)'
    BY DEF IInv
  <1>3. Begun'
    BY Numbers DEF IInv, TypeOK, Begun, Callers
  <1>4. Captured'
    BY Numbers DEF IInv, TypeOK, Captured, Begun, Receiving
  <1> QED
    BY <1>1, <1>2, <1>3, <1>4 DEF IInv

LEMMA RegisterFailsKeeps ==
  ASSUME IInv, NEW p \in Callers, RegisterFails(p)
  PROVE  IInv'
  <1> USE DEF RegisterFails, Goto, appVars, hookVars, receiveVars
  <1>1. TypeOK'
    BY Numbers DEF IInv, TypeOK, Callers
  <1>2. (conn = dialled)'
    BY DEF IInv
  <1>3. Begun'
    BY Numbers DEF IInv, TypeOK, Begun, Callers
  <1>4. Captured'
    BY Numbers DEF IInv, TypeOK, Captured, Begun, Receiving
  <1> QED
    BY <1>1, <1>2, <1>3, <1>4 DEF IInv

LEMMA FinishConnectKeeps ==
  ASSUME IInv, NEW p \in Callers, FinishConnect(p)
  PROVE  IInv'
  <1> USE DEF FinishConnect, Goto, appVars, hookVars, receiveVars
  <1>1. TypeOK'
    BY Numbers DEF IInv, TypeOK, Callers
  <1>2. (conn = dialled)'
    BY DEF IInv
  <1>3. Begun'
    BY Numbers DEF IInv, TypeOK, Begun, Callers
  <1>4. Captured'
    BY Numbers DEF IInv, TypeOK, Captured, Begun, Receiving
  <1> QED
    BY <1>1, <1>2, <1>3, <1>4 DEF IInv

LEMMA DisconnectKeeps ==
  ASSUME IInv, Disconnect
  PROVE  IInv'
  <1> USE DEF Disconnect, Goto, appVars, hookVars, receiveVars
  <1>1. TypeOK'
    BY Numbers DEF IInv, TypeOK, Callers
  <1>2. (conn = dialled)'
    BY DEF IInv
  <1>3. Begun'
    BY Numbers DEF IInv, TypeOK, Begun, Callers
  <1>4. Captured'
    BY Numbers DEF IInv, TypeOK, Captured, Begun, Receiving
  <1> QED
    BY <1>1, <1>2, <1>3, <1>4 DEF IInv

LEMMA SayGoodbyeKeeps ==
  ASSUME IInv, SayGoodbye
  PROVE  IInv'
  <1> USE DEF SayGoodbye, Goto, appVars, hookVars, receiveVars
  <1>1. TypeOK'
    BY Numbers DEF IInv, TypeOK, Callers
  <1>2. (conn = dialled)'
    BY DEF IInv
  <1>3. Begun'
    BY Numbers DEF IInv, TypeOK, Begun, Callers
  <1>4. Captured'
    BY Numbers DEF IInv, TypeOK, Captured, Begun, Receiving
  <1> QED
    BY <1>1, <1>2, <1>3, <1>4 DEF IInv

LEMMA CloseConnKeeps ==
  ASSUME IInv, CloseConn
  PROVE  IInv'
  <1> USE DEF CloseConn, Goto, appVars, hookVars, receiveVars
  <1>1. TypeOK'
    BY Numbers DEF IInv, TypeOK, Callers
  <1>2. (conn = dialled)'
    BY DEF IInv
  <1>3. Begun'
    BY Numbers DEF IInv, TypeOK, Begun, Callers
  <1>4. Captured'
    BY Numbers DEF IInv, TypeOK, Captured, Begun, Receiving
  <1> QED
    BY <1>1, <1>2, <1>3, <1>4 DEF IInv

LEMMA CaptureKeeps ==
  ASSUME IInv, NEW k \in Conns, Capture(k)
  PROVE  IInv'
  <1> USE DEF Capture, Goto, appVars, hookVars, receiveVars
  <1>0. conn \in Conns /\ conn \in 1 .. conn
    BY Numbers DEF IInv, TypeOK, Begun
  <1>1. TypeOK'
    BY <1>0, Numbers DEF IInv, TypeOK, Callers
  <1>2. (conn = dialled)'
    BY DEF IInv
  <1>3. Begun'
    BY <1>0, Numbers DEF IInv, TypeOK, Begun, Callers
  <1>4. Captured'
    BY <1>0, Numbers DEF IInv, TypeOK, Captured, Begun, Receiving
  <1> QED
    BY <1>1, <1>2, <1>3, <1>4 DEF IInv

LEMMA ReadKeeps ==
  ASSUME IInv, NEW k \in Conns, Read(k)
  PROVE  IInv'
  <1> USE DEF Read, Goto, appVars, hookVars, receiveVars
  <1>0. mine[k] \in Conns /\ mine[k] \in 1 .. conn
    BY Numbers DEF IInv, TypeOK, Captured, Receiving
  <1>1. TypeOK'
    BY <1>0, Numbers DEF IInv, TypeOK, Callers
  <1>2. (conn = dialled)'
    BY DEF IInv
  <1>3. Begun'
    BY <1>0, Numbers DEF IInv, TypeOK, Begun, Callers
  <1>4. Captured'
    BY <1>0, Numbers DEF IInv, TypeOK, Captured, Begun, Receiving
  <1> QED
    BY <1>1, <1>2, <1>3, <1>4 DEF IInv

LEMMA ReadFailsKeeps ==
  ASSUME IInv, NEW k \in Conns, ReadFails(k)
  PROVE  IInv'
  <1> USE DEF ReadFails, Goto, appVars, hookVars, receiveVars
  <1>0. mine[k] \in Conns /\ mine[k] \in 1 .. conn
    BY Numbers DEF IInv, TypeOK, Captured, Receiving
  <1>1. TypeOK'
    BY <1>0, Numbers DEF IInv, TypeOK, Callers
  <1>2. (conn = dialled)'
    BY DEF IInv
  <1>3. Begun'
    BY <1>0, Numbers DEF IInv, TypeOK, Begun, Callers
  <1>4. Captured'
    BY <1>0, Numbers DEF IInv, TypeOK, Captured, Begun, Receiving
  <1> QED
    BY <1>1, <1>2, <1>3, <1>4 DEF IInv

LEMMA CheckOwnerKeeps ==
  ASSUME IInv, NEW k \in Conns, CheckOwner(k)
  PROVE  IInv'
  <1> USE DEF CheckOwner, Goto, appVars, hookVars, receiveVars
  <1>0. mine[k] \in Conns /\ mine[k] \in 1 .. conn
    BY Numbers DEF IInv, TypeOK, Captured, Receiving
  <1>1. TypeOK'
    BY <1>0, Numbers DEF IInv, TypeOK, Callers
  <1>2. (conn = dialled)'
    BY DEF IInv
  <1>3. Begun'
    BY <1>0, Numbers DEF IInv, TypeOK, Begun, Callers
  <1>4. Captured'
    BY <1>0, Numbers DEF IInv, TypeOK, Captured, Begun, Receiving
  <1> QED
    BY <1>1, <1>2, <1>3, <1>4 DEF IInv

LEMMA WriteKeeps ==
  ASSUME IInv, NEW k \in Conns, Write(k)
  PROVE  IInv'
  <1> USE DEF Write, Goto, appVars, hookVars, receiveVars
  <1>0. mine[k] \in Conns /\ mine[k] \in 1 .. conn
    BY Numbers DEF IInv, TypeOK, Captured, Receiving
  <1>1. TypeOK'
    BY <1>0, Numbers DEF IInv, TypeOK, Callers
  <1>2. (conn = dialled)'
    BY DEF IInv
  <1>3. Begun'
    BY <1>0, Numbers DEF IInv, TypeOK, Begun, Callers
  <1>4. Captured'
    BY <1>0, Numbers DEF IInv, TypeOK, Captured, Begun, Receiving
  <1> QED
    BY <1>1, <1>2, <1>3, <1>4 DEF IInv

LEMMA ReportLossKeeps ==
  ASSUME IInv, NEW k \in Conns, ReportLoss(k)
  PROVE  IInv'
  <1> USE DEF ReportLoss, Goto, appVars, hookVars, receiveVars
  <1>0. mine[k] \in Conns /\ mine[k] \in 1 .. conn
    BY Numbers DEF IInv, TypeOK, Captured, Receiving
  <1>a. losses' \in [Reporters -> Nat]
    BY Counts DEF IInv, TypeOK, Reporters
  <1>1. TypeOK'
    BY <1>0, <1>a DEF IInv, TypeOK, Callers
  <1>2. (conn = dialled)'
    BY DEF IInv
  <1>3. Begun'
    BY <1>0, Numbers DEF IInv, TypeOK, Begun, Callers
  <1>4. Captured'
    BY <1>0, Numbers DEF IInv, TypeOK, Captured, Begun, Receiving
  <1> QED
    BY <1>1, <1>2, <1>3, <1>4 DEF IInv

LEMMA CloseMineKeeps ==
  ASSUME IInv, NEW k \in Conns, CloseMine(k)
  PROVE  IInv'
  <1> USE DEF CloseMine, Goto, appVars, hookVars, receiveVars
  <1>0. mine[k] \in Conns /\ mine[k] \in 1 .. conn
    BY Numbers DEF IInv, TypeOK, Captured, Receiving
  <1>1. TypeOK'
    BY <1>0, Numbers DEF IInv, TypeOK, Callers
  <1>2. (conn = dialled)'
    BY DEF IInv
  <1>3. Begun'
    BY <1>0, Numbers DEF IInv, TypeOK, Begun, Callers
  <1>4. Captured'
    BY <1>0, Numbers DEF IInv, TypeOK, Captured, Begun, Receiving
  <1> QED
    BY <1>1, <1>2, <1>3, <1>4 DEF IInv

LEMMA PollerReportsKeeps ==
  ASSUME IInv, PollerReports
  PROVE  IInv'
  <1> USE DEF PollerReports, Goto, appVars, hookVars, receiveVars
  <1>0. conn \in Conns
    BY Numbers DEF IInv, TypeOK, Begun
  <1>a. losses' \in [Reporters -> Nat]
    BY Counts DEF IInv, Reporters
  <1>1. TypeOK'
    BY <1>0, <1>a DEF IInv, TypeOK, Callers
  <1>2. (conn = dialled)'
    BY DEF IInv
  <1>3. Begun'
    BY <1>0, <1>a DEF IInv, TypeOK, Begun, Callers
  <1>4. Captured'
    BY <1>0, <1>a DEF IInv, TypeOK, Captured, Begun, Receiving
  <1> QED
    BY <1>1, <1>2, <1>3, <1>4 DEF IInv

LEMMA OnConnectionLostKeeps ==
  ASSUME IInv, NEW by \in Reporters, OnConnectionLost(by)
  PROVE  IInv'
  <1> USE DEF OnConnectionLost, Goto, appVars, hookVars, receiveVars
  <1>1. TypeOK'
    BY Numbers DEF IInv, TypeOK, Callers
  <1>2. (conn = dialled)'
    BY DEF IInv
  <1>3. Begun'
    BY Numbers DEF IInv, TypeOK, Begun, Callers
  <1>4. Captured'
    BY Numbers DEF IInv, TypeOK, Captured, Begun, Receiving
  <1> QED
    BY <1>1, <1>2, <1>3, <1>4 DEF IInv

LEMMA OnDisconnectKeeps ==
  ASSUME IInv, OnDisconnect
  PROVE  IInv'
  <1> USE DEF OnDisconnect, Goto, appVars, hookVars, receiveVars
  <1>1. TypeOK'
    BY Numbers DEF IInv, TypeOK, Callers
  <1>2. (conn = dialled)'
    BY DEF IInv
  <1>3. Begun'
    BY Numbers DEF IInv, TypeOK, Begun, Callers
  <1>4. Captured'
    BY Numbers DEF IInv, TypeOK, Captured, Begun, Receiving
  <1> QED
    BY <1>1, <1>2, <1>3, <1>4 DEF IInv

LEMMA PeerDropsKeeps ==
  ASSUME IInv, NEW k \in Conns, PeerDrops(k)
  PROVE  IInv'
  <1> USE DEF PeerDrops, Goto, appVars, hookVars, receiveVars
  <1>1. TypeOK'
    BY Numbers DEF IInv, TypeOK, Callers
  <1>2. (conn = dialled)'
    BY DEF IInv
  <1>3. Begun'
    BY Numbers DEF IInv, TypeOK, Begun, Callers
  <1>4. Captured'
    BY Numbers DEF IInv, TypeOK, Captured, Begun, Receiving
  <1> QED
    BY <1>1, <1>2, <1>3, <1>4 DEF IInv

LEMMA Step ==
  ASSUME IInv, [Next]_vars
  PROVE  IInv'
  <1>1. ASSUME NEW p \in Callers, Dial(p) PROVE IInv'
    BY <1>1, DialKeeps
  <1>2. ASSUME NEW p \in Callers, ResetBuffer(p) PROVE IInv'
    BY <1>2, ResetBufferKeeps
  <1>3. ASSUME NEW p \in Callers, Register(p) PROVE IInv'
    BY <1>3, RegisterKeeps
  <1>4. ASSUME NEW p \in Callers, RegisterFails(p) PROVE IInv'
    BY <1>4, RegisterFailsKeeps
  <1>5. ASSUME NEW p \in Callers, FinishConnect(p) PROVE IInv'
    BY <1>5, FinishConnectKeeps
  <1>6. CASE Disconnect
    BY <1>6, DisconnectKeeps
  <1>7. CASE SayGoodbye
    BY <1>7, SayGoodbyeKeeps
  <1>8. CASE CloseConn
    BY <1>8, CloseConnKeeps
  <1>9. ASSUME NEW k \in Conns, Capture(k) PROVE IInv'
    BY <1>9, CaptureKeeps
  <1>10. ASSUME NEW k \in Conns, Read(k) PROVE IInv'
    BY <1>10, ReadKeeps
  <1>11. ASSUME NEW k \in Conns, ReadFails(k) PROVE IInv'
    BY <1>11, ReadFailsKeeps
  <1>12. ASSUME NEW k \in Conns, CheckOwner(k) PROVE IInv'
    BY <1>12, CheckOwnerKeeps
  <1>13. ASSUME NEW k \in Conns, Write(k) PROVE IInv'
    BY <1>13, WriteKeeps
  <1>14. ASSUME NEW k \in Conns, ReportLoss(k) PROVE IInv'
    BY <1>14, ReportLossKeeps
  <1>15. ASSUME NEW k \in Conns, CloseMine(k) PROVE IInv'
    BY <1>15, CloseMineKeeps
  <1>16. CASE PollerReports
    BY <1>16, PollerReportsKeeps
  <1>17. ASSUME NEW by \in Reporters, OnConnectionLost(by) PROVE IInv'
    BY <1>17, OnConnectionLostKeeps
  <1>18. CASE OnDisconnect
    BY <1>18, OnDisconnectKeeps
  <1>19. ASSUME NEW k \in Conns, PeerDrops(k) PROVE IInv'
    BY <1>19, PeerDropsKeeps
  <1>20. CASE UNCHANGED vars
    BY <1>20 DEF IInv, TypeOK, Begun, Captured, vars
  <1> QED
    BY <1>1, <1>2, <1>3, <1>4, <1>5, <1>6, <1>7, <1>8, <1>9, <1>10, <1>11, <1>12, <1>13, <1>14, <1>15, <1>16, <1>17, <1>18, <1>19, <1>20
       DEF Next, ConnectStep, DisconnectStep, Receive

\* c.conn is the connection dialled last, and a receive goroutine that has captured
\* a connection holds the one it was started for or a later one
\* (client_connect.go:30-48, client_buffer.go:14-24).
THEOREM Invariance == Spec => []IInv
  BY InitIsInv, Step, PTL DEF Spec, SafeSpec

\* The types of the state (client.go:25-57, cmd/main.go:60-125).
THEOREM TypeCorrect == Spec => []TypeOK
  BY Invariance, PTL DEF IInv

LEMMA OnlyCloseMineEnds ==
  ASSUME IInv, [Next]_vars, NEW k \in Conns, receiver[k] = "closing", receiver'[k] = "done"
  PROVE  socket' = [socket EXCEPT ![mine[k]] = "closed"]
  <1>1. ASSUME NEW p \in Callers, Dial(p) PROVE receiver'[k] # "done"
    BY <1>1 DEF Dial, receiveVars, IInv, TypeOK
  <1>2. ASSUME NEW p \in Callers, ResetBuffer(p) PROVE receiver'[k] # "done"
    BY <1>2 DEF ResetBuffer, receiveVars, IInv, TypeOK
  <1>3. ASSUME NEW p \in Callers, Register(p) PROVE receiver'[k] # "done"
    BY <1>3 DEF Register, receiveVars, IInv, TypeOK
  <1>4. ASSUME NEW p \in Callers, RegisterFails(p) PROVE receiver'[k] # "done"
    BY <1>4 DEF RegisterFails, receiveVars, IInv, TypeOK
  <1>5. ASSUME NEW p \in Callers, FinishConnect(p) PROVE receiver'[k] # "done"
    BY <1>5 DEF FinishConnect, receiveVars, IInv, TypeOK
  <1>6. CASE Disconnect
    BY <1>6 DEF Disconnect, receiveVars, IInv, TypeOK
  <1>7. CASE SayGoodbye
    BY <1>7 DEF SayGoodbye, receiveVars, IInv, TypeOK
  <1>8. CASE CloseConn
    BY <1>8 DEF CloseConn, receiveVars, IInv, TypeOK
  <1>9. ASSUME NEW j \in Conns, Capture(j) PROVE receiver'[k] # "done"
    BY <1>9 DEF Capture, receiveVars, IInv, TypeOK
  <1>10. ASSUME NEW j \in Conns, Read(j) PROVE receiver'[k] # "done"
    BY <1>10 DEF Read, receiveVars, IInv, TypeOK
  <1>11. ASSUME NEW j \in Conns, ReadFails(j) PROVE receiver'[k] # "done"
    BY <1>11 DEF ReadFails, receiveVars, IInv, TypeOK
  <1>12. ASSUME NEW j \in Conns, CheckOwner(j) PROVE receiver'[k] # "done"
    BY <1>12 DEF CheckOwner, receiveVars, IInv, TypeOK
  <1>13. ASSUME NEW j \in Conns, Write(j) PROVE receiver'[k] # "done"
    BY <1>13 DEF Write, receiveVars, IInv, TypeOK
  <1>14. ASSUME NEW j \in Conns, ReportLoss(j) PROVE receiver'[k] # "done"
    BY <1>14 DEF ReportLoss, receiveVars, IInv, TypeOK
  <1>15. ASSUME NEW j \in Conns, CloseMine(j) PROVE socket' = [socket EXCEPT ![mine[k]] = "closed"]
    BY <1>15 DEF CloseMine, receiveVars, IInv, TypeOK
  <1>16. CASE PollerReports
    BY <1>16 DEF PollerReports, receiveVars, IInv, TypeOK
  <1>17. ASSUME NEW by \in Reporters, OnConnectionLost(by) PROVE receiver'[k] # "done"
    BY <1>17 DEF OnConnectionLost, receiveVars, IInv, TypeOK
  <1>18. CASE OnDisconnect
    BY <1>18 DEF OnDisconnect, receiveVars, IInv, TypeOK
  <1>19. ASSUME NEW j \in Conns, PeerDrops(j) PROVE receiver'[k] # "done"
    BY <1>19 DEF PeerDrops, receiveVars, IInv, TypeOK
  <1>20. CASE UNCHANGED vars
    BY <1>20 DEF vars
  <1> QED
    BY <1>1, <1>2, <1>3, <1>4, <1>5, <1>6, <1>7, <1>8, <1>9, <1>10, <1>11, <1>12, <1>13, <1>14, <1>15, <1>16, <1>17, <1>18, <1>19, <1>20
       DEF Next, ConnectStep, DisconnectStep, Receive

\* The step by which a receive goroutine ends, its deferred Close, leaves a current
\* connection that works open, even if the goroutine captured c.conn late
\* (client_buffer.go:14-24).  It says nothing of Connect's and Disconnect's Close.
THEOREM CloseIsHarmless == Spec => NewConnectionSurvives
  <1>1. ASSUME IInv, [Next]_vars
        PROVE  [ \A k \in Conns :
                   /\ receiver[k] = "closing" /\ receiver'[k] = "done"
                   /\ socket[conn] = "open"
                   => socket'[conn] = "open" ]_vars
    <2> SUFFICES ASSUME NEW k \in Conns, receiver[k] = "closing", receiver'[k] = "done",
                        socket[conn] = "open"
                 PROVE  socket'[conn] = "open"
      OBVIOUS
    <2>1. socket' = [socket EXCEPT ![mine[k]] = "closed"]
      BY <1>1, OnlyCloseMineEnds
    <2>2. mine[k] # conn
      BY <1>1 DEF IInv, Captured, Receiving
    <2> QED
      BY <1>1, <2>1, <2>2 DEF IInv, TypeOK
  <1> QED
    BY <1>1, Invariance, PTL DEF Spec, SafeSpec, NewConnectionSurvives

-----------------------------------------------------------------------------
(* Somebody notices a loss.                                                 *)

\* Before Disconnect has come to its hook, nothing is called graceful.
NotLeaving == at["app"] \notin {"close", "down"} => goodbye = "none" /\ ~graceful

WatchInv == TypeOK /\ NotLeaving /\ LossIsNoticed

LEMMA WatchStep ==
  ASSUME WatchInv, TypeOK', [Next]_vars
  PROVE  WatchInv'
  <1> USE DEF Goto, appVars, hookVars, receiveVars
  <1>0. "app" \in Callers /\ "loop" \in Callers /\ "app" # "loop"
    BY DEF Callers
  <1>1. ASSUME NEW p \in Callers, Dial(p) PROVE NotLeaving' /\ LossIsNoticed'
    BY <1>0, <1>1 DEF Dial, WatchInv, TypeOK, NotLeaving, LossIsNoticed
  <1>2. ASSUME NEW p \in Callers, ResetBuffer(p) PROVE NotLeaving' /\ LossIsNoticed'
    BY <1>0, <1>2 DEF ResetBuffer, WatchInv, TypeOK, NotLeaving, LossIsNoticed
  <1>3. ASSUME NEW p \in Callers, Register(p) PROVE NotLeaving' /\ LossIsNoticed'
    BY <1>0, <1>3 DEF Register, WatchInv, TypeOK, NotLeaving, LossIsNoticed
  <1>4. ASSUME NEW p \in Callers, RegisterFails(p) PROVE NotLeaving' /\ LossIsNoticed'
    BY <1>0, <1>4 DEF RegisterFails, WatchInv, TypeOK, NotLeaving, LossIsNoticed
  <1>5. ASSUME NEW p \in Callers, FinishConnect(p) PROVE NotLeaving' /\ LossIsNoticed'
    BY <1>0, <1>5 DEF FinishConnect, WatchInv, TypeOK, NotLeaving, LossIsNoticed
  <1>6. CASE Disconnect
    BY <1>0, <1>6 DEF Disconnect, WatchInv, TypeOK, NotLeaving, LossIsNoticed
  <1>7. CASE SayGoodbye
    BY <1>0, <1>7 DEF SayGoodbye, WatchInv, TypeOK, NotLeaving, LossIsNoticed
  <1>8. CASE CloseConn
    BY <1>0, <1>8 DEF CloseConn, WatchInv, TypeOK, NotLeaving, LossIsNoticed
  <1>9. ASSUME NEW k \in Conns, Capture(k) PROVE NotLeaving' /\ LossIsNoticed'
    BY <1>0, <1>9 DEF Capture, WatchInv, TypeOK, NotLeaving, LossIsNoticed
  <1>10. ASSUME NEW k \in Conns, Read(k) PROVE NotLeaving' /\ LossIsNoticed'
    BY <1>0, <1>10 DEF Read, WatchInv, TypeOK, NotLeaving, LossIsNoticed
  <1>11. ASSUME NEW k \in Conns, ReadFails(k) PROVE NotLeaving' /\ LossIsNoticed'
    BY <1>0, <1>11 DEF ReadFails, WatchInv, TypeOK, NotLeaving, LossIsNoticed
  <1>12. ASSUME NEW k \in Conns, CheckOwner(k) PROVE NotLeaving' /\ LossIsNoticed'
    BY <1>0, <1>12 DEF CheckOwner, WatchInv, TypeOK, NotLeaving, LossIsNoticed
  <1>13. ASSUME NEW k \in Conns, Write(k) PROVE NotLeaving' /\ LossIsNoticed'
    BY <1>0, <1>13 DEF Write, WatchInv, TypeOK, NotLeaving, LossIsNoticed
  <1>14. ASSUME NEW k \in Conns, ReportLoss(k) PROVE NotLeaving' /\ LossIsNoticed'
    BY <1>0, <1>14 DEF ReportLoss, WatchInv, TypeOK, NotLeaving, LossIsNoticed
  <1>15. ASSUME NEW k \in Conns, CloseMine(k) PROVE NotLeaving' /\ LossIsNoticed'
    BY <1>0, <1>15 DEF CloseMine, WatchInv, TypeOK, NotLeaving, LossIsNoticed
  <1>16. CASE PollerReports
    BY <1>0, <1>16 DEF PollerReports, WatchInv, TypeOK, NotLeaving, LossIsNoticed
  <1>17. ASSUME NEW by \in Reporters, OnConnectionLost(by) PROVE NotLeaving' /\ LossIsNoticed'
    BY <1>0, <1>17 DEF OnConnectionLost, WatchInv, TypeOK, NotLeaving, LossIsNoticed
  <1>18. CASE OnDisconnect
    BY <1>0, <1>18 DEF OnDisconnect, WatchInv, TypeOK, NotLeaving, LossIsNoticed
  <1>19. ASSUME NEW k \in Conns, PeerDrops(k) PROVE NotLeaving' /\ LossIsNoticed'
    BY <1>0, <1>19 DEF PeerDrops, WatchInv, TypeOK, NotLeaving, LossIsNoticed
  <1>20. CASE UNCHANGED vars
    BY <1>0, <1>20 DEF vars, WatchInv, TypeOK, NotLeaving, LossIsNoticed
  <1> QED
    BY <1>1, <1>2, <1>3, <1>4, <1>5, <1>6, <1>7, <1>8, <1>9, <1>10,
       <1>11, <1>12, <1>13, <1>14, <1>15, <1>16, <1>17, <1>18, <1>19, <1>20
       DEF Next, ConnectStep, DisconnectStep, Receive, WatchInv

\* Until the user disconnects, the poller runs, or a loop that will start it, or
\* its last report is still to be heard, whatever is dropped at TryLock
\* (cmd/main.go:91-104, client_connect.go:76).
THEOREM LossesAreNoticed == Spec => []LossIsNoticed
  <1>1. Init => NotLeaving /\ LossIsNoticed
    BY DEF Init, NotLeaving, LossIsNoticed, Callers
  <1>2. WatchInv /\ TypeOK' /\ [Next]_vars => WatchInv'
    BY WatchStep
  <1> QED
    BY <1>1, <1>2, TypeCorrect, PTL DEF Spec, SafeSpec, WatchInv
=============================================================================
