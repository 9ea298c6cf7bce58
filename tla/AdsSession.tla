------------------------------ MODULE AdsSession ----------------------------
(***************************************************************************)
(* Connections of the ads-go client: Connect and Disconnect                 *)
(* (client_connect.go), one receive goroutine per connection                *)
(* (client_buffer.go) and the hooks by which the program in cmd/main.go     *)
(* reconnects after a loss.  Client.conn and Client.receiveBuffer are        *)
(* shared without a lock: a receive goroutine knows only from comparing      *)
(* c.conn with the connection it captured that it has been superseded.      *)
(*                                                                          *)
(* Connections are numbered in the order they are dialled.  As in           *)
(* cmd/main.go the application connects and disconnects once, and one        *)
(* reconnect loop at a time runs beside it.  The router is external.         *)
(***************************************************************************)
EXTENDS Integers, FiniteSets

CONSTANT MaxConn  \* bound: connections dialled

ASSUME SessionAssumption == MaxConn \in Nat \ {0}

VARIABLES
  conn,       \* Client.conn, 0 for nil
  dialled,    \* how many connections were dialled
  socket,     \* socket[k]: "new", "open", "lost" by the peer or "closed" by us
  receiver,   \* receiver[k]: how far the goroutine that k's Connect started is
  mine,       \* mine[k]: the connection that goroutine has captured
  buffer,     \* Client.receiveBuffer: the connections its bytes came from
  at,         \* at[p]: where in Connect or Disconnect p is
  poller,     \* is the state poller running?
  losses,     \* losses[by]: how many OnConnectionLost hooks by has started that have
              \* not run yet; a hook is told the client and the error only
  goodbye,    \* the OnDisconnect hook: "none", "started" or "run"
  graceful    \* main's gracefulDisconnect

appVars == <<at, poller>>
hookVars == <<losses, goodbye, graceful>>
receiveVars == <<receiver, mine, buffer>>
vars == <<conn, dialled, socket, receiver, mine, buffer, at, poller, losses, goodbye,
          graceful>>

Conns == 1 .. MaxConn
Callers == {"app", "loop"}
Reporters == {"receive", "poller"}

TypeOK ==
  /\ conn \in 0 .. MaxConn
  /\ dialled \in 0 .. MaxConn
  /\ socket \in [Conns -> {"new", "open", "lost", "closed"}]
  /\ receiver \in [Conns -> {"none", "started", "reading", "got", "writing", "broken",
                             "closing", "done"}]
  /\ mine \in [Conns -> 0 .. MaxConn]
  /\ buffer \subseteq Conns
  /\ at \in [Callers -> {"off", "dial", "reset", "register", "setup", "up",
                         "unsubscribe", "close", "down"}]
  /\ poller \in BOOLEAN
  /\ losses \in [Reporters -> Nat]
  /\ goodbye \in {"none", "started", "run"}
  /\ graceful \in BOOLEAN

Init ==
  /\ conn = 0
  /\ dialled = 0
  /\ socket = [k \in Conns |-> "new"]
  /\ receiver = [k \in Conns |-> "none"]
  /\ mine = [k \in Conns |-> 0]
  /\ buffer = {}
  /\ at = [p \in Callers |-> IF p = "app" THEN "dial" ELSE "off"]
  /\ poller = FALSE
  /\ losses = [by \in Reporters |-> 0]
  /\ goodbye = "none"
  /\ graceful = FALSE

Goto(p, step) == at' = [at EXCEPT ![p] = step]

-----------------------------------------------------------------------------
(* Connect, called by main or by the reconnect loop.                       *)

\* DialTimeout succeeds, and c.conn is replaced at once.  A failed dial changes
\* nothing: main exits, the loop sleeps and tries again, until main has returned.
Dial(p) ==
  /\ at[p] = "dial"
  /\ at["app"] # "down"
  /\ dialled < MaxConn
  /\ dialled' = dialled + 1
  /\ socket' = [socket EXCEPT ![dialled + 1] = "open"]
  /\ conn' = dialled + 1
  /\ Goto(p, "reset")
  /\ UNCHANGED <<receiveVars, poller, hookVars>>

ResetBuffer(p) ==
  /\ at[p] = "reset"
  /\ buffer' = {}
  /\ Goto(p, "register")
  /\ UNCHANGED <<conn, dialled, socket, receiver, mine, poller, hookVars>>

\* registerAdsPort has the router's answer, and the receive goroutine starts.
Register(p) ==
  /\ at[p] = "register"
  /\ socket[conn] = "open"
  /\ receiver' = [receiver EXCEPT ![conn] = "started"]
  /\ Goto(p, "setup")
  /\ UNCHANGED <<conn, dialled, socket, mine, buffer, poller, hookVars>>

\* registerAdsPort fails and c.conn is closed: main exits, the loop tries again.
RegisterFails(p) ==
  /\ at[p] = "register"
  /\ socket[conn] # "open"
  /\ socket' = [socket EXCEPT ![conn] = "closed"]
  /\ Goto(p, IF p = "app" THEN "down" ELSE "dial")
  /\ UNCHANGED <<conn, dialled, receiveVars, poller, hookVars>>

\* Faulty: Connect returns without starting the poller.
FinishConnect_NoPoller(p) ==
  /\ at[p] = "setup"
  /\ Goto(p, IF p = "app" THEN "up" ELSE "off")
  /\ UNCHANGED <<conn, dialled, socket, receiveVars, poller, hookVars>>

\* setupPlcConnection, OnConnect and the reading of the initial state end,
\* with or without success, and the poller starts.  The loop returns and gives
\* up its lock well within one polling interval.
FinishConnect(p) ==
  /\ at[p] = "setup"
  /\ poller' = TRUE
  /\ Goto(p, IF p = "app" THEN "up" ELSE "off")
  /\ UNCHANGED <<conn, dialled, socket, receiveVars, hookVars>>

-----------------------------------------------------------------------------
(* Disconnect, called by main when its command line ends.                  *)

Disconnect ==
  /\ at["app"] = "up"
  /\ poller' = FALSE
  /\ Goto("app", "unsubscribe")
  /\ UNCHANGED <<conn, dialled, socket, receiveVars, hookVars>>

\* After UnsubscribeAll the OnDisconnect hook is started, and unregisterAdsPort
\* writes to the connection.
SayGoodbye ==
  /\ at["app"] = "unsubscribe"
  /\ goodbye' = "started"
  /\ Goto("app", "close")
  /\ UNCHANGED <<conn, dialled, socket, receiveVars, poller, losses, graceful>>

\* The deferred Close closes what c.conn is by now.
CloseConn ==
  /\ at["app"] = "close"
  /\ socket' = [socket EXCEPT ![conn] = "closed"]
  /\ Goto("app", "down")
  /\ UNCHANGED <<conn, dialled, receiveVars, poller, hookVars>>

-----------------------------------------------------------------------------
(* receive, in the goroutine started for connection k.                     *)

Capture(k) ==
  /\ receiver[k] = "started"
  /\ mine' = [mine EXCEPT ![k] = conn]
  /\ receiver' = [receiver EXCEPT ![k] = "reading"]
  /\ UNCHANGED <<conn, dialled, socket, buffer, appVars, hookVars>>

\* conn.Read returns bytes that the peer has sent.  Bytes from before a loss
\* are taken to be read before it.
Read(k) ==
  /\ receiver[k] = "reading"
  /\ socket[mine[k]] = "open"
  /\ receiver' = [receiver EXCEPT ![k] = "got"]
  /\ UNCHANGED <<conn, dialled, socket, mine, buffer, appVars, hookVars>>

ReadFails(k) ==
  /\ receiver[k] = "reading"
  /\ socket[mine[k]] \in {"lost", "closed"}
  /\ receiver' = [receiver EXCEPT ![k] = "broken"]
  /\ UNCHANGED <<conn, dialled, socket, mine, buffer, appVars, hookVars>>

\* The bytes are used only if c.conn is still the captured connection.
CheckOwner(k) ==
  /\ receiver[k] = "got"
  /\ receiver' = [receiver EXCEPT ![k] = IF conn = mine[k] THEN "writing" ELSE "closing"]
  /\ UNCHANGED <<conn, dialled, socket, mine, buffer, appVars, hookVars>>

\* receiveBuffer.Write, and processReceiveBuffer: whole packets are taken out,
\* the beginning of another may stay.
Write(k) ==
  /\ receiver[k] = "writing"
  /\ buffer' \in {{}, buffer \union {mine[k]}}
  /\ receiver' = [receiver EXCEPT ![k] = "reading"]
  /\ UNCHANGED <<conn, dialled, socket, mine, appVars, hookVars>>

\* After an error OnConnectionLost is started, unless c.conn was replaced.
ReportLoss(k) ==
  /\ receiver[k] = "broken"
  /\ losses' = IF conn = mine[k] THEN [losses EXCEPT !["receive"] = @ + 1] ELSE losses
  /\ receiver' = [receiver EXCEPT ![k] = "closing"]
  /\ UNCHANGED <<conn, dialled, socket, mine, buffer, appVars, goodbye, graceful>>

\* Faulty: the deferred Close closes c.conn, not the captured connection.
CloseMine_Current(k) ==
  /\ receiver[k] = "closing"
  /\ socket' = [socket EXCEPT ![conn] = "closed"]
  /\ receiver' = [receiver EXCEPT ![k] = "done"]
  /\ mine' = [mine EXCEPT ![k] = 0]
  /\ UNCHANGED <<conn, dialled, buffer, appVars, hookVars>>

\* The deferred Close of the captured connection, and the goroutine's end.
CloseMine(k) ==
  /\ receiver[k] = "closing"
  /\ socket' = [socket EXCEPT ![mine[k]] = "closed"]
  /\ receiver' = [receiver EXCEPT ![k] = "done"]
  /\ mine' = [mine EXCEPT ![k] = 0]
  /\ UNCHANGED <<conn, dialled, buffer, appVars, hookVars>>

-----------------------------------------------------------------------------
(* The state poller, of which AdsStatePoller says more, and the hooks.     *)

\* Its reads have failed too often: OnConnectionLost is started and the poller
\* ends.  The connection may be open, with the target behind it unreachable.
PollerReports ==
  /\ poller
  /\ poller' = FALSE
  /\ losses' = [losses EXCEPT !["poller"] = @ + 1]
  /\ UNCHANGED <<conn, dialled, socket, receiveVars, at, goodbye, graceful>>

\* main's OnConnectionLost: nothing after a graceful disconnect or while
\* another loop holds reconnecting, otherwise a new loop.
OnConnectionLost(by) ==
  /\ losses[by] > 0
  /\ losses' = [losses EXCEPT ![by] = @ - 1]
  /\ at' = IF ~graceful /\ at["loop"] = "off" THEN [at EXCEPT !["loop"] = "dial"] ELSE at
  /\ UNCHANGED <<conn, dialled, socket, receiveVars, poller, goodbye, graceful>>

\* main's OnDisconnect.
OnDisconnect ==
  /\ goodbye = "started"
  /\ goodbye' = "run"
  /\ graceful' = TRUE
  /\ UNCHANGED <<conn, dialled, socket, receiveVars, appVars, losses>>

\* External: the router, or the network, drops a connection.
PeerDrops(k) ==
  /\ socket[k] = "open"
  /\ socket' = [socket EXCEPT ![k] = "lost"]
  /\ UNCHANGED <<conn, dialled, receiveVars, appVars, hookVars>>

-----------------------------------------------------------------------------

ConnectStep(p) ==
  \/ Dial(p)
  \/ ResetBuffer(p)
  \/ Register(p)
  \/ RegisterFails(p)
  \/ FinishConnect(p)

DisconnectStep == SayGoodbye \/ CloseConn

Receive(k) ==
  \/ Capture(k)
  \/ Read(k)
  \/ ReadFails(k)
  \/ CheckOwner(k)
  \/ Write(k)
  \/ ReportLoss(k)
  \/ CloseMine(k)

Next ==
  \/ \E p \in Callers : ConnectStep(p)
  \/ Disconnect
  \/ DisconnectStep
  \/ \E k \in Conns : Receive(k)
  \/ PollerReports
  \/ \E by \in Reporters : OnConnectionLost(by)
  \/ OnDisconnect
  \/ \E k \in Conns : PeerDrops(k)

\* Goroutines run; the router accepts a dial and answers a registration in the
\* end; the poller's reads over a dead connection fail.
Fairness ==
  /\ \A p \in Callers : WF_vars(ConnectStep(p))
  /\ WF_vars(DisconnectStep)
  /\ \A k \in Conns : WF_vars(Receive(k))
  /\ WF_vars(PollerReports /\ socket[conn] # "open")
  /\ \A by \in Reporters : WF_vars(OnConnectionLost(by))
  /\ WF_vars(OnDisconnect)

SafeSpec == Init /\ [][Next]_vars
Spec == SafeSpec /\ Fairness

-----------------------------------------------------------------------------
(* Properties.                                                             *)

\* "the deferred Close() only closes the connection this goroutine was started
\* for" (client_buffer.go:14): a receive goroutine on its way out never closes a
\* connection that is current and works, even one that captured c.conn late.
NewConnectionSurvives ==
  [][ \A k \in Conns :
        /\ receiver[k] = "closing" /\ receiver'[k] = "done"
        /\ socket[conn] = "open"
        => socket'[conn] = "open" ]_vars

\* Until the user disconnects, a loss finds somebody who will act on it: the
\* poller runs, or the loop runs whose Connect will start it, or what the poller
\* has reported is still to be heard.  A report may be dropped at TryLock, and
\* two reports may race for it, but never so that nobody is left
\* (cmd/main.go:91-104, client_connect.go:76).
LossIsNoticed ==
  at["app"] = "up" => poller \/ at["loop"] # "off" \/ losses["poller"] > 0

\* The program does not stay without a connection: when the current one is lost
\* and the user does not disconnect, a loop comes to dial a new one, although a
\* loss that falls into a reconnection is dropped at TryLock (cmd/main.go:100).
\* It is the poller that Connect starts which reports it once more.
LossIsRepaired ==
  at["app"] = "up" /\ socket[conn] # "open"
    ~> at["app"] # "up" \/ socket[conn] = "open" \/ at["loop"] = "dial"

\* "A stale goroutine must not corrupt the new connection's receive buffer"
\* (client_buffer.go:55).
BufferUnmixed == conn # 0 /\ receiver[conn] # "none" => buffer \subseteq {conn}
=============================================================================
