---------------------------- MODULE AdsOperations ---------------------------
(***************************************************************************)
(* The operations of the ads-go client as sequences of requests, run by     *)
(* goroutines that each carry out a command: a list of calls, of which one   *)
(* command line handler or one line of an application is an example.  A       *)
(* request and its answer are separate steps, so other goroutines, the state   *)
(* poller, a download of another PLC program and timeouts come in between.      *)
(*                                                                          *)
(* The PLC is external.  It handles the requests of the connection in the     *)
(* order in which they were sent; the answer reaches the send that waits for   *)
(* it, as AdsCall shows, and nobody once that send has timed out.              *)
(***************************************************************************)
EXTENDS AdsCommands, Integers, FiniteSets

CONSTANTS
  Procs,        \* the goroutines
  Nobody,       \* the sender of a request whose send has timed out
  Commands,     \* Commands[p]: the commands p may carry out, numbered
  Programs,     \* the PLC's programs, in the order of their downloads: the
                \* symbols and the types each declares
  Cells,        \* the PLC's memory, in whole variables
  RawCell,      \* where RawPath is
  Devices,      \* the device states of the TwinCAT system
  MaxWire       \* bound: requests under way

VARIABLES
  plc,          \* its system state, device state and current program
  memory,       \* memory[c]: the value in cell c
  currentState, \* Client.currentState: the cached AdsState or "nil"
  proc,         \* proc[p]: the command, the call and the request p has come to
  outcome,      \* outcome[p]: what p's handler has printed in the end
  wire,         \* requests the PLC has not handled yet
  answer,       \* answer[p]: the response that has arrived for p
  done,         \* done[p]: the calls of p's command whose write was carried out
  crashed       \* a goroutine has panicked, and the process is gone

vars == <<plc, memory, currentState, proc, outcome, wire, answer, done, crashed>>
plcVars == <<plc, memory>>

NoResult == -1         \* a call has not returned a value
Values == {0, 1, 5}
SystemStates == {"Run", "Config"}

-----------------------------------------------------------------------------
(* Responses: how many bytes they have, their error code, the length they     *)
(* state, and what they carry.                                              *)

NoAnswer == [size |-> -1, code |-> 0, stated |-> 0, data |-> NoResult]
WithLength(n, data) == [size |-> 8 + n, code |-> 0, stated |-> n, data |-> data]
Plain(n, data) == [size |-> 4 + n, code |-> 0, stated |-> 0, data |-> data]
Refusal == [size |-> 8, code |-> 1, stated |-> 0, data |-> NoResult]
\* Short of a byte.
Cut(r) == [r EXCEPT !.size = @ - 1]

\* Faulty: the error code is not looked at.
StripAdsError_LengthOnly(r) == r.size >= 4

\* CheckAdsError, StripAdsError.
StripAdsError(r) == r.size >= 4 /\ r.code = 0

\* Faulty: the length that is stated is not compared.
StripAdsHeader_AnyLength(r) == r.size >= 8 /\ StripAdsError(r)

\* CheckAdsHeader, StripAdsHeader.
StripAdsHeader(r) == r.size >= 8 /\ StripAdsError(r) /\ r.size - 8 = r.stated

\* ParseSystemState, ParseExtendedSystemState, ParseDeviceInfo.
ParseSystemState(n) == n >= 4
ParseExtendedSystemState(n) == n >= 16
ParseDeviceInfo(n) == n = 0 \/ n >= 20

\* What each kind of request checks of its response.
Accepts(kind, r) ==
  CASE kind \in {"symbol", "type", "read", "table"} -> StripAdsHeader(r)
    [] kind = "size" -> StripAdsHeader(r) /\ r.size - 8 >= 24
    [] kind = "extended" -> StripAdsHeader(r) /\ ParseExtendedSystemState(r.size - 8)
    [] kind \in {"write", "control"} -> StripAdsError(r)
    [] kind = "state" -> r.size >= 8 /\ StripAdsError(r) /\ ParseSystemState(r.size - 4)
    [] kind = "device" -> StripAdsError(r) /\ ParseDeviceInfo(r.size - 4)

-----------------------------------------------------------------------------
(* The requests of a call, one after the other.                            *)

RequestsOf ==
  [ ReadValue |-> <<"symbol", "type", "read">>,
    WriteValue |-> <<"symbol", "type", "write">>,
    ReadRaw |-> <<"read">>,
    WriteRaw |-> <<"write">>,
    GetSymbol |-> <<"symbol">>,
    GetDataType |-> <<"type">>,
    UploadInfo |-> <<"size">>,
    Upload |-> <<"table">>,
    ReadTcSystemState |-> <<"state">>,
    ReadTcSystemExtendedState |-> <<"extended">>,
    ReadDeviceInfo |-> <<"device">>,
    SetTcSystemToConfig |-> <<"state", "control">>,
    SetTcSystemToRun |-> <<"state", "control">>,
    GetCurrentState |-> <<>> ]

Gated == {"ReadValue", "WriteValue"}
OfVariable == {"ReadValue", "WriteValue", "ReadRaw", "WriteRaw"}
Writes == {"WriteValue", "WriteRaw"}

ASSUME SystemAssumption ==
  /\ Nobody \notin Procs
  /\ RawCell \in Cells
  /\ Devices \subseteq Nat
  /\ MaxWire \in Nat

ASSUME ProgramsAssumption ==
  /\ Programs \in Seq({Programs[g] : g \in DOMAIN Programs}) \ {<<>>}
  /\ \A g \in DOMAIN Programs : \A v \in DOMAIN Programs[g].symbols :
       LET symbol == Programs[g].symbols[v] IN
       symbol.cell \in Cells /\ symbol.type \in STRING /\ symbol.size \in Nat

\* A program declares the types of its variables, and a variable is not smaller
\* than its type.  RawPath stands for an address, not for a name.
ASSUME SizesAssumption ==
  \A g \in DOMAIN Programs :
    /\ RawPath \notin DOMAIN Programs[g].symbols
    /\ \A v \in DOMAIN Programs[g].symbols :
         LET symbol == Programs[g].symbols[v] IN
         /\ symbol.type \in DOMAIN Programs[g].types
         /\ Programs[g].types[symbol.type].size \in 0 .. symbol.size

\* What the handlers' calls have in common: those that go on after an error
\* write nothing, and a type is asked for after its symbol.
ASSUME CommandsAssumption ==
  \A p \in Procs : \A n \in DOMAIN Commands[p] :
    LET c == Commands[p][n]  Is(i, name) == c.calls[i].call = name IN
    /\ c.goesOn \in BOOLEAN
    /\ c.calls \in Seq([call : DOMAIN RequestsOf, path : STRING,
                        value : [go : STRING, n : Values]]) \ {<<>>}
    /\ \A i \in DOMAIN c.calls :
         /\ c.goesOn => c.calls[i].call \notin Writes
         /\ Is(i, "ReadRaw") \/ Is(i, "WriteRaw") => c.calls[i].path = RawPath
         /\ Is(i, "GetDataType") =>
              /\ i > 1 /\ ~c.goesOn
              /\ Is(i - 1, "GetSymbol") /\ c.calls[i - 1].path = c.calls[i].path

\* at: the request p has come to in its call, 0 before the call.  symbol and
\* type: the programs they were looked up in.  device: the device state read.
\* since: the program when the call began.  result: the value of the last call.
NewProc(p, c) ==
  [of |-> p, command |-> c, i |-> 1, at |-> 0, waiting |-> FALSE, symbol |-> 0, type |-> 0,
   device |-> 0, failed |-> FALSE, since |-> 0, result |-> NoResult]

CommandOf(q) == Commands[q.of][q.command]
CallOf(q) == CommandOf(q).calls[q.i]
Kind(q) == RequestsOf[CallOf(q).call][q.at]
SymbolOf(q) == Programs[q.symbol].symbols[CallOf(q).path]
TypeOf(q) == Programs[q.type].types[SymbolOf(q).type]
CellOf(q) == IF CallOf(q).path = RawPath THEN RawCell ELSE SymbolOf(q).cell
SizeOf(q) == IF CallOf(q).path = RawPath THEN 1 ELSE SymbolOf(q).size

Running(p) == outcome[p] = "running" /\ ~crashed

Init ==
  /\ plc \in [state : SystemStates, device : Devices, program : {1}]
  /\ memory = [c \in Cells |-> 1]
  /\ currentState = plc.state
  /\ proc \in [Procs -> UNION {{NewProc(p, c) : c \in DOMAIN Commands[p]} : p \in Procs}]
  /\ \A p \in Procs : proc[p].of = p
  /\ outcome = [p \in Procs |-> "running"]
  /\ wire = <<>>
  /\ answer = [p \in Procs |-> NoAnswer]
  /\ done = [p \in Procs |-> {}]
  /\ crashed = FALSE

\* Faulty: a call that fails is made again.
EndCall_Again(p, ok, q) ==
  LET last == ok /\ q.i = Len(CommandOf(q).calls) IN
  /\ proc' = [proc EXCEPT ![p] = [q EXCEPT !.i = IF last \/ ~ok THEN @ ELSE @ + 1,
                 !.at = 0, !.waiting = FALSE, !.failed = @ \/ ~ok]]
  /\ outcome' = [outcome EXCEPT ![p] =
       IF ~last THEN "running" ELSE IF ok /\ ~q.failed THEN "ok" ELSE "error"]
  /\ answer' = [answer EXCEPT ![p] = NoAnswer]

\* Faulty: the end of the list is found one call too late.
EndCall_TooLate(p, ok, q) ==
  LET last == q.i > Len(CommandOf(q).calls) \/ ~(ok \/ CommandOf(q).goesOn) IN
  /\ proc' = [proc EXCEPT ![p] = [q EXCEPT !.i = IF last THEN @ ELSE @ + 1, !.at = 0,
                                          !.waiting = FALSE, !.failed = @ \/ ~ok]]
  /\ outcome' = [outcome EXCEPT ![p] =
       IF ~last THEN "running" ELSE IF ok /\ ~q.failed THEN "ok" ELSE "error"]
  /\ answer' = [answer EXCEPT ![p] = NoAnswer]

\* Faulty: the handler goes on after a write that failed.
EndCall_GoesOn(p, ok, q) ==
  LET goesOn == CommandOf(q).goesOn \/ CallOf(q).call \in Writes
      last == q.i = Len(CommandOf(q).calls) \/ ~(ok \/ goesOn)
  IN
  /\ proc' = [proc EXCEPT ![p] = [q EXCEPT !.i = IF last THEN @ ELSE @ + 1, !.at = 0,
                                          !.waiting = FALSE, !.failed = @ \/ ~ok]]
  /\ outcome' = [outcome EXCEPT ![p] =
       IF ~last THEN "running" ELSE IF ok /\ ~q.failed THEN "ok" ELSE "error"]
  /\ answer' = [answer EXCEPT ![p] = NoAnswer]

\* The call returns, and p, now q, goes on to the next one unless it was the
\* last, or an error at which the handler returns.
EndCall(p, ok, q) ==
  LET last == q.i = Len(CommandOf(q).calls) \/ ~(ok \/ CommandOf(q).goesOn) IN
  /\ proc' = [proc EXCEPT ![p] = [q EXCEPT !.i = IF last THEN @ ELSE @ + 1, !.at = 0,
                                          !.waiting = FALSE, !.failed = @ \/ ~ok]]
  /\ outcome' = [outcome EXCEPT ![p] =
       IF ~last THEN "running" ELSE IF ok /\ ~q.failed THEN "ok" ELSE "error"]
  /\ answer' = [answer EXCEPT ![p] = NoAnswer]

\* A value call that fails has no result; other calls have none to begin with.
Fails(p) ==
  EndCall(p, FALSE, [proc[p] EXCEPT
    !.result = IF CallOf(proc[p]).call \in OfVariable THEN NoResult ELSE @])

\* The call is not over: its next request is due.
GoOn(p, q) ==
  /\ proc' = [proc EXCEPT ![p] = [q EXCEPT !.at = @ + 1, !.waiting = FALSE]]
  /\ answer' = [answer EXCEPT ![p] = NoAnswer]
  /\ UNCHANGED outcome

-----------------------------------------------------------------------------
(* A goroutine.                                                            *)

\* checkStateForOperation: an unknown state allows the operation.
CallRefused(p) ==
  /\ Running(p) /\ proc[p].at = 0
  /\ CallOf(proc[p]).call \in Gated
  /\ currentState \notin {"nil", "Run"}
  /\ Fails(p)
  /\ UNCHANGED <<plcVars, currentState, wire, done, crashed>>

CallBegins(p) ==
  /\ Running(p) /\ proc[p].at = 0
  /\ RequestsOf[CallOf(proc[p]).call] # <<>>
  /\ CallOf(proc[p]).call \in Gated => currentState \in {"nil", "Run"}
  /\ proc' = [proc EXCEPT ![p] = [@ EXCEPT !.at = 1, !.since = plc.program]]
  /\ UNCHANGED <<plcVars, currentState, outcome, wire, answer, done, crashed>>

\* GetCurrentState sends nothing.
ReturnCurrentState(p) ==
  /\ Running(p) /\ proc[p].at = 0
  /\ RequestsOf[CallOf(proc[p]).call] = <<>>
  /\ EndCall(p, TRUE, proc[p])
  /\ UNCHANGED <<plcVars, currentState, wire, done, crashed>>

\* Faulty: the device state is not the one that was read.
Request_NoDevice(p) ==
  LET q == proc[p]  kind == Kind(q)  call == CallOf(q) IN
  CASE kind = "symbol" -> [of |-> p, kind |-> kind, path |-> call.path]
    [] kind = "type" -> [of |-> p, kind |-> kind, type |-> SymbolOf(q).type]
    [] kind = "read" -> [of |-> p, kind |-> kind, cell |-> CellOf(q), size |-> SizeOf(q)]
    [] kind = "write" -> [of |-> p, kind |-> kind, cell |-> CellOf(q), value |-> call.value.n]
    [] kind = "control" -> [of |-> p, kind |-> kind, device |-> 0,
         state |-> IF call.call = "SetTcSystemToRun" THEN "Reset" ELSE "Reconfig"]
    [] OTHER -> [of |-> p, kind |-> kind]

\* The request p has come to (ads-requests/build.go); a value is serialized
\* before it is sent.
Request(p) ==
  LET q == proc[p]  kind == Kind(q)  call == CallOf(q) IN
  CASE kind = "symbol" -> [of |-> p, kind |-> kind, path |-> call.path]
    [] kind = "type" -> [of |-> p, kind |-> kind, type |-> SymbolOf(q).type]
    [] kind = "read" -> [of |-> p, kind |-> kind, cell |-> CellOf(q), size |-> SizeOf(q)]
    [] kind = "write" -> [of |-> p, kind |-> kind, cell |-> CellOf(q), value |-> call.value.n]
    [] kind = "control" -> [of |-> p, kind |-> kind, device |-> q.device,
         state |-> IF call.call = "SetTcSystemToRun" THEN "Reset" ELSE "Reconfig"]
    [] OTHER -> [of |-> p, kind |-> kind]

Send(p) ==
  /\ Running(p) /\ proc[p].at > 0 /\ ~proc[p].waiting
  /\ Len(wire) < MaxWire
  /\ wire' = Append(wire, Request(p))
  /\ proc' = [proc EXCEPT ![p].waiting = TRUE]
  /\ UNCHANGED <<plcVars, currentState, outcome, answer, done, crashed>>

\* There is no connection, or writing to it fails.
SendFails(p) ==
  /\ Running(p) /\ proc[p].at > 0 /\ ~proc[p].waiting
  /\ Fails(p)
  /\ UNCHANGED <<plcVars, currentState, wire, done, crashed>>

\* Faulty: the late answer is taken for that of the next request.
TimesOut_Answered(p) ==
  /\ Running(p) /\ proc[p].waiting
  /\ Fails(p)
  /\ UNCHANGED <<plcVars, currentState, wire, done, crashed>>

\* settings.Timeout is over: the request may still be carried out.
TimesOut(p) ==
  /\ Running(p) /\ proc[p].waiting
  /\ Fails(p)
  /\ wire' = [k \in DOMAIN wire |-> IF wire[k].of = p THEN [wire[k] EXCEPT !.of = Nobody]
                                   ELSE wire[k]]
  /\ UNCHANGED <<plcVars, currentState, done, crashed>>

Answers(p) == Running(p) /\ proc[p].waiting /\ answer[p] # NoAnswer

ReceiveError(p) ==
  /\ Answers(p) /\ ~Accepts(Kind(proc[p]), answer[p])
  /\ Fails(p)
  /\ UNCHANGED <<plcVars, currentState, wire, done, crashed>>

Accepted(p, kind) ==
  Answers(p) /\ Kind(proc[p]) = kind /\ Accepts(kind, answer[p])

\* GetSymbol: the call itself, or the first step of another.
ReceiveSymbol(p) ==
  LET q == [proc[p] EXCEPT !.symbol = answer[p].data] IN
  /\ Accepted(p, "symbol")
  /\ IF CallOf(q).call = "GetSymbol" THEN EndCall(p, TRUE, q) ELSE GoOn(p, q)
  /\ UNCHANGED <<plcVars, currentState, wire, done, crashed>>

\* Serialize: a Go type the PLC type does not take is an error, and a slice
\* shorter than the array is indexed beyond its end.
Fits(value, type) == value.go \in type.takes
TooShort(value, type) == value.go = "slice" /\ value.n < type.length

ReceiveType(p) ==
  LET q == [proc[p] EXCEPT !.type = answer[p].data]
      write == CallOf(q).call = "WriteValue"
  IN
  /\ Accepted(p, "type")
  /\ IF CallOf(q).call = "GetDataType" THEN EndCall(p, TRUE, q) /\ UNCHANGED crashed
     ELSE IF write /\ ~Fits(CallOf(q).value, TypeOf(q)) THEN Fails(p) /\ UNCHANGED crashed
     ELSE GoOn(p, q) /\ crashed' = (write /\ TooShort(CallOf(q).value, TypeOf(q)))
  /\ UNCHANGED <<plcVars, currentState, wire, done>>

\* Deserialize slices as many bytes as the type says off the ones that came,
\* and panics if there are fewer.
ReceiveValue(p) ==
  LET q == [proc[p] EXCEPT !.result = answer[p].data] IN
  /\ Accepted(p, "read")
  /\ IF CallOf(q).call = "ReadValue" /\ TypeOf(q).size > answer[p].size - 8
     THEN crashed' = TRUE /\ UNCHANGED <<proc, outcome, answer>>
     ELSE EndCall(p, TRUE, q) /\ UNCHANGED crashed
  /\ UNCHANGED <<plcVars, currentState, wire, done>>

ReceiveWritten(p) ==
  /\ Accepted(p, "write")
  /\ EndCall(p, TRUE, [proc[p] EXCEPT !.result = CallOf(proc[p]).value.n])
  /\ UNCHANGED <<plcVars, currentState, wire, done, crashed>>

\* ReadTcSystemState: the call itself, or the first step of setting the state.
ReceiveState(p) ==
  LET q == [proc[p] EXCEPT !.device = answer[p].data] IN
  /\ Accepted(p, "state")
  /\ IF CallOf(q).call = "ReadTcSystemState" THEN EndCall(p, TRUE, q) ELSE GoOn(p, q)
  /\ UNCHANGED <<plcVars, currentState, wire, done, crashed>>

ReceiveOther(p) ==
  /\ \E kind \in {"control", "device", "extended", "size", "table"} : Accepted(p, kind)
  /\ EndCall(p, TRUE, proc[p])
  /\ UNCHANGED <<plcVars, currentState, wire, done, crashed>>

ProcStep(p) ==
  \/ CallRefused(p)
  \/ CallBegins(p)
  \/ ReturnCurrentState(p)
  \/ Send(p)
  \/ SendFails(p)
  \/ TimesOut(p)
  \/ ReceiveError(p)
  \/ ReceiveSymbol(p)
  \/ ReceiveType(p)
  \/ ReceiveValue(p)
  \/ ReceiveWritten(p)
  \/ ReceiveState(p)
  \/ ReceiveOther(p)

-----------------------------------------------------------------------------
(* The PLC, the connection and the state poller.                            *)

Program == Programs[plc.program]

\* The runtime's port exists in Run mode only, the system service always.
Serves(r) ==
  CASE r.kind \in {"state", "extended", "device", "control"} -> TRUE
    [] r.kind = "symbol" -> plc.state = "Run" /\ r.path \in DOMAIN Program.symbols
    [] r.kind = "type" -> plc.state = "Run" /\ r.type \in DOMAIN Program.types
    [] OTHER -> plc.state = "Run"

Response(r) ==
  CASE r.kind \in {"symbol", "type"} -> WithLength(30, plc.program)
    [] r.kind = "read" -> WithLength(r.size, memory[r.cell])
    [] r.kind = "size" -> WithLength(24, 0)
    [] r.kind = "table" -> WithLength(60, 0)
    [] r.kind = "extended" -> WithLength(16, plc.device)
    [] r.kind = "state" -> Plain(4, plc.device)
    [] r.kind = "device" -> Plain(24, 0)
    [] OTHER -> Plain(0, 0)

ToSender(r, response) ==
  answer' = IF r.of = Nobody THEN answer ELSE [answer EXCEPT ![r.of] = response]

\* The PLC carries the request out.  Its answer may arrive cut.
PlcServes(cut) ==
  LET r == Head(wire) IN
  /\ wire # <<>>
  /\ Serves(r)
  /\ wire' = Tail(wire)
  /\ ToSender(r, IF cut THEN Cut(Response(r)) ELSE Response(r))
  /\ memory' = IF r.kind = "write" THEN [memory EXCEPT ![r.cell] = r.value] ELSE memory
  /\ plc' = IF r.kind = "control"
            THEN [plc EXCEPT !.state = IF r.state = "Reset" THEN "Run" ELSE "Config",
                             !.device = r.device]
            ELSE plc
  /\ done' = IF r.kind = "write" /\ r.of # Nobody
             THEN [done EXCEPT ![r.of] = @ \union {proc[r.of].i}] ELSE done
  /\ UNCHANGED <<currentState, proc, outcome, crashed>>

\* It answers with an ADS error.
PlcRefuses ==
  /\ wire # <<>>
  /\ wire' = Tail(wire)
  /\ ToSender(Head(wire), Refusal)
  /\ UNCHANGED <<plcVars, currentState, proc, outcome, done, crashed>>

\* Another program is downloaded: variables may have moved, and start anew.
Download ==
  /\ plc.program + 1 \in DOMAIN Programs
  /\ plc' = [plc EXCEPT !.program = @ + 1]
  /\ memory' = [c \in Cells |-> 1]
  /\ UNCHANGED <<currentState, proc, outcome, wire, answer, done, crashed>>

\* The connection is lost with what is under way.
ConnectionLost ==
  /\ wire # <<>>
  /\ wire' = <<>>
  /\ currentState' = "nil"
  /\ UNCHANGED <<plcVars, proc, outcome, answer, done, crashed>>

\* checkState of the poller (AdsStatePoller), in one step.
Poll ==
  /\ currentState # plc.state
  /\ currentState' = plc.state
  /\ UNCHANGED <<plcVars, proc, outcome, wire, answer, done, crashed>>

Next ==
  \/ \E p \in Procs : ProcStep(p)
  \/ \E cut \in BOOLEAN : PlcServes(cut)
  \/ PlcRefuses
  \/ Download
  \/ ConnectionLost
  \/ Poll

\* Goroutines run, and a send ends by its timeout at the latest.
SafeSpec == Init /\ [][Next]_vars
Spec == SafeSpec /\ \A p \in Procs : WF_vars(ProcStep(p))

-----------------------------------------------------------------------------
(* Properties.                                                             *)

Requests ==
  LET Of == Procs \union {Nobody} IN
  [of : Of, kind : {"symbol"}, path : STRING]
    \union [of : Of, kind : {"type"}, type : STRING]
    \union [of : Of, kind : {"read"}, cell : Cells, size : Nat]
    \union [of : Of, kind : {"write"}, cell : Cells, value : Values]
    \union [of : Of, kind : {"control"}, device : Devices \union {0}, state : {"Reset", "Reconfig"}]
    \union [of : Of, kind : {"state", "extended", "device", "size", "table"}]

TypeOK ==
  /\ plc \in [state : SystemStates, device : Devices \union {0}, program : DOMAIN Programs]
  /\ memory \in [Cells -> Values]
  /\ currentState \in SystemStates \union {"nil"}
  /\ \A p \in Procs :
       /\ proc[p].of = p
       /\ proc[p].command \in DOMAIN Commands[p]
       /\ proc[p].i \in DOMAIN CommandOf(proc[p]).calls
       /\ proc[p].at \in 0 .. Len(RequestsOf[CallOf(proc[p]).call])
       /\ proc[p].symbol \in 0 .. Len(Programs)
       /\ proc[p].type \in 0 .. Len(Programs)
       /\ proc[p].device \in Devices \union {0}
       /\ done[p] \subseteq DOMAIN CommandOf(proc[p]).calls
  /\ outcome \in [Procs -> {"running", "ok", "error"}]
  /\ wire \in Seq(Requests)
  /\ crashed \in BOOLEAN

WritesOf(c) == {i \in DOMAIN c.calls : c.calls[i].call \in Writes}

\* "[OK] All counters and toggles reset" (cmd_control.go:188) and its likes: a
\* handler that reports success has had each of its writes carried out.
OkMeansDone ==
  \A p \in Procs : outcome[p] = "ok" => done[p] = WritesOf(CommandOf(proc[p]))

\* A handler that returns at the first error (cmd_control.go:165-186) leaves its
\* writes carried out up to some point, and none beyond it.
WritesAreAPrefix ==
  \A p \in Procs : \A i \in done[p] : \A j \in WritesOf(CommandOf(proc[p])) :
    j < i => j \in done[p]

\* "Reading device state first as we don't want to change it"
\* (client_control_actions.go:13).
DeviceStateKept == [][plc'.device = plc.device]_vars

\* A call panics only because the program was replaced under it, or because a
\* slice is shorter than the array it is written to.
CrashIsExplained ==
  crashed => \E p \in Procs :
    \/ proc[p].since # plc.program
    \/ CallOf(proc[p]).value.go = "slice"

\* Every command ends, whatever the PLC and the connection do.
CommandsEnd == \A p \in Procs : <>(outcome[p] # "running" \/ crashed)

\* The promise of the value calls, see AdsVariables.
ValueCall(p) == outcome[p] = "running" /\ proc[p].at > 0 /\ CallOf(proc[p]).call \in OfVariable
CallKind(p) == IF CallOf(proc[p]).call \in Writes THEN "write" ELSE "read"
Taken(p) ==
  /\ answer[p] # NoAnswer
  /\ IF CallKind(p) = "write" THEN Kind(proc[p]) = "write" /\ answer[p].code = 0
     ELSE Kind(proc[p]) = "read" /\ StripAdsHeader(answer[p])

CommandsOf(p) == {Commands[p][n] : n \in DOMAIN Commands[p]}
PathsIn(c) == {c.calls[i].path : i \in DOMAIN c.calls}
Paths == UNION {PathsIn(c) : c \in UNION {CommandsOf(p) : p \in Procs}}
Places ==
  [g \in DOMAIN Programs |-> [v \in Paths |->
     IF v = RawPath THEN RawCell
     ELSE IF v \in DOMAIN Programs[g].symbols THEN Programs[g].symbols[v].cell
     ELSE 0]]

AbstractCall ==
  [p \in Procs |->
    IF ValueCall(p)
    THEN [kind |-> CallKind(p), path |-> CallOf(proc[p]).path,
          value |-> IF CallKind(p) = "write" THEN CallOf(proc[p]).value.n
                    ELSE IF Taken(p) THEN answer[p].data ELSE 0,
          moved |-> proc[p].since # plc.program, done |-> Taken(p)]
    ELSE IF proc[p].result = NoResult THEN [kind |-> "none"]
    ELSE [kind |-> "returned", value |-> proc[p].result]]
IsLate(r) == r.of = Nobody /\ r.kind = "write"
LateWrites ==
  {[cell |-> wire[k].cell, value |-> wire[k].value] : k \in {l \in DOMAIN wire : IsLate(wire[l])}}

Variables == INSTANCE AdsVariables WITH
  Callers <- Procs,
  Nowhere <- 0,
  Programs <- {Places[g] : g \in DOMAIN Programs},
  place <- Places[plc.program],
  call <- AbstractCall,
  late <- LateWrites

ImplementsVariables == Variables!Spec
=============================================================================
