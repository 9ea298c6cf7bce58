------------------------ MODULE AdsOperationsProofs ------------------------
(***************************************************************************)
(* Proofs about AdsOperations, for any goroutines, commands and programs that *)
(* its assumptions allow.  The inductive invariant says of each goroutine     *)
(* which of its writes are done, what its requests have looked up, and what   *)
(* an answer that has come for it means; and of each request on the wire      *)
(* whose it is.                                                            *)
(***************************************************************************)
EXTENDS AdsOperations, TLAPS

StateCalls == {"SetTcSystemToConfig", "SetTcSystemToRun"}
Kinds ==
  {"symbol", "type", "read", "write", "size", "table", "state", "extended", "device", "control"}

ResponseType == [size : Int, code : {0, 1}, stated : Int, data : Int]
ProcType(p) ==
  [of : {p}, command : DOMAIN Commands[p], i : Nat, at : Nat, waiting : BOOLEAN,
   symbol : 0 .. Len(Programs), type : 0 .. Len(Programs), device : Devices \union {0},
   failed : BOOLEAN, since : 0 .. Len(Programs), result : Int]

\* q is at a call of its command, and at a request of that call.
InPlace(q) ==
  /\ q.i \in DOMAIN CommandOf(q).calls
  /\ q.at \in 0 .. Len(RequestsOf[CallOf(q).call])
  /\ q.at = 0 => ~q.waiting

\* The symbol of the call at hand was found in the program it was looked up in.
Known(q) ==
  /\ q.symbol \in DOMAIN Programs
  /\ CallOf(q).path \in DOMAIN Programs[q.symbol].symbols

\* What earlier requests have found, dev being the system's device state.
LookedUp(q, dev) ==
  /\ CallOf(q).call \in Gated /\ q.at >= 2 => Known(q)
  /\ CallOf(q).call = "GetDataType" => Known(q)
  /\ CallOf(q).call \in StateCalls /\ q.at >= 2 => q.device = dev

\* Writes are done one by one: every one before the current call, d, while the
\* command runs (o), and all of them if it has ended well.
WritesDone(q, d, o) ==
  /\ d \subseteq WritesOf(CommandOf(q))
  /\ \A j \in d : j <= q.i
  /\ \A i \in d : \A j \in WritesOf(CommandOf(q)) : j < i => j \in d
  /\ o = "running" => \A j \in WritesOf(CommandOf(q)) : j < q.i => j \in d
  /\ o = "ok" => d = WritesOf(CommandOf(q))

\* A response a without an error is the answer to the request q has come to.
Meant(q, a, d, dev) ==
  /\ Kind(q) = "symbol" => Known([q EXCEPT !.symbol = a.data])
  /\ Kind(q) = "type" => a.data \in 0 .. Len(Programs)
  /\ Kind(q) = "state" => a.data = dev
  /\ Kind(q) = "write" => q.i \in d

ProcFacts(p, q, a, d, o, dev) ==
  /\ q \in ProcType(p) /\ a \in ResponseType /\ o \in {"running", "ok", "error"}
  /\ InPlace(q)
  /\ q.waiting => o = "running"
  /\ ~q.waiting => a = NoAnswer
  /\ LookedUp(q, dev)
  /\ WritesDone(q, d, o)
  /\ q.waiting /\ a # NoAnswer /\ a.code = 0 => Meant(q, a, d, dev)

\* The request on the wire that is p's is the one p waits for.
Awaited(r, q, a) ==
  /\ q.waiting /\ a = NoAnswer
  /\ Kind(q) = r.kind
  /\ r.kind = "symbol" => CallOf(q).path = r.path

WireFacts ==
  /\ wire \in Seq(Requests)
  /\ \A k \in DOMAIN wire :
       /\ wire[k].of \in Procs => Awaited(wire[k], proc[wire[k].of], answer[wire[k].of])
       /\ wire[k].kind = "control" => wire[k].device = plc.device
  /\ \A k, l \in DOMAIN wire : wire[k].of = wire[l].of /\ k # l => wire[k].of = Nobody

Shape ==
  /\ plc \in [state : SystemStates, device : Devices \union {0}, program : DOMAIN Programs]
  /\ memory \in [Cells -> Values]
  /\ currentState \in SystemStates \union {"nil"}
  /\ crashed \in BOOLEAN
  /\ proc = [p \in Procs |-> proc[p]]
  /\ answer = [p \in Procs |-> answer[p]]
  /\ done = [p \in Procs |-> done[p]]
  /\ outcome = [p \in Procs |-> outcome[p]]

ProcsFacts ==
  \A p \in Procs : ProcFacts(p, proc[p], answer[p], done[p], outcome[p], plc.device)

IInv == Shape /\ ProcsFacts /\ WireFacts

-----------------------------------------------------------------------------
(* The requests of each call.                                              *)

LEMMA CallNames ==
  DOMAIN RequestsOf =
    Gated \union StateCalls \union
      {"ReadRaw", "WriteRaw", "GetSymbol", "GetDataType", "UploadInfo", "Upload",
       "ReadTcSystemState", "ReadTcSystemExtendedState", "ReadDeviceInfo", "GetCurrentState"}
BY DEF RequestsOf, Gated, StateCalls

LEMMA RequestList ==
  ASSUME NEW c \in DOMAIN RequestsOf
  PROVE  /\ c = "ReadValue" => RequestsOf[c] = <<"symbol", "type", "read">>
         /\ c = "WriteValue" => RequestsOf[c] = <<"symbol", "type", "write">>
         /\ c \in StateCalls => RequestsOf[c] = <<"state", "control">>
         /\ c = "ReadRaw" => RequestsOf[c] = <<"read">>
         /\ c = "WriteRaw" => RequestsOf[c] = <<"write">>
         /\ c = "GetSymbol" => RequestsOf[c] = <<"symbol">>
         /\ c = "GetDataType" => RequestsOf[c] = <<"type">>
         /\ c = "UploadInfo" => RequestsOf[c] = <<"size">>
         /\ c = "Upload" => RequestsOf[c] = <<"table">>
         /\ c = "ReadTcSystemState" => RequestsOf[c] = <<"state">>
         /\ c = "ReadTcSystemExtendedState" => RequestsOf[c] = <<"extended">>
         /\ c = "ReadDeviceInfo" => RequestsOf[c] = <<"device">>
         /\ c = "GetCurrentState" => RequestsOf[c] = <<>>
BY DEF RequestsOf, Gated, StateCalls

\* Which calls ask for what, and when.
KindsOf(c, a) ==
  LET kind == RequestsOf[c][a] IN
  /\ kind \in Kinds
  /\ kind = "write" <=> c \in Writes /\ a = Len(RequestsOf[c])
  /\ kind = "symbol" <=> c \in Gated \union {"GetSymbol"} /\ a = 1
  /\ kind = "type" <=> (c \in Gated /\ a = 2) \/ c = "GetDataType"
  /\ kind = "read" <=> (c = "ReadValue" /\ a = 3) \/ c = "ReadRaw"
  /\ kind = "control" <=> c \in StateCalls /\ a = 2
  /\ kind = "state" <=> (c \in StateCalls /\ a = 1) \/ c = "ReadTcSystemState"

LEMMA RequestKinds ==
  ASSUME NEW c \in DOMAIN RequestsOf
  PROVE  /\ Len(RequestsOf[c]) \in 0 .. 3
         /\ c \in Gated <=> Len(RequestsOf[c]) = 3
         /\ c \in StateCalls <=> Len(RequestsOf[c]) = 2
         /\ RequestsOf[c] # <<>> => Len(RequestsOf[c]) # 0
         /\ \A a \in 1 .. Len(RequestsOf[c]) : KindsOf(c, a)
<1>. USE DEF Kinds, Gated, StateCalls, Writes, KindsOf
<1>1. CASE c = "ReadValue"
  <2>1. RequestsOf[c] = <<"symbol", "type", "read">>
    BY <1>1, RequestList
  <2>2. KindsOf(c, 1) BY <1>1, <2>1
  <2>3. KindsOf(c, 2) BY <1>1, <2>1
  <2>4. KindsOf(c, 3) BY <1>1, <2>1
  <2>5. \A a \in 1 .. 3 : a = 1 \/ a = 2 \/ a = 3
    OBVIOUS
  <2>6. \A a \in 1 .. 3 : KindsOf(c, a)
    <3>. HIDE DEF Kinds, Gated, StateCalls, Writes, KindsOf
    <3> QED BY <2>2, <2>3, <2>4, <2>5
  <2>7. Len(RequestsOf[c]) = 3
    BY <2>1
  <2> QED BY <1>1, <2>6, <2>7
<1>2. CASE c = "WriteValue"
  <2>1. RequestsOf[c] = <<"symbol", "type", "write">>
    BY <1>2, RequestList
  <2>2. KindsOf(c, 1) BY <1>2, <2>1
  <2>3. KindsOf(c, 2) BY <1>2, <2>1
  <2>4. KindsOf(c, 3) BY <1>2, <2>1
  <2>5. \A a \in 1 .. 3 : a = 1 \/ a = 2 \/ a = 3
    OBVIOUS
  <2>6. \A a \in 1 .. 3 : KindsOf(c, a)
    <3>. HIDE DEF Kinds, Gated, StateCalls, Writes, KindsOf
    <3> QED BY <2>2, <2>3, <2>4, <2>5
  <2>7. Len(RequestsOf[c]) = 3
    BY <2>1
  <2> QED BY <1>2, <2>6, <2>7
<1>3. CASE c \in StateCalls
  <2>1. RequestsOf[c] = <<"state", "control">>
    BY <1>3, RequestList
  <2>2. KindsOf(c, 1) BY <1>3, <2>1
  <2>3. KindsOf(c, 2) BY <1>3, <2>1
  <2>4. Len(RequestsOf[c]) = 2
    BY <2>1
  <2>5. \A a \in 1 .. 2 : a = 1 \/ a = 2
    OBVIOUS
  <2>6. \A a \in 1 .. 2 : KindsOf(c, a)
    BY <2>2, <2>3, <2>5
  <2> QED BY <1>3, <2>4, <2>6
<1>4. CASE c = "ReadRaw"
  BY <1>4, RequestList
<1>8. CASE c = "WriteRaw"
  <2>1. RequestsOf[c] = <<"write">>
    BY <1>8, RequestList
  <2>2. KindsOf(c, 1)
    BY <1>8, <2>1
  <2> QED BY <1>8, <2>1, <2>2
<1>5. CASE c \in {"GetSymbol", "GetDataType"}
  BY <1>5, RequestList
<1>6. CASE c \in {"UploadInfo", "Upload", "ReadTcSystemState"}
  BY <1>6, RequestList
<1>7. CASE c \in {"ReadTcSystemExtendedState", "ReadDeviceInfo", "GetCurrentState"}
  BY <1>7, RequestList
<1> QED BY <1>1, <1>2, <1>3, <1>4, <1>5, <1>6, <1>7, <1>8, CallNames

CallType == [call : DOMAIN RequestsOf, path : STRING, value : [go : STRING, n : Values]]

\* The call and the request a goroutine has come to.
LEMMA AtRequest ==
  ASSUME NEW p \in Procs, NEW q \in ProcType(p), InPlace(q)
  PROVE  /\ CommandOf(q) = Commands[p][q.command] /\ q.command \in DOMAIN Commands[p]
         /\ CommandOf(q).calls \in Seq(CallType)
         /\ q.i \in 1 .. Len(CommandOf(q).calls)
         /\ CallOf(q) \in CallType
         /\ q.at \in 0 .. Len(RequestsOf[CallOf(q).call])
         /\ CallOf(q).call \in Gated <=> Len(RequestsOf[CallOf(q).call]) = 3
         /\ CallOf(q).call \in StateCalls <=> Len(RequestsOf[CallOf(q).call]) = 2
         /\ RequestsOf[CallOf(q).call] # <<>> => Len(RequestsOf[CallOf(q).call]) # 0
         /\ q.at > 0 => KindsOf(CallOf(q).call, q.at)
<1>1. /\ CommandOf(q) = Commands[p][q.command] /\ q.command \in DOMAIN Commands[p]
      /\ CommandOf(q).calls \in Seq(CallType)
  BY CommandsAssumption DEF ProcType, CommandOf, CallType
<1>2. q.i \in 1 .. Len(CommandOf(q).calls) /\ CallOf(q) \in CallType
  BY <1>1 DEF InPlace, CallOf
<1>3. CallOf(q).call \in DOMAIN RequestsOf
  BY <1>2 DEF CallType
<1>4. Len(RequestsOf[CallOf(q).call]) \in 0 .. 3
  BY <1>3, RequestKinds
<1>5. q.at > 0 => q.at \in 1 .. Len(RequestsOf[CallOf(q).call])
  BY <1>4 DEF InPlace
<1> QED BY <1>1, <1>2, <1>3, <1>5, RequestKinds DEF InPlace

-----------------------------------------------------------------------------
(* The end of a call.                                                      *)

Last(q, ok) == q.i = Len(CommandOf(q).calls) \/ ~(ok \/ CommandOf(q).goesOn)
After(q, ok) ==
  [q EXCEPT !.i = IF Last(q, ok) THEN @ ELSE @ + 1, !.at = 0, !.waiting = FALSE,
            !.failed = @ \/ ~ok]
OutcomeAfter(q, ok) ==
  IF ~Last(q, ok) THEN "running" ELSE IF ok /\ ~q.failed THEN "ok" ELSE "error"

LEMMA AfterType ==
  ASSUME NEW p \in Procs, NEW q \in ProcType(p), InPlace(q), NEW ok \in BOOLEAN
  PROVE  /\ After(q, ok) \in ProcType(p) /\ InPlace(After(q, ok))
         /\ CommandOf(After(q, ok)) = CommandOf(q)
         /\ After(q, ok).i = IF Last(q, ok) THEN q.i ELSE q.i + 1
         /\ After(q, ok).at = 0 /\ ~After(q, ok).waiting
         /\ After(q, ok).symbol = q.symbol
         /\ After(q, ok).since = q.since /\ After(q, ok).result = q.result
         /\ Last(q, ok) \in BOOLEAN
<1>1. /\ q.i \in 1 .. Len(CommandOf(q).calls) /\ CommandOf(q).calls \in Seq(CallType)
      /\ CommandOf(q).goesOn \in BOOLEAN
  BY AtRequest, CommandsAssumption
<1>2. Last(q, ok) \in BOOLEAN
  BY DEF Last
<1>3. /\ After(q, ok) \in ProcType(p)
      /\ After(q, ok).of = q.of /\ After(q, ok).command = q.command
      /\ After(q, ok).i = IF Last(q, ok) THEN q.i ELSE q.i + 1
      /\ After(q, ok).at = 0 /\ ~After(q, ok).waiting
      /\ After(q, ok).symbol = q.symbol
      /\ After(q, ok).since = q.since /\ After(q, ok).result = q.result
  <2>1. q.i \in Nat /\ q.i + 1 \in Nat
    BY <1>1
  <2>2. CASE ok /\ Last(q, ok)
    BY <2>2 DEF After, ProcType
  <2>3. CASE ~ok /\ Last(q, ok)
    BY <2>3 DEF After, ProcType
  <2>4. CASE ok /\ ~Last(q, ok)
    BY <2>1, <2>4 DEF After, ProcType
  <2>5. CASE ~ok /\ ~Last(q, ok)
    BY <2>1, <2>5 DEF After, ProcType
  <2> QED BY <1>2, <2>2, <2>3, <2>4, <2>5
<1>4. CommandOf(After(q, ok)) = CommandOf(q)
  BY <1>3 DEF CommandOf
<1>5. After(q, ok).i \in 1 .. Len(CommandOf(q).calls)
  BY <1>1, <1>2, <1>3 DEF Last
<1>6. CommandOf(q).calls[After(q, ok).i] \in CallType
  BY <1>1, <1>5
<1>7. Len(RequestsOf[CallOf(After(q, ok)).call]) \in 0 .. 3
  BY <1>4, <1>6, RequestKinds DEF CallOf, CallType
<1>8. InPlace(After(q, ok))
  BY <1>1, <1>3, <1>4, <1>5, <1>7 DEF InPlace
<1> QED BY <1>2, <1>3, <1>4, <1>8

LEMMA AfterCall ==
  ASSUME NEW p \in Procs, NEW q \in ProcType(p), InPlace(q), NEW ok \in BOOLEAN,
         NEW d, NEW dev, LookedUp(q, dev), WritesDone(q, d, "running"),
         ok /\ CallOf(q).call \in Writes => q.i \in d,
         ok /\ CallOf(q).call = "GetSymbol" => Known(q)
  PROVE  ProcFacts(p, After(q, ok), NoAnswer, d, OutcomeAfter(q, ok), dev)
<1>. DEFINE r == After(q, ok)  c == CommandOf(q)
<1>1. /\ r \in ProcType(p) /\ InPlace(r) /\ CommandOf(r) = c
      /\ r.i = IF Last(q, ok) THEN q.i ELSE q.i + 1
      /\ r.at = 0 /\ ~r.waiting /\ r.symbol = q.symbol
  BY AfterType
<1>2. /\ q.i \in 1 .. Len(c.calls) /\ DOMAIN c.calls = 1 .. Len(c.calls) /\ Len(c.calls) \in Nat
      /\ c = Commands[p][q.command] /\ q.command \in DOMAIN Commands[p]
  BY AtRequest
<1>3. LookedUp(r, dev)
  <2>1. SUFFICES ASSUME CallOf(r).call = "GetDataType" PROVE Known(r)
    BY <1>1 DEF LookedUp
  <2>2. CASE Last(q, ok)
    <3>1. CallOf(r) = CallOf(q)
      BY <1>1, <2>2 DEF CallOf
    <3> QED BY <1>1, <2>1, <3>1 DEF LookedUp, Known
  <2>3. CASE ~Last(q, ok)
    <3>1. r.i = q.i + 1 /\ r.i \in DOMAIN c.calls /\ c.calls[r.i].call = "GetDataType"
      BY <1>1, <2>1, <2>3 DEF InPlace, CallOf
    <3>4. r.i - 1 = q.i
      BY <1>2, <3>1
    <3>2. /\ ~c.goesOn
          /\ c.calls[q.i].call = "GetSymbol" /\ c.calls[q.i].path = c.calls[r.i].path
      BY <1>2, <3>1, <3>4, CommandsAssumption
    <3>3. Known(q)
      BY <2>3, <3>2 DEF Last, CallOf
    <3> QED BY <1>1, <3>2, <3>3 DEF Known, CallOf
  <2> QED BY <2>2, <2>3
<1>4. WritesDone(r, d, OutcomeAfter(q, ok))
  <2>. DEFINE w == WritesOf(c)
  <2>1. /\ d \subseteq w /\ w \subseteq 1 .. Len(c.calls)
        /\ \A j \in d : j <= q.i
        /\ \A i \in d : \A j \in w : j < i => j \in d
        /\ \A j \in w : j < q.i => j \in d
    BY <1>2 DEF WritesDone, WritesOf
  <2>2. \A j \in d : j <= r.i
    BY <1>1, <1>2, <2>1
  <2>3. q.i \in w /\ q.i \notin d => ~ok /\ ~c.goesOn
    <3>1. q.i \in w => CallOf(q).call \in Writes /\ ~c.goesOn
      BY <1>2, CommandsAssumption DEF WritesOf, CallOf
    <3> QED BY <3>1
  <2>4. ASSUME OutcomeAfter(q, ok) = "running" PROVE \A j \in w : j < r.i => j \in d
    <3>1. ~Last(q, ok) /\ r.i = q.i + 1
      BY <1>1, <2>4 DEF OutcomeAfter
    <3>2. q.i \in w => q.i \in d
      BY <2>3, <3>1 DEF Last
    <3> QED BY <1>2, <2>1, <3>1, <3>2
  <2>5. ASSUME OutcomeAfter(q, ok) = "ok" PROVE d = w
    <3>1. Last(q, ok) /\ ok
      BY <2>5 DEF OutcomeAfter
    <3>2. q.i = Len(c.calls)
      BY <3>1 DEF Last
    <3>3. \A j \in w : j < q.i \/ j = q.i
      BY <1>2, <2>1, <3>2
    <3> QED BY <2>1, <2>3, <3>1, <3>3
  <2> QED BY <1>1, <2>1, <2>2, <2>4, <2>5 DEF WritesDone
<1>5. NoAnswer \in ResponseType /\ OutcomeAfter(q, ok) \in {"running", "ok", "error"}
  BY DEF NoAnswer, ResponseType, NoResult, OutcomeAfter
<1> QED BY <1>1, <1>3, <1>4, <1>5 DEF ProcFacts

-----------------------------------------------------------------------------
(* Steps of a goroutine.  All but Send and TimesOut leave the wire alone.    *)

Others(p) ==
  \A r \in Procs \ {p} :
    /\ proc'[r] = proc[r] /\ answer'[r] = answer[r]
    /\ done'[r] = done[r] /\ outcome'[r] = outcome[r]

LEMMA OneProc ==
  ASSUME IInv, NEW p \in Procs, Others(p), plc' = plc, Shape',
         ProcFacts(p, proc'[p], answer'[p], done'[p], outcome'[p], plc.device)
  PROVE  ProcsFacts'
BY DEF IInv, ProcsFacts, Others

\* A goroutine that does not wait, or has its answer, has no request on the wire.
LEMMA WireKept ==
  ASSUME IInv, NEW p \in Procs, Others(p), plc' = plc, wire' = wire,
         ~proc[p].waiting \/ answer[p] # NoAnswer
  PROVE  WireFacts'
<1>1. \A k \in DOMAIN wire : wire[k].of # p
  BY DEF IInv, WireFacts, Awaited
<1> QED BY <1>1 DEF IInv, WireFacts, Others

LEMMA EndCallStep ==
  ASSUME IInv, NEW p \in Procs, NEW ok \in BOOLEAN, NEW q \in ProcType(p), InPlace(q),
         LookedUp(q, plc.device), WritesDone(q, done[p], "running"),
         ok /\ CallOf(q).call \in Writes => q.i \in done[p],
         ok /\ CallOf(q).call = "GetSymbol" => Known(q),
         EndCall(p, ok, q),
         UNCHANGED <<plcVars, currentState, done>>, crashed' \in BOOLEAN
  PROVE  Shape' /\ ProcsFacts' /\ Others(p)
<1>1. /\ proc' = [proc EXCEPT ![p] = After(q, ok)]
      /\ outcome' = [outcome EXCEPT ![p] = OutcomeAfter(q, ok)]
      /\ answer' = [answer EXCEPT ![p] = NoAnswer]
  BY DEF EndCall, After, OutcomeAfter, Last
<1>2. Shape' /\ Others(p)
  BY <1>1 DEF IInv, Shape, Others, plcVars
<1>3. /\ proc'[p] = After(q, ok) /\ outcome'[p] = OutcomeAfter(q, ok) /\ answer'[p] = NoAnswer
      /\ done'[p] = done[p]
  BY <1>1 DEF IInv, Shape
<1>4. ProcFacts(p, proc'[p], answer'[p], done'[p], outcome'[p], plc.device)
  BY <1>3, AfterCall
<1> QED BY <1>2, <1>4, OneProc DEF plcVars

\* What holds of a goroutine that runs.
LEMMA RunningFacts ==
  ASSUME IInv, NEW p \in Procs, Running(p)
  PROVE  /\ proc[p] \in ProcType(p) /\ InPlace(proc[p])
         /\ LookedUp(proc[p], plc.device) /\ WritesDone(proc[p], done[p], "running")
         /\ outcome[p] = "running" /\ ~crashed
         /\ answer[p] \in ResponseType
         /\ ~proc[p].waiting => answer[p] = NoAnswer
         /\ proc[p].waiting /\ answer[p] # NoAnswer /\ answer[p].code = 0 =>
              Meant(proc[p], answer[p], done[p], plc.device)
BY DEF IInv, ProcsFacts, ProcFacts, Running

\* Results say nothing about the place a goroutine has come to.
LEMMA ResultFacts ==
  ASSUME NEW p \in Procs, NEW q \in ProcType(p), InPlace(q), NEW r \in Int, NEW d, NEW dev,
         LookedUp(q, dev), WritesDone(q, d, "running")
  PROVE  LET s == [q EXCEPT !.result = r] IN
         /\ s \in ProcType(p) /\ InPlace(s)
         /\ LookedUp(s, dev) /\ WritesDone(s, d, "running")
         /\ CallOf(s) = CallOf(q) /\ s.i = q.i /\ (Known(q) => Known(s))
<1>. DEFINE s == [q EXCEPT !.result = r]
<1>1. /\ s \in ProcType(p)
      /\ s.of = q.of /\ s.command = q.command /\ s.i = q.i /\ s.at = q.at
      /\ s.waiting = q.waiting /\ s.symbol = q.symbol /\ s.device = q.device
  BY DEF ProcType
<1>. HIDE DEF s
<1>2. CommandOf(s) = CommandOf(q) /\ CallOf(s) = CallOf(q)
  BY <1>1 DEF CommandOf, CallOf
<1>3. InPlace(s) /\ LookedUp(s, dev) /\ (Known(q) <=> Known(s))
  BY <1>1, <1>2 DEF InPlace, LookedUp, Known
<1>4. WritesDone(s, d, "running")
  BY <1>1, <1>2 DEF WritesDone
<1>5. (Known(q) => Known(s)) /\ LookedUp(s, dev) /\ InPlace(s) /\ s \in ProcType(p)
  BY <1>1, <1>3
<1> QED BY <1>1, <1>2, <1>4, <1>5 DEF s

LEMMA FailsStep ==
  ASSUME IInv, NEW p \in Procs, Running(p), Fails(p),
         UNCHANGED <<plcVars, currentState, done, crashed>>
  PROVE  Shape' /\ ProcsFacts' /\ Others(p)
<1>. DEFINE r == IF CallOf(proc[p]).call \in OfVariable THEN NoResult ELSE proc[p].result
            q == [proc[p] EXCEPT !.result = r]
<1>1. r \in Int
  BY RunningFacts DEF NoResult, ProcType
<1>2. /\ q \in ProcType(p) /\ InPlace(q)
      /\ LookedUp(q, plc.device) /\ WritesDone(q, done[p], "running")
  BY <1>1, RunningFacts, ResultFacts
<1>3. EndCall(p, FALSE, q)
  BY DEF Fails
<1>4. crashed' \in BOOLEAN
  BY DEF IInv, Shape
<1>. HIDE DEF q
<1> QED BY <1>2, <1>3, <1>4, EndCallStep

LEMMA Quiet ==
  ASSUME IInv, NEW p \in Procs, Shape', ProcsFacts', Others(p), plc' = plc, wire' = wire,
         ~proc[p].waiting \/ answer[p] # NoAnswer
  PROVE  IInv'
BY WireKept DEF IInv

LEMMA CallRefusedStep ==
  ASSUME IInv, NEW p \in Procs, CallRefused(p)
  PROVE  IInv'
<1>1. ~proc[p].waiting
  BY RunningFacts DEF CallRefused, InPlace
<1> QED BY <1>1, FailsStep, Quiet DEF CallRefused, plcVars

LEMMA SendFailsStep ==
  ASSUME IInv, NEW p \in Procs, SendFails(p)
  PROVE  IInv'
BY FailsStep, Quiet DEF SendFails, plcVars

LEMMA ReceiveErrorStep ==
  ASSUME IInv, NEW p \in Procs, ReceiveError(p)
  PROVE  IInv'
BY FailsStep, Quiet DEF ReceiveError, Answers, plcVars

LEMMA ReturnCurrentStateStep ==
  ASSUME IInv, NEW p \in Procs, ReturnCurrentState(p)
  PROVE  IInv'
<1>. DEFINE q == proc[p]
<1>1. /\ q \in ProcType(p) /\ InPlace(q) /\ ~q.waiting
      /\ LookedUp(q, plc.device) /\ WritesDone(q, done[p], "running")
  BY RunningFacts DEF ReturnCurrentState, InPlace
<1>2. RequestsOf[CallOf(q).call] = <<>> /\ CallOf(q).call \in DOMAIN RequestsOf
  BY <1>1, AtRequest DEF ReturnCurrentState, CallType
<1>3. CallOf(q).call \notin Writes \union {"GetSymbol"}
  BY <1>2, RequestList DEF Writes
<1>4. Shape' /\ ProcsFacts' /\ Others(p)
  BY <1>1, <1>3, EndCallStep DEF ReturnCurrentState, IInv, Shape
<1> QED BY <1>1, <1>4, Quiet DEF ReturnCurrentState, plcVars

\* A goroutine at the same place of its command.
LEMMA SamePlace ==
  ASSUME NEW p \in Procs, NEW q \in ProcType(p), NEW s \in ProcType(p),
         s.command = q.command, s.i = q.i
  PROVE  /\ CommandOf(s) = CommandOf(q) /\ CallOf(s) = CallOf(q)
         /\ \A d, o : WritesDone(q, d, o) <=> WritesDone(s, d, o)
<1>1. CommandOf(s) = CommandOf(q) /\ CallOf(s) = CallOf(q)
  BY DEF CommandOf, CallOf, ProcType
<1> QED BY <1>1 DEF WritesDone

LEMMA GoOnStep ==
  ASSUME IInv, NEW p \in Procs, NEW q \in ProcType(p), InPlace(q),
         WritesDone(q, done[p], "running"), outcome[p] = "running",
         q.at < Len(RequestsOf[CallOf(q).call]),
         CallOf(q).call \in Gated \union {"GetDataType"} => Known(q),
         CallOf(q).call \in StateCalls => q.device = plc.device,
         GoOn(p, q),
         UNCHANGED <<plcVars, currentState, done>>, crashed' \in BOOLEAN
  PROVE  Shape' /\ ProcsFacts' /\ Others(p)
<1>. DEFINE s == [q EXCEPT !.at = @ + 1, !.waiting = FALSE]
<1>1. /\ proc' = [proc EXCEPT ![p] = s]
      /\ answer' = [answer EXCEPT ![p] = NoAnswer] /\ outcome' = outcome
  BY DEF GoOn
<1>2. q.at \in Nat /\ q.at + 1 \in Nat
  BY DEF ProcType
<1>3. /\ s \in ProcType(p)
      /\ s.command = q.command /\ s.i = q.i /\ s.at = q.at + 1 /\ ~s.waiting
      /\ s.symbol = q.symbol /\ s.device = q.device
  BY <1>2 DEF ProcType
<1>. HIDE DEF s
<1>4. CommandOf(s) = CommandOf(q) /\ CallOf(s) = CallOf(q) /\ WritesDone(s, done[p], "running")
  BY <1>3, SamePlace
<1>5. Len(RequestsOf[CallOf(q).call]) \in Nat
  BY AtRequest, RequestKinds DEF CallType
<1>6. InPlace(s)
  BY <1>2, <1>3, <1>4, <1>5 DEF InPlace
<1>7. LookedUp(s, plc.device)
  BY <1>3, <1>4 DEF LookedUp, Known
<1>8. Shape' /\ Others(p)
  BY <1>1 DEF IInv, Shape, Others, plcVars
<1>9. /\ proc'[p] = s /\ answer'[p] = NoAnswer /\ done'[p] = done[p]
      /\ outcome'[p] = "running"
  BY <1>1 DEF IInv, Shape
<1>10. NoAnswer \in ResponseType
  BY DEF NoAnswer, NoResult, ResponseType
<1>11. ProcFacts(p, proc'[p], answer'[p], done'[p], outcome'[p], plc.device)
  BY <1>3, <1>4, <1>6, <1>7, <1>9, <1>10 DEF ProcFacts
<1> QED BY <1>8, <1>11, OneProc DEF plcVars

LEMMA CallBeginsStep ==
  ASSUME IInv, NEW p \in Procs, CallBegins(p)
  PROVE  IInv'
<1>. DEFINE q == proc[p]  s == [q EXCEPT !.at = 1, !.since = plc.program]
<1>1. /\ q \in ProcType(p) /\ InPlace(q) /\ ~q.waiting /\ answer[p] = NoAnswer
      /\ LookedUp(q, plc.device) /\ WritesDone(q, done[p], "running")
      /\ outcome[p] = "running"
  BY RunningFacts DEF CallBegins, InPlace
<1>2. plc.program \in 0 .. Len(Programs)
  BY ProgramsAssumption DEF IInv, Shape
<1>3. /\ s \in ProcType(p)
      /\ s.command = q.command /\ s.i = q.i /\ s.at = 1 /\ ~s.waiting
      /\ s.symbol = q.symbol
  BY <1>1, <1>2 DEF ProcType
<1>4. proc' = [proc EXCEPT ![p] = s]
  BY DEF CallBegins
<1>. HIDE DEF s
<1>5. CommandOf(s) = CommandOf(q) /\ CallOf(s) = CallOf(q) /\ WritesDone(s, done[p], "running")
  BY <1>1, <1>3, SamePlace
<1>6. 1 \in 0 .. Len(RequestsOf[CallOf(q).call])
  BY <1>1, AtRequest, RequestKinds DEF CallBegins, CallType
<1>7. InPlace(s)
  BY <1>1, <1>3, <1>5, <1>6 DEF InPlace
<1>8. LookedUp(s, plc.device)
  BY <1>1, <1>3, <1>5 DEF LookedUp, Known
<1>9. Shape' /\ Others(p)
  BY <1>4 DEF IInv, Shape, Others, CallBegins, plcVars
<1>10. /\ proc'[p] = s /\ answer'[p] = NoAnswer /\ done'[p] = done[p]
       /\ outcome'[p] = "running"
  BY <1>1, <1>4 DEF IInv, Shape, CallBegins
<1>11. NoAnswer \in ResponseType
  BY DEF NoAnswer, NoResult, ResponseType
<1>12. ProcFacts(p, proc'[p], answer'[p], done'[p], outcome'[p], plc.device)
  BY <1>3, <1>5, <1>7, <1>8, <1>10, <1>11 DEF ProcFacts
<1> QED BY <1>1, <1>9, <1>12, OneProc, Quiet DEF CallBegins, plcVars

\* What an accepted answer says.
LEMMA AcceptedFacts ==
  ASSUME IInv, NEW p \in Procs, NEW kind \in Kinds, Accepted(p, kind)
  PROVE  /\ proc[p] \in ProcType(p) /\ InPlace(proc[p])
         /\ LookedUp(proc[p], plc.device) /\ WritesDone(proc[p], done[p], "running")
         /\ outcome[p] = "running" /\ Running(p)
         /\ answer[p] \in ResponseType /\ answer[p] # NoAnswer
         /\ Kind(proc[p]) = kind /\ proc[p].at > 0 /\ KindsOf(CallOf(proc[p]).call, proc[p].at)
         /\ Kind(proc[p]) = RequestsOf[CallOf(proc[p]).call][proc[p].at]
         /\ Meant(proc[p], answer[p], done[p], plc.device)
<1>1. /\ proc[p] \in ProcType(p) /\ InPlace(proc[p]) /\ proc[p].waiting
      /\ answer[p] # NoAnswer /\ Running(p) /\ Kind(proc[p]) = kind /\ Accepts(kind, answer[p])
  BY RunningFacts DEF Accepted, Answers
<1>2. StripAdsError(answer[p])
  BY <1>1 DEF Accepts, StripAdsHeader, Kinds
<1>3. proc[p].at > 0
  BY <1>1 DEF InPlace, ProcType
<1>4. Kind(proc[p]) = RequestsOf[CallOf(proc[p]).call][proc[p].at]
  BY DEF Kind
<1> QED BY <1>1, <1>2, <1>3, <1>4, RunningFacts, AtRequest DEF StripAdsError

LEMMA ReceiveOtherStep ==
  ASSUME IInv, NEW p \in Procs, ReceiveOther(p)
  PROVE  IInv'
<1>. DEFINE q == proc[p]  c == CallOf(proc[p]).call
<1>1. PICK kind \in {"control", "device", "extended", "size", "table"} : Accepted(p, kind)
  BY DEF ReceiveOther
<1>2. kind \in Kinds
  BY DEF Kinds
<1>3. /\ q \in ProcType(p) /\ InPlace(q) /\ LookedUp(q, plc.device)
      /\ WritesDone(q, done[p], "running") /\ answer[p] # NoAnswer
      /\ KindsOf(c, q.at) /\ RequestsOf[c][q.at] = kind /\ q.at > 0
  BY <1>1, <1>2, AcceptedFacts
<1>4. c \in DOMAIN RequestsOf /\ q.at \in 1 .. Len(RequestsOf[c]) /\ Len(RequestsOf[c]) \in 0 .. 3
  BY <1>3, AtRequest, RequestKinds DEF CallType
<1>5. c \notin Writes \union {"GetSymbol"}
  <2>1. c \in Gated <=> Len(RequestsOf[c]) = 3
    BY <1>4, RequestKinds
  <2>2. c \in StateCalls <=> Len(RequestsOf[c]) = 2
    BY <1>4, RequestKinds
  <2>3. c \notin Gated \union StateCalls => q.at = 1 /\ Len(RequestsOf[c]) = 1
    <3>1. PICK n \in 0 .. 3 : n = Len(RequestsOf[c])
      BY <1>4
    <3>2. q.at \in 1 .. n /\ n \in {0, 1, 2, 3}
      BY <1>4, <3>1
    <3>3. n # 3 /\ n # 2 => q.at = 1 /\ n = 1
      BY <3>2
    <3> QED BY <2>1, <2>2, <3>1, <3>3
  <2>4. CASE c = "WriteValue"
    <3>1. Len(RequestsOf[c]) = 3
      BY <2>1, <2>4 DEF Gated
    <3>2. q.at \in 1 .. 3
      BY <1>4, <3>1
    <3> QED BY <1>3, <2>4, <3>1, <3>2 DEF KindsOf, Gated, Writes
  <2>5. CASE c = "WriteRaw" \/ c = "GetSymbol"
    BY <1>3, <2>3, <2>5 DEF KindsOf, Gated, Writes, StateCalls
  <2> QED BY <2>4, <2>5 DEF Writes
<1>6. EndCall(p, TRUE, q) /\ UNCHANGED <<plcVars, currentState, wire, done, crashed>>
  BY DEF ReceiveOther
<1>7. Shape' /\ ProcsFacts' /\ Others(p)
  BY <1>3, <1>5, <1>6, EndCallStep DEF IInv, Shape
<1> QED BY <1>3, <1>6, <1>7, Quiet DEF plcVars

LEMMA ReceiveWrittenStep ==
  ASSUME IInv, NEW p \in Procs, ReceiveWritten(p)
  PROVE  IInv'
<1>. DEFINE r == CallOf(proc[p]).value.n  q == [proc[p] EXCEPT !.result = r]
<1>1. "write" \in Kinds /\ Accepted(p, "write")
  BY DEF Kinds, ReceiveWritten
<1>2. /\ proc[p] \in ProcType(p) /\ InPlace(proc[p])
      /\ LookedUp(proc[p], plc.device) /\ WritesDone(proc[p], done[p], "running")
      /\ answer[p] # NoAnswer /\ KindsOf(CallOf(proc[p]).call, proc[p].at)
      /\ RequestsOf[CallOf(proc[p]).call][proc[p].at] = "write"
      /\ proc[p].i \in done[p]
  BY <1>1, AcceptedFacts DEF Meant
<1>3. CallOf(proc[p]).call \in Writes
  BY <1>2 DEF KindsOf
<1>4. r \in Int
  BY <1>2, AtRequest DEF CallType, Values
<1>5. /\ q \in ProcType(p) /\ InPlace(q)
      /\ LookedUp(q, plc.device) /\ WritesDone(q, done[p], "running")
      /\ CallOf(q) = CallOf(proc[p]) /\ q.i = proc[p].i
  BY <1>2, <1>4, ResultFacts
<1>6. EndCall(p, TRUE, q) /\ UNCHANGED <<plcVars, currentState, wire, done, crashed>>
  BY DEF ReceiveWritten
<1>. HIDE DEF q
<1>7. Shape' /\ ProcsFacts' /\ Others(p)
  BY <1>2, <1>3, <1>5, <1>6, EndCallStep DEF IInv, Shape, Writes
<1> QED BY <1>2, <1>6, <1>7, Quiet DEF plcVars

LEMMA ReceiveValueStep ==
  ASSUME IInv, NEW p \in Procs, ReceiveValue(p)
  PROVE  IInv'
<1>. DEFINE r == answer[p].data  q == [proc[p] EXCEPT !.result = r]
<1>1. "read" \in Kinds /\ Accepted(p, "read")
  BY DEF Kinds, ReceiveValue
<1>2. /\ proc[p] \in ProcType(p) /\ InPlace(proc[p])
      /\ LookedUp(proc[p], plc.device) /\ WritesDone(proc[p], done[p], "running")
      /\ answer[p] # NoAnswer /\ answer[p] \in ResponseType
      /\ KindsOf(CallOf(proc[p]).call, proc[p].at)
      /\ RequestsOf[CallOf(proc[p]).call][proc[p].at] = "read"
  BY <1>1, AcceptedFacts
<1>3. CallOf(proc[p]).call \notin Writes \union {"GetSymbol"}
  BY <1>2 DEF KindsOf, Writes
<1>4. r \in Int
  BY <1>2 DEF ResponseType
<1>5. /\ q \in ProcType(p) /\ InPlace(q)
      /\ LookedUp(q, plc.device) /\ WritesDone(q, done[p], "running")
      /\ CallOf(q) = CallOf(proc[p])
  BY <1>2, <1>4, ResultFacts
<1>6. \/ crashed' = TRUE /\ UNCHANGED <<proc, outcome, answer>>
      \/ EndCall(p, TRUE, q) /\ UNCHANGED crashed
  BY DEF ReceiveValue
<1>7. UNCHANGED <<plcVars, currentState, wire, done>>
  BY DEF ReceiveValue
<1>8. CASE crashed' = TRUE /\ UNCHANGED <<proc, outcome, answer>>
  <2>1. Shape' /\ ProcsFacts' /\ Others(p)
    BY <1>7, <1>8 DEF IInv, Shape, ProcsFacts, Others, plcVars
  <2> QED BY <1>2, <1>7, <2>1, Quiet DEF plcVars
<1>9. CASE EndCall(p, TRUE, q) /\ UNCHANGED crashed
  <2>. HIDE DEF q
  <2>1. Shape' /\ ProcsFacts' /\ Others(p)
    BY <1>3, <1>5, <1>7, <1>9, EndCallStep DEF IInv, Shape
  <2> QED BY <1>2, <1>7, <2>1, Quiet DEF plcVars
<1> QED BY <1>6, <1>8, <1>9

LEMMA ReceiveSymbolStep ==
  ASSUME IInv, NEW p \in Procs, ReceiveSymbol(p)
  PROVE  IInv'
<1>. DEFINE r == answer[p].data  q == [proc[p] EXCEPT !.symbol = r]
            c == CallOf(proc[p]).call
<1>1. "symbol" \in Kinds /\ Accepted(p, "symbol")
  BY DEF Kinds, ReceiveSymbol
<1>2. /\ proc[p] \in ProcType(p) /\ InPlace(proc[p]) /\ outcome[p] = "running"
      /\ WritesDone(proc[p], done[p], "running")
      /\ answer[p] # NoAnswer /\ KindsOf(c, proc[p].at)
      /\ RequestsOf[c][proc[p].at] = "symbol"
      /\ Known(q)
  BY <1>1, AcceptedFacts DEF Meant
<1>3. c \in Gated \union {"GetSymbol"} /\ proc[p].at = 1
  BY <1>2 DEF KindsOf
<1>4. q.symbol = r
  BY <1>2 DEF ProcType
<1>5. r \in 0 .. Len(Programs)
  BY <1>2, <1>4, ProgramsAssumption DEF Known
<1>6. /\ q \in ProcType(p)
      /\ q.command = proc[p].command /\ q.i = proc[p].i /\ q.at = 1 /\ q.waiting = proc[p].waiting
  BY <1>2, <1>3, <1>5 DEF ProcType
<1>7. \/ c = "GetSymbol" /\ EndCall(p, TRUE, q)
      \/ c # "GetSymbol" /\ GoOn(p, q)
  <2>1. CallOf(q) = CallOf(proc[p])
    BY <1>2, <1>6, SamePlace
  <2>2. IF CallOf(q).call = "GetSymbol" THEN EndCall(p, TRUE, q) ELSE GoOn(p, q)
    BY DEF ReceiveSymbol
  <2>. HIDE DEF q
  <2> QED BY <2>1, <2>2
<1>8. UNCHANGED <<plcVars, currentState, wire, done, crashed>> /\ crashed' \in BOOLEAN
  BY DEF ReceiveSymbol, IInv, Shape
<1>. HIDE DEF q
<1>9. CallOf(q) = CallOf(proc[p]) /\ WritesDone(q, done[p], "running")
  BY <1>2, <1>6, SamePlace
<1>10. InPlace(q)
  BY <1>2, <1>3, <1>6, <1>9, SamePlace DEF InPlace
<1>11. CASE c = "GetSymbol" /\ EndCall(p, TRUE, q)
  <2>1. LookedUp(q, plc.device)
    BY <1>6, <1>9, <1>11 DEF LookedUp, Gated, StateCalls
  <2>2. Shape' /\ ProcsFacts' /\ Others(p)
    BY <1>2, <1>6, <1>8, <1>9, <1>10, <1>11, <2>1, EndCallStep DEF Writes
  <2> QED BY <1>2, <1>8, <2>2, Quiet DEF plcVars
<1>12. CASE c # "GetSymbol" /\ GoOn(p, q)
  <2>1. c \in Gated /\ c \notin StateCalls /\ Len(RequestsOf[c]) = 3
    BY <1>2, <1>3, <1>12, AtRequest DEF Gated, StateCalls
  <2>2. Shape' /\ ProcsFacts' /\ Others(p)
    <3>1. /\ q \in ProcType(p) /\ InPlace(q) /\ WritesDone(q, done[p], "running")
          /\ outcome[p] = "running" /\ GoOn(p, q)
      BY <1>2, <1>6, <1>9, <1>10, <1>12
    <3>2. q.at < Len(RequestsOf[CallOf(q).call])
      BY <1>6, <1>9, <2>1
    <3>3. Known(q) /\ CallOf(q).call \notin StateCalls
      BY <1>2, <1>9, <2>1
    <3>4. UNCHANGED <<plcVars, currentState, done>> /\ crashed' \in BOOLEAN
      BY <1>8
    <3>. HIDE DEF c
    <3> QED BY <3>1, <3>2, <3>3, <3>4, GoOnStep
  <2> QED BY <1>2, <1>8, <2>2, Quiet DEF plcVars
<1> QED BY <1>7, <1>11, <1>12

LEMMA ReceiveStateStep ==
  ASSUME IInv, NEW p \in Procs, ReceiveState(p)
  PROVE  IInv'
<1>. DEFINE r == answer[p].data  q == [proc[p] EXCEPT !.device = r]
            c == CallOf(proc[p]).call
<1>1. "state" \in Kinds /\ Accepted(p, "state")
  BY DEF Kinds, ReceiveState
<1>2. /\ proc[p] \in ProcType(p) /\ InPlace(proc[p]) /\ outcome[p] = "running"
      /\ WritesDone(proc[p], done[p], "running") /\ LookedUp(proc[p], plc.device)
      /\ answer[p] # NoAnswer /\ KindsOf(c, proc[p].at)
      /\ RequestsOf[c][proc[p].at] = "state"
      /\ r = plc.device
  BY <1>1, AcceptedFacts DEF Meant
<1>3. (c \in StateCalls /\ proc[p].at = 1) \/ c = "ReadTcSystemState"
  BY <1>2 DEF KindsOf
<1>4. r \in Devices \union {0}
  BY <1>2 DEF IInv, Shape
<1>5. /\ q \in ProcType(p)
      /\ q.command = proc[p].command /\ q.i = proc[p].i /\ q.at = proc[p].at
      /\ q.waiting = proc[p].waiting /\ q.symbol = proc[p].symbol /\ q.device = plc.device
  BY <1>2, <1>4 DEF ProcType
<1>6. UNCHANGED <<plcVars, currentState, wire, done, crashed>> /\ crashed' \in BOOLEAN
  BY DEF ReceiveState, IInv, Shape
<1>7. IF CallOf(q).call = "ReadTcSystemState" THEN EndCall(p, TRUE, q) ELSE GoOn(p, q)
  BY DEF ReceiveState
<1>. HIDE DEF q
<1>8. CallOf(q) = CallOf(proc[p]) /\ WritesDone(q, done[p], "running")
  BY <1>2, <1>5, SamePlace
<1>9. InPlace(q) /\ LookedUp(q, plc.device)
  BY <1>2, <1>5, <1>8, SamePlace DEF InPlace, LookedUp, Known
<1>10. CASE c = "ReadTcSystemState"
  <2>1. EndCall(p, TRUE, q) /\ c \notin Writes /\ c # "GetSymbol"
    BY <1>7, <1>8, <1>10 DEF Writes
  <2>2. Shape' /\ ProcsFacts' /\ Others(p)
    BY <1>5, <1>6, <1>8, <1>9, <2>1, EndCallStep
  <2> QED BY <1>2, <1>6, <2>2, Quiet DEF plcVars
<1>11. CASE c # "ReadTcSystemState"
  <2>1. GoOn(p, q) /\ c \notin Gated \union {"GetDataType"} /\ Len(RequestsOf[c]) = 2
    BY <1>2, <1>3, <1>7, <1>8, <1>11, AtRequest DEF Gated, StateCalls
  <2>3. /\ q.at < Len(RequestsOf[CallOf(q).call])
        /\ CallOf(q).call \in Gated \union {"GetDataType"} => Known(q)
        /\ CallOf(q).call \in StateCalls => q.device = plc.device
    BY <1>3, <1>5, <1>8, <1>11, <2>1
  <2>2. Shape' /\ ProcsFacts' /\ Others(p)
    BY <1>2, <1>5, <1>6, <1>8, <1>9, <2>1, <2>3, GoOnStep
  <2> QED BY <1>2, <1>6, <2>2, Quiet DEF plcVars
<1> QED BY <1>10, <1>11

LEMMA ReceiveTypeStep ==
  ASSUME IInv, NEW p \in Procs, ReceiveType(p)
  PROVE  IInv'
<1>. DEFINE r == answer[p].data  q == [proc[p] EXCEPT !.type = r]
            c == CallOf(proc[p]).call
<1>1. "type" \in Kinds /\ Accepted(p, "type")
  BY DEF Kinds, ReceiveType
<1>2. /\ proc[p] \in ProcType(p) /\ InPlace(proc[p]) /\ outcome[p] = "running"
      /\ WritesDone(proc[p], done[p], "running") /\ LookedUp(proc[p], plc.device)
      /\ answer[p] # NoAnswer /\ KindsOf(c, proc[p].at) /\ Running(p)
      /\ RequestsOf[c][proc[p].at] = "type"
      /\ r \in 0 .. Len(Programs)
  BY <1>1, AcceptedFacts DEF Meant
<1>3. (c \in Gated /\ proc[p].at = 2) \/ c = "GetDataType"
  BY <1>2 DEF KindsOf
<1>4. /\ q \in ProcType(p)
      /\ q.command = proc[p].command /\ q.i = proc[p].i /\ q.at = proc[p].at
      /\ q.waiting = proc[p].waiting /\ q.symbol = proc[p].symbol /\ q.device = proc[p].device
  BY <1>2 DEF ProcType
<1>5. UNCHANGED <<plcVars, currentState, wire, done>>
  BY DEF ReceiveType
<1>6. \/ CallOf(q).call = "GetDataType" /\ EndCall(p, TRUE, q) /\ UNCHANGED crashed
      \/ Fails(p) /\ UNCHANGED crashed
      \/ CallOf(q).call # "GetDataType" /\ GoOn(p, q) /\ crashed' \in BOOLEAN
  BY DEF ReceiveType, TooShort
<1>. HIDE DEF q
<1>7. CallOf(q) = CallOf(proc[p]) /\ WritesDone(q, done[p], "running")
  BY <1>2, <1>4, SamePlace
<1>8. InPlace(q) /\ LookedUp(q, plc.device)
  BY <1>2, <1>4, <1>7, SamePlace DEF InPlace, LookedUp, Known
<1>9. CASE CallOf(q).call = "GetDataType" /\ EndCall(p, TRUE, q) /\ UNCHANGED crashed
  <2>1. crashed' \in BOOLEAN /\ CallOf(q).call \notin Writes /\ CallOf(q).call # "GetSymbol"
    BY <1>9 DEF IInv, Shape, Writes
  <2>2. Shape' /\ ProcsFacts' /\ Others(p)
    BY <1>4, <1>5, <1>7, <1>8, <1>9, <2>1, EndCallStep
  <2> QED BY <1>2, <1>5, <2>2, Quiet DEF plcVars
<1>10. CASE Fails(p) /\ UNCHANGED crashed
  BY <1>2, <1>5, <1>10, FailsStep, Quiet DEF plcVars
<1>11. CASE CallOf(q).call # "GetDataType" /\ GoOn(p, q) /\ crashed' \in BOOLEAN
  <2>1. c \in Gated /\ c \notin StateCalls /\ q.at = 2 /\ Len(RequestsOf[c]) = 3 /\ Known(q)
    BY <1>2, <1>3, <1>4, <1>7, <1>8, <1>11, AtRequest DEF Gated, StateCalls, LookedUp
  <2>3. /\ q.at < Len(RequestsOf[CallOf(q).call])
        /\ CallOf(q).call \in Gated \union {"GetDataType"} => Known(q)
        /\ CallOf(q).call \in StateCalls => q.device = plc.device
    BY <1>7, <2>1
  <2>2. Shape' /\ ProcsFacts' /\ Others(p)
    BY <1>2, <1>4, <1>5, <1>7, <1>8, <1>11, <2>3, GoOnStep
  <2> QED BY <1>2, <1>5, <2>2, Quiet DEF plcVars
<1> QED BY <1>6, <1>9, <1>10, <1>11

-----------------------------------------------------------------------------
(* Requests.                                                               *)

LEMMA ValueCalls ==
  ASSUME NEW p \in Procs, NEW q \in ProcType(p), InPlace(q), NEW dev, LookedUp(q, dev),
         q.at > 0, Kind(q) \in {"type", "read", "write"}
  PROVE  /\ Kind(q) = "type" => Known(q)
         /\ Kind(q) \in {"read", "write"} => CallOf(q).path = RawPath \/ Known(q)
<1>. DEFINE c == CallOf(q).call  n == Len(RequestsOf[c])
<1>1. /\ KindsOf(c, q.at) /\ Kind(q) = RequestsOf[c][q.at]
      /\ c \in Gated <=> n = 3
  BY AtRequest DEF Kind
<1>2. /\ Kind(q) = "type" => (c \in Gated /\ q.at = 2) \/ c = "GetDataType"
      /\ Kind(q) = "read" => (c = "ReadValue" /\ q.at = 3) \/ c = "ReadRaw"
      /\ Kind(q) = "write" => (c = "WriteValue" /\ q.at = 3) \/ c = "WriteRaw"
  BY <1>1 DEF KindsOf, Writes, Gated
<1>3. c \in {"ReadRaw", "WriteRaw"} => CallOf(q).path = RawPath
  <2>1. /\ CommandOf(q) = Commands[p][q.command] /\ q.command \in DOMAIN Commands[p]
        /\ q.i \in DOMAIN CommandOf(q).calls
    BY AtRequest DEF InPlace
  <2> QED BY <2>1, CommandsAssumption DEF CallOf
<1> QED BY <1>2, <1>3 DEF LookedUp, Gated

LEMMA KnownSymbol ==
  ASSUME NEW q, Known(q)
  PROVE  SymbolOf(q).cell \in Cells /\ SymbolOf(q).type \in STRING /\ SymbolOf(q).size \in Nat
BY ProgramsAssumption DEF Known, SymbolOf

LEMMA RequestFacts ==
  ASSUME IInv, NEW p \in Procs, Running(p), proc[p].at > 0
  PROVE  /\ Request(p) \in Requests
         /\ Request(p).of = p /\ Request(p).kind = Kind(proc[p])
         /\ Kind(proc[p]) = "symbol" => Request(p).path = CallOf(proc[p]).path
         /\ Kind(proc[p]) = "control" => Request(p).device = plc.device
<1>. DEFINE q == proc[p]  kind == Kind(proc[p])
<1>1. /\ q \in ProcType(p) /\ InPlace(q) /\ LookedUp(q, plc.device)
      /\ CallOf(q) \in CallType
      /\ KindsOf(CallOf(q).call, q.at) /\ kind = RequestsOf[CallOf(q).call][q.at]
  BY RunningFacts, AtRequest DEF Kind
<1>2. kind \in Kinds
  BY <1>1 DEF KindsOf
<1>3. CASE kind = "symbol"
  <2>1. Request(p) = [of |-> p, kind |-> "symbol", path |-> CallOf(q).path]
    BY <1>3 DEF Request
  <2>2. CallOf(q).path \in STRING
    BY <1>1 DEF CallType
  <2>3. Request(p) \in [of : Procs \union {Nobody}, kind : {"symbol"}, path : STRING]
    BY <2>1, <2>2
  <2> QED BY <1>3, <2>1, <2>3 DEF Requests
<1>4. CASE kind = "type"
  <2>1. Request(p) = [of |-> p, kind |-> "type", type |-> SymbolOf(q).type]
    BY <1>4 DEF Request
  <2>2. SymbolOf(q).type \in STRING
    BY <1>1, <1>4, ValueCalls, KnownSymbol
  <2>3. Request(p) \in [of : Procs \union {Nobody}, kind : {"type"}, type : STRING]
    BY <2>1, <2>2
  <2> QED BY <1>4, <2>1, <2>3 DEF Requests
<1>5. CASE kind = "read"
  <2>1. Request(p) = [of |-> p, kind |-> "read", cell |-> CellOf(q), size |-> SizeOf(q)]
    BY <1>5 DEF Request
  <2>2. CellOf(q) \in Cells /\ SizeOf(q) \in Nat
    BY <1>1, <1>5, ValueCalls, KnownSymbol, SystemAssumption DEF CellOf, SizeOf
  <2>3. Request(p) \in [of : Procs \union {Nobody}, kind : {"read"}, cell : Cells, size : Nat]
    BY <2>1, <2>2
  <2> QED BY <1>5, <2>1, <2>3 DEF Requests
<1>6. CASE kind = "write"
  <2>1. Request(p) =
          [of |-> p, kind |-> "write", cell |-> CellOf(q), value |-> CallOf(q).value.n]
    BY <1>6 DEF Request
  <2>2. CellOf(q) \in Cells /\ CallOf(q).value.n \in Values
    BY <1>1, <1>6, ValueCalls, KnownSymbol, SystemAssumption DEF CellOf, CallType
  <2>3. Request(p) \in [of : Procs \union {Nobody}, kind : {"write"}, cell : Cells, value : Values]
    BY <2>1, <2>2
  <2> QED BY <1>6, <2>1, <2>3 DEF Requests
<1>7. CASE kind = "control"
  <2>1. PICK x \in {"Reset", "Reconfig"} :
          Request(p) = [of |-> p, kind |-> "control", device |-> q.device, state |-> x]
    BY <1>7 DEF Request
  <2>2. q.device \in Devices \union {0}
    BY <1>1 DEF ProcType
  <2>3. Request(p) \in [of : Procs \union {Nobody}, kind : {"control"},
                         device : Devices \union {0}, state : {"Reset", "Reconfig"}]
    BY <2>1, <2>2
  <2>4. q.device = plc.device
    BY <1>1, <1>7 DEF KindsOf, LookedUp
  <2> QED BY <1>7, <2>1, <2>3, <2>4 DEF Requests
<1>8. CASE kind \in {"state", "extended", "device", "size", "table"}
  <2>1. Request(p) = [of |-> p, kind |-> kind]
    BY <1>8 DEF Request
  <2>2. Request(p) \in [of : Procs \union {Nobody},
                         kind : {"state", "extended", "device", "size", "table"}]
    BY <1>8, <2>1
  <2> QED BY <1>8, <2>1, <2>2 DEF Requests
<1> QED BY <1>2, <1>3, <1>4, <1>5, <1>6, <1>7, <1>8 DEF Kinds

LEMMA Relabelled ==
  ASSUME NEW r \in Requests
  PROVE  LET s == [r EXCEPT !.of = Nobody] IN
         /\ s \in Requests /\ s.of = Nobody /\ s.kind = r.kind
         /\ r.kind = "control" => s.device = r.device
<1>. DEFINE Of == Procs \union {Nobody}
<1>1. CASE r \in [of : Of, kind : {"symbol"}, path : STRING]
  BY <1>1 DEF Requests
<1>2. CASE r \in [of : Of, kind : {"type"}, type : STRING]
  BY <1>2 DEF Requests
<1>3. CASE r \in [of : Of, kind : {"read"}, cell : Cells, size : Nat]
  BY <1>3 DEF Requests
<1>4. CASE r \in [of : Of, kind : {"write"}, cell : Cells, value : Values]
  BY <1>4 DEF Requests
<1>5. CASE r \in [of : Of, kind : {"control"}, device : Devices \union {0},
                  state : {"Reset", "Reconfig"}]
  BY <1>5 DEF Requests
<1>6. CASE r \in [of : Of, kind : {"state", "extended", "device", "size", "table"}]
  BY <1>6 DEF Requests
<1> QED BY <1>1, <1>2, <1>3, <1>4, <1>5, <1>6 DEF Requests

LEMMA SendStep ==
  ASSUME IInv, NEW p \in Procs, Send(p)
  PROVE  IInv'
<1>. DEFINE q == proc[p]  s == [proc[p] EXCEPT !.waiting = TRUE]  r == Request(p)
<1>1. /\ q \in ProcType(p) /\ InPlace(q) /\ ~q.waiting /\ answer[p] = NoAnswer /\ q.at > 0
      /\ LookedUp(q, plc.device) /\ WritesDone(q, done[p], "running")
      /\ outcome[p] = "running" /\ Running(p) /\ answer[p] \in ResponseType
  BY RunningFacts DEF Send
<1>2. /\ r \in Requests /\ r.of = p /\ r.kind = Kind(q)
      /\ Kind(q) = "symbol" => r.path = CallOf(q).path
      /\ Kind(q) = "control" => r.device = plc.device
  BY <1>1, RequestFacts
<1>3. /\ s \in ProcType(p)
      /\ s.command = q.command /\ s.i = q.i /\ s.at = q.at /\ s.waiting
      /\ s.symbol = q.symbol /\ s.device = q.device
  BY <1>1 DEF ProcType
<1>4. proc' = [proc EXCEPT ![p] = s] /\ wire' = Append(wire, r)
  BY DEF Send
<1>5. UNCHANGED <<plc, memory, currentState, outcome, answer, done, crashed>>
  BY DEF Send, plcVars
<1>. HIDE DEF s, r
<1>6. CommandOf(s) = CommandOf(q) /\ CallOf(s) = CallOf(q) /\ WritesDone(s, done[p], "running")
  BY <1>1, <1>3, SamePlace
<1>7. InPlace(s) /\ LookedUp(s, plc.device) /\ Kind(s) = Kind(q)
  BY <1>1, <1>3, <1>6 DEF InPlace, LookedUp, Known, Kind
<1>8. Shape' /\ Others(p)
  BY <1>4, <1>5 DEF IInv, Shape, Others
<1>9. proc'[p] = s /\ answer'[p] = NoAnswer /\ done'[p] = done[p] /\ outcome'[p] = "running"
  BY <1>1, <1>4, <1>5 DEF IInv, Shape
<1>10. ProcFacts(p, proc'[p], answer'[p], done'[p], outcome'[p], plc.device)
  BY <1>1, <1>3, <1>6, <1>7, <1>9 DEF ProcFacts
<1>11. ProcsFacts'
  BY <1>5, <1>8, <1>10, OneProc
<1>12. WireFacts'
  <2>1. wire \in Seq(Requests) /\ Len(wire) \in Nat /\ DOMAIN wire = 1 .. Len(wire)
    BY DEF IInv, WireFacts
  <2>2. /\ wire' \in Seq(Requests) /\ DOMAIN wire' = 1 .. Len(wire) + 1
        /\ wire'[Len(wire) + 1] = r
        /\ \A k \in DOMAIN wire : wire'[k] = wire[k]
    BY <1>2, <1>4, <2>1
  <2>3. \A k \in DOMAIN wire : wire[k].of # p
    BY <1>1 DEF IInv, WireFacts, Awaited
  <2>4. Awaited(r, proc'[p], answer'[p])
    BY <1>2, <1>3, <1>6, <1>7, <1>9 DEF Awaited
  <2>5. \A k \in DOMAIN wire : wire[k].of \in Procs =>
          Awaited(wire[k], proc'[wire[k].of], answer'[wire[k].of])
    BY <1>8, <2>3 DEF IInv, WireFacts, Others
  <2>6. \A k \in DOMAIN wire' : k \in DOMAIN wire \/ k = Len(wire) + 1
    BY <2>1, <2>2
  <2>7. \A k \in DOMAIN wire' :
          /\ wire'[k].of \in Procs => Awaited(wire'[k], proc'[wire'[k].of], answer'[wire'[k].of])
          /\ wire'[k].kind = "control" => wire'[k].device = plc'.device
    BY <1>2, <1>5, <2>2, <2>4, <2>5, <2>6 DEF IInv, WireFacts
  <2>8. \A k, l \in DOMAIN wire' : wire'[k].of = wire'[l].of /\ k # l => wire'[k].of = Nobody
    BY <1>2, <2>2, <2>3, <2>6 DEF IInv, WireFacts
  <2> QED BY <2>2, <2>7, <2>8 DEF WireFacts
<1> QED BY <1>8, <1>11, <1>12 DEF IInv

LEMMA TimesOutStep ==
  ASSUME IInv, NEW p \in Procs, TimesOut(p)
  PROVE  IInv'
<1>1. Shape' /\ ProcsFacts' /\ Others(p)
  BY FailsStep DEF TimesOut
<1>2. wire \in Seq(Requests)
  BY DEF IInv, WireFacts
<1>3. /\ wire' = [k \in DOMAIN wire |-> IF wire[k].of = p THEN [wire[k] EXCEPT !.of = Nobody]
                                       ELSE wire[k]]
      /\ plc' = plc
  BY DEF TimesOut, plcVars
<1>4. \A k \in DOMAIN wire :
        /\ wire'[k] \in Requests
        /\ wire'[k].of = IF wire[k].of = p THEN Nobody ELSE wire[k].of
        /\ wire[k].of # p => wire'[k] = wire[k]
        /\ wire'[k].kind = wire[k].kind
        /\ wire[k].kind = "control" => wire'[k].device = wire[k].device
  BY <1>2, <1>3, Relabelled
<1>5. DOMAIN wire' = DOMAIN wire /\ wire' \in Seq(Requests)
  BY <1>2, <1>3, <1>4
<1>6. \A k \in DOMAIN wire :
        /\ wire'[k].of \in Procs => wire[k].of # p /\ wire'[k] = wire[k]
        /\ wire'[k].kind = "control" => wire'[k].device = plc'.device
  BY <1>3, <1>4, SystemAssumption DEF IInv, WireFacts
<1>7. \A k \in DOMAIN wire : wire'[k].of \in Procs =>
        Awaited(wire'[k], proc'[wire'[k].of], answer'[wire'[k].of])
  BY <1>1, <1>6 DEF IInv, WireFacts, Others
<1>8. \A k, l \in DOMAIN wire : wire'[k].of = wire'[l].of /\ k # l => wire'[k].of = Nobody
  BY <1>4 DEF IInv, WireFacts
<1>9. WireFacts'
  BY <1>5, <1>6, <1>7, <1>8 DEF WireFacts
<1> QED BY <1>1, <1>9 DEF IInv

LEMMA ProcSteps ==
  ASSUME IInv, NEW p \in Procs, ProcStep(p)
  PROVE  IInv' /\ plc' = plc
<1>1. IInv'
  BY CallRefusedStep, CallBeginsStep, ReturnCurrentStateStep, SendStep, SendFailsStep,
     TimesOutStep, ReceiveErrorStep, ReceiveSymbolStep, ReceiveTypeStep, ReceiveValueStep,
     ReceiveWrittenStep, ReceiveStateStep, ReceiveOtherStep
     DEF ProcStep
<1>2. plc' = plc
  BY DEF ProcStep, CallRefused, CallBegins, ReturnCurrentState, Send, SendFails, TimesOut,
         ReceiveError, ReceiveSymbol, ReceiveType, ReceiveValue, ReceiveWritten, ReceiveState,
         ReceiveOther, plcVars
<1> QED BY <1>1, <1>2

-----------------------------------------------------------------------------
(* Steps of the PLC, the connection and the poller.                         *)

LEMMA RequestParts ==
  ASSUME NEW r \in Requests
  PROVE  /\ r.of \in Procs \union {Nobody} /\ r.kind \in Kinds
         /\ r.kind = "read" => r.cell \in Cells /\ r.size \in Nat
         /\ r.kind = "write" => r.cell \in Cells /\ r.value \in Values
BY DEF Requests, Kinds

LEMMA ResponseFacts ==
  ASSUME IInv, NEW r \in Requests, NEW cut \in BOOLEAN
  PROVE  LET a == IF cut THEN Cut(Response(r)) ELSE Response(r) IN
         /\ a \in ResponseType
         /\ r.kind \in {"symbol", "type"} => a.data = plc.program
         /\ r.kind = "state" => a.data = plc.device
<1>. DEFINE b == Response(r)
<1>1. /\ plc.program \in Int /\ plc.device \in Int
      /\ \A c \in Cells : memory[c] \in Int
  BY ProgramsAssumption, SystemAssumption DEF IInv, Shape, Values
<1>2. /\ b \in ResponseType
      /\ r.kind \in {"symbol", "type"} => b.data = plc.program
      /\ r.kind = "state" => b.data = plc.device
  <2>1. CASE r.kind \in {"symbol", "type"}
    <3>1. b = WithLength(30, plc.program)
      BY <2>1 DEF Response
    <3> QED BY <1>1, <2>1, <3>1 DEF WithLength, ResponseType
  <2>2. CASE r.kind = "read"
    <3>1. b = WithLength(r.size, memory[r.cell])
      BY <2>2 DEF Response
    <3>2. r.size \in Int /\ memory[r.cell] \in Int
      BY <1>1, <2>2, RequestParts
    <3> QED BY <2>2, <3>1, <3>2 DEF WithLength, ResponseType
  <2>3. CASE r.kind = "state"
    <3>1. b = Plain(4, plc.device)
      BY <2>3 DEF Response
    <3> QED BY <1>1, <2>3, <3>1 DEF Plain, ResponseType
  <2>4. CASE r.kind \in {"size", "table", "extended", "device", "write", "control"}
    <3>1. \/ b = WithLength(24, 0) \/ b = WithLength(60, 0) \/ b = WithLength(16, plc.device)
          \/ b = Plain(24, 0) \/ b = Plain(0, 0)
      BY <2>4 DEF Response
    <3> QED BY <1>1, <2>4, <3>1 DEF Plain, WithLength, ResponseType
  <2> QED BY <2>1, <2>2, <2>3, <2>4, RequestParts DEF Kinds
<1>. HIDE DEF b
<1>3. Cut(b) \in ResponseType /\ Cut(b).data = b.data
  <2>1. b.size - 1 \in Int
    BY <1>2 DEF ResponseType
  <2> QED BY <1>2, <2>1 DEF Cut, ResponseType
<1>4. (IF cut THEN Cut(b) ELSE b) \in {b, Cut(b)}
  OBVIOUS
<1> QED BY <1>2, <1>3, <1>4 DEF b

\* The first request leaves the wire, with a response a for its sender.
LEMMA HandledStep ==
  ASSUME IInv, wire # <<>>, NEW a, wire' = Tail(wire), ToSender(Head(wire), a),
         proc' = proc, outcome' = outcome, plc'.device = plc.device, Shape',
         \A p \in Procs : p # Head(wire).of => done'[p] = done[p],
         Head(wire).of \in Procs =>
           LET p == Head(wire).of IN
           ProcFacts(p, proc[p], a, done'[p], outcome[p], plc.device)
  PROVE  IInv'
<1>. DEFINE r == Head(wire)
<1>1. /\ wire \in Seq(Requests) /\ Len(wire) \in Nat /\ Len(wire) >= 1
      /\ DOMAIN wire = 1 .. Len(wire) /\ r = wire[1] /\ 1 \in DOMAIN wire
  BY DEF IInv, WireFacts
<1>2. /\ wire' \in Seq(Requests) /\ DOMAIN wire' = 1 .. Len(wire) - 1
      /\ \A k \in DOMAIN wire' : k + 1 \in DOMAIN wire /\ k + 1 # 1 /\ wire'[k] = wire[k + 1]
  BY <1>1
<1>3. r \in Requests /\ r.of \in Procs \union {Nobody}
  BY <1>1, RequestParts
<1>. HIDE DEF r
<1>4. \A p \in Procs : IF p = r.of THEN answer'[p] = a ELSE answer'[p] = answer[p]
  BY <1>3, SystemAssumption DEF ToSender, IInv, Shape, r
<1>5. ProcsFacts'
  BY <1>3, <1>4 DEF IInv, ProcsFacts, r
<1>6. \A k \in DOMAIN wire' : wire'[k].of \in Procs => wire'[k].of # r.of
  <2>1. \A k, l \in DOMAIN wire : wire[k].of = wire[l].of /\ k # l => wire[k].of = Nobody
    BY DEF IInv, WireFacts
  <2> QED BY <1>1, <1>2, <2>1, SystemAssumption DEF r
<1>7. \A k \in DOMAIN wire' :
        /\ wire'[k].of \in Procs => Awaited(wire'[k], proc'[wire'[k].of], answer'[wire'[k].of])
        /\ wire'[k].kind = "control" => wire'[k].device = plc'.device
  BY <1>2, <1>4, <1>6 DEF IInv, WireFacts
<1>8. \A k, l \in DOMAIN wire' : wire'[k].of = wire'[l].of /\ k # l => wire'[k].of = Nobody
  <2>1. \A k, l \in DOMAIN wire : wire[k].of = wire[l].of /\ k # l => wire[k].of = Nobody
    BY DEF IInv, WireFacts
  <2>2. \A k, l \in DOMAIN wire' : k # l => k + 1 # l + 1
    BY <1>1, <1>2
  <2> QED BY <1>2, <2>1, <2>2
<1> QED BY <1>2, <1>5, <1>7, <1>8 DEF IInv, WireFacts

\* The request at the head of the wire, and the goroutine that waits for it.
LEMMA HeadFacts ==
  ASSUME IInv, wire # <<>>
  PROVE  LET r == Head(wire)  p == r.of IN
         /\ r \in Requests
         /\ r.kind = "control" => r.device = plc.device
         /\ p \in Procs =>
              /\ proc[p].waiting /\ Kind(proc[p]) = r.kind
              /\ r.kind = "symbol" => CallOf(proc[p]).path = r.path
              /\ ProcFacts(p, proc[p], answer[p], done[p], outcome[p], plc.device)
              /\ outcome[p] = "running"
<1>1. wire \in Seq(Requests) /\ Head(wire) = wire[1] /\ 1 \in DOMAIN wire
  BY DEF IInv, WireFacts
<1> QED BY <1>1 DEF IInv, WireFacts, Awaited, ProcsFacts, ProcFacts

LEMMA PlcRefusesStep ==
  ASSUME IInv, PlcRefuses
  PROVE  IInv' /\ plc' = plc
<1>. DEFINE r == Head(wire)  p == Head(wire).of
<1>1. /\ wire # <<>> /\ wire' = Tail(wire) /\ ToSender(r, Refusal)
      /\ UNCHANGED <<plc, memory, currentState, proc, outcome, done, crashed>>
  BY DEF PlcRefuses, plcVars
<1>2. Refusal \in ResponseType /\ Refusal.code = 1
  BY DEF Refusal, ResponseType, NoResult
<1>3. ASSUME p \in Procs PROVE ProcFacts(p, proc[p], Refusal, done'[p], outcome[p], plc.device)
  <2>1. proc[p].waiting /\ ProcFacts(p, proc[p], answer[p], done[p], outcome[p], plc.device)
    BY <1>1, <1>3, HeadFacts
  <2>. HIDE DEF p
  <2> QED BY <1>1, <1>2, <2>1 DEF ProcFacts
<1>4. Shape'
  BY <1>1 DEF IInv, Shape, ToSender
<1>5. IInv'
  BY <1>1, <1>3, <1>4, HandledStep
<1> QED BY <1>1, <1>5

LEMMA WriteIsDone ==
  ASSUME NEW p \in Procs, NEW q \in ProcType(p), InPlace(q), q.at > 0, Kind(q) = "write",
         NEW d, WritesDone(q, d, "running")
  PROVE  WritesDone(q, d \union {q.i}, "running")
<1>1. /\ q.i \in DOMAIN CommandOf(q).calls /\ CallOf(q).call \in Writes
      /\ DOMAIN CommandOf(q).calls = 1 .. Len(CommandOf(q).calls) /\ q.i \in Nat
  BY AtRequest DEF InPlace, Kind, KindsOf, ProcType
<1>2. q.i \in WritesOf(CommandOf(q))
  BY <1>1 DEF WritesOf, CallOf
<1> QED BY <1>1, <1>2 DEF WritesDone

LEMMA PlcServesStep ==
  ASSUME IInv, NEW cut \in BOOLEAN, PlcServes(cut)
  PROVE  IInv' /\ plc'.device = plc.device
<1>. DEFINE r == Head(wire)  p == Head(wire).of
            a == IF cut THEN Cut(Response(Head(wire))) ELSE Response(Head(wire))
<1>1. /\ wire # <<>> /\ Serves(r) /\ wire' = Tail(wire) /\ ToSender(r, a)
      /\ UNCHANGED <<currentState, proc, outcome, crashed>>
  BY DEF PlcServes
<1>2. r \in Requests /\ r.of \in Procs \union {Nobody} /\ r.kind \in Kinds
  BY <1>1, HeadFacts, RequestParts
<1>3. plc'.device = plc.device
      /\ plc' \in [state : SystemStates, device : Devices \union {0}, program : DOMAIN Programs]
  <2>1. CASE r.kind = "control"
    <3>1. PICK x \in SystemStates : plc' = [plc EXCEPT !.state = x, !.device = r.device]
      BY <2>1 DEF PlcServes, SystemStates
    <3>2. r.device = plc.device
      BY <1>1, <2>1, HeadFacts
    <3> QED BY <3>1, <3>2 DEF IInv, Shape
  <2>2. CASE r.kind # "control"
    BY <2>2 DEF PlcServes, IInv, Shape
  <2> QED BY <2>1, <2>2
<1>4. memory' \in [Cells -> Values]
  <2>1. CASE r.kind = "write"
    BY <1>2, <2>1, RequestParts DEF PlcServes, IInv, Shape
  <2>2. CASE r.kind # "write"
    BY <2>2 DEF PlcServes, IInv, Shape
  <2> QED BY <2>1, <2>2
<1>5. done' = IF r.kind = "write" /\ r.of # Nobody
              THEN [done EXCEPT ![r.of] = @ \union {proc[r.of].i}] ELSE done
  BY DEF PlcServes
<1>6. Shape'
  BY <1>1, <1>3, <1>4, <1>5 DEF IInv, Shape, ToSender
<1>7. \A s \in Procs : s # p => done'[s] = done[s]
  BY <1>5 DEF IInv, Shape
<1>8. ASSUME p \in Procs PROVE ProcFacts(p, proc[p], a, done'[p], outcome[p], plc.device)
  <2>. DEFINE q == proc[p]
  <2>1. /\ q.waiting /\ Kind(q) = r.kind /\ outcome[p] = "running"
        /\ r.kind = "symbol" => CallOf(q).path = r.path
        /\ ProcFacts(p, q, answer[p], done[p], outcome[p], plc.device)
    BY <1>1, <1>8, HeadFacts
  <2>2. /\ q \in ProcType(p) /\ InPlace(q) /\ q.at > 0 /\ LookedUp(q, plc.device)
        /\ WritesDone(q, done[p], "running")
    BY <2>1 DEF ProcFacts, InPlace, ProcType
  <2>3. p # Nobody
    BY <1>8, SystemAssumption
  <2>4. done'[p] = IF r.kind = "write" THEN done[p] \union {q.i} ELSE done[p]
    BY <1>5, <1>8, <2>3 DEF IInv, Shape
  <2>5. WritesDone(q, done'[p], "running")
    BY <1>8, <2>1, <2>2, <2>4, WriteIsDone
  <2>6. /\ a \in ResponseType
        /\ r.kind \in {"symbol", "type"} => a.data = plc.program
        /\ r.kind = "state" => a.data = plc.device
    BY <1>2, ResponseFacts
  <2>7. plc.program \in DOMAIN Programs /\ plc.program \in 0 .. Len(Programs)
    BY ProgramsAssumption DEF IInv, Shape
  <2>. HIDE DEF a
  <2>8. r.kind = "symbol" => Known([q EXCEPT !.symbol = a.data])
    <3>1. SUFFICES ASSUME r.kind = "symbol" PROVE Known([q EXCEPT !.symbol = a.data])
      OBVIOUS
    <3>2. r.path \in DOMAIN Programs[plc.program].symbols
      BY <1>1, <3>1 DEF Serves, Program
    <3>3. PICK s : s = [q EXCEPT !.symbol = a.data]
      OBVIOUS
    <3>4. s \in ProcType(p) /\ s.symbol = plc.program /\ s.command = q.command /\ s.i = q.i
      BY <2>2, <2>6, <2>7, <3>1, <3>3 DEF ProcType
    <3>5. CallOf(s).path = r.path
      BY <1>8, <2>1, <2>2, <3>1, <3>4, SamePlace
    <3>6. Known(s)
      BY <2>7, <3>2, <3>4, <3>5 DEF Known
    <3> QED BY <3>3, <3>6
  <2>9. Meant(q, a, done'[p], plc.device)
    BY <2>1, <2>4, <2>6, <2>7, <2>8 DEF Meant
  <2> QED BY <2>1, <2>2, <2>5, <2>6, <2>9 DEF ProcFacts
<1>9. IInv'
  BY <1>1, <1>3, <1>6, <1>7, <1>8, HandledStep
<1> QED BY <1>3, <1>9

LEMMA OtherSteps ==
  ASSUME IInv, Download \/ ConnectionLost \/ Poll
  PROVE  IInv' /\ plc'.device = plc.device
<1>1. /\ UNCHANGED <<proc, outcome, answer, done, crashed>>
      /\ wire' = wire \/ wire' = <<>>
  BY DEF Download, ConnectionLost, Poll
<1>2. /\ plc'.device = plc.device
      /\ plc' \in [state : SystemStates, device : Devices \union {0}, program : DOMAIN Programs]
  BY DEF Download, ConnectionLost, Poll, plcVars, IInv, Shape
<1>3. memory' \in [Cells -> Values]
  BY DEF Download, ConnectionLost, Poll, plcVars, IInv, Shape, Values
<1>4. currentState' \in SystemStates \union {"nil"}
  BY DEF Download, ConnectionLost, Poll, IInv, Shape
<1>5. Shape'
  BY <1>1, <1>2, <1>3, <1>4 DEF IInv, Shape
<1>6. ProcsFacts'
  BY <1>1, <1>2 DEF IInv, ProcsFacts
<1>7. WireFacts'
  <2>1. CASE wire' = wire
    BY <1>1, <1>2, <2>1 DEF IInv, WireFacts
  <2>2. CASE wire' = <<>>
    <3>1. wire' \in Seq(Requests) /\ DOMAIN wire' = {}
      BY <2>2
    <3> QED BY <3>1 DEF WireFacts
  <2> QED BY <1>1, <2>1, <2>2
<1> QED BY <1>2, <1>5, <1>6, <1>7 DEF IInv

LEMMA InitHolds ==
  ASSUME Init
  PROVE  IInv
<1>1. \A p \in Procs : \E n \in DOMAIN Commands[p] : proc[p] = NewProc(p, n)
  <2>1. ASSUME NEW p \in Procs PROVE \E n \in DOMAIN Commands[p] : proc[p] = NewProc(p, n)
    <3>1. PICK s \in Procs : \E n \in DOMAIN Commands[s] : proc[p] = NewProc(s, n)
      BY DEF Init
    <3>2. s = p
      BY <3>1 DEF Init, NewProc
    <3> QED BY <3>1, <3>2
  <2> QED BY <2>1
<1>2. 1 \in DOMAIN Programs
  BY ProgramsAssumption
<1>3. Shape
  BY <1>2 DEF Init, Shape, Values
<1>4. ASSUME NEW p \in Procs PROVE ProcFacts(p, proc[p], answer[p], done[p], outcome[p], plc.device)
  <2>. DEFINE q == proc[p]
  <2>1. PICK n \in DOMAIN Commands[p] : q = NewProc(p, n)
    BY <1>1
  <2>2. /\ q \in ProcType(p) /\ q.i = 1 /\ q.at = 0 /\ ~q.waiting /\ CommandOf(q) = Commands[p][n]
    BY <2>1 DEF NewProc, ProcType, NoResult, CommandOf
  <2>3. 1 \in DOMAIN CommandOf(q).calls /\ CommandOf(q).calls \in Seq(CallType)
    <3>1. CommandOf(q).calls \in Seq(CallType) /\ CommandOf(q).calls # <<>>
      BY <2>2, CommandsAssumption DEF CallType
    <3> QED BY <3>1
  <2>4. CallOf(q).call \in DOMAIN RequestsOf /\ CallOf(q).call # "GetDataType"
    <3>1. CallOf(q) = CommandOf(q).calls[1] /\ CallOf(q) \in CallType
      BY <2>2, <2>3 DEF CallOf
    <3> QED BY <2>2, <2>3, <3>1, CommandsAssumption DEF CallType
  <2>5. InPlace(q) /\ LookedUp(q, plc.device)
    BY <2>2, <2>3, <2>4, RequestKinds DEF InPlace, LookedUp
  <2>6. done[p] = {} /\ outcome[p] = "running" /\ answer[p] = NoAnswer
    BY DEF Init
  <2>7. WritesDone(q, done[p], outcome[p])
    BY <2>2, <2>3, <2>6 DEF WritesDone, WritesOf
  <2>8. NoAnswer \in ResponseType
    BY DEF NoAnswer, NoResult, ResponseType
  <2> QED BY <2>2, <2>5, <2>6, <2>7, <2>8 DEF ProcFacts
<1>5. WireFacts
  BY DEF Init, WireFacts
<1> QED BY <1>3, <1>4, <1>5 DEF IInv, ProcsFacts

LEMMA StepHolds ==
  ASSUME IInv, [Next]_vars
  PROVE  IInv' /\ plc'.device = plc.device
<1>1. CASE Next
  BY <1>1, ProcSteps, PlcServesStep, PlcRefusesStep, OtherSteps DEF Next
<1>2. CASE UNCHANGED vars
  BY <1>2 DEF vars, plcVars, IInv, Shape, ProcsFacts, WireFacts
<1> QED BY <1>1, <1>2

\* The invariant: of each goroutine, what is done, looked up and answered, and
\* of each request on the wire, whose it is.
THEOREM Invariance == SafeSpec => []IInv
<1>1. Init => IInv
  BY InitHolds
<1>2. IInv /\ [Next]_vars => IInv'
  BY StepHolds
<1> QED BY <1>1, <1>2, PTL DEF SafeSpec

\* Every reachable state has its type, whatever the commands and the programs.
THEOREM TypeCorrect == SafeSpec => []TypeOK
<1>1. IInv => TypeOK
  <2>1. SUFFICES ASSUME IInv PROVE TypeOK
    OBVIOUS
  <2>2. ASSUME NEW p \in Procs
        PROVE  /\ proc[p].of = p
               /\ proc[p].command \in DOMAIN Commands[p]
               /\ proc[p].i \in DOMAIN CommandOf(proc[p]).calls
               /\ proc[p].at \in 0 .. Len(RequestsOf[CallOf(proc[p]).call])
               /\ proc[p].symbol \in 0 .. Len(Programs)
               /\ proc[p].type \in 0 .. Len(Programs)
               /\ proc[p].device \in Devices \union {0}
               /\ done[p] \subseteq DOMAIN CommandOf(proc[p]).calls
               /\ outcome[p] \in {"running", "ok", "error"}
    BY <2>1 DEF IInv, ProcsFacts, ProcFacts, ProcType, InPlace, WritesDone, WritesOf
  <2>3. outcome \in [Procs -> {"running", "ok", "error"}]
    BY <2>1, <2>2 DEF IInv, Shape
  <2> QED BY <2>1, <2>2, <2>3 DEF IInv, Shape, WireFacts, TypeOK
<1> QED BY <1>1, Invariance, PTL

\* A handler that reports success has had each of its writes carried out.
THEOREM SuccessMeansDone == SafeSpec => []OkMeansDone
<1>1. IInv => OkMeansDone
  BY DEF IInv, ProcsFacts, ProcFacts, WritesDone, OkMeansDone
<1> QED BY <1>1, Invariance, PTL

\* The writes that a handler has had carried out are its first ones.
THEOREM WritesAreDoneInOrder == SafeSpec => []WritesAreAPrefix
<1>1. IInv => WritesAreAPrefix
  BY DEF IInv, ProcsFacts, ProcFacts, WritesDone, WritesAreAPrefix
<1> QED BY <1>1, Invariance, PTL

\* No interleaving of set_state with other requests, late ones included, changes
\* the device state.
THEOREM DeviceStateIsKept == SafeSpec => DeviceStateKept
<1>1. IInv /\ [Next]_vars => [plc'.device = plc.device]_vars
  BY StepHolds
<1> QED BY <1>1, Invariance, PTL DEF SafeSpec, DeviceStateKept

-----------------------------------------------------------------------------
(* AdsOperations implements AdsVariables: every step of a call is one step of    *)
(* what the value calls promise, or none.  And, with what that proof knows of    *)
(* the programs a call has looked things up in, no call panics unless the        *)
(* program was replaced under it or it writes a slice.                       *)


\* What q has looked up, and an answer a that has come for it, is of a program
\* between the one its call began in and the current one, n.
Dated(q, a, n) ==
  /\ q.since <= n
  /\ CallOf(q).call \in Gated /\ q.at >= 2 => q.since <= q.symbol /\ q.symbol <= n
  /\ q.waiting /\ a # NoAnswer /\ a.code = 0 =>
       /\ Kind(q) = "symbol" => q.since <= a.data /\ a.data <= n
       /\ Kind(q) = "read" => a.data \in Values

\* A request r of q goes to the variable of the call, with its value.
Aimed(r, q) ==
  /\ r.kind \in {"read", "write"} => r.cell = CellOf(q)
  /\ r.kind = "write" => r.value = CallOf(q).value.n

RInv ==
  /\ \A p \in Procs : Dated(proc[p], answer[p], plc.program)
  /\ \A k \in DOMAIN wire : wire[k].of \in Procs => Aimed(wire[k], proc[wire[k].of])

\* No step of AdsVariables.
Stutter ==
  /\ plc'.program = plc.program /\ memory' = memory
  /\ AbstractCall' = AbstractCall /\ LateWrites' = LateWrites

-----------------------------------------------------------------------------
(* The abstract call of a goroutine q with its answer a and its outcome o, n    *)
(* being the current program.                                              *)

ReturnedCall(result) ==
  IF result = NoResult THEN [kind |-> "none"] ELSE [kind |-> "returned", value |-> result]
OpenCall(kind, path, value, moved, isDone) ==
  [kind |-> kind, path |-> path, value |-> value, moved |-> moved, done |-> isDone]

IsOpen(q, o) == o = "running" /\ q.at > 0 /\ CallOf(q).call \in OfVariable
KindOf(q) == IF CallOf(q).call \in Writes THEN "write" ELSE "read"
IsDone(q, a) ==
  /\ a # NoAnswer
  /\ IF KindOf(q) = "write" THEN Kind(q) = "write" /\ a.code = 0
     ELSE Kind(q) = "read" /\ StripAdsHeader(a)
ValueOf(q, a) ==
  IF KindOf(q) = "write" THEN CallOf(q).value.n ELSE IF IsDone(q, a) THEN a.data ELSE 0
CallSeen(q, a, o, n) ==
  IF IsOpen(q, o) THEN OpenCall(KindOf(q), CallOf(q).path, ValueOf(q, a), q.since # n, IsDone(q, a))
  ELSE ReturnedCall(q.result)

LEMMA AbstractCalls ==
  ASSUME NEW p \in Procs
  PROVE  /\ AbstractCall[p] = CallSeen(proc[p], answer[p], outcome[p], plc.program)
         /\ AbstractCall'[p] = CallSeen(proc'[p], answer'[p], outcome'[p], plc'.program)
<1>. USE DEF AbstractCall, CallSeen, ReturnedCall, OpenCall, ValueCall, IsOpen, CallKind, KindOf,
             ValueOf, Taken, IsDone
<1>1. AbstractCall[p] = CallSeen(proc[p], answer[p], outcome[p], plc.program)
  BY Zenon
<1>2. AbstractCall'[p] = CallSeen(proc'[p], answer'[p], outcome'[p], plc'.program)
  BY Zenon DEF Kind, CallOf, CommandOf, StripAdsHeader, StripAdsError
<1> QED BY <1>1, <1>2

LEMMA CallInside ==
  ASSUME NEW q, NEW a, NEW o, NEW n, IsOpen(q, o)
  PROVE  \E m, t \in BOOLEAN :
           /\ m <=> q.since # n
           /\ t <=> IsDone(q, a)
           /\ CallSeen(q, a, o, n) = OpenCall(KindOf(q), CallOf(q).path, ValueOf(q, a), m, t)
<1>1. PICK m \in BOOLEAN : m = (q.since # n)
  OBVIOUS
<1>2. PICK t \in BOOLEAN : t = IsDone(q, a)
  BY DEF IsDone, StripAdsHeader, StripAdsError
<1>3. CallSeen(q, a, o, n) = OpenCall(KindOf(q), CallOf(q).path, ValueOf(q, a), m, t)
  BY <1>1, <1>2, Zenon DEF CallSeen
<1> QED BY <1>1, <1>2, <1>3

LEMMA CallParts ==
  ASSUME NEW q, NEW a, NEW o, NEW n, IsOpen(q, o)
  PROVE  LET c == CallSeen(q, a, o, n) IN
         /\ c.kind = KindOf(q) /\ c.path = CallOf(q).path /\ c.value = ValueOf(q, a)
         /\ c.moved <=> q.since # n
         /\ c.done <=> IsDone(q, a)
BY Zenon DEF CallSeen, OpenCall

LEMMA CallOutside ==
  ASSUME NEW q, NEW a, NEW o, NEW n, ~IsOpen(q, o)
  PROVE  CallSeen(q, a, o, n) = ReturnedCall(q.result)
BY DEF CallSeen

\* A step of p changes nothing of the others' calls.
LEMMA OneCall ==
  ASSUME NEW p \in Procs, plc'.program = plc.program,
         \A r \in Procs \ {p} :
           proc'[r] = proc[r] /\ answer'[r] = answer[r] /\ outcome'[r] = outcome[r]
  PROVE  AbstractCall' = [AbstractCall EXCEPT ![p] = AbstractCall'[p]]
<1>1. ASSUME NEW r \in Procs, r # p PROVE AbstractCall'[r] = AbstractCall[r]
  BY <1>1, AbstractCalls
<1>2. /\ AbstractCall = [r \in Procs |-> AbstractCall[r]]
      /\ AbstractCall' = [r \in Procs |-> AbstractCall'[r]]
  BY DEF AbstractCall
<1>. HIDE DEF AbstractCall
<1> QED BY <1>1, <1>2

-----------------------------------------------------------------------------
(* Late writes.                                                            *)

LEMMA LateWrite ==
  ASSUME NEW w
  PROVE  /\ w \in LateWrites <=>
              \E k \in DOMAIN wire :
                IsLate(wire[k]) /\ w = [cell |-> wire[k].cell, value |-> wire[k].value]
         /\ w \in LateWrites' <=>
              \E k \in DOMAIN wire' :
                IsLate(wire'[k]) /\ w = [cell |-> wire'[k].cell, value |-> wire'[k].value]
BY DEF LateWrites, IsLate

LEMMA SameLateWrites ==
  ASSUME wire' = wire
  PROVE  LateWrites' = LateWrites
BY DEF LateWrites

-----------------------------------------------------------------------------
(* Steps of AdsVariables.                                                   *)

AbstractStep == [Variables!Next]_(Variables!vars)

LEMMA SamePlaces ==
  ASSUME plc'.program = plc.program
  PROVE  Places[plc.program]' = Places[plc.program]
OBVIOUS

LEMMA Stutters ==
  ASSUME Stutter
  PROVE  AbstractStep
BY SamePlaces DEF Stutter, AbstractStep, Variables!vars

LEMMA StepOfCall ==
  ASSUME NEW p \in Procs,
         \/ Variables!Begin(p) \/ Variables!TakeValue(p) \/ Variables!PutValue(p)
         \/ Variables!Succeed(p) \/ Variables!Fail(p) \/ Variables!Refuse(p)
  PROVE  AbstractStep
BY DEF AbstractStep, Variables!Next

\* A call that fails without a late write.
LEMMA AbstractFails ==
  ASSUME NEW p \in Procs, AbstractCall[p].kind \in {"read", "write"},
         AbstractCall' = [AbstractCall EXCEPT ![p] = [kind |-> "none"]],
         LateWrites' = LateWrites, memory' = memory, plc'.program = plc.program
  PROVE  AbstractStep
<1>1. Variables!Fail(p)
  BY SamePlaces DEF Variables!Fail, Variables!Idle
<1> QED BY <1>1, StepOfCall

-----------------------------------------------------------------------------
(* Steps of a goroutine.                                                    *)

Alone(p) ==
  \A r \in Procs \ {p} :
    proc'[r] = proc[r] /\ answer'[r] = answer[r] /\ outcome'[r] = outcome[r]

\* A goroutine that has no request on the wire.
LEMMA KeepsRInv ==
  ASSUME IInv, RInv, NEW p \in Procs, Alone(p), plc' = plc, wire' = wire,
         ~proc[p].waiting \/ answer[p] # NoAnswer,
         Dated(proc'[p], answer'[p], plc.program)
  PROVE  RInv'
<1>1. \A k \in DOMAIN wire : wire[k].of # p
  BY DEF IInv, WireFacts, Awaited
<1> QED BY <1>1 DEF RInv, Alone

LEMMA EndsCall ==
  ASSUME IInv, NEW p \in Procs, NEW ok \in BOOLEAN, NEW q \in ProcType(p), InPlace(q),
         q.since <= plc.program, EndCall(p, ok, q), plc' = plc
  PROVE  /\ Alone(p) /\ Dated(proc'[p], answer'[p], plc.program)
         /\ AbstractCall' = [AbstractCall EXCEPT ![p] = ReturnedCall(q.result)]
<1>. DEFINE s == After(q, ok)
<1>1. /\ proc' = [proc EXCEPT ![p] = s]
      /\ outcome' = [outcome EXCEPT ![p] = OutcomeAfter(q, ok)]
      /\ answer' = [answer EXCEPT ![p] = NoAnswer]
  BY DEF EndCall, After, OutcomeAfter, Last
<1>2. Alone(p)
  BY <1>1 DEF IInv, Shape, Alone
<1>3. s.at = 0 /\ ~s.waiting /\ s.since = q.since /\ s.result = q.result
  BY AfterType
<1>4. proc'[p] = s
  BY <1>1 DEF IInv, Shape
<1>. HIDE DEF s
<1>5. Dated(proc'[p], answer'[p], plc.program)
  BY <1>3, <1>4 DEF Dated
<1>6. AbstractCall'[p] = ReturnedCall(q.result)
  BY <1>3, <1>4, AbstractCalls, CallOutside DEF IsOpen
<1> QED BY <1>2, <1>5, <1>6, OneCall DEF Alone

\* A call that goes on with its next request has not taken effect yet.
LEMMA GoesOn ==
  ASSUME IInv, NEW p \in Procs, NEW q \in ProcType(p), outcome[p] = "running",
         q.command = proc[p].command, q.i = proc[p].i, q.at = proc[p].at, q.at > 0,
         q.since = proc[p].since, q.result = proc[p].result, q.since <= plc.program,
         CallOf(q).call \in Gated => q.since <= q.symbol /\ q.symbol <= plc.program,
         GoOn(p, q), plc' = plc, ~IsDone(proc[p], answer[p])
  PROVE  /\ Alone(p) /\ Dated(proc'[p], answer'[p], plc.program)
         /\ AbstractCall' = AbstractCall
<1>. DEFINE s == [q EXCEPT !.at = @ + 1, !.waiting = FALSE]
<1>1. /\ proc' = [proc EXCEPT ![p] = s]
      /\ answer' = [answer EXCEPT ![p] = NoAnswer] /\ outcome' = outcome
  BY DEF GoOn
<1>2. Alone(p) /\ proc'[p] = s /\ answer'[p] = NoAnswer /\ outcome'[p] = "running"
  BY <1>1 DEF IInv, Shape, Alone
<1>3. q.at + 1 \in Nat /\ q.at + 1 > 0 /\ proc[p] \in ProcType(p)
  BY DEF ProcType, IInv, ProcsFacts, ProcFacts
<1>4. /\ s \in ProcType(p) /\ s.command = q.command /\ s.i = q.i /\ s.at > 0 /\ ~s.waiting
      /\ s.since = q.since /\ s.result = q.result /\ s.symbol = q.symbol
  BY <1>3 DEF ProcType
<1>. HIDE DEF s
<1>5. CallOf(s) = CallOf(q) /\ CallOf(q) = CallOf(proc[p])
  BY <1>3, <1>4, SamePlace
<1>6. Dated(s, NoAnswer, plc.program)
  BY <1>4, <1>5 DEF Dated
<1>7. /\ IsOpen(s, "running") <=> IsOpen(proc[p], "running")
      /\ KindOf(s) = KindOf(proc[p])
      /\ IsDone(s, NoAnswer) = FALSE /\ IsDone(proc[p], answer[p]) = FALSE
      /\ ValueOf(s, NoAnswer) = ValueOf(proc[p], answer[p])
  BY <1>4, <1>5 DEF IsOpen, KindOf, IsDone, ValueOf
<1>8. AbstractCall'[p] = AbstractCall[p]
  <2>1. CASE IsOpen(proc[p], "running")
    BY <1>2, <1>4, <1>5, <1>7, <2>1, AbstractCalls, Zenon DEF CallSeen
  <2>2. CASE ~IsOpen(proc[p], "running")
    BY <1>2, <1>4, <1>7, <2>2, AbstractCalls, CallOutside
  <2> QED BY <2>1, <2>2
<1>9. AbstractCall' = [AbstractCall EXCEPT ![p] = AbstractCall'[p]]
  BY <1>2, OneCall DEF Alone
<1>10. AbstractCall = [r \in Procs |-> AbstractCall[r]]
  BY DEF AbstractCall
<1>11. AbstractCall' = AbstractCall
  BY <1>8, <1>9, <1>10
<1> QED BY <1>2, <1>6, <1>11

LEMMA KindOfCall ==
  ASSUME NEW p \in Procs
  PROVE  /\ IsOpen(proc[p], outcome[p]) => AbstractCall[p].kind = KindOf(proc[p])
         /\ IsOpen(proc[p], outcome[p]) => AbstractCall[p].kind \in {"read", "write"}
         /\ ~IsOpen(proc[p], outcome[p]) => AbstractCall[p].kind \in {"none", "returned"}
<1>1. CASE IsOpen(proc[p], outcome[p])
  <2>1. AbstractCall[p].kind = KindOf(proc[p])
    BY <1>1, AbstractCalls, CallParts
  <2>2. KindOf(proc[p]) \in {"read", "write"}
    BY DEF KindOf
  <2> QED BY <1>1, <2>1, <2>2
<1>2. CASE ~IsOpen(proc[p], outcome[p])
  <2>1. AbstractCall[p] = ReturnedCall(proc[p].result)
    BY <1>2, AbstractCalls, CallOutside
  <2>2. ReturnedCall(proc[p].result).kind \in {"none", "returned"}
    BY DEF ReturnedCall
  <2> QED BY <1>2, <2>1, <2>2
<1> QED BY <1>1, <1>2

LEMMA SameCall ==
  ASSUME NEW p \in Procs, AbstractCall' = [AbstractCall EXCEPT ![p] = AbstractCall[p]]
  PROVE  AbstractCall' = AbstractCall
<1>1. AbstractCall = [r \in Procs |-> AbstractCall[r]]
  BY DEF AbstractCall
<1> QED BY <1>1

\* A call that fails: a value call has no result, others leave the last one.
LEMMA FailedCall ==
  ASSUME IInv, RInv, NEW p \in Procs, Running(p), Fails(p), plc' = plc
  PROVE  /\ Alone(p) /\ Dated(proc'[p], answer'[p], plc.program)
         /\ CallOf(proc[p]).call \in OfVariable =>
              AbstractCall' = [AbstractCall EXCEPT ![p] = [kind |-> "none"]]
         /\ CallOf(proc[p]).call \notin OfVariable => AbstractCall' = AbstractCall
<1>. DEFINE r == IF CallOf(proc[p]).call \in OfVariable THEN NoResult ELSE proc[p].result
            q == [proc[p] EXCEPT !.result = r]
<1>1. r \in Int /\ proc[p] \in ProcType(p)
  BY RunningFacts DEF NoResult, ProcType
<1>2. q \in ProcType(p) /\ InPlace(q) /\ q.since = proc[p].since /\ q.result = r
  <2>1. q \in ProcType(p) /\ InPlace(q)
    BY <1>1, RunningFacts, ResultFacts
  <2> QED BY <1>1, <2>1 DEF ProcType
<1>3. EndCall(p, FALSE, q) /\ q.since <= plc.program
  BY <1>2 DEF Fails, RInv, Dated
<1>. HIDE DEF q
<1>4. /\ Alone(p) /\ Dated(proc'[p], answer'[p], plc.program)
      /\ AbstractCall' = [AbstractCall EXCEPT ![p] = ReturnedCall(r)]
  BY <1>2, <1>3, EndsCall
<1>5. CASE CallOf(proc[p]).call \in OfVariable
  BY <1>4, <1>5 DEF ReturnedCall
<1>6. CASE CallOf(proc[p]).call \notin OfVariable
  <2>1. AbstractCall[p] = ReturnedCall(r)
    BY <1>6, AbstractCalls, CallOutside DEF IsOpen
  <2> QED BY <1>4, <1>6, <2>1, SameCall
<1> QED BY <1>4, <1>5, <1>6

LEMMA CallRefusedAbstract ==
  ASSUME IInv, RInv, NEW p \in Procs, CallRefused(p)
  PROVE  RInv' /\ AbstractStep
<1>1. /\ Running(p) /\ Fails(p) /\ proc[p].at = 0 /\ ~proc[p].waiting
      /\ CallOf(proc[p]).call \in OfVariable
      /\ plc' = plc /\ memory' = memory /\ wire' = wire
  BY RunningFacts DEF CallRefused, InPlace, plcVars, Gated, OfVariable
<1>2. /\ Alone(p) /\ Dated(proc'[p], answer'[p], plc.program)
      /\ AbstractCall' = [AbstractCall EXCEPT ![p] = [kind |-> "none"]]
  BY <1>1, FailedCall
<1>3. AbstractCall[p].kind \in {"none", "returned"}
  BY <1>1, KindOfCall DEF IsOpen
<1>4. Variables!Refuse(p)
  BY <1>1, <1>2, <1>3, SamePlaces, SameLateWrites DEF Variables!Refuse, Variables!Idle
<1> QED BY <1>1, <1>2, <1>4, KeepsRInv, StepOfCall

\* A call that fails before its request is sent, or with its answer.
LEMMA FailsAbstract ==
  ASSUME IInv, RInv, NEW p \in Procs, Running(p), Fails(p), proc[p].at > 0,
         UNCHANGED <<plc, memory, wire>>, ~proc[p].waiting \/ answer[p] # NoAnswer
  PROVE  RInv' /\ AbstractStep
<1>1. Alone(p) /\ Dated(proc'[p], answer'[p], plc.program) /\ LateWrites' = LateWrites
  BY FailedCall, SameLateWrites
<1>2. CASE CallOf(proc[p]).call \in OfVariable
  <2>1. AbstractCall' = [AbstractCall EXCEPT ![p] = [kind |-> "none"]]
    BY <1>2, FailedCall
  <2>2. AbstractCall[p].kind \in {"read", "write"}
    BY <1>2, KindOfCall DEF IsOpen, Running
  <2> QED BY <1>1, <2>1, <2>2, AbstractFails, KeepsRInv
<1>3. CASE CallOf(proc[p]).call \notin OfVariable
  BY <1>1, <1>3, FailedCall, Stutters, KeepsRInv DEF Stutter
<1> QED BY <1>2, <1>3

LEMMA SendFailsAbstract ==
  ASSUME IInv, RInv, NEW p \in Procs, SendFails(p)
  PROVE  RInv' /\ AbstractStep
BY FailsAbstract DEF SendFails, plcVars

LEMMA ReceiveErrorAbstract ==
  ASSUME IInv, RInv, NEW p \in Procs, ReceiveError(p)
  PROVE  RInv' /\ AbstractStep
<1>1. proc[p].at > 0
  BY RunningFacts DEF ReceiveError, Answers, InPlace, ProcType
<1> QED BY <1>1, FailsAbstract DEF ReceiveError, Answers, plcVars

\* The requests of value calls.
LEMMA ValueRequests ==
  ASSUME NEW p \in Procs, NEW q \in ProcType(p), InPlace(q), q.at > 0
  PROVE  LET c == CallOf(q).call IN
         /\ Kind(q) \in {"read", "write"} =>
              c \in OfVariable /\ KindOf(q) = Kind(q) /\ (c \in Gated => q.at >= 2)
         /\ c \in OfVariable => Kind(q) \in {"symbol", "type", "read", "write"}
         /\ Kind(q) = "symbol" => (c \in Gated /\ q.at = 1) \/ c = "GetSymbol"
         /\ Kind(q) = "type" => (c \in Gated /\ q.at = 2) \/ c = "GetDataType"
<1>. DEFINE c == CallOf(q).call
<1>1. /\ c \in DOMAIN RequestsOf /\ KindsOf(c, q.at) /\ Kind(q) = RequestsOf[c][q.at]
      /\ q.at \in 1 .. Len(RequestsOf[c]) /\ Len(RequestsOf[c]) \in 0 .. 3
      /\ c \in Gated <=> Len(RequestsOf[c]) = 3
  BY AtRequest, RequestKinds DEF Kind, CallType, ProcType
<1>2. Kind(q) = "read" => c \in OfVariable /\ KindOf(q) = Kind(q) /\ (c \in Gated => q.at >= 2)
  BY <1>1 DEF KindsOf, OfVariable, KindOf, Writes, Gated
<1>3. Kind(q) = "write" => c \in OfVariable /\ KindOf(q) = Kind(q) /\ (c \in Gated => q.at >= 2)
  BY <1>1 DEF KindsOf, OfVariable, KindOf, Writes
<1>4. ASSUME c \in OfVariable PROVE Kind(q) \in {"symbol", "type", "read", "write"}
  <2>1. CASE c \in Gated
    <3>1. q.at \in 1 .. 3 /\ Len(RequestsOf[c]) = 3
      BY <1>1, <2>1
    <3>2. q.at = 1 \/ q.at = 2 \/ q.at = 3
      BY <3>1
    <3> QED BY <1>1, <2>1, <3>1, <3>2 DEF KindsOf, Gated, Writes
  <2>2. CASE c \in {"ReadRaw", "WriteRaw"}
    <3>1. Len(RequestsOf[c]) = 1 /\ RequestsOf[c][1] \in {"read", "write"}
      BY <1>1, <2>2, RequestList
    <3>2. q.at \in 1 .. 1
      BY <1>1, <3>1
    <3> QED BY <1>1, <3>1, <3>2
  <2> QED BY <1>4, <2>1, <2>2 DEF OfVariable, Gated
<1>5. /\ Kind(q) = "symbol" => (c \in Gated /\ q.at = 1) \/ c = "GetSymbol"
      /\ Kind(q) = "type" => (c \in Gated /\ q.at = 2) \/ c = "GetDataType"
  BY <1>1 DEF KindsOf
<1> QED BY <1>2, <1>3, <1>4, <1>5

LEMMA PathOfCall ==
  ASSUME NEW p \in Procs, NEW q \in ProcType(p), InPlace(q)
  PROVE  /\ CallOf(q).path \in Paths /\ CallOf(q).value.n \in Values
         /\ CallOf(q).path \in STRING
<1>1. /\ CommandOf(q) = Commands[p][q.command] /\ q.command \in DOMAIN Commands[p]
      /\ q.i \in DOMAIN CommandOf(q).calls /\ CallOf(q) \in CallType
  BY AtRequest DEF InPlace
<1>2. CallOf(q).path \in PathsIn(CommandOf(q)) /\ CommandOf(q) \in CommandsOf(p)
  BY <1>1 DEF CallOf, PathsIn, CommandsOf
<1>3. CallOf(q).path \in Paths
  BY <1>2 DEF Paths
<1> QED BY <1>1, <1>3 DEF CallType

LEMMA CallBeginsAbstract ==
  ASSUME IInv, RInv, NEW p \in Procs, CallBegins(p)
  PROVE  RInv' /\ AbstractStep
<1>. DEFINE q == proc[p]  s == [q EXCEPT !.at = 1, !.since = plc.program]
<1>1. /\ q \in ProcType(p) /\ InPlace(q) /\ ~q.waiting /\ answer[p] = NoAnswer
      /\ outcome[p] = "running" /\ q.at = 0
      /\ plc' = plc /\ memory' = memory /\ wire' = wire
      /\ proc' = [proc EXCEPT ![p] = s] /\ outcome' = outcome /\ answer' = answer
  BY RunningFacts DEF CallBegins, InPlace, plcVars
<1>2. plc.program \in 0 .. Len(Programs) /\ plc.program \in Nat
  BY ProgramsAssumption DEF IInv, Shape
<1>3. /\ s \in ProcType(p) /\ s.command = q.command /\ s.i = q.i /\ s.at = 1 /\ ~s.waiting
      /\ s.since = plc.program /\ s.result = q.result
  BY <1>1, <1>2 DEF ProcType
<1>4. Alone(p) /\ proc'[p] = s /\ answer'[p] = NoAnswer /\ outcome'[p] = "running"
  BY <1>1 DEF IInv, Shape, Alone
<1>. HIDE DEF s
<1>5. CallOf(s) = CallOf(q)
  BY <1>1, <1>3, SamePlace
<1>6. Dated(s, NoAnswer, plc.program)
  BY <1>2, <1>3 DEF Dated
<1>7. RInv'
  BY <1>1, <1>4, <1>6, KeepsRInv
<1>8. AbstractCall' = [AbstractCall EXCEPT ![p] = AbstractCall'[p]]
  BY <1>1, <1>4, OneCall DEF Alone
<1>9. AbstractCall[p] = ReturnedCall(q.result) /\ AbstractCall[p].kind \in {"none", "returned"}
  BY <1>1, AbstractCalls, CallOutside, KindOfCall DEF IsOpen
<1>10. CASE CallOf(q).call \in OfVariable
  <2>1. IsOpen(s, "running") /\ ~IsDone(s, NoAnswer)
    BY <1>3, <1>5, <1>10 DEF IsOpen, IsDone
  <2>2. AbstractCall'[p] = CallSeen(s, NoAnswer, "running", plc.program)
    BY <1>1, <1>4, AbstractCalls
  <2>3. PICK m, t \in BOOLEAN :
          /\ ~m /\ ~t
          /\ AbstractCall'[p] = OpenCall(KindOf(s), CallOf(s).path, ValueOf(s, NoAnswer), m, t)
    BY <1>3, <2>1, <2>2, CallInside
  <2>4. KindOf(s) \in {"read", "write"} /\ CallOf(s).path \in Paths /\ ValueOf(s, NoAnswer) \in Values
    BY <1>1, <1>5, <2>1, PathOfCall DEF KindOf, ValueOf, Values
  <2>5. AbstractCall'[p] \in Variables!NewCalls
    <3>1. m \in {FALSE} /\ t \in {FALSE}
      BY <2>3
    <3> QED BY <2>3, <2>4, <3>1 DEF OpenCall, Variables!NewCalls
  <2>6. Variables!Begin(p)
    BY <1>1, <1>8, <1>9, <2>5, SamePlaces, SameLateWrites DEF Variables!Begin
  <2> QED BY <1>7, <2>6, StepOfCall
<1>11. CASE CallOf(q).call \notin OfVariable
  <2>1. AbstractCall'[p] = AbstractCall[p]
    BY <1>3, <1>4, <1>5, <1>9, <1>11, AbstractCalls, CallOutside DEF IsOpen
  <2>2. AbstractCall' = AbstractCall
    BY <1>8, <2>1, SameCall
  <2> QED BY <1>1, <1>7, <2>2, Stutters, SameLateWrites DEF Stutter
<1> QED BY <1>10, <1>11

\* A call that is not one of a variable ends.
LEMMA EndsQuietly ==
  ASSUME IInv, RInv, NEW p \in Procs, NEW ok \in BOOLEAN, NEW q \in ProcType(p), InPlace(q),
         q.since = proc[p].since, q.result = proc[p].result, EndCall(p, ok, q),
         ~IsOpen(proc[p], outcome[p]),
         UNCHANGED <<plc, memory, wire>>, ~proc[p].waiting \/ answer[p] # NoAnswer
  PROVE  RInv' /\ AbstractStep
<1>1. q.since <= plc.program
  BY DEF RInv, Dated
<1>2. /\ Alone(p) /\ Dated(proc'[p], answer'[p], plc.program)
      /\ AbstractCall' = [AbstractCall EXCEPT ![p] = ReturnedCall(q.result)]
  BY <1>1, EndsCall
<1>3. AbstractCall[p] = ReturnedCall(q.result)
  BY AbstractCalls, CallOutside
<1>4. Stutter
  BY <1>2, <1>3, SameCall, SameLateWrites DEF Stutter
<1> QED BY <1>2, <1>4, Stutters, KeepsRInv

LEMMA ReturnCurrentStateAbstract ==
  ASSUME IInv, RInv, NEW p \in Procs, ReturnCurrentState(p)
  PROVE  RInv' /\ AbstractStep
<1>1. /\ proc[p] \in ProcType(p) /\ InPlace(proc[p]) /\ ~proc[p].waiting /\ proc[p].at = 0
      /\ EndCall(p, TRUE, proc[p]) /\ UNCHANGED <<plc, memory, wire>>
  BY RunningFacts DEF ReturnCurrentState, InPlace, plcVars
<1>2. ~IsOpen(proc[p], outcome[p]) /\ TRUE \in BOOLEAN
  BY <1>1 DEF IsOpen
<1> QED BY <1>1, <1>2, EndsQuietly

LEMMA ReceiveOtherAbstract ==
  ASSUME IInv, RInv, NEW p \in Procs, ReceiveOther(p)
  PROVE  RInv' /\ AbstractStep
<1>1. PICK kind \in {"control", "device", "extended", "size", "table"} : Accepted(p, kind)
  BY DEF ReceiveOther
<1>2. /\ proc[p] \in ProcType(p) /\ InPlace(proc[p]) /\ answer[p] # NoAnswer
      /\ EndCall(p, TRUE, proc[p]) /\ UNCHANGED <<plc, memory, wire>>
  BY <1>1, AcceptedFacts DEF ReceiveOther, plcVars, Kinds
<1>3. ~IsOpen(proc[p], outcome[p])
  BY <1>1, AcceptedFacts, ValueRequests DEF Kinds, IsOpen
<1> QED BY <1>2, <1>3, EndsQuietly

\* A call goes on with its next request.
LEMMA GoesOnQuietly ==
  ASSUME IInv, RInv, NEW p \in Procs, NEW q \in ProcType(p), outcome[p] = "running",
         q.command = proc[p].command, q.i = proc[p].i, q.at = proc[p].at, q.at > 0,
         q.since = proc[p].since, q.result = proc[p].result,
         CallOf(q).call \in Gated => q.since <= q.symbol /\ q.symbol <= plc.program,
         GoOn(p, q), Kind(proc[p]) \notin {"read", "write"},
         UNCHANGED <<plc, memory, wire>>, answer[p] # NoAnswer
  PROVE  RInv' /\ AbstractStep
<1>1. q.since <= plc.program
  BY DEF RInv, Dated
<1>2. ~IsDone(proc[p], answer[p])
  BY DEF IsDone
<1>3. /\ Alone(p) /\ Dated(proc'[p], answer'[p], plc.program)
      /\ AbstractCall' = AbstractCall
  BY <1>1, <1>2, GoesOn
<1> QED BY <1>3, Stutters, KeepsRInv, SameLateWrites DEF Stutter

LEMMA ReceiveSymbolAbstract ==
  ASSUME IInv, RInv, NEW p \in Procs, ReceiveSymbol(p)
  PROVE  RInv' /\ AbstractStep
<1>. DEFINE r == answer[p].data  q == [proc[p] EXCEPT !.symbol = r]
            c == CallOf(proc[p]).call
<1>1. "symbol" \in Kinds /\ Accepted(p, "symbol")
  BY DEF Kinds, ReceiveSymbol
<1>2. /\ proc[p] \in ProcType(p) /\ InPlace(proc[p]) /\ outcome[p] = "running"
      /\ proc[p].at > 0 /\ proc[p].waiting
      /\ answer[p] # NoAnswer /\ Kind(proc[p]) = "symbol" /\ answer[p].code = 0
      /\ Known(q)
  BY <1>1, AcceptedFacts DEF Meant, Accepted, Answers, Accepts, StripAdsHeader, StripAdsError
<1>3. (c \in Gated /\ proc[p].at = 1) \/ c = "GetSymbol"
  BY <1>2, ValueRequests
<1>4. q.symbol = r
  BY <1>2 DEF ProcType
<1>5. r \in 0 .. Len(Programs)
  BY <1>2, <1>4, ProgramsAssumption DEF Known
<1>6. /\ q \in ProcType(p)
      /\ q.command = proc[p].command /\ q.i = proc[p].i /\ q.at = proc[p].at
      /\ q.waiting = proc[p].waiting /\ q.since = proc[p].since /\ q.result = proc[p].result
  BY <1>2, <1>5 DEF ProcType
<1>7. q.since <= q.symbol /\ q.symbol <= plc.program
  BY <1>2, <1>4, <1>6 DEF RInv, Dated
<1>8. UNCHANGED <<plc, memory, wire>>
  BY DEF ReceiveSymbol, plcVars
<1>9. IF CallOf(q).call = "GetSymbol" THEN EndCall(p, TRUE, q) ELSE GoOn(p, q)
  BY DEF ReceiveSymbol
<1>. HIDE DEF q
<1>10. CallOf(q) = CallOf(proc[p]) /\ InPlace(q)
  BY <1>2, <1>6, SamePlace DEF InPlace
<1>11. CASE c = "GetSymbol"
  <2>1. EndCall(p, TRUE, q) /\ ~IsOpen(proc[p], outcome[p]) /\ TRUE \in BOOLEAN
    BY <1>9, <1>10, <1>11 DEF IsOpen, OfVariable
  <2> QED BY <1>2, <1>6, <1>8, <1>10, <2>1, EndsQuietly
<1>12. CASE c # "GetSymbol"
  <2>1. GoOn(p, q)
    BY <1>9, <1>10, <1>12
  <2> QED BY <1>2, <1>6, <1>7, <1>8, <2>1, GoesOnQuietly
<1> QED BY <1>11, <1>12

LEMMA ReceiveStateAbstract ==
  ASSUME IInv, RInv, NEW p \in Procs, ReceiveState(p)
  PROVE  RInv' /\ AbstractStep
<1>. DEFINE r == answer[p].data  q == [proc[p] EXCEPT !.device = r]
            c == CallOf(proc[p]).call
<1>1. "state" \in Kinds /\ Accepted(p, "state")
  BY DEF Kinds, ReceiveState
<1>2. /\ proc[p] \in ProcType(p) /\ InPlace(proc[p]) /\ outcome[p] = "running"
      /\ proc[p].at > 0 /\ answer[p] # NoAnswer /\ Kind(proc[p]) = "state"
      /\ r = plc.device
  BY <1>1, AcceptedFacts DEF Meant
<1>3. c \notin OfVariable
  BY <1>2, ValueRequests
<1>4. r \in Devices \union {0}
  BY <1>2 DEF IInv, Shape
<1>5. /\ q \in ProcType(p)
      /\ q.command = proc[p].command /\ q.i = proc[p].i /\ q.at = proc[p].at
      /\ q.waiting = proc[p].waiting /\ q.since = proc[p].since /\ q.result = proc[p].result
  BY <1>2, <1>4 DEF ProcType
<1>6. UNCHANGED <<plc, memory, wire>>
  BY DEF ReceiveState, plcVars
<1>7. EndCall(p, TRUE, q) \/ GoOn(p, q)
  BY DEF ReceiveState
<1>. HIDE DEF q
<1>8. CallOf(q) = CallOf(proc[p]) /\ InPlace(q)
  BY <1>2, <1>5, SamePlace DEF InPlace
<1>9. ~IsOpen(proc[p], outcome[p]) /\ CallOf(q).call \notin Gated /\ TRUE \in BOOLEAN
  BY <1>3, <1>8 DEF IsOpen, OfVariable, Gated
<1>10. CASE EndCall(p, TRUE, q)
  BY <1>2, <1>5, <1>6, <1>8, <1>9, <1>10, EndsQuietly
<1>11. CASE GoOn(p, q)
  BY <1>2, <1>5, <1>6, <1>9, <1>11, GoesOnQuietly
<1> QED BY <1>7, <1>10, <1>11

LEMMA ReceiveTypeAbstract ==
  ASSUME IInv, RInv, NEW p \in Procs, ReceiveType(p)
  PROVE  RInv' /\ AbstractStep
<1>. DEFINE r == answer[p].data  q == [proc[p] EXCEPT !.type = r]
            c == CallOf(proc[p]).call
<1>1. "type" \in Kinds /\ Accepted(p, "type")
  BY DEF Kinds, ReceiveType
<1>2. /\ proc[p] \in ProcType(p) /\ InPlace(proc[p]) /\ outcome[p] = "running" /\ Running(p)
      /\ proc[p].at > 0 /\ answer[p] # NoAnswer /\ Kind(proc[p]) = "type"
      /\ r \in 0 .. Len(Programs)
  BY <1>1, AcceptedFacts DEF Meant
<1>3. (c \in Gated /\ proc[p].at = 2) \/ c = "GetDataType"
  BY <1>2, ValueRequests
<1>4. /\ q \in ProcType(p)
      /\ q.command = proc[p].command /\ q.i = proc[p].i /\ q.at = proc[p].at
      /\ q.waiting = proc[p].waiting /\ q.since = proc[p].since /\ q.result = proc[p].result
      /\ q.symbol = proc[p].symbol
  BY <1>2 DEF ProcType
<1>5. UNCHANGED <<plc, memory, wire>>
  BY DEF ReceiveType, plcVars
<1>6. \/ CallOf(q).call = "GetDataType" /\ EndCall(p, TRUE, q)
      \/ Fails(p)
      \/ CallOf(q).call # "GetDataType" /\ GoOn(p, q)
  BY DEF ReceiveType
<1>. HIDE DEF q
<1>7. CallOf(q) = CallOf(proc[p]) /\ InPlace(q) /\ TRUE \in BOOLEAN
  BY <1>2, <1>4, SamePlace DEF InPlace
<1>8. CASE CallOf(q).call = "GetDataType" /\ EndCall(p, TRUE, q)
  <2>1. ~IsOpen(proc[p], outcome[p])
    BY <1>7, <1>8 DEF IsOpen, OfVariable
  <2> QED BY <1>2, <1>4, <1>5, <1>7, <1>8, <2>1, EndsQuietly
<1>9. CASE Fails(p)
  BY <1>2, <1>5, <1>9, FailsAbstract
<1>10. CASE CallOf(q).call # "GetDataType" /\ GoOn(p, q)
  <2>1. q.since <= q.symbol /\ q.symbol <= plc.program
    BY <1>3, <1>4, <1>7, <1>10 DEF RInv, Dated
  <2> QED BY <1>2, <1>4, <1>5, <1>10, <2>1, GoesOnQuietly
<1> QED BY <1>6, <1>8, <1>9, <1>10

\* Nothing of the calls changes.
LEMMA SameProcs ==
  ASSUME UNCHANGED <<proc, answer, outcome>>, plc'.program = plc.program
  PROVE  AbstractCall' = AbstractCall
<1>1. \A p \in Procs : AbstractCall'[p] = AbstractCall[p]
  BY AbstractCalls
<1>2. /\ AbstractCall = [r \in Procs |-> AbstractCall[r]]
      /\ AbstractCall' = [r \in Procs |-> AbstractCall'[r]]
  BY DEF AbstractCall
<1> QED BY <1>1, <1>2

\* A call that has taken effect returns its value.
LEMMA Succeeds ==
  ASSUME IInv, RInv, NEW p \in Procs, NEW r \in Values,
         outcome[p] = "running", proc[p] \in ProcType(p), InPlace(proc[p]), proc[p].at > 0,
         Kind(proc[p]) \in {"read", "write"},
         IsDone(proc[p], answer[p]), answer[p] # NoAnswer, ValueOf(proc[p], answer[p]) = r,
         EndCall(p, TRUE, [proc[p] EXCEPT !.result = r]), UNCHANGED <<plc, memory, wire>>
  PROVE  RInv' /\ AbstractStep
<1>. DEFINE q == [proc[p] EXCEPT !.result = r]
<1>1. /\ q.of = p /\ q \in ProcType(p) /\ q.command = proc[p].command /\ q.i = proc[p].i
      /\ q.at = proc[p].at /\ q.waiting = proc[p].waiting
      /\ q.since = proc[p].since /\ q.result = r
  BY DEF ProcType, Values
<1>2. EndCall(p, TRUE, q) /\ q.since <= plc.program /\ TRUE \in BOOLEAN
  BY <1>1 DEF RInv, Dated
<1>. HIDE DEF q
<1>3. InPlace(q)
  BY <1>1, SamePlace DEF InPlace
<1>4. /\ Alone(p) /\ Dated(proc'[p], answer'[p], plc.program)
      /\ AbstractCall' = [AbstractCall EXCEPT ![p] = ReturnedCall(r)]
  BY <1>1, <1>2, <1>3, EndsCall, ZenonT(60)
<1>5. ReturnedCall(r) = [kind |-> "returned", value |-> r]
  BY DEF ReturnedCall, NoResult, Values
<1>6. IsOpen(proc[p], outcome[p])
  BY ValueRequests DEF IsOpen
<1>8. AbstractCall[p].kind \in {"read", "write"} /\ AbstractCall[p].done /\ AbstractCall[p].value = r
  BY <1>6, AbstractCalls, CallParts, KindOfCall
<1>9. Variables!Succeed(p)
  BY <1>4, <1>5, <1>8, SamePlaces, SameLateWrites DEF Variables!Succeed
<1> QED BY <1>4, <1>9, StepOfCall, KeepsRInv

LEMMA ReceiveWrittenAbstract ==
  ASSUME IInv, RInv, NEW p \in Procs, ReceiveWritten(p)
  PROVE  RInv' /\ AbstractStep
<1>. DEFINE r == CallOf(proc[p]).value.n
<1>1. "write" \in Kinds /\ Accepted(p, "write")
  BY DEF Kinds, ReceiveWritten
<1>2. /\ proc[p] \in ProcType(p) /\ InPlace(proc[p]) /\ outcome[p] = "running"
      /\ proc[p].at > 0 /\ answer[p] # NoAnswer /\ Kind(proc[p]) = "write" /\ answer[p].code = 0
  BY <1>1, AcceptedFacts DEF Accepted, Accepts, StripAdsError
<1>3. r \in Values /\ KindOf(proc[p]) = "write"
  BY <1>2, PathOfCall, ValueRequests
<1>4. IsDone(proc[p], answer[p]) /\ ValueOf(proc[p], answer[p]) = r
  BY <1>2, <1>3 DEF IsDone, ValueOf
<1>5. EndCall(p, TRUE, [proc[p] EXCEPT !.result = r]) /\ UNCHANGED <<plc, memory, wire>>
  BY DEF ReceiveWritten, plcVars
<1> QED BY <1>2, <1>3, <1>4, <1>5, Succeeds

LEMMA ReceiveValueAbstract ==
  ASSUME IInv, RInv, NEW p \in Procs, ReceiveValue(p)
  PROVE  RInv' /\ AbstractStep
<1>. DEFINE r == answer[p].data
<1>1. "read" \in Kinds /\ Accepted(p, "read")
  BY DEF Kinds, ReceiveValue
<1>2. /\ proc[p] \in ProcType(p) /\ InPlace(proc[p]) /\ outcome[p] = "running"
      /\ proc[p].at > 0 /\ proc[p].waiting
      /\ answer[p] # NoAnswer /\ Kind(proc[p]) = "read" /\ answer[p].code = 0
      /\ StripAdsHeader(answer[p])
  BY <1>1, AcceptedFacts DEF Accepted, Answers, Accepts, StripAdsHeader, StripAdsError
<1>3. r \in Values /\ KindOf(proc[p]) = "read"
  BY <1>2, ValueRequests DEF RInv, Dated
<1>4. IsDone(proc[p], answer[p]) /\ ValueOf(proc[p], answer[p]) = r
  BY <1>2, <1>3 DEF IsDone, ValueOf
<1>5. UNCHANGED <<plc, memory, wire>>
  BY DEF ReceiveValue, plcVars
<1>6. CASE UNCHANGED <<proc, outcome, answer>>
  BY <1>5, <1>6, SameProcs, SameLateWrites, Stutters DEF Stutter, RInv
<1>7. CASE EndCall(p, TRUE, [proc[p] EXCEPT !.result = r])
  BY <1>2, <1>3, <1>4, <1>5, <1>7, Succeeds
<1> QED BY <1>6, <1>7 DEF ReceiveValue

LEMMA RequestIsAimed ==
  ASSUME NEW p \in Procs
  PROVE  /\ Request(p).of = p
         /\ Aimed(Request(p), proc[p])
<1>. DEFINE q == proc[p]  kind == Kind(proc[p])
<1>1. CASE kind = "read"
  <2>1. Request(p) = [of |-> p, kind |-> "read", cell |-> CellOf(q), size |-> SizeOf(q)]
    BY <1>1 DEF Request
  <2> QED BY <2>1 DEF Aimed
<1>2. CASE kind = "write"
  <2>1. Request(p) =
          [of |-> p, kind |-> "write", cell |-> CellOf(q), value |-> CallOf(q).value.n]
    BY <1>2 DEF Request
  <2> QED BY <2>1 DEF Aimed
<1>3. CASE kind = "symbol"
  <2>1. Request(p) = [of |-> p, kind |-> "symbol", path |-> CallOf(q).path]
    BY <1>3 DEF Request
  <2> QED BY <2>1 DEF Aimed
<1>4. CASE kind = "type"
  <2>1. Request(p) = [of |-> p, kind |-> "type", type |-> SymbolOf(q).type]
    BY <1>4 DEF Request
  <2> QED BY <2>1 DEF Aimed
<1>5. CASE kind = "control"
  <2>1. PICK x : Request(p) = [of |-> p, kind |-> "control", device |-> q.device, state |-> x]
    BY <1>5 DEF Request
  <2> QED BY <2>1 DEF Aimed
<1>6. CASE kind \notin {"symbol", "type", "read", "write", "control"}
  <2>1. Request(p) = [of |-> p, kind |-> kind]
    BY <1>6 DEF Request
  <2> QED BY <1>6, <2>1 DEF Aimed
<1> QED BY <1>1, <1>2, <1>3, <1>4, <1>5, <1>6

LEMMA SendAbstract ==
  ASSUME IInv, RInv, NEW p \in Procs, Send(p)
  PROVE  RInv' /\ AbstractStep
<1>. DEFINE q == proc[p]  s == [proc[p] EXCEPT !.waiting = TRUE]  r == Request(p)
<1>1. /\ q \in ProcType(p) /\ answer[p] = NoAnswer /\ outcome[p] = "running"
  BY RunningFacts DEF Send
<1>2. /\ proc' = [proc EXCEPT ![p] = s] /\ wire' = Append(wire, r)
      /\ UNCHANGED <<plc, memory, answer, outcome>>
  BY DEF Send, plcVars
<1>3. /\ s \in ProcType(p) /\ s.command = q.command /\ s.i = q.i /\ s.at = q.at
      /\ s.since = q.since /\ s.symbol = q.symbol /\ s.type = q.type /\ s.result = q.result
  BY <1>1 DEF ProcType
<1>4. Alone(p) /\ proc'[p] = s /\ answer'[p] = NoAnswer
  BY <1>1, <1>2 DEF IInv, Shape, Alone
<1>. HIDE DEF s
<1>5. CommandOf(s) = CommandOf(q) /\ CallOf(s) = CallOf(q)
  BY <1>1, <1>3, SamePlace
<1>6. Kind(s) = Kind(q) /\ CellOf(s) = CellOf(q)
  BY <1>3, <1>5 DEF Kind, CellOf, SymbolOf
<1>7. r.of = p /\ Aimed(r, s)
  BY <1>5, <1>6, RequestIsAimed DEF Aimed
<1>. HIDE DEF r
<1>8. Dated(s, NoAnswer, plc.program)
  BY <1>3, <1>5 DEF RInv, Dated
<1>9. /\ wire \in Seq(Requests) /\ Len(wire) \in Nat
      /\ DOMAIN wire = 1 .. Len(wire) /\ DOMAIN wire' = 1 .. Len(wire) + 1
      /\ wire'[Len(wire) + 1] = r /\ \A k \in DOMAIN wire : wire'[k] = wire[k]
  <2>1. wire \in Seq(Requests) /\ r \in Requests
    BY RequestFacts DEF IInv, WireFacts, Send, r
  <2> QED BY <1>2, <2>1
<1>10. \A k \in DOMAIN wire' : k \in DOMAIN wire \/ k = Len(wire) + 1
  BY <1>9
<1>11. \A k \in DOMAIN wire : wire[k].of # p
  <2>1. ~q.waiting
    BY DEF Send
  <2> QED BY <2>1 DEF IInv, WireFacts, Awaited
<1>12. RInv'
  <2>1. \A k \in DOMAIN wire' : wire'[k].of \in Procs => Aimed(wire'[k], proc'[wire'[k].of])
    BY <1>4, <1>7, <1>9, <1>10, <1>11 DEF RInv, Alone
  <2>2. \A x \in Procs : Dated(proc'[x], answer'[x], plc'.program)
    BY <1>2, <1>4, <1>8 DEF RInv, Alone
  <2> QED BY <2>1, <2>2 DEF RInv
<1>13. LateWrites' = LateWrites
  <2>1. ~IsLate(r)
    BY <1>7, SystemAssumption DEF IsLate
  <2>2. {l \in DOMAIN wire' : IsLate(wire'[l])} = {l \in DOMAIN wire : IsLate(wire[l])}
    BY <1>9, <1>10, <2>1
  <2>3. \A k \in DOMAIN wire : [cell |-> wire'[k].cell, value |-> wire'[k].value] =
                               [cell |-> wire[k].cell, value |-> wire[k].value]
    BY <1>9
  <2>4. LateWrites' = {[cell |-> wire'[k].cell, value |-> wire'[k].value] :
                         k \in {l \in DOMAIN wire' : IsLate(wire'[l])}}
    BY DEF LateWrites, IsLate
  <2> QED BY <2>2, <2>3, <2>4 DEF LateWrites
<1>14. AbstractCall' = AbstractCall
  <2>1. CallSeen(s, NoAnswer, "running", plc.program) = CallSeen(q, NoAnswer, "running", plc.program)
    <3>1. /\ IsOpen(s, "running") <=> IsOpen(q, "running")
          /\ KindOf(s) = KindOf(q) /\ ValueOf(s, NoAnswer) = ValueOf(q, NoAnswer)
          /\ IsDone(s, NoAnswer) = FALSE /\ IsDone(q, NoAnswer) = FALSE
      BY <1>3, <1>5 DEF IsOpen, KindOf, ValueOf, IsDone
    <3>2. CASE IsOpen(q, "running")
      BY <1>3, <1>5, <3>1, <3>2, Zenon DEF CallSeen
    <3>3. CASE ~IsOpen(q, "running")
      BY <1>3, <3>1, <3>3, CallOutside
    <3> QED BY <3>2, <3>3
  <2>2. AbstractCall'[p] = AbstractCall[p]
    BY <1>1, <1>2, <1>4, <2>1, AbstractCalls
  <2>3. AbstractCall' = [AbstractCall EXCEPT ![p] = AbstractCall'[p]]
    BY <1>2, <1>4, OneCall DEF Alone
  <2> QED BY <2>2, <2>3, SameCall
<1> QED BY <1>2, <1>12, <1>13, <1>14, Stutters DEF Stutter

LEMMA RawPaths ==
  ASSUME NEW p \in Procs, NEW n \in DOMAIN Commands[p], NEW i \in DOMAIN Commands[p][n].calls,
         Commands[p][n].calls[i].call \in {"ReadRaw", "WriteRaw"}
  PROVE  Commands[p][n].calls[i].path = RawPath
BY CommandsAssumption

\* A request of a call reaches its variable, or any cell if the program is
\* another one by now.
LEMMA CellIsReached ==
  ASSUME IInv, RInv, NEW p \in Procs, outcome[p] = "running", proc[p].at > 0,
         Kind(proc[p]) \in {"read", "write"}
  PROVE  /\ IsOpen(proc[p], outcome[p]) /\ KindOf(proc[p]) = Kind(proc[p])
         /\ CellOf(proc[p]) \in Variables!Reach(p)
<1>. DEFINE q == proc[p]  path == CallOf(proc[p]).path
<1>1. q \in ProcType(p) /\ InPlace(q) /\ LookedUp(q, plc.device)
  BY DEF IInv, ProcsFacts, ProcFacts
<1>2. /\ IsOpen(q, outcome[p]) /\ KindOf(q) = Kind(q)
      /\ CallOf(q).call \in OfVariable /\ (CallOf(q).call \in Gated => q.at >= 2)
  BY <1>1, ValueRequests DEF IsOpen
<1>3. path \in Paths /\ (path = RawPath \/ Known(q))
  BY <1>1, PathOfCall, ValueCalls
<1>4. CellOf(q) \in Cells
  BY <1>3, KnownSymbol, SystemAssumption DEF CellOf
<1>5. AbstractCall[p].path = path /\ (AbstractCall[p].moved <=> q.since # plc.program)
  BY <1>2, AbstractCalls, CallParts
<1>6. plc.program \in DOMAIN Programs /\ plc.program \in Nat
  BY ProgramsAssumption DEF IInv, Shape
<1>7. ASSUME q.since = plc.program PROVE CellOf(q) = Places[plc.program][path]
  <2>1. CASE path = RawPath
    BY <1>3, <1>6, <2>1 DEF Places, CellOf
  <2>2. CASE path # RawPath
    <3>1. CallOf(q).call \in Gated
      <4>1. /\ CommandOf(q) = Commands[p][q.command] /\ q.command \in DOMAIN Commands[p]
            /\ q.i \in DOMAIN CommandOf(q).calls
        BY <1>1, AtRequest DEF InPlace
      <4>2. CommandOf(q).calls[q.i].call \in {"ReadRaw", "WriteRaw"} =>
              CommandOf(q).calls[q.i].path = RawPath
        BY <4>1, RawPaths
      <4>3. CallOf(q).path # RawPath
        BY <2>2
      <4>. HIDE DEF q
      <4>4. CallOf(q).call \in {"ReadRaw", "WriteRaw"} => CallOf(q).path = RawPath
        BY <4>2 DEF CallOf
      <4>5. CallOf(q).call \in Gated \/ CallOf(q).call \in {"ReadRaw", "WriteRaw"}
        BY <1>2 DEF OfVariable, Gated
      <4> QED BY <4>3, <4>4, <4>5
    <3>2. q.symbol = plc.program
      <4>1. q.since <= q.symbol /\ q.symbol <= plc.program
        BY <1>2, <3>1 DEF RInv, Dated
      <4>2. q.symbol \in Nat
        BY <1>1, ProgramsAssumption DEF ProcType
      <4> QED BY <1>6, <1>7, <4>1, <4>2
    <3>3. path \in DOMAIN Programs[plc.program].symbols
      BY <1>3, <2>2, <3>2 DEF Known
    <3>4. Places[plc.program][path] = Programs[plc.program].symbols[path].cell
      BY <1>3, <1>6, <2>2, <3>3 DEF Places
    <3> QED BY <2>2, <3>2, <3>4 DEF CellOf, SymbolOf
  <2> QED BY <2>1, <2>2
<1>8. CellOf(q) \in Variables!Reach(p)
  BY <1>4, <1>5, <1>7 DEF Variables!Reach
<1> QED BY <1>2, <1>8

LEMMA TimesOutAbstract ==
  ASSUME IInv, RInv, NEW p \in Procs, TimesOut(p)
  PROVE  RInv' /\ AbstractStep
<1>. DEFINE q == proc[p]
            late == [cell |-> CellOf(q), value |-> CallOf(q).value.n]
            Given(k) == wire[k].of = p /\ wire[k].kind = "write"
<1>1. /\ Running(p) /\ outcome[p] = "running" /\ q.waiting /\ Fails(p) /\ plc' = plc /\ memory' = memory
      /\ q \in ProcType(p) /\ InPlace(q) /\ q.at > 0
      /\ wire' = [k \in DOMAIN wire |-> IF wire[k].of = p THEN [wire[k] EXCEPT !.of = Nobody]
                                       ELSE wire[k]]
  BY RunningFacts DEF TimesOut, Running, plcVars, InPlace, ProcType
<1>2. Alone(p) /\ Dated(proc'[p], answer'[p], plc.program)
  BY <1>1, FailedCall
<1>3. wire \in Seq(Requests) /\ DOMAIN wire' = DOMAIN wire
  BY <1>1 DEF IInv, WireFacts
<1>4. \A k \in DOMAIN wire :
        /\ wire'[k].of = IF wire[k].of = p THEN Nobody ELSE wire[k].of
        /\ wire[k].of # p => wire'[k] = wire[k]
        /\ wire'[k].kind = wire[k].kind
        /\ wire[k].kind = "write" => wire'[k].cell = wire[k].cell /\ wire'[k].value = wire[k].value
  <2>1. ASSUME NEW k \in DOMAIN wire, wire[k].of = p
        PROVE  /\ wire'[k].of = Nobody /\ wire'[k].kind = wire[k].kind
               /\ wire[k].kind = "write" => wire'[k].cell = wire[k].cell /\ wire'[k].value = wire[k].value
    <3>1. wire[k] \in Requests /\ wire'[k] = [wire[k] EXCEPT !.of = Nobody]
      BY <1>1, <1>3, <2>1
    <3>2. wire'[k].of = Nobody /\ wire'[k].kind = wire[k].kind
      BY <3>1, Relabelled
    <3>3. ASSUME wire[k].kind = "write"
          PROVE  wire'[k].cell = wire[k].cell /\ wire'[k].value = wire[k].value
      <4>1. wire[k] \in [of : Procs \union {Nobody}, kind : {"write"}, cell : Cells, value : Values]
        BY <3>1, <3>3 DEF Requests
      <4> QED BY <3>1, <4>1
    <3> QED BY <3>2, <3>3
  <2> QED BY <1>1, <2>1
<1>5. RInv'
  <2>1. \A k \in DOMAIN wire : wire'[k].of \in Procs => wire[k].of # p /\ wire'[k] = wire[k]
    BY <1>4, SystemAssumption
  <2>2. \A k \in DOMAIN wire' : wire'[k].of \in Procs => Aimed(wire'[k], proc'[wire'[k].of])
    BY <1>2, <1>3, <2>1 DEF RInv, Alone
  <2>3. \A x \in Procs : Dated(proc'[x], answer'[x], plc'.program)
    BY <1>1, <1>2 DEF RInv, Alone
  <2> QED BY <2>2, <2>3 DEF RInv
<1>6. \A k \in DOMAIN wire : Given(k) =>
        Kind(q) = "write" /\ answer[p] = NoAnswer /\ wire[k].cell = late.cell /\ wire[k].value = late.value
  BY DEF IInv, WireFacts, Awaited, RInv, Aimed
<1>7. \A k \in DOMAIN wire : IsLate(wire'[k]) <=> IsLate(wire[k]) \/ Given(k)
  BY <1>4, SystemAssumption DEF IsLate
<1>8. \A w : w \in LateWrites' <=> w \in LateWrites \/ \E k \in DOMAIN wire : Given(k) /\ w = late
  <2>1. \A k \in DOMAIN wire : IsLate(wire'[k]) =>
          [cell |-> wire'[k].cell, value |-> wire'[k].value] = [cell |-> wire[k].cell, value |-> wire[k].value]
    BY <1>4 DEF IsLate
  <2>2. \A k \in DOMAIN wire : Given(k) => [cell |-> wire[k].cell, value |-> wire[k].value] = late
    BY <1>6
  <2>. DEFINE LateOf(k) == [cell |-> wire[k].cell, value |-> wire[k].value]
              LateOfThen(k) == [cell |-> wire'[k].cell, value |-> wire'[k].value]
  <2>3. \A w : w \in LateWrites <=> \E k \in DOMAIN wire : IsLate(wire[k]) /\ w = LateOf(k)
    BY LateWrite
  <2>4. \A w : w \in LateWrites' <=> \E k \in DOMAIN wire : IsLate(wire'[k]) /\ w = LateOfThen(k)
    BY <1>3, LateWrite
  <2>5. /\ \A k \in DOMAIN wire : IsLate(wire'[k]) => LateOfThen(k) = LateOf(k)
        /\ \A k \in DOMAIN wire : Given(k) => LateOf(k) = late
    BY <2>1, <2>2
  <2>. HIDE DEF LateOf, LateOfThen, Given, late
  <2> QED BY <1>7, <2>3, <2>4, <2>5
<1>9. CASE \E k \in DOMAIN wire : Given(k)
  <2>1. LateWrites' = LateWrites \union {late}
    BY <1>8, <1>9
  <2>2. Kind(q) = "write" /\ answer[p] = NoAnswer
    BY <1>6, <1>9
  <2>3. IsOpen(q, outcome[p]) /\ KindOf(q) = "write" /\ CellOf(q) \in Variables!Reach(p)
    BY <1>1, <2>2, CellIsReached
  <2>4. /\ AbstractCall[p].kind = "write" /\ ~AbstractCall[p].done
        /\ AbstractCall[p].value = CallOf(q).value.n
    BY <2>2, <2>3, AbstractCalls, CallParts DEF IsDone, ValueOf
  <2>5. AbstractCall' = [AbstractCall EXCEPT ![p] = [kind |-> "none"]]
    BY <1>1, <2>3, FailedCall DEF IsOpen
  <2>6. \E c \in Variables!Reach(p) :
          LateWrites' = LateWrites \union {[cell |-> c, value |-> AbstractCall[p].value]}
    BY <2>1, <2>3, <2>4
  <2>7. Variables!Fail(p)
    BY <1>1, <2>4, <2>5, <2>6, SamePlaces DEF Variables!Fail, Variables!Idle
  <2> QED BY <1>5, <2>7, StepOfCall
<1>10. CASE ~\E k \in DOMAIN wire : Given(k)
  <2>1. LateWrites' = LateWrites
    BY <1>8, <1>10
  <2>2. CASE CallOf(q).call \in OfVariable
    <3>1. AbstractCall' = [AbstractCall EXCEPT ![p] = [kind |-> "none"]]
      BY <1>1, <2>2, FailedCall
    <3>2. AbstractCall[p].kind \in {"read", "write"}
      BY <1>1, <2>2, KindOfCall DEF IsOpen
    <3> QED BY <1>1, <1>5, <2>1, <3>1, <3>2, AbstractFails
  <2>3. CASE CallOf(q).call \notin OfVariable
    BY <1>1, <1>5, <2>1, <2>3, FailedCall, Stutters DEF Stutter
  <2> QED BY <2>2, <2>3
<1> QED BY <1>9, <1>10

-----------------------------------------------------------------------------
(* The effect of a request.                                                 *)

Yes == TRUE

LEMMA DoneExcept ==
  ASSUME NEW kind, NEW path, NEW value, NEW moved, NEW isDone, NEW t
  PROVE  [OpenCall(kind, path, value, moved, isDone) EXCEPT !.done = t] =
           OpenCall(kind, path, value, moved, t)
BY DEF OpenCall

LEMMA MovedExcept ==
  ASSUME NEW kind, NEW path, NEW value, NEW moved, NEW isDone, NEW t
  PROVE  [OpenCall(kind, path, value, moved, isDone) EXCEPT !.moved = t] =
           OpenCall(kind, path, value, t, isDone)
BY DEF OpenCall

\* The same with a truth value, by the name of it.
LEMMA DoneExceptTrue ==
  ASSUME NEW kind, NEW path, NEW value, NEW moved, NEW isDone
  PROVE  [OpenCall(kind, path, value, moved, isDone) EXCEPT !.done = TRUE] =
           OpenCall(kind, path, value, moved, TRUE)
<1>1. [OpenCall(kind, path, value, moved, isDone) EXCEPT !.done = Yes] =
        OpenCall(kind, path, value, moved, Yes)
  BY DoneExcept
<1> QED BY <1>1, Zenon DEF Yes

LEMMA MovedExceptTrue ==
  ASSUME NEW kind, NEW path, NEW value, NEW moved, NEW isDone
  PROVE  [OpenCall(kind, path, value, moved, isDone) EXCEPT !.moved = TRUE] =
           OpenCall(kind, path, value, TRUE, isDone)
<1>1. [OpenCall(kind, path, value, moved, isDone) EXCEPT !.moved = Yes] =
        OpenCall(kind, path, value, Yes, isDone)
  BY MovedExcept
<1> QED BY <1>1, Zenon DEF Yes

LEMMA NotDoneYet ==
  ASSUME NEW q, NEW a, NEW b, NEW o, NEW n, ~IsDone(q, a), ~IsDone(q, b)
  PROVE  CallSeen(q, a, o, n) = CallSeen(q, b, o, n)
<1>1. /\ IsDone(q, a) = FALSE /\ IsDone(q, b) = FALSE /\ ValueOf(q, a) = ValueOf(q, b)
  BY DEF IsDone, ValueOf
<1>2. CASE IsOpen(q, o)
  BY <1>1, <1>2, Zenon DEF CallSeen
<1>3. CASE ~IsOpen(q, o)
  BY <1>3, CallOutside
<1> QED BY <1>2, <1>3

\* Call d is call c after its effect.
HasRead(c, d, value) == d = [c EXCEPT !.value = value, !.done = TRUE]
HasWritten(c, d) == d = [c EXCEPT !.done = TRUE]

LEMMA ReadDone ==
  ASSUME NEW q, NEW a, NEW b, NEW o, NEW n, IsOpen(q, o), IsDone(q, b)
  PROVE  HasRead(CallSeen(q, a, o, n), CallSeen(q, b, o, n), ValueOf(q, b))
<1>1. PICK m, f \in BOOLEAN :
        /\ m <=> q.since # n
        /\ CallSeen(q, a, o, n) = OpenCall(KindOf(q), CallOf(q).path, ValueOf(q, a), m, f)
  BY CallInside
<1>2. PICK m2, t \in BOOLEAN :
        /\ (m2 <=> q.since # n) /\ t
        /\ CallSeen(q, b, o, n) = OpenCall(KindOf(q), CallOf(q).path, ValueOf(q, b), m2, t)
  BY CallInside
<1>3. CallSeen(q, b, o, n) = OpenCall(KindOf(q), CallOf(q).path, ValueOf(q, b), m, TRUE)
  <2>1. m2 = m /\ t = TRUE
    BY <1>1, <1>2
  <2> QED BY <1>2, <2>1, Zenon
<1>. DEFINE k == KindOf(q)  path == CallOf(q).path  v == ValueOf(q, a)  w == ValueOf(q, b)
<1>5. [OpenCall(k, path, v, m, f) EXCEPT !.value = w, !.done = TRUE] = OpenCall(k, path, w, m, TRUE)
  <2>. HIDE DEF k, path, v, w
  <2>. DEFINE c == OpenCall(k, path, v, m, f)
  <2>1. [c EXCEPT !.value = w] = OpenCall(k, path, w, m, f)
    BY DEF OpenCall
  <2>2. [OpenCall(k, path, w, m, f) EXCEPT !.done = TRUE] = OpenCall(k, path, w, m, TRUE)
    BY DoneExceptTrue, Zenon
  <2>3. [c EXCEPT !.value = w, !.done = TRUE] = [[c EXCEPT !.value = w] EXCEPT !.done = TRUE]
    BY Zenon
  <2> QED BY <2>1, <2>2, <2>3, Zenon
<1> QED BY <1>1, <1>3, <1>5, Zenon DEF HasRead

LEMMA WriteDone ==
  ASSUME NEW q, NEW a, NEW b, NEW o, NEW n, IsOpen(q, o), IsDone(q, b), KindOf(q) = "write"
  PROVE  HasWritten(CallSeen(q, a, o, n), CallSeen(q, b, o, n))
<1>1. PICK m, f \in BOOLEAN :
        /\ m <=> q.since # n
        /\ CallSeen(q, a, o, n) = OpenCall(KindOf(q), CallOf(q).path, ValueOf(q, a), m, f)
  BY CallInside
<1>2. PICK m2, t \in BOOLEAN :
        /\ (m2 <=> q.since # n) /\ t
        /\ CallSeen(q, b, o, n) = OpenCall(KindOf(q), CallOf(q).path, ValueOf(q, b), m2, t)
  BY CallInside
<1>3. CallSeen(q, b, o, n) = OpenCall(KindOf(q), CallOf(q).path, ValueOf(q, b), m, TRUE)
  <2>1. m2 = m /\ t = TRUE
    BY <1>1, <1>2
  <2> QED BY <1>2, <2>1, Zenon
<1>4. ValueOf(q, b) = ValueOf(q, a)
  BY DEF ValueOf
<1>. DEFINE k == KindOf(q)  path == CallOf(q).path  v == ValueOf(q, a)
<1>6. [OpenCall(k, path, v, m, f) EXCEPT !.done = TRUE] = OpenCall(k, path, v, m, TRUE)
  <2>. HIDE DEF k, path, v
  <2> QED BY DoneExceptTrue, Zenon
<1> QED BY <1>1, <1>3, <1>4, <1>6, Zenon DEF HasWritten

\* The first request has left the wire.
LEMMA HandledWire ==
  ASSUME IInv, RInv, wire # <<>>, wire' = Tail(wire), proc' = proc, plc'.program = plc.program,
         NEW a, ToSender(Head(wire), a),
         Head(wire).of \in Procs => Dated(proc[Head(wire).of], a, plc.program)
  PROVE  /\ RInv'
         /\ \A w : w \in LateWrites <=>
              \/ w \in LateWrites'
              \/ IsLate(Head(wire)) /\ w = [cell |-> Head(wire).cell, value |-> Head(wire).value]
         /\ \A p \in Procs : IF p = Head(wire).of THEN answer'[p] = a ELSE answer'[p] = answer[p]
<1>. DEFINE r == Head(wire)
<1>1. /\ wire \in Seq(Requests) /\ Len(wire) \in Nat /\ Len(wire) >= 1
      /\ DOMAIN wire = 1 .. Len(wire) /\ r = wire[1] /\ 1 \in DOMAIN wire
  BY DEF IInv, WireFacts
<1>2. /\ DOMAIN wire' = 1 .. Len(wire) - 1
      /\ \A k \in DOMAIN wire' : k + 1 \in DOMAIN wire /\ wire'[k] = wire[k + 1]
  BY <1>1
<1>3. \A k \in DOMAIN wire : k = 1 \/ (k - 1 \in DOMAIN wire' /\ wire[k] = wire'[k - 1])
  BY <1>1, <1>2
<1>4. \A p \in Procs : IF p = r.of THEN answer'[p] = a ELSE answer'[p] = answer[p]
  BY SystemAssumption DEF ToSender, IInv, Shape
<1>5. RInv'
  <2>1. \A k \in DOMAIN wire' : wire'[k].of \in Procs => Aimed(wire'[k], proc'[wire'[k].of])
    BY <1>2 DEF RInv
  <2>2. \A p \in Procs : Dated(proc'[p], answer'[p], plc'.program)
    BY <1>4 DEF RInv
  <2> QED BY <2>1, <2>2 DEF RInv
<1>6. ASSUME NEW w
      PROVE  w \in LateWrites <=>
               \/ w \in LateWrites'
               \/ IsLate(r) /\ w = [cell |-> r.cell, value |-> r.value]
  <2>. DEFINE Is(x) == IsLate(x) /\ w = [cell |-> x.cell, value |-> x.value]
  <2>1. w \in LateWrites <=> \E k \in DOMAIN wire : Is(wire[k])
    BY LateWrite
  <2>2. w \in LateWrites' <=> \E k \in DOMAIN wire' : Is(wire'[k])
    BY LateWrite
  <2>3. Is(r) <=> IsLate(r) /\ w = [cell |-> r.cell, value |-> r.value]
    OBVIOUS
  <2>. HIDE DEF Is, r
  <2> QED BY <1>1, <1>2, <1>3, <2>1, <2>2, <2>3
<1> QED BY <1>4, <1>5, <1>6

LEMMA PlcRefusesAbstract ==
  ASSUME IInv, RInv, PlcRefuses
  PROVE  RInv' /\ AbstractStep
<1>. DEFINE r == Head(wire)
<1>1. /\ wire # <<>> /\ wire' = Tail(wire) /\ ToSender(r, Refusal)
      /\ UNCHANGED <<plc, memory, proc, outcome>>
  BY DEF PlcRefuses, plcVars
<1>2. Refusal.code = 1 /\ Refusal.size = 8
  BY DEF Refusal
<1>3. r.of \in Procs => Dated(proc[r.of], Refusal, plc.program)
  BY <1>2 DEF RInv, Dated
<1>4. /\ RInv' /\ LateWrites' \subseteq LateWrites
      /\ \A p \in Procs : IF p = r.of THEN answer'[p] = Refusal ELSE answer'[p] = answer[p]
  BY <1>1, <1>3, HandledWire
<1>5. ASSUME NEW p \in Procs PROVE AbstractCall'[p] = AbstractCall[p]
  <2>1. CASE p = r.of
    <3>1. answer[p] = NoAnswer
      <4>1. wire \in Seq(Requests) /\ r = wire[1] /\ 1 \in DOMAIN wire
        BY <1>1 DEF IInv, WireFacts
      <4> QED BY <2>1, <4>1 DEF IInv, WireFacts, Awaited
    <3>2. ~IsDone(proc[p], NoAnswer) /\ ~IsDone(proc[p], Refusal)
      BY <1>2 DEF IsDone, StripAdsHeader, StripAdsError
    <3> QED BY <1>1, <1>4, <2>1, <3>1, <3>2, NotDoneYet, AbstractCalls
  <2>2. CASE p # r.of
    BY <1>1, <1>4, <2>2, AbstractCalls
  <2> QED BY <2>1, <2>2
<1>6. AbstractCall' = AbstractCall
  <2>1. /\ AbstractCall = [x \in Procs |-> AbstractCall[x]]
        /\ AbstractCall' = [x \in Procs |-> AbstractCall'[x]]
    BY DEF AbstractCall
  <2> QED BY <1>5, <2>1
<1>7. Variables!ForgetLate
  BY <1>1, <1>4, <1>6, SamePlaces DEF Variables!ForgetLate
<1> QED BY <1>4, <1>7 DEF AbstractStep, Variables!Next

LEMMA OtherStepsAbstract ==
  ASSUME IInv, RInv, Poll \/ ConnectionLost
  PROVE  RInv' /\ AbstractStep
<1>1. /\ UNCHANGED <<plc, memory, proc, answer, outcome>>
      /\ wire' = wire \/ wire' = <<>>
  BY DEF Poll, ConnectionLost, plcVars
<1>2. AbstractCall' = AbstractCall
  BY <1>1, SameProcs
<1>3. CASE wire' = wire
  BY <1>1, <1>2, <1>3, SameLateWrites, Stutters DEF Stutter, RInv
<1>4. CASE wire' = <<>>
  <2>1. DOMAIN wire' = {}
    BY <1>4
  <2>2. LateWrites' = {}
    BY <2>1, LateWrite
  <2>3. Variables!ForgetLate
    BY <1>1, <1>2, <2>2, SamePlaces DEF Variables!ForgetLate
  <2> QED BY <1>1, <2>1, <2>3 DEF AbstractStep, Variables!Next, RInv
<1> QED BY <1>1, <1>3, <1>4

LEMMA ValueResponses ==
  ASSUME IInv, NEW r \in Requests, NEW cut \in BOOLEAN, r.kind \in {"read", "write"}
  PROVE  LET a == IF cut THEN Cut(Response(r)) ELSE Response(r) IN
         /\ a # NoAnswer /\ a.code = 0
         /\ r.kind = "read" =>
              /\ a.data = memory[r.cell] /\ a.data \in Values /\ r.cell \in Cells
              /\ StripAdsHeader(a) <=> ~cut
<1>. DEFINE b == Response(r)
<1>1. CASE r.kind = "read"
  <2>1. b = [size |-> 8 + r.size, code |-> 0, stated |-> r.size, data |-> memory[r.cell]]
    BY <1>1 DEF Response, WithLength
  <2>2. r.size \in Nat /\ r.cell \in Cells /\ memory[r.cell] \in Values
    BY <1>1, RequestParts DEF IInv, Shape
  <2>3. Cut(b) = [size |-> 7 + r.size, code |-> 0, stated |-> r.size, data |-> memory[r.cell]]
    <3>1. (8 + r.size) - 1 = 7 + r.size
      BY <2>2
    <3> QED BY <2>1, <3>1 DEF Cut
  <2>. HIDE DEF b
  <2>4. /\ StripAdsHeader(b) /\ ~StripAdsHeader(Cut(b))
        /\ b # NoAnswer /\ Cut(b) # NoAnswer
    BY <2>1, <2>2, <2>3 DEF StripAdsHeader, StripAdsError, NoAnswer
  <2>5. CASE cut
    BY <1>1, <2>2, <2>3, <2>4, <2>5 DEF b
  <2>6. CASE ~cut
    BY <1>1, <2>1, <2>2, <2>4, <2>6 DEF b
  <2> QED BY <2>5, <2>6
<1>2. CASE r.kind = "write"
  <2>1. b = [size |-> 4, code |-> 0, stated |-> 0, data |-> 0]
    BY <1>2 DEF Response, Plain
  <2>2. Cut(b) = [size |-> 3, code |-> 0, stated |-> 0, data |-> 0]
    BY <2>1 DEF Cut
  <2>. HIDE DEF b
  <2>3. b # NoAnswer /\ Cut(b) # NoAnswer
    BY <2>1, <2>2 DEF NoAnswer
  <2> QED BY <1>2, <2>1, <2>2, <2>3 DEF b
<1> QED BY <1>1, <1>2

LEMMA PlcServesAbstract ==
  ASSUME IInv, RInv, NEW cut \in BOOLEAN, PlcServes(cut)
  PROVE  RInv' /\ AbstractStep
<1>. DEFINE r == Head(wire)  p == Head(wire).of
            a == IF cut THEN Cut(Response(Head(wire))) ELSE Response(Head(wire))
            lateWrite == [cell |-> Head(wire).cell, value |-> Head(wire).value]
<1>1. /\ wire # <<>> /\ wire' = Tail(wire) /\ ToSender(r, a)
      /\ UNCHANGED <<proc, outcome>>
      /\ memory' = IF r.kind = "write" THEN [memory EXCEPT ![r.cell] = r.value] ELSE memory
  BY DEF PlcServes
<1>2. plc'.program = plc.program
  <2>1. \/ plc' = plc
        \/ \E x \in SystemStates : plc' = [plc EXCEPT !.state = x, !.device = r.device]
    BY DEF PlcServes, SystemStates
  <2> QED BY <2>1 DEF IInv, Shape
<1>3. /\ r \in Requests
      /\ p \in Procs =>
           proc[p].waiting /\ Kind(proc[p]) = r.kind /\ outcome[p] = "running"
  BY <1>1, HeadFacts
<1>4. p \in Procs => answer[p] = NoAnswer /\ Aimed(r, proc[p])
  <2>1. wire \in Seq(Requests) /\ r = wire[1] /\ 1 \in DOMAIN wire
    BY <1>1 DEF IInv, WireFacts
  <2> QED BY <2>1 DEF IInv, WireFacts, Awaited, RInv
<1>5. ASSUME p \in Procs PROVE Dated(proc[p], a, plc.program)
  <2>1. r.kind = "symbol" => a.data = plc.program
    BY <1>3, ResponseFacts
  <2>2. r.kind = "read" => a.data \in Values
    BY <1>3, ValueResponses
  <2>3. plc.program \in Nat
    BY ProgramsAssumption DEF IInv, Shape
  <2>. HIDE DEF a, r
  <2> QED BY <1>3, <1>5, <2>1, <2>2, <2>3 DEF RInv, Dated
<1>6. /\ RInv'
      /\ \A w : w \in LateWrites <=> w \in LateWrites' \/ (IsLate(r) /\ w = lateWrite)
      /\ \A x \in Procs : IF x = p THEN answer'[x] = a ELSE answer'[x] = answer[x]
  BY <1>1, <1>2, <1>5, HandledWire
<1>7. p \in Procs => ~IsLate(r)
  BY SystemAssumption DEF IsLate
<1>8. \A x \in Procs : x # p => AbstractCall'[x] = AbstractCall[x]
  BY <1>1, <1>2, <1>6, AbstractCalls
<1>9. /\ AbstractCall = [x \in Procs |-> AbstractCall[x]]
      /\ AbstractCall' = [x \in Procs |-> AbstractCall'[x]]
  BY DEF AbstractCall
<1>. HIDE DEF a
<1>10. CASE p \notin Procs
  <2>1. AbstractCall' = AbstractCall
    BY <1>8, <1>9, <1>10
  <2>2. CASE IsLate(r)
    <3>1. lateWrite \in LateWrites /\ LateWrites' \in {LateWrites, LateWrites \ {lateWrite}}
      BY <1>6, <2>2
    <3>2. memory' = [memory EXCEPT ![lateWrite.cell] = lateWrite.value]
      BY <1>1, <2>2 DEF IsLate
    <3>3. Variables!PutLate(lateWrite)
      BY <1>2, <2>1, <3>1, <3>2, SamePlaces DEF Variables!PutLate
    <3> QED BY <1>6, <3>1, <3>3 DEF AbstractStep, Variables!Next
  <2>3. CASE ~IsLate(r)
    <3>1. r.kind # "write"
      BY <1>3, <1>10, <2>3, RequestParts DEF IsLate
    <3>2. LateWrites' = LateWrites
      BY <1>6, <2>3
    <3> QED BY <1>1, <1>2, <1>6, <2>1, <3>1, <3>2, Stutters DEF Stutter
  <2> QED BY <2>2, <2>3
<1>11. CASE p \in Procs
  <2>. DEFINE q == proc[p]
  <2>1. LateWrites' = LateWrites
    BY <1>6, <1>7, <1>11
  <2>2. /\ AbstractCall[p] = CallSeen(q, NoAnswer, "running", plc.program)
        /\ AbstractCall'[p] = CallSeen(q, a, "running", plc.program)
    BY <1>1, <1>2, <1>3, <1>4, <1>6, <1>11, AbstractCalls
  <2>3. AbstractCall' = [AbstractCall EXCEPT ![p] = AbstractCall'[p]]
    BY <1>8, <1>9, <1>11
  <2>4. ~IsDone(q, NoAnswer)
    BY DEF IsDone
  <2>5. CASE ~IsDone(q, a)
    <3>1. AbstractCall' = AbstractCall
      BY <2>2, <2>3, <2>4, <2>5, <1>11, NotDoneYet, SameCall
    <3>2. r.kind # "write"
      <4>1. ASSUME r.kind = "write" PROVE IsDone(q, a)
        <5>1. a # NoAnswer /\ a.code = 0
          BY <1>3, <4>1, ValueResponses DEF a
        <5>2. Kind(q) = "write" /\ KindOf(q) = "write"
          <6>1. q \in ProcType(p) /\ InPlace(q) /\ q.at > 0
            BY <1>3, <1>11 DEF IInv, ProcsFacts, ProcFacts, InPlace, ProcType
          <6> QED BY <1>3, <1>11, <4>1, <6>1, ValueRequests
        <5> QED BY <5>1, <5>2 DEF IsDone
      <4> QED BY <2>5, <4>1
    <3> QED BY <1>1, <1>2, <1>6, <2>1, <3>1, <3>2, Stutters DEF Stutter
  <2>6. CASE IsDone(q, a)
    <3>1. q.at > 0
      BY <1>3, <1>11 DEF IInv, ProcsFacts, ProcFacts, InPlace, ProcType
    <3>2. r.kind \in {"read", "write"}
      BY <1>3, <1>11, <2>6 DEF IsDone
    <3>3. /\ IsOpen(q, "running") /\ KindOf(q) = r.kind
          /\ CellOf(q) \in Variables!Reach(p) /\ r.cell = CellOf(q)
          /\ r.kind = "write" => r.value = CallOf(q).value.n
      BY <1>3, <1>4, <1>11, <3>1, <3>2, CellIsReached DEF Aimed
    <3>4. AbstractCall[p].kind = r.kind /\ ~AbstractCall[p].done
      BY <2>2, <2>4, <3>3, CallParts
    <3>5. CASE r.kind = "write"
      <4>1. AbstractCall[p].value = r.value
        BY <2>2, <3>3, <3>5, CallParts DEF ValueOf
      <4>2. AbstractCall'[p] = [AbstractCall[p] EXCEPT !.done = TRUE]
        <5>1. IsOpen(q, "running") /\ KindOf(q) = "write"
          BY <3>3, <3>5
        <5>2. HasWritten(CallSeen(q, NoAnswer, "running", plc.program),
                         CallSeen(q, a, "running", plc.program))
          BY <2>6, <5>1, WriteDone
        <5>3. HasWritten(AbstractCall[p], AbstractCall'[p])
          BY <2>2, <5>2
        <5> QED BY <5>3, Zenon DEF HasWritten
      <4>3. [AbstractCall EXCEPT ![p].done = TRUE] =
              [AbstractCall EXCEPT ![p] = [AbstractCall[p] EXCEPT !.done = TRUE]]
        BY Zenon
      <4>4. AbstractCall' = [AbstractCall EXCEPT ![p].done = TRUE]
        BY <2>3, <4>2, <4>3
      <4>5. \E c \in Variables!Reach(p) : memory' = [memory EXCEPT ![c] = AbstractCall[p].value]
        BY <1>1, <3>3, <3>5, <4>1
      <4>6. Variables!PutValue(p)
        BY <1>2, <2>1, <3>4, <3>5, <4>4, <4>5, SamePlaces DEF Variables!PutValue
      <4> QED BY <1>6, <1>11, <4>6, StepOfCall
    <3>6. CASE r.kind = "read"
      <4>1. ValueOf(q, a) = memory[r.cell]
        <5>1. a.data = memory[r.cell]
          BY <1>3, <3>6, ValueResponses DEF a
        <5> QED BY <2>6, <3>3, <3>6, <5>1 DEF ValueOf
      <4>2. AbstractCall'[p] = [AbstractCall[p] EXCEPT !.value = memory[r.cell], !.done = TRUE]
        <5>1. HasRead(CallSeen(q, NoAnswer, "running", plc.program),
                      CallSeen(q, a, "running", plc.program), ValueOf(q, a))
          <6>1. IsOpen(q, "running")
            BY <3>3
          <6> QED BY <2>6, <6>1, ReadDone
        <5>2. HasRead(AbstractCall[p], AbstractCall'[p], memory[r.cell])
          BY <2>2, <4>1, <5>1
        <5> QED BY <5>2, Zenon DEF HasRead
      <4>3. \E c \in Variables!Reach(p) : AbstractCall' =
              [AbstractCall EXCEPT ![p] = [AbstractCall[p] EXCEPT !.value = memory[c], !.done = TRUE]]
        BY <2>3, <3>3, <4>2, Zenon
      <4>4. memory' = memory
        BY <1>1, <3>6
      <4>5. Variables!TakeValue(p)
        BY <1>2, <2>1, <3>4, <3>6, <4>3, <4>4, SamePlaces DEF Variables!TakeValue
      <4> QED BY <1>6, <1>11, <4>5, StepOfCall
    <3> QED BY <3>2, <3>5, <3>6
  <2> QED BY <2>5, <2>6
<1> QED BY <1>10, <1>11

HasMoved(c, d) == d = [c EXCEPT !.moved = TRUE]

LEMMA CallMoves ==
  ASSUME NEW q, NEW a, NEW o, NEW n, NEW n2, IsOpen(q, o), q.since # n2
  PROVE  HasMoved(CallSeen(q, a, o, n), CallSeen(q, a, o, n2))
<1>1. PICK m, t \in BOOLEAN :
        /\ t <=> IsDone(q, a)
        /\ CallSeen(q, a, o, n) = OpenCall(KindOf(q), CallOf(q).path, ValueOf(q, a), m, t)
  BY CallInside
<1>2. PICK m2, t2 \in BOOLEAN :
        /\ m2 /\ (t2 <=> IsDone(q, a))
        /\ CallSeen(q, a, o, n2) = OpenCall(KindOf(q), CallOf(q).path, ValueOf(q, a), m2, t2)
  BY CallInside
<1>. DEFINE k == KindOf(q)  path == CallOf(q).path  v == ValueOf(q, a)
<1>3. CallSeen(q, a, o, n2) = OpenCall(k, path, v, TRUE, t)
  <2>1. t2 = t /\ m2 = TRUE
    BY <1>1, <1>2
  <2> QED BY <1>2, <2>1, Zenon
<1>4. [OpenCall(k, path, v, m, t) EXCEPT !.moved = TRUE] = OpenCall(k, path, v, TRUE, t)
  <2>. HIDE DEF k, path, v
  <2>1. \A x, y : [OpenCall(k, path, v, x, y) EXCEPT !.moved = TRUE] = OpenCall(k, path, v, TRUE, y)
    BY MovedExceptTrue, Zenon
  <2> QED BY <2>1, Zenon
<1> QED BY <1>1, <1>3, <1>4, Zenon DEF HasMoved

LEMMA DownloadAbstract ==
  ASSUME IInv, RInv, Download
  PROVE  RInv' /\ AbstractStep
<1>1. /\ plc.program + 1 \in DOMAIN Programs /\ plc'.program = plc.program + 1
      /\ memory' = [c \in Cells |-> 1]
      /\ UNCHANGED <<proc, outcome, wire, answer>>
  BY DEF Download, IInv, Shape
<1>2. plc.program \in Nat /\ \A p \in Procs : proc[p].since \in Nat /\ proc[p].symbol \in Nat
  BY ProgramsAssumption DEF IInv, Shape, ProcsFacts, ProcFacts, ProcType
<1>3. RInv'
  <2>1. ASSUME NEW p \in Procs PROVE Dated(proc'[p], answer'[p], plc'.program)
    <3>1. Dated(proc[p], answer[p], plc.program)
      BY DEF RInv
    <3>2. answer[p].data \in Int
      BY DEF IInv, ProcsFacts, ProcFacts, ResponseType
    <3> QED BY <1>1, <1>2, <3>1, <3>2 DEF Dated
  <2> QED BY <1>1, <2>1 DEF RInv
<1>4. LateWrites' = LateWrites
  BY <1>1, SameLateWrites
<1>5. Places[plc.program]' \in {Places[g] : g \in DOMAIN Programs}
  BY <1>1
<1>6. memory' \in [Cells -> Values]
  BY <1>1 DEF Values
<1>. DEFINE Moved(p) == IF AbstractCall[p].kind \in {"read", "write"}
                        THEN [AbstractCall[p] EXCEPT !.moved = TRUE] ELSE AbstractCall[p]
<1>7. ASSUME NEW p \in Procs PROVE AbstractCall'[p] = Moved(p)
  <2>1. CASE IsOpen(proc[p], outcome[p])
    <3>1. proc[p].since # plc'.program
      BY <1>1, <1>2 DEF RInv, Dated
    <3>2. HasMoved(AbstractCall[p], AbstractCall'[p])
      BY <1>1, <2>1, <3>1, AbstractCalls, CallMoves
    <3> QED BY <2>1, <3>2, KindOfCall, Zenon DEF HasMoved
  <2>2. CASE ~IsOpen(proc[p], outcome[p])
    BY <1>1, <2>2, AbstractCalls, CallOutside, KindOfCall
  <2> QED BY <2>1, <2>2
<1>8. AbstractCall' = [p \in Procs |-> Moved(p)]
  <2>1. AbstractCall' = [p \in Procs |-> AbstractCall'[p]]
    BY DEF AbstractCall
  <2>. HIDE DEF Moved
  <2> QED BY <1>7, <2>1
<1>9. Variables!Download
  BY <1>4, <1>5, <1>6, <1>8 DEF Variables!Download
<1> QED BY <1>3, <1>9 DEF AbstractStep, Variables!Next

-----------------------------------------------------------------------------
(* All steps.                                                              *)

LEMMA InitRefines ==
  ASSUME Init
  PROVE  RInv /\ Variables!Init
<1>1. IInv
  BY InitHolds
<1>2. /\ \A p \in Procs : proc[p] \in {NewProc(p, c) : c \in DOMAIN Commands[p]}
      /\ wire = <<>> /\ plc.program = 1 /\ memory = [c \in Cells |-> 1]
      /\ \A p \in Procs : answer[p] = NoAnswer
  <2>1. ASSUME NEW p \in Procs PROVE proc[p] \in {NewProc(p, c) : c \in DOMAIN Commands[p]}
    <3>1. PICK r \in Procs : \E c \in DOMAIN Commands[r] : proc[p] = NewProc(r, c)
      BY DEF Init
    <3>2. r = p
      BY <3>1 DEF Init, NewProc
    <3> QED BY <3>1, <3>2
  <2> QED BY <2>1 DEF Init
<1>3. \A p \in Procs :
        proc[p].at = 0 /\ ~proc[p].waiting /\ proc[p].since = 0 /\ proc[p].result = NoResult
  BY <1>2 DEF NewProc
<1>4. DOMAIN wire = {}
  BY <1>2
<1>5. RInv
  BY <1>2, <1>3, <1>4 DEF RInv, Dated
<1>6. LateWrites = {}
  BY <1>4, LateWrite
<1>7. \A p \in Procs : AbstractCall[p] = [kind |-> "none"]
  BY <1>3, AbstractCalls, CallOutside DEF IsOpen, ReturnedCall
<1>8. AbstractCall = [p \in Procs |-> [kind |-> "none"]]
  <2>1. AbstractCall = [p \in Procs |-> AbstractCall[p]]
    BY DEF AbstractCall
  <2> QED BY <1>7, <2>1
<1>9. Places[plc.program] \in {Places[g] : g \in DOMAIN Programs}
  BY <1>1 DEF IInv, Shape
<1>10. memory \in [Cells -> Values]
  BY <1>2 DEF Values
<1> QED BY <1>5, <1>6, <1>8, <1>9, <1>10 DEF Variables!Init, Variables!Idle

LEMMA ProcStepRefines ==
  ASSUME IInv, RInv, NEW p \in Procs, ProcStep(p)
  PROVE  RInv' /\ AbstractStep
<1>1. CASE CallRefused(p) BY <1>1, CallRefusedAbstract
<1>2. CASE CallBegins(p) BY <1>2, CallBeginsAbstract
<1>3. CASE ReturnCurrentState(p) BY <1>3, ReturnCurrentStateAbstract
<1>4. CASE Send(p) BY <1>4, SendAbstract
<1>5. CASE SendFails(p) BY <1>5, SendFailsAbstract
<1>6. CASE TimesOut(p) BY <1>6, TimesOutAbstract
<1>7. CASE ReceiveError(p) BY <1>7, ReceiveErrorAbstract
<1>8. CASE ReceiveSymbol(p) BY <1>8, ReceiveSymbolAbstract
<1>9. CASE ReceiveType(p) BY <1>9, ReceiveTypeAbstract
<1>10. CASE ReceiveValue(p) BY <1>10, ReceiveValueAbstract
<1>11. CASE ReceiveWritten(p) BY <1>11, ReceiveWrittenAbstract
<1>12. CASE ReceiveState(p) BY <1>12, ReceiveStateAbstract
<1>13. CASE ReceiveOther(p) BY <1>13, ReceiveOtherAbstract
<1> QED BY <1>1, <1>2, <1>3, <1>4, <1>5, <1>6, <1>7, <1>8, <1>9, <1>10, <1>11, <1>12, <1>13
        DEF ProcStep

LEMMA NextRefines ==
  ASSUME IInv, RInv, [Next]_vars
  PROVE  RInv' /\ AbstractStep
<1>1. ASSUME NEW p \in Procs, ProcStep(p) PROVE RInv' /\ AbstractStep
  BY <1>1, ProcStepRefines
<1>2. ASSUME NEW cut \in BOOLEAN, PlcServes(cut) PROVE RInv' /\ AbstractStep
  BY <1>2, PlcServesAbstract
<1>3. CASE PlcRefuses BY <1>3, PlcRefusesAbstract
<1>4. CASE Download BY <1>4, DownloadAbstract
<1>5. CASE ConnectionLost BY <1>5, OtherStepsAbstract
<1>6. CASE Poll BY <1>6, OtherStepsAbstract
<1>7. CASE UNCHANGED vars
  <2>1. UNCHANGED <<plc, memory, proc, outcome, wire, answer>>
    BY <1>7 DEF vars
  <2> QED BY <2>1, SameProcs, SameLateWrites, Stutters DEF RInv, Stutter
<1> QED BY <1>1, <1>2, <1>3, <1>4, <1>5, <1>6, <1>7 DEF Next

\* The operations implement AdsVariables (client_operations.go, value.go), whatever
\* the goroutines, the commands and the programs: a value call that succeeds has
\* read or written its variable in one instant of its run, although it is made of
\* up to three requests; a write takes effect at most once while its caller waits,
\* and may do so later only if it failed before.
THEOREM OperationsImplementVariables == SafeSpec => ImplementsVariables
<1>1. Init => RInv /\ Variables!Init
  BY InitRefines
<1>2. IInv /\ RInv /\ [Next]_vars => RInv' /\ AbstractStep
  BY NextRefines
<1>3. SafeSpec => []IInv
  BY Invariance
<1> QED BY <1>1, <1>2, <1>3, PTL DEF SafeSpec, ImplementsVariables, Variables!Spec, AbstractStep

-----------------------------------------------------------------------------
(* What a crash takes.  The type of a call's variable too was looked up in a    *)
(* program between the one the call began in and the current one, and the      *)
(* value that comes has the size of the symbol.                               *)

Sized(q, a, n) ==
  /\ CallOf(q).call \in Gated /\ q.at >= 3 => q.since <= q.type /\ q.type <= n
  /\ q.waiting /\ a # NoAnswer /\ a.code = 0 =>
       /\ Kind(q) = "type" => q.since <= a.data /\ a.data <= n
       /\ Kind(q) = "read" => a.stated = SizeOf(q)

\* A request r of q to read asks for as much as the symbol of the call has.
Asked(r, q) == r.kind = "read" => r.size = SizeOf(q)

SInv ==
  /\ \A p \in Procs : Sized(proc[p], answer[p], plc.program)
  /\ \A k \in DOMAIN wire : wire[k].of \in Procs => Asked(wire[k], proc[wire[k].of])

CrashInv == IInv /\ RInv /\ SInv /\ CrashIsExplained

\* A goroutine that has no request on the wire.
LEMMA KeepsSInv ==
  ASSUME IInv, SInv, NEW p \in Procs, Alone(p), plc' = plc, wire' = wire,
         ~proc[p].waiting \/ answer[p] # NoAnswer,
         Sized(proc'[p], answer'[p], plc.program)
  PROVE  SInv'
<1>1. \A k \in DOMAIN wire : wire[k].of # p
  BY DEF IInv, WireFacts, Awaited
<1> QED BY <1>1 DEF SInv, Alone

LEMMA EndedProc ==
  ASSUME IInv, NEW p \in Procs, NEW ok \in BOOLEAN, NEW q \in ProcType(p), InPlace(q),
         EndCall(p, ok, q)
  PROVE  /\ Alone(p)
         /\ \A n : Sized(proc'[p], answer'[p], n)
<1>. DEFINE s == After(q, ok)
<1>1. /\ proc' = [proc EXCEPT ![p] = s]
      /\ outcome' = [outcome EXCEPT ![p] = OutcomeAfter(q, ok)]
      /\ answer' = [answer EXCEPT ![p] = NoAnswer]
  BY DEF EndCall, After, OutcomeAfter, Last
<1>2. Alone(p)
  BY <1>1 DEF IInv, Shape, Alone
<1>3. s.at = 0 /\ ~s.waiting
  BY AfterType
<1>4. proc'[p] = s
  BY <1>1 DEF IInv, Shape
<1>. HIDE DEF s
<1> QED BY <1>2, <1>3, <1>4 DEF Sized

LEMMA FailedProc ==
  ASSUME IInv, NEW p \in Procs, Running(p), Fails(p)
  PROVE  /\ Alone(p)
         /\ \A n : Sized(proc'[p], answer'[p], n)
<1>. DEFINE r == IF CallOf(proc[p]).call \in OfVariable THEN NoResult ELSE proc[p].result
            q == [proc[p] EXCEPT !.result = r]
<1>1. r \in Int /\ proc[p] \in ProcType(p)
  BY RunningFacts DEF NoResult, ProcType
<1>2. q \in ProcType(p) /\ InPlace(q)
  BY <1>1, RunningFacts, ResultFacts
<1>3. EndCall(p, FALSE, q)
  BY DEF Fails
<1>. HIDE DEF q
<1> QED BY <1>2, <1>3, EndedProc

\* The steps in which a call returns.
LEMMA ReturnsSized ==
  ASSUME IInv, SInv, NEW p \in Procs,
         \/ CallRefused(p) \/ SendFails(p) \/ ReceiveError(p) \/ ReturnCurrentState(p)
         \/ ReceiveOther(p) \/ ReceiveWritten(p)
  PROVE  SInv'
<1>1. plc' = plc /\ wire' = wire /\ Running(p)
  BY DEF CallRefused, SendFails, ReceiveError, ReturnCurrentState, ReceiveOther, ReceiveWritten,
         Answers, Accepted, plcVars
<1>2. proc[p] \in ProcType(p) /\ InPlace(proc[p])
  BY <1>1, RunningFacts
<1>3. ~proc[p].waiting \/ answer[p] # NoAnswer
  <2>1. CASE CallRefused(p) \/ ReturnCurrentState(p)
    BY <1>2, <2>1 DEF CallRefused, ReturnCurrentState, InPlace
  <2>2. CASE SendFails(p) BY <2>2 DEF SendFails
  <2>3. CASE ReceiveError(p) BY <2>3 DEF ReceiveError, Answers
  <2>4. CASE ReceiveOther(p) BY <2>4 DEF ReceiveOther, Accepted, Answers
  <2>5. CASE ReceiveWritten(p) BY <2>5 DEF ReceiveWritten, Accepted, Answers
  <2> QED BY <2>1, <2>2, <2>3, <2>4, <2>5
<1>4. CASE CallRefused(p) \/ SendFails(p) \/ ReceiveError(p)
  <2>1. Fails(p)
    BY <1>4 DEF CallRefused, SendFails, ReceiveError
  <2> QED BY <1>1, <1>3, <2>1, FailedProc, KeepsSInv
<1>5. CASE ReturnCurrentState(p) \/ ReceiveOther(p)
  <2>1. EndCall(p, TRUE, proc[p]) /\ TRUE \in BOOLEAN
    BY <1>5 DEF ReturnCurrentState, ReceiveOther
  <2> QED BY <1>1, <1>2, <1>3, <2>1, EndedProc, KeepsSInv
<1>6. CASE ReceiveWritten(p)
  <2>. DEFINE r == CallOf(proc[p]).value.n  q == [proc[p] EXCEPT !.result = r]
  <2>1. r \in Int
    BY <1>2, PathOfCall DEF Values
  <2>2. q \in ProcType(p) /\ InPlace(q)
    BY <1>1, <2>1, RunningFacts, ResultFacts
  <2>3. EndCall(p, TRUE, q) /\ TRUE \in BOOLEAN
    BY <1>6 DEF ReceiveWritten
  <2>. HIDE DEF q
  <2> QED BY <1>1, <1>3, <2>2, <2>3, EndedProc, KeepsSInv
<1> QED BY <1>4, <1>5, <1>6

LEMMA CallBeginsSized ==
  ASSUME IInv, SInv, NEW p \in Procs, CallBegins(p)
  PROVE  SInv'
<1>. DEFINE q == proc[p]  s == [q EXCEPT !.at = 1, !.since = plc.program]
<1>1. /\ q \in ProcType(p) /\ ~q.waiting
      /\ plc' = plc /\ wire' = wire
      /\ proc' = [proc EXCEPT ![p] = s] /\ outcome' = outcome /\ answer' = answer
  BY RunningFacts DEF CallBegins, InPlace, plcVars
<1>2. s.at = 1 /\ ~s.waiting
  BY <1>1 DEF ProcType
<1>3. Alone(p) /\ proc'[p] = s
  BY <1>1 DEF IInv, Shape, Alone
<1>. HIDE DEF s
<1>4. Sized(proc'[p], answer'[p], plc.program)
  BY <1>2, <1>3 DEF Sized
<1> QED BY <1>1, <1>3, <1>4, KeepsSInv

LEMMA GoesOnSized ==
  ASSUME IInv, SInv, NEW p \in Procs, NEW q \in ProcType(p),
         q.command = proc[p].command, q.i = proc[p].i, q.at = proc[p].at, q.at > 0,
         CallOf(q).call \in Gated /\ q.at >= 2 => q.since <= q.type /\ q.type <= plc.program,
         GoOn(p, q), plc' = plc, wire' = wire, answer[p] # NoAnswer
  PROVE  SInv'
<1>. DEFINE s == [q EXCEPT !.at = @ + 1, !.waiting = FALSE]
<1>1. /\ proc' = [proc EXCEPT ![p] = s]
      /\ answer' = [answer EXCEPT ![p] = NoAnswer] /\ outcome' = outcome
  BY DEF GoOn
<1>2. Alone(p) /\ proc'[p] = s
  BY <1>1 DEF IInv, Shape, Alone
<1>3. q.at \in Nat /\ q.at + 1 \in Nat /\ proc[p] \in ProcType(p)
  BY DEF ProcType, IInv, ProcsFacts, ProcFacts
<1>4. /\ s \in ProcType(p) /\ s.command = q.command /\ s.i = q.i /\ s.at = q.at + 1 /\ ~s.waiting
      /\ s.since = q.since /\ s.type = q.type
  BY <1>3 DEF ProcType
<1>. HIDE DEF s
<1>5. CallOf(s) = CallOf(q)
  BY <1>4, SamePlace
<1>6. s.at >= 3 => q.at >= 2
  BY <1>3, <1>4
<1>7. Sized(proc'[p], answer'[p], plc.program)
  BY <1>2, <1>4, <1>5, <1>6 DEF Sized
<1> QED BY <1>2, <1>7, KeepsSInv

LEMMA ReceiveSymbolSized ==
  ASSUME IInv, SInv, NEW p \in Procs, ReceiveSymbol(p)
  PROVE  SInv'
<1>. DEFINE r == answer[p].data  q == [proc[p] EXCEPT !.symbol = r]
<1>1. "symbol" \in Kinds /\ Accepted(p, "symbol")
  BY DEF Kinds, ReceiveSymbol
<1>2. /\ proc[p] \in ProcType(p) /\ InPlace(proc[p]) /\ proc[p].at > 0
      /\ answer[p] # NoAnswer /\ Kind(proc[p]) = "symbol" /\ Known(q)
  BY <1>1, AcceptedFacts DEF Meant
<1>3. r \in 0 .. Len(Programs)
  <2>1. q.symbol = r
    BY <1>2 DEF ProcType
  <2> QED BY <1>2, <2>1, ProgramsAssumption DEF Known
<1>4. /\ q \in ProcType(p)
      /\ q.command = proc[p].command /\ q.i = proc[p].i /\ q.at = proc[p].at
      /\ q.waiting = proc[p].waiting
  BY <1>2, <1>3 DEF ProcType
<1>5. plc' = plc /\ wire' = wire
  BY DEF ReceiveSymbol, plcVars
<1>6. IF CallOf(q).call = "GetSymbol" THEN EndCall(p, TRUE, q) ELSE GoOn(p, q)
  BY DEF ReceiveSymbol
<1>. HIDE DEF q
<1>7. CallOf(q) = CallOf(proc[p]) /\ InPlace(q) /\ TRUE \in BOOLEAN
  BY <1>2, <1>4, SamePlace DEF InPlace
<1>8. CASE EndCall(p, TRUE, q)
  BY <1>2, <1>4, <1>5, <1>7, <1>8, EndedProc, KeepsSInv
<1>9. CASE GoOn(p, q) /\ CallOf(q).call # "GetSymbol"
  <2>1. proc[p].at = 1 \/ CallOf(proc[p]).call = "GetSymbol"
    BY <1>2, ValueRequests
  <2>2. q.at = 1
    BY <1>4, <1>7, <1>9, <2>1
  <2>3. q.at > 0 /\ ~(q.at >= 2) /\ GoOn(p, q)
    BY <1>9, <2>2
  <2> QED BY <1>2, <1>4, <1>5, <2>3, GoesOnSized
<1> QED BY <1>6, <1>8, <1>9

LEMMA ReceiveStateSized ==
  ASSUME IInv, SInv, NEW p \in Procs, ReceiveState(p)
  PROVE  SInv'
<1>. DEFINE r == answer[p].data  q == [proc[p] EXCEPT !.device = r]
<1>1. "state" \in Kinds /\ Accepted(p, "state")
  BY DEF Kinds, ReceiveState
<1>2. /\ proc[p] \in ProcType(p) /\ InPlace(proc[p]) /\ proc[p].at > 0
      /\ answer[p] # NoAnswer /\ Kind(proc[p]) = "state" /\ r = plc.device
  BY <1>1, AcceptedFacts DEF Meant
<1>3. CallOf(proc[p]).call \notin OfVariable /\ r \in Devices \union {0}
  BY <1>2, ValueRequests DEF IInv, Shape
<1>4. /\ q \in ProcType(p)
      /\ q.command = proc[p].command /\ q.i = proc[p].i /\ q.at = proc[p].at
      /\ q.waiting = proc[p].waiting
  BY <1>2, <1>3 DEF ProcType
<1>5. plc' = plc /\ wire' = wire
  BY DEF ReceiveState, plcVars
<1>6. EndCall(p, TRUE, q) \/ GoOn(p, q)
  BY DEF ReceiveState
<1>. HIDE DEF q
<1>7. CallOf(q) = CallOf(proc[p]) /\ InPlace(q) /\ TRUE \in BOOLEAN
  BY <1>2, <1>4, SamePlace DEF InPlace
<1>8. CallOf(q).call \notin Gated
  BY <1>3, <1>7 DEF OfVariable, Gated
<1>9. CASE EndCall(p, TRUE, q)
  BY <1>2, <1>4, <1>5, <1>7, <1>9, EndedProc, KeepsSInv
<1>10. CASE GoOn(p, q)
  BY <1>2, <1>4, <1>5, <1>8, <1>10, GoesOnSized
<1> QED BY <1>6, <1>9, <1>10

LEMMA ReceiveTypeSized ==
  ASSUME IInv, SInv, NEW p \in Procs, ReceiveType(p)
  PROVE  SInv'
<1>. DEFINE r == answer[p].data  q == [proc[p] EXCEPT !.type = r]
<1>1. "type" \in Kinds /\ Accepted(p, "type")
  BY DEF Kinds, ReceiveType
<1>2. /\ proc[p] \in ProcType(p) /\ InPlace(proc[p]) /\ Running(p) /\ proc[p].waiting
      /\ proc[p].at > 0 /\ answer[p] # NoAnswer /\ answer[p].code = 0
      /\ Kind(proc[p]) = "type" /\ r \in 0 .. Len(Programs)
  BY <1>1, AcceptedFacts DEF Meant, Accepted, Answers, Accepts, StripAdsHeader, StripAdsError
<1>3. /\ q \in ProcType(p)
      /\ q.command = proc[p].command /\ q.i = proc[p].i /\ q.at = proc[p].at
      /\ q.waiting = proc[p].waiting /\ q.since = proc[p].since /\ q.type = r
  BY <1>2 DEF ProcType
<1>4. plc' = plc /\ wire' = wire
  BY DEF ReceiveType, plcVars
<1>5. EndCall(p, TRUE, q) \/ Fails(p) \/ GoOn(p, q)
  BY DEF ReceiveType
<1>. HIDE DEF q
<1>6. InPlace(q) /\ TRUE \in BOOLEAN
  BY <1>2, <1>3, SamePlace DEF InPlace
<1>7. CASE EndCall(p, TRUE, q)
  BY <1>2, <1>3, <1>4, <1>6, <1>7, EndedProc, KeepsSInv
<1>8. CASE Fails(p)
  BY <1>2, <1>4, <1>8, FailedProc, KeepsSInv
<1>9. CASE GoOn(p, q)
  <2>1. q.since <= q.type /\ q.type <= plc.program
    BY <1>2, <1>3 DEF SInv, Sized
  <2> QED BY <1>2, <1>3, <1>4, <1>9, <2>1, GoesOnSized
<1> QED BY <1>5, <1>7, <1>8, <1>9

LEMMA ReceiveValueSized ==
  ASSUME IInv, SInv, RInv, NEW p \in Procs, ReceiveValue(p)
  PROVE  SInv'
<1>. DEFINE r == answer[p].data  q == [proc[p] EXCEPT !.result = r]
<1>1. "read" \in Kinds /\ Accepted(p, "read")
  BY DEF Kinds, ReceiveValue
<1>2. /\ proc[p] \in ProcType(p) /\ InPlace(proc[p]) /\ Running(p)
      /\ answer[p] # NoAnswer /\ r \in Int
  BY <1>1, AcceptedFacts DEF ResponseType
<1>3. q \in ProcType(p) /\ InPlace(q) /\ TRUE \in BOOLEAN
  BY <1>2, RunningFacts, ResultFacts
<1>4. plc' = plc /\ wire' = wire
  BY DEF ReceiveValue, plcVars
<1>5. UNCHANGED <<proc, outcome, answer>> \/ EndCall(p, TRUE, q)
  BY DEF ReceiveValue
<1>. HIDE DEF q
<1>6. CASE UNCHANGED <<proc, outcome, answer>>
  BY <1>4, <1>6 DEF SInv
<1>7. CASE EndCall(p, TRUE, q)
  BY <1>2, <1>3, <1>4, <1>7, EndedProc, KeepsSInv
<1> QED BY <1>5, <1>6, <1>7

LEMMA SendSized ==
  ASSUME IInv, SInv, NEW p \in Procs, Send(p)
  PROVE  SInv'
<1>. DEFINE q == proc[p]  s == [proc[p] EXCEPT !.waiting = TRUE]  r == Request(p)
<1>1. /\ q \in ProcType(p) /\ answer[p] = NoAnswer /\ ~q.waiting
      /\ r \in Requests /\ r.of = p /\ r.kind = Kind(q)
  BY RunningFacts, RequestFacts DEF Send
<1>2. /\ proc' = [proc EXCEPT ![p] = s] /\ wire' = Append(wire, r)
      /\ plc' = plc /\ answer' = answer /\ outcome' = outcome
  BY DEF Send, plcVars
<1>3. r.kind = "read" => r.size = SizeOf(q)
  <2>1. ASSUME r.kind = "read" PROVE r.size = SizeOf(q)
    <3>1. r = [of |-> p, kind |-> "read", cell |-> CellOf(q), size |-> SizeOf(q)]
      BY <1>1, <2>1 DEF Request
    <3> QED BY <3>1
  <2> QED BY <2>1
<1>4. /\ s \in ProcType(p) /\ s.command = q.command /\ s.i = q.i /\ s.at = q.at
      /\ s.since = q.since /\ s.symbol = q.symbol /\ s.type = q.type
  BY <1>1 DEF ProcType
<1>5. Alone(p) /\ proc'[p] = s /\ answer'[p] = NoAnswer
  BY <1>1, <1>2 DEF IInv, Shape, Alone
<1>. HIDE DEF s
<1>6. CallOf(s) = CallOf(q)
  BY <1>1, <1>4, SamePlace
<1>7. SizeOf(s) = SizeOf(q)
  BY <1>4, <1>6 DEF SizeOf, SymbolOf
<1>8. Asked(r, s)
  BY <1>3, <1>7 DEF Asked
<1>. HIDE DEF r
<1>9. Sized(s, NoAnswer, plc.program)
  BY <1>4, <1>6 DEF SInv, Sized
<1>10. /\ wire \in Seq(Requests) /\ Len(wire) \in Nat
       /\ DOMAIN wire = 1 .. Len(wire) /\ DOMAIN wire' = 1 .. Len(wire) + 1
       /\ wire'[Len(wire) + 1] = r /\ \A k \in DOMAIN wire : wire'[k] = wire[k]
  <2>1. wire \in Seq(Requests)
    BY DEF IInv, WireFacts
  <2> QED BY <1>1, <1>2, <2>1
<1>11. \A k \in DOMAIN wire' : k \in DOMAIN wire \/ k = Len(wire) + 1
  BY <1>10
<1>12. \A k \in DOMAIN wire : wire[k].of # p
  BY <1>1 DEF IInv, WireFacts, Awaited
<1>13. \A k \in DOMAIN wire' : wire'[k].of \in Procs => Asked(wire'[k], proc'[wire'[k].of])
  BY <1>1, <1>5, <1>8, <1>10, <1>11, <1>12 DEF SInv, Alone
<1>14. \A x \in Procs : Sized(proc'[x], answer'[x], plc'.program)
  BY <1>2, <1>5, <1>9 DEF SInv, Alone
<1> QED BY <1>13, <1>14 DEF SInv

LEMMA TimesOutSized ==
  ASSUME IInv, SInv, NEW p \in Procs, TimesOut(p)
  PROVE  SInv'
<1>1. /\ Running(p) /\ Fails(p) /\ plc' = plc
      /\ wire' = [k \in DOMAIN wire |-> IF wire[k].of = p THEN [wire[k] EXCEPT !.of = Nobody]
                                       ELSE wire[k]]
  BY DEF TimesOut, plcVars
<1>2. Alone(p) /\ Sized(proc'[p], answer'[p], plc.program)
  BY <1>1, FailedProc
<1>3. wire \in Seq(Requests) /\ DOMAIN wire' = DOMAIN wire
  BY <1>1 DEF IInv, WireFacts
<1>4. ASSUME NEW k \in DOMAIN wire, wire'[k].of \in Procs
      PROVE  wire[k].of # p /\ wire'[k] = wire[k]
  <2>1. wire[k].of # p
    <3>1. SUFFICES ASSUME wire[k].of = p PROVE FALSE
      OBVIOUS
    <3>2. wire[k] \in Requests /\ wire'[k] = [wire[k] EXCEPT !.of = Nobody]
      BY <1>1, <1>3, <3>1
    <3>3. wire'[k].of = Nobody
      BY <3>2, Relabelled
    <3> QED BY <1>4, <3>3, SystemAssumption
  <2> QED BY <1>1, <2>1
<1>5. \A k \in DOMAIN wire' : wire'[k].of \in Procs => Asked(wire'[k], proc'[wire'[k].of])
  BY <1>2, <1>3, <1>4 DEF SInv, Alone
<1>6. \A x \in Procs : Sized(proc'[x], answer'[x], plc'.program)
  BY <1>1, <1>2 DEF SInv, Alone
<1> QED BY <1>5, <1>6 DEF SInv

\* The PLC handles a request.
LEMMA HandledSized ==
  ASSUME IInv, SInv, wire # <<>>, wire' = Tail(wire), proc' = proc, plc'.program = plc.program,
         NEW a, ToSender(Head(wire), a),
         Head(wire).of \in Procs => Sized(proc[Head(wire).of], a, plc.program)
  PROVE  SInv'
<1>. DEFINE r == Head(wire)
<1>1. /\ wire \in Seq(Requests) /\ Len(wire) \in Nat /\ Len(wire) >= 1
      /\ DOMAIN wire = 1 .. Len(wire)
  BY DEF IInv, WireFacts
<1>2. /\ DOMAIN wire' = 1 .. Len(wire) - 1
      /\ \A k \in DOMAIN wire' : k + 1 \in DOMAIN wire /\ wire'[k] = wire[k + 1]
  BY <1>1
<1>3. \A p \in Procs : IF p = r.of THEN answer'[p] = a ELSE answer'[p] = answer[p]
  BY SystemAssumption DEF ToSender, IInv, Shape
<1>4. \A k \in DOMAIN wire' : wire'[k].of \in Procs => Asked(wire'[k], proc'[wire'[k].of])
  BY <1>2 DEF SInv
<1>5. \A p \in Procs : Sized(proc'[p], answer'[p], plc'.program)
  BY <1>3 DEF SInv
<1> QED BY <1>4, <1>5 DEF SInv

LEMMA StatedSize ==
  ASSUME NEW r \in Requests, NEW cut \in BOOLEAN, r.kind = "read"
  PROVE  (IF cut THEN Cut(Response(r)) ELSE Response(r)).stated = r.size
<1>. DEFINE b == Response(r)
<1>1. b = [size |-> 8 + r.size, code |-> 0, stated |-> r.size, data |-> memory[r.cell]]
  BY DEF Response, WithLength
<1>2. b.stated = r.size /\ Cut(b).stated = r.size
  BY <1>1 DEF Cut
<1>. HIDE DEF b
<1>3. (IF cut THEN Cut(b) ELSE b) \in {b, Cut(b)}
  OBVIOUS
<1> QED BY <1>2, <1>3 DEF b

LEMMA PlcSized ==
  ASSUME IInv, RInv, SInv, PlcRefuses \/ \E cut \in BOOLEAN : PlcServes(cut)
  PROVE  SInv'
<1>. DEFINE r == Head(wire)  p == Head(wire).of
<1>1. CASE PlcRefuses
  <2>1. /\ wire # <<>> /\ wire' = Tail(wire) /\ ToSender(r, Refusal)
        /\ plc' = plc /\ proc' = proc
    BY <1>1 DEF PlcRefuses, plcVars
  <2>2. p \in Procs => Sized(proc[p], Refusal, plc.program)
    BY DEF SInv, Sized, Refusal
  <2> QED BY <2>1, <2>2, HandledSized
<1>2. ASSUME NEW cut \in BOOLEAN, PlcServes(cut) PROVE SInv'
  <2>. DEFINE a == IF cut THEN Cut(Response(r)) ELSE Response(r)
  <2>1. /\ wire # <<>> /\ wire' = Tail(wire) /\ ToSender(r, a) /\ proc' = proc
    BY <1>2 DEF PlcServes
  <2>2. plc'.program = plc.program
    <3>1. \/ plc' = plc
          \/ \E x \in SystemStates : plc' = [plc EXCEPT !.state = x, !.device = r.device]
      BY <1>2 DEF PlcServes, SystemStates
    <3> QED BY <3>1 DEF IInv, Shape
  <2>3. /\ r \in Requests
        /\ p \in Procs => Kind(proc[p]) = r.kind
    BY <2>1, HeadFacts
  <2>4. p \in Procs => Asked(r, proc[p])
    <3>1. wire \in Seq(Requests) /\ r = wire[1] /\ 1 \in DOMAIN wire
      BY <2>1 DEF IInv, WireFacts
    <3> QED BY <3>1 DEF SInv
  <2>5. ASSUME p \in Procs PROVE Sized(proc[p], a, plc.program)
    <3>1. r.kind = "type" => a.data = plc.program
      BY <2>3, ResponseFacts
    <3>2. r.kind = "read" => a.stated = r.size
      BY <2>3, StatedSize
    <3>3. plc.program \in Nat /\ proc[p].since <= plc.program
      BY <2>5, ProgramsAssumption DEF IInv, Shape, RInv, Dated
    <3>. HIDE DEF a, r
    <3> QED BY <2>3, <2>4, <2>5, <3>1, <3>2, <3>3 DEF SInv, Sized, Asked
  <2>. HIDE DEF a
  <2> QED BY <2>1, <2>2, <2>5, HandledSized
<1> QED BY <1>1, <1>2

LEMMA OtherStepsSized ==
  ASSUME IInv, SInv, Download \/ Poll \/ ConnectionLost \/ UNCHANGED vars
  PROVE  SInv'
<1>1. /\ proc' = proc /\ answer' = answer
      /\ wire' = wire \/ wire' = <<>>
      /\ plc'.program = plc.program \/ plc'.program = plc.program + 1
  BY DEF Download, Poll, ConnectionLost, vars, plcVars, IInv, Shape
<1>2. plc.program \in Nat /\ \A p \in Procs : proc[p].type \in Nat /\ answer[p].data \in Int
  BY ProgramsAssumption DEF IInv, Shape, ProcsFacts, ProcFacts, ProcType, ResponseType
<1>3. ASSUME NEW p \in Procs PROVE Sized(proc'[p], answer'[p], plc'.program)
  BY <1>1, <1>2 DEF SInv, Sized
<1>4. \A k \in DOMAIN wire' : wire'[k].of \in Procs => Asked(wire'[k], proc'[wire'[k].of])
  <2>1. CASE wire' = wire
    BY <1>1, <2>1 DEF SInv
  <2>2. CASE wire' = <<>>
    BY <2>2
  <2> QED BY <1>1, <2>1, <2>2
<1> QED BY <1>3, <1>4 DEF SInv

LEMMA SInvStep ==
  ASSUME IInv, RInv, SInv, [Next]_vars
  PROVE  SInv'
<1>1. ASSUME NEW p \in Procs, ProcStep(p) PROVE SInv'
  <2>1. CASE \/ CallRefused(p) \/ SendFails(p) \/ ReceiveError(p) \/ ReturnCurrentState(p)
             \/ ReceiveOther(p) \/ ReceiveWritten(p)
    BY <2>1, ReturnsSized
  <2>2. CASE CallBegins(p) BY <2>2, CallBeginsSized
  <2>3. CASE Send(p) BY <2>3, SendSized
  <2>4. CASE TimesOut(p) BY <2>4, TimesOutSized
  <2>5. CASE ReceiveSymbol(p) BY <2>5, ReceiveSymbolSized
  <2>6. CASE ReceiveType(p) BY <2>6, ReceiveTypeSized
  <2>7. CASE ReceiveValue(p) BY <2>7, ReceiveValueSized
  <2>8. CASE ReceiveState(p) BY <2>8, ReceiveStateSized
  <2> QED BY <1>1, <2>1, <2>2, <2>3, <2>4, <2>5, <2>6, <2>7, <2>8 DEF ProcStep
<1>2. CASE PlcRefuses \/ \E cut \in BOOLEAN : PlcServes(cut)
  BY <1>2, PlcSized
<1>3. CASE Download \/ Poll \/ ConnectionLost \/ UNCHANGED vars
  BY <1>3, OtherStepsSized
<1> QED BY <1>1, <1>2, <1>3 DEF Next

\* Nothing that a crash is explained by goes away.
LEMMA StaysCrashed ==
  ASSUME IInv, RInv, crashed, CrashIsExplained, [Next]_vars
  PROVE  CrashIsExplained'
<1>1. ASSUME NEW p \in Procs PROVE ~ProcStep(p)
  BY DEF ProcStep, CallRefused, CallBegins, ReturnCurrentState, Send, SendFails, TimesOut,
         ReceiveError, ReceiveSymbol, ReceiveType, ReceiveValue, ReceiveWritten, ReceiveState,
         ReceiveOther, Accepted, Answers, Running
<1>2. \/ \E cut \in BOOLEAN : PlcServes(cut)
      \/ PlcRefuses \/ Download \/ Poll \/ ConnectionLost \/ UNCHANGED vars
  BY <1>1 DEF Next
<1>3. proc' = proc
  BY <1>2 DEF PlcServes, PlcRefuses, Download, Poll, ConnectionLost, vars
<1>4. plc'.program = plc.program \/ plc'.program = plc.program + 1
  <2>1. \/ plc' = plc \/ plc' = [plc EXCEPT !.program = @ + 1]
        \/ \E x, y : plc' = [plc EXCEPT !.state = x, !.device = y]
    BY <1>2 DEF PlcServes, PlcRefuses, Download, Poll, ConnectionLost, vars, plcVars
  <2> QED BY <2>1 DEF IInv, Shape
<1>5. PICK p \in Procs : proc[p].since # plc.program \/ CallOf(proc[p]).value.go = "slice"
  BY DEF CrashIsExplained
<1>6. CASE CallOf(proc[p]).value.go = "slice"
  BY <1>3, <1>6 DEF CrashIsExplained, CallOf, CommandOf
<1>7. CASE proc[p].since # plc.program
  <2>1. proc[p].since <= plc.program /\ proc[p].since \in Nat /\ plc.program \in Nat
    BY ProgramsAssumption DEF RInv, Dated, IInv, Shape, ProcsFacts, ProcFacts, ProcType
  <2>2. proc'[p].since # plc'.program
    BY <1>3, <1>4, <1>7, <2>1
  <2> QED BY <2>2 DEF CrashIsExplained
<1> QED BY <1>5, <1>6, <1>7

\* A symbol and a type of one program agree on the size.
LEMMA SizesAgree ==
  ASSUME NEW q, Known(q), q.type = q.symbol
  PROVE  /\ CallOf(q).path # RawPath
         /\ TypeOf(q).size \in Int /\ TypeOf(q).size <= SymbolOf(q).size
<1>. DEFINE program == Programs[q.symbol]
<1>1. /\ SymbolOf(q) = program.symbols[CallOf(q).path]
      /\ TypeOf(q) = program.types[program.symbols[CallOf(q).path].type]
  BY DEF SymbolOf, TypeOf
<1>2. q.symbol \in DOMAIN Programs /\ CallOf(q).path \in DOMAIN program.symbols
  BY DEF Known
<1>3. SymbolOf(q).size \in Nat
  BY KnownSymbol
<1>4. CallOf(q).path # RawPath
  BY <1>2, SizesAssumption
<1>5. TypeOf(q).size \in 0 .. SymbolOf(q).size
  BY <1>1, <1>2, SizesAssumption
<1> QED BY <1>3, <1>4, <1>5

\* The value is too short for the type only if they are of different programs.
LEMMA ValueCrash ==
  ASSUME IInv, RInv, SInv, NEW p \in Procs, ReceiveValue(p), ~crashed, crashed'
  PROVE  CrashIsExplained'
<1>. DEFINE q == [proc[p] EXCEPT !.result = answer[p].data]
<1>1. "read" \in Kinds /\ Accepted(p, "read")
  BY DEF Kinds, ReceiveValue
<1>2. /\ proc[p] \in ProcType(p) /\ InPlace(proc[p]) /\ LookedUp(proc[p], plc.device)
      /\ proc[p].at > 0 /\ proc[p].waiting /\ Kind(proc[p]) = "read"
      /\ answer[p] # NoAnswer /\ answer[p] \in ResponseType
      /\ KindsOf(CallOf(proc[p]).call, proc[p].at)
      /\ Kind(proc[p]) = RequestsOf[CallOf(proc[p]).call][proc[p].at]
  BY <1>1, AcceptedFacts DEF Accepted, Answers
<1>3. answer[p].code = 0 /\ answer[p].size - 8 = answer[p].stated
  BY <1>1 DEF Accepted, Accepts, StripAdsHeader, StripAdsError
<1>4. /\ CallOf(q).call = "ReadValue" /\ TypeOf(q).size > answer[p].size - 8
      /\ proc' = proc /\ plc' = plc
  BY DEF ReceiveValue, plcVars
<1>5. /\ q \in ProcType(p) /\ q.command = proc[p].command /\ q.i = proc[p].i
      /\ q.symbol = proc[p].symbol /\ q.type = proc[p].type
  BY <1>2 DEF ProcType, ResponseType
<1>. HIDE DEF q
<1>6. CallOf(q) = CallOf(proc[p])
  BY <1>2, <1>5, SamePlace
<1>7. TypeOf(q) = TypeOf(proc[p]) /\ CallOf(proc[p]).call \in Gated
  BY <1>4, <1>5, <1>6 DEF TypeOf, SymbolOf, Gated
<1>8. proc[p].at = 3
  BY <1>2, <1>4, <1>6 DEF KindsOf
<1>9. Known(proc[p])
  BY <1>2, <1>7, <1>8 DEF LookedUp
<1>10. SUFFICES ASSUME proc[p].since = plc.program PROVE FALSE
  BY <1>4 DEF CrashIsExplained
<1>11. /\ proc[p].since <= proc[p].symbol /\ proc[p].symbol <= plc.program
       /\ proc[p].since <= proc[p].type /\ proc[p].type <= plc.program
  BY <1>7, <1>8 DEF RInv, Dated, SInv, Sized
<1>12. proc[p].type = proc[p].symbol
  <2>1. /\ plc.program \in Nat /\ proc[p].type \in Nat /\ proc[p].symbol \in Nat
    BY <1>2, ProgramsAssumption DEF ProcType, IInv, Shape
  <2> QED BY <1>10, <1>11, <2>1
<1>13. answer[p].stated = SymbolOf(proc[p]).size
  <2>1. answer[p].stated = SizeOf(proc[p])
    BY <1>2, <1>3 DEF SInv, Sized
  <2> QED BY <1>9, <1>12, <2>1, SizesAgree DEF SizeOf
<1>14. TypeOf(proc[p]).size \in Int /\ TypeOf(proc[p]).size <= SymbolOf(proc[p]).size
  BY <1>9, <1>12, SizesAgree
<1>15. SymbolOf(proc[p]).size \in Nat
  BY <1>9, KnownSymbol
<1> QED BY <1>3, <1>4, <1>7, <1>13, <1>14, <1>15

\* Otherwise it was a slice.
LEMMA TypeCrash ==
  ASSUME IInv, NEW p \in Procs, ReceiveType(p), ~crashed, crashed'
  PROVE  CrashIsExplained'
<1>. DEFINE r == answer[p].data  q == [proc[p] EXCEPT !.type = r]
            s == [q EXCEPT !.at = @ + 1, !.waiting = FALSE]
<1>1. "type" \in Kinds /\ Accepted(p, "type")
  BY DEF Kinds, ReceiveType
<1>2. /\ proc[p] \in ProcType(p) /\ Kind(proc[p]) = "type" /\ r \in 0 .. Len(Programs)
  BY <1>1, AcceptedFacts DEF Meant
<1>3. /\ q \in ProcType(p) /\ q.command = proc[p].command /\ q.i = proc[p].i
  BY <1>2 DEF ProcType
<1>4. TooShort(CallOf(q).value, TypeOf(q)) /\ GoOn(p, q)
  BY DEF ReceiveType
<1>5. proc'[p] = s
  BY <1>4 DEF GoOn, IInv, Shape
<1>6. s \in ProcType(p) /\ s.command = q.command /\ s.i = q.i
  <2>1. q.at + 1 \in Nat
    BY <1>3 DEF ProcType
  <2>. HIDE DEF q
  <2> QED BY <1>3, <2>1 DEF ProcType
<1>. HIDE DEF q, s
<1>7. CallOf(s) = CallOf(q)
  BY <1>3, <1>6, SamePlace
<1>8. CallOf(proc'[p]).value.go = "slice"
  BY <1>4, <1>5, <1>7 DEF TooShort
<1>9. CallOf(proc'[p]) = CallOf(proc[p])'
  BY DEF CallOf, CommandOf
<1> QED BY <1>8, <1>9 DEF CrashIsExplained

LEMMA CrashStep ==
  ASSUME CrashInv, [Next]_vars
  PROVE  CrashInv'
<1>1. IInv' /\ RInv' /\ SInv'
  BY StepHolds, NextRefines, SInvStep DEF CrashInv
<1>2. CASE crashed
  BY <1>1, <1>2, StaysCrashed DEF CrashInv
<1>3. CASE ~crashed /\ crashed'
  <2>1. PICK p \in Procs : ReceiveType(p) \/ ReceiveValue(p)
    <3>1. ASSUME NEW p \in Procs, ProcStep(p) PROVE ReceiveType(p) \/ ReceiveValue(p)
      BY <1>3, <3>1
         DEF ProcStep, CallRefused, CallBegins, ReturnCurrentState, Send, SendFails, TimesOut,
             ReceiveError, ReceiveSymbol, ReceiveWritten, ReceiveState, ReceiveOther
    <3>2. ~(PlcRefuses \/ Download \/ Poll \/ ConnectionLost \/ UNCHANGED vars)
      BY <1>3 DEF PlcRefuses, Download, Poll, ConnectionLost, vars
    <3>3. ~\E cut \in BOOLEAN : PlcServes(cut)
      BY <1>3 DEF PlcServes
    <3> QED BY <3>1, <3>2, <3>3 DEF Next
  <2> QED BY <1>1, <1>3, <2>1, TypeCrash, ValueCrash DEF CrashInv
<1>4. CASE ~crashed'
  BY <1>1, <1>4 DEF CrashInv, CrashIsExplained
<1> QED BY <1>1, <1>2, <1>3, <1>4 DEF CrashInv

LEMMA CrashInit ==
  ASSUME Init
  PROVE  CrashInv
<1>1. IInv /\ RInv
  BY InitHolds, InitRefines
<1>2. \A p \in Procs : proc[p].at = 0 /\ ~proc[p].waiting
  BY DEF Init, NewProc
<1>3. DOMAIN wire = {} /\ ~crashed
  BY DEF Init
<1>4. SInv
  BY <1>2, <1>3 DEF SInv, Sized
<1> QED BY <1>1, <1>3, <1>4 DEF CrashInv, CrashIsExplained

\* No call panics (value.go, ads-serializer) unless the PLC's program was replaced
\* since the call began, or the value it writes is a slice: the symbol, the type
\* and the bytes a read works with are answers to three requests, and agree if one
\* program gave them all.
THEOREM CrashesAreExplained == SafeSpec => []CrashIsExplained
<1>1. Init => CrashInv
  BY CrashInit
<1>2. CrashInv /\ [Next]_vars => CrashInv'
  BY CrashStep
<1>3. CrashInv => CrashIsExplained
  BY DEF CrashInv
<1> QED BY <1>1, <1>2, <1>3, PTL DEF SafeSpec
=============================================================================
