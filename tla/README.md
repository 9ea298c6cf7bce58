# A formal model of the ads-go client

ads-go is a Go client for Beckhoff's ADS protocol: it dials an AMS router, sends
ADS commands to a TwinCAT system and receives answers and notifications over one
TCP connection. A command line program, `cmd/`, is built on it. This directory
holds TLA+ modules of the client and of that program, the TLC runs that check small
instances of them, and TLAPS proofs for every value of their constants.

Paths are relative to the repository; `client_*.go` is in `pkg/ads/`.

## 1. Inventory

| Component | State | Operations | Hard behaviour | Correct when |
|---|---|---|---|---|
| Request/response core (`client_send.go`, `client_send_utils.go`, `client_buffer.go`) | `invokeID`, `requests` (both under `mutex`), one unbuffered channel per call | `send`, `getInvokeID`, `removeInvokeId`, response routing in `processReceiveBuffer` | concurrent calls, late, lost or reordered answers, timeouts, reuse of IDs, a rendezvous outside the lock | every call returns its own answer or a failure; the map holds the live calls and nothing else |
| State poller (`client_state.go`) | `currentState`, `statePollerID`, `statePollerTimer`, `extendedStateSupported`, `lastRestartIndex` (each group with its own lock), `consecutiveReadFailures` (no lock) | `startStatePoller`, `stopStatePoller`, `checkState`, `scheduleNextStateCheck`, `RestartStatePoller` | checks of stopped pollers still run; three locks and a counter without one; reads that take a timeout each | one timer; no silent end; unreachability is reported, the cache follows the system |
| Subscriptions (`client_subscriptions.go`) | `subscriptions` under `subscriptionsMutex` | `addSubscription`, `Unsubscribe`, `UnsubscribeAll`, `handleNotification`, `processNotification` | samples race the storing and deleting of handles; one goroutine per sample; restarts | each sample reaches the callback it was taken for |
| Connections (`client_connect.go`, `client_buffer.go`) | `conn`, `receiveBuffer` (no lock), one receive goroutine per connection | `Connect`, `registerAdsPort`, `Disconnect`, `receive` | superseded goroutines, check then act on `conn` | the new connection survives the old one's goroutine; losses are reported |
| Program (`cmd/main.go`) | `reconnecting`, `gracefulDisconnect` | hooks, reconnect loop | hooks are goroutines; `TryLock` drops events | a lost connection is dialled again |
| Framing (`ams-header`, `ams-builder`, `client_buffer.go`) | the bytes in `receiveBuffer` | `BuildAmsHeader`, `CheckTCPPacketLength`, `ParsePacket` | TCP cuts the stream anywhere, 32-bit lengths, the registration's plain reads | packets come out whole, in order, as soon as they have arrived |
| Payload headers and errors (`ads-header`, `ads-errors`) | none | `StripAdsHeader`, `StripAdsError` | answers that are short or state a wrong length | exactly the well-formed payloads are accepted |
| Operations (`client_raw.go`, `client_read.go`, `client_write.go`, `client_control*.go`, `client_symbols.go`, `client_state.go`) | none of their own | each is a sequence of `send`s behind a check of `currentState` | the check, the symbol and the type are stale when they are used; partial failure; late writes | success means done; a failure is explained; the value calls are atomic while the program stays |
| Symbols and types (`ads-symbol`, `ads-datatype`, `client_data_types.go`) | none (no cache) | parsing of entries and tables, recursive type building | nested offsets, optional parts, cut buffers | what is parsed is what was encoded, and a cut buffer is an error |
| Serializer (`ads-serializer`, `ads-primitives`) | none | `Serialize`, `Deserialize` | ranges, sizes, padding, strings, structs in arrays in structs | a value reads back as written, next to it nothing changes |
| Command line (`cmd/cli`) | a registry of subscriptions and their statistics, each under a lock | one handler per command, a callback per subscription | callbacks race unsubscribe; calls of the client fail between two maps; several writes in one command | the registry agrees with the client and the device; what a handler reports happened |
| Request builders, state info | none | fixed layouts | | each request names what the call is about |
| Types, constants, logging | none | | | |

How they meet: application goroutines and command handlers call operations, which call `send`.
`send` shares `requests` with the receive goroutine. The receive goroutine hands
responses to calls and samples to callback goroutines, and starts
OnConnectionLost when its `Read` fails. The poller is a chain of timers whose
checks call `send` and start OnStateChange or OnConnectionLost.
The program's OnConnectionLost hook calls `Connect` in a loop, and its
subscription callbacks share the statistics with the readline loop.

## 2. Modules

| Module | Models | Run by | Proofs |
|---|---|---|---|
| `AdsRpc` | what `send` promises its callers, abstractly | (through `AdsCall`) | |
| `AdsCall` | the request/response core; implements `AdsRpc` | `call`, `call_head_of_line` | `AdsCallProofs` |
| `AdsStatePoller` (`MC`: the sets of AdsStates) | the poller against `Connect` and `Disconnect` | `poller_*` | `AdsStatePollerProofs` |
| `AdsSubscriptions` | subscriptions, the receive goroutine's routing, callbacks | `subs` | `AdsSubscriptionsProofs` |
| `AdsSession` | connections, receive goroutines, hooks, the reconnect loop | `session*` | `AdsSessionProofs` |
| `AdsFraming` (`MC`: a stream) | registration, the receive buffer, the AMS header | `framing` | `AdsFramingProofs` |
| `AdsSymbols`, `AdsTypes`, `AdsSerializer` | parsers, type building, serializer, as operators | (through `AdsValues`) | |
| `AdsAnswers` | what the client makes of symbols, notifications and the uploaded table | (through `AdsValues`) | `AdsAnswersProofs` |
| `AdsValues` (`MC`: declarations, symbols, inputs) | reading, changing, writing values, declarations; extends `AdsAnswers` | `values*` | |
| `AdsVariables` | what the value calls promise, abstractly | (through `AdsOperations`) | |
| `AdsCommands` | every command handler as its calls | (through `AdsOperations`) | |
| `AdsOperations` (`MC`: two PLC programs) | every operation as its requests; implements `AdsVariables` | `operations` | `AdsOperationsProofs` |
| `AdsCliSubscriptions` | the subscription commands and their callbacks | `cli_subs` | `AdsCliSubscriptionsProofs` |

The modules build on one another by what each has shown. `AdsSubscriptions`,
`AdsOperations` and `AdsStatePoller` take from `AdsCall` that a response reaches the call
that waits for it or nobody; `AdsCall` takes from `AdsFraming` that
packets come whole; `AdsOperations` takes from `AdsValues` what a value looks like in a
variable, and adds when it is read; `AdsCliSubscriptions` takes from `AdsSubscriptions` that
samples go to the callback that the map names.

Each module has one action per step between two points at which another
goroutine can be seen: a lock region, a channel operation, a network operation or
an access to an unlocked shared field. Definitions whose name has an underscore,
`SendFails_KeepsEntry` for instance, are faulty forms of the definition before
the underscore. No specification uses them: put in its place, each makes the run
that PROJECT.json names for it fail, which shows that the property sees the code.

### AdsCall

A call is one invocation of `send`; the channel is the call. `GetInvokeID` and
`RemoveInvokeId` are the two regions of `c.mutex` on the sending side, `Lookup`
and `Discard` the one on the receiving side. `Deliver` is the rendezvous on the
unbuffered channel, so a receiver in "delivering" waits until the call it looked
up is in its `select`. `TimesOut` is the `select`'s other case, which may win
although a response is being offered. A `Write` may succeed on a link that is
already down. The device (external) answers at most once, in any order or never;
`link` "none" is a client that never connected.

`GetInvokeID` has one guard that is not code: `~IdInUse`. The counter wraps (at
2^32 in the code, at `IdSpace` here) and the code would overwrite a live entry. It
is assumed that no call or packet lives for 2^32 others. With `IdSpace` 2 and three calls
the counter wraps in the run and IDs are really reused.

`AdsRpc` has calls that are idle, open or closed, the device's reply and the
result. The refinement mapping opens a call at `GetInvokeID` and closes it at
`RemoveInvokeId`; everything else is a stutter or the device's answer.

### AdsStatePoller

A poller is a `statePollerID`. Its timer is in `armed`, or its `checkState` runs with
the locals in `check[n]`, or it is over. `time.Timer.Stop` removes an armed timer
and does nothing to one that has fired. A check takes its locals in two lock regions,
`SnapshotState` and `SnapshotSupport`, reads over the network, and
reads or writes each shared field in a step of its own. `consecutiveReadFailures` has no lock, so its
life in a failing check is four steps: a read and a write for `++` (`ReadFailures`, `WriteFailures`), the
comparison of the field as it is by then (`LimitReached`, `TolerateFailure`) and the reset (`ResetFailures`). Checks
of other generations, a succeeding check (`SucceedingReadResets`) and Disconnect
(`DisconnectClearsFailures`) come in between, and the field may reach the limit and
exceed it: its type is `Nat`. Only `ReportUnreachable` and `ReportRestart` join two things, the lock region
of `invokeConnectionLostHook`, which forgets the state, and the start of the hook's goroutine behind it, as
the client reads neither again in between. A check that has reached a step after which
no local is read forgets them (`Leave`), and `RecordIndex` forgets restart indexes that are not going to be looked at. Connect may follow without a Disconnect, as it does when a hook
reconnects; a Connect whose hook fails disconnects. The interval is positive
(`LoadDefaults` sees to it). `ReceiveLosesConnection` is the effect on
`currentState` of the receive goroutine's hook. Hooks count as called when their
goroutine is started.

### AdsSubscriptions

An element of `Subs` is one Subscribe call and the subscription it makes, a number
in `Unsubs` one Unsubscribe call. What AdsCall shows about `send` is used here:
a response reaches the call that waits for it or nobody. What AdsCall shows
against the receive goroutine is used too: after a response has been looked up its
call may time out, and the send on the channel then blocks the goroutine for good
(`ReceiverBlocks`, `blocked`). As the call may be any of the client's, a ReadValue
or a Subscribe, this may happen at any time. If the call does not end there, nothing the goroutine does lies between
lookup and delivery, so `TakeAdded` and `TakeDeleted` are one step each. A new connection has a receive goroutine
of its own; whether the old one was blocked does not matter to it (`Restart`). A notification packet with several samples
is as many packets, since `handleNotification` locks once per sample. Samples have
the size that was subscribed, so conversion succeeds; a callback's panic is
recovered and changes nothing. The device (external) gives out handles. With
`HandlesAnew` it numbers them from the start again after a restart.

### AdsSession

Connections are numbered as they are dialled. A receive goroutine captures
`c.conn` when it first runs, which may be late. Reading, comparing and writing are
three steps, as nothing protects them. Bytes in `buffer` are known by the connection
they came from. The application connects and disconnects once, as `cmd/main.go`
does, and the loop connects beside it. When `main` has returned the loop dials no
more. The end of the poller's life is one step here; `AdsStatePoller` has the rest. A hook is told the client and the
error and not the connection, so `losses` only counts the hooks that wait, by who started them.

### AdsFraming

Bytes are numbers and offsets count from 0, as in the code. `Stream` is all the
router sends, `Start` where its packets begin; both are constants, and the proofs hold
for all of them. `BuildPacket` and `BuildAmsTcpHeader` are `ams-builder`, and `MCStream` is built
with them, so the run compares what the parser says with what the builder was
told. `Register` is the first of `registerAdsPort`'s two plain `Read`s or the
second, each of which may bring fewer bytes than it asked for. If one does, the code goes on with what is left
at the wrong place; `begun` remembers where the receive goroutine started, and the properties
are about streams whose answer came in step. `Receive` is one
`Read` of at most `Chunk` bytes and the loop of `processReceiveBuffer` after
it. `CheckTCPPacketLength` adds 6 to the length modulo `Word`.

### AdsSymbols, AdsAnswers, AdsTypes, AdsSerializer, AdsValues

A buffer is a sequence of bytes in which a number of w bytes lies in the first of
them: widths, places and order are those of the code, digits are not spelt out. What the code keeps of a
symbol as one uint32, `Flags`, are two numbers here, the flags in its low half and the array dimension in its high
half, and `AnswersParsed` is about both. A reader
`[rest, ok, t]` is Go's `bytes.Reader` with the error so far and the struct being
filled; every early return is a guard on `ok`. Encoders of symbols, declarations and
notifications are external: they state the layout the PLC sends, and
`AnswersParsed` and `DeclarationsParsed` compare the parsers with them, the first for whole
buffers and for every cut. A length is one cell whatever its width, so what is said of any
text is said of texts whose length fits its field.

`AdsAnswers` is a client that asks for one symbol, of whose answer any number of bytes may arrive, or gets
one notification packet, or uploads the table of symbols while downloads replace it
before `UploadInfo` and between it and `UploadSymbols`. The loops of the parsers are recursive functions
there and in `AdsSymbols`, over the turns (`Times`) or over positions in the blob (`UploadFrom`).

A Go value is a record tagged with its Go type, `[go |-> "int16", n |-> 3]`. A byte takes
`ByteValues` values, so each width has its own range, and the run has the numbers
at and beyond the boundaries of each type. A PLC variable is written as `Serialize` does, errors and
panics included (`Bad`). `AdsValues` is one application that reads a
variable, changes one place in the value, writes it and reads again, beside the client of `AdsAnswers`.
`Elements` and `Leaves` say from the declarations alone where each part of a
variable lies; `ReadsTheLayout` and `WritesWhatWasGiven` compare the recursive code against that.

### AdsCommands, AdsVariables, AdsOperations

`RequestsOf` gives each call its requests: ReadValue is a symbol, a type and a
read, SetTcSystemToRun a state and a control, and so on. A goroutine `p` carries out a command, a list of calls;
`proc[p]` is the command, the call and the request it has come to, and what the call's local
variables hold. `CallBegins` and `CallRefused` are the check of `currentState`;
`Send`, `SendFails` and `TimesOut` are `send`; the `Receive*` actions are the code after
it, one per kind of answer. A response is a number of bytes, an error code, a stated length
and its data; `StripAdsError` and `StripAdsHeader` decide from these alone.
`PlcServes` carries out a request in the order of the wire and may cut the answer, `PlcRefuses`
answers with an error, `Download` replaces the program between any two requests.
A request given up by its sender stays on the wire under `Nobody` and is still carried
out. `AdsCommands` has all handlers of `cmd/cli`, with the types their arguments are
converted to; `AdsOperationsMC` declares the variables of the example PLC project
that they name. `currentState` is set by a one-step `Poll`, whose detail is in `AdsStatePoller`.

`AdsVariables` says what a caller may rely on: a value call that succeeds took effect in
one instant between its beginning and its end; one that failed may take
effect later; if a program was downloaded during the call it may have reached
another variable. The refinement mapping takes the instant from `PlcServes` of
the last request.

### AdsCliSubscriptions

One command runs at a time, `at` and `cur` are its place and the ID it is about. The
two maps have their own locks, so each lock region is an action, and `Callback` and
`Notify` come in between. The client and the device are what `AdsSubscriptions` says of them:
a call succeeds, fails before the device acted, or times out after. A restart empties the device's
table and may begin the handles anew (`anew`); the maps stay, as nothing in the code
clears them.

## 3. Runs

| Run | Bounds | Shows |
|---|---|---|
| `call` | 3 calls, 2 IDs, 1 notification on the wire | the types, `OwnAnswer`, `RegistryExact`, `NoAnswerLost`, `EveryCallReturns`, and refinement of `AdsRpc` with its liveness |
| `call_head_of_line` | 2 calls | **violated**: a response looked up just before a timeout blocks the receiver for ever |
| `poller_lifecycle` | 3 poller IDs, one AdsState, 2 restart indexes, a limit of 1 failure, extended reads served | `OneTimer`, `NoSilentStop`, `LimitIsActedOn` |
| `poller_live` | 2 poller IDs, 2 AdsStates, a limit of 2 failures, extended reads served or not | `UnreachableIsReported`, `StateIsFollowed` |
| `subs` | 2 subscriptions, 2 handles, 1 sample each, 2 Unsubscribes, 1 restart, no reuse | the right callback, an exact map, only early samples dropped, the others delivered unless the receive goroutine blocks |
| `session` | 2 connections | `LossIsNoticed`, `NewConnectionSurvives`, `LossIsRepaired` |
| `session_buffer` | 2 connections | **violated**: old bytes in the new buffer |
| `framing` | the registration's answer and 3 packets, reads of up to 48 bytes, Word 2^30 | for every cut of the stream: `OutIsSent`, `NothingHeldBack` |
| `values` | 8 values to a byte, 2 downloads | `ReadsTheLayout`, `WritesWhatWasGiven`, `RefusesWhatDoesNotFit`, `DeclarationsParsed`, `AnswersParsed` |
| `values_wstring` | texts of up to 4 characters, 8 values to a byte | **violated**: a WSTRING reads back as its first character |
| `operations` | every command, one other goroutine that writes, 2 programs, 2 requests on the wire | `OkMeansDone`, `WritesAreAPrefix`, `CrashIsExplained`, `DeviceStateKept`, `CommandsEnd`, refinement of `AdsVariables` |
| `cli_subs` | 3 IDs, 3 handles, 2 samples each, 1 restart, sub_all of 2 variables | `ListedIsRouted`, `AllCounted`, `NothingOrphaned`, no deadlock |

Why these bounds are enough.

- `call`: cross-talk needs an old owner of an ID, a
  new one, and at most one bystander; three calls over two IDs give that, and the proofs need no
  bound at all.
- `poller_lifecycle`: a stale check needs a poller that is
  stopped and one that follows; the third ID lets a stop lie between two starts. With a limit of 1 three checks may
  push the counter to 3. Extended reads are the longer path, and turn to basic reads when the first of them fails.
- `poller_live`: a second generation, made by a reconnect or a restart while checks of the first still run, shares the
  counter and the cache with it, and a limit of 2 leaves a failure to lose. The properties say nothing of the restart
  index, which has one value here.
- `subs`: a routing mistake takes two subscriptions; two Unsubscribes can be the
  application's and UnsubscribeAll's of the same one.
- `session`: a superseded
  connection and the one that replaces it; at the bound the loop stays in "dial",
  which is what `LossIsRepaired` asks for, so the loss of the second connection
  during its own Connect is checked too.
- `framing`: the packets have 41, 38 and 39 bytes, so a read of up to 48 ends within
  a header, at its end, within data, at a packet's end or in the next packet, and one read can hold the end
  of one packet and a whole one after it. TLC counts in 32 bits signed, hence
  `Word` 2^30; `AdsFramingProofs` has any `Word`.
- `values`: each width, sign and kind of composition occurs, two levels deep, and each
  range is tried one step inside and outside. The optional parts of a declaration occur
  in all 2^8 combinations.
- `operations`: the hazards are two-party, a command and one
  other writer of one of its variables, and one download falls between any two
  requests. Each command starts in a state of its own, so that commands need not
  follow one another. There is one device state, since nothing but a command changes it.
- `cli_subs`: a subscription that fails or times out, one that succeeds beside it, and one made
  after a restart with its handle.

Deadlock is checked in `cli_subs` alone, where the prompt can always be
given another `unsubscribe_all`. In the other models calls, subscriptions, pollers, connections, bytes and commands
are bounded, and a behaviour may end with all of them used up.

### Fairness

- A goroutine that can run does run, and a timer fires: weak fairness of the
  steps of `send`, of the receive goroutines, of the checks, hooks, callbacks and of
  each goroutine of `AdsOperations`.
- `time.After` in `send` makes every wait for an answer end: weak fairness of `TimesOut`, in `AdsOperations` a
  disjunct of `ProcStep`. In
  `AdsStatePoller` it is the reason why a read of an unreachable system ends. It does not cover `conn.Write`, which is
  before the select and has no deadline: the models take it to return, see section 6.
- The device owes nothing in `AdsCall`, `AdsStatePoller`, `AdsSubscriptions` and `AdsOperations`.
- In `AdsSubscriptions` the receive goroutine runs as long as it is not blocked, and callback goroutines run.
  `SamplesReachCallback` names the block as its exception. It is about samples after the last restart, since a
  restart loses what is under way; as the restart may come at once, what can happen before one can happen after it.
- In `AdsSession` the router accepts a dial and answers or refuses a registration
  in the end. The second is not guaranteed by the code: `registerAdsPort` reads
  without a deadline.
- In `AdsSession` the poller's next check comes after the loop has released its lock (an
  interval of seconds against a return), so both are one step in `FinishConnect`.
- `AdsSession` takes processing of the buffer to return. `call_head_of_line` shows
  that it may not, so `LossIsRepaired` rests on that flaw's absence for losses
  the receive goroutine reports, though not for those the poller reports.
- `AdsFraming` and `AdsCliSubscriptions` state no fairness: their properties are of safety.

## 4. Proofs

`AdsCallProofs` proves, for every set of calls and every number of IDs, that the
conjunction `IInv` is inductive. `OwnAnswer` alone is not: a response on the wire
names an ID, and the call that owns the ID when the response arrives might not be the one it was
meant for. What excludes this is `IdsOfLiveCallsDiffer`: whoever is still
able to cause a response (a pending request, a packet) or owns an entry is the only
one with its ID. `PacketsAreAnswers` ties each packet to its origin's ID, `HeldIsAnswer` carries the fact
over the unlocked moment between lookup and delivery, and `CallsInOrder` orders
the life of a call. From `IInv` follow `TypeCorrect`, `NoCrossTalk`,
`RegistryIsExact`, the action property `AnswersReachTheirCalls`, and
`SendImplementsRpc`: each step of `AdsCall` is a step of `AdsRpc` or a stutter.

`AdsStatePollerProofs` proves `AtMostOneTimer`, `PollingGoesOn` and `LimitsAreActedOn` for any number of
pollers, states and failures. The type invariant has no bound for the counter: lost increments and resets
between two steps of a check leave none but that it is never negative. What holds instead is that a counter
at its limit or beyond has a check behind its increment and before its reset. The invariant adds to `OneTimer` that no poller beyond
`statePollerID` has ever run and that an armed timer's poller has no check; from
the first follows that a new ID is fresh, from the second that a check
which re-arms finds no other timer.

`AdsSubscriptionsProofs` has three invariants. `MapInvariance` holds for every device: each entry
of the map is of a subscription that is not removed or that is still being stored, whichever
Unsubscribe deletes it; `NothingLeftBehind` follows. `OwnerInvariance` assumes that the device
never gives a handle twice (`~HandlesAnew`). Then every handle on the wire, in a
call's hand or in the map has one owner, and `RightCallback` and `ActiveIsMapped`
follow. Without the assumption both are false, see section 5. `EndInvariance`, which
again holds for every device, says how a subscription ends: it has at most one handle (`OneHandle`), and behind the
device's answer to its delete no sample of it is on the wire (`AnswerIsLast`). Unsubscribe deletes the
entry only after that answer, so a sample on the wire finds its entry still there. With unique
handles, `EarlySamplesOnlyAreDropped` follows: what is dropped came before its handle was stored, or belongs to a Subscribe that failed.

`AdsSessionProofs` proves `CloseIsHarmless` for any number of reconnects. `conn` is the connection dialled
last, goroutines exist for dialled connections only, and a goroutine that has
captured a connection holds its own or a later one, up to the current (`Captured`): so what it closes when its read
fails is not the current connection, or is that and is dead. `CloseIsHarmless` is about this step of a receive goroutine
only. `TypeCorrect` of this module is proved and not checked by a run. `LossesAreNoticed` is the safety half of `LossIsRepaired`: until the user
disconnects, the poller runs, or a loop that will start it, or its last report is still to be heard. `WatchInv`, which is
inductive, adds that no goroutine of a Disconnect stops the poller meanwhile (`NotLeaving`).

`AdsFramingProofs` proves `PacketsComeOutWhole` for every stream, chunk size and cut: the buffer
starts at the first frame that is not out (`Aligned`). `NothingIsHeldBack`
assumes that every frame has the 32 bytes of an AMS header and that lengths do not
wrap; a shorter one stops the stream, see section 5. `NothingBuiltIsHeldBack` replaces the first assumption by
what the code does: `BuiltIsParsed` shows that `ParsePacket` undoes `BuildPacket` for every packet whose fields
fit the header's 16 and 32 bits, whatever its data and its two addresses of 8 bytes, so a stream of packets that are built as `send`
builds them is never held back. The argument follows the bytes: `Holds(s, t, k)` says that t stands in s at offset k, it is
kept by concatenation, and a number put at k is read at k (`ShortSurvives`, `LongSurvives`).
`TypeCorrect` needs that a packet comes out only of a buffer as long as its length states (`PacketIsTyped`).

`AdsCliSubscriptionsProofs` ties the registry, the client's map and the device's table to the place
the command has come to: which handle is in a command's hand and in no map
yet, which ID is in one map and no longer in the other. From this one invariant follow `ListedAreRouted`
(while handles are not numbered anew), `CountsAreExact` and `NothingIsOrphaned`.

`AdsOperationsProofs` holds for any goroutines, commands, programs and device states that the
assumptions of `AdsOperations` allow: commands are not empty, a listing that goes on after an error writes
nothing, `GetDataType` follows a `GetSymbol` of the same path, raw calls use the raw path, and programs declare what they use. `OkMeansDone` and
`WritesAreAPrefix` relate what a handler reports, at its end, to what the PLC did many steps before. The
invariant carries this: the writes done are those before the current call (`WritesDone`), an
answer without an error that has come for a write means that it was done, one for a state
carries the system's device state (`Meant`), and each request on the wire with a living sender is
the only one of that sender and the one it waits for (`WireFacts`). `DeviceStateIsKept` follows from
the same: what a control request carries is what is there.

The module then proves that every step of `AdsOperations` is one step of `AdsVariables` or
none. Its invariant `RInv` adds that a symbol was looked up in a program between the one in which the
call began and the current one (`Dated`), so that without a download in between the call reaches its own
variable, and that a request goes to the cell and has the value of the call it belongs to (`Aimed`).
The effect is the PLC's handling of the last request; a timeout turns the request into a
late write, and every other step leaves the abstract call as it is.

It proves `CrashesAreExplained` too. `Deserialize` panics when an answer is shorter than the type. The answer's
length comes from the symbol, the type from a second request, so `SInv` dates the type as `Dated` dates
the symbol, and follows the symbol's size through the request to the answer (`Asked`, `Sized`). What remains is a fact about
the PLC's tables, which are external: a program declares the type of each symbol, and no symbol is smaller than
its type (`SizesAssumption`).

`AdsAnswersProofs` proves `AnswersAreParsed`: `AnswersParsed` for any symbols, tables, notifications and number of
downloads. What the state machine adds is short. `AnswersInv` says that the table is one of symbols and that, as long
as no download came since `UploadInfo`, the size it gave is that of the table (`InfoInv`); without the latter an upload
with no download in between might still be cut. The work is in what the parsers compute, three theorems of their own:

- `SymbolParsed`: `Behind` follows the header field by field, so each number is read where it was put. The texts
  are read if all of them are there. Behind them the array bounds, the GUID and the attributes are optional and are read
  one after the other from what the one before has left. Each has a lemma (`DimensionsRead`, `GuidRead`,
  `AttributesRead`) that says what is left and, if nothing was cut, what was read.
- `NotificationParsed`: one turn of the inner loop takes one sample off the rest (`SampleTurn`), so the loop takes all of a
  stamp (`SamplesRead`), which is one turn of the outer loop (`StampTurn`, `StampsRead`). It also says exactly when
  the packet fails: bytes.Reader gives an error at the end of the data even for no bytes.
- `TableParsed`: from the beginning of entry k, the loop over the blob gives the entries from k on up to the one that was cut. It is
  shown for the last entry first and then for each entry before (`UploadTurns`).

The loops have any number of turns, so this is induction over data. The induction theorems of the library take an
operator, which the provers cannot instantiate. `SetInduction` takes a set: one of numbers that has 0 and
n + 1 with each n is `Nat`. It follows from the library's fact that `<` is well-founded on `Nat`, so nothing is assumed. Each loop is a function
`f[k]`, and the set is that of the turns k after which `f[k]` is what it should be. Every step of `AdsValues` is a step of
`AnswersNext` or leaves `answerVars` as they are, so the theorem is about the property the run checks.

The proofs rest on the ASSUMEs of the modules and, where a theorem says so, on the named
assumption about the device. Only model-checked:

- all liveness (`EveryCallReturns`, the liveness half of `ImplementsRpc`,
  `UnreachableIsReported`, `StateIsFollowed`, `SamplesReachCallback`,
  `LossIsRepaired`, `CommandsEnd`), which needs ENABLED and is beyond the prover;
- `ReadsTheLayout`, `WritesWhatWasGiven`, `RefusesWhatDoesNotFit` and `DeclarationsParsed` of `AdsValues`: declarations, type building
  and the serializer call themselves, on nested data, and are RECURSIVE operators, which the prover does not support.

## 5. Where code and claims differ

PROJECT.json, under "findings", has for each violated run the line of the code and the
sentence it contradicts: the receiver can block on a call that timed out; a
superseded receive goroutine can write into the new connection's buffer; a WSTRING is
written as UTF-16 and read byte by byte.

The models also contain, or were limited because of, these behaviours. No run is about
them, as the property would only restate the line.

- A check that outlives its poller writes the state it read into the cache; if a reconnect lies in
  between, the change is never reported to OnStateChange (`client_state.go:175`, `client.go:77`).
- A restart index that changes together with the AdsState is stored and not
  reported (`client_state.go:192`).
- The initial sample of a subscription can arrive before its handle is stored, and is
  dropped (`client_subscriptions.go:350`).
- Handles stay in the map over a restart. If the device numbers its handles anew, samples
  reach the old callback (`client_subscriptions.go:347`), and `unsubscribe` of an old
  ID can remove a new subscription (`client_subscriptions.go:202`).
- Disconnect closes the connection, whose receive goroutine then starts
  OnConnectionLost (`client_connect.go:102`, `client.go:72`).
- Leaving Run starts OnStateChange only, where `client.go:85` promises OnConnectionLost;
  an interval of 0 does not disable polling (`client.go:83`); the default failure
  limit is 1, not 2 (`client.go:89`).
- A frame shorter than an AMS header, as a router's note is, is taken for missing data:
  it stays at the head of the buffer and nothing comes out any more (`client_buffer.go:74`).
- A `WriteRaw` that timed out may be carried out later, after a newer write.
- A STRING as long as its type or longer is written without terminator
  (`ads-serializer/doc.go:204`); arrays of structs can be read and not written
  (`serialize.go:48`, `334`).
- `Deserialize` panics on fewer bytes than the type has, `Serialize` on a slice shorter than the array:
  `write_array` writes 5 elements, so it panics on the example project's 101.
- `CheckSymbol` accepts a buffer that lacks the last byte.
- `read_status` asks for `nIntCounterActive` and `nTimedCounterActive`, which the example
  project names `bIntCounterActive` and `bTimedCounterActive`; `set_period` gives a TIME
  an `int32`, which the serializer refuses.
- The error code in the answer to DeleteDeviceNotification is not looked at
  (`client_subscriptions.go:190`).

## 6. Not modelled

- Logging, the prompt, argument parsing, printing, help and completion except that of `unsubscribe`: no
  state, or none that another step depends on. `list_symbols` parses the table with a simplified parser of its own, whose
  offsets are not the protocol's (`cmd_read.go:82`); its requests are in `AdsOperations`.
- The table of error texts, enumerations, constants, the formatting of addresses, and the byte
  layout of request bodies and of fixed answers (`ads-requests`, `ads-stateinfo`): `AdsOperations` has
  what a request names and which lengths of an answer are accepted.
- Byte order within a number, bit patterns of floats, characters beyond ASCII, and Go values that
  only reflection reaches, such as named slice types.
- A `conn.Write` that blocks: it has no deadline (`client_send.go:44`), so a peer that reads nothing stops a
  call, and a command that waits for it, for as long as it likes. `EveryCallReturns` and `CommandsEnd` are about writes that
  return, `CommandsEnd` about commands of finitely many calls: the loops of `state_loop` are bounded in `AdsCommands`.
- A Connect whose OnConnect hook fails, outside `AdsStatePoller`; a registration the
  router never answers, which would block the program for good.
- The PLC projects and the integration tests.
