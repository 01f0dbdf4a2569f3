# A model of LocalBolt in TLA+

LocalBolt transfers files between two devices of one network. Its repository
holds a Rust signaling server (`signal/`), which lets devices discover each other
and relays the messages that set up a connection, and a browser client (`web/`),
which asks for, approves and keeps the connection. The transport, the encryption
and the session object of the client come from external packages
(`@the9ines/localbolt-browser`, `localbolt-core`, `bolt-core`).

This directory models the server, from its command line to the last step of a
connection's task, every operation of it that changes state; the connection
component of one client among other devices; two clients that talk to each other over
the signaling; and the panel that shows a transfer.

## The system

| Part | State | Operations | Interacts with |
|---|---|---|---|
| Start-up, `signal/src/main.rs`, `lib.rs` | none after it | arguments, environment, builder, bind | hands the proxy list and the limit to the server |
| Accept loop and connection limit, `signal/src/lib.rs` | atomic counter; one guard per task | `run`, `try_acquire_slot`, guard drop | spawns one task per connection; the guards are dropped by those tasks |
| Connection handler, `signal/src/server.rs` | per task: stage, room key, peer code, session id; a write task and its channel | peek, handshake, registration loop, message loop, cleanup | calls the room table; sends into its own channel and into other tasks' channels |
| Effective client address, `server.rs` | headers captured in the handshake | callback, trust decision, `is_private_ip` | gives the handler its room key |
| Rate limiter, `server.rs` | budget, window start, violations | `check` | both loops of the handler |
| Peer codes, `server.rs` | none | `validate_peer_code`, `validate_signal_target` | the handler |
| Room table, `signal/src/room.rs` | `DashMap` from address to peers; global session counter | `add_peer`, `remove_peer`, `find_peer`, `find_peer_manual` | called by all tasks at once; broadcasts into channels under the room's lock |
| Client: connection approval, `web/src/components/peer-connection.ts` | session phase and generation, store, three transports, pending URLs | user actions, approval signals, transport callbacks, timers | the signaling server, the other client |
| Client: transfer panel, `peer-connection.ts`, `sections/transfer.ts` | transferProgress, transferTerminal, timers | progress callbacks, reset | transports |
| Wire types; client identity; pages | declarations; key pair; markup | serde; load once; render | - |

What is hard in it:

- *Concurrency without a global lock.* Every connection is a task. `add_peer` and
  `remove_peer` each take several locks in turn and act on what they saw under the
  previous one. The manual lookup walks the shards of the table while they change.
- *Messages made under a lock and sent after it*: the list a new client gets can be
  older than the broadcasts queued before it.
- *Replacement.* A reconnecting client registers under the code of its own old
  connection, whose teardown is still to come.
- *Vanished clients*: noticed by an idle timer or not at all.
- *Counters at their limit*: slots, peers of a room, rooms, messages per second.
- *Boundaries*: the private address blocks, a window's end, a limit of zero, a setting
  that does not parse.
- *Callbacks of the past.* A client abandons a session by resetting it; promises,
  state changes and reports of its transports arrive afterwards, in the middle of
  the next session. Only the generation of the session tells them apart, and each
  handler asks for it on its own terms, or not at all.
- *Signals without a subject.* No signal between clients names the request it is
  about: an answer to one that was withdrawn can be taken for an answer to the next.

What makes each part correct: the table lists exactly the connections being served,
once per code and room, within the limit, and drops empty rooms; the broadcasts
tell every member who is there; the lookup does not answer wrongly about peers that
stay; the counter is exact; the limiter refuses only what exceeds the limit; an
outsider cannot choose its room; the server listens on the host it was given; a signal
reaches only the room and code it was sent to; entries and slots come back. The client
shows as connected only whom its present session connected, shows what phase the session
is in, inherits no trust, and is not left connecting for good by a direct attempt. Two
clients that have heard all there is to hear are in the same session. The end of a
transfer is shown, stays while it should, and goes. PROJECT.json, under `hazards`,
names the line where each of these could go wrong.

## The modules

How they stand on each other:

    PeerDirectory <== RoomManager <- Presence <- ManualLookup
                           ^
    ConnectionLimit <== ConnectionSlots
          ^----------- SignalServer -> RoomManager
    HandleConnection -> RateLimit, StartUp, PeerCode, RoomKey
    PeerConnection <- ClientSession, ClientPair          TransferPanel

(`->` extends or uses, `<==` is implemented by.)

### The table

`RoomManager` is the core. A connection *is* its `PeerInfo`: `ip`, `code`,
`session`, and `chan` for the unbounded channel behind `sender`. `pc` says where its
task stands in its two calls. An action is one critical section or one unlocked
access:

| Code (`room.rs`) | Action |
|---|---|
| `NEXT_SESSION_ID.fetch_add` | `FetchSession` |
| `contains_key` | `Lookup` |
| `rooms.len() >= MAX_ROOMS` | `CountRooms` |
| from `entry().or_default()` to `push`, or to the refusal | `Insert`, `InsertRefused` |
| `get_mut`, `retain`, broadcast, `is_empty` | `Leave`, `LeaveReplaced` |
| `rooms.remove` | `Reap` |

`late[c]`, a history variable, collects who joined the room that `c` has emptied and
is about to drop. It is what `TeardownSparesOthers` exempts: `remove_peer` has two
critical sections, and the property speaks of both. The first takes out the caller's own
entry and no other, whoever holds its code by then. The second drops whatever the room
holds, and then that is exactly who came in between (`room_reap`, under the findings).

`len()` visits the shards one by one; the model counts in one step. It matters only
to the room limit, which no property of these modules leans on. The name, the type
and the WebTransport fields of a peer are left out: nothing tests them.

`PeerDirectory` is what the table promises: `Join` and `Depart` as single steps, and
`LoseAddress`, the departure of a whole room at once. The last is no wish: it is the
least that covers `Reap` (see the findings). `RoomManager` implements it with
`listed <- Listed`, `ended <- Ended`.

`Presence` adds the step of `handle_connection` that sends the `peers` message
(`Welcome`), and how a client reads its channel: `peers` and `peer_joined` add,
`peer_left` removes.

`ManualLookup` adds `find_peer_manual` on top of that. DashMap's iterator takes the
read lock of the next shard before it releases the current one, so `VisitShard`
reads one whole shard, and writers of the shard it holds wait (`MayRun`). The
history variable `steady` holds what was listed at every instant of the lookup, `ever`
what was listed at some instant of it. `SteadyPeerFound` says of a peer in `steady` that
the answer is not `not_found`, that it is the one if one is found, and that an answer of
`ambiguous` means somebody else was in `ever`: so a peer that stays and is alone under
its code is found.
DashMap is a dependency; its shards and locks are modelled from its documented behaviour.

### The server around it

`ConnectionSlots` is the counter: `LoadFull`, `LoadFree`, `Exchange`, `ExchangeFails`
are `try_acquire_slot`, with `DropGuard` possible between any two. `ConnectionLimit`
is the semaphore it implements.

`SignalServer` composes many connections: `EXTENDS RoomManager`, takes its slots from
`ConnectionLimit`, and models `handle_connection` from the accepted stream to the
dropped guard. A client is active, silent or gone; a write task drains the channel
or breaks with its socket. The answers of the size check, the rate limiter and
the parser are a choice: a message is handled or rejected (`RejectMessage`).
`RefusedOnlyWhenFull` counts as occupants of a room the others, of other codes, that
hold a slot and have not left the table: an entry of the newcomer's own code must not
shut it out, nor one of a connection that is over. A client that has vanished without
the server's noticing does count.

`HandleConnection` follows one connection frame by frame, where those answers are no
choice. It starts with `main`, goes through the handshake and both loops, and leaves
out the room table, which answers a registration as it may (`Joined`). Its parts:

- `StartUp`: `get_arg` (`GetArg`), the order of command line, environment and default
  (`Host`, `Port`, `TrustedProxies`, `MaxConnections`), and the server or exit they lead
  to (`Listen`, `ServerExits`). A text is what its parser makes of it; a command line
  (`ArgsAssumption`) is a sequence of texts, of any length.
- `RoomKey`: the room key from the socket, two headers and the proxy list. An
  address keeps what the string tests look at: octets, or the first group, the
  rest and the capitals of an IPv6 text. Other spellings of one address (a group with
  leading zeros, an uncompressed `::1`) are left out, as is a header that is not text.
- `PeerCode`: the two functions that read a code, over texts as sequences of
  `Characters`. `Kept(text)[n]` is what `filter` has kept of the first `n`.
- `RateLimit`: it counts ages in ticks rather than a clock. Only what lies less than a
  second back matters, so the state is finite without a bound on time. One limiter
  serves both loops, as in the code. The history `passed[a]` is how many messages got
  through in this tick and the `a` before it; the last of these is the whole second.

A message that is too long ends the connection (`Closes`), for the WebSocket layer
refuses it first; a device name that is too long is answered (`Rejected`). Pings of the
WebSocket protocol and binary frames do not touch the modelled state.

### The clients

`PeerConnection` holds the handlers of `peer-connection.ts` as operators from one
client's record to the next: JavaScript runs each to its end, so a handler is one
step. `ClientSession` says when they run, for one client:

| Code (`peer-connection.ts`) | Handler | Action |
|---|---|---|
| `selectPeer`, `acceptRequest`, `declineRequest`, `cancelRequest`, `disconnect` | `OnSelectPeer`, `OnAccept`, `OnDecline`, `OnCancel`, `OnDisconnect` | `SelectPeer`, `AcceptRequest`, `DeclineRequest`, `CancelRequest`, `Disconnect` |
| `handleApprovalSignal`, `onPeerLost` | `OnRequest`, `OnAccepted`, `OnDeclined`, `OnPeerLost` | `RequestArrives`, `AcceptArrives`, `DeclineArrives`, `PeerLeaves` |
| promise of a direct transport's `connect` | `OnDirectConnected`, `OnDirectRejected`, `OnDirectUnavailable` | `DirectConnected`, `DirectRejected`, `DirectUnavailable` |
| `onError`, `onDisconnect`, `onVerification` of one | `OnError`, `OnDisconnect`, `OnVerification` | `DirectFails`, `DirectCloses`, `DirectReports` |
| `handleConnectionStateChange`, `service.connect`, the callbacks of the service | `OnServiceConnected`, `OnServiceEnded`, `OnDialRejected` | `ServiceConnected`, `ServiceEnds`, `DialRejected`, `ServiceFails`, `ServiceReports` |
| `signaling.connect().then`, `sendSignal().catch`, `onMarkVerified` | `OnIdentity`, `OnSendRejected`, `OnVerification` | `IdentityLoads`, `SendRejected`, `MarkVerified` |

`direct[g]` is the one direct transport generation `g` may make, kept after the session
is reset, for nothing stops it unless `disconnect` hangs it up; `unsent` are the
requests whose `sendSignal` will be rejected. `resetSession`, `beginConnecting`,
`markConnected` and the initial session belong to `localbolt-core`, the services to the
browser SDK: they are modelled from how the component and its tests use them. The
service is made without a word about whom it should hear (`createFreshRtcService` passes
no peer, line 594), and whether the SDK turns an offer away cannot be told from these
sources. So `ServiceAnswers(p)` takes the first offer that reaches a listening service,
of any device and at any time. The consequences are real behaviours of the model: a
client that is idle, or is asking somebody else, in the generation its service was made
in is shown as connected to whom the offer was from, and `disconnect()` then returns at
once if it is idle. The history variable `astray` names the generations whose *own*
service took an offer their session was not waiting for, and `OnCourse` says that the
present one is not among them. Properties of the store, of connections and of trust are
stated for sessions on course: what a service, a transport or a promise of an *earlier*
session does late, stray offers of that service included, must not disturb them.
`ShownInTurn`, that nobody is shown who is not waited for, and `DirectAttemptEnds` need
no such condition.

What a WebSocket transport does when its desktop closes it is not known from here
(no callback is passed for it), so in the model it stays up, or reports an error.

`ClientPair` runs the same handlers on both sides. `wire[x]` is what the signaling
server has yet to deliver to `x`, in order and once, which is what `SignalServer`
gives; an offer stands for the WebRTC handshake, is heard by any service that listens,
of whatever generation, and joins the two services. Here the
declines a client sends are modelled, for the other side hears them. Two history
variables give the signals the subject they lack: `about[x]` is the request `x`'s
session is about, and `spoiled` collects the requests a misread signal met, or whose
session one side left without a signal. What `SettledSidesAgree` says is that nothing
else parts two clients.

`TransferPanel` is `handleReceiveProgress` with `transferTerminal` and the timers,
over sessions reduced to what it reads: the generations, the kind of transport, and how
the session ends. What the SDK reports is external: progress at any time, late progress
too (`docs/CHANGELOG.md:34`), and one end per transfer. `Disconnect` may hang up any of
the direct transports: which references are still kept is in `PeerConnection`, and no
property here depends on it.

`MC*` modules give the small instances; `TransferPanel` needs none. The `...Proofs`
modules hold the theorems.

Operators named `Bad...` stand before the definition they corrupt: a plausible bug in
it (a missing increment, an off-by-one, a comparison reversed, a step left out).
No action uses them. PROJECT.json, under `mutants`, says which property fails when
which of them takes its definition's place; they show that the property depends on
the code it is about.

## The runs

| Run | Instance | What it shows |
|---|---|---|
| `room_table` | 3 connections, 3 addresses in 3 shards, 3 codes, rooms of 2, 2 rooms, with welcomes and a manual lookup | codes unique, entries served, limit, no leaked room, a teardown spares all but itself and who joins a room due to be dropped, the directory is implemented; broadcasts exact, no client misses a peer, its view is exact unless a departure was queued ahead of its list; a peer that stays is never missing, two that stay are never taken for one |
| `slots` | 5 connections, limit 2 | counter exact, every accepted stream decided, semaphore implemented |
| `connection` | 4 ticks to a second, 3 messages, close at 3; 31 sockets, 8 header values twice, 5 proxy lists; 8 command lines, 36 other settings; codes of at most 2 in texts of at most 4 characters | the server listens on the host it was given, or not at all; outsiders keep their own room, the private blocks share one; a client is reached by its code however it is spelled; at most twice the limit in any second, refused only when the limit was used up; answers bounded over both loops |
| `server_relay` | 2 connections, 2 addresses, 2 codes, queues of 1 | a relayed signal reaches the room and code it was asked for, whatever happens between lookup and send |
| `server_life` | 2 connections, 1 address, 2 codes, rooms of 1, queues of 1 | a task serves only as a member; no entry without a slot; nobody is refused but for others in the room that hold slots; a faded client is released, in mid-relay too; empty rooms are resolved |
| `client_session` | 2 other devices, 3 generations, an https page; offers asked for or not | of a session on course: the store shows its phase, a connection shown is its own, WebRTC trust is what the present service reported, whoever waits can cancel; of any: a direct attempt ends |
| `client_pair` | one side asks in up to 3 sessions, the other in one | once all is delivered both sides are in the same session; a withdrawn request leaves the screen |
| `transfer_panel` | 4 generations, 3 transfers | the end of a transfer is not overwritten by its late progress; it leaves the panel |
| `room_reap`, `server_superseded`, `client_gate`, `transfer_second` | small | the findings below |

Bounds. The rooms of the table share nothing but the session counter and the room
count, so a property of one room needs one address, and the lookup three: one shard
behind the iterator, one under it, one ahead. Three connections are a member, its
replacement and a newcomer, or two that stay and one that moves; two codes tell a
replacement from a neighbour and a third overfills a room of two. With `MaxRooms = 2`
and three addresses the room limit is met and passed. The proofs cover the rest: each
of the run's properties is a theorem for any numbers. Two
connections suffice for the server because every hazard of `handle_connection` is
between a task and one other. Each connection registers once, as in the code: a
reconnect is another connection with the same code. `QueueBound` limits only what
clients make the server send (errors and signals): broadcasts and welcomes are never
held back, and a relay that was begun is always finished, for the channel of the code
is unbounded: the bound is in the guard of the lookup, not of the send.

For the limiter, a close threshold that can be reached before the window ends and a
limit smaller than the ticks of a second let every order of window, budget and
violations happen. The addresses lie on both sides of every boundary the string tests
draw. Texts of up to four characters over a letter, a hyphen and a character that is
neither are shorter, as long and longer than a code of two, with hyphens anywhere.

`MaxGen = 3` gives a client two whole sessions, and an idle third in which all that
the two left behind may still call back: what the generation guards are for needs a
leftover and one later session. Two peers let the later session be with another
device than the leftover; `SecurePage` only changes which URLs lead to the same
routes. In `client_pair` one side asks a third time while answers to its first two
requests are under way, and the other's own request crosses any of them. In
`transfer_panel` three transfers are one whose report comes late, one of the next
session and one more on the same connection.

`CHECK_DEADLOCK FALSE` is set throughout since every run ends once all connections
have come and gone, or the last generation is idle; so does the program's part in
them.

Symmetry is used in safety runs only, never with liveness: over connections and codes
in `room_table` (the addresses are ordered by shard), over addresses too in
`server_relay`, over the devices in `client_gate`.

Fairness. Tokio runs every task that is ready, so `FairServerSpec` has weak fairness on
what a task does of its own accord (`Due`), on what becomes of a client that is no
longer active (`Overdue`: the idle timer, or the socket's end of stream), and on the
write task. Nothing obliges a client to connect, speak, read or leave. A silent client
that has not registered is under no timer, and none is assumed: the peek, the handshake
and the registration loop have no timeout, so release is claimed only for registered
connections. `FairSpec` of `ConnectionSlots` has weak fairness on the accept loop alone.
`FairSpec` of `ClientSession` has it on each direct transport's `connect`, which is
given a timeout of 10 s (`wsConnectTimeout`, `connectTimeout`) and so settles.
`DirectAttemptEnds` rests on that, and on the identity being loaded (`me.ready`):
without it the WebRTC fallback has no service to dial with, and the session does stay
connecting. The attempt ends by a connection, by a reset, or by going on as a WebRTC
dial of this generation's own service. `FairSpec` of `ClientPair` has it on the delivery
of signals: the server relays what it was given and the event loop runs the handler.
That of `TransferPanel` has it on the timers, which the browser runs. Nothing is owed by
the user, the other devices, the SDK or the WebRTC service.

## The proofs

### The table (`RoomManagerProofs`)

For any sets of connections, addresses and codes and any positive limits
(`RoomLimitsAssumption`):

- `RoomInvariant`: `Spec => []RoomInv`. None of the table's invariants is inductive
  alone: that a teardown takes its own entry out needs session ids to be distinct,
  which needs every id handed out to be below the counter (`SessionsDistinct`);
  that `or_default` makes an empty room, not an old one, needs absent keys to have
  no entries (`AbsentRoomsEmpty`); that an emptied room has a reaper needs the
  entries to belong to members, so that a leaver's own entry is really there; that a
  room is dropped over nobody but late joiners needs everyone in it to be one of them
  (`LateJoinersKnown`), from the moment the departure has emptied it.
  `RoomInv` is their conjunction. The proof has one lemma per locked section
  (`InsertInv`, `InsertRefusedInv`, `LeaveInv`, `ReapInv`) and one for the steps that
  leave the table alone (`LocalStepInv`). `RetainedFacts` and `KeptFacts` say what
  the two removals take out.
- From it: `CodesUniquePerRoom`, `NoGhostEntries`, `RoomLimitHolds`, `NoRoomLeak`,
  `EmptyAtQuiescence`, `RoomTypeCorrect` and the action property `TeardownsSpareOthers`,
  of both sections of `remove_peer` (`SparingTeardown`).
- `ImplementsDirectoryTheorem`: the table implements `PeerDirectory`: `Insert` is
  `Join`; `Leave` is `Depart`; `Reap` is `LoseAddress`, or a stutter if the room is
  still empty; the rest stutters, `InsertRefused` included (had it removed a stale
  entry, the room would have had a place).
- `BroadcastsAreExact`: what a member was sent tells it exactly who is in its room.
  `ChanInv` adds that a channel is empty until its connection enters the table, and that
  list, joins and departures give the codes of the room. `AnnouncedAppend` says what one
  more message does to what was told; `InsertSeen`, `LeaveSeen` and `QuietSeen` apply it
  to the three kinds of step.

### What clients know (`PresenceProofs`)

`PresenceInv` relates the last message that names a code to whether its peer is there,
by the list if the list came first (`KnowsByList`), by the news otherwise
(`KnowsByNews`): `NobodyIsMissed` and `ViewsAreExact`. `LookupOnlyReads`: the
composition with the lookup implements the one without, so all the theorems of the
table hold beside it. `LookupInvariant` keeps, of the entries that were listed
throughout, those in the shards already visited among those found, and all that is found
or listed among those ever listed; hence `SteadyPeersAreFound` and
`SteadyPairsAreAmbiguous`. They assume finitely many
connections and any division into shards (`ShardsAssumption`).

### The server (`ConnectionSlotsProofs`, `SignalServerProofs`)

For any connections and any `MaxConnections` in `Nat`: `SlotInvariant` (with the
facts that the loop has exactly one stream in hand past `accept`, and attempts the
exchange only from a value below the limit), `CounterIsExact` and
`SlotsImplementLimit`.

`ServerInvariant`: `ServerInv` is `RoomInv` with what ties a task to the table. Its
phase and its place in the two calls go together (`InStep`, in `TasksOK`); who is past
the accept loop holds a slot until it is over (`SlotsHeld`); a sender in hand is of the
room and code of the request it was looked up for, however long ago (`RelaysOK`); and
so is all that is in a channel (`ChannelsOK`). Those last two are why no signal strays,
though the entry may be gone or replaced by the time of the send. From it:
`ServerTypeCorrect`, `NoEntryOutlivesItsSlot`, `FullRoomsAreServed`,
`RoomsAreIsolated`.

The composition keeps what its parts promise. `ServerKeepsADirectory`: the whole server,
with its writers, clients and slots, implements `PeerDirectory`;
`ServerTeardownsSpareOthers` is the table's action property for it. `TableTouched` says
that a step of the server leaves the table alone or is a step of `RoomManager`, and
`DirectoryStep` and `SparingTeardown` of `RoomManagerProofs` do the rest, so nothing is
proved twice. The model of the accept loop and that of the handlers meet in
`ConnectionLimit`: `ConnectionSlots` implements it, `SignalServer` takes its slots from
it.

### One connection (`HandleConnectionProofs`)

`LimiterInvariant`: every answer took a message of the budget or was a refusal, which
`answered` alone does not say: the invariant counts with the budget, the violations and
the registration that is still to be answered (`BudgetInv`). `AnswersAreBounded` follows.

The window is the other half of `LimiterInv`. `AtMostTwiceTheLimit` alone is not
inductive: how much the second before now may hold depends on where in it the window
was opened. `WindowInv` says that since then exactly what the budget has paid for got
through, in the rest of the second one window's worth at most, and after a window that
elapsed nothing at all in this tick. `TickWindow`, `AllowWindow` and `RefuseWindow`
take it through the limiter's steps. Hence `TwiceTheLimitAtMost`, and
`RefusalsAreDeserved` with it: who finds the budget empty had all of it since the window
was opened, less than a second ago.

`OutsidersStayOutside` and `LanIsOneRoom` rest on what the address blocks contain
(`PrivateIsLan`) and on the key's being the one that was decided (`KeyInv`).
`ListensOnlyWhereAsked` is about start-up: `GetArg` takes the
first place at which a name occurs, and that a nonempty set of places has a first is the
well-foundedness of the natural numbers (`LeastExists`), whatever the length of the
command line.

`AnySpellingReaches`, for any alphabet and texts of any length: a client is reached by
its code without hyphens, by the text it registered with and one hyphen more at any
place, and by no text that `validate_peer_code` would read otherwise. `CodeInv` keeps
that the code in use is what `validate_peer_code` made of the text; the rest is about
`Kept`, which the lemmas unfold one character at a time (`KeptExists` shows that the
recursion defines a function). In place of an induction over texts, `UpTo` takes the
first length at which a claim would fail, which there is, again, by `LeastExists`.

### The client (`ClientSessionProofs`)

For any devices, either kind of page and any `MaxGen`: `SessionInvariant` (`Spec =>
[]SessionInv`), and from it `StoreIsExact` and `ConnectedIsOwn`. That a connection shown
is the session's own is far from inductive. When a direct transport of the present
generation connects, one must know that the session still waits for it and was begun
with its peer, and that the reference the handler reads is that very transport
(`DirectsBelong`); when a WebRTC service does, that its generation, if it is the present
one, is of the session that waits (`ServiceBelongs`). Whether it took an offer out of
turn the record does not tell, so the two are claimed of sessions on course, and every
step has to keep what is claimed of those that are not. `ResetInv` is the lemma all
endings share; `StaleInv` is the one for callbacks that the generation guards turn away.

`TrustInvariant` adds that a service which has not connected has reported nothing
(`ReportIsFresh`); once the session is astray, nothing is claimed of its trust
(`StrayTrust`). It gives `TrustIsThePresentOne`, and `WaitingEndsByTheUser` with the
two states in which a waiting user is offered no way to cancel.

### The two clients (`ClientPairProofs`)

For any two peers (`PairAssumption`), any number of sessions of each and any order in
which users act and signals are handled: `PairInvariant` and, from it, `SidesAgree`.

`SettledSidesAgree` speaks only of the moments when nothing is under way; to get from
one to the next takes all that happens between. The invariant follows one request, named
by who made it and in which generation, through its life (`Life`):

- its signal is under way: the other side is not in it, nobody has answered, and if its
  sender is no longer in it, a decline follows on the same wire;
- one side is in it alone: the request, or a decline, is under way to the other;
- both are in it: asking and being shown it; or connecting on one side while the
  acceptance is under way to the other; or connecting and connected in any way.

A signal can meet the wrong request, for it names none. That request is `spoiled`, and
its life is claimed no longer; `LivesOK` is about all others, so a step has to keep the
life of each request it does not spoil. Two more parts are needed for that. `NamesOK`: a
request is of its sender's present session or an earlier one, so a new request is met
by nothing already under way. `ClientsOK` ties a client's record to its session: the phase
says whether it is in a request and whose, and a WebRTC service at work means
connecting. A fourth part, `Unoffered`, is kept beside them: who has accepted nothing is
offered nothing, so an offer is heard in turn, or by a service of an earlier session. The
services of `ClientPair` are told of no peer either: that neither client is offered a
connection in a session in which it accepted nothing is proved, and not assumed.

The proof has one lemma per kind of change of a life (`AskedLife`, `ShownLife`,
`AcceptedLife`, `LeftLife`, `RefusedLife`, `ConnectsLife`, `EndedLife`, ...), which says
what becomes of `Life` when the two wires and the two sessions change in that way, and
one per step of the system (`SelectStep`, `AcceptStep`, `LeaveStep`, ...), which says
which kind it is for the request it is about and that it leaves every other alone
(`UntouchedLife`). `TailFacts` and `AppendFacts` are what is needed of the wires.

### The panel (`TransferPanelProofs`)

`EndsStayShown`, for any bounds. `PanelInv`: no transfer is of a session to come
(`TransfersAreOld`), what is shown is of the present session or came late from an older
transport (`ShownIsCurrent`), and an ended transfer of the present session that was
heard is guarded by the flag (`FlagStands`, `FlagIsShown`).

### Only model-checked

Liveness: `EmptyRoomsResolved`, `AcceptedIsDecided`, `FadedClientIsReleased`,
`DirectAttemptEnds`, `WithdrawnRequestVanishes`, `EndIsCleared`. It rests on fairness, and
so on ENABLED, which is out of the prover's reach. Every other property of the passing
runs is a theorem.

## Where the code and its texts disagree

Shown by runs that find the quoted text violated:

- `room_reap`: `remove_peer` decides to drop the room under its lock and drops it
  after releasing it. A peer that registers in between is dropped too: it stays
  connected, hears nothing and is found by nobody until it reconnects. It may be the
  replacement of the one that leaves, which the session id is there to protect
  (`room.rs:94`, `room.rs:176`). (`Reap` therefore removes whatever is there, and
  `TeardownSparesOthers` and the directory's `LoseAddress` say how far that goes.)
- `server_superseded`: the replaced connection is not closed. Its task keeps a
  sender of its own, so dropping the table's one ends nothing.
- `client_gate`: `transfer.ts` says an unverified peer's transfer is blocked. Reports
  of direct transports are dropped when `serviceGeneration` is not the present
  generation, and only a WebRTC service sets it. So in every session after the first
  reset that goes to a desktop directly, `unverified` never arrives, the state is the
  `legacy` of the reset, and the panel is shown. (`RtcTrustIsExact` shows that
  sessions over WebRTC are judged rightly.)
- `transfer_second`: `peer-connection.ts:249` resets `transferTerminal` "for new
  transfer", but line 227 returns before it whenever the flag is set. Once a transfer
  of a session has ended, no later one of it is shown, neither its progress nor its end.

Seen while modelling, with no run of their own. In the server:

- `protocol/src/lib.rs:89` calls `peers` the full list of peers currently in the
  room: a `peer_left` can be queued ahead of it, and the client then knows a peer that
  is gone (`ViewExactWithoutRace` says that this is the only way).
- `room.rs:259` says a code in several rooms is rejected instead of guessing. With two
  peers of a code listed at every instant, but not the same two, the lookup may return
  one: one that joined a shard already visited, before another left a later one.
  `SteadyPairAmbiguous` is what holds.
- `lib.rs:37` promises HTTP 503 over the limit; the stream is dropped.
- `server.rs:111` calls the limiter a sliding window; it is a fixed one, hence the
  factor of two in `AtMostTwiceTheLimit`. Binary frames do not pass it at all.
- `validate_message_size` cannot fail: the WebSocket configuration refuses the message
  before it, and the connection ends without the error it would send.
- `lib.rs:91` says addresses outside the proxy list always use the socket address;
  a private socket address is trusted as well (`RawIp`). `server.rs:272` speaks of a
  `was_fly` flag; there is none, and Fly-Client-IP is trusted as X-Forwarded-For is.
- `server.rs:708` names fe80::/10 where the test covers fe80::/16.
- `room.rs:68` says the server tracks at most `MAX_ROOMS` rooms; the count is read
  before the insertion, so parallel registrations can pass it. The connection limit
  keeps this out of reach with the defaults.
- The error that explains a refused registration is queued, and the write task aborted:
  the client may never get it.
- A port that does not parse is replaced by the default without a word, a host that
  does not ends the process; `--host --port 8080` takes `--port` for the host. Codes
  are told apart by their case.

In the client (`peer-connection.ts`):

- Line 424 logs a fallback to WebRTC when a WebTransport is rejected;
  the session is reset. An error or a close of a transport of an old session resets
  the present one (lines 112, 562). A WebRTC dial that fails with anything but a
  `WebRTCError` leaves the session connecting with nothing to cancel it by (line 446;
  `WaitingCanBeCancelled`). A WebTransport that is unavailable before the identity is
  loaded leaves it connecting without a service.
- No answer names its request (line 305). An acceptance of a withdrawn request is taken
  for one of the next, and the requester can be shown connected while the other's user
  is still being asked. A new request, made after one that is still shown was withdrawn
  but before that is heard, is taken for its duplicate and vanishes with it.
  (`Misread` in `ClientPair`.)
- Two clients that ask each other at once decline each other as busy.
- `docs/CHANGELOG.md:39` says a duplicate of a request is ignored; once the first was
  accepted its duplicate is declined as busy.
- A WebRTC service is told of no peer (line 594). Unless the SDK refuses what its session
  did not ask for, a stray offer makes the client show a connection its session does not
  know of; an idle client then cannot close it, for `disconnect()` returns (line 618).
  (`astray` in `ClientSession`.)
- A client that is connected ignores the other's cancel, and the canceller's service is
  not retired (line 607): both may stay joined, one of them idle. A responder waits
  without a timeout.
- Progress of a direct transport is dropped after the first reset, as its verification
  is; in a later WebRTC session, what an old direct transport still reports is shown.
- The timers that clear the panel are not cancelled: one may clear what the next session
  shows.

## Not modelled

The wire types (declarations; the kinds that matter are records here). Of the client:
the identity store (one call into the SDK), `connectingPhase` and its slow timer,
toasts, the list of devices, pages and styling. What the two signaling connections of a
client duplicate or lose belongs to `DualSignaling` of the SDK, whose code is not here.
Binary frames and pings, names and types of peers, which change nothing that is
modelled. Scripts and continuous integration. The contents of a signal, which the
server does not read, are its request.

## The plan

Done: room table, presence, manual lookup, slots, start-up, limiter, room key, codes,
handler, one client, two clients, transfer panel, and the proofs of every invariant and
action property of the runs. Left:

1. `ClientPair` over a signaling that duplicates, if what `DualSignaling` promises
   becomes part of the repository.
2. That `ClientPair` refines an abstract pair of clients, a session that both are in or
   neither: `PairInv` has what its steps would need.
3. `connectingPhase` and the slow timer, which change only what is displayed.
