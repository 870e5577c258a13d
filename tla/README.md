# Verification of webrtcPortmap

webrtcPortmap lets a *controller* (a browser page or a Go client) reach ports,
HTTP services and a terminal on a machine that runs an *agent*, over a WebRTC
data channel. A *signaling server* registers the agents, decides which
controller session holds which agent, and relays offers, answers and ICE
candidates between the two.

This directory holds TLA+ modules translated from the source, TLC
configurations that check them on small instances, and proofs checked by TLAPS.
`PROJECT.json` maps every definition to the lines it stands for.

## The system

| Component | Source | State it keeps | Operations |
|---|---|---|---|
| Signaling: registry, claims, relay | `cmd/signaling/main.go` | `Server.agents`, `Server.tokens` under `mu`; per `AgentInfo` the controller fields, `LastSeen`, two channels of capacity 10 | agent register, heartbeat, poll, send; controller connect, disconnect, poll, send, WebSocket; deletion by owner and admin; clean-up tick |
| Data store | `cmd/signaling/store.go` | accounts, agent records, sessions, shares, verification codes and usage under one mutex, written to one JSON file | register, login, quota, shares, upsert and delete of agents |
| TURN relay and metering | `cmd/signaling/turn.go` | one meter per allocation, the set of active meters, usage per user | allocate, meter and limit packets, flush, force close |
| IP guard | `cmd/signaling/ipguard.go` | failures and ban level per address | banned, recordFail, recordSuccess |
| Agent: registration and signaling loop | `cmd/agent/main.go` | `token`, `reconnectRunning`, an HTTP client with a timeout of 10 s | register with back-off, heartbeat, long poll, send, reconnect |
| Agent: session | `cmd/agent/main.go`, `pkg/auth`, `pkg/webrtc` | peer, handshaker, `authenticated`, `helloSeen` | offer, disconnect, data-channel messages, clean-up |
| Agent: HTTP and WebSocket proxy | `cmd/agent/main.go` | `wsConns`, the connections to services by socket id; nothing for requests | HTTP request answered in chunks; open, data and close of a socket; the reader of each connection; clean-up |
| Terminal | `pkg/terminal`, `cmd/agent/main.go` | the PTY session, its ring buffer, sink and exit callback | open, input, resize, close, detach |
| Tunnel | `pkg/tunnel` | listeners and streams on the client, streams on the agent | add and remove map, connect, data, half-close, close, close all |
| Client | `cmd/client/main.go` | peer, WebSocket, tunnel manager | claim, offer, handshake, mappings, clean-up |
| Web controller | `cmd/signaling/web/static/controller.js` | peer, data channel, poll loop, `pendingHTTPRequests`, `wsConnections` | connect, poll, `fetchDc`, `DcWebSocket`, terminal, disconnect |

The interactions: agent and controllers call the server over HTTP (long polls)
or a WebSocket; the server's two channels per agent join them. Once a data
channel is open, agent and controller speak the typed messages of
`pkg/protocol` directly: hello, a challenge-response handshake, then the tunnel,
the proxies and the terminal.

There are no tests in the repository, so what is hard here is hard everywhere:
handlers use a pointer they looked up before an unlock; pion runs callbacks in
goroutines of its own; each message of the data channel is handled in a new
goroutine or in order, depending on its type; channels are bounded and drop;
and both ends are torn down from several places at once.

## The modules

### Signaling (`Signaling.tla`, `MCSignaling.tla`, `SignalingProofs.tla`)

The core: who is reachable, who controls whom, and what is relayed.

*State.* `agents` and `tokens` are `Server.agents` and `Server.tokens`. An
`AgentInfo` is an *entry*, an object with an identity, because handlers keep a
pointer to it after the unlock: `ctl[e]` holds its `Controller*` fields,
`stale[e]` says that `LastSeen` is more than 120 s ago, `ctlCh[e]` and `agCh[e]`
are its two channels, `closed[e]` that they are closed. `store` and `owned` are
the part of the data store that outlives the process. `req[r]` is an HTTP request
goroutine with its locals, `conn[c]` a WebSocket with its handler and the reader
goroutine the handler starts.

*Actions.* One per critical section or channel operation: `RegisterUpsert` and
`RegisterEntry` are the two halves of `handleAgentRegister`; `DeleteRecord`,
`DeleteEntry`, `DeleteClose` those of the owner's deletion; `AdminDeleteUser`,
`AdminDropEntry` the administrator's; `ConnectCall`, `ConnectLock`, `Notify` a
connect with its forced take-over; `ControllerSend`, `ControllerPoll`,
`AgentSend`, `AgentPoll`, `PollEnds` the relay; `WSCheck`, `WSAttach`, `WSDrop`,
`WSRead`, `WSRelay`, `WSReadEnds`, `WSForward`, `WSReturn` the WebSocket;
`Heartbeat`, `Age`, `Cleanup` the life of an entry; `Stop`, `Restart` the process.

*Abstractions.* Messages are the session that sent them, or `disconnect`; on
`agCh` only their number. Every session may access every agent (one account).
Sessions do not expire. Tokens are distinct (a nanosecond clock read under the
lock). An unreadable WebSocket message is no read. The access check, the lookup
and the claim check of one request are one step, since nothing the request keeps
changes between them; operations after an unlock that commute (closing two
channels, closing the displaced socket after the message to the agent) are one
step. A forwarding loop on a closed channel writes `null` for ever: a stutter.

*Properties.* `RegistryConsistent`, `ClosedOnce`, `ClaimHasItsSocket`,
`EvictionHasACause` (an action property), `SocketEndFreesAgent` and
`DisplacedSocketEnds` (liveness). The panic the code can reach, `WSRelayPanics`,
is a step of the model.

### Replay buffer (`History.tla`, `RingBuffer.tla`, `MCRingBuffer.tla`; proofs in `TerminalProofs.tla`)

`History` is the promise: of all chunks written, the latest `Size` bytes, in
order. `RingBuffer` is the array with its start, its count and the two copies of
`append`. `Snapshot` is the refinement mapping and `HoldsLatest` the refinement.
Both remember the chunk written last: without it any full buffer would be the
result of *some* write and the refinement would say nothing.

### Terminal (`Terminal.tla`, `MCTerminal.tla`, `TerminalProofs.tla`)

The PTY session, with its reader and waiter goroutines (`pkg/terminal/session.go`),
and the agent's handlers. `sess[s]` holds a session's fields, `reader[s]` the
chunk `readLoop` carries between the unlock and the sink, `waiter[s]` the callback
`waitLoop` is about to run. `open[o]` is a goroutine of `handleTermOpen`
(`TermOpen`, then `KeepTerminal` or `StartTerminal`, `AttachWithReplay`,
`SetOnExit`, `OpenTells`), `closer` the session `handleTermClose` has taken,
`cleaner` a `cleanup()` (`CleanStart`, `CleanDetach`, `CleanPeer`). `NewPeer`,
`ChannelOpens` are the link; `from`, `shown`, `told` are history: what this connection's
controller was sent since its replay, and which exits were reported. Output is numbered chunks; a replay hands over
all chunks read so far, which `RingBuffer` justifies. Keyboard input and window
sizes are left out, and one goroutine closes or cleans up at a time.

Properties: `NothingLost`, `OneShell`, `ExitReported`.

### Metering (`TurnMeter.tla`, `MCTurnMeter.tla`, `TurnMeterProofs.tla`)

One user's TURN allocations and their bill. `stage`, `socket`, `port`,
`quotaRead` are what the TURN library does with an allocation (external: quota
handler, socket, creation event, relaying, close); `attached`, `total`,
`flushed`, `exhausted` are its `allocMeter`, `allocs` the map by port; `account`
and `used` the user's record. `flushOne` is cut where other goroutines can come
between: `FlushLoad`, `FlushDelta`, `FlushBill` (or `FlushBillUnsaved`,
`FlushBillNobody`), `FlushMark`, run by every `Close` and by the flush loop
(`LoopTick`, `LoopNext`, `LoopCheck`) at once. `billed` and `due` are history.
Bytes come in units. Reads and writes of `flushed` and of the user id, which the
code does not synchronise, are taken as atomic, as on 64-bit builds. Rate limits
only delay and are left out, as are start-up and the flush at shutdown; a new
month is a reset.

Properties: `SettledIsBilled`, `ClosedIsBilled`, `ExhaustedIsCut` (liveness); and
`OpenRelayIsMetered`, which fails.

### Tunnel (`Stream.tla`, `Tunnel.tla`, `MCTunnel.tla`, `TunnelProofs.tla`)

Both ends of port mapping over one data channel. At the client: `streams`
(`Manager.streams`), `connMap`, the local connections `local`, and
`accepted[c]`, where the goroutine of `handleLocalConn` is (`Accept`,
`EnterConnMap`, `SendConnectReq`, `ReadLocal`, `SendLocalData`, `ReadLocalEOF`,
`SendHalfClose`, `ReadLocalError`). At the agent: `remotes`
(`ClientManager.streams`), its connections `remote`, and `reading[c]` its
`readLoop`. `toAgent` and `toClient` are the ordered channel; each end handles one
message at a time, so the agent's `dialing` blocks all messages behind it.
`CleanupBegins`, `CloseAllNext`, `AgentClosesPeer` are the agent's `cleanup()` with
the snapshot of `CloseAll`; `RemoveMap`, `ClientClosesPeer` the client's; `LinkLost`,
`ClientNotices` the network. `localGot` and `remoteGot` record every chunk written.

`closeStream` is one step: between its deletion and its message nothing of it is
visible to another goroutine but a chunk read before, which the other end drops
or writes just as if it had been sent before. A lost link takes all messages under
way with it. Applications read what is written to them, so a Write does not
block. Ids stay below their range. The client's `HandleHalfCloseStream` is dead
code: the agent ends a stream with a full close.

`Stream` is the promise to one connection, as if it were alone on the link: two ends, and
between them two pipes that give the chunks read at one end to the other, each once and in
order, until an end closes. `StreamOf(c)` maps it to what Tunnel has for `c` (no table, id
or queue is seen), and `EachIsAStream` says that every step is one of the stream's or leaves
it alone, for every connection.

Properties: `EachIsAStream`, `EndIsComplete`, `TablesAgreeWhenQuiet`,
`CloseReachesTheOther` (liveness). `BytesInOrder`, of the queues and tables, is proved only.

### Agent session (`AgentSession.tla`, `MCAgentSession.tla`, `AgentSessionProofs.tla`)

The connection the agent answered last and the handshake over it. `peer`,
`authenticated`, `helloSeen` and `handshaker` are the agent's fields, which the
goroutines of all connections share without a lock; a connection and a handshaker
are named by the offer they were made for. `conn` and `dataChanOpen` are the
connections, `at` says where each goroutine is: the signaling loop (`Disconnect`,
`HandleOffer`, `NewPeer`, `NewPeerFails`, `Answer`, `AnswerFails`), and for each
connection `handleDataChannel` with the timer it leaves behind (`PeerIsNil`,
`PeerIsThere`, `WaitForOpen`, `Opened`, `OpenTimeout`, `ResendConfig`,
`CreateChallenge`, `SendChallenge`, `HelloTimer`), the message callback
(`HandleHello`, `HandleChallenge`, `HandleResponse`, `Accept`) and the two reports of
the state callback. Any of them may run `cleanup()`, which is cut at `Close`, since
that may be slow: `Take` closes the peer it finds, `Forget` clears the fields;
`NoPeer` finds none. `challenged` and `responded` are the controllers' part of the
handshake: `Handshaker.HandleChallenge` takes one challenge. `alive` ends with the
panic of a goroutine that calls a peer which became nil after it was checked
(`WaitForOpen`, `Forget`).

The three fields `cleanup()` clears at its end are cleared in one step, the open
state of a channel ends with `Close`, and a candidate changes nothing kept here.

Properties: `DeadPeerDropped`, `SilentPeerDropped` (liveness); and
`LastConnectionWins`, which fails.

### Data store (`Accounts.tla`, `MCAccounts.tla`, `AccountsProofs.tla`)

Users, agent records, login sessions and shares (`store.go`), with the handlers that
change them. `data` is `DataStore.data` without tenants, codes and usage; `disk` is
the file: a whole state, or `Cut` if it was not written whole. A handler looks up its
session, user or share in one critical section and changes the store in a later one;
`req[r]` is what it carries from the first (`LoginCall`, `ShareCall`, `RevokeCall`,
`RedeemCall`, `DeleteAgentCall`, `DeleteUserCall`) to the second (`CreateSession`,
`CreateShare`, `RevokeShare`, `CreateScopedSession`, `DeleteUserAgent`, `DeleteUser`, or
`Refused`). `RegisterUser`, `CleanupSessions` and the registration of an agent have one
only. An agent registers with an id and a name, or without either: a name its owner has is
that record's (`UpdateRecord`), any other makes a new one (`NewRecord`), under the id asked
for if that is free and one of `NewIds` if not. The agent adopts the id it is answered, and
the name if it has none, and registers with both from then on: so what it may ask for and be
named is `Known`, the ids operators choose and all that were ever made up, for it or for
another, whether the record is still there or not. A name may default to a made-up id; the
code does not look whether the owner has that name already, and need not, as long as ids made
up are new.

Every change ends in `Commit`, the save under the same lock: it succeeds, fails
(`SaveFailed`: memory keeps the change and the caller gets an error) or is cut by the
end of the process (`SaveCut`: the handler of SIGTERM exits without the lock). `Restart`
reads the file and applies the administrators' list. `Loaded` is what a new process
reads: an empty file is an empty store, and one that holds a part of the store ends the
process with an error, which changes nothing. `current` is history: the last save was
complete.

Ids and tokens are random, so each one made up is new (never made up, nor used by anybody,
before); one tenant; `-admin-config` is given; the file can be opened; a password was right. Time is left out: a session or share that expired is
one no longer used, and the clean-up takes any sessions.

Properties: `IndexesAgree`, `NothingDangles`, `OneRecordPerName`, and the action property
`RestartRestores`.

### Registration and polling (`AgentRegistration.tla`, `MCAgentRegistration.tla`, `AgentRegistrationProofs.tla`)

The agent's link to the signaling server, and the server as the agent sees it. `token`
and `reconnectRunning` are the agent's fields. `reg[g]` is a goroutine in
`registerWithBackoff`: that of `main()`, or one that `triggerReconnect` started (`Retry`,
`RegisterFails`, `RegisterTimesOut`, `Adopt`, `ReconnectDone`). `call[c]` is a heartbeat or
a send (`Call`, `ServerAnswers`, `CallFails`, `CallReturns`), `poll` the long poll of
`signalingLoop` (`PollStarts`, `ServerLooksUp`, `ServerDelivers`, `ServerDeliversNull`,
`PollTimesOut`, `PollFails`, `PollReturns`); `handled` records what
`handleSignalingMessage` was given. Of the server there are the agent's entry
(`registered`), the messages in its channel and in that of a replaced entry at which a
poll still waits (`ch`), polls the agent gave up whose handlers still wait (`ghosts`) and
registrations it gave up which are not yet handled (`late`).

*Abstractions.* A token matters only in being the one of the present entry or of one that
is gone, so it is `"current"` or `"dead"`, and when an entry goes every copy of its token
becomes dead in that step (`Replace`); thus the number of registrations has no bound. The
times are left out: a back-off ends, a poll may time out whenever it waits. Faults (a
crash, a lost answer, a refusal, a deletion or an expiry) are bounded by `MaxFaults`, but
a server that is down refuses any number of calls, and polls time out any number of times.

Properties: `SingleFlight`, `HandledInOrder`; `Recovers`, `MessagesAreTaken` (liveness).

### Proxies (`Socket.tla`, `WebProxy.tla`, `MCWebProxy.tla`, `WebProxyProofs.tla`)

The sockets and requests of a page (`DcWebSocket`, `fetchDc` and their handlers in
`controller.js`) with the agent's handlers for them. At the page: `page[s]` is a socket's
`readyState`, `req[q]` a request in `pendingHTTPRequests` or how it ended, `chunks[q]` what
arrived of it; `opened`, `got`, `told` record the events a socket had. At the agent:
`opener[s]` is `handleWSOpen` (`HandleWSOpen`, `DialFails`, `Dialed`, `SendWSOpenAck`),
`wsConns` the map, `conn[s]` the connection to the service, `reader[s]` its `readWSLoop`
(`ReadData`, `ReadClose`, `ReadError`, `ReadLoopReturns`), `failed` a `handleWSData` whose
write failed (`WriteFrame`, `WriteFails`, `CloseFailed`), `answer[q]` a
`handleHTTPRequest` (`HandleHTTPRequest`, `Fetched`, `SendHTTPError`, `SendChunk`).
`CleanupBegins`, `CleanupEnds` are the agent's `cleanup()`, `NextSession` the next offer,
`Disconnect` the page's `disconnect()`, `LinkLost` the network.

*Abstractions.* The channel is ordered, but the agent starts a goroutine for each of these
messages, so `toAgent` is a set from which any message may be handled next; `toPage` is a
queue. A body is the number of its chunks, a frame its number. A message sent to the next
session's page is as good as lost, since ids are random. `closeWSConn` is one step.

`Socket` is what a page may rely on of one `DcWebSocket`: the open event once and before all
else but a refusal, then the service's messages in order and without a gap, then at most
one close event, which comes after all of them. That a socket which is closing may open
again is part of it, since the code allows it. `SocketOf(s)` maps it to what the page and
the service have of `s`; the goroutines, the map and both directions of the channel are
not seen. `EachIsASocket` says it of every socket.

Properties: `NoUnreachableConn`, `EachIsASocket`, `ResponseWhole`; `EndIsHeard`
(liveness). `PageSeesAStream`, of the states alone, is proved only.

## The runs

| Run | Instance | Shows |
|---|---|---|
| `signaling_full` | 1 agent, 2 sessions, 1 request, 1 socket, 2 entries, channels of capacity 1 | every action together; `RegistryConsistent`, `ClosedOnce`, `EvictionHasACause` |
| `signaling_live` | 1 agent, 2 sessions, both kinds, 2 sockets, 1 entry | claims over sockets: `ClaimHasItsSocket`; with fairness `SocketEndFreesAgent`, `DisplacedSocketEnds` |
| `ring_buffer` | 4 bytes, 2 values, chunks of 0 to 5 | `HoldsLatest`: refinement of `History` |
| `terminal` | 2 opens, 2 shells, 2 chunks of the first | `NothingLost`, `OneShell`, `ExitReported` |
| `turn_meter` | 2 allocations on 1 port, quota 1, 1 failed save | `SettledIsBilled`, `ClosedIsBilled`; with fairness `ExhaustedIsCut` |
| `turn_metered` | 2 allocations on 1 port | `OpenRelayIsMetered` is violated |
| `tunnel` | 1 connection, 2 chunks each way | `EachIsAStream`: refinement of `Stream`; `EndIsComplete`, `TablesAgreeWhenQuiet`; with fairness `CloseReachesTheOther` |
| `agent_session` | 2 signals, the second connection may fail and its controller may send what is refused | `DeadPeerDropped`; with fairness `SilentPeerDropped` |
| `agent_last_wins` | 2 signals, nothing fails, clean-ups are prompt | `LastConnectionWins` is violated |
| `accounts` | 2 users, 2 requests, 2 sessions, 1 share, 1 id of an operator's and 2 made up, 1 save that fails or is cut; `Few`: records, requests, shares and ids made up are 4 in all | `IndexesAgree`, `NothingDangles`, `OneRecordPerName`, `RestartRestores` |
| `agent_registration` | 2 reconnecting goroutines, the heartbeat, 2 messages, a channel of 1, 1 abandoned poll, 3 faults | `SingleFlight`, `HandledInOrder`; with fairness `Recovers`, `MessagesAreTaken` |
| `web_proxy` | 1 socket with 1 frame out and 2 back, 1 request of 2 chunks | `EachIsASocket`: refinement of `Socket`; `NoUnreachableConn`, `ResponseWhole`; with fairness `EndIsHeard` |

Why the bounds are enough: every race in this code is between two goroutines (or one
goroutine and a replaced object), so two of each racing party, and one object more than
can be in use, let each happen. In `signaling_full` the racing parties are a request, a
socket with its two goroutines, the clean-up tick, and the end of the process; the second
entry lets an agent be replaced while any of them holds the first. Races of two requests,
or of two agents, are in no run: `SignalingProofs` covers them, for any number. A
channel of capacity 1 is full after one message, so full channels drop in every run that
relays. One port for two allocations makes the port be given again. Two chunks each way
are the fewest that can be reordered or have a gap; what one connection's messages could do
to another's is covered by `TunnelProofs`, for any number of connections. Two signals are
an offer and what ends it: a disconnect, or an offer that preempts it. In `accounts` a
second session lets the administrator delete a user who is in the middle of a request, and
a second agent lets an id be taken, a second made-up id lets one be made up when a record
has the first as its name. `Few` keeps that instance small: two requests meet about one
agent and its share, two records when both ids are made up; `AccountsProofs` has any
number of each. In `terminal` the second shell prints nothing: its
output takes the same way as that of the first, and what it can do to the first is to be
opened, closed and reported beside it. In `agent_registration` the heartbeat stands for
every caller: what a sender does with an answer is the same, and it and the poll already
trigger together; three faults are a crash during the recovery from one that follows a
lost registration, and the second goroutine is there to be started wrongly. In `web_proxy`
a socket has a frame to write, one to read before it and one to read after it ended;
sockets meet only in the queue, and the proofs are for any number.

Deadlock is not checked where the bounded objects (allocations, connections, signals,
requests and saves, sockets) run out and nothing is left to do: `turn_meter`, `tunnel`,
`agent_session`, `agent_last_wins`, `accounts`, `web_proxy`. Symmetry is used in runs
without liveness only.

Every property of a passing run is shown to depend on the code: `PROJECT.json`
names, for each, a mutation of a definition (a dropped guard, a missing message,
an ignored error) under which TLC finds it violated.

### Fairness

Only what the program or its scheduler gives. Goroutines that can go on, do; `Dial`
returns; a poll ends by its timer; a read fails on a socket that was shut; tickers tick;
the agent's two timers fire; a link that is up delivers, and a server that runs handles
what it was sent. Terminal needs none: that an exit is not missed is an invariant. Callers,
agents, applications, services, users and shells owe nothing, and no link need be lost or
restored, and no server restarted. So a liveness property never rests on a peer's good will:
where only a peer could bring the end about, the property does not ask for it
(`CloseReachesTheOther` ends when the link is lost, `Recovers` supposes a server that stays
up). There is one strong fairness, in AgentRegistration: a poll that finds a message waiting
may be given up every time in principle, since a timeout may come at any moment of it, but
the timeout is 10 s and the message is there at once.

## The proofs

All are for arbitrary values of the constants, from the named assumptions on them.

* **Signaling.** `Inv` is the type invariant, the three checked invariants and what
  they leave unsaid: entries not yet allocated are free and open (`Unallocated`),
  a token's entry has an agent (`TokensHaveAgents`), and a goroutine past its first
  step carries an allocated entry and a session (`LocalsOK`). `ClosedOnce` is
  inductive only together with `RegistryConsistent`: an entry that somebody is
  about to close is out of the map, and only what is in the map is deleted or
  closed again. `ClaimHasItsSocket` needs `Unallocated`, or a new entry could start
  with a claim. From `Inv`: `TypeCorrect`, `RegistryIsConsistent`,
  `ChannelsClosedOnce`, `ClaimsHaveSockets`, and the action property
  `EvictionsHaveCauses`.
* **RingBuffer** (in `TerminalProofs`). `BufferTypeCorrect`, and `BufferHoldsLatest`: RingBuffer implements
  History. Each write is a chunk that fills the buffer or one that extends it;
  `Wrap` replaces `%` by a subtraction, and the copied parts are compared element
  by element with the suffix of the concatenation.
* **Terminal.** `ReplayLosesNothing`, `OneShellAtATime`, `ExitsAreReported` and `TerminalTypeCorrect`. `NothingLost` is not
  inductive: it needs that the reader holds the last chunk or none and that only an
  open link was sent a replay (`Behind`), and that openers carry sessions that were
  started (`Carried`). `ExitReported` follows the duty to tell from the goroutine that
  got it to the report, by the kind of step (`ExitsOfShells`, `ExitsOfOpens`,
  `ExitsOfOthers`).
* **TurnMeter.** `SettlementIsBilled`, `ClosingBills` and `MeterTypeCorrect`. `JobsSound` says what each
  step of `flushOne` may rely on however many run; `DueIsOut` that a meter taken
  from the map stays out; `DueIsBilled` that what is due is billed or about to be,
  by a flusher that read at least as much.

* **Tunnel.** `BytesArriveInOrder`, `EndsAreCompleteAlways`, `TablesAgreeAlways` and
  `TunnelTypeCorrect`, for any number of connections, streams and chunks. `TunnelIInv` says who is meant by an id (`Names`: an id is given
  once, and every message carries that of its connection), that a request is sent once,
  before all data of its connection, and dialed once (`Requests`), that a lost link is
  empty (`LinkInv`), and, for each direction, that while a stream is whole the chunks under
  way are exactly those after what was written and up to what was sent, in order (`UpInv`,
  `DownInv`, over `InFlight`, which has a lemma for each thing a queue can do). The blocked
  callback matters: with `Requests`, no data of a connection can be handled while it is
  being dialed. `EndInv` adds the order of an end: in both queues nothing of a stream follows
  its half close, or its close after an end of file (`HalfCloseLast`, `CloseLast`, over
  `Barrier`), and a close is sent once, by who had the stream (`ClosedOnce`). Then what
  `UpInv` and `DownInv` leave under way is nothing. `TablesInv` says why no stream is left
  open at one end: what the client has open is asked for, dialed, open at the agent, or the
  client is still to be told (`AnsweredInv`); what the agent dials, has open or is asked
  for, the client has open, or a close follows it to the agent (`OnlyInv`). A close that
  overtook its own request would break it, which the one ordered queue forbids; that a
  closed id is free for good (`GoneInv`) and the agent speaks only of what it was asked
  for (`AskedInv`, `EarlyInv`) make each of the two stay true beside the other.
  `EachConnectionIsAStream` is the refinement of `Stream`, for every connection at once: each
  lemma of it takes a step of Tunnel and shows what it is to *every* connection, a step of its
  stream or none. Besides the invariants above it needs `StreamInv`: an id in the
  client's tables names a connection that is still open there (`LocalInv`), one in the
  agent's a connection it may still write to, and what is still to be dialed was not
  dialed (`RemoteInv`).
* **Accounts.** `StoreInv` says of memory, of the file and of what a request carries that
  they are good stores: indexed, owned, without two records of a name, and without a record
  named by an id that was not made up yet (`RandomNamed`). The last is what `OneRecordPerName`
  needs where a nameless agent's record is named by the id just made up: names may well be
  made-up ids, of agents that adopted theirs or of records that are gone, but never that one.
  Each operation keeps a store good whichever way its save ends, and `Loaded` of a good file
  is a good store. From it: `IndexesAlwaysAgree`,
  `NothingEverDangles`, `NamesAreUnique`, `StoreTypeCorrect`, and the action property
  `RestartsRestore`.
* **AgentRegistration.** `OneRegistersAtATime` needs that a goroutine past its start means
  the flag is set, and that nobody can trigger before `main()` is done (`Flight`).
  `MessagesHandledInOrder` needs the order of everything under way at once (`Order`): what
  was handled, the message the poll carries, and the channel at which it waits, be it the
  entry's or a replaced one's, are sorted and each below the next. `RegistrationTypeCorrect`
  with the bounds.
* **WebProxy.** `ProxyInv` has, for each socket, what its page, opener, connection and reader
  may be at once (`Life`) and what may be on its way in which order (`Queue`: one
  acknowledgement, then data without a gap from what the page had to what was read, then
  the close); for each request, that the chunks under way follow those that arrived
  (`Answer`). A close that overtakes an open is why `Life` speaks of all four. From it:
  `NoConnIsUnreachable`, `PageAlwaysSeesAStream`, `ResponsesAreWhole`, `ProxyTypeCorrect`.
  `EachSocketIsASocket` is the refinement of `Socket`, for every socket at once. It needs
  `Events`: nothing of a socket but a refusal is ahead of its acknowledgement, of which there
  is one, and a frame of the page or an error for it presupposes the open event. `Moves` and
  `Hears` say what of that any step may change, so that `Events` is shown inductive once
  and not for every action.
* **AgentSession.** `SessionTypeCorrect`, `DeadPeersAreDropped` and `AuthenticatedByResponse`,
  for any number of signals. `DeadPeerDropped` is inductive with the types and with `Begun`
  (goroutines run for offers that were received): a step may end the goroutine that was to
  close the peer only by closing it. `AuthenticatedByResponse` is over several connections,
  since the controller's response may be to an earlier handshaker than the agent holds by
  then; `Responses` keeps which was accepted.

Model-checked only: liveness (`SocketEndFreesAgent`, `DisplacedSocketEnds`,
`ExhaustedIsCut`, `CloseReachesTheOther`, `SilentPeerDropped`, `Recovers`,
`MessagesAreTaken`, `EndIsHeard`), since the prover does not reason about fairness and
`ENABLED`; and the two violated properties.

## Findings

Checked by a run that must find them:

* `turn_metered`: an allocation cut off by the flush loop is closed by the library
  later, by port, and takes the next allocation's meter from the map.
* `agent_last_wins`: the 30 s wait for a data channel calls `cleanup()` without
  asking whether its connection is still the agent's, and so closes the one that
  preempted it.

Seen while modelling, without a run of their own.

At the signaling server:

* the WebSocket's reader sends on the channel of an entry that was replaced and closed, and
  the panic ends the server (`cmd/signaling/main.go` 1631; `WSRelayPanics`);
* the WebSocket handler checks the claim before the upgrade and writes it after, so a
  session takes an agent back from whoever claimed it meanwhile, without force and without a
  message to the agent (1598; a cause `EvictionHasACause` allows);
* an agent that registers while its record is deleted stays online without a record (1119);
  and an agent whose record is deleted while it runs meets a 401 and registers again;
* a claim has no lease until a WebSocket attaches (1398), answers left by one session are
  given to the next, and a poll parked on an entry answers after the claim passed on;
* the store's file is truncated before it is written, and the server may end in between,
  after which it starts with an empty store or does not start (`store.go` 203; `SaveCut`); a
  failed save of a user's deletion leaves the user's agents in the registry (`main.go` 568);
* bytes settled by two flushers at once are billed twice (`turn.go` 371).

At the agent (`cmd/agent/main.go`):

* a heartbeat or send whose 401 straddles a re-registration triggers another, which
  replaces the entry just made, and the claim on it; nothing bounds how often (613, 645);
* the HTTP client's 10 s are shorter than the server's 30 s poll, so every idle poll ends as
  an error with a pause of 1 s, and an abandoned handler may take a message and lose it (379;
  `PollTimesOut`, `GhostTakes`); an answer that the server refuses with 404 or 503 counts as
  sent;
* a slow `cleanup()` forgets a peer stored meanwhile without closing it, and a peer that is
  nil by the second reading ends the agent (1578, 862);
* `readWSLoop` and the terminal's handlers are not bound to a session: a dial that ends after
  `cleanup()` registers its connection with the next session (1366), where it stays open
  until that session ends; two frames of one socket may be written in either order, which
  nothing promises (957);
* a chunk of terminal output read before a second attach is replayed and sent again
  (`session.go` 122); the exit of an old shell is reported after a new one was opened;
* a request dialed while `CloseAll` runs stays open until the service speaks
  (`pkg/tunnel/client.go` 232); ids wrap after 65535 streams of one session (`manager.go` 23);
  a Write to an application that does not read blocks the whole link (`client.go` 145);
* local candidates fill a channel of 32 that nothing reads (`pkg/webrtc/peer.go` 61).

At the controllers:

* a socket of a page that is closed while it connects is open again, with an open event,
  when the acknowledgement arrives (`__setOpen`; `HandleWSOpenAck`); and one that the page
  closes itself hears of its end by an error event and stays `CLOSING`;
* `disconnect()` forgets pending requests without settling them (`controller.js` 1652);
* the client may close `stopChan` twice, from its signal handler and from `quitTerminal`,
  whose `sync.Once` covers the second only (`cmd/client/main.go` 273, 1078).

## What is not modelled

* **IP guard** (`cmd/signaling/ipguard.go`): a map of counters under one lock, whose three
  operations are short critical sections of arithmetic on times (5 failures, bans of 5, 10
  and 30 minutes, records forgotten after an hour). Its callers ask `banned`, check a
  password and call `recordFail` or `recordSuccess` in separate sections (`main.go` 920,
  938; 983, 1000), so attempts that were let in together are all counted.
* **Client** (`cmd/client/main.go`): its maps and streams are one end of Tunnel, its share
  of the handshake is in AgentSession, its calls of the server in Signaling. Login, prompts,
  the order of its steps and the terminal's raw mode are one goroutine that runs once.
* **Web controller** (`controller.js`): its proxies are WebProxy, its calls Signaling, its
  handshake AgentSession. The steps of `connect()`, its poll loop, the terminal's view and
  the forms are not modelled.
* Of the data store: passwords, verification codes, quotas and the lists.
* Of metering: rate limits, start-up and the flush at shutdown.
* Of the terminal: keyboard input and window sizes.
* Password hashing, signatures and tokens (`pkg/auth/crypto.go`): functions without
  state; a token is taken as unique.
* Pages, scripts, configuration loading, message records: no behaviour to check.
* In Signaling, AgentRegistration and TurnMeter the store's part counts as saved; what its
  saves may do is in Accounts.
* Components are checked one by one, against what the others may do to them: a controller
  is any sequence of calls to Signaling, a server any sequence of answers to
  AgentRegistration, a link that may fail at any time what Tunnel and WebProxy run over. So
  effects that cross three parts (a claim lost with the entry that a re-registration
  replaced, and the session that goes on over a data channel all the same) follow from two
  modules and are in neither. A dial that outlives its session may meet the next session's
  streams (Tunnel and WebProxy end with the session that their ids belong to).

## What could be added

The poll loop and reconnection of the web controller against Signaling, with the guard of
`controller.js` 1118.
