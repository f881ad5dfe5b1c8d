# TLA+ models of the game servers

This directory holds TLA+ specifications of the server side of this
repository, the TLC configurations that check them on small instances, and
proofs that TLAPS checks for every value of their constants. The models follow
the code under `src/`; a path below is relative to `src/` unless it starts
with `tla/`.

    tlasany M.tla                         parse a module
    tlc -workers 2 -config X.cfg M.tla    check a configuration
    tlapm M.tla                           check the proofs of a module

`PROJECT.json` lists the components, the runs, for every property a mutation of
the code that breaks it, the source lines behind every definition, the hazards
and the theorems.

## 1. Inventory

The program is an online game: a client talks to a **connector** (gateway),
which relays to a **logic server** that runs the game for one group of
players; a **queue server** decides who may enter a full logic server; a
**cross server** runs matches and rankings across logic servers; an **auth
server** checks accounts.

    client ──heartbeat──▶ queue_server ◀──presence, reconnect check── logic_server
      │                       │ ticket                                     ▲
      └──────ticket──▶ connector ◀────────code queue, sockets──────────────┘
                                                     logic_server ◀──▶ cross_server

### queue_server (`server/queue_server`)

*Login queue* — `CQueueServerQueManage`, one per game server, owned by a
`CQueueMsgProcessor` thread.
State: the waiting players with an index and an alive time
(`m_stUserQueue`), the players reported online (`m_stOnlineUser`), the
players with a protected seat (`m_stUserProtectTime`), the admission window
`m_uMinIndex .. m_uMaxIndex`.
Operations: `Refresh` (once a second), `UserLogin`, `UserLogout`,
`CheckCanLogin`, `GetBeforeNumAndUpdateAlive`, `AddQueue`, and the four message
handlers around them.
Hard: notifications of the game server, heartbeats of the players, the clock
and reloads of the capacity come in any order; the window moves over indices
of players who are gone; its bounds are reset, and its arithmetic is unsigned.
Correct if: a player holds one place and one only; the capacity is respected;
nobody is overtaken; what a player is told is true; everybody is served
eventually.

*Main thread and connection tables* — `CQueueGameControl`,
`CQueueRouterManager`.
State: the connections of game servers (`m_astConnectionMap`) and of players
(`m_stClientConMap`) by file descriptor, the last descriptor of each server
(`m_stServerIDToFd`), the events of one `epoll_wait`, the queue of answers.
Operations: accept, read, dispatch to a processor thread, time-outs, sending
answers, run flags, shutdown.
Hard: every table and every message names a connection by its descriptor, and
the kernel hands descriptors out again; six places close one; a send can fail
in the middle.
Correct if: the tables agree with the sockets, an answer reaches whoever asked,
an event is not applied to a newer connection, a request is answered.

*Processor threads* — `CQueueProcessor`, `blocking_queue`.
State: a queue of messages, a stop flag, the thread.
Hard: the stop while a thread is busy or blocked; messages of one server
arriving over several connections.
Correct if: messages of a server are handled in order, nothing is left behind,
the shutdown ends.

*Configuration* — zookeeper nodes parsed into `CQueueServerConfig`, a shared
pointer that the main thread swaps while the processors read it.
*Alert thread* — its `ProcessMessages` is empty; pure I/O.

### logic_server (`server/logic_server`)

*Presence* — `CLogicUser` (`game/logic_game_user.cpp`), the notifications to
the queue server (`game/logic_game_global.cpp`), the connection to it
(`service/logic_service.cpp`), the reconnect check
(`game/logic_game_reconnect_processor.cpp`).
State: the users in memory, online or not; the connection and its last
attempt.
Hard: notifications are lost while the connection is down; on reconnection
the list of everybody online is sent, which can only add players on the other
side.
Correct if: the two ends agree again some time after every disturbance.

*Connections to the gateways* — `service/logic_service_connector_receiver.cpp`
and `..._sender.cpp`: sessions of players, kicks, late disconnect notices,
partial writes.

*Game rules, records, configuration tables* — about 140 thousand lines of
sequential, mostly table-driven content, most of it generated. No concurrency
of their own.

### connector, cross_server, auth_server, shared libraries

*connector* (`server/connector/connector_frame.cpp`): relays packets between
clients and logic servers.
State: a table of client sockets by index, each with its ticket, buffer and
flags; the links to the logic servers.
Hard: an index is used again while answers to it are on their way; a login kicks
an older connection; batches of packets half forwarded.
Correct if: a player gets only what is his, and the newest connection has the
session.

*cross_server* (`server/cross_server`): a team thread with banquets and limit
bosses, matching, rankings; its loop and threads have the shape of the queue
server's.
State of the banquets: guests by banquet and seat, an index by player; on every
game server a copy of the index entry in the player's record.
Hard: requests are checked against the copy and handled against the index;
countdowns end in between; answers are lost with a connection, or on an open
one when a send buffer is full or a player's data cannot be loaded.
Correct if: the two tables agree, and the copy with the index.

*auth_server*: a master that supervises workers
through shared memory. *Shared libraries*: `common_socket.h` (a TCP socket with
its own buffers), `common_codequeue` (a ring buffer of whole messages), thread
and timer utilities. `library/util`, `library/zookeeper`, `include/json` are
third-party code.

### How the parts interact

A player's client asks the queue server every few seconds (heartbeat) until it
is let in and gets a ticket for the connector. The logic server tells the queue
server who has come and who has left, and asks it whether a player who lost his
connection may come straight back. Inside the queue server the main thread and
the processor threads share two kinds of blocking queues and the configuration
pointer, and nothing else that the models depend on. The connector and the
logic server exchange start, transform and disconnect messages over TCP links;
the cross server has one such link to every game server.

## 2. Modules and plan

| Module | What it is | State |
|---|---|---|
| `LoginQueue` | one login queue and the thread that owns it | done |
| `AdmissionQueue` | what a login queue promises (abstract) | done |
| `MCLoginQueue` | configurations of `LoginQueue` for TLC | done |
| `LoginQueueProofs` | theorems about `LoginQueue` | done |
| `QueueServer` | main thread, tables, processor threads, shutdown | done |
| `MCQueueServer` | instances of `QueueServer` for TLC | done |
| `TCPSocket`, `MessageStream` | a connection of `common_socket.h`, and what it promises (abstract) | done |
| `TCPSocketProofs` | theorems about `TCPSocket` | done |
| `GatewaySession`, `MCGatewaySession` | sessions of players between a connector and a logic server | done |
| `GatewaySessionProofs` | theorems about `GatewaySession` | done |
| `Presence` | a logic server's player table and the queue server's containers over a breaking connection | done |
| `Banquet`, `MCBanquet` | the cross server's banquets and the game servers' copies | done |
| `QueueServerProofs` | `TypeOK`, `TablesMatchSockets`, `NoStaleEvent`, `AnswersReachAsker`, `HandledInOrder`, `NothingLostAtStop` for any descriptors, servers, players and processors | done |
| `PresenceProofs` | every safety property of `Presence` for any players and numbers of faults | done |
| `BanquetProofs` | every safety property of `Banquet` for any players, seats and banquets | done |
| `GatewayNewsProofs` | `SessionsExplained` for any players, descriptors and connections | done |
| `GatewayOrderProofs` | `InOrder` for the same | done |
| `LimitBoss` | limit bosses of the cross server's team thread | planned |
| `AuthMaster` | supervision of worker processes | planned |

The order is the weight of the behaviour: first who is let in, then whether
the process around it keeps its promises, then the pieces it stands on, then
whether two servers agree about what both of them keep.

Three modules describe two servers that keep the same fact, and ask the same
question of it: `GatewaySession` (which connection is a player's),
`Presence` (who is there) and `Banquet` (which banquet somebody attends).
`Presence` stands on `LoginQueue`: it uses its containers one player at a time,
which is right because of `OneRole`, a theorem of `LoginQueueProofs`.

## 3. LoginQueue

**State.** The five members of `CQueueServerQueManage` under their own names.
`config` is the current configuration. `fresh` says whether
`m_tmLastRefreshTime` is the current second. `pc` is the position of the
thread in its loop. `reply` is the answer that the last handler produced.

**Actions.** One iteration of `CQueueProcessor::Run` is two steps, as the
clock and the configuration may change in between: `PopAndRefresh` pops a
message and calls `Refresh`, then one of the handlers runs
(`ProcessUserLogin`, `ProcessUserLogout`, `ProcessUserListOnline`,
`HeartbeatCanLogin` / `HeartbeatWaiting` / `HeartbeatJoin` for the three ways
through `ProcessUserQueueHeartbeat`, `ProcessUserReconnectCheck`, `Ignore`).
`Tick` and `SetConfig` are the environment. A heartbeat reads the
configuration twice; `later` is what the second read finds.

**Abstractions.**
- An instant is represented by the seconds left until it, -1 for any that has
  passed: the code only ever compares an instant with the present. This makes
  time unbounded and the state space finite. The two reads of the clock in
  one call of `Refresh` or of a handler give the same second.
- The numbers of the configuration are naturals, as in the files under `Bin`.
- A thread owns the queues of several servers; a message for another one is
  an `Ignore`. `Refresh` walks over all of them, and they share nothing.
- Messages are chosen by the environment: any notification about any player at
  any time. What a game server really sends is the subject of `Presence`.
- The session ticket is encrypted or not (`m_iSvrRsp`).
- `MaxIndex` bounds `m_uMaxIndex`, in the guard of `HeartbeatJoin` alone. The
  wrap-around of the 32-bit counter is out of reach of any bound.

**AdmissionQueue** knows a line (a relation), the players with a seat, the
number of seats, whose turn it is (line or desk) and the last answer at the
desk. Its promises: seats go to the front of the line, or to a newcomer when
nobody waits, and only while there are some; the answer at the desk is what
happened. `LoginQueue` implements it with `Waiting`, the order of the indices,
`Seated`, `m_iMaxOnlineNum`, `pc` and `reply`.

### Runs

| Run | Instance | Shows |
|---|---|---|
| `login_queue` | 3 players, 4 indices, capacity 0, 1 or 2, protections of 0 s and 1 s | `TypeOK`, `OneRole`, `IndexWindow`, `HonestAnswer`, `NoOvertaking`, `CapacityRespected`, `PositionNeverGrows`, the refinement of `AdmissionQueue`, and `EventuallyServed` |

Three players are enough for one in front, one behind and one who leaves or
breaks in; four indices let one be left behind by a player who has gone before
the line empties; three capacities make it shrink below the seats taken, close
and grow again; alive time and protections of 0 and 1 second give both orders of
expiry and refresh. The theorems remove these bounds for the safety properties.

**Fairness** (`FairSpec`, used for `EventuallyServed` only): the thread goes on,
because the main thread puts a wake-up into every queue each five seconds
(`CheckTimers`, `ActiveAllProcessor`) and no handler blocks; time passes.
Seats are not assumed to fall free by themselves: the property asks for
infinitely many refreshes that find one.

## 4. QueueServer

**State.** `sock` is the truth, who is at the other end of each descriptor. The
three tables carry the names of `CQueueRouterManager`. `batch` holds the
events of this `epoll_wait` that are not handled yet, `pc` the position of the
main thread, `iMsgNum` the count of `SendClientMsg`. `msgQueue`, `is_stop`,
`thread` are the processors; `m_stMsgQueue` is the queue of answers. `sent`,
`lastHandled`, `unanswered` and `lost` record history for the properties.

**Actions.** The loop of `Run`: `CheckServerContext`, `Timers`, `EpollWait`, one
action for each way an event is handled (`Accept`, `Refuse`, `SocketError`,
`ServerGone`, `ServerPacket`, `ClientGone`, `ClientPacket`,
`ClientPacketOnly`, `NothingToDo`), then `BeginSend`, one of `DropAnswer`,
`WriteAnswer`, `WriteRefused`, `WriteFails` for each answer, `EndSend`; at the
end `StopProcessor` and `AllStopped`. A thread does `PopFront` and
`HandleMessage`.

**Lost answers.** An answer can be lost while its connection stays up, in four
places: `ProcessUserReconnectCheck` cannot decode the check
(`QueueMsgProcessor.cpp:319`), the answer cannot be encoded (lines 354-365 and
387-391), `send_data` finds no room in the send buffer and `SendClientMsg` does
not look at what it returns (`QueueGameControl.cpp:407`,
`common_socket.h:532`), or a player's later packet named another group than his
first one (`QueueGameControl.cpp:417`). Each of them may happen to any message;
`lost` holds the requests it has happened to, and `RequestsAnswered` excepts
these and no others.

**Abstractions.**
- What a processor does with a message is `LoginQueue`; here a heartbeat and a
  reconnect check produce an answer, a notification does not.
- Peers connect, send and fail at will, and a time-out may hit any connection.
- If one read brings several packets, the event stays in `batch` after the
  first; the events of a batch are handled in any order.
- A wake-up is put into an empty queue only: next to another message it changes
  nothing.
- Which server a group belongs to (`MergeTo`) does not change in a run.
- The content of messages, the zookeeper descriptor, the reload of the
  configuration file and the flag `m_is_sended_data_to_peer` (it selects which
  of two time-outs applies) are left out. So are two defects below the level of
  the model, listed under "hazards": the shared static buffers in which answers
  are encoded, and a write through an iterator after its element is erased.
- `MaxMessages` bounds the messages of a run; with 0 the tables alone are
  explored.

Deadlock is checked in every run; `Terminated` marks the end of the process.

### Runs

| Run | Instance | Shows |
|---|---|---|
| `server_tables` | 3 descriptors, 2 servers, 1 player, 1 message | `TablesMatchSockets`, `NoStaleEvent` |
| `server_messages` | 1 descriptor, 2 servers, a merged group, 2 players, 2 threads, 2 messages | `TypeOK`, `HandledInOrder`, `NothingLostAtStop`, `AnswersReachAsker` |
| `server_liveness` | 1 descriptor, 1 server, a merged group, 1 player, 2 threads, 2 messages, fair | `ShutdownCompletes`, `RequestsAnswered` |
| `server_timed_out` | 2 descriptors, no messages | a violation of `TimedOutIsClosed`: finding 1 |
| `server_repeat` | 3 descriptors, 2 servers, no messages | a violation of `OnlyRepeatsClosed`: finding 2 |

Three descriptors allow a stale one, a live one that reuses it and a third that
is being accepted; the message lets a write fail, which closes the socket and
leaves its entry. One descriptor in `server_messages` forces every later
connection onto the descriptor of an earlier request, and two servers, one of
them with a merged group, send about the same queue: an answer reaches the
player or server that asked, at worst on a later connection of his, which the
tables cannot tell from the first. Two messages are the least that can be
handled out of order, and one can be under way while the other is sent. In the
liveness run the player's two messages may name two groups of the one server.

**Fairness**: each thread takes a step when it can. The main thread does not
block for long: `epoll_wait` has a time-out of 100 ms and the sockets do not
block. A processor is woken by `emplace_back` or by `stop`.

## 5. TCPSocket

One connection of `common_socket.h` between a `CTCPSocket` that sends and one
that receives, with the kernel between them.

**State.** `m_send_buffer` and `m_send_head` of the sender's object,
`m_recv_buffer` and `m_recv_head` of the receiver's, and whether each socket is
open (`s_status`, `r_status`); `draining` says that the receiver's caller is in
its loop of `get_one_code`. `wire` is what the kernel holds, `link` the state
of the connection. A byte is its position in the stream, so that no two bytes
are alike. `accepted`, `consumed`, `codes` and `data` record what `send_data`
took and what `get_one_code` gave out.

**Actions.** `send_data` is `SendData`, one disjunct for each way through it
(append behind the pending bytes, compact and append, refuse, write directly),
and `SendError`; the kernel takes bytes until it holds `WireCapacity`.
`recv_data` is `RecvBytes`, `RecvFull` or `RecvClosed`: together the action
`RecvData`, `get_one_code` is `GetOneCode`; `Connect`, the closes and `Reset`
are the environment. `MessageStream` is the abstract connection: whole
messages, in order, at most once.

**Bounds.** A buffer of 5 bytes, a largest package of 3, messages of 2, 3 and 5
bytes, a kernel that takes 3: a message fits exactly, fits only after
compaction, does not fit, and is larger than the package. `MaxBytes` ends the
run. No message is larger than the send buffer (`TCPSocketAssumption`): with nothing
pending, `send_data` copies what the kernel does not take of such a message
without asking whether it fits (`common_socket.h:575`), so `BuffersFit` is about
the messages the buffer was made for. `common_base.h:54` asks the same of the
callers: the buffer is 2 MB, and must be larger than the largest package.

| Run | Shows |
|---|---|
| `socket_stream` | `TypeOK`, `BuffersFit`, `StreamInOrder`, `NeverFull`, `OversizedBlocks`; `StreamSpec`: the two ends implement `MessageStream`; `TakenIsDelivered`: what the kernel has taken comes out |

**Fairness**: the receiver reads while there is something to read (epoll is
level-triggered there) and takes out messages until there are none (the loop of
`DispatchMessage`). The sender is not assumed to send again.

## 6. GatewaySession

Clients, the connector's table of sockets, the logic server's table of players
and the two TCP links between the servers.

**State.** `socket` is `m_stSocketInfo`, by descriptor; `conn` in it is the
number of the accepted connection, which stands for the client's address.
`users` is the logic server's `m_stUserContainer`, by uin. `up` and `down` are
the links, `busy` and `at` the place of `transfer_code` in its batch. `owner`
says whose ticket each connection holds. The other variables record history.

**Actions.** `Accept`, `RecvClientMessages`, the ways through one packet in
`transfer_code` and `transfer_one_code` (`TransferRequest`,
`TransferHeartbeat`, `TransferRejected`, `TransferGarbage`, `TransferBadSize`,
`TransferRefused`, `TransferEnds`, `TransferDone`), `ClientCloses`,
`CheckSelf`; in the logic server `HandleStart`, `HandleTransform`,
`HandleDisconnect`; back in the connector `DeliverAnswer`, `DeliverClose`;
`Break` is a link that fails.

**Abstractions.** One logic server and one connector. The links are FIFO, as
TCP is. A time-out may come at any time. The logic server answers a request
with one message, closes the connection (after the answer, for a banned account),
or does neither: for a group of another server, without a link to the
connector, when the protection of minors stops the player, when the request's
handler cannot decode it, and while a reconnect waits for the queue server
(`logic_game_processor_base.cpp:80-205`, `logic_game_reconnect_processor.cpp:94`).
`dropped` holds the connections whose first request met such an end, and
`LoginIsAnswered` excepts these and no others. The connector's thread takes the packets of a batch one by
one and does nothing else between them, as the code does. The variant of the
close notice that names only a uin is never sent by the logic server.

| Run | Instance | Shows |
|---|---|---|
| `gateway_safety` | 2 players, 2 descriptors, 3 connections, 1 break | `TypeOK`, `OwnAnswers`, `OwnSessions`, `SessionsExplained` |
| `gateway_liveness` | 1 player, 2 descriptors, 2 connections, requests and heartbeats, batches of 2, a refusal, fair | `InOrder`, `LoginIsAnswered` |
| `gateway_newest` | 1 player, 2 descriptors, 2 connections | a violation of `NewestHasSession`: finding 3 |

Three connections on two descriptors make a descriptor serve two connections
while an answer for either is on its way, and one connection can kick another.
`Kinds` bounds what clients send: packets that cannot be read close the
connection, which is in the safety run and would only add other ways out to the
liveness run.

**Fairness**: the connector works through its batch and the link, the logic
server through its own link; both are loops over `epoll_wait` with a time-out.
Nothing is assumed of clients, time-outs and faults.

## 7. Presence

The player table of a game server, the queue server's containers, and the
connection between them.

**State.** `users` is `m_stUserContainer`, `m_stUserQueueTag` the set of that
name, `connected` the state of the game server's socket and `link` that of the
connection: they differ from a break until it is noticed. `toQueue` and
`toLogic` are the messages under way. `place` is the container of `LoginQueue`
a player is in. `refused`, `waits`, `missed` and `lost` record history.

**Actions.** `Login`, `Relogin` and `Logout` are `start_request` and
`disconnect_notify` in `logic_service_connector_receiver.cpp`, with the notices
`CLogicUser` sends: a login over a session sends three. `ReconnectRefused`,
`ReconnectAtOnce`, `ReconnectCheck` are the ways through `DoUserRun` of the
reconnect processor, `HandleAnswer` is `DoServerRunUserReconnectCheck`. The queue
server has `HandleNotice`, `HandleCheck`, `Heartbeat` and `Refresh`. `Cut`,
`NoticeCut`, `RefreshQueueConn`, `LogicRestarts` and `QueueRestarts` are the
faults and the way back: the first message of a new connection is the list of
everybody on line.

**Abstractions.** The switch of the queue and the time since a player's last
logout may have any value at any time; so may the queue server's clock, line and
capacity. A connection is FIFO until it breaks; what it holds then is lost to
the game server, while the queue server still reads what it has received. A full
send buffer of the game server refuses one message (`MaxRefusals`); not the
first list of a new connection, whose buffer is empty. Logins, reconnect
requests and faults are bounded.

A returning player waits for an answer that is sent once. While the connection
is up it is lost if the game server's send buffer is full, if the queue server
cannot decode the check, if its own send buffer is full
(`QueueGameControl.cpp:407` does not look), if the game server cannot decode the
answer, or if it cannot load the player's data
(`logic_game_reconnect_processor.cpp:136-163`). `HandleCheck` and `HandleAnswer`
may lose any answer; `lost` names the players it has happened to since their
last check, and `ReconnectIsAnswered` excepts them.

| Run | Instance | Shows |
|---|---|---|
| `presence` | 2 players, 2 logins, 1 reconnect request, 2 faults, 1 refusal, fair | `TypeOK`, `OnlineIsCounted`, `DifferenceExplained`, `RefusedHasNoSeat`, `LogoutIsProtected`, `ReconnectIsAnswered`, `PresenceIsRestored` |

Two logins let one player come twice, or both once; two faults let the
connection break again while it is being restored, or a server restart during a
break. `OnlineIsCounted` needs the list; `DifferenceExplained` says what the list
cannot repair: a lost logout stays until the player comes back.

**Fairness**: both servers read what arrives in loops with a time-out
(`EpollRunning`, `DispatchMessage`); the game server notices a closed socket when
it reads or sends (a heartbeat every 30 s) and connects again every 10 s
(`RefreshQueueConn`). Nothing is assumed of players.

## 8. Banquet

The banquets of the cross server's team thread, and the game servers that send
it their players' requests.

**State.** `m_stUinToTeamID` is the index from a player to the banquet he gives
and the one he attends, `m_stTeamMap` the banquets with their guests by seat,
`copy` the ids in each player's record on his game server. `up` and `down` are
the requests and answers under way. `stuck` says that the thread is in a loop it
never leaves. `synced` and `astray` record history.

**Actions.** `AskCreate`, `AskJoin`, `AskQuit`, `AskIds` are the requests, with the
checks against the copy; `CreateOrUpdateTeam`, `JoinTeam`,
`ProcessBanquetQuitTeam`, `ProcessBanquetUpdateLogin` handle them; `RefreshTeam`
is the walk over all banquets and guests once a second; the five `DoServerRun...`
actions are the answers, each of which overwrites the copy. `Break` is a broken
connection; `SendRefused` and `DoServerProcessFails` lose one answer on an open
one: `SendClientMsg` ignores a full send buffer (`GameControl.cpp:271`), and
`DoServerProcess` returns before the answer is handled when the player's group
is not its own or his data cannot be loaded
(`logic_game_processor_base.cpp:329-365`).

**Abstractions.** Each player has a game server, and so a connection, of his own.
The clock is open: whether a countdown or a banquet is over is chosen each time
the code asks, the same for the whole of one `RefreshTeam`. Items, homes, cards
and invitations can refuse a request and do nothing else to this state. A banquet's
id is the player's number followed by the seconds divided by 1000, here a
pair of the player and one of `Windows` windows; the number of digits of the
second part is constant, so two pairs never give one number. The notification of
a banquet's guests changes no state (`DoServerRunBanquetInfoNotify` changes a
local copy) and is left out. A joining guest takes the first free seat: the order
of the seats only tells which of a player's own two seats at his own banquet he
quits. Some players give a banquet in the initial state, which the bound
`MaxSteps` on requests, breaks and lost answers would not reach often enough.

| Run | Instance | Shows |
|---|---|---|
| `banquet` | 2 players, 2 seats, 2 windows, 3 requests, breaks or lost answers | `TypeOK`, `SeatsIndexed`, `InSync` |

Three requests let a player join, quit and join again, or return and act upon
what he is told, with the answer in between lost. After a loss a copy is wrong
until the player's ids are sent again, as they are when he logs in or reconnects:
`synced` is false
for whom it may be wrong, and `InSync` is about the others. `SeatsIndexed` excepts players who quit one banquet while they
attend another (`astray`): see "Findings".

## 9. Findings

Each of these is a run that TLC ends with a counterexample.

1. **`TimedOutIsClosed`** — `CheckClientAlive` logs "so close it!" and erases
   the entry without closing the descriptor (`QueueGameControl.cpp:311-314`,
   `325-328`).
2. **`OnlyRepeatsClosed`** — `AddServerConnection` finds the "repeat" connection
   of a server by a descriptor that may belong to another server by now, and
   closes that one (`QueueAppConfig.cpp:96-103`).
3. **`NewestHasSession`** — `disconnect_notify` deletes the player by uin; the
   late notice for a kicked connection takes the session of the one that
   kicked it (`logic_service_connector_receiver.cpp:355`).

Further disagreements, met while modelling and without a run of their own:

- The number in the heartbeat's answer is documented as the number of players
  ahead (`QueueMsgProcessor.h:26`, `server_cross_protocol.h:799`). It is the
  distance of the player's index from the window, and counts indices whose
  owners have left. It is an upper bound (`HonestAnswer`), and never grows
  (`PositionNeverGrows`).
- `send_data` copies a message behind pending bytes and reports success
  (`common_socket.h:518`). Pending bytes leave only with the next call.
- When the link refuses a packet in the middle of a batch, `transfer_code`
  returns without moving the buffer, and the packets already forwarded are
  forwarded again (`connector_frame.cpp:1353`). `InOrder` holds nevertheless.
- `InvalidConnection` is documented as "no data has been exchanged with the
  backend" (`common_msg_head_connector.h:21`), but is used for connections whose
  requests were forwarded: their sessions stay. `SessionsExplained` names them.
- The uin is compared in case a connection index was used again
  (`connector_frame.cpp:1763`); a player who has his own index again gets the
  notice meant for his old connection.
- A heartbeat marks a connection as used although it is not forwarded, so its
  first request is sent as a later one and dropped (`connector_frame.cpp:1187`).
- `ProcessBanquetQuitTeam` checks that the player attends some banquet, and not
  that it is the one he quits (`TeamProcessor.cpp:277`). A game server with an
  outdated copy may ask for it: the guest keeps a seat that the index does not
  know. If the index has no entry for him when his countdown ends, `RefreshTeam`
  neither removes him nor goes on to the next guest (line 481), and the team
  thread never returns. The state `stuck` is reachable in `Banquet`;
  `SeatsIndexed` states that this is the only way to it.
- `CTeamProcessor::Stop` writes its dump file before it stops the thread
  (`TeamProcessor.cpp:53`).

## 10. Proofs

### LoginQueue and TCPSocket

`LoginQueueProofs` proves, for any finite set of players, any set of
configurations and any `MaxIndex`, that every behaviour of `LoginQueue`
satisfies every safety property of `login_queue` and implements
`AdmissionQueue`. The assumptions are those named in `LoginQueue`
(`UsersAssumption`, `ConfigsAssumption`, `MaxIndexAssumption`).

- The inductive invariant is `Inv == TypeOK /\ OneRole /\ IndexWindow`. Neither
  part is inductive alone: that a player who joins is new to the window needs
  the upper bound of all indices; that a refresh keeps the remaining indices
  above the new lower bound needs both the window before the step and the types
  of the seat counts; that an admitted player is in no other container needs
  `OneRole` before. `InitInv`, `NextInv` (one lemma for each handler) and
  `Invariance` establish it.
- `AnswersHonest` needs a second invariant, `ReplyInv`: the last answer is in
  keeping with the containers until the next message, whatever time and
  reloads do. That the number bounds the players ahead is a counting argument
  (`WindowCount`): distinct indices below a bound inject into the interval
  between the window's lower end and that bound.
- `LineRespected` and `CapacityKept` start from `WhoIsSeated`, the two ways to
  get a seat. The capacity of a refresh is `WindowCount` again: at most
  `AllowNum` indices lie in the window.
- `PositionMonotone` follows the lower bound through every step; it is reset
  only when nobody waits.
- `Refinement` maps each action to one of the abstract specification
  (`StepRefines`); `Tick` and a refresh that does nothing need care: the latter
  is a round of admissions that admits nobody.

`TCPSocketProofs` proves the safety properties of `socket_stream` and the
refinement of `MessageStream` for any sizes and capacities. Beside the
properties its inductive invariant holds three facts: the messages of a stream
follow each other without a gap and the reader stands at the first byte of one
(`Framed`); a receiver that has finished its loop leaves no whole message of a
legal size behind (`Drained`); the wire holds no more than the kernel takes
(`WireFits`).

### GatewaySession

Three modules, for any players, descriptors and bounds (`NobodyAssumption`,
`BoundsAssumption`).

- `GatewaySessionProofs` proves `TypeOK`, `OwnAnswers` and `OwnSessions`. What is
  inductive is that the uin in a socket is the owner of its connection's ticket
  (`Tickets`), and that every message on a link carries the uin of the
  connection it names (`OwnedUp`, `OwnedDown`, `OwnedSent`). It also proves
  `OneSocket`, that no connection is on two descriptors, for the other two.
- `GatewayNewsProofs` proves `SessionsExplained`: while nothing is lost, a player
  in the logic server's table has a live connection, or the news of its end is
  under way. That is no invariant by itself: a `start` still on the link will
  make a session later. `News` adds the same fact for every `start`, with the news
  behind it on the link (`StartsHeld`); that a connection sends one `start`
  (`StartsOnce`), and none before its first packet is taken (`NotYet`); and that
  a connection which the logic server closes itself, and which therefore goes
  without a notice, has no session any more (`ClosedFor`).
- `GatewayOrderProofs` proves `InOrder`. `Order` follows a packet on its way: the
  buffer is the end of what the client has sent (`BufferTail`), what lies before
  the place `transfer_code` has reached is handled or on the link (`BeforeSeen`),
  and a message on the link comes after everything sent before it (`UpOrder`). A
  refused packet makes the whole batch go up again, so nothing in `Order` says
  that a number occurs once: duplicates are behind their first occurrence.

### QueueServer

`QueueServerProofs` proves every safety property of `server_tables` and
`server_messages` for any descriptors, servers, players, groups, processors and
number of messages. It assumes what the model names: `FdsAssumption`,
`PeersAssumption` and `BoundsAssumption`. The invariant has three parts.

- `TablesInv`: a player's entry, and a connected one of a server, is of the peer
  on the socket; a connected entry of a server is the one `m_stServerIDToFd` leads
  to, so that there is at most one.
- `QueuesInv`: what waits for a processor belongs to it, is later than all that
  has been handled about the same server, and stands in the order of dispatch
  behind the message its thread is handling. A processor that has ended has an
  empty queue. `HandledInOrder` and `NothingLostAtStop` rest on it.
- `LoopInv`: the events of a batch are handled in any order, and a handler may
  close a socket and the next one accept a connection on its descriptor. While
  the listening socket has an event to come the other descriptors of the batch
  are still open: until a connection is accepted, a handler closes no descriptor
  but that of its event. The new descriptor is therefore none of the batch:
  `NoStaleEvent`.

`AnswersReachAsker` needs both tables: before it writes, `SendClientMsg` compares
an answer with the entry of its descriptor, and by `TablesInv` that entry is of
whoever is on the socket now.

### Presence

`PresenceProofs` proves `TypeOK`, `OnlineIsCounted`, `DifferenceExplained`,
`RefusedHasNoSeat` and `LogoutIsProtected` for any players and numbers of
logins, requests, faults and refusals (`PresenceAssumption`). The
properties speak of a connection on which nothing is under way. They are
inductive as soon as they say, at every moment, what the messages under way lead
to: whoever has left is gone when they have been handled (`GoneIsKnown`), whoever
is there is on line (`OnlineIsKnown`), unless a notice about him was lost. That is
decided by the last notice about a player (`Gone`, `Online`); whether he has a
seat also by the one before (`Left`), because a logout protects the place only of
somebody who is on line when it is handled. `TagIsRefusal` says that the tag is the
present session's.

### Banquet

`BanquetProofs` proves `TypeOK`, `SeatsIndexed` and `InSync` for any finite set of
players, any number of seats and of windows (`BanquetAssumption`; an id
is a pair, so it is never 0).

- `RefreshTeam` is two nested loops, here two recursive functions over the seats
  of a banquet and over the banquets. The invariant is proved between any two
  turns, for the tables and answers as they are then, including a loop that is
  stuck. As no induction schema can be instantiated, `Least` and `Stepwise` take
  the least counterexample of a set of numbers instead.
- `Tables`: a player sits as often at a banquet as the fields of his entry name
  it. Both are counted (`Sits`, `Named`), since somebody with two seats at his
  own banquet who quits clears one field and leaves one seat, and which ones is
  of no account.
- `Copies`: a copy is overwritten by every answer. What it will be is what the
  last answer under way that writes a field says, or what it is if none does.
  That equals the index, for every player to whom no answer was lost since his
  ids were last sent. An answer that writes the whole copy makes up for what was
  lost before it (`AnswersLost`), whether the first answers are lost with the
  connection (`StepBreak`) or one from the middle without (`StepLoseAnswer`).

### Model-checked only

Liveness rests on fairness and `ENABLED`, which the prover cannot treat:
`EventuallyServed`, `ShutdownCompletes`, `RequestsAnswered`, `TakenIsDelivered`,
`LoginIsAnswered`, `ReconnectIsAnswered` and `PresenceIsRestored` are shown on the
instances above. So are the three violations of section 9. Every safety
property of a passing run, and both refinements, are theorems.

## 11. Not modelled, and why

- *Game rules, records and configuration tables of the logic server*: about 140
  thousand lines of sequential content, mostly generated: each processor reads
  and writes one player's record. Their correctness is a matter of the tables,
  which are not in the repository's code.
- *Alert threads, HTTP parts, zookeeper sessions, configuration parsing*: I/O.
- *Encryption of tickets, third-party libraries, command-line tools.*
- *Ring buffer of messages* (`common_codequeue`): included by
  `QueueProcessor.h` and used by nothing in the tree, so that there is no caller
  to say what it is given.
- *Cross server*: limit bosses, matches, rankings and the dump file. The file is
  read after a restart, and no code says what the game servers' copies should hold
  then.
- *auth_server*: the supervision of its workers is a module of the plan.
- *Connector*: several logic servers behind one connector.
