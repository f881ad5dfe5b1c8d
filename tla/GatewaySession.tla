-------------------------- MODULE GatewaySession --------------------------
(***************************************************************************)
(* Players behind the gateway: the connector (CConnFrame, one thread), the *)
(* logic server's table of players (CLogicUser) and the two TCP links      *)
(* between them.                                                           *)
(*                                                                         *)
(* The connector's table of sockets is indexed by file descriptor, and a   *)
(* descriptor is used again as soon as it is closed.  The logic server     *)
(* knows a player by his uin and remembers the descriptor (the connection  *)
(* index) and the client's address, here the number of the connection.     *)
(* The two tables are kept in step only by messages: the first packet of   *)
(* a connection goes up as start_request, later ones as transform_request, *)
(* a closed connection as disconnect_notify.                               *)
(***************************************************************************)
EXTENDS Naturals, Sequences

CONSTANTS Uins,         \* the players
          NoUin,        \* m_uin of a socket nobody has logged in on
          Fds,          \* the file descriptors of client sockets
          NoFd,         \* no socket
          Kinds,        \* bound: the kinds of packets the clients send
          MaxConns,     \* bound: connections accepted
          MaxPackets,   \* bound: packets a client sends on a connection
          MaxBatch,     \* bound: packets read by one recv
          MaxRefusals,  \* bound: times SendData to the logic server fails
          MaxBreaks     \* bound: times a link breaks

ASSUME BoundsAssumption == /\ MaxConns \in Nat
                           /\ MaxPackets \in Nat
                           /\ MaxBatch \in Nat
                           /\ MaxRefusals \in Nat
                           /\ MaxBreaks \in Nat

ASSUME NobodyAssumption == NoUin \notin Uins /\ NoFd \notin Fds

ASSUME KindsAssumption ==
  Kinds \subseteq {"request", "heartbeat", "garbage", "badsize"}

Conns == 1 .. MaxConns
Numbers == 1 .. MaxPackets
Packets == [kind : Kinds, uin : Uins]

VARIABLES
  socket,     \* m_stSocketInfo, by file descriptor
  owner,      \* whose ticket each accepted connection holds
  sent,       \* the packets the client of each connection has sent
  busy, at,   \* the socket transfer_code works on, packets already done
  up, down,   \* the links connector -> logic server and back
  users,      \* CLogicUser::m_stUserContainer, by uin
  latest,     \* history: the last connection whose start was handled
  handled,    \* history: packets given to ProcessUserMessage
  dropped,    \* history: connections whose start was neither answered nor closed for
  delivered,  \* history: what clients have been sent
  silent,     \* history: a connection in use was closed unreported
  refusals, breaks

connector == <<socket, owner, sent, busy, at>>
logic == <<users, latest, handled, dropped>>
faults == <<refusals, breaks>>
vars == <<connector, up, down, logic, delivered, silent, faults>>

Free == [conn |-> 0, uin |-> NoUin, recved |-> FALSE, sended |-> FALSE,
         buffer |-> <<>>]
Absent == [conn |-> 0, index |-> NoFd]

Init ==
  /\ socket = [f \in Fds |-> Free]
  /\ owner = <<>>
  /\ sent = [c \in Conns |-> <<>>]
  /\ busy = NoFd /\ at = 0
  /\ up = <<>> /\ down = <<>>
  /\ users = [u \in Uins |-> Absent]
  /\ latest = [u \in Uins |-> 0]
  /\ handled = [c \in Conns |-> <<>>]
  /\ dropped = {}
  /\ delivered = {}
  /\ silent = FALSE
  /\ refusals = 0 /\ breaks = 0

Open(c) == \E f \in Fds : socket[f].conn = c
Quiet == up = <<>> /\ down = <<>>

---------------------------------------------------------------------------
(* Closing a connection *)

\* A plausible slip: the close the client asked for goes unreported too.
UnreportedClient == {"Service", "InvalidConnection", "InvalidSignature",
                     "Client"}

Unreported == {"Service", "InvalidConnection", "InvalidSignature"}


\* SendData to the logic server: the message is queued, or refused.
Send(m) ==
  \/ /\ up' = Append(up, m)
     /\ UNCHANGED refusals
  \/ /\ refusals < MaxRefusals
     /\ refusals' = refusals + 1
     /\ UNCHANGED up

\* A plausible slip: m_recv_bytes is not reset.
FreeKeepsBuffer(f) == [conn |-> 0, uin |-> NoUin, recved |-> FALSE,
                       sended |-> FALSE, buffer |-> socket[f].buffer]

Freed(f) == Free

\* clear_current_socket: unless the reason says that the logic server need
\* not know, a disconnect_notify carries the uin up; the entry is reset.
ClearCurrentSocket(f, reason) ==
  /\ IF reason \in Unreported
     THEN UNCHANGED <<up, refusals>>
     ELSE Send([type |-> "disconnect", index |-> f, conn |-> 0,
                uin |-> socket[f].uin, number |-> 0])
  /\ socket' = [socket EXCEPT ![f] = Freed(f)]
  /\ silent' = (silent \/ (socket[f].recved /\ reason = "InvalidConnection"))
  /\ UNCHANGED <<owner, sent, breaks>>

ByClient(f) == IF socket[f].recved THEN "Client" ELSE "InvalidConnection"
ByTimeout(f) == IF socket[f].sended
                THEN "ClientTimeOut" ELSE "InvalidConnection"

\* recv_client_messages with a recv of zero or less, and EPOLLERR.
ClientCloses(f) ==
  /\ busy = NoFd
  /\ socket[f].conn # 0
  /\ ClearCurrentSocket(f, ByClient(f))
  /\ UNCHANGED <<busy, at, down, logic, delivered>>

\* check_self: the client has been idle, or has not been answered, for too
\* long.
CheckSelf(f) ==
  /\ busy = NoFd
  /\ socket[f].conn # 0
  /\ ClearCurrentSocket(f, ByTimeout(f))
  /\ UNCHANGED <<busy, at, down, logic, delivered>>

---------------------------------------------------------------------------
(* Packets from the clients *)

Accept(f, u) ==
  /\ busy = NoFd
  /\ socket[f].conn = 0
  /\ Len(owner) < MaxConns
  /\ owner' = Append(owner, u)
  /\ socket' = [socket EXCEPT ![f].conn = Len(owner) + 1,
                              ![f].uin = NoUin,
                              ![f].recved = FALSE,
                              ![f].sended = FALSE]
  /\ UNCHANGED <<sent, busy, at, up, down, logic, delivered, silent, faults>>

\* One recv: some more packets of the client come behind those in the buffer.
RecvClientMessages(f) ==
  LET c == socket[f].conn IN
  /\ busy = NoFd
  /\ c # 0
  /\ \E k \in 1 .. MaxBatch : \E new \in [1 .. k -> Packets] :
       /\ Len(sent[c]) + k <= MaxPackets
       /\ sent' = [sent EXCEPT ![c] = @ \o new]
       /\ socket' = [socket EXCEPT ![f].buffer =
                       @ \o [i \in 1 .. k |-> Len(sent[c]) + i]]
  /\ busy' = f
  /\ at' = 0
  /\ UNCHANGED <<owner, up, down, logic, delivered, silent, faults>>

Current == socket[busy]
HasPacket == busy # NoFd /\ at < Len(Current.buffer)
Number == Current.buffer[at + 1]
Packet == sent[Current.conn][Number]

TransferEnds(reason) ==
  /\ ClearCurrentSocket(busy, reason)
  /\ busy' = NoFd
  /\ at' = 0
  /\ UNCHANGED <<down, logic, delivered>>

\* The length in front of the packet is out of range.
TransferBadSize == /\ HasPacket
                   /\ Packet.kind = "badsize"
                   /\ TransferEnds("DataError")

\* The client header cannot be decoded.
TransferGarbage ==
  /\ HasPacket
  /\ Packet.kind = "garbage"
  /\ TransferEnds(IF Current.recved THEN "DataError" ELSE "InvalidSignature")

WellFormed == HasPacket /\ Packet.kind \in {"request", "heartbeat"}

\* A plausible slip: the uin in the header of a first packet is believed.
TrustedByHeader == ~Current.recved \/ Packet.uin = Current.uin

\* First packet: the ticket must be the named player's; later packets must
\* name the player of the first.
Trusted == Packet.uin = IF Current.recved THEN Current.uin
                        ELSE owner[Current.conn]

TransferRejected ==
  /\ WellFormed
  /\ ~Trusted
  /\ TransferEnds(IF Current.recved THEN "InvalidConnection"
                  ELSE "InvalidSignature")

\* A heartbeat is not forwarded, but counts as the first packet.
TransferHeartbeat ==
  /\ WellFormed /\ Trusted
  /\ Packet.kind = "heartbeat"
  /\ socket' = [socket EXCEPT ![busy].uin = Packet.uin,
                              ![busy].recved = TRUE]
  /\ at' = at + 1
  /\ UNCHANGED <<owner, sent, busy, up, down, logic, delivered, silent,
                 faults>>

Forwarded == [type |-> IF Current.recved THEN "transform" ELSE "start",
              index |-> busy, conn |-> Current.conn, uin |-> Packet.uin,
              number |-> Number]

TransferRequest ==
  /\ WellFormed /\ Trusted
  /\ Packet.kind = "request"
  /\ up' = Append(up, Forwarded)
  /\ socket' = [socket EXCEPT ![busy].uin = Packet.uin,
                              ![busy].recved = TRUE]
  /\ at' = at + 1
  /\ UNCHANGED <<owner, sent, busy, down, logic, delivered, silent, faults>>

\* A plausible slip: the refused packet is taken out of the buffer.
TransferRefusedDrops ==
  /\ WellFormed /\ Trusted
  /\ Packet.kind = "request"
  /\ refusals < MaxRefusals
  /\ refusals' = refusals + 1
  /\ socket' = [socket EXCEPT
       ![busy].uin = Packet.uin,
       ![busy].buffer = SubSeq(@, at + 2, Len(@))]
  /\ busy' = NoFd
  /\ at' = 0
  /\ UNCHANGED <<owner, sent, up, down, logic, delivered, silent, breaks>>

\* SendData fails: transfer_code returns at once and leaves the buffer as it
\* is, the packets already forwarded included.
TransferRefused ==
  /\ WellFormed /\ Trusted
  /\ Packet.kind = "request"
  /\ refusals < MaxRefusals
  /\ refusals' = refusals + 1
  /\ socket' = [socket EXCEPT ![busy].uin = Packet.uin]
  /\ busy' = NoFd
  /\ at' = 0
  /\ UNCHANGED <<owner, sent, up, down, logic, delivered, silent, breaks>>

\* Every packet is done: what was handled leaves the buffer.
TransferDone ==
  /\ busy # NoFd
  /\ at = Len(Current.buffer)
  /\ socket' = [socket EXCEPT ![busy].buffer = <<>>]
  /\ busy' = NoFd
  /\ at' = 0
  /\ UNCHANGED <<owner, sent, up, down, logic, delivered, silent, faults>>

TransferCode == \/ TransferBadSize \/ TransferGarbage \/ TransferRejected
                \/ TransferHeartbeat \/ TransferRequest \/ TransferRefused
                \/ TransferDone

---------------------------------------------------------------------------
(* The logic server *)

ToPlayer(type, session, u, number, cause) ==
  [type |-> type, index |-> session.index, conn |-> session.conn,
   uin |-> u, number |-> number, cause |-> cause]

Drops(m) == dropped' = IF m.type = "start" THEN dropped \cup {m.conn} ELSE dropped

\* ProcessUserMessage for a player who has a session.  A body that cannot be
\* read closes the connection, a banned account is told so and closed.  Nothing
\* goes back, and the session stays, for a group of another server, without a
\* link to the connector, when the protection of minors stops the player, when
\* the request's handler cannot decode it, and for a reconnect that waits for
\* the queue server (see Presence).
Process(m, session, before) ==
  LET To(type) == ToPlayer(type, session, m.uin, m.number, m.conn) IN
  /\ handled' = [handled EXCEPT ![m.conn] = Append(@, m.number)]
  /\ \/ /\ down' = down \o before \o <<To("answer")>>
        /\ users' = [users EXCEPT ![m.uin] = session]
        /\ UNCHANGED dropped
     \/ /\ \E told \in {<<To("close")>>, <<To("answer"), To("close")>>} :
             down' = down \o before \o told
        /\ users' = [users EXCEPT ![m.uin] = Absent]
        /\ UNCHANGED dropped
     \/ /\ down' = down \o before
        /\ users' = [users EXCEPT ![m.uin] = session]
        /\ Drops(m)

\* A request of a player who is not in the table is dropped.
HandleTransform ==
  /\ up # <<>> /\ Head(up).type = "transform"
  /\ up' = Tail(up)
  /\ LET m == Head(up) IN
       IF users[m.uin] = Absent
       THEN /\ handled' = [handled EXCEPT ![m.conn] = Append(@, m.number)]
            /\ UNCHANGED <<users, down, dropped>>
       ELSE Process(m, users[m.uin], <<>>)
  /\ UNCHANGED <<connector, latest, delivered, silent, faults>>

\* A plausible slip: the insertion that found an entry is taken for done.
HandleStartKeepsOld ==
  /\ up # <<>> /\ Head(up).type = "start"
  /\ up' = Tail(up)
  /\ LET m == Head(up)
         new == [conn |-> m.conn, index |-> m.index]
         old == users[m.uin]
     IN /\ Process(m, IF old = Absent THEN new ELSE old, <<>>)
        /\ latest' = [latest EXCEPT ![m.uin] = m.conn]
  /\ UNCHANGED <<connector, delivered, silent, faults>>

\* The player's session is the new connection; if he had one, it is told
\* that he has logged in again.
HandleStart ==
  /\ up # <<>> /\ Head(up).type = "start"
  /\ up' = Tail(up)
  /\ LET m == Head(up)
         new == [conn |-> m.conn, index |-> m.index]
         old == users[m.uin]
         logout == ToPlayer("logout", old, m.uin, 0, m.conn)
     IN /\ Process(m, new, IF old = Absent THEN <<>> ELSE <<logout>>)
        /\ latest' = [latest EXCEPT ![m.uin] = m.conn]
  /\ UNCHANGED <<connector, delivered, silent, faults>>

\* disconnect_notify: the player leaves the table, whichever connection his
\* session is on.
HandleDisconnect ==
  /\ up # <<>> /\ Head(up).type = "disconnect"
  /\ up' = Tail(up)
  /\ users' = [u \in Uins |-> IF u = Head(up).uin THEN Absent ELSE users[u]]
  /\ UNCHANGED <<connector, down, latest, handled, dropped, delivered, silent,
                 faults>>

Logic == HandleTransform \/ HandleStart \/ HandleDisconnect

---------------------------------------------------------------------------
(* process_code_from_service *)

\* A plausible slip: any open connection on the descriptor will do.
SameSocket(m) == socket[m.index].conn # 0

\* The descriptor may be another player's by now: the uin must agree.
SamePlayer(m) == socket[m.index].uin = m.uin

\* What the client of a connection has been sent, or closed with.
Reached(m) == [type |-> m.type, conn |-> socket[m.index].conn, uin |-> m.uin,
               number |-> m.number, cause |-> m.cause]

DeliverAnswer ==
  /\ busy = NoFd
  /\ down # <<>> /\ Head(down).type \in {"answer", "logout"}
  /\ down' = Tail(down)
  /\ LET m == Head(down) IN
     \/ /\ SamePlayer(m)
        /\ socket' = [socket EXCEPT ![m.index].sended = TRUE]
        /\ delivered' = delivered \cup {Reached(m)}
        /\ UNCHANGED <<owner, sent, up, silent, faults>>
     \/ /\ SamePlayer(m)
        /\ ClearCurrentSocket(m.index, "Client")  \* the write fails
        /\ UNCHANGED delivered
     \/ /\ ~SamePlayer(m)
        /\ UNCHANGED <<socket, owner, sent, up, delivered, silent, faults>>
  /\ UNCHANGED <<busy, at, logic>>

\* force_close_connection names the client's address.
DeliverClose ==
  /\ busy = NoFd
  /\ down # <<>> /\ Head(down).type = "close"
  /\ down' = Tail(down)
  /\ LET m == Head(down) IN
       IF socket[m.index].conn = m.conn
       THEN /\ ClearCurrentSocket(m.index, "Service")
            /\ delivered' = delivered \cup {Reached(m)}
       ELSE UNCHANGED <<socket, owner, sent, up, delivered, silent, faults>>
  /\ UNCHANGED <<busy, at, logic>>

Deliver == DeliverAnswer \/ DeliverClose

---------------------------------------------------------------------------
(* The links *)

\* A link breaks and is connected again: what was on its way is lost, and
\* neither table is touched.
Break ==
  /\ breaks < MaxBreaks
  /\ breaks' = breaks + 1
  /\ \/ up' = <<>> /\ UNCHANGED down
     \/ down' = <<>> /\ UNCHANGED up
  /\ UNCHANGED <<connector, logic, delivered, silent, refusals>>

Next ==
  \/ \E f \in Fds : \/ ClientCloses(f) \/ CheckSelf(f)
                    \/ RecvClientMessages(f)
                    \/ \E u \in Uins : Accept(f, u)
  \/ TransferCode
  \/ Logic
  \/ Deliver
  \/ Break

Spec == Init /\ [][Next]_vars

\* Both servers are loops around epoll, which reports a descriptor for as
\* long as it has data; clients, timeouts and faults owe nothing.
FairSpec == Spec /\ WF_vars(TransferCode) /\ WF_vars(Logic) /\ WF_vars(Deliver)

---------------------------------------------------------------------------
(* Properties *)

Sockets == [conn : Conns \cup {0}, uin : Uins \cup {NoUin},
            recved : BOOLEAN, sended : BOOLEAN, buffer : Seq(Numbers)]
Upward == [type : {"start", "transform"}, index : Fds, conn : Conns,
           uin : Uins, number : Numbers]
          \cup [type : {"disconnect"}, index : Fds, conn : {0},
                uin : Uins \cup {NoUin}, number : {0}]
Downward == [type : {"answer", "close", "logout"}, index : Fds, conn : Conns,
             uin : Uins, number : Numbers \cup {0}, cause : Conns]
Sent == [type : {"answer", "close", "logout"}, conn : Conns,
         uin : Uins, number : Numbers \cup {0}, cause : Conns]
Sessions == [conn : Conns, index : Fds] \cup {Absent}

SocketsOK ==
  /\ socket \in [Fds -> Sockets]
  /\ \A f \in Fds : LET c == socket[f].conn IN
       /\ c = 0 => socket[f] = Free
       /\ \A i \in 1 .. Len(socket[f].buffer) :
            socket[f].buffer[i] <= Len(sent[c])
  /\ busy \in Fds \cup {NoFd} /\ at \in Nat
  /\ busy # NoFd => socket[busy].conn # 0 /\ at <= Len(socket[busy].buffer)

ClientsOK ==
  /\ owner \in Seq(Uins) /\ Len(owner) <= MaxConns
  /\ \A f \in Fds : socket[f].conn <= Len(owner)
  /\ sent \in [Conns -> Seq(Packets)]
  /\ delivered \subseteq Sent

LinksOK == up \in Seq(Upward) /\ down \in Seq(Downward)

PlayersOK ==
  /\ users \in [Uins -> Sessions]
  /\ latest \in [Uins -> Conns \cup {0}]
  /\ handled \in [Conns -> Seq(Numbers)]
  /\ dropped \subseteq Conns

\* Type correctness of both servers' tables and of the messages between them;
\* what is in a socket's buffer was sent on the connection that has the socket.
TypeOK ==
  /\ SocketsOK /\ ClientsOK /\ LinksOK /\ PlayersOK
  /\ silent \in BOOLEAN
  /\ refusals \in Nat /\ breaks \in Nat

\* Whatever descriptor is used again and whatever message is late or lost,
\* what the logic server sends to a player, or closes, reaches a connection
\* that holds that player's ticket, and an answer is to a request of his.
OwnAnswers == \A d \in delivered : /\ owner[d.conn] = d.uin
                                   /\ owner[d.cause] = d.uin

\* A player's session is a connection that holds his ticket.
OwnSessions == \A u \in Uins : users[u] # Absent => owner[users[u].conn] = u

\* While no link breaks, the requests of a connection reach the players' code
\* in the order the client sent them and without a gap, for all that the
\* connector refuses and tries again.
InOrder ==
  breaks = 0 =>
    \A c \in Conns : \A j \in 1 .. Len(handled[c]) :
      \A n \in 1 .. handled[c][j] - 1 :
        sent[c][n].kind = "request" => \E i \in 1 .. j : handled[c][i] = n

\* A player stays in the logic server's table after his connection has gone
\* only while the news is on its way, if no message has been lost and no
\* connection in use was closed as one that had never been used.
SessionsExplained ==
  refusals = 0 /\ breaks = 0 /\ ~silent =>
    \A u \in Uins :
      \/ users[u] = Absent
      \/ Open(users[u].conn)
      \/ \E i \in 1 .. Len(up) : up[i].type = "disconnect" /\ up[i].uin = u

\* The request a connection logs in with is answered on that connection, or
\* the connection is closed, whatever other connections of the player do
\* meanwhile, and however descriptors are used again.  There are two ways out:
\* a link breaks, or the logic server has dropped the request: it came for a
\* group of another server or cannot be decoded, the link to the connector was
\* down, the protection of minors stopped the player, or he reconnects and
\* waits for the queue server.
LoginIsAnswered ==
  \A c \in Conns : \A n \in Numbers :
    (\E i \in 1 .. Len(up) : /\ up[i].type = "start"
                             /\ up[i].conn = c /\ up[i].number = n)
      ~> \/ ~Open(c) \/ breaks > 0 \/ c \in dropped
         \/ \E d \in delivered : d.conn = c /\ d.number = n /\ d.cause = c

(* What comments and logs say, and the code does not do *)

\* "NEW USER KICK OLD": the connection that has logged in last has the
\* session for as long as it is open, once all messages have arrived.
NewestHasSession ==
  Quiet => \A u \in Uins : latest[u] # 0 /\ Open(latest[u])
                             => users[u].conn = latest[u]

===========================================================================
