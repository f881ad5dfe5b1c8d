----------------------- MODULE GatewaySessionProofs -----------------------
(***************************************************************************)
(* Proofs about GatewaySession, for any number of players, descriptors,    *)
(* connections, packets and faults.                                        *)
(*                                                                         *)
(* OwnAnswers and OwnSessions speak of what has been delivered and of the  *)
(* table of players.  They are inductive together with the same fact about *)
(* everything a uin passes through on its way: the sockets (Tickets), the  *)
(* messages going up (OwnedUp) and the messages coming down (OwnedDown).   *)
(***************************************************************************)
EXTENDS GatewaySession, SequenceTheorems, TLAPS

\* Connection c holds the ticket of player u.
Owned(c, u) == c \in 1 .. Len(owner) /\ owner[c] = u

\* A socket that has a uin has it from its connection's ticket, and one whose
\* first packet has been taken has one.
Tickets ==
  \A f \in Fds : /\ socket[f].uin # NoUin => Owned(socket[f].conn, socket[f].uin)
                 /\ socket[f].recved => socket[f].uin # NoUin

OwnedUp == {m \in Upward : m.type # "disconnect" => Owned(m.conn, m.uin)}
OwnedDown == {m \in Downward : Owned(m.conn, m.uin) /\ Owned(m.cause, m.uin)}
OwnedSent == {d \in Sent : Owned(d.conn, d.uin) /\ Owned(d.cause, d.uin)}
OwnedLinks == up \in Seq(OwnedUp) /\ down \in Seq(OwnedDown)
OwnedUsers == \A u \in Uins : users[u] # Absent => Owned(users[u].conn, u)
OwnedAnswers == delivered \subseteq OwnedSent

Faults == silent \in BOOLEAN /\ refusals \in Nat /\ breaks \in Nat

Inv == /\ SocketsOK /\ ClientsOK /\ PlayersOK /\ Faults
       /\ Tickets /\ OwnedLinks /\ OwnedUsers /\ OwnedAnswers

---------------------------------------------------------------------------
(* Facts about the operators *)

\* The entry of a free descriptor has its type.
LEMMA FreeSocket == Free \in Sockets
BY EmptySeq DEF Free, Sockets

\* The first message of a link.
LEMMA FirstUp ==
  ASSUME Inv, up # <<>>
  PROVE  Head(up) \in OwnedUp /\ Tail(up) \in Seq(OwnedUp)
BY HeadTailProperties DEF Inv, OwnedLinks

\* The first message down, and the others.
LEMMA FirstDown ==
  ASSUME Inv, down # <<>>
  PROVE  Head(down) \in OwnedDown /\ Tail(down) \in Seq(OwnedDown)
BY HeadTailProperties DEF Inv, OwnedLinks

\* What clear_current_socket does to the tables and the links.
LEMMA Cleared ==
  ASSUME Inv, NEW f \in Fds, NEW reason, ClearCurrentSocket(f, reason)
  PROVE  /\ socket' = [socket EXCEPT ![f] = Free]
         /\ up' \in Seq(OwnedUp)
         /\ Faults'
         /\ UNCHANGED <<owner, sent>>
<1> DEFINE m == [type |-> "disconnect", index |-> f, conn |-> 0,
                 uin |-> socket[f].uin, number |-> 0]
<1>1. m \in OwnedUp
  <2>1. socket[f].uin \in Uins \cup {NoUin}
    BY DEF Inv, SocketsOK, Sockets
  <2>2. m \in Upward
    BY <2>1 DEF Upward
  <2> QED
    BY <2>2 DEF OwnedUp
<1>2. Append(up, m) \in Seq(OwnedUp)
  BY <1>1 DEF Inv, OwnedLinks
<1>3. up' \in Seq(OwnedUp) /\ refusals' \in Nat
  <2>1. CASE reason \in Unreported
    BY <2>1 DEF ClearCurrentSocket, Inv, OwnedLinks, Faults
  <2>2. CASE reason \notin Unreported
    <3>1. Send(m)
      BY <2>2 DEF ClearCurrentSocket
    <3> HIDE DEF m
    <3>2. up \in Seq(OwnedUp) /\ refusals \in Nat
      BY DEF Inv, OwnedLinks, Faults
    <3> QED
      BY <3>1, <3>2, <1>2 DEF Send
  <2> QED
    BY <2>1, <2>2
<1>4. socket[f].recved \in BOOLEAN
  BY DEF Inv, SocketsOK, Sockets
<1> QED
  BY <1>3, <1>4 DEF ClearCurrentSocket, Freed, Inv, Faults

\* Nothing that is owned becomes somebody else's when a connection is added.
LEMMA OwnedStays ==
  ASSUME Inv, NEW u \in Uins, owner' = Append(owner, u)
  PROVE  /\ \A c, w : Owned(c, w) => Owned(c, w)'
         /\ OwnedUp \subseteq OwnedUp'
         /\ OwnedDown \subseteq OwnedDown'
         /\ OwnedSent \subseteq OwnedSent'
<1>1. owner \in Seq(Uins)
  BY DEF Inv, ClientsOK
<1>2. /\ Len(owner') = Len(owner) + 1
      /\ \A c \in 1 .. Len(owner) : owner'[c] = owner[c]
  BY <1>1
<1>3. \A c, w : Owned(c, w) => Owned(c, w)'
  BY <1>1, <1>2, LenProperties DEF Owned
<1> QED
  BY <1>3 DEF OwnedUp, OwnedDown, OwnedSent, Upward, Downward, Sent

\* Clearing a socket keeps what is said of sockets and of clients.
LEMMA ClearedTables ==
  ASSUME Inv, NEW f \in Fds,
         socket' = [socket EXCEPT ![f] = Free],
         UNCHANGED <<owner, sent>>
  PROVE  /\ socket' \in [Fds -> Sockets]
         /\ \A g \in Fds : LET c == socket'[g].conn IN
               /\ c = 0 => socket'[g] = Free
               /\ \A i \in 1 .. Len(socket'[g].buffer) :
                     socket'[g].buffer[i] <= Len(sent'[c])
         /\ \A g \in Fds : socket'[g].conn <= Len(owner')
         /\ Tickets'
<1>1. socket' \in [Fds -> Sockets]
  BY FreeSocket DEF Inv, SocketsOK
<1>2. /\ socket'[f] = Free
      /\ \A g \in Fds \ {f} : socket'[g] = socket[g]
  BY DEF Inv, SocketsOK
<1>3. Free.conn = 0 /\ Len(Free.buffer) = 0 /\ Free.uin = NoUin /\ Free.recved = FALSE
  BY EmptySeq DEF Free
<1>4. Len(owner) \in Nat
  BY LenProperties DEF Inv, ClientsOK
<1>5. \A g \in Fds : LET c == socket'[g].conn IN
               /\ c = 0 => socket'[g] = Free
               /\ \A i \in 1 .. Len(socket'[g].buffer) :
                     socket'[g].buffer[i] <= Len(sent'[c])
  <2> SUFFICES ASSUME NEW g \in Fds
               PROVE /\ socket'[g].conn = 0 => socket'[g] = Free
                     /\ \A i \in 1 .. Len(socket'[g].buffer) :
                           socket'[g].buffer[i] <= Len(sent'[socket'[g].conn])
    OBVIOUS
  <2>1. CASE g = f
    BY <2>1, <1>2, <1>3
  <2>2. CASE g # f
    <3>1. socket'[g] = socket[g]
      BY <2>2, <1>2
    <3> QED
      BY <3>1 DEF Inv, SocketsOK
  <2> QED
    BY <2>1, <2>2
<1>6. \A g \in Fds : socket'[g].conn <= Len(owner')
  BY <1>2, <1>3, <1>4 DEF Inv, ClientsOK
<1>7. Tickets'
  BY <1>2, <1>3 DEF Inv, Tickets, Owned
<1> QED
  BY <1>1, <1>5, <1>6, <1>7

\* Closing a connection, with whatever is done to the downward link besides.
LEMMA ClearedInv ==
  ASSUME Inv, NEW f \in Fds, NEW reason, ClearCurrentSocket(f, reason),
         busy' = NoFd, at' \in Nat,
         down' \in Seq(OwnedDown), delivered' \subseteq OwnedSent,
         UNCHANGED logic
  PROVE  Inv'
<1>1. /\ socket' = [socket EXCEPT ![f] = Free]
      /\ up' \in Seq(OwnedUp)
      /\ Faults'
      /\ UNCHANGED <<owner, sent>>
  BY Cleared
<1>2. /\ OwnedUp' = OwnedUp /\ OwnedDown' = OwnedDown /\ OwnedSent' = OwnedSent
      /\ \A c, u : Owned(c, u)' <=> Owned(c, u)
  BY <1>1 DEF OwnedUp, OwnedDown, OwnedSent, Owned
<1>3. /\ socket' \in [Fds -> Sockets]
      /\ \A g \in Fds : LET c == socket'[g].conn IN
            /\ c = 0 => socket'[g] = Free
            /\ \A i \in 1 .. Len(socket'[g].buffer) :
                  socket'[g].buffer[i] <= Len(sent'[c])
      /\ \A g \in Fds : socket'[g].conn <= Len(owner')
      /\ Tickets'
  BY <1>1, ClearedTables
<1>4. SocketsOK'
  BY <1>3 DEF SocketsOK
<1>5. ClientsOK'
  <2>1. delivered' \subseteq Sent
    BY DEF OwnedSent
  <2> QED
    BY <1>1, <1>3, <2>1 DEF ClientsOK, Inv
<1>6. PlayersOK' /\ OwnedUsers'
  BY <1>2 DEF Inv, PlayersOK, OwnedUsers, logic
<1>7. OwnedLinks' /\ OwnedAnswers'
  BY <1>1, <1>2 DEF OwnedLinks, OwnedAnswers
<1> QED
  BY <1>1, <1>3, <1>4, <1>5, <1>6, <1>7 DEF Inv

\* Steps that leave the connector's tables alone.
LEMMA LogicFrame ==
  ASSUME Inv, UNCHANGED connector, UNCHANGED delivered
  PROVE  /\ SocketsOK' /\ ClientsOK' /\ Tickets' /\ OwnedAnswers'
         /\ OwnedUp' = OwnedUp /\ OwnedDown' = OwnedDown
         /\ \A c, u : Owned(c, u)' <=> Owned(c, u)
<1>1. /\ OwnedUp' = OwnedUp /\ OwnedDown' = OwnedDown /\ OwnedSent' = OwnedSent
      /\ \A c, u : Owned(c, u)' <=> Owned(c, u)
  BY DEF OwnedUp, OwnedDown, OwnedSent, Owned, connector
<1>2. SocketsOK' /\ ClientsOK'
  BY DEF Inv, SocketsOK, ClientsOK, connector
<1>3. Tickets'
  BY <1>1 DEF Inv, Tickets, connector
<1>4. OwnedAnswers'
  BY <1>1 DEF Inv, OwnedAnswers
<1> QED
  BY <1>1, <1>2, <1>3, <1>4

\* Steps of the connector that leave the links and the players alone and
\* change one socket.
LEMMA SocketFrame ==
  ASSUME Inv, NEW f \in Fds, NEW s \in Sockets,
         socket' = [socket EXCEPT ![f] = s],
         s.conn # 0, s.conn <= Len(owner),
         s.uin # NoUin => Owned(s.conn, s.uin),
         s.recved => s.uin # NoUin,
         \A i \in 1 .. Len(s.buffer) : s.buffer[i] <= Len(sent[s.conn]),
         busy' \in {NoFd, f}, at' \in Nat,
         busy' = f => at' <= Len(s.buffer),
         UNCHANGED <<owner, sent, down, logic, silent, breaks>>,
         refusals' \in Nat,
         up' \in Seq(OwnedUp),
         delivered' \subseteq OwnedSent
  PROVE  Inv'
<1>1. /\ OwnedUp' = OwnedUp /\ OwnedDown' = OwnedDown /\ OwnedSent' = OwnedSent
      /\ \A c, u : Owned(c, u)' <=> Owned(c, u)
  BY DEF OwnedUp, OwnedDown, OwnedSent, Owned
<1>2. /\ socket' \in [Fds -> Sockets]
      /\ socket'[f] = s
      /\ \A g \in Fds \ {f} : socket'[g] = socket[g]
  BY DEF Inv, SocketsOK
<1>3. SocketsOK'
  <2>1. \A g \in Fds : /\ socket'[g].conn = 0 => socket'[g] = Free
                       /\ \A i \in 1 .. Len(socket'[g].buffer) :
                            socket'[g].buffer[i] <= Len(sent'[socket'[g].conn])
    <3> SUFFICES ASSUME NEW g \in Fds
                 PROVE /\ socket'[g].conn = 0 => socket'[g] = Free
                       /\ \A i \in 1 .. Len(socket'[g].buffer) :
                            socket'[g].buffer[i] <= Len(sent[socket'[g].conn])
      OBVIOUS
    <3>1. CASE g = f
      BY <3>1, <1>2
    <3>2. CASE g # f
      <4>1. socket'[g] = socket[g]
        BY <3>2, <1>2
      <4> QED
        BY <4>1 DEF Inv, SocketsOK
    <3> QED
      BY <3>1, <3>2
  <2>2. busy' # NoFd => socket'[busy'].conn # 0 /\ at' <= Len(socket'[busy'].buffer)
    BY <1>2
  <2>3. busy' \in Fds \cup {NoFd}
    OBVIOUS
  <2> QED
    BY <1>2, <2>1, <2>2, <2>3 DEF SocketsOK
<1>4. ClientsOK'
  <2>1. \A g \in Fds : socket'[g].conn <= Len(owner')
    BY <1>2 DEF Inv, ClientsOK
  <2>2. delivered' \subseteq Sent
    BY DEF OwnedSent
  <2> QED
    BY <2>1, <2>2 DEF Inv, ClientsOK
<1>5. Tickets'
  BY <1>1, <1>2 DEF Inv, Tickets
<1>6. PlayersOK' /\ OwnedUsers'
  BY <1>1 DEF Inv, PlayersOK, OwnedUsers, logic
<1>7. OwnedLinks' /\ OwnedAnswers' /\ Faults'
  BY <1>1 DEF Inv, OwnedLinks, OwnedAnswers, Faults
<1> QED
  BY <1>3, <1>4, <1>5, <1>6, <1>7 DEF Inv

---------------------------------------------------------------------------
(* The connector's steps *)

\* The client closes, or is idle for too long.
LEMMA StepClose ==
  ASSUME Inv, NEW f \in Fds, ClientCloses(f) \/ CheckSelf(f)
  PROVE  Inv'
<1>1. /\ busy' = NoFd /\ at' \in Nat /\ UNCHANGED logic
      /\ down' \in Seq(OwnedDown) /\ delivered' \subseteq OwnedSent
  BY DEF ClientCloses, CheckSelf, Inv, SocketsOK, OwnedLinks, OwnedAnswers
<1>2. \/ ClearCurrentSocket(f, ByClient(f))
      \/ ClearCurrentSocket(f, ByTimeout(f))
  BY DEF ClientCloses, CheckSelf
<1> QED
  BY <1>1, <1>2, ClearedInv

\* A connection is accepted under a new number.
LEMMA StepAccept ==
  ASSUME Inv, NEW f \in Fds, NEW u \in Uins, Accept(f, u)
  PROVE  Inv'
<1> DEFINE c == Len(owner) + 1
           s == [Free EXCEPT !.conn = c, !.uin = NoUin, !.recved = FALSE,
                             !.sended = FALSE]
<1>1. /\ \A d, w : Owned(d, w) => Owned(d, w)'
      /\ OwnedUp \subseteq OwnedUp'
      /\ OwnedDown \subseteq OwnedDown'
      /\ OwnedSent \subseteq OwnedSent'
  BY OwnedStays DEF Accept
<1>2. /\ owner' \in Seq(Uins) /\ Len(owner') = c
      /\ Len(owner) \in Nat /\ c <= MaxConns
  BY LenProperties, BoundsAssumption DEF Accept, Inv, ClientsOK
<1>3. socket[f] = Free
  BY DEF Accept, Inv, SocketsOK
<1>4. /\ s \in Sockets /\ s.conn = c /\ s.uin = NoUin /\ s.recved = FALSE
      /\ s.buffer = <<>>
  <2>1. c \in Conns \cup {0}
    BY <1>2, BoundsAssumption DEF Conns
  <2> HIDE DEF c
  <2> QED
    BY <2>1, FreeSocket DEF Sockets, Free
<1>5. socket' = [socket EXCEPT ![f] = s]
  BY <1>3 DEF Accept, Inv, SocketsOK
<1> HIDE DEF s
<1>6. /\ socket' \in [Fds -> Sockets]
      /\ socket'[f] = s
      /\ \A g \in Fds \ {f} : socket'[g] = socket[g]
  BY <1>4, <1>5 DEF Inv, SocketsOK
<1>7. SocketsOK'
  <2>1. Len(s.buffer) = 0
    BY <1>4, EmptySeq
  <2>2. \A g \in Fds : /\ socket'[g].conn = 0 => socket'[g] = Free
                       /\ \A i \in 1 .. Len(socket'[g].buffer) :
                            socket'[g].buffer[i] <= Len(sent'[socket'[g].conn])
    <3> SUFFICES ASSUME NEW g \in Fds
                 PROVE /\ socket'[g].conn = 0 => socket'[g] = Free
                       /\ \A i \in 1 .. Len(socket'[g].buffer) :
                            socket'[g].buffer[i] <= Len(sent'[socket'[g].conn])
      OBVIOUS
    <3>1. CASE g = f
      BY <3>1, <1>4, <1>6, <2>1, <1>2
    <3>2. CASE g # f
      <4>1. socket'[g] = socket[g] /\ sent' = sent
        BY <3>2, <1>6 DEF Accept
      <4> QED
        BY <4>1 DEF Inv, SocketsOK
    <3> QED
      BY <3>1, <3>2
  <2> QED
    BY <1>6, <2>2 DEF SocketsOK, Accept, Inv
<1>8. ClientsOK'
  <2>1. \A g \in Fds : socket'[g].conn <= Len(owner')
    <3> SUFFICES ASSUME NEW g \in Fds PROVE socket'[g].conn <= c
      BY <1>2
    <3>1. CASE g = f
      BY <3>1, <1>4, <1>6, <1>2
    <3>2. CASE g # f
      <4>1. socket'[g] = socket[g]
        BY <3>2, <1>6
      <4>2. socket[g].conn <= Len(owner) /\ socket[g].conn \in Nat
        BY DEF Inv, ClientsOK, SocketsOK, Sockets, Conns
      <4> QED
        BY <4>1, <4>2, <1>2
    <3> QED
      BY <3>1, <3>2
  <2> QED
    BY <1>2, <2>1 DEF ClientsOK, Inv, Accept
<1>9. Tickets'
  <2> SUFFICES ASSUME NEW g \in Fds
               PROVE /\ socket'[g].uin # NoUin
                          => Owned(socket[g].conn, socket[g].uin)'
                     /\ socket'[g].recved => socket'[g].uin # NoUin
    BY DEF Tickets
  <2>1. CASE g = f
    BY <2>1, <1>4, <1>6
  <2>2. CASE g # f
    <3>1. socket'[g] = socket[g]
      BY <2>2, <1>6
    <3>2. socket[g].uin # NoUin => Owned(socket[g].conn, socket[g].uin)'
      BY <1>1, <3>1 DEF Inv, Tickets, Owned
    <3> QED
      BY <3>1, <3>2 DEF Inv, Tickets
  <2> QED
    BY <2>1, <2>2
<1>10. PlayersOK' /\ OwnedUsers'
  <2>1. users' = users
    BY DEF Accept, logic
  <2>2. \A w \in Uins : users[w] # Absent => Owned(users[w].conn, w)'
    BY <1>1, <2>1 DEF Inv, OwnedUsers, Owned
  <2> QED
    BY <2>1, <2>2 DEF Inv, PlayersOK, OwnedUsers, Accept, logic
<1>11. OwnedLinks'
  BY <1>1, SeqMonotonic DEF Inv, OwnedLinks, Accept
<1>12. OwnedAnswers' /\ Faults'
  BY <1>1 DEF Inv, OwnedAnswers, Faults, Accept, faults
<1> QED
  BY <1>7, <1>8, <1>9, <1>10, <1>11, <1>12 DEF Inv

\* A recv adds packets that the client of this connection has sent.
LEMMA StepReceive ==
  ASSUME Inv, NEW f \in Fds, RecvClientMessages(f)
  PROVE  Inv'
<1> DEFINE c == socket[f].conn
<1>0. PICK k \in 1 .. MaxBatch : \E new \in [1 .. k -> Packets] :
        /\ Len(sent[c]) + k <= MaxPackets
        /\ sent' = [sent EXCEPT ![c] = sent[c] \o new]
        /\ socket' = [socket EXCEPT ![f].buffer =
                        socket[f].buffer \o [i \in 1 .. k |-> Len(sent[c]) + i]]
  BY DEF RecvClientMessages, Inv, SocketsOK, ClientsOK
<1>1. PICK new \in [1 .. k -> Packets] :
        /\ Len(sent[c]) + k <= MaxPackets
        /\ sent' = [sent EXCEPT ![c] = sent[c] \o new]
        /\ socket' = [socket EXCEPT ![f].buffer =
                        socket[f].buffer \o [i \in 1 .. k |-> Len(sent[c]) + i]]
  BY <1>0
<1> DEFINE old == socket[f].buffer
           added == [i \in 1 .. k |-> Len(sent[c]) + i]
           s == [socket[f] EXCEPT !.buffer = old \o added]
<1>2. /\ socket[f] \in Sockets /\ c \in Conns /\ old \in Seq(Numbers)
      /\ sent[c] \in Seq(Packets) /\ Len(sent[c]) \in Nat
      /\ k \in Nat
  <2>1. socket[f] \in Sockets /\ c # 0
    BY DEF RecvClientMessages, Inv, SocketsOK
  <2>2. c \in Conns /\ old \in Seq(Numbers)
    BY <2>1 DEF Sockets
  <2>3. sent[c] \in Seq(Packets)
    BY <2>2 DEF Inv, ClientsOK
  <2> QED
    BY <2>1, <2>2, <2>3, LenProperties, BoundsAssumption
<1>3. new \in Seq(Packets) /\ Len(new) = k
  BY <1>2
<1>4. added \in Seq(Numbers) /\ Len(added) = k
  <2>1. \A n \in Nat : n + k <= MaxPackets => \A i \in 1 .. k : n + i \in Numbers
    BY <1>2, BoundsAssumption DEF Numbers
  <2>2. \A i \in 1 .. k : Len(sent[c]) + i \in Numbers
    BY ONLY <2>1, <1>1, <1>2
  <2>3. added \in [1 .. k -> Numbers]
    BY <2>2
  <2> HIDE DEF added
  <2> QED
    BY <2>3, <1>2
<1> HIDE DEF added
<1>5. /\ sent[c] \o new \in Seq(Packets)
      /\ Len(sent[c] \o new) = Len(sent[c]) + k
  BY <1>2, <1>3, ConcatProperties
<1>6. /\ old \o added \in Seq(Numbers)
      /\ Len(old \o added) = Len(old) + k
      /\ Len(old) \in Nat
      /\ \A i \in 1 .. Len(old) + k : (old \o added)[i] =
             IF i <= Len(old) THEN old[i] ELSE added[i - Len(old)]
  <2> HIDE DEF old
  <2> QED
    BY <1>2, <1>4, ConcatProperties, LenProperties
<1>7. \A i \in 1 .. Len(old \o added) :
        (old \o added)[i] <= Len(sent[c] \o new)
  <2> SUFFICES ASSUME NEW i \in 1 .. Len(old) + k
               PROVE  (old \o added)[i] <= Len(sent[c]) + k
    BY <1>5, <1>6
  <2>1. CASE i <= Len(old)
    <3>1. old[i] <= Len(sent[c]) /\ old[i] \in Nat
      <4>1. i \in 1 .. Len(old)
        BY <2>1, <1>6
      <4>2. old[i] \in Numbers
        BY <4>1, <1>2, ElementOfSeq
      <4> QED
        BY <4>1, <4>2 DEF Inv, SocketsOK, Numbers
    <3>2. (old \o added)[i] = old[i]
      BY <2>1, <1>6
    <3> HIDE DEF old
    <3> QED
      BY ONLY <3>1, <3>2, <1>2
  <2>2. CASE i > Len(old)
    <3>1. i - Len(old) \in 1 .. k
      BY <2>2, <1>6, <1>2
    <3>2. added[i - Len(old)] = Len(sent[c]) + (i - Len(old))
      BY <3>1 DEF added
    <3>3. (old \o added)[i] = added[i - Len(old)]
      BY <2>2, <1>6
    <3> HIDE DEF old
    <3> QED
      BY <3>1, <3>2, <3>3, <1>6, <1>2
  <2> QED
    BY <2>1, <2>2, <1>6, <1>2
<1>8. /\ s \in Sockets /\ s.conn = c /\ s.uin = socket[f].uin
      /\ s.recved = socket[f].recved /\ s.buffer = old \o added
  <2>1. old \o added \in Seq(Numbers)
    BY <1>6
  <2> HIDE DEF added
  <2> QED
    BY <2>1, <1>2 DEF Sockets
<1>9. socket' = [socket EXCEPT ![f] = s]
  BY <1>1 DEF Inv, SocketsOK, added
<1> HIDE DEF s
<1>10. /\ socket' \in [Fds -> Sockets]
       /\ socket'[f] = s
       /\ \A g \in Fds \ {f} : socket'[g] = socket[g]
  BY <1>8, <1>9 DEF Inv, SocketsOK
<1>11. /\ sent' \in [Conns -> Seq(Packets)]
       /\ sent'[c] = sent[c] \o new
       /\ \A d \in Conns : Len(sent[d]) <= Len(sent'[d])
  <2>1. /\ sent' \in [Conns -> Seq(Packets)]
        /\ sent'[c] = sent[c] \o new
        /\ \A d \in Conns \ {c} : sent'[d] = sent[d]
    BY <1>1, <1>2, <1>5 DEF Inv, ClientsOK
  <2>2. \A d \in Conns : Len(sent[d]) \in Nat
    BY LenProperties DEF Inv, ClientsOK
  <2>3. \A d \in Conns \ {c} : Len(sent[d]) <= Len(sent'[d])
    BY <2>1, <2>2
  <2>4. Len(sent[c]) <= Len(sent'[c])
    BY <2>1, <1>5, <1>2
  <2> QED
    BY <2>1, <2>3, <2>4
<1>12. SocketsOK'
  <2>1. \A g \in Fds : /\ socket'[g].conn = 0 => socket'[g] = Free
                       /\ \A i \in 1 .. Len(socket'[g].buffer) :
                            socket'[g].buffer[i] <= Len(sent'[socket'[g].conn])
    <3> SUFFICES ASSUME NEW g \in Fds
                 PROVE /\ socket'[g].conn = 0 => socket'[g] = Free
                       /\ \A i \in 1 .. Len(socket'[g].buffer) :
                            socket'[g].buffer[i] <= Len(sent'[socket'[g].conn])
      OBVIOUS
    <3>1. CASE g = f
      <4>1. c # 0
        BY DEF RecvClientMessages
      <4> QED
        BY <3>1, <4>1, <1>7, <1>8, <1>10, <1>11
    <3>2. CASE g # f
      <4>1. socket'[g] = socket[g]
        BY <3>2, <1>10
      <4>2. CASE socket[g].conn = 0
        <5>1. socket[g] = Free
          BY <4>2 DEF Inv, SocketsOK
        <5>2. Len(socket'[g].buffer) = 0
          BY <4>1, <5>1, EmptySeq DEF Free
        <5> QED
          BY <4>1, <5>1, <5>2
      <4>3. CASE socket[g].conn # 0
        <5>1. socket[g].conn \in Conns /\ socket[g].buffer \in Seq(Numbers)
          BY <4>3 DEF Inv, SocketsOK, Sockets
        <5>2. Len(sent[socket[g].conn]) <= Len(sent'[socket[g].conn])
          BY <5>1, <1>11
        <5>3. /\ Len(sent[socket[g].conn]) \in Nat
              /\ Len(sent'[socket[g].conn]) \in Nat
          BY <5>1, <1>11, LenProperties DEF Inv, ClientsOK
        <5>4. \A i \in 1 .. Len(socket[g].buffer) :
                /\ socket[g].buffer[i] \in Nat
                /\ socket[g].buffer[i] <= Len(sent[socket[g].conn])
          <6>1. \A i \in 1 .. Len(socket[g].buffer) : socket[g].buffer[i] \in Numbers
            BY <5>1, ElementOfSeq
          <6> QED
            BY <6>1 DEF Inv, SocketsOK, Numbers
        <5>5. \A i \in 1 .. Len(socket[g].buffer) :
                socket[g].buffer[i] <= Len(sent'[socket[g].conn])
          <6> SUFFICES ASSUME NEW i \in 1 .. Len(socket[g].buffer)
                       PROVE  socket[g].buffer[i] <= Len(sent'[socket[g].conn])
            OBVIOUS
          <6>1. /\ socket[g].buffer[i] \in Nat
                /\ socket[g].buffer[i] <= Len(sent[socket[g].conn])
            BY <5>4
          <6>2. \A x, y, z \in Nat : x <= y /\ y <= z => x <= z
            OBVIOUS
          <6> QED
            BY ONLY <6>1, <6>2, <5>2, <5>3, Zenon
        <5>6. /\ socket'[g].conn = socket[g].conn /\ socket'[g].conn # 0
              /\ socket'[g].buffer = socket[g].buffer
          BY <4>1, <4>3
        <5> QED
          BY <5>5, <5>6
      <4> QED
        BY <4>2, <4>3
    <3> QED
      BY <3>1, <3>2
  <2>2. busy' = f /\ at' = 0
    BY DEF RecvClientMessages
  <2>3. socket'[busy'].conn # 0 /\ at' <= Len(socket'[busy'].buffer)
    <3>1. socket'[f].conn # 0
      BY <1>8, <1>10 DEF RecvClientMessages
    <3>2. Len(socket'[f].buffer) \in Nat /\ 0 <= Len(socket'[f].buffer)
      BY <1>6, <1>2, <1>8, <1>10
    <3> QED
      BY <2>2, <3>1, <3>2
  <2> QED
    BY <1>10, <2>1, <2>2, <2>3 DEF SocketsOK
<1>13. ClientsOK'
  <2>1. \A g \in Fds : socket'[g].conn <= Len(owner')
    BY <1>8, <1>10 DEF Inv, ClientsOK, RecvClientMessages
  <2> QED
    BY <1>11, <2>1 DEF Inv, ClientsOK, RecvClientMessages
<1>14. /\ OwnedUp' = OwnedUp /\ OwnedDown' = OwnedDown /\ OwnedSent' = OwnedSent
       /\ \A d, u : Owned(d, u)' <=> Owned(d, u)
  BY DEF OwnedUp, OwnedDown, OwnedSent, Owned, RecvClientMessages
<1>15. Tickets'
  BY <1>8, <1>10, <1>14 DEF Inv, Tickets
<1>16. PlayersOK' /\ OwnedUsers'
  BY <1>14 DEF Inv, PlayersOK, OwnedUsers, RecvClientMessages, logic
<1>17. OwnedLinks' /\ OwnedAnswers' /\ Faults'
  BY <1>14 DEF Inv, OwnedLinks, OwnedAnswers, Faults, RecvClientMessages, faults
<1> QED
  BY <1>12, <1>13, <1>15, <1>16, <1>17 DEF Inv

\* The packet transfer_code has come to.
LEMMA PacketAtHand ==
  ASSUME Inv, HasPacket
  PROVE  /\ busy \in Fds /\ Current \in Sockets
         /\ Current.conn \in Conns /\ Current.conn # 0
         /\ Current.conn \in 1 .. Len(owner)
         /\ Number \in Numbers /\ Packet \in Packets
         /\ at \in Nat /\ Len(Current.buffer) \in Nat
         /\ \A i \in 1 .. Len(Current.buffer) :
                Current.buffer[i] <= Len(sent[Current.conn])
<1>1. busy \in Fds /\ Current \in Sockets /\ Current.conn # 0 /\ at \in Nat
  BY DEF HasPacket, Current, Inv, SocketsOK
<1>2. Current.conn \in Conns /\ Current.buffer \in Seq(Numbers)
  BY <1>1 DEF Sockets
<1>3. Current.conn \in 1 .. Len(owner)
  <2>1. Current.conn <= Len(owner) /\ Len(owner) \in Nat
    BY <1>1, LenProperties DEF Inv, ClientsOK, Current
  <2> QED
    BY <2>1, <1>2 DEF Conns
<1>4. Len(Current.buffer) \in Nat
  BY <1>2, LenProperties
<1>5. at + 1 \in 1 .. Len(Current.buffer)
  BY <1>1, <1>4 DEF HasPacket
<1>6. Number \in Numbers
  BY <1>2, <1>5, ElementOfSeq DEF Number
<1>7. \A i \in 1 .. Len(Current.buffer) :
        Current.buffer[i] <= Len(sent[Current.conn])
  BY <1>1 DEF Inv, SocketsOK, Current
<1>8. sent[Current.conn] \in Seq(Packets)
  BY <1>2 DEF Inv, ClientsOK
<1>9. Number \in 1 .. Len(sent[Current.conn])
  <2>1. Number <= Len(sent[Current.conn])
    BY <1>5, <1>7 DEF Number
  <2>2. Len(sent[Current.conn]) \in Nat
    BY <1>8, LenProperties
  <2> QED
    BY <2>1, <2>2, <1>6 DEF Numbers
<1>10. Packet \in Packets
  BY <1>8, <1>9, ElementOfSeq DEF Packet
<1> QED
  BY <1>1, <1>2, <1>3, <1>4, <1>6, <1>7, <1>10

\* The player a trusted packet names holds the connection's ticket.
LEMMA TrustedIsOwner ==
  ASSUME Inv, HasPacket, Trusted
  PROVE  /\ Packet.uin \in Uins /\ Packet.uin # NoUin
         /\ Owned(Current.conn, Packet.uin)
<1>1. Packet.uin \in Uins
  BY PacketAtHand DEF Packets
<1>2. CASE Current.recved
  <2>1. Current.uin # NoUin /\ Owned(Current.conn, Current.uin)
    BY <1>2, PacketAtHand DEF Inv, Tickets, Current
  <2> QED
    BY <1>1, <1>2, <2>1, NobodyAssumption DEF Trusted
<1>3. CASE ~Current.recved
  BY <1>1, <1>3, PacketAtHand, NobodyAssumption DEF Trusted, Owned
<1> QED
  BY <1>2, <1>3

\* A packet for which the connection is closed.
LEMMA StepTransferEnds ==
  ASSUME Inv, HasPacket, NEW reason, TransferEnds(reason)
  PROVE  Inv'
<1>1. /\ busy \in Fds /\ ClearCurrentSocket(busy, reason)
      /\ busy' = NoFd /\ at' \in Nat /\ UNCHANGED logic
      /\ down' \in Seq(OwnedDown) /\ delivered' \subseteq OwnedSent
  BY PacketAtHand DEF TransferEnds, Inv, OwnedLinks, OwnedAnswers
<1> QED
  BY <1>1, ClearedInv

\* A packet that is taken, and the uin that the socket gets with it.
LEMMA StepTransferTaken ==
  ASSUME Inv, TransferHeartbeat \/ TransferRequest
  PROVE  Inv'
<1> DEFINE s == [socket[busy] EXCEPT !.uin = Packet.uin, !.recved = TRUE]
<1>1. HasPacket /\ Trusted
  BY DEF TransferHeartbeat, TransferRequest, WellFormed
<1>2. /\ busy \in Fds /\ socket[busy] \in Sockets
      /\ socket[busy].conn # 0 /\ socket[busy].conn \in Conns
      /\ Number \in Numbers
      /\ at \in Nat /\ Len(socket[busy].buffer) \in Nat
      /\ at < Len(socket[busy].buffer)
      /\ \A i \in 1 .. Len(socket[busy].buffer) :
            socket[busy].buffer[i] <= Len(sent[socket[busy].conn])
      /\ Packet.uin \in Uins /\ Packet.uin # NoUin
      /\ Owned(socket[busy].conn, Packet.uin)
      /\ socket[busy].conn <= Len(owner)
  BY <1>1, PacketAtHand, TrustedIsOwner DEF Current, HasPacket, Inv, ClientsOK
<1>3. /\ s \in Sockets /\ s.conn = socket[busy].conn /\ s.uin = Packet.uin
      /\ s.buffer = socket[busy].buffer
  BY <1>2 DEF Sockets
<1>4. socket' = [socket EXCEPT ![busy] = s]
  BY <1>2 DEF TransferHeartbeat, TransferRequest, Inv, SocketsOK
<1> HIDE DEF s
<1>5. up' \in Seq(OwnedUp)
  <2>1. CASE TransferHeartbeat
    BY <2>1 DEF TransferHeartbeat, Inv, OwnedLinks
  <2>2. CASE TransferRequest
    <3>1. Forwarded \in Upward
      BY <1>2 DEF Forwarded, Upward, Current
    <3>2. Forwarded.conn = socket[busy].conn /\ Forwarded.uin = Packet.uin
      BY DEF Forwarded, Current
    <3>3. Forwarded \in OwnedUp
      BY <3>1, <3>2, <1>2 DEF OwnedUp
    <3> QED
      BY <2>2, <3>3 DEF TransferRequest, Inv, OwnedLinks
  <2> QED
    BY <2>1, <2>2
<1>6. /\ busy' = busy /\ at' = at + 1 /\ refusals' \in Nat
      /\ UNCHANGED <<owner, sent, down, logic, silent, breaks>>
      /\ delivered' \subseteq OwnedSent
  BY DEF TransferHeartbeat, TransferRequest, faults, Inv, Faults, OwnedAnswers
<1>7. at' \in Nat /\ at' <= Len(s.buffer)
  BY <1>2, <1>3, <1>6
<1> QED
  BY <1>2, <1>3, <1>4, <1>5, <1>6, <1>7, SocketFrame

\* A packet that the link to the logic server refuses.
LEMMA StepTransferRefused ==
  ASSUME Inv, TransferRefused
  PROVE  Inv'
<1> DEFINE s == [socket[busy] EXCEPT !.uin = Packet.uin]
<1>1. HasPacket /\ Trusted
  BY DEF TransferRefused, WellFormed
<1>2. /\ busy \in Fds /\ socket[busy] \in Sockets
      /\ socket[busy].conn # 0
      /\ \A i \in 1 .. Len(socket[busy].buffer) :
            socket[busy].buffer[i] <= Len(sent[socket[busy].conn])
      /\ Packet.uin \in Uins /\ Packet.uin # NoUin
      /\ Owned(socket[busy].conn, Packet.uin)
      /\ socket[busy].conn <= Len(owner)
  BY <1>1, PacketAtHand, TrustedIsOwner DEF Current, Inv, ClientsOK
<1>3. /\ s \in Sockets /\ s.conn = socket[busy].conn /\ s.uin = Packet.uin
      /\ s.buffer = socket[busy].buffer
  BY <1>2 DEF Sockets
<1>4. socket' = [socket EXCEPT ![busy] = s]
  BY <1>2 DEF TransferRefused, Inv, SocketsOK
<1> HIDE DEF s
<1>5. /\ busy' = NoFd /\ at' = 0 /\ refusals' \in Nat
      /\ UNCHANGED <<owner, sent, down, logic, silent, breaks>>
      /\ delivered' \subseteq OwnedSent /\ up' \in Seq(OwnedUp)
  BY DEF TransferRefused, Inv, Faults, OwnedAnswers, OwnedLinks
<1>6. busy # NoFd
  BY <1>2, NobodyAssumption
<1> QED
  BY <1>2, <1>3, <1>4, <1>5, <1>6, SocketFrame

\* The end of the buffer.
LEMMA StepTransferDone ==
  ASSUME Inv, TransferDone
  PROVE  Inv'
<1> DEFINE s == [socket[busy] EXCEPT !.buffer = <<>>]
<1>1. /\ busy \in Fds /\ socket[busy] \in Sockets
      /\ socket[busy].conn # 0 /\ socket[busy].conn <= Len(owner)
  BY DEF TransferDone, Inv, SocketsOK, ClientsOK
<1>2. /\ s \in Sockets /\ s.conn = socket[busy].conn
      /\ s.uin = socket[busy].uin /\ s.recved = socket[busy].recved
      /\ s.buffer = <<>>
  BY <1>1, EmptySeq DEF Sockets
<1>3. socket' = [socket EXCEPT ![busy] = s]
  BY <1>1 DEF TransferDone, Inv, SocketsOK
<1> HIDE DEF s
<1>4. Len(s.buffer) = 0
  BY <1>2, EmptySeq
<1>5. /\ s.uin # NoUin => Owned(s.conn, s.uin)
      /\ s.recved => s.uin # NoUin
  BY <1>1, <1>2 DEF Inv, Tickets
<1>6. /\ busy' = NoFd /\ at' = 0 /\ refusals' \in Nat
      /\ UNCHANGED <<owner, sent, down, logic, silent, breaks>>
      /\ delivered' \subseteq OwnedSent /\ up' \in Seq(OwnedUp)
  BY DEF TransferDone, Inv, Faults, OwnedAnswers, OwnedLinks, faults
<1>7. busy # NoFd
  BY <1>1, NobodyAssumption
<1>8. \A i \in 1 .. Len(s.buffer) : s.buffer[i] <= Len(sent[s.conn])
  BY <1>4
<1>9. s \in Sockets /\ s.conn # 0 /\ s.conn <= Len(owner)
  BY <1>1, <1>2
<1> QED
  BY <1>1, <1>3, <1>5, <1>6, <1>7, <1>8, <1>9, SocketFrame

---------------------------------------------------------------------------
(* The logic server's steps *)

\* A player's session belongs to a connection of his own.
LEMMA SessionOwned ==
  ASSUME Inv, NEW u \in Uins, users[u] # Absent
  PROVE  /\ users[u] \in [conn : Conns, index : Fds]
         /\ Owned(users[u].conn, u)
BY DEF Inv, PlayersOK, OwnedUsers, Sessions

\* What is sent down to a player's session concerns that player.
LEMMA DownToPlayer ==
  ASSUME Inv, NEW session \in [conn : Conns, index : Fds], NEW u \in Uins,
         Owned(session.conn, u),
         NEW type \in {"answer", "close", "logout"},
         NEW n \in Numbers \cup {0}, NEW c \in Conns, Owned(c, u)
  PROVE  ToPlayer(type, session, u, n, c) \in OwnedDown
<1>1. ToPlayer(type, session, u, n, c) \in Downward
  BY DEF ToPlayer, Downward
<1> QED
  BY <1>1 DEF ToPlayer, OwnedDown

\* What processing a request does to the links and to the table of players.
LEMMA ProcessKeeps ==
  ASSUME Inv, NEW m \in OwnedUp, m.type # "disconnect",
         NEW session \in [conn : Conns, index : Fds],
         Owned(session.conn, m.uin),
         NEW before \in Seq(OwnedDown),
         Process(m, session, before), UNCHANGED owner
  PROVE  /\ down' \in Seq(OwnedDown)
         /\ handled' \in [Conns -> Seq(Numbers)]
         /\ users' \in [Uins -> Sessions]
         /\ OwnedUsers'
         /\ dropped' \subseteq Conns
<1>1. /\ m.uin \in Uins /\ m.conn \in Conns /\ m.number \in Numbers
      /\ Owned(m.conn, m.uin)
  BY DEF OwnedUp, Upward
<1>2. /\ users \in [Uins -> Sessions] /\ handled \in [Conns -> Seq(Numbers)]
      /\ down \in Seq(OwnedDown)
  BY DEF Inv, PlayersOK, OwnedLinks
<1>3. handled' \in [Conns -> Seq(Numbers)]
  <2>1. handled[m.conn] \in Seq(Numbers)
    BY <1>1, <1>2
  <2>2. Append(handled[m.conn], m.number) \in Seq(Numbers)
    BY <1>1, <2>1
  <2> QED
    BY <1>2, <2>2 DEF Process
<1> DEFINE answer == ToPlayer("answer", session, m.uin, m.number, m.conn)
           close == ToPlayer("close", session, m.uin, m.number, m.conn)
<1>4. answer \in OwnedDown /\ close \in OwnedDown
  BY <1>1, DownToPlayer
<1>5. /\ down \o before \in Seq(OwnedDown)
      /\ down \o before \o <<answer>> \in Seq(OwnedDown)
      /\ \A told \in {<<close>>, <<answer, close>>} :
            down \o before \o told \in Seq(OwnedDown)
  <2> HIDE DEF answer, close
  <2>1. down \o before \in Seq(OwnedDown)
    BY <1>2, ConcatProperties
  <2>2. <<answer>> \in Seq(OwnedDown) /\ <<close>> \in Seq(OwnedDown)
    BY <1>4
  <2>3. <<answer, close>> \in Seq(OwnedDown)
    BY <1>4
  <2> QED
    BY <2>1, <2>2, <2>3, ConcatProperties
<1>6. \/ users' = [users EXCEPT ![m.uin] = session]
      \/ users' = [users EXCEPT ![m.uin] = Absent]
  BY DEF Process
<1>7. session \in Sessions /\ Absent \in Sessions
  BY DEF Sessions
<1>8. users' \in [Uins -> Sessions]
  BY <1>2, <1>6, <1>7
<1>9. \A c, u : Owned(c, u)' <=> Owned(c, u)
  BY DEF Owned
<1>10. OwnedUsers'
  <2> SUFFICES ASSUME NEW u \in Uins, users'[u] # Absent
               PROVE  Owned(users'[u].conn, u)
    BY <1>9 DEF OwnedUsers
  <2>1. CASE u = m.uin
    <3>1. users'[u] = session
      BY <2>1, <1>2, <1>6
    <3> QED
      BY <2>1, <3>1
  <2>2. CASE u # m.uin
    <3>1. users'[u] = users[u]
      BY <2>2, <1>2, <1>6
    <3> QED
      BY <3>1, SessionOwned
  <2> QED
    BY <2>1, <2>2
<1>11. down' \in Seq(OwnedDown)
  <2>1. \/ down' = down \o before
        \/ down' = down \o before \o <<answer>>
        \/ \E told \in {<<close>>, <<answer, close>>} :
              down' = down \o before \o told
    BY DEF Process
  <2> HIDE DEF answer, close
  <2> QED
    BY <1>5, <2>1
<1>12. dropped' \subseteq Conns
  BY <1>1 DEF Process, Drops, Inv, PlayersOK
<1> QED
  BY <1>3, <1>8, <1>10, <1>11, <1>12

\* A later request of a connection.
LEMMA StepTransform ==
  ASSUME Inv, HandleTransform
  PROVE  Inv'
<1> DEFINE m == Head(up)
<1>1. /\ m \in OwnedUp /\ Tail(up) \in Seq(OwnedUp) /\ m.type = "transform"
  BY FirstUp DEF HandleTransform
<1>2. /\ SocketsOK' /\ ClientsOK' /\ Tickets' /\ OwnedAnswers'
      /\ OwnedUp' = OwnedUp /\ OwnedDown' = OwnedDown
      /\ \A c, u : Owned(c, u)' <=> Owned(c, u)
  BY LogicFrame DEF HandleTransform
<1>3. m.uin \in Uins /\ m.conn \in Conns /\ m.number \in Numbers
  BY <1>1 DEF OwnedUp, Upward
<1>4. UNCHANGED owner
  BY DEF HandleTransform, connector
<1>5. /\ down' \in Seq(OwnedDown) /\ handled' \in [Conns -> Seq(Numbers)]
      /\ users' \in [Uins -> Sessions] /\ OwnedUsers'
      /\ dropped' \subseteq Conns
  <2>1. CASE users[m.uin] = Absent
    <3>1. /\ handled' = [handled EXCEPT ![m.conn] = Append(@, m.number)]
          /\ UNCHANGED <<users, down, dropped>>
      BY <2>1 DEF HandleTransform
    <3>2. handled[m.conn] \in Seq(Numbers)
      BY <1>3 DEF Inv, PlayersOK
    <3>3. Append(handled[m.conn], m.number) \in Seq(Numbers)
      BY <1>3, <3>2
    <3>4. handled' \in [Conns -> Seq(Numbers)]
      BY <3>1, <3>3 DEF Inv, PlayersOK
    <3>5. OwnedUsers'
      BY <1>2, <3>1 DEF Inv, OwnedUsers
    <3> QED
      BY <3>1, <3>4, <3>5 DEF Inv, PlayersOK, OwnedLinks
  <2>2. CASE users[m.uin] # Absent
    <3>1. Process(m, users[m.uin], <<>>)
      BY <2>2 DEF HandleTransform
    <3>2. <<>> \in Seq(OwnedDown)
      BY EmptySeq
    <3>3. /\ users[m.uin] \in [conn : Conns, index : Fds]
          /\ Owned(users[m.uin].conn, m.uin)
      BY <1>3, <2>2, SessionOwned
    <3> HIDE DEF m
    <3> QED
      BY <1>1, <1>4, <3>1, <3>2, <3>3, ProcessKeeps
  <2> QED
    BY <2>1, <2>2
<1>6. PlayersOK'
  BY <1>5 DEF HandleTransform, Inv, PlayersOK
<1>7. OwnedLinks' /\ Faults'
  BY <1>1, <1>2, <1>5 DEF HandleTransform, OwnedLinks, Inv, Faults, faults
<1> QED
  BY <1>2, <1>5, <1>6, <1>7 DEF Inv

\* The first request of a connection.
LEMMA StepStart ==
  ASSUME Inv, HandleStart
  PROVE  Inv'
<1> DEFINE m == Head(up)
           new == [conn |-> m.conn, index |-> m.index]
           old == users[m.uin]
           logout == ToPlayer("logout", old, m.uin, 0, m.conn)
           before == IF old = Absent THEN <<>> ELSE <<logout>>
<1>1. /\ m \in OwnedUp /\ Tail(up) \in Seq(OwnedUp) /\ m.type = "start"
  BY FirstUp DEF HandleStart
<1>2. /\ SocketsOK' /\ ClientsOK' /\ Tickets' /\ OwnedAnswers'
      /\ OwnedUp' = OwnedUp /\ OwnedDown' = OwnedDown
      /\ \A c, u : Owned(c, u)' <=> Owned(c, u)
  BY LogicFrame DEF HandleStart
<1>3. /\ m.uin \in Uins /\ m.conn \in Conns /\ m.index \in Fds
      /\ Owned(m.conn, m.uin)
  BY <1>1 DEF OwnedUp, Upward
<1>4. UNCHANGED owner
  BY DEF HandleStart, connector
<1>5. before \in Seq(OwnedDown)
  <2>1. CASE old = Absent
    BY <2>1, EmptySeq
  <2>2. CASE old # Absent
    <3>1. logout \in OwnedDown
      BY <1>3, <2>2, SessionOwned, DownToPlayer
    <3> HIDE DEF logout
    <3> QED
      BY <2>2, <3>1
  <2> QED
    BY <2>1, <2>2
<1>6. Process(m, new, before)
  BY DEF HandleStart
<1>7. new \in [conn : Conns, index : Fds] /\ Owned(new.conn, m.uin)
  BY <1>3
<1>8. /\ down' \in Seq(OwnedDown) /\ handled' \in [Conns -> Seq(Numbers)]
      /\ users' \in [Uins -> Sessions] /\ OwnedUsers'
      /\ dropped' \subseteq Conns
  <2> HIDE DEF m, new, before
  <2> QED
    BY <1>1, <1>4, <1>5, <1>6, <1>7, ProcessKeeps
<1>9. PlayersOK'
  <2>1. latest' \in [Uins -> Conns \cup {0}]
    BY <1>3 DEF HandleStart, Inv, PlayersOK
  <2> QED
    BY <1>8, <2>1 DEF PlayersOK
<1>10. OwnedLinks' /\ Faults'
  BY <1>1, <1>2, <1>8 DEF HandleStart, OwnedLinks, Inv, Faults, faults
<1> QED
  BY <1>2, <1>8, <1>9, <1>10 DEF Inv

\* The news that a connection has gone.
LEMMA StepDisconnect ==
  ASSUME Inv, HandleDisconnect
  PROVE  Inv'
<1>1. Tail(up) \in Seq(OwnedUp)
  BY FirstUp DEF HandleDisconnect
<1>2. /\ SocketsOK' /\ ClientsOK' /\ Tickets' /\ OwnedAnswers'
      /\ OwnedUp' = OwnedUp /\ OwnedDown' = OwnedDown
      /\ \A c, u : Owned(c, u)' <=> Owned(c, u)
  BY LogicFrame DEF HandleDisconnect
<1>3. PlayersOK' /\ OwnedUsers'
  <2>1. Absent \in Sessions
    BY DEF Sessions
  <2> QED
    BY <1>2, <2>1 DEF HandleDisconnect, Inv, PlayersOK, OwnedUsers
<1>4. OwnedLinks' /\ Faults'
  BY <1>1, <1>2 DEF HandleDisconnect, OwnedLinks, Inv, Faults, faults
<1> QED
  BY <1>2, <1>3, <1>4 DEF Inv

---------------------------------------------------------------------------
(* The connector's steps for the logic server, and the links *)

\* The first message down is about a player and connections of his.
LEMMA MessageDown ==
  ASSUME Inv, down # <<>>
  PROVE  LET m == Head(down) IN
         /\ m.index \in Fds /\ m.conn \in Conns /\ m.cause \in Conns
         /\ m.uin \in Uins /\ m.number \in Numbers \cup {0}
         /\ m.type \in {"answer", "close", "logout"}
         /\ Owned(m.conn, m.uin) /\ Owned(m.cause, m.uin)
         /\ Tail(down) \in Seq(OwnedDown)
BY FirstDown DEF OwnedDown, Downward

\* A socket that is there to take a message is its player's.
LEMMA ReachedOwner ==
  ASSUME Inv, down # <<>>, NEW f \in Fds, f = Head(down).index,
         Owned(socket[f].conn, Head(down).uin)
  PROVE  Reached(Head(down)) \in OwnedSent
<1> DEFINE m == Head(down)
<1>1. socket[m.index].conn \in Conns
  <2>1. socket[f].conn \in 1 .. Len(owner)
    BY DEF Owned
  <2>2. socket[f].conn \in Conns \cup {0}
    BY DEF Inv, SocketsOK, Sockets
  <2>3. socket[f].conn # 0
    BY <2>1
  <2> QED
    BY <2>2, <2>3
<1>2. Reached(m) \in Sent
  BY <1>1, MessageDown DEF Reached, Sent
<1>3. Owned(Reached(m).conn, m.uin) /\ Owned(Reached(m).cause, m.uin)
  BY MessageDown DEF Reached
<1> QED
  BY <1>2, <1>3 DEF OwnedSent, Reached

\* An answer is delivered to the player's socket, or dropped.
LEMMA StepDeliverAnswer ==
  ASSUME Inv, DeliverAnswer
  PROVE  Inv'
<1> DEFINE m == Head(down)
           f == m.index
<1>1. /\ f \in Fds /\ m.uin \in Uins /\ Tail(down) \in Seq(OwnedDown)
  BY MessageDown DEF DeliverAnswer
<1>2. /\ down' = Tail(down) /\ busy = NoFd /\ UNCHANGED <<busy, at, logic>>
      /\ down # <<>> /\ at \in Nat
  BY DEF DeliverAnswer, Inv, SocketsOK
<1>3. CASE /\ SamePlayer(m)
           /\ socket' = [socket EXCEPT ![f].sended = TRUE]
           /\ delivered' = delivered \cup {Reached(m)}
           /\ UNCHANGED <<owner, sent, up, silent, faults>>
  <2> DEFINE s == [socket[f] EXCEPT !.sended = TRUE]
  <2>1. socket[f].uin = m.uin /\ m.uin # NoUin
    BY <1>1, <1>3, NobodyAssumption DEF SamePlayer
  <2>2. Owned(socket[f].conn, m.uin)
    BY <1>1, <2>1 DEF Inv, Tickets
  <2>3. Reached(m) \in OwnedSent
    BY <1>1, <1>2, <2>2, ReachedOwner
  <2>4. /\ socket[f] \in Sockets /\ socket[f].conn <= Len(owner)
        /\ socket[f].conn # 0
        /\ \A i \in 1 .. Len(socket[f].buffer) :
              socket[f].buffer[i] <= Len(sent[socket[f].conn])
    <3>1. socket[f].conn # 0
      BY <2>2 DEF Owned
    <3> QED
      BY <1>1, <3>1 DEF Inv, SocketsOK, ClientsOK
  <2>5. /\ s \in Sockets /\ s.conn = socket[f].conn /\ s.uin = socket[f].uin
        /\ s.recved = socket[f].recved /\ s.buffer = socket[f].buffer
    BY <2>4 DEF Sockets
  <2>6. socket' = [socket EXCEPT ![f] = s]
    BY <1>1, <1>3 DEF Inv, SocketsOK
  <2>7. /\ s.uin # NoUin => Owned(s.conn, s.uin)
        /\ s.recved => s.uin # NoUin
    BY <2>1, <2>2, <2>5
  <2> HIDE DEF s
  <2>8. SocketsOK' /\ ClientsOK' /\ Tickets'
    <3>1. /\ socket' \in [Fds -> Sockets] /\ socket'[f] = s
          /\ \A g \in Fds \ {f} : socket'[g] = socket[g]
      BY <2>5, <2>6, <1>1 DEF Inv, SocketsOK
    <3>2. \A g \in Fds : /\ socket'[g].conn = socket[g].conn
                         /\ socket'[g].uin = socket[g].uin
                         /\ socket'[g].recved = socket[g].recved
                         /\ socket'[g].buffer = socket[g].buffer
      BY <3>1, <2>5
    <3>3. \A g \in Fds : socket'[g].conn = 0 => socket'[g] = Free
      BY <3>1, <2>4, <2>5 DEF Inv, SocketsOK
    <3>4. SocketsOK'
      <4>1. \A g \in Fds : \A i \in 1 .. Len(socket'[g].buffer) :
              socket'[g].buffer[i] <= Len(sent'[socket'[g].conn])
        BY <3>2, <1>3 DEF Inv, SocketsOK
      <4>2. busy' = NoFd /\ at' \in Nat
        BY <1>2
      <4> QED
        BY <3>1, <3>3, <4>1, <4>2 DEF SocketsOK
    <3>5. ClientsOK'
      <4>1. delivered' \subseteq Sent
        BY <1>3, <2>3 DEF Inv, ClientsOK, OwnedSent
      <4> QED
        BY <3>2, <4>1, <1>3 DEF Inv, ClientsOK
    <3>6. Tickets'
      <4>1. \A c, u : Owned(c, u)' <=> Owned(c, u)
        BY <1>3 DEF Owned
      <4> QED
        BY <3>2, <4>1 DEF Inv, Tickets
    <3> QED
      BY <3>4, <3>5, <3>6
  <2>9. /\ OwnedUp' = OwnedUp /\ OwnedDown' = OwnedDown
        /\ OwnedSent' = OwnedSent
        /\ \A c, u : Owned(c, u)' <=> Owned(c, u)
    BY <1>3 DEF OwnedUp, OwnedDown, OwnedSent, Owned
  <2>10. PlayersOK' /\ OwnedUsers' /\ OwnedLinks' /\ OwnedAnswers' /\ Faults'
    BY <1>1, <1>2, <1>3, <2>3, <2>9
       DEF Inv, PlayersOK, OwnedUsers, OwnedLinks, OwnedAnswers, Faults,
           logic, faults
  <2> QED
    BY <2>8, <2>10 DEF Inv
<1>4. CASE ClearCurrentSocket(f, "Client") /\ UNCHANGED delivered
  BY <1>1, <1>2, <1>4, ClearedInv DEF Inv, OwnedAnswers
<1>5. CASE UNCHANGED <<socket, owner, sent, up, delivered, silent, faults>>
  <2>1. SocketsOK' /\ ClientsOK' /\ Tickets' /\ OwnedAnswers'
        /\ OwnedUp' = OwnedUp /\ OwnedDown' = OwnedDown
        /\ \A c, u : Owned(c, u)' <=> Owned(c, u)
    BY <1>2, <1>5, LogicFrame DEF connector
  <2>2. PlayersOK' /\ OwnedUsers' /\ OwnedLinks' /\ Faults'
    BY <1>1, <1>2, <1>5, <2>1
       DEF Inv, PlayersOK, OwnedUsers, OwnedLinks, Faults, logic, faults
  <2> QED
    BY <2>1, <2>2 DEF Inv
<1> QED
  BY <1>3, <1>4, <1>5 DEF DeliverAnswer

\* A connection is closed for the logic server, or is not there any more.
LEMMA StepDeliverClose ==
  ASSUME Inv, DeliverClose
  PROVE  Inv'
<1> DEFINE m == Head(down)
           f == m.index
<1>1. /\ f \in Fds /\ Tail(down) \in Seq(OwnedDown) /\ Owned(m.conn, m.uin)
  BY MessageDown DEF DeliverClose
<1>2. /\ down' = Tail(down) /\ busy = NoFd /\ UNCHANGED <<busy, at, logic>>
      /\ down # <<>> /\ at \in Nat
  BY DEF DeliverClose, Inv, SocketsOK
<1>3. CASE socket[f].conn = m.conn
  <2>1. /\ ClearCurrentSocket(f, "Service")
        /\ delivered' = delivered \cup {Reached(m)}
    BY <1>3 DEF DeliverClose
  <2>2. Reached(m) \in OwnedSent
    BY <1>1, <1>2, <1>3, ReachedOwner
  <2>3. delivered' \subseteq OwnedSent
    BY <2>1, <2>2 DEF Inv, OwnedAnswers
  <2> QED
    BY <1>1, <1>2, <2>1, <2>3, ClearedInv
<1>4. CASE socket[f].conn # m.conn
  <2>1. UNCHANGED <<socket, owner, sent, up, delivered, silent, faults>>
    BY <1>4 DEF DeliverClose
  <2>2. SocketsOK' /\ ClientsOK' /\ Tickets' /\ OwnedAnswers'
        /\ OwnedUp' = OwnedUp /\ OwnedDown' = OwnedDown
        /\ \A c, u : Owned(c, u)' <=> Owned(c, u)
    BY <1>2, <2>1, LogicFrame DEF connector
  <2>3. PlayersOK' /\ OwnedUsers' /\ OwnedLinks' /\ Faults'
    BY <1>1, <1>2, <2>1, <2>2
       DEF Inv, PlayersOK, OwnedUsers, OwnedLinks, Faults, logic, faults
  <2> QED
    BY <2>2, <2>3 DEF Inv
<1> QED
  BY <1>3, <1>4

\* A link breaks.
LEMMA StepBreak ==
  ASSUME Inv, Break
  PROVE  Inv'
<1>1. SocketsOK' /\ ClientsOK' /\ Tickets' /\ OwnedAnswers'
      /\ OwnedUp' = OwnedUp /\ OwnedDown' = OwnedDown
      /\ \A c, u : Owned(c, u)' <=> Owned(c, u)
  BY LogicFrame DEF Break
<1>2. PlayersOK' /\ OwnedUsers'
  BY <1>1 DEF Break, Inv, PlayersOK, OwnedUsers, logic
<1>3. OwnedLinks'
  BY <1>1, EmptySeq DEF Break, Inv, OwnedLinks
<1>4. Faults'
  BY DEF Break, Inv, Faults
<1> QED
  BY <1>1, <1>2, <1>3, <1>4 DEF Inv

---------------------------------------------------------------------------

\* The invariant holds initially.
LEMMA InitInv == Init => Inv
<1> SUFFICES ASSUME Init PROVE Inv
  OBVIOUS
<1>1. SocketsOK
  BY FreeSocket, EmptySeq DEF Init, SocketsOK, Free
<1>2. ClientsOK
  BY EmptySeq, BoundsAssumption DEF Init, ClientsOK, Free
<1>3. PlayersOK
  BY EmptySeq DEF Init, PlayersOK, Sessions
<1>4. Faults /\ Tickets /\ OwnedUsers
  BY DEF Init, Faults, Tickets, OwnedUsers, Free
<1>5. OwnedLinks /\ OwnedAnswers
  BY EmptySeq DEF Init, OwnedLinks, OwnedAnswers
<1> QED
  BY <1>1, <1>2, <1>3, <1>4, <1>5 DEF Inv

\* Every step keeps the invariant.
LEMMA NextInv == Inv /\ [Next]_vars => Inv'
<1> SUFFICES ASSUME Inv, [Next]_vars PROVE Inv'
  OBVIOUS
<1>1. CASE UNCHANGED vars
  <2>1. SocketsOK' /\ ClientsOK' /\ Tickets' /\ OwnedAnswers'
        /\ OwnedUp' = OwnedUp /\ OwnedDown' = OwnedDown
        /\ \A c, u : Owned(c, u)' <=> Owned(c, u)
    BY <1>1, LogicFrame DEF vars
  <2>2. PlayersOK' /\ OwnedUsers' /\ OwnedLinks' /\ Faults'
    BY <1>1, <2>1
       DEF Inv, PlayersOK, OwnedUsers, OwnedLinks, Faults, logic, faults, vars
  <2> QED
    BY <2>1, <2>2 DEF Inv
<1>2. CASE \E f \in Fds : \/ ClientCloses(f) \/ CheckSelf(f)
                         \/ RecvClientMessages(f)
                         \/ \E u \in Uins : Accept(f, u)
  BY <1>2, StepClose, StepReceive, StepAccept
<1>3. CASE TransferCode
  <2>1. CASE TransferBadSize \/ TransferGarbage \/ TransferRejected
    <3>1. HasPacket
      BY <2>1 DEF TransferBadSize, TransferGarbage, TransferRejected, WellFormed
    <3> QED
      BY <2>1, <3>1, StepTransferEnds
         DEF TransferBadSize, TransferGarbage, TransferRejected
  <2>2. CASE TransferHeartbeat \/ TransferRequest
    BY <2>2, StepTransferTaken
  <2> QED
    BY <1>3, <2>1, <2>2, StepTransferRefused, StepTransferDone DEF TransferCode
<1>4. CASE Logic
  BY <1>4, StepTransform, StepStart, StepDisconnect DEF Logic
<1>5. CASE Deliver
  BY <1>5, StepDeliverAnswer, StepDeliverClose DEF Deliver
<1>6. CASE Break
  BY <1>6, StepBreak
<1> QED
  BY <1>1, <1>2, <1>3, <1>4, <1>5, <1>6 DEF Next

\* The invariant of the two servers and of the links between them.
THEOREM Invariant == Spec => []Inv
<1> QED
  BY InitInv, NextInv, PTL DEF Spec

\* Every table entry and message is well formed, and a socket's buffer holds
\* packets of the connection that has the socket.
THEOREM TypeCorrect == Spec => []TypeOK
<1>1. Inv => TypeOK
  <2> SUFFICES ASSUME Inv PROVE TypeOK
    OBVIOUS
  <2>1. OwnedUp \subseteq Upward /\ OwnedDown \subseteq Downward
    BY DEF OwnedUp, OwnedDown
  <2>2. LinksOK
    BY <2>1, SeqMonotonic DEF Inv, OwnedLinks, LinksOK
  <2> QED
    BY <2>2 DEF Inv, TypeOK, Faults
<1> QED
  BY <1>1, Invariant, PTL

\* Whatever is late, lost or refused, and however often descriptors are used
\* again: what the logic server sends a player, or closes, is a connection
\* that holds that player's ticket.
THEOREM AnswersAreOwn == Spec => []OwnAnswers
<1>1. Inv => OwnAnswers
  BY DEF Inv, OwnedAnswers, OwnedSent, Owned, OwnAnswers
<1> QED
  BY <1>1, Invariant, PTL

\* A player's session in the logic server is a connection with his ticket.
THEOREM SessionsAreOwn == Spec => []OwnSessions
<1>1. Inv => OwnSessions
  BY DEF Inv, OwnedUsers, Owned, OwnSessions
<1> QED
  BY <1>1, Invariant, PTL

---------------------------------------------------------------------------
(* The links, message by message *)

\* A link with one more message.
LEMMA Longer ==
  ASSUME NEW S, NEW s \in Seq(S), NEW m \in S
  PROVE  /\ Len(Append(s, m)) = Len(s) + 1 /\ Len(s) \in Nat
         /\ Append(s, m)[Len(s) + 1] = m
         /\ \A i \in 1 .. Len(s) : Append(s, m)[i] = s[i]
BY AppendProperties, LenProperties

\* A link without its first message.
LEMMA Shorter ==
  ASSUME NEW S, NEW s \in Seq(S), s # <<>>
  PROVE  /\ Len(Tail(s)) = Len(s) - 1 /\ Len(s) \in Nat \ {0}
         /\ Head(s) = s[1]
         /\ \A i \in 1 .. Len(Tail(s)) : Tail(s)[i] = s[i + 1]
BY HeadTailProperties, LenProperties, EmptySeq

\* What is known of the messages on the way.
LEMMA OnTheWay ==
  ASSUME Inv
  PROVE  /\ Len(up) \in Nat /\ Len(down) \in Nat
         /\ \A i \in 1 .. Len(up) : up[i] \in OwnedUp
         /\ \A i \in 1 .. Len(down) : down[i] \in OwnedDown
         /\ \A i \in 1 .. Len(up) : up[i].type = "start" =>
              /\ up[i].conn \in Conns /\ up[i].uin \in Uins
              /\ Owned(up[i].conn, up[i].uin)
<1>1. up \in Seq(OwnedUp) /\ down \in Seq(OwnedDown)
  BY DEF Inv, OwnedLinks
<1>2. /\ Len(up) \in Nat /\ Len(down) \in Nat
      /\ \A i \in 1 .. Len(up) : up[i] \in OwnedUp
      /\ \A i \in 1 .. Len(down) : down[i] \in OwnedDown
  BY <1>1, LenProperties, ElementOfSeq
<1>3. \A m \in OwnedUp : m.type = "start" =>
        m.conn \in Conns /\ m.uin \in Uins /\ Owned(m.conn, m.uin)
  BY DEF OwnedUp, Upward
<1> QED
  BY <1>2, <1>3

---------------------------------------------------------------------------
(* One socket for a connection *)

\* No two descriptors are the same connection's.
OneSocket ==
  \A f, g \in Fds : f # g /\ socket[f].conn # 0 => socket[g].conn # socket[f].conn

\* What a step does to the connections of the sockets: one is freed, or one
\* is accepted under a new number, or they all stay.
LEMMA ConnsMove ==
  ASSUME Inv, [Next]_vars
  PROVE  \/ \E f \in Fds : socket' = [socket EXCEPT ![f] = Free]
         \/ \E f \in Fds : \E u \in Uins : Accept(f, u)
         \/ \A g \in Fds : socket'[g].conn = socket[g].conn
<1> DEFINE Same == \A g \in Fds : socket'[g].conn = socket[g].conn
           OneFreed == \E f \in Fds : socket' = [socket EXCEPT ![f] = Free]
<1>1. ASSUME NEW f \in Fds, NEW reason, ClearCurrentSocket(f, reason)
      PROVE  OneFreed
  BY <1>1, Cleared
<1>2. CASE \E f \in Fds : ClientCloses(f) \/ CheckSelf(f)
  BY <1>1, <1>2 DEF ClientCloses, CheckSelf
<1>3. ASSUME NEW f \in Fds, RecvClientMessages(f)
      PROVE  Same
  <2>1. PICK more : socket' = [socket EXCEPT ![f].buffer = more]
    BY <1>3 DEF RecvClientMessages
  <2> QED
    BY <2>1 DEF Inv, SocketsOK, Sockets
<1>4. CASE TransferCode
  <2>1. CASE TransferBadSize \/ TransferGarbage \/ TransferRejected
    <3>1. HasPacket
      BY <2>1 DEF TransferBadSize, TransferGarbage, TransferRejected, WellFormed
    <3>2. busy \in Fds
      BY <3>1, PacketAtHand
    <3> QED
      BY <2>1, <3>2, <1>1
         DEF TransferBadSize, TransferGarbage, TransferRejected, TransferEnds
  <2>2. CASE TransferHeartbeat \/ TransferRequest
    <3>1. PICK u : socket' = [socket EXCEPT ![busy].uin = u, ![busy].recved = TRUE]
      BY <2>2 DEF TransferHeartbeat, TransferRequest
    <3> QED
      BY <3>1 DEF Inv, SocketsOK, Sockets
  <2>3. CASE TransferRefused
    <3>1. PICK u : socket' = [socket EXCEPT ![busy].uin = u]
      BY <2>3 DEF TransferRefused
    <3> QED
      BY <3>1 DEF Inv, SocketsOK, Sockets
  <2>4. CASE TransferDone
    <3>1. socket' = [socket EXCEPT ![busy].buffer = <<>>]
      BY <2>4 DEF TransferDone
    <3> QED
      BY <3>1 DEF Inv, SocketsOK, Sockets
  <2> QED
    BY <1>4, <2>1, <2>2, <2>3, <2>4 DEF TransferCode
<1>5. CASE Logic
  BY <1>5 DEF Logic, HandleTransform, HandleStart, HandleDisconnect, connector
<1>6. CASE DeliverAnswer
  <2> DEFINE f == Head(down).index
  <2>1. f \in Fds
    BY <1>6, MessageDown DEF DeliverAnswer
  <2>2. CASE socket' = [socket EXCEPT ![f].sended = TRUE]
    BY <2>2 DEF Inv, SocketsOK, Sockets
  <2>3. CASE ClearCurrentSocket(f, "Client")
    BY <2>1, <2>3, <1>1
  <2>4. CASE socket' = socket
    BY <2>4
  <2> QED
    BY <1>6, <2>2, <2>3, <2>4 DEF DeliverAnswer
<1>7. CASE DeliverClose
  <2> DEFINE f == Head(down).index
  <2>1. f \in Fds
    BY <1>7, MessageDown DEF DeliverClose
  <2>2. CASE ClearCurrentSocket(f, "Service")
    BY <2>1, <2>2, <1>1
  <2>3. CASE socket' = socket
    BY <2>3
  <2> QED
    BY <1>7, <2>2, <2>3 DEF DeliverClose
<1>8. CASE Break
  BY <1>8 DEF Break, connector
<1>9. CASE UNCHANGED vars
  BY <1>9 DEF vars, connector
<1> QED
  BY <1>2, <1>3, <1>4, <1>5, <1>6, <1>7, <1>8, <1>9 DEF Next, Deliver

\* A step gives no connection a second socket.
LEMMA OneSocketStep ==
  ASSUME Inv, OneSocket, [Next]_vars
  PROVE  OneSocket'
<1>1. CASE \E f \in Fds : socket' = [socket EXCEPT ![f] = Free]
  <2>1. PICK f \in Fds : socket' = [socket EXCEPT ![f] = Free]
    BY <1>1
  <2>2. socket'[f].conn = 0 /\ \A g \in Fds \ {f} : socket'[g] = socket[g]
    BY <2>1 DEF Inv, SocketsOK, Free
  <2> QED
    BY <2>2 DEF OneSocket
<1>2. CASE \E f \in Fds : \E u \in Uins : Accept(f, u)
  <2>1. PICK f \in Fds : \E u \in Uins : Accept(f, u)
    BY <1>2
  <2>2. /\ socket'[f].conn = Len(owner) + 1
        /\ \A g \in Fds \ {f} : socket'[g] = socket[g]
    BY <2>1 DEF Accept, Inv, SocketsOK, Sockets
  <2>3. \A g \in Fds : socket[g].conn <= Len(owner) /\ socket[g].conn \in Nat
    BY DEF Inv, ClientsOK, SocketsOK, Sockets, Conns
  <2>4. Len(owner) \in Nat
    BY LenProperties DEF Inv, ClientsOK
  <2>5. \A g \in Fds \ {f} : socket'[g].conn # Len(owner) + 1
    BY <2>2, <2>3, <2>4
  <2> QED
    BY <2>2, <2>5 DEF OneSocket
<1>3. CASE \A g \in Fds : socket'[g].conn = socket[g].conn
  BY <1>3 DEF OneSocket
<1> QED
  BY <1>1, <1>2, <1>3, ConnsMove

\* However often a descriptor is used again, a connection is in the table of
\* sockets once.
THEOREM OnlySocket == Spec => []OneSocket
<1>1. Init => OneSocket
  BY DEF Init, OneSocket, Free
<1> QED
  BY <1>1, OneSocketStep, Invariant, PTL DEF Spec

=============================================================================
