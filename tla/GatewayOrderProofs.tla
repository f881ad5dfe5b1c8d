------------------------ MODULE GatewayOrderProofs ------------------------
(***************************************************************************)
(* A proof about GatewaySession: while no link breaks, the requests of a   *)
(* connection are handled in the order they were sent and without a gap.   *)
(*                                                                         *)
(* InOrder speaks of what has been handled.  It is inductive together with *)
(* the same fact about the messages on their way up (UpOrder) and with     *)
(* what ties them to the socket's buffer: the buffer is the end of what    *)
(* the client has sent (BufferTail), and every request in front of the     *)
(* packet that transfer_code works on has been forwarded (BeforeSeen).     *)
(* A refused packet leaves the buffer as it is, so that packets go up      *)
(* again: no number of the link or of the table is claimed to be new.      *)
(***************************************************************************)
EXTENDS GatewaySessionProofs

Request(c, n) == sent[c][n].kind = "request"

\* Message i of the link is packet n of connection c.
Carries(i, c, n) ==
  up[i].type # "disconnect" /\ up[i].conn = c /\ up[i].number = n

Handled(c, n) == \E i \in 1 .. Len(handled[c]) : handled[c][i] = n

\* Packet n of connection c has been handled, or is on its way.
Seen(c, n) == Handled(c, n) \/ \E i \in 1 .. Len(up) : Carries(i, c, n)

\* The packets of the buffer of f that transfer_code is done with.
Done(f) == IF busy = f THEN at ELSE 0

\* How many of the packets of the connection on f are not in its buffer.
Before(f) == Len(sent[socket[f].conn]) - Len(socket[f].buffer)

NothingSent == \A c \in Conns : c > Len(owner) => sent[c] = <<>>

BufferTail ==
  \A f \in Fds : socket[f].conn # 0 =>
    \A i \in 1 .. Len(socket[f].buffer) : socket[f].buffer[i] = Before(f) + i

Numbered ==
  /\ \A c \in Conns : \A i \in 1 .. Len(handled[c]) :
       handled[c][i] <= Len(sent[c])
  /\ \A i \in 1 .. Len(up) : up[i].type # "disconnect" =>
       up[i].number <= Len(sent[up[i].conn])

BeforeSeen ==
  \A f \in Fds : socket[f].conn # 0 =>
    \A n \in 1 .. Before(f) + Done(f) :
      Request(socket[f].conn, n) => Seen(socket[f].conn, n)

UpOrder ==
  \A i \in 1 .. Len(up) : up[i].type # "disconnect" =>
    \A n \in 1 .. up[i].number - 1 : Request(up[i].conn, n) =>
      \/ Handled(up[i].conn, n)
      \/ \E j \in 1 .. i : Carries(j, up[i].conn, n)

HandledOrder ==
  \A c \in Conns : \A j \in 1 .. Len(handled[c]) :
    \A n \in 1 .. handled[c][j] - 1 :
      Request(c, n) => \E i \in 1 .. j : handled[c][i] = n

Links == Numbered /\ UpOrder /\ HandledOrder
Ordered == NothingSent /\ BufferTail /\ BeforeSeen /\ Links

Order == Inv /\ OneSocket /\ (breaks = 0 => Ordered)

---------------------------------------------------------------------------
(* What the steps share *)

\* The types the arithmetic rests on.
LEMMA Counts ==
  ASSUME Inv
  PROVE  /\ Len(up) \in Nat
         /\ \A i \in 1 .. Len(up) : up[i].type # "disconnect" =>
              up[i].conn \in Conns /\ up[i].number \in Numbers
         /\ \A c \in Conns : /\ Len(sent[c]) \in Nat /\ sent[c] \in Seq(Packets)
                             /\ Len(handled[c]) \in Nat
                             /\ handled[c] \in Seq(Numbers)
         /\ \A c \in Conns : \A i \in 1 .. Len(handled[c]) :
              handled[c][i] \in Numbers
         /\ Numbers \subseteq Nat
         /\ at \in Nat
<1>1. \A m \in OwnedUp : m.type # "disconnect" =>
        m.conn \in Conns /\ m.number \in Numbers
  BY DEF OwnedUp, Upward
<1>2. \A c \in Conns : sent[c] \in Seq(Packets) /\ handled[c] \in Seq(Numbers)
  BY DEF Inv, ClientsOK, PlayersOK
<1>3. \A c \in Conns : Len(sent[c]) \in Nat /\ Len(handled[c]) \in Nat
  BY <1>2, LenProperties
<1>4. \A c \in Conns : \A i \in 1 .. Len(handled[c]) : handled[c][i] \in Numbers
  BY <1>2, ElementOfSeq
<1>5. at \in Nat /\ Numbers \subseteq Nat
  BY BoundsAssumption DEF Inv, SocketsOK, Numbers
<1> QED
  BY <1>1, <1>2, <1>3, <1>4, <1>5, OnTheWay

\* A socket in use, its connection and its buffer.
LEMMA SocketAt ==
  ASSUME Inv, NEW f \in Fds, socket[f].conn # 0
  PROVE  /\ socket[f].conn \in Conns /\ socket[f].conn <= Len(owner)
         /\ socket[f].buffer \in Seq(Numbers)
         /\ Len(socket[f].buffer) \in Nat
         /\ Len(sent[socket[f].conn]) \in Nat
         /\ Before(f) \in Int
<1>1. /\ socket[f].conn \in Conns /\ socket[f].conn <= Len(owner)
      /\ socket[f].buffer \in Seq(Numbers)
  BY DEF Inv, SocketsOK, ClientsOK, Sockets
<1>2. Len(socket[f].buffer) \in Nat
  BY <1>1, LenProperties
<1>3. Len(sent[socket[f].conn]) \in Nat
  BY <1>1, Counts
<1> QED
  BY <1>1, <1>2, <1>3 DEF Before

\* The links when the connector adds nothing to them, or a message that has
\* everything its client sent before it in front of it.
LEMMA LinksKept ==
  ASSUME Inv, Links, handled' = handled, sent' = sent,
         \/ up' = up
         \/ \E m \in OwnedUp :
              /\ up' = Append(up, m)
              /\ m.type # "disconnect" =>
                   /\ m.number <= Len(sent[m.conn])
                   /\ \A n \in 1 .. m.number - 1 :
                        Request(m.conn, n) => Seen(m.conn, n)
  PROVE  /\ Links'
         /\ \A c, n : Seen(c, n) => Seen(c, n)'
         /\ \A c, n : Request(c, n)' <=> Request(c, n)
<1>1. /\ \A c, n : Handled(c, n)' <=> Handled(c, n)
      /\ \A c, n : Request(c, n)' <=> Request(c, n)
  BY DEF Handled, Request
<1>2. HandledOrder'
  BY <1>1 DEF Links, HandledOrder
<1>3. CASE up' = up
  <2>1. \A i, c, n : Carries(i, c, n)' <=> Carries(i, c, n)
    BY <1>3 DEF Carries
  <2>2. \A c, n : Seen(c, n)' <=> Seen(c, n)
    BY <1>1, <1>3, <2>1 DEF Seen
  <2>3. Numbered' /\ UpOrder'
    BY <1>1, <1>3, <2>1 DEF Links, Numbered, UpOrder
  <2> QED
    BY <1>1, <1>2, <2>2, <2>3 DEF Links
<1>4. CASE up' # up
  <2>1. PICK m \in OwnedUp :
          /\ up' = Append(up, m)
          /\ m.type # "disconnect" =>
               /\ m.number <= Len(sent[m.conn])
               /\ \A n \in 1 .. m.number - 1 :
                    Request(m.conn, n) => Seen(m.conn, n)
    BY <1>4
  <2>2. /\ Len(up') = Len(up) + 1 /\ Len(up) \in Nat
        /\ up'[Len(up) + 1] = m
        /\ \A i \in 1 .. Len(up) : up'[i] = up[i]
    BY <2>1, Longer DEF Inv, OwnedLinks
  <2>3. \A i \in 1 .. Len(up) : \A c, n : Carries(i, c, n)' <=> Carries(i, c, n)
    BY <2>2 DEF Carries
  <2>4. \A c, n : Seen(c, n) => Seen(c, n)'
    BY <1>1, <2>2, <2>3 DEF Seen
  <2>5. Numbered'
    BY <2>1, <2>2 DEF Links, Numbered
  <2>6. UpOrder'
    <3> SUFFICES ASSUME NEW i \in 1 .. Len(up'), up'[i].type # "disconnect",
                        NEW n \in 1 .. up'[i].number - 1,
                        NEW c, c = up'[i].conn, Request(c, n)
                 PROVE  (Handled(c, n) \/ \E j \in 1 .. i : Carries(j, c, n))'
      BY <1>1 DEF UpOrder
    <3>1. CASE i = Len(up) + 1
      <4>1. Seen(c, n)
        BY <3>1, <2>1, <2>2
      <4>2. CASE Handled(c, n)
        BY <4>2, <1>1
      <4>3. CASE \E j \in 1 .. Len(up) : Carries(j, c, n)
        BY <4>3, <3>1, <2>2, <2>3
      <4> QED
        BY <4>1, <4>2, <4>3 DEF Seen
    <3>2. CASE i # Len(up) + 1
      <4>1. i \in 1 .. Len(up) /\ up'[i] = up[i]
        BY <3>2, <2>2
      <4>2. Handled(c, n) \/ \E j \in 1 .. i : Carries(j, c, n)
        BY <4>1 DEF Links, UpOrder
      <4>3. \A j \in 1 .. i : j \in 1 .. Len(up)
        BY <4>1, <2>2
      <4> QED
        BY <4>2, <4>3, <1>1, <2>3
    <3> QED
      BY <3>1, <3>2
  <2> QED
    BY <1>1, <1>2, <2>4, <2>5, <2>6 DEF Links
<1> QED
  BY <1>3, <1>4

\* A step of the connector concerns one socket: what is said of the others
\* stays.
LEMMA OneSocketOrder ==
  ASSUME Inv, Ordered, Links', sent' = sent,
         \A c, n : Seen(c, n) => Seen(c, n)',
         NEW f \in Fds, \A g \in Fds \ {f} : socket'[g] = socket[g],
         busy \in {NoFd, f}, busy' \in {NoFd, f},
         Len(owner) <= Len(owner'), Len(owner') \in Nat,
         socket'[f].conn # 0 =>
           /\ \A i \in 1 .. Len(socket'[f].buffer) :
                socket'[f].buffer[i] = Before(f)' + i
           /\ \A n \in 1 .. Before(f)' + Done(f)' :
                (Request(socket[f].conn, n) => Seen(socket[f].conn, n))'
  PROVE  Ordered'
<1>1. \A g \in Fds \ {f} : /\ Before(g)' = Before(g)
                           /\ Done(g)' = 0 /\ Done(g) = 0
  <2> SUFFICES ASSUME NEW g \in Fds \ {f}
               PROVE  Before(g)' = Before(g) /\ Done(g)' = 0 /\ Done(g) = 0
    OBVIOUS
  <2>1. socket'[g] = socket[g] /\ busy # g /\ busy' # g
    BY NobodyAssumption
  <2> QED
    BY <2>1 DEF Before, Done
<1>2. NothingSent'
  <2>1. Len(owner) \in Nat
    BY LenProperties DEF Inv, ClientsOK
  <2>2. \A c \in Conns : c > Len(owner') => c > Len(owner)
    BY <2>1, BoundsAssumption DEF Conns
  <2> QED
    BY <2>2 DEF Ordered, NothingSent
<1>3. BufferTail'
  <2> SUFFICES ASSUME NEW g \in Fds, socket'[g].conn # 0,
                      NEW i \in 1 .. Len(socket'[g].buffer)
               PROVE  socket'[g].buffer[i] = Before(g)' + i
    BY DEF BufferTail
  <2>1. CASE g = f
    BY <2>1
  <2>2. CASE g # f
    BY <2>2, <1>1 DEF Ordered, BufferTail
  <2> QED
    BY <2>1, <2>2
<1>4. BeforeSeen'
  <2> SUFFICES ASSUME NEW g \in Fds, socket'[g].conn # 0,
                      NEW n \in 1 .. Before(g)' + Done(g)'
               PROVE  (Request(socket[g].conn, n) => Seen(socket[g].conn, n))'
    BY DEF BeforeSeen
  <2>1. CASE g = f
    BY <2>1
  <2>2. CASE g # f
    <3>1. PICK c : c = socket[g].conn
      OBVIOUS
    <3>2. socket'[g].conn = c /\ socket[g].conn # 0
      BY <3>1, <2>2
    <3>3. n \in 1 .. Before(g) + Done(g)
      BY <2>2, <1>1
    <3>4. Request(c, n) => Seen(c, n)
      BY <3>1, <3>2, <3>3 DEF Ordered, BeforeSeen
    <3>5. Request(c, n)' <=> Request(c, n)
      BY DEF Request
    <3>6. (Request(c, n) => Seen(c, n))'
      BY <3>4, <3>5
    <3> QED
      BY <3>2, <3>6
  <2> QED
    BY <2>1, <2>2
<1> QED
  BY <1>2, <1>3, <1>4 DEF Ordered

\* A step that leaves the connection and the buffer of its socket alone, and
\* goes on in the buffer past packets that have been seen.
LEMMA SameBufferOrder ==
  ASSUME Inv, Ordered, Links', sent' = sent, owner' = owner,
         \A c, n : Seen(c, n) => Seen(c, n)',
         NEW f \in Fds, \A g \in Fds \ {f} : socket'[g] = socket[g],
         busy \in {NoFd, f}, busy' \in {NoFd, f},
         socket'[f].conn = socket[f].conn,
         socket'[f].buffer = socket[f].buffer,
         NEW d, d = socket[f].conn, NEW k, k = Before(f) + Done(f) + 1,
         \/ Done(f)' = 0
         \/ Done(f)' = Done(f)
         \/ /\ Done(f)' = Done(f) + 1
            /\ Request(d, k) => Seen(d, k)'
  PROVE  Ordered'
<1>1. Before(f)' = Before(f)
  BY DEF Before
<1>2. Len(owner) \in Nat
  BY LenProperties DEF Inv, ClientsOK
<1>3. ASSUME socket[f].conn # 0,
             NEW n \in 1 .. Before(f)' + Done(f)', NEW c, c = socket[f].conn,
             Request(c, n)
      PROVE  Seen(c, n)'
  <2>1. Before(f) \in Int /\ Done(f) \in Nat
    BY <1>3, SocketAt, Counts DEF Done
  <2>2. \/ n \in 1 .. Before(f) + Done(f)
        \/ Done(f)' = Done(f) + 1 /\ n = Before(f) + Done(f) + 1
    BY <1>1, <2>1
  <2>3. CASE n \in 1 .. Before(f) + Done(f)
    BY <1>3, <2>3 DEF Ordered, BeforeSeen
  <2>4. CASE Done(f)' = Done(f) + 1 /\ n = Before(f) + Done(f) + 1
    <3>1. Done(f)' # 0 /\ Done(f)' # Done(f)
      BY <2>1, <2>4
    <3> QED
      BY <1>3, <2>4, <3>1
  <2> QED
    BY <2>2, <2>3, <2>4
<1>4. \A c, n : Request(c, n)' <=> Request(c, n)
  BY DEF Request
<1>5. ASSUME socket'[f].conn # 0
      PROVE  /\ \A i \in 1 .. Len(socket'[f].buffer) :
                  socket'[f].buffer[i] = Before(f)' + i
             /\ \A n \in 1 .. Before(f)' + Done(f)' :
                  (Request(socket[f].conn, n) => Seen(socket[f].conn, n))'
  <2>1. PICK c : c = socket[f].conn
    OBVIOUS
  <2>2. \A n \in 1 .. Before(f)' + Done(f)' : Request(c, n) => Seen(c, n)'
    BY <2>1, <1>3, <1>5
  <2>3. socket'[f].conn = c
    BY <2>1
  <2> QED
    BY <1>1, <1>4, <1>5, <2>2, <2>3 DEF Ordered, BufferTail
<1> QED
  BY <1>2, <1>5, OneSocketOrder

---------------------------------------------------------------------------
(* The connector's steps *)

\* A connection that is closed has no buffer any more.
LEMMA OrderCleared ==
  ASSUME Inv, Ordered, NEW f \in Fds, NEW reason,
         ClearCurrentSocket(f, reason),
         busy \in {NoFd, f}, busy' = NoFd, handled' = handled
  PROVE  Ordered'
<1>1. /\ socket' = [socket EXCEPT ![f] = Free]
      /\ UNCHANGED <<owner, sent>>
  BY Cleared
<1>2. socket'[f].conn = 0 /\ \A g \in Fds \ {f} : socket'[g] = socket[g]
  BY <1>1 DEF Inv, SocketsOK, Free
<1>3. up' = up \/ \E m \in OwnedUp : /\ up' = Append(up, m)
                                     /\ m.type = "disconnect"
  <2>1. PICK m : m = [type |-> "disconnect", index |-> f, conn |-> 0,
                      uin |-> socket[f].uin, number |-> 0]
    OBVIOUS
  <2>2. m \in OwnedUp /\ m.type = "disconnect"
    BY <2>1 DEF OwnedUp, Upward, Inv, SocketsOK, Sockets
  <2>3. up' = up \/ up' = Append(up, m)
    BY <2>1 DEF ClearCurrentSocket, Send
  <2> QED
    BY <2>2, <2>3
<1>4. Links' /\ \A c, n : Seen(c, n) => Seen(c, n)'
  BY <1>1, <1>3, LinksKept DEF Ordered
<1>5. Len(owner) \in Nat /\ Len(owner') = Len(owner)
  BY <1>1, LenProperties DEF Inv, ClientsOK
<1> QED
  BY <1>1, <1>2, <1>4, <1>5, OneSocketOrder

\* A new connection has sent nothing.
LEMMA OrderAccept ==
  ASSUME Inv, Ordered, NEW f \in Fds, NEW p \in Uins, Accept(f, p)
  PROVE  Ordered'
<1>1. /\ socket'[f].conn = Len(owner) + 1 /\ socket'[f].buffer = <<>>
      /\ \A g \in Fds \ {f} : socket'[g] = socket[g]
      /\ busy = NoFd /\ busy' = NoFd
      /\ sent' = sent /\ up' = up /\ handled' = handled
  BY DEF Accept, Inv, SocketsOK, Sockets, Free, logic
<1>2. Len(owner) \in Nat /\ Len(owner') = Len(owner) + 1
  BY LenProperties DEF Accept, Inv, ClientsOK
<1>3. sent[Len(owner) + 1] = <<>>
  <2>1. Len(owner) + 1 \in Conns
    BY <1>2, BoundsAssumption DEF Accept, Conns
  <2> QED
    BY <2>1, <1>2 DEF Ordered, NothingSent, Conns
<1>4. Links' /\ \A c, n : Seen(c, n) => Seen(c, n)'
  BY <1>1, LinksKept DEF Ordered
<1>5. Before(f)' = 0 /\ Done(f)' = 0 /\ Len(socket'[f].buffer) = 0
  BY <1>1, <1>3, NobodyAssumption, EmptySeq DEF Before, Done
<1> QED
  BY <1>1, <1>2, <1>4, <1>5, OneSocketOrder

\* Every packet of the buffer is done: all the client has sent has been seen.
LEMMA OrderDone ==
  ASSUME Inv, Ordered, TransferDone
  PROVE  Ordered'
<1>1. PICK f \in Fds : f = busy
  BY DEF TransferDone, Inv, SocketsOK
<1>2. /\ socket[f].conn # 0 /\ at = Len(socket[f].buffer)
      /\ socket'[f].conn = socket[f].conn /\ socket'[f].buffer = <<>>
      /\ \A g \in Fds \ {f} : socket'[g] = socket[g]
      /\ busy' = NoFd /\ sent' = sent /\ up' = up /\ handled' = handled
      /\ owner' = owner
  BY <1>1, NobodyAssumption
     DEF TransferDone, Inv, SocketsOK, Sockets, Current, logic
<1>3. Links' /\ \A c, n : Seen(c, n) => Seen(c, n)'
  BY <1>2, LinksKept DEF Ordered
<1>4. PICK c : c = socket[f].conn
  OBVIOUS
<1>5. /\ Len(sent[c]) \in Nat /\ Len(socket[f].buffer) \in Nat
      /\ Len(socket'[f].buffer) = 0 /\ Len(owner) \in Nat
  BY <1>2, <1>4, SocketAt, EmptySeq, LenProperties DEF Inv, ClientsOK
<1>6. Before(f)' = Len(sent[c]) /\ Done(f)' = 0
  BY <1>2, <1>4, <1>5, NobodyAssumption DEF Before, Done
<1>7. Before(f) + Done(f) = Len(sent[c])
  BY <1>1, <1>2, <1>4, <1>5 DEF Before, Done
<1>8. \A n \in 1 .. Len(sent[c]) : Request(c, n) => Seen(c, n)
  BY <1>2, <1>4, <1>7 DEF Ordered, BeforeSeen
<1>9. \A n \in 1 .. Before(f)' + Done(f)' : (Request(c, n) => Seen(c, n))'
  BY <1>2, <1>3, <1>5, <1>6, <1>8 DEF Request
<1>10. socket'[f].conn = c
  BY <1>2, <1>4
<1> QED
  BY <1>1, <1>2, <1>3, <1>5, <1>9, <1>10, OneSocketOrder

\* k packets more have been sent on connection c, and they are behind the
\* others in the buffer of f.
Grown(f, c, k) ==
  /\ Len(sent'[c]) = Len(sent[c]) + k
  /\ \A n \in 1 .. Len(sent[c]) : sent'[c][n] = sent[c][n]
  /\ Len(socket'[f].buffer) = Len(socket[f].buffer) + k
  /\ \A i \in 1 .. Len(socket[f].buffer) :
       socket'[f].buffer[i] = socket[f].buffer[i]
  /\ \A i \in 1 .. k :
       socket'[f].buffer[Len(socket[f].buffer) + i] = Len(sent[c]) + i

\* What a recv adds: the same number of packets to what the connection has
\* sent and, with the numbers they have there, to the buffer of its socket.
LEMMA Received ==
  ASSUME Inv, NEW f \in Fds, RecvClientMessages(f), NEW c, c = socket[f].conn
  PROVE  \E k \in Nat : Grown(f, c, k)
<1> DEFINE old == socket[f].buffer
<1>1. c # 0 /\ c \in Conns
  BY SocketAt DEF RecvClientMessages
<1>2. /\ old \in Seq(Numbers) /\ Len(old) \in Nat
      /\ sent[c] \in Seq(Packets) /\ Len(sent[c]) \in Nat
  BY <1>1, SocketAt, Counts
<1>3. PICK k \in 1 .. MaxBatch : \E new \in [1 .. k -> Packets] :
        /\ Len(sent[c]) + k <= MaxPackets
        /\ sent' = [sent EXCEPT ![c] = sent[c] \o new]
        /\ socket' = [socket EXCEPT ![f].buffer =
                        old \o [i \in 1 .. k |-> Len(sent[c]) + i]]
  BY DEF RecvClientMessages, Inv, SocketsOK, ClientsOK
<1>4. PICK new \in [1 .. k -> Packets] :
        /\ Len(sent[c]) + k <= MaxPackets
        /\ sent' = [sent EXCEPT ![c] = sent[c] \o new]
        /\ socket' = [socket EXCEPT ![f].buffer =
                        old \o [i \in 1 .. k |-> Len(sent[c]) + i]]
  BY <1>3
<1>5. PICK added : added = [i \in 1 .. k |-> Len(sent[c]) + i]
  OBVIOUS
<1>6. k \in Nat
  BY BoundsAssumption
<1>7. new \in Seq(Packets) /\ Len(new) = k
  BY <1>6
<1>8. added \in Seq(Numbers) /\ Len(added) = k
  <2>1. \A n \in Nat : n + k <= MaxPackets => \A i \in 1 .. k : n + i \in Numbers
    BY <1>6, BoundsAssumption DEF Numbers
  <2>2. \A i \in 1 .. k : Len(sent[c]) + i \in Numbers
    BY ONLY <2>1, <1>4, <1>2
  <2> QED
    BY <2>2, <1>5, <1>6
<1>9. sent'[c] = sent[c] \o new /\ socket'[f].buffer = old \o added
  BY <1>1, <1>4, <1>5 DEF Inv, SocketsOK, ClientsOK, Sockets
<1> HIDE DEF old
<1>10. /\ Len(sent[c] \o new) = Len(sent[c]) + k
       /\ \A n \in 1 .. Len(sent[c]) : (sent[c] \o new)[n] = sent[c][n]
  <2>1. PICK was : was = sent[c]
    OBVIOUS
  <2>2. /\ Len(was \o new) = Len(was) + k /\ Len(was) \in Nat
        /\ \A n \in 1 .. Len(was) + k : (was \o new)[n] =
             IF n <= Len(was) THEN was[n] ELSE new[n - Len(was)]
    <3>1. was \in Seq(Packets)
      BY <2>1, <1>2
    <3> QED
      BY ONLY <3>1, <1>7, ConcatProperties, LenProperties
  <2>3. \A n \in 1 .. Len(was) : n \in 1 .. Len(was) + k /\ n <= Len(was)
    BY <2>2, <1>6
  <2> QED
    BY <2>1, <2>2, <2>3
<1>11. /\ Len(old \o added) = Len(old) + k
       /\ \A i \in 1 .. Len(old) : (old \o added)[i] = old[i]
       /\ \A i \in 1 .. k : (old \o added)[Len(old) + i] = added[i]
  <2>1. \A i \in 1 .. Len(old) + k : (old \o added)[i] =
          IF i <= Len(old) THEN old[i] ELSE added[i - Len(old)]
    BY <1>2, <1>8, ConcatProperties
  <2>2. \A i \in 1 .. k : /\ Len(old) + i \in 1 .. Len(old) + k
                          /\ ~(Len(old) + i <= Len(old))
                          /\ (Len(old) + i) - Len(old) = i
    BY <1>2, <1>6
  <2>3. Len(old \o added) = Len(old) + k
    BY <1>2, <1>8, ConcatProperties
  <2>4. \A i \in 1 .. Len(old) : i \in 1 .. Len(old) + k /\ i <= Len(old)
    BY <1>2, <1>6
  <2> QED
    BY <2>1, <2>2, <2>3, <2>4
<1>12. \A i \in 1 .. k : added[i] = Len(sent[c]) + i
  BY <1>5
<1> QED
  BY <1>6, <1>9, <1>10, <1>11, <1>12 DEF old, Grown

\* The packets of a recv are the next ones of the connection, and the buffer
\* is still the end of what it has sent.
LEMMA OrderReceive ==
  ASSUME Inv, OneSocket, Ordered, NEW f \in Fds, RecvClientMessages(f)
  PROVE  Ordered'
<1>1. PICK c : c = socket[f].conn
  OBVIOUS
<1>2. c # 0 /\ c \in Conns /\ c <= Len(owner)
  BY <1>1, SocketAt DEF RecvClientMessages
<1>3. /\ Len(sent[c]) \in Nat /\ Len(socket[f].buffer) \in Nat
      /\ Len(owner) \in Nat
  BY <1>1, <1>2, SocketAt, LenProperties DEF Inv, ClientsOK
<1>0. PICK k \in Nat : Grown(f, c, k)
  BY <1>1, Received
<1>4. /\ Len(sent'[c]) = Len(sent[c]) + k
      /\ \A n \in 1 .. Len(sent[c]) : sent'[c][n] = sent[c][n]
      /\ Len(socket'[f].buffer) = Len(socket[f].buffer) + k
      /\ \A i \in 1 .. Len(socket[f].buffer) :
           socket'[f].buffer[i] = socket[f].buffer[i]
      /\ \A i \in 1 .. k :
           socket'[f].buffer[Len(socket[f].buffer) + i] = Len(sent[c]) + i
  BY <1>0 DEF Grown
<1>5. /\ up' = up /\ handled' = handled /\ owner' = owner
      /\ busy = NoFd /\ busy' = f /\ at' = 0
      /\ \A g \in Fds \ {f} : socket'[g] = socket[g]
      /\ socket'[f].conn = c
      /\ \A d \in Conns \ {c} : sent'[d] = sent[d]
  <2>1. PICK more : sent' = [sent EXCEPT ![socket[f].conn] = more]
    BY DEF RecvClientMessages
  <2>2. PICK buffer : socket' = [socket EXCEPT ![f].buffer = buffer]
    BY DEF RecvClientMessages
  <2>3. \A d \in Conns \ {c} : sent'[d] = sent[d]
    BY <1>1, <2>1 DEF Inv, ClientsOK
  <2>4. /\ \A g \in Fds \ {f} : socket'[g] = socket[g]
        /\ socket'[f].conn = c
    BY <1>1, <2>2 DEF Inv, SocketsOK, Sockets
  <2> QED
    BY <2>3, <2>4 DEF RecvClientMessages, logic
<1>6. /\ \A d \in Conns : Len(sent[d]) <= Len(sent'[d]) /\ Len(sent'[d]) \in Nat
      /\ \A d \in Conns : \A n \in 1 .. Len(sent[d]) :
           Request(d, n)' <=> Request(d, n)
  <2> SUFFICES ASSUME NEW d \in Conns
               PROVE  /\ Len(sent[d]) <= Len(sent'[d]) /\ Len(sent'[d]) \in Nat
                      /\ \A n \in 1 .. Len(sent[d]) : sent'[d][n] = sent[d][n]
    BY DEF Request
  <2>1. CASE d = c
    BY <2>1, <1>3, <1>4
  <2>2. CASE d # c
    <3>1. sent'[d] = sent[d] /\ Len(sent[d]) \in Nat
      BY <2>2, <1>5, Counts
    <3> QED
      BY <3>1
  <2> QED
    BY <2>1, <2>2
<1>7. /\ \A d, n : Handled(d, n)' <=> Handled(d, n)
      /\ \A i, d, n : Carries(i, d, n)' <=> Carries(i, d, n)
      /\ \A d, n : Seen(d, n)' <=> Seen(d, n)
  BY <1>5 DEF Handled, Carries, Seen
<1>8. NothingSent'
  <2>1. \A d \in Conns : d > Len(owner) => d # c
    BY <1>2, <1>3 DEF Conns
  <2> QED
    BY <2>1, <1>5 DEF Ordered, NothingSent
<1>9. \A g \in Fds \ {f} : socket[g].conn # 0 =>
        /\ socket[g].conn \in Conns \ {c}
        /\ Before(g)' = Before(g)
  <2> SUFFICES ASSUME NEW g \in Fds \ {f}, socket[g].conn # 0
               PROVE  /\ socket[g].conn \in Conns \ {c}
                      /\ Before(g)' = Before(g)
    OBVIOUS
  <2>1. socket[g].conn \in Conns \ {c}
    BY <1>1, SocketAt DEF OneSocket
  <2> QED
    BY <2>1, <1>5 DEF Before
<1>10. Before(f)' = Before(f) /\ Before(f) = Len(sent[c]) - Len(socket[f].buffer)
  <2>1. Before(f) = Len(sent[c]) - Len(socket[f].buffer)
    BY <1>1 DEF Before
  <2>2. Before(f)' = Len(sent'[c]) - Len(socket'[f].buffer)
    BY <1>5 DEF Before
  <2>3. Before(f)' = (Len(sent[c]) + k) - (Len(socket[f].buffer) + k)
    BY <2>2, <1>4
  <2> QED
    BY <2>1, <2>3, <1>3
<1>11. BufferTail'
  <2> SUFFICES ASSUME NEW g \in Fds, socket'[g].conn # 0,
                      NEW i \in 1 .. Len(socket'[g].buffer)
               PROVE  socket'[g].buffer[i] = Before(g)' + i
    BY DEF BufferTail
  <2>1. CASE g = f
    <3>1. CASE i <= Len(socket[f].buffer)
      <4>1. i \in 1 .. Len(socket[f].buffer)
        BY <3>1, <1>3, <1>4, <2>1
      <4>2. socket[f].buffer[i] = Before(f) + i
        BY <4>1, <1>1, <1>2 DEF Ordered, BufferTail
      <4> QED
        BY <4>1, <4>2, <2>1, <1>4, <1>10
    <3>2. CASE ~(i <= Len(socket[f].buffer))
      <4>1. PICK j \in 1 .. k : i = Len(socket[f].buffer) + j
        <5>1. i - Len(socket[f].buffer) \in 1 .. k
          BY <2>1, <3>2, <1>3, <1>4
        <5>2. i = Len(socket[f].buffer) + (i - Len(socket[f].buffer))
          BY <1>3
        <5> QED
          BY <5>1, <5>2
      <4>2. socket'[g].buffer[i] = Len(sent[c]) + j
        BY <4>1, <2>1, <1>4
      <4>3. Before(g)' + i = Len(sent[c]) + j
        <5>1. Before(g)' = Len(sent[c]) - Len(socket[f].buffer)
          BY <2>1, <1>10
        <5>2. PICK x, y, z : /\ x = Len(sent[c]) /\ y = Len(socket[f].buffer)
                            /\ z = Before(g)'
          OBVIOUS
        <5>3. x \in Int /\ y \in Int /\ z = x - y /\ i = y + j
          BY <5>1, <5>2, <4>1, <1>3
        <5>4. z + i = x + j
          BY ONLY <5>3
        <5> QED
          BY <5>2, <5>4
      <4> QED
        BY <4>2, <4>3
    <3> QED
      BY <3>1, <3>2
  <2>2. CASE g # f
    BY <2>2, <1>5, <1>9 DEF Ordered, BufferTail
  <2> QED
    BY <2>1, <2>2
<1>12. BeforeSeen'
  <2> SUFFICES ASSUME NEW g \in Fds, socket'[g].conn # 0,
                      NEW n \in 1 .. Before(g)' + Done(g)',
                      NEW d, d = socket'[g].conn
               PROVE  (Request(d, n) => Seen(d, n))'
    BY DEF BeforeSeen
  <2>1. socket[g].conn = d /\ socket[g].conn # 0
    BY <1>1, <1>2, <1>5
  <2>2. Before(g)' = Before(g) /\ Done(g)' = 0 /\ Done(g) = 0
    <3>1. busy # g
      BY <1>5, NobodyAssumption
    <3>2. Done(g) = 0 /\ Done(g)' = 0
      BY <3>1, <1>5 DEF Done
    <3> QED
      BY <3>2, <2>1, <1>9, <1>10
  <2>3. n \in 1 .. Before(g) + Done(g)
    BY <2>2
  <2>4. Request(d, n) => Seen(d, n)
    BY <2>1, <2>3 DEF Ordered, BeforeSeen
  <2>5. n \in 1 .. Len(sent[d]) /\ d \in Conns
    <3>1. /\ Len(socket[g].buffer) \in Nat /\ Len(sent[d]) \in Nat
          /\ d \in Conns
      BY <2>1, SocketAt
    <3>2. n \in 1 .. Len(sent[d]) - Len(socket[g].buffer)
      <4>1. Before(g) = Len(sent[d]) - Len(socket[g].buffer)
        BY <2>1 DEF Before
      <4> QED
        BY <2>3, <2>2, <3>1, <4>1
    <3> QED
      BY <3>1, <3>2
  <2> QED
    BY <2>4, <2>5, <1>6, <1>7
<1>13. Numbered'
  <2>1. \A d \in Conns : \A i \in 1 .. Len(handled[d]) :
          handled[d][i] <= Len(sent'[d])
    <3> SUFFICES ASSUME NEW d \in Conns, NEW i \in 1 .. Len(handled[d])
                 PROVE  handled[d][i] <= Len(sent'[d])
      OBVIOUS
    <3>1. handled[d][i] <= Len(sent[d])
      BY DEF Ordered, Links, Numbered
    <3>2. handled[d][i] \in Nat /\ Len(sent[d]) \in Nat
      BY Counts
    <3>3. Len(sent'[d]) \in Nat /\ Len(sent[d]) <= Len(sent'[d])
      BY <1>6, <3>2
    <3> QED
      BY ONLY <3>1, <3>2, <3>3
  <2>2. \A i \in 1 .. Len(up) : up[i].type # "disconnect" =>
          up[i].number <= Len(sent'[up[i].conn])
    <3> SUFFICES ASSUME NEW i \in 1 .. Len(up), up[i].type # "disconnect"
                 PROVE  up[i].number <= Len(sent'[up[i].conn])
      OBVIOUS
    <3>1. up[i].number <= Len(sent[up[i].conn])
      BY DEF Ordered, Links, Numbered
    <3>2. up[i].conn \in Conns /\ up[i].number \in Nat
      BY Counts
    <3>3. /\ Len(sent[up[i].conn]) \in Nat /\ Len(sent'[up[i].conn]) \in Nat
          /\ Len(sent[up[i].conn]) <= Len(sent'[up[i].conn])
      BY <1>6, <3>2, Counts
    <3> QED
      BY ONLY <3>1, <3>2, <3>3
  <2> QED
    BY <2>1, <2>2, <1>5 DEF Numbered
<1>14. UpOrder'
  <2> SUFFICES ASSUME NEW i \in 1 .. Len(up), up[i].type # "disconnect",
                      NEW n \in 1 .. up[i].number - 1,
                      NEW d, d = up[i].conn, Request(d, n)'
               PROVE  (Handled(d, n) \/ \E j \in 1 .. i : Carries(j, d, n))'
    BY <1>5 DEF UpOrder
  <2>1. /\ d \in Conns /\ up[i].number \in Nat /\ up[i].number <= Len(sent[d])
        /\ Len(sent[d]) \in Nat
    BY Counts DEF Ordered, Links, Numbered
  <2>2. n \in 1 .. Len(sent[d])
    BY <2>1
  <2>3. Request(d, n)
    BY <2>1, <2>2, <1>6
  <2> QED
    BY <2>3, <1>7 DEF Ordered, Links, UpOrder
<1>15. HandledOrder'
  <2> SUFFICES ASSUME NEW d \in Conns, NEW j \in 1 .. Len(handled[d]),
                      NEW n \in 1 .. handled[d][j] - 1, Request(d, n)'
               PROVE  \E i \in 1 .. j : handled[d][i] = n
    BY <1>5 DEF HandledOrder
  <2>1. /\ handled[d][j] \in Nat /\ handled[d][j] <= Len(sent[d])
        /\ Len(sent[d]) \in Nat
    BY Counts DEF Ordered, Links, Numbered
  <2>2. n \in 1 .. Len(sent[d])
    BY <2>1
  <2>3. Request(d, n)
    BY <2>2, <1>6
  <2> QED
    BY <2>3 DEF Ordered, Links, HandledOrder
<1> QED
  BY <1>8, <1>11, <1>12, <1>13, <1>14, <1>15 DEF Ordered, Links

\* The packet that transfer_code has come to is the one after those that are
\* done, and all the requests before it have been seen.
LEMMA AtHand ==
  ASSUME Inv, Ordered, HasPacket
  PROVE  /\ Number = Before(busy) + Done(busy) + 1
         /\ Number <= Len(sent[Current.conn])
         /\ \A n \in 1 .. Number - 1 :
              Request(Current.conn, n) => Seen(Current.conn, n)
<1>1. /\ busy \in Fds /\ Current.conn # 0 /\ at \in Nat
      /\ Len(Current.buffer) \in Nat
      /\ \A i \in 1 .. Len(Current.buffer) :
            Current.buffer[i] <= Len(sent[Current.conn])
  BY PacketAtHand
<1>2. at + 1 \in 1 .. Len(Current.buffer)
  BY <1>1 DEF HasPacket
<1>3. Number = Before(busy) + (at + 1)
  BY <1>1, <1>2 DEF Number, Current, Ordered, BufferTail
<1>4. Before(busy) \in Int /\ Done(busy) = at
  BY <1>1, SocketAt DEF Current, Done
<1>5. Number = Before(busy) + Done(busy) + 1
  BY <1>1, <1>3, <1>4
<1>6. \A n \in 1 .. Before(busy) + Done(busy) :
        Request(Current.conn, n) => Seen(Current.conn, n)
  BY <1>1 DEF Ordered, BeforeSeen, Current
<1>7. Number - 1 = Before(busy) + Done(busy)
  BY <1>1, <1>4, <1>5
<1>8. Number <= Len(sent[Current.conn])
  BY <1>1, <1>2 DEF Number
<1> QED
  BY <1>5, <1>6, <1>7, <1>8

\* A packet that is taken is a heartbeat, or it goes up behind everything its
\* client sent before it.
LEMMA OrderTaken ==
  ASSUME Inv, Ordered, TransferHeartbeat \/ TransferRequest
  PROVE  Ordered'
<1>1. HasPacket /\ Trusted /\ sent' = sent /\ owner' = owner /\ busy' = busy
      /\ handled' = handled /\ at' = at + 1
  BY DEF TransferHeartbeat, TransferRequest, WellFormed, logic
<1>2. /\ busy \in Fds /\ Current.conn \in Conns /\ Current.conn # 0
      /\ Number \in Numbers /\ Packet.uin \in Uins
      /\ Owned(Current.conn, Packet.uin)
  BY <1>1, PacketAtHand, TrustedIsOwner
<1>3. PICK f \in Fds : f = busy
  BY <1>2
<1>4. PICK c : c = socket[f].conn
  OBVIOUS
<1>5. PICK k : k = Before(f) + Done(f) + 1
  OBVIOUS
<1>6. /\ c = Current.conn /\ k = Number
      /\ k <= Len(sent[c])
      /\ \A n \in 1 .. k - 1 : Request(c, n) => Seen(c, n)
  BY <1>1, <1>3, <1>4, <1>5, AtHand DEF Current
<1>7. /\ socket'[f].conn = socket[f].conn
      /\ socket'[f].buffer = socket[f].buffer
      /\ \A g \in Fds \ {f} : socket'[g] = socket[g]
  <2>1. socket' = [socket EXCEPT ![f].uin = Packet.uin, ![f].recved = TRUE]
    BY <1>3 DEF TransferHeartbeat, TransferRequest
  <2> QED
    BY <2>1 DEF Inv, SocketsOK, Sockets
<1>8. Done(f)' = Done(f) + 1
  BY <1>1, <1>3 DEF Done
<1>9. CASE TransferHeartbeat
  <2>1. ~Request(c, k)
    BY <1>6, <1>9 DEF TransferHeartbeat, Packet, Request
  <2>2. Links' /\ \A d, n : Seen(d, n) => Seen(d, n)'
    BY <1>1, <1>9, LinksKept DEF Ordered, TransferHeartbeat
  <2> QED
    BY <1>1, <1>3, <1>4, <1>5, <1>7, <1>8, <2>1, <2>2, SameBufferOrder
<1>10. CASE TransferRequest
  <2>1. PICK m : m = Forwarded
    OBVIOUS
  <2>2. m.conn = c /\ m.number = k /\ m.type \in {"start", "transform"}
    BY <1>6, <2>1 DEF Forwarded
  <2>3. m \in OwnedUp
    <3>1. m \in Upward /\ m.uin = Packet.uin
      BY <1>2, <2>1 DEF Forwarded, Upward
    <3> QED
      BY <3>1, <1>2, <1>6, <2>2 DEF OwnedUp
  <2>4. up' = Append(up, m)
    BY <1>10, <2>1 DEF TransferRequest
  <2>5. Links' /\ \A d, n : Seen(d, n) => Seen(d, n)'
    <3>1. /\ m.number <= Len(sent[m.conn])
          /\ \A n \in 1 .. m.number - 1 : Request(m.conn, n) => Seen(m.conn, n)
      BY <1>6, <2>2
    <3> QED
      BY <1>1, <2>3, <2>4, <3>1, LinksKept DEF Ordered
  <2>6. Seen(c, k)'
    <3>1. /\ Len(up') = Len(up) + 1 /\ Len(up) \in Nat
          /\ up'[Len(up) + 1] = m
      BY <2>3, <2>4, Longer DEF Inv, OwnedLinks
    <3> QED
      BY <3>1, <2>2 DEF Seen, Carries
  <2> QED
    BY <1>1, <1>3, <1>4, <1>5, <1>7, <1>8, <2>5, <2>6, SameBufferOrder
<1> QED
  BY <1>9, <1>10

\* A refused packet leaves the buffer as it was.
LEMMA OrderRefused ==
  ASSUME Inv, Ordered, TransferRefused
  PROVE  Ordered'
<1>1. PICK f \in Fds : f = busy
  BY PacketAtHand DEF TransferRefused, WellFormed
<1>2. /\ socket'[f].conn = socket[f].conn
      /\ socket'[f].buffer = socket[f].buffer
      /\ \A g \in Fds \ {f} : socket'[g] = socket[g]
  <2>1. socket' = [socket EXCEPT ![f].uin = Packet.uin]
    BY <1>1 DEF TransferRefused
  <2> QED
    BY <2>1 DEF Inv, SocketsOK, Sockets
<1>3. /\ busy' = NoFd /\ sent' = sent /\ owner' = owner /\ up' = up
      /\ handled' = handled
  BY DEF TransferRefused, logic
<1>4. Links' /\ \A d, n : Seen(d, n) => Seen(d, n)'
  BY <1>3, LinksKept DEF Ordered
<1>5. Done(f)' = 0
  BY <1>3, NobodyAssumption DEF Done
<1>6. PICK c, k : c = socket[f].conn /\ k = Before(f) + Done(f) + 1
  OBVIOUS
<1> QED
  BY <1>1, <1>2, <1>3, <1>4, <1>5, <1>6, SameBufferOrder

\* A message from the logic server concerns no buffer, or closes a connection.
LEMMA OrderDeliver ==
  ASSUME Inv, Ordered, Deliver
  PROVE  Ordered'
<1>1. PICK f \in Fds : f = Head(down).index
  BY MessageDown DEF Deliver, DeliverAnswer, DeliverClose
<1>2. busy = NoFd /\ busy' = NoFd /\ handled' = handled
  BY DEF Deliver, DeliverAnswer, DeliverClose, logic
<1>3. CASE \E reason : ClearCurrentSocket(f, reason)
  BY <1>2, <1>3, OrderCleared
<1>4. CASE /\ socket' = socket \/ socket' = [socket EXCEPT ![f].sended = TRUE]
           /\ UNCHANGED <<owner, sent, up>>
  <2>1. /\ socket'[f].conn = socket[f].conn
        /\ socket'[f].buffer = socket[f].buffer
        /\ \A g \in Fds \ {f} : socket'[g] = socket[g]
    BY <1>4 DEF Inv, SocketsOK, Sockets
  <2>2. Links' /\ \A d, n : Seen(d, n) => Seen(d, n)'
    BY <1>2, <1>4, LinksKept DEF Ordered
  <2>3. Done(f)' = 0
    BY <1>2, NobodyAssumption DEF Done
  <2>4. PICK c, k : c = socket[f].conn /\ k = Before(f) + Done(f) + 1
    OBVIOUS
  <2> QED
    BY <1>2, <1>4, <2>1, <2>2, <2>3, <2>4, SameBufferOrder
<1> QED
  BY <1>1, <1>3, <1>4 DEF Deliver, DeliverAnswer, DeliverClose

---------------------------------------------------------------------------
(* The logic server's steps *)

\* When the first message is taken and, unless it is a disconnect_notify, its
\* number is entered among those handled, everything seen is still seen.
LEMMA OrderUp ==
  ASSUME Inv, Ordered, up # <<>>, up' = Tail(up), UNCHANGED connector,
         \A c \in Conns : \A n : Handled(c, n) => Handled(c, n)',
         \A c \in Conns : \A n : Carries(1, c, n) => Handled(c, n)'
  PROVE  /\ NothingSent' /\ BufferTail' /\ BeforeSeen' /\ UpOrder'
         /\ \A i \in 1 .. Len(up') : up'[i].type # "disconnect" =>
              up'[i].number <= Len(sent'[up'[i].conn])
<1>1. /\ Len(up') = Len(up) - 1 /\ Len(up) \in Nat \ {0}
      /\ \A i \in 1 .. Len(up') : up'[i] = up[i + 1] /\ i + 1 \in 1 .. Len(up)
  BY Shorter DEF Inv, OwnedLinks
<1>2. /\ sent' = sent /\ socket' = socket /\ owner' = owner
      /\ busy' = busy /\ at' = at
  BY DEF connector
<1>3. /\ \A c, n : Request(c, n)' <=> Request(c, n)
      /\ \A f : Before(f)' = Before(f)
      /\ \A f : Done(f)' = Done(f)
  BY <1>2 DEF Request, Before, Done
<1>4. ASSUME NEW c, NEW n, NEW i \in 2 .. Len(up), Carries(i, c, n)
      PROVE  i - 1 \in 1 .. Len(up') /\ Carries(i - 1, c, n)'
  <2>1. PICK k : k = i - 1
    OBVIOUS
  <2>2. k \in 1 .. Len(up') /\ k + 1 = i
    BY <2>1, <1>1
  <2>3. up'[k] = up[i]
    BY <2>2, <1>1
  <2>4. PICK m : m = up[i]
    OBVIOUS
  <2>5. m.type # "disconnect" /\ m.conn = c /\ m.number = n
    BY <2>4, <1>4 DEF Carries
  <2>6. Carries(k, c, n)'
    BY ONLY <2>3, <2>4, <2>5 DEF Carries
  <2> QED
    BY <2>1, <2>2, <2>6
<1>5. ASSUME NEW c \in Conns, NEW n, Seen(c, n)
      PROVE  Seen(c, n)'
  <2>1. CASE Handled(c, n)
    BY <2>1 DEF Seen
  <2>2. CASE \E i \in 1 .. Len(up) : Carries(i, c, n)
    <3>1. PICK i \in 1 .. Len(up) : Carries(i, c, n)
      BY <2>2
    <3>2. CASE i = 1
      BY <3>1, <3>2 DEF Seen
    <3>3. CASE i # 1
      <4>1. PICK k : k = i - 1
        OBVIOUS
      <4>2. k \in 1 .. Len(up') /\ Carries(k, c, n)'
        BY <4>1, <3>1, <3>3, <1>4
      <4> QED
        BY <4>2 DEF Seen
    <3> QED
      BY <3>2, <3>3
  <2> QED
    BY <1>5, <2>1, <2>2 DEF Seen
<1>6. NothingSent' /\ BufferTail'
  BY <1>2, <1>3 DEF Ordered, NothingSent, BufferTail
<1>7. BeforeSeen'
  <2> SUFFICES ASSUME NEW f \in Fds, socket[f].conn # 0,
                      NEW n \in 1 .. Before(f) + Done(f),
                      NEW c, c = socket[f].conn, Request(c, n)
               PROVE  Seen(c, n)'
    BY <1>2, <1>3 DEF BeforeSeen
  <2>1. c \in Conns
    BY SocketAt
  <2>2. Seen(c, n)
    BY DEF Ordered, BeforeSeen
  <2> QED
    BY <2>1, <2>2, <1>5
<1>8. UpOrder'
  <2> SUFFICES ASSUME NEW i \in 1 .. Len(up'), up'[i].type # "disconnect",
                      NEW n \in 1 .. up'[i].number - 1,
                      NEW c, c = up'[i].conn, Request(c, n)
               PROVE  (Handled(c, n) \/ \E j \in 1 .. i : Carries(j, c, n))'
    BY <1>3 DEF UpOrder
  <2>1. i + 1 \in 1 .. Len(up) /\ up'[i] = up[i + 1]
    BY <1>1
  <2>2. c \in Conns
    BY <2>1, Counts
  <2>3. Handled(c, n) \/ \E j \in 1 .. i + 1 : Carries(j, c, n)
    BY <2>1 DEF Ordered, Links, UpOrder
  <2>4. CASE Handled(c, n)
    BY <2>2, <2>4
  <2>5. CASE \E j \in 1 .. i + 1 : Carries(j, c, n)
    <3>1. PICK j \in 1 .. i + 1 : Carries(j, c, n)
      BY <2>5
    <3>2. CASE j = 1
      BY <3>1, <3>2, <2>2
    <3>3. CASE j # 1
      <4>1. PICK k : k = j - 1
        OBVIOUS
      <4>2. j \in 2 .. Len(up) /\ k \in 1 .. i
        BY <4>1, <3>3, <2>1, <1>1
      <4>3. Carries(k, c, n)'
        BY <4>1, <4>2, <3>1, <1>4
      <4> QED
        BY <4>2, <4>3
    <3> QED
      BY <3>2, <3>3
  <2> QED
    BY <2>3, <2>4, <2>5
<1>9. \A i \in 1 .. Len(up') : up'[i].type # "disconnect" =>
        up'[i].number <= Len(sent'[up'[i].conn])
  BY <1>1, <1>2 DEF Ordered, Links, Numbered
<1> QED
  BY <1>6, <1>7, <1>8, <1>9

\* A message that is not a disconnect_notify is entered as handled, after
\* everything its client sent before it.
LEMMA OrderHandled ==
  ASSUME Inv, Ordered, up # <<>>, up' = Tail(up), UNCHANGED connector,
         Head(up).type # "disconnect",
         handled' = [handled EXCEPT ![Head(up).conn] =
                       Append(handled[Head(up).conn], Head(up).number)]
  PROVE  Ordered'
<1>1. Head(up) = up[1] /\ 1 \in 1 .. Len(up)
  BY Shorter DEF Inv, OwnedLinks
<1>2. PICK d, k : d = up[1].conn /\ k = up[1].number
  OBVIOUS
<1>3. d \in Conns /\ k \in Numbers /\ k \in Nat /\ k <= Len(sent[d])
  BY <1>1, <1>2, Counts DEF Ordered, Links, Numbered
<1>4. PICK was : was = handled[d]
  OBVIOUS
<1>5. was \in Seq(Numbers) /\ Len(was) \in Nat
  BY <1>3, <1>4, Counts
<1>6. /\ handled'[d] = Append(was, k)
      /\ \A c \in Conns \ {d} : handled'[c] = handled[c]
  BY <1>1, <1>2, <1>3, <1>4 DEF Inv, PlayersOK
<1>7. /\ Len(handled'[d]) = Len(was) + 1
      /\ handled'[d][Len(was) + 1] = k
      /\ \A i \in 1 .. Len(was) : handled'[d][i] = was[i]
  BY <1>3, <1>5, <1>6, Longer
<1>8. /\ \A n : Handled(d, n) => Handled(d, n)'
      /\ Handled(d, k)'
      /\ \A c \in Conns \ {d} : \A n : Handled(c, n)' <=> Handled(c, n)
  BY <1>4, <1>5, <1>6, <1>7 DEF Handled
<1>9. /\ \A c \in Conns : \A n : Handled(c, n) => Handled(c, n)'
      /\ \A c \in Conns : \A n : Carries(1, c, n) => Handled(c, n)'
  BY <1>2, <1>8 DEF Carries
<1>10. /\ NothingSent' /\ BufferTail' /\ BeforeSeen' /\ UpOrder'
       /\ \A i \in 1 .. Len(up') : up'[i].type # "disconnect" =>
            up'[i].number <= Len(sent'[up'[i].conn])
  BY <1>9, OrderUp
<1>11. sent' = sent /\ \A c, n : Request(c, n)' <=> Request(c, n)
  BY DEF connector, Request
<1>12. ASSUME NEW c \in Conns, NEW j \in 1 .. Len(handled'[c])
       PROVE  /\ handled'[c][j] <= Len(sent[c])
              /\ \A n \in 1 .. handled'[c][j] - 1 :
                   Request(c, n) => \E i \in 1 .. j : handled'[c][i] = n
  <2>1. CASE c = d /\ j = Len(was) + 1
    <3>1. handled'[c][j] = k
      BY <2>1, <1>7
    <3>2. ASSUME NEW n \in 1 .. k - 1, Request(c, n)
          PROVE  \E i \in 1 .. j : handled'[c][i] = n
      <4>1. Handled(d, n) \/ \E i \in 1 .. 1 : Carries(i, d, n)
        BY <3>2, <2>1, <1>1, <1>2 DEF Ordered, Links, UpOrder
      <4>2. ~Carries(1, d, n)
        BY <1>2, <1>3 DEF Carries
      <4>3. Handled(d, n)
        <5>1. \A i \in 1 .. 1 : i = 1
          OBVIOUS
        <5> QED
          BY <4>1, <4>2, <5>1
      <4>4. PICK i \in 1 .. Len(was) : was[i] = n
        BY <4>3, <1>4 DEF Handled
      <4>5. i \in 1 .. j /\ handled'[c][i] = n
        BY <4>4, <2>1, <1>5, <1>7
      <4> QED
        BY <4>5
    <3> QED
      BY <3>1, <3>2, <2>1, <1>3
  <2>2. CASE ~(c = d /\ j = Len(was) + 1)
    <3>1. /\ j \in 1 .. Len(handled[c])
          /\ \A i \in 1 .. Len(handled[c]) : handled'[c][i] = handled[c][i]
      <4>1. CASE c = d
        BY <4>1, <2>2, <1>4, <1>5, <1>7
      <4>2. CASE c # d
        BY <4>2, <1>6
      <4> QED
        BY <4>1, <4>2
    <3>2. Len(handled[c]) \in Nat
      BY Counts
    <3>3. \A i \in 1 .. j : i \in 1 .. Len(handled[c])
      BY <3>1, <3>2
    <3>4. handled'[c][j] = handled[c][j]
      BY <3>1
    <3>5. /\ handled[c][j] <= Len(sent[c])
          /\ \A n \in 1 .. handled[c][j] - 1 :
               Request(c, n) => \E i \in 1 .. j : handled[c][i] = n
      BY <3>1 DEF Ordered, Links, Numbered, HandledOrder
    <3> QED
      BY <3>1, <3>3, <3>4, <3>5
  <2> QED
    BY <2>1, <2>2
<1>13. Numbered' /\ HandledOrder'
  <2>1. Numbered'
    <3>1. \A c \in Conns : \A j \in 1 .. Len(handled'[c]) :
            handled'[c][j] <= Len(sent'[c])
      BY <1>11, <1>12
    <3> QED
      BY <1>10, <3>1 DEF Numbered
  <2>2. HandledOrder'
    <3> SUFFICES ASSUME NEW c \in Conns, NEW j \in 1 .. Len(handled'[c]),
                        NEW n \in 1 .. handled'[c][j] - 1, Request(c, n)'
                 PROVE  \E i \in 1 .. j : handled'[c][i] = n
      BY DEF HandledOrder
    <3>1. Request(c, n)
      BY <1>11
    <3> QED
      BY <1>12, <3>1
  <2> QED
    BY <2>1, <2>2
<1> QED
  BY <1>10, <1>13 DEF Ordered, Links

\* The logic server handles what comes in the order it comes.
LEMMA OrderLogic ==
  ASSUME Inv, Ordered, Logic
  PROVE  Ordered'
<1>1. up # <<>> /\ up' = Tail(up) /\ UNCHANGED connector
  BY DEF Logic, HandleTransform, HandleStart, HandleDisconnect
<1>2. CASE HandleTransform \/ HandleStart
  <2>1. Head(up).type # "disconnect"
    BY <1>2 DEF HandleTransform, HandleStart
  <2>2. Head(up).conn \in Conns
    BY <1>1, <2>1, FirstUp DEF OwnedUp, Upward
  <2>3. handled' = [handled EXCEPT ![Head(up).conn] =
                      Append(handled[Head(up).conn], Head(up).number)]
    BY <1>2, <2>2 DEF HandleTransform, HandleStart, Process, Inv, PlayersOK
  <2> QED
    BY <1>1, <2>1, <2>3, OrderHandled
<1>3. CASE HandleDisconnect
  <2>1. handled' = handled /\ Head(up).type = "disconnect"
    BY <1>3 DEF HandleDisconnect
  <2>2. Head(up) = up[1]
    BY <1>1, Shorter DEF Inv, OwnedLinks
  <2>3. /\ \A c, n : Handled(c, n)' <=> Handled(c, n)
        /\ \A c, n : ~Carries(1, c, n)
    BY <2>1, <2>2 DEF Handled, Carries
  <2>4. /\ NothingSent' /\ BufferTail' /\ BeforeSeen' /\ UpOrder'
        /\ \A i \in 1 .. Len(up') : up'[i].type # "disconnect" =>
             up'[i].number <= Len(sent'[up'[i].conn])
    BY <1>1, <2>3, OrderUp
  <2>5. Numbered' /\ HandledOrder'
    BY <1>1, <2>1, <2>4
       DEF Ordered, Links, Numbered, HandledOrder, Request, connector
  <2> QED
    BY <2>4, <2>5 DEF Ordered, Links
<1> QED
  BY <1>2, <1>3 DEF Logic

---------------------------------------------------------------------------
(* The invariant and the property *)

\* A step that breaks no link keeps the order.
LEMMA OrderStep ==
  ASSUME Inv, OneSocket, breaks = 0 => Ordered, [Next]_vars, breaks' = 0
  PROVE  Ordered'
<1>1. CASE Break
  BY <1>1 DEF Break, Inv, Faults
<1>2. CASE UNCHANGED vars
  <2>1. Ordered
    BY <1>2 DEF vars, faults
  <2>2. /\ socket' = socket /\ owner' = owner /\ sent' = sent /\ busy' = busy
        /\ at' = at /\ up' = up /\ handled' = handled
    BY <1>2 DEF vars, connector, logic
  <2>3. /\ \A c, n : Seen(c, n)' <=> Seen(c, n)
        /\ \A c, n : Handled(c, n)' <=> Handled(c, n)
        /\ \A i, c, n : Carries(i, c, n)' <=> Carries(i, c, n)
        /\ \A c, n : Request(c, n)' <=> Request(c, n)
        /\ \A f : Before(f)' = Before(f) /\ Done(f)' = Done(f)
    BY <2>2 DEF Seen, Handled, Carries, Request, Before, Done
  <2>4. NothingSent' /\ BufferTail' /\ BeforeSeen'
    BY <2>1, <2>2, <2>3 DEF Ordered, NothingSent, BufferTail, BeforeSeen
  <2>5. Links'
    BY <2>1, <2>2, <2>3 DEF Ordered, Links, Numbered, UpOrder, HandledOrder
  <2> QED
    BY <2>4, <2>5 DEF Ordered
<1>3. ASSUME ~Break, ~UNCHANGED vars
      PROVE  Ordered'
  <2>1. breaks' = breaks
    BY <1>3 DEF Next, ClientCloses, CheckSelf, ClearCurrentSocket,
       RecvClientMessages, Accept, TransferCode, TransferBadSize,
       TransferGarbage, TransferRejected, TransferHeartbeat, TransferRequest,
       TransferRefused, TransferDone, TransferEnds, Logic, HandleTransform,
       HandleStart, HandleDisconnect, Deliver, DeliverAnswer, DeliverClose,
       faults
  <2>2. Ordered
    BY <2>1
  <2>3. CASE \E f \in Fds : ClientCloses(f) \/ CheckSelf(f)
    BY <2>2, <2>3, OrderCleared DEF ClientCloses, CheckSelf, logic
  <2>4. CASE \E f \in Fds : RecvClientMessages(f)
    BY <2>2, <2>4, OrderReceive
  <2>5. CASE \E f \in Fds : \E u \in Uins : Accept(f, u)
    BY <2>2, <2>5, OrderAccept
  <2>6. CASE TransferBadSize \/ TransferGarbage \/ TransferRejected
    <3>1. HasPacket
      BY <2>6 DEF TransferBadSize, TransferGarbage, TransferRejected, WellFormed
    <3>2. PICK reason : TransferEnds(reason)
      BY <2>6 DEF TransferBadSize, TransferGarbage, TransferRejected
    <3>3. PICK f \in Fds : f = busy
      BY <3>1, PacketAtHand
    <3> QED
      BY <2>2, <3>2, <3>3, OrderCleared DEF TransferEnds, logic
  <2> QED
    BY <1>3, <2>2, <2>3, <2>4, <2>5, <2>6, OrderTaken, OrderRefused, OrderDone,
       OrderLogic, OrderDeliver DEF Next, TransferCode
<1> QED
  BY <1>1, <1>2, <1>3

\* The invariant: while no link breaks, the buffers, the link and what has
\* been handled hold each connection's packets in order.
THEOREM OrderIsKept == Spec => []Order
<1>1. Init => OneSocket /\ Ordered
  BY EmptySeq DEF Init, OneSocket, Free, Ordered, NothingSent, BufferTail,
     BeforeSeen, Links, Numbered, UpOrder, HandledOrder
<1>2. Order /\ [Next]_vars => Order'
  BY OneSocketStep, NextInv, OrderStep DEF Order
<1> QED
  BY <1>1, <1>2, InitInv, PTL DEF Spec, Order

\* While no link breaks, the requests of a connection reach the players' code
\* in the order the client sent them and without a gap, for all that the
\* connector refuses and tries again.
THEOREM HandledInOrder == Spec => []InOrder
<1>1. Order => InOrder
  BY DEF Order, Ordered, Links, HandledOrder, Request, InOrder
<1> QED
  BY <1>1, OrderIsKept, PTL

=============================================================================
