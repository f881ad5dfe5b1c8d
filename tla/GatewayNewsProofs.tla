------------------------- MODULE GatewayNewsProofs -------------------------
(***************************************************************************)
(* A proof about GatewaySession: while no message is lost and no           *)
(* connection in use is closed as an unused one, a player who is left in   *)
(* the logic server's table without a connection is about to leave it.     *)
(*                                                                         *)
(* SessionsExplained speaks of the sessions of the moment.  It is          *)
(* inductive together with the same fact about the sessions to come: the   *)
(* start messages still on their way (StartsHeld), of which a connection   *)
(* sends one (StartsOnce), after its first packet and never before         *)
(* (NotYet).  A connection that the logic server closes itself goes        *)
(* without a disconnect_notify; nobody has a session there (ClosedFor).    *)
(***************************************************************************)
EXTENDS GatewaySessionProofs

\* Nothing has been lost, and no connection in use was closed unreported.
Whole == refusals = 0 /\ breaks = 0 /\ ~silent

\* An open connection whose first packet has been taken.
InUse(c) == \E f \in Fds : socket[f].conn = c /\ socket[f].recved

\* A disconnect_notify for player u is behind place i of the link.
GoneAfter(u, i) ==
  \E k \in 1 .. Len(up) : k > i /\ up[k].type = "disconnect" /\ up[k].uin = u

Starts(i, c) == up[i].type = "start" /\ up[i].conn = c
Started(c) == \E i \in 1 .. Len(up) : Starts(i, c)
Seated(c) == \E u \in Uins : users[u] # Absent /\ users[u].conn = c
Closing(c) ==
  \E i \in 1 .. Len(down) : down[i].type = "close" /\ down[i].conn = c

SessionsHeld ==
  \A u \in Uins : users[u] # Absent => InUse(users[u].conn) \/ GoneAfter(u, 0)

StartsHeld ==
  \A i \in 1 .. Len(up) :
    up[i].type = "start" => InUse(up[i].conn) \/ GoneAfter(up[i].uin, i)

StartsOnce ==
  /\ \A c \in Conns : Started(c) => ~Seated(c) /\ ~Closing(c)
  /\ \A c \in Conns : \A i, j \in 1 .. Len(up) :
       Starts(i, c) /\ Starts(j, c) => i = j

ClosedFor == \A c \in Conns : Closing(c) => ~Seated(c)

NotYet ==
  \A f \in Fds : LET c == socket[f].conn IN
    c # 0 /\ ~socket[f].recved => ~Started(c) /\ ~Seated(c) /\ ~Closing(c)

Held == SessionsHeld /\ StartsHeld /\ StartsOnce /\ ClosedFor /\ NotYet

News == Inv /\ OneSocket /\ (Whole => Held)

---------------------------------------------------------------------------
(* The links *)

\* A message leaves the news that is on its way where it is.
LEMMA GoneStays ==
  ASSUME Inv, NEW m \in OwnedUp, up' = Append(up, m), NEW u, NEW i,
         GoneAfter(u, i)
  PROVE  GoneAfter(u, i)'
<1>1. /\ Len(up') = Len(up) + 1 /\ Len(up) \in Nat
      /\ \A k \in 1 .. Len(up) : up'[k] = up[k]
  BY Longer DEF Inv, OwnedLinks
<1> QED
  BY <1>1 DEF GoneAfter

\* The news of a player's departure is behind everything that is on its way.
LEMMA GoneAdded ==
  ASSUME Inv, NEW m \in OwnedUp, up' = Append(up, m), NEW i \in Nat,
         i <= Len(up), m.type = "disconnect"
  PROVE  GoneAfter(m.uin, i)'
<1>1. /\ Len(up') = Len(up) + 1 /\ Len(up) \in Nat
      /\ up'[Len(up) + 1] = m
  BY Longer DEF Inv, OwnedLinks
<1> QED
  BY <1>1 DEF GoneAfter

\* When the first message is taken, what was behind the next place is behind
\* this one.
LEMMA GoneMoves ==
  ASSUME Inv, up # <<>>, up' = Tail(up), NEW u, NEW i \in Nat,
         GoneAfter(u, i + 1)
  PROVE  GoneAfter(u, i)'
<1>1. /\ Len(up') = Len(up) - 1 /\ Len(up) \in Nat
      /\ \A k \in 1 .. Len(up') : up'[k] = up[k + 1]
  BY Shorter DEF Inv, OwnedLinks
<1>2. PICK k \in 1 .. Len(up) : /\ k > i + 1
                                /\ up[k].type = "disconnect" /\ up[k].uin = u
  BY DEF GoneAfter
<1>3. k - 1 \in 1 .. Len(up') /\ k - 1 > i /\ (k - 1) + 1 = k
  BY <1>1, <1>2
<1>4. up'[k - 1] = up[k]
  BY <1>1, <1>3
<1> QED
  BY <1>2, <1>3, <1>4 DEF GoneAfter

\* Taking a message down closes nothing that was not being closed.
LEMMA ClosingMoves ==
  ASSUME Inv, down' = down \/ (down # <<>> /\ down' = Tail(down)),
         NEW c, Closing(c)'
  PROVE  Closing(c)
<1>1. CASE down' = down
  BY <1>1 DEF Closing
<1>2. CASE down # <<>> /\ down' = Tail(down)
  <2>1. /\ Len(down') = Len(down) - 1 /\ Len(down) \in Nat
        /\ \A k \in 1 .. Len(down') : down'[k] = down[k + 1]
    BY <1>2, Shorter DEF Inv, OwnedLinks
  <2>2. PICK k \in 1 .. Len(down') : down'[k].type = "close" /\ down'[k].conn = c
    BY DEF Closing
  <2>3. k + 1 \in 1 .. Len(down) /\ down'[k] = down[k + 1]
    BY <2>1, <2>2
  <2> QED
    BY <2>2, <2>3 DEF Closing
<1> QED
  BY <1>1, <1>2

\* A ticket is one player's.
LEMMA OneOwner ==
  ASSUME NEW c, NEW u, NEW w, Owned(c, u), Owned(c, w)
  PROVE  u = w
BY DEF Owned

\* What was lost stays lost.
LEMMA WholeBefore ==
  ASSUME Inv, [Next]_vars, Whole'
  PROVE  Whole
<1>1. ASSUME NEW f \in Fds, NEW reason, ClearCurrentSocket(f, reason)
      PROVE  Whole
  BY <1>1 DEF ClearCurrentSocket, Send, Whole, Inv, Faults
<1>2. CASE \E f \in Fds : ClientCloses(f) \/ CheckSelf(f)
  BY <1>1, <1>2 DEF ClientCloses, CheckSelf
<1>3. CASE TransferBadSize \/ TransferGarbage \/ TransferRejected
  <2>1. HasPacket
    BY <1>3 DEF TransferBadSize, TransferGarbage, TransferRejected, WellFormed
  <2>2. busy \in Fds
    BY <2>1, PacketAtHand
  <2> QED
    BY <1>3, <2>2, <1>1
       DEF TransferBadSize, TransferGarbage, TransferRejected, TransferEnds
<1>4. CASE Deliver
  <2> DEFINE f == Head(down).index
  <2>1. f \in Fds
    BY <1>4, MessageDown DEF Deliver, DeliverAnswer, DeliverClose
  <2>2. \/ UNCHANGED <<silent, faults>>
        \/ \E reason : ClearCurrentSocket(f, reason)
    BY <1>4 DEF Deliver, DeliverAnswer, DeliverClose
  <2> QED
    BY <2>1, <2>2, <1>1 DEF Whole, faults
<1>5. CASE TransferRefused \/ Break
  BY <1>5 DEF TransferRefused, Break, Whole, Inv, Faults
<1>6. CASE UNCHANGED <<silent, faults>>
  BY <1>6 DEF Whole, faults
<1> QED
  BY <1>2, <1>3, <1>4, <1>5, <1>6
     DEF Next, TransferCode, Logic, RecvClientMessages, Accept,
         TransferHeartbeat, TransferRequest, TransferDone,
         HandleTransform, HandleStart, HandleDisconnect, vars

---------------------------------------------------------------------------
(* The connector's steps *)

\* Steps that send nothing, change no player and keep what is in use in use.
LEMMA HeldStays ==
  ASSUME Inv, Held, up' = up, users' = users,
         down' = down \/ (down # <<>> /\ down' = Tail(down)),
         \A g \in Fds : /\ socket'[g].conn = socket[g].conn
                        /\ socket[g].recved => socket'[g].recved
  PROVE  Held'
<1>1. /\ \A c : InUse(c) => InUse(c)'
      /\ \A u, i : GoneAfter(u, i)' <=> GoneAfter(u, i)
      /\ \A i, c : Starts(i, c)' <=> Starts(i, c)
      /\ \A c : Started(c)' <=> Started(c)
      /\ \A c : Seated(c)' <=> Seated(c)
  BY DEF InUse, GoneAfter, Starts, Started, Seated
<1>2. \A c : Closing(c)' => Closing(c)
  BY ClosingMoves
<1>3. SessionsHeld' /\ StartsHeld'
  BY <1>1 DEF Held, SessionsHeld, StartsHeld
<1>4. StartsOnce' /\ ClosedFor'
  BY <1>1, <1>2 DEF Held, StartsOnce, ClosedFor
<1>5. NotYet'
  BY <1>1, <1>2 DEF Held, NotYet
<1> QED
  BY <1>3, <1>4, <1>5 DEF Held

\* A connection that is closed either has nothing to be told of or is told of
\* with the player's uin.
LEMMA HeldCleared ==
  ASSUME Inv, OneSocket, Held, NEW f \in Fds, NEW reason,
         ClearCurrentSocket(f, reason), refusals' = 0, ~silent',
         socket[f].conn # 0,
         reason = "InvalidSignature" => ~socket[f].recved,
         reason = "Service" => /\ ~Started(socket[f].conn)
                               /\ ~Seated(socket[f].conn),
         down' = down \/ (down # <<>> /\ down' = Tail(down)),
         users' = users
  PROVE  Held'
<1> DEFINE c == socket[f].conn
           u == socket[f].uin
           m == [type |-> "disconnect", index |-> f, conn |-> 0,
                 uin |-> u, number |-> 0]
<1>1. /\ c \in Conns /\ u \in Uins \cup {NoUin} /\ socket[f].recved \in BOOLEAN
      /\ socket[f].recved => Owned(c, u)
  BY DEF Inv, SocketsOK, Sockets, Tickets
<1>2. /\ socket'[f].conn = 0
      /\ \A g \in Fds \ {f} : socket'[g] = socket[g]
  BY Cleared DEF Inv, SocketsOK, Free
<1>3. /\ \A d : d # c /\ InUse(d) => InUse(d)'
      /\ InUse(c) => socket[f].recved
  BY <1>1, <1>2 DEF InUse, OneSocket
<1>4. \A d : Seated(d)' <=> Seated(d)
  BY DEF Seated
<1>5. \A d : Closing(d)' => Closing(d)
  BY ClosingMoves
<1>6. CASE reason \in Unreported
  <2>1. up' = up
    BY <1>6 DEF ClearCurrentSocket
  <2>2. ~Started(c) /\ ~Seated(c)
    <3>1. CASE reason = "Service"
      BY <3>1
    <3>2. CASE reason # "Service"
      <4>1. ~socket[f].recved
        BY <3>2, <1>6 DEF Unreported, ClearCurrentSocket
      <4> QED
        BY <4>1 DEF Held, NotYet
    <3> QED
      BY <3>1, <3>2
  <2>3. /\ \A w, i : GoneAfter(w, i)' <=> GoneAfter(w, i)
        /\ \A i, d : Starts(i, d)' <=> Starts(i, d)
        /\ \A d : Started(d)' <=> Started(d)
    BY <2>1 DEF GoneAfter, Starts, Started
  <2>4. SessionsHeld'
    <3>1. \A w \in Uins : users[w] # Absent => users[w].conn # c
      BY <2>2 DEF Seated
    <3> QED
      BY <3>1, <1>3, <2>3 DEF Held, SessionsHeld
  <2>5. StartsHeld'
    <3>1. \A i \in 1 .. Len(up) : up[i].type = "start" => up[i].conn # c
      BY <2>2 DEF Started, Starts
    <3> QED
      BY <3>1, <1>3, <2>1, <2>3 DEF Held, StartsHeld
  <2>6. StartsOnce' /\ ClosedFor'
    BY <1>4, <1>5, <2>1, <2>3 DEF Held, StartsOnce, ClosedFor
  <2>7. NotYet'
    BY <1>2, <1>4, <1>5, <2>3 DEF Held, NotYet
  <2> QED
    BY <2>4, <2>5, <2>6, <2>7 DEF Held
<1>7. CASE reason \notin Unreported
  <2>1. m \in OwnedUp
    BY <1>1 DEF OwnedUp, Upward
  <2>2. up' = Append(up, m)
    BY <1>7 DEF ClearCurrentSocket, Send, Inv, Faults
  <2>3. /\ Len(up') = Len(up) + 1 /\ Len(up) \in Nat
        /\ up'[Len(up) + 1] = m
        /\ \A i \in 1 .. Len(up) : up'[i] = up[i]
    BY <2>1, <2>2, Longer DEF Inv, OwnedLinks
  <2>4. m.type = "disconnect" /\ m.uin = u
    OBVIOUS
  <2> HIDE DEF m
  <2>5. ASSUME NEW w, NEW i \in Nat, i <= Len(up), GoneAfter(w, i) \/ w = u
        PROVE  GoneAfter(w, i)'
    BY <2>1, <2>2, <2>4, <2>5, GoneStays, GoneAdded
  <2>6. \A i \in 1 .. Len(up') : \A d :
          Starts(i, d)' => i \in 1 .. Len(up) /\ Starts(i, d)
    BY <2>3, <2>4 DEF Starts
  <2>7. \A d : Started(d)' => Started(d)
    BY <2>6 DEF Started
  <2>8. SessionsHeld'
    <3> SUFFICES ASSUME NEW w \in Uins, users[w] # Absent
                 PROVE  InUse(users[w].conn)' \/ GoneAfter(w, 0)'
      BY DEF SessionsHeld
    <3>1. Owned(users[w].conn, w)
      BY DEF Inv, OwnedUsers
    <3>2. InUse(users[w].conn) \/ GoneAfter(w, 0)
      BY DEF Held, SessionsHeld
    <3>3. CASE users[w].conn = c /\ InUse(c)
      BY <3>1, <3>3, <1>1, <1>3, <2>3, <2>5, OneOwner
    <3> QED
      BY <3>2, <3>3, <1>3, <2>3, <2>5
  <2>9. StartsHeld'
    <3> SUFFICES ASSUME NEW i \in 1 .. Len(up'), up'[i].type = "start"
                 PROVE  (InUse(up[i].conn) \/ GoneAfter(up[i].uin, i))'
      BY DEF StartsHeld
    <3>1. i \in 1 .. Len(up) /\ up'[i] = up[i]
      BY <2>3, <2>4
    <3>2. Owned(up[i].conn, up[i].uin)
      BY <3>1, OnTheWay
    <3>3. InUse(up[i].conn) \/ GoneAfter(up[i].uin, i)
      BY <3>1 DEF Held, StartsHeld
    <3>4. i \in Nat /\ i <= Len(up)
      BY <3>1, <2>3
    <3>5. CASE up[i].conn = c /\ InUse(c)
      BY <3>1, <3>2, <3>4, <3>5, <1>1, <1>3, <2>5, OneOwner
    <3> QED
      BY <3>1, <3>3, <3>4, <3>5, <1>3, <2>5
  <2>10. StartsOnce' /\ ClosedFor'
    BY <1>4, <1>5, <2>6, <2>7 DEF Held, StartsOnce, ClosedFor
  <2>11. NotYet'
    BY <1>2, <1>4, <1>5, <2>7 DEF Held, NotYet
  <2> QED
    BY <2>8, <2>9, <2>10, <2>11 DEF Held
<1> QED
  BY <1>6, <1>7

\* The first request of a connection goes up as its only start message.
LEMMA HeldRequest ==
  ASSUME Inv, OneSocket, Held, TransferRequest
  PROVE  Held'
<1> DEFINE m == Forwarded
<1>0. PICK c : c = Current.conn
  OBVIOUS
<1>1. HasPacket /\ Trusted
  BY DEF TransferRequest, WellFormed
<1>2. /\ busy \in Fds /\ c \in Conns /\ c # 0 /\ Number \in Numbers
      /\ Packet.uin \in Uins /\ Owned(c, Packet.uin)
      /\ Current.recved \in BOOLEAN
  BY <1>0, <1>1, PacketAtHand, TrustedIsOwner DEF Sockets
<1>3. m \in OwnedUp /\ m.conn = c /\ m.uin = Packet.uin
      /\ m.type = (IF Current.recved THEN "transform" ELSE "start")
  <2>1. m \in Upward
    BY <1>0, <1>2 DEF Forwarded, Upward
  <2> QED
    BY <2>1, <1>0, <1>2 DEF Forwarded, OwnedUp
<1> HIDE DEF m
<1>4. up' = Append(up, m) /\ users' = users /\ down' = down
  BY DEF TransferRequest, logic, m
<1>5. /\ Len(up') = Len(up) + 1 /\ Len(up) \in Nat
      /\ up'[Len(up) + 1] = m
      /\ \A i \in 1 .. Len(up) : up'[i] = up[i]
  BY <1>3, <1>4, Longer DEF Inv, OwnedLinks
<1>6. /\ \A g \in Fds : socket'[g].conn = socket[g].conn
      /\ \A g \in Fds \ {busy} : socket'[g] = socket[g]
      /\ socket'[busy].recved
  BY <1>2 DEF TransferRequest, Inv, SocketsOK, Sockets
<1>7. /\ \A d : InUse(d) => InUse(d)'
      /\ InUse(c)'
  BY <1>0, <1>2, <1>6 DEF InUse, Current
<1>8. \A w, i : GoneAfter(w, i) => GoneAfter(w, i)'
  BY <1>3, <1>4, GoneStays
<1>9. /\ \A d : Seated(d)' <=> Seated(d)
      /\ \A d : Closing(d)' <=> Closing(d)
  BY <1>4 DEF Seated, Closing
<1>10. \A i \in 1 .. Len(up') : \A d : Starts(i, d)' =>
         \/ i \in 1 .. Len(up) /\ Starts(i, d)
         \/ i = Len(up) + 1 /\ d = c /\ ~Current.recved
  BY <1>3, <1>5 DEF Starts
<1>11. ~Current.recved => ~Started(c) /\ ~Seated(c) /\ ~Closing(c)
  BY <1>0, <1>2 DEF Held, NotYet, Current
<1>12. \A d : Started(d)' => Started(d) \/ (d = c /\ ~Current.recved)
  BY <1>10 DEF Started
<1>13. SessionsHeld'
  BY <1>4, <1>7, <1>8 DEF Held, SessionsHeld
<1>14. StartsHeld'
  <2> SUFFICES ASSUME NEW i \in 1 .. Len(up'), up'[i].type = "start"
               PROVE  (InUse(up[i].conn) \/ GoneAfter(up[i].uin, i))'
    BY DEF StartsHeld
  <2>1. CASE i = Len(up) + 1
    BY <2>1, <1>3, <1>5, <1>7
  <2>2. CASE i # Len(up) + 1
    <3>1. i \in 1 .. Len(up) /\ up'[i] = up[i]
      BY <2>2, <1>5
    <3> QED
      BY <3>1, <1>7, <1>8 DEF Held, StartsHeld
  <2> QED
    BY <2>1, <2>2
<1>15. StartsOnce'
  <2>1. \A d \in Conns : Started(d)' => ~Seated(d)' /\ ~Closing(d)'
    BY <1>9, <1>11, <1>12 DEF Held, StartsOnce
  <2>2. ASSUME NEW d \in Conns, NEW i \in 1 .. Len(up'), NEW j \in 1 .. Len(up'),
               Starts(i, d)', Starts(j, d)'
        PROVE  i = j
    <3>1. ~Started(c) => \A k \in 1 .. Len(up) : ~Starts(k, c)
      BY DEF Started
    <3> QED
      BY <3>1, <2>2, <1>10, <1>11 DEF Held, StartsOnce
  <2> QED
    BY <2>1, <2>2 DEF StartsOnce
<1>16. ClosedFor'
  BY <1>9 DEF Held, ClosedFor
<1>17. NotYet'
  <2> SUFFICES ASSUME NEW g \in Fds, socket'[g].conn # 0, ~socket'[g].recved
               PROVE  /\ ~Started(socket[g].conn)'
                      /\ ~Seated(socket[g].conn)'
                      /\ ~Closing(socket[g].conn)'
    BY DEF NotYet
  <2>1. g # busy /\ socket'[g] = socket[g] /\ socket[g].conn # c
    BY <1>0, <1>2, <1>6 DEF OneSocket, Current
  <2> QED
    BY <2>1, <1>9, <1>12 DEF Held, NotYet
<1> QED
  BY <1>13, <1>14, <1>15, <1>16, <1>17 DEF Held

\* Nobody has heard of a connection that has just been accepted.
LEMMA HeldAccept ==
  ASSUME Inv, Held, NEW f \in Fds, NEW p \in Uins, Accept(f, p)
  PROVE  Held'
<1> DEFINE n == Len(owner) + 1
<1>1. /\ socket'[f].conn = n
      /\ \A g \in Fds \ {f} : socket'[g] = socket[g]
      /\ socket[f].conn = 0
      /\ up' = up /\ down' = down /\ users' = users
  BY DEF Accept, Inv, SocketsOK, Sockets, logic
<1>2. \A c, u : Owned(c, u) => c # n
  BY LenProperties DEF Owned, Inv, ClientsOK
<1>3. ~Started(n) /\ ~Seated(n) /\ ~Closing(n)
  <2>1. ~Started(n)
    BY <1>2, OnTheWay DEF Started, Starts
  <2>2. ~Seated(n)
    BY <1>2 DEF Seated, Inv, OwnedUsers
  <2>3. ~Closing(n)
    BY <1>2, OnTheWay DEF Closing, OwnedDown
  <2> QED
    BY <2>1, <2>2, <2>3
<1>4. \A d : d # 0 /\ InUse(d) => InUse(d)'
  BY <1>1 DEF InUse
<1>5. /\ \A u, i : GoneAfter(u, i)' <=> GoneAfter(u, i)
      /\ \A i, c : Starts(i, c)' <=> Starts(i, c)
      /\ \A c : Started(c)' <=> Started(c)
      /\ \A c : Seated(c)' <=> Seated(c)
      /\ \A c : Closing(c)' <=> Closing(c)
  BY <1>1 DEF GoneAfter, Starts, Started, Seated, Closing
<1>6. SessionsHeld'
  <2>1. \A u \in Uins : users[u] # Absent => users[u].conn # 0
    BY DEF Inv, OwnedUsers, Owned
  <2> QED
    BY <2>1, <1>1, <1>4, <1>5 DEF Held, SessionsHeld
<1>7. StartsHeld'
  <2>1. \A i \in 1 .. Len(up) : up[i].type = "start" => up[i].conn # 0
    BY OnTheWay DEF Owned
  <2> QED
    BY <2>1, <1>1, <1>4, <1>5 DEF Held, StartsHeld
<1>8. StartsOnce' /\ ClosedFor'
  BY <1>1, <1>5 DEF Held, StartsOnce, ClosedFor
<1>9. NotYet'
  BY <1>1, <1>3, <1>5 DEF Held, NotYet
<1> QED
  BY <1>6, <1>7, <1>8, <1>9 DEF Held

---------------------------------------------------------------------------
(* The logic server's steps *)

\* Taking the first message of the link keeps what is said of the others.
LEMMA Taken ==
  ASSUME Inv, Held, up # <<>>, up' = Tail(up), UNCHANGED connector
  PROVE  /\ \A c : InUse(c)' <=> InUse(c)
         /\ \A c : Started(c)' => Started(c)
         /\ StartsHeld'
         /\ \A c \in Conns : \A i, j \in 1 .. Len(up') :
              Starts(i, c)' /\ Starts(j, c)' => i = j
         /\ \A u : GoneAfter(u, 1) => GoneAfter(u, 0)'
         /\ \A c \in Conns : Starts(1, c) => ~Started(c)'
<1>1. /\ Len(up') = Len(up) - 1 /\ Len(up) \in Nat \ {0}
      /\ \A i \in 1 .. Len(up') : up'[i] = up[i + 1] /\ i + 1 \in 1 .. Len(up)
  BY Shorter DEF Inv, OwnedLinks
<1>2. \A c : InUse(c)' <=> InUse(c)
  BY DEF InUse, connector
<1>3. \A i \in 1 .. Len(up') : \A c : Starts(i, c)' => Starts(i + 1, c)
  BY <1>1 DEF Starts
<1>4. \A c : Started(c)' => Started(c)
  BY <1>1, <1>3 DEF Started
<1>5. ASSUME NEW u, NEW i \in Nat, GoneAfter(u, i + 1)
      PROVE  GoneAfter(u, i)'
  BY <1>5, GoneMoves
<1>6. StartsHeld'
  <2> SUFFICES ASSUME NEW i \in 1 .. Len(up'), up'[i].type = "start"
               PROVE  (InUse(up[i].conn) \/ GoneAfter(up[i].uin, i))'
    BY DEF StartsHeld
  <2>1. /\ i + 1 \in 1 .. Len(up) /\ up'[i] = up[i + 1]
        /\ up[i + 1].type = "start" /\ i \in Nat
    BY <1>1
  <2>2. InUse(up[i + 1].conn) \/ GoneAfter(up[i + 1].uin, i + 1)
    BY <2>1 DEF Held, StartsHeld
  <2>3. CASE InUse(up[i + 1].conn)
    BY <2>1, <2>3, <1>2
  <2>4. CASE GoneAfter(up[i + 1].uin, i + 1)
    <3>1. PICK u : u = up[i + 1].uin
      OBVIOUS
    <3>2. GoneAfter(u, i)'
      BY <3>1, <2>1, <2>4, <1>5
    <3> QED
      BY <3>1, <3>2, <2>1
  <2> QED
    BY <2>2, <2>3, <2>4
<1>7. ASSUME NEW c \in Conns, NEW i \in 1 .. Len(up'), NEW j \in 1 .. Len(up'),
             Starts(i, c)', Starts(j, c)'
      PROVE  i = j
  <2>1. i + 1 = j + 1
    BY <1>1, <1>3, <1>7 DEF Held, StartsOnce
  <2> QED
    BY <2>1, <1>1
<1>8. \A u : GoneAfter(u, 1) => GoneAfter(u, 0)'
  <2> SUFFICES ASSUME NEW u, GoneAfter(u, 1) PROVE GoneAfter(u, 0)'
    OBVIOUS
  <2>1. 0 \in Nat /\ 1 = 0 + 1
    OBVIOUS
  <2>2. GoneAfter(u, 0 + 1)
    BY <2>1
  <2> QED
    BY <2>1, <2>2, <1>5
<1>9. ASSUME NEW c \in Conns, Starts(1, c), Started(c)'
      PROVE  FALSE
  <2>1. PICK i \in 1 .. Len(up') : Starts(i, c)'
    BY <1>9 DEF Started
  <2>2. i + 1 \in 1 .. Len(up) /\ Starts(i + 1, c) /\ 1 \in 1 .. Len(up)
    BY <2>1, <1>1, <1>3
  <2>3. i + 1 = 1
    BY <2>2, <1>9 DEF Held, StartsOnce
  <2> QED
    BY <2>1, <2>3, <1>1
<1> QED
  BY <1>2, <1>4, <1>6, <1>7, <1>8, <1>9

\* A message of two links joined is a message of the one or of the other.
LEMMA Joined ==
  ASSUME NEW S, NEW s \in Seq(S), NEW t \in Seq(S), NEW i \in 1 .. Len(s \o t)
  PROVE  \/ \E k \in 1 .. Len(s) : (s \o t)[i] = s[k]
         \/ \E k \in 1 .. Len(t) : (s \o t)[i] = t[k]
<1>1. /\ Len(s \o t) = Len(s) + Len(t) /\ Len(s) \in Nat /\ Len(t) \in Nat
      /\ \A k \in 1 .. Len(s) + Len(t) :
           (s \o t)[k] = IF k <= Len(s) THEN s[k] ELSE t[k - Len(s)]
  BY ConcatProperties, LenProperties
<1>2. i \in 1 .. Len(s) \/ i - Len(s) \in 1 .. Len(t)
  BY <1>1
<1> QED
  BY <1>1, <1>2

\* A request that is processed closes, at most, the session it is processed
\* for, and then the player has none.
LEMMA Closes ==
  ASSUME Inv, NEW m, NEW session, NEW before \in Seq(OwnedDown),
         Process(m, session, before),
         m.uin \in Uins, m.conn \in Conns, m.number \in Numbers,
         session \in [conn : Conns, index : Fds], Owned(session.conn, m.uin),
         Owned(m.conn, m.uin),
         \A i \in 1 .. Len(before) : before[i].type # "close"
  PROVE  \/ /\ users' = [users EXCEPT ![m.uin] = session]
            /\ \A c : Closing(c)' => Closing(c)
         \/ /\ users' = [users EXCEPT ![m.uin] = Absent]
            /\ \A c : Closing(c)' => Closing(c) \/ c = session.conn
<1>1. PICK told \in Seq(OwnedDown) :
        /\ down' = (down \o before) \o told
        /\ \A k \in 1 .. Len(told) : told[k].conn = session.conn
        /\ \/ /\ users' = [users EXCEPT ![m.uin] = session]
              /\ \A k \in 1 .. Len(told) : told[k].type # "close"
           \/ users' = [users EXCEPT ![m.uin] = Absent]
  <2> DEFINE answer == ToPlayer("answer", session, m.uin, m.number, m.conn)
             close == ToPlayer("close", session, m.uin, m.number, m.conn)
  <2>1. /\ answer \in OwnedDown /\ answer.conn = session.conn
        /\ answer.type = "answer"
        /\ close \in OwnedDown /\ close.conn = session.conn
    BY DEF ToPlayer, OwnedDown, Downward
  <2>2. \/ /\ users' = [users EXCEPT ![m.uin] = session]
           /\ \/ down' = (down \o before) \o <<answer>>
              \/ down' = down \o before
        \/ /\ users' = [users EXCEPT ![m.uin] = Absent]
           /\ \E told \in {<<close>>, <<answer, close>>} :
                 down' = (down \o before) \o told
    BY DEF Process
  <2> HIDE DEF answer, close
  <2>3. /\ <<answer>> \in Seq(OwnedDown) /\ <<close>> \in Seq(OwnedDown)
        /\ <<answer, close>> \in Seq(OwnedDown) /\ <<>> \in Seq(OwnedDown)
    BY <2>1
  <2>4. CASE users' = [users EXCEPT ![m.uin] = Absent]
             /\ \E told \in {<<close>>, <<answer, close>>} :
                   down' = (down \o before) \o told
    <3>1. PICK told \in {<<close>>, <<answer, close>>} :
            down' = (down \o before) \o told
      BY <2>4
    <3>2. told \in Seq(OwnedDown)
      BY <2>3
    <3>3. \A k \in 1 .. Len(told) : told[k].conn = session.conn
      BY <2>1
    <3> QED
      BY <2>4, <3>1, <3>2, <3>3
  <2>5. CASE /\ users' = [users EXCEPT ![m.uin] = session]
             /\ down' = (down \o before) \o <<answer>>
    <3>1. \A k \in 1 .. Len(<<answer>>) : /\ <<answer>>[k].conn = session.conn
                                          /\ <<answer>>[k].type # "close"
      BY <2>1
    <3> QED
      BY <2>3, <2>5, <3>1
  <2>6. CASE /\ users' = [users EXCEPT ![m.uin] = session]
             /\ down' = down \o before
    <3>1. down' = (down \o before) \o <<>>
      <4>1. down \o before \in Seq(OwnedDown)
        BY ConcatProperties DEF Inv, OwnedLinks
      <4> QED
        BY <2>6, <4>1, ConcatEmptySeq
    <3>2. PICK none : none = <<>>
      OBVIOUS
    <3>3. none \in Seq(OwnedDown) /\ 1 .. Len(none) = {}
      BY <2>3, <3>2
    <3>4. down' = (down \o before) \o none
      BY <3>1, <3>2
    <3> QED
      BY <2>6, <3>3, <3>4
  <2> QED
    BY <2>2, <2>4, <2>5, <2>6
<1>2. /\ down \in Seq(OwnedDown) /\ down \o before \in Seq(OwnedDown)
  BY ConcatProperties DEF Inv, OwnedLinks
<1>3. ASSUME NEW c, Closing(c)'
      PROVE  \/ Closing(c)
             \/ \E k \in 1 .. Len(told) : told[k].type = "close" /\ told[k].conn = c
  <2>1. PICK i \in 1 .. Len(down') : down'[i].type = "close" /\ down'[i].conn = c
    BY <1>3 DEF Closing
  <2>2. \/ \E k \in 1 .. Len(down \o before) : down'[i] = (down \o before)[k]
        \/ \E k \in 1 .. Len(told) : down'[i] = told[k]
    <3>1. i \in 1 .. Len((down \o before) \o told) /\ told \in Seq(OwnedDown)
      BY <1>1
    <3>2. \/ \E k \in 1 .. Len(down \o before) :
                ((down \o before) \o told)[i] = (down \o before)[k]
          \/ \E k \in 1 .. Len(told) : ((down \o before) \o told)[i] = told[k]
      BY ONLY <1>2, <3>1, Joined
    <3> QED
      BY <1>1, <3>2
  <2>3. CASE \E k \in 1 .. Len(told) : down'[i] = told[k]
    BY <2>1, <2>3
  <2>4. CASE \E k \in 1 .. Len(down \o before) : down'[i] = (down \o before)[k]
    <3>1. PICK k \in 1 .. Len(down \o before) : down'[i] = (down \o before)[k]
      BY <2>4
    <3>2. \/ \E n \in 1 .. Len(down) : (down \o before)[k] = down[n]
          \/ \E n \in 1 .. Len(before) : (down \o before)[k] = before[n]
      BY <1>2, Joined
    <3> QED
      BY <3>1, <3>2, <2>1 DEF Closing
  <2> QED
    BY <2>2, <2>3, <2>4
<1> QED
  BY <1>1, <1>3

\* The player's session after a request: in use, or about to be ended, and
\* nowhere spoken of but there.
LEMMA HeldProcess ==
  ASSUME Inv, Held, up # <<>>, up' = Tail(up), UNCHANGED connector,
         Head(up).type # "disconnect",
         NEW u \in Uins, NEW session \in [conn : Conns, index : Fds],
         Owned(session.conn, u),
         \/ /\ users' = [users EXCEPT ![u] = session]
            /\ \A c : Closing(c)' => Closing(c)
         \/ /\ users' = [users EXCEPT ![u] = Absent]
            /\ \A c : Closing(c)' => Closing(c) \/ c = session.conn,
         InUse(session.conn) \/ GoneAfter(u, 1),
         Started(session.conn) => Starts(1, session.conn),
         ~Closing(session.conn),
         \A f \in Fds : socket[f].conn = session.conn => socket[f].recved
  PROVE  Held'
<1> DEFINE d == session.conn
<1>0. d \in Conns
  OBVIOUS
<1>1. /\ \A c : InUse(c)' <=> InUse(c)
      /\ \A c : Started(c)' => Started(c)
      /\ StartsHeld'
      /\ \A c \in Conns : \A i, j \in 1 .. Len(up') :
           Starts(i, c)' /\ Starts(j, c)' => i = j
      /\ \A w : GoneAfter(w, 1) => GoneAfter(w, 0)'
      /\ \A c \in Conns : Starts(1, c) => ~Started(c)'
  BY Taken
<1>2. ~Started(d)'
  BY <1>0, <1>1 DEF Started
<1>3. /\ \A w \in Uins \ {u} : users'[w] = users[w]
      /\ users'[u] \in {session, Absent}
  BY DEF Inv, PlayersOK
<1>4. \A c : Seated(c)' => Seated(c) \/ c = d
  BY <1>3 DEF Seated
<1>5. SessionsHeld'
  <2> SUFFICES ASSUME NEW w \in Uins, users'[w] # Absent
               PROVE  (InUse(users[w].conn) \/ GoneAfter(w, 0))'
    BY DEF SessionsHeld
  <2>1. CASE w = u
    BY <2>1, <1>1, <1>3
  <2>2. CASE w # u
    <3>1. users'[w] = users[w]
      BY <2>2, <1>3
    <3>2. GoneAfter(w, 0) => GoneAfter(w, 1)
      <4>1. Head(up) = up[1]
        BY Shorter DEF Inv, OwnedLinks
      <4> QED
        BY <4>1, OnTheWay DEF GoneAfter
    <3> QED
      BY <3>1, <3>2, <1>1 DEF Held, SessionsHeld
  <2> QED
    BY <2>1, <2>2
<1>6. StartsOnce'
  <2>1. ASSUME NEW c \in Conns, Started(c)'
        PROVE  ~Seated(c)' /\ ~Closing(c)'
    <3>1. Started(c) /\ c # d
      BY <2>1, <1>1, <1>2
    <3>2. ~Seated(c) /\ ~Closing(c)
      BY <3>1 DEF Held, StartsOnce
    <3> QED
      BY <3>1, <3>2, <1>4
  <2> QED
    BY <2>1, <1>1 DEF StartsOnce
<1>7. ClosedFor'
  <2> SUFFICES ASSUME NEW c \in Conns, Closing(c)', Seated(c)'
               PROVE  FALSE
    BY DEF ClosedFor
  <2>1. CASE Closing(c)
    <3>1. c # d /\ ~Seated(c)
      BY <2>1 DEF Held, ClosedFor
    <3> QED
      BY <3>1, <1>4
  <2>2. CASE ~Closing(c)
    <3>1. c = d /\ users'[u] = Absent
      BY <2>2 DEF Inv, PlayersOK
    <3>2. PICK w \in Uins : users'[w] # Absent /\ users'[w].conn = c
      BY DEF Seated
    <3>3. w # u /\ users'[w] = users[w]
      BY <3>1, <3>2, <1>3
    <3>4. Owned(d, w)
      BY <3>1, <3>2, <3>3 DEF Inv, OwnedUsers
    <3> QED
      BY <3>3, <3>4, OneOwner
  <2> QED
    BY <2>1, <2>2
<1>8. NotYet'
  <2> SUFFICES ASSUME NEW f \in Fds, socket[f].conn # 0, ~socket[f].recved,
                      NEW c, c = socket[f].conn
               PROVE  ~Started(c)' /\ ~Seated(c)' /\ ~Closing(c)'
    BY DEF NotYet, connector
  <2>1. ~Started(c) /\ ~Seated(c) /\ ~Closing(c) /\ c # d
    BY DEF Held, NotYet
  <2> QED
    BY <2>1, <1>1, <1>4
<1> QED
  BY <1>1, <1>5, <1>6, <1>7, <1>8 DEF Held

\* A later request of a player finds him in the table or changes nothing.
LEMMA HeldTransform ==
  ASSUME Inv, Held, HandleTransform
  PROVE  Held'
<1> DEFINE m == Head(up)
<1>1. /\ up # <<>> /\ up' = Tail(up) /\ UNCHANGED connector
      /\ m.type = "transform"
  BY DEF HandleTransform
<1>2. /\ m.uin \in Uins /\ m.conn \in Conns /\ m.number \in Numbers
      /\ Owned(m.conn, m.uin)
  BY <1>1, FirstUp DEF OwnedUp, Upward
<1>3. Head(up) = up[1]
  BY <1>1, Shorter DEF Inv, OwnedLinks
<1>4. PICK u \in Uins : u = m.uin
  BY <1>2
<1>5. GoneAfter(u, 0) => GoneAfter(u, 1)
  BY <1>1, <1>3, OnTheWay DEF GoneAfter
<1>6. CASE users[u] # Absent
  <2>1. PICK session : session = users[u]
    OBVIOUS
  <2>2. session \in [conn : Conns, index : Fds] /\ Owned(session.conn, u)
    BY <1>6, <2>1, SessionOwned
  <2>3. Process(m, session, <<>>)
    BY <1>4, <1>6, <2>1 DEF HandleTransform
  <2>4. PICK before : before = <<>>
    OBVIOUS
  <2>5. \/ /\ users' = [users EXCEPT ![u] = session]
           /\ \A c : Closing(c)' => Closing(c)
        \/ /\ users' = [users EXCEPT ![u] = Absent]
           /\ \A c : Closing(c)' => Closing(c) \/ c = session.conn
    <3>1. /\ before \in Seq(OwnedDown) /\ Process(m, session, before)
          /\ \A i \in 1 .. Len(before) : before[i].type # "close"
      BY <2>3, <2>4, EmptySeq
    <3> HIDE DEF m
    <3> QED
      BY <1>2, <1>4, <2>2, <3>1, Closes
  <2>6. Seated(session.conn)
    BY <1>6, <2>1 DEF Seated
  <2>7. InUse(session.conn) \/ GoneAfter(u, 1)
    BY <1>5, <1>6, <2>1 DEF Held, SessionsHeld
  <2>8. ~Started(session.conn) /\ ~Closing(session.conn)
    BY <2>2, <2>6 DEF Held, StartsOnce, ClosedFor
  <2>9. \A f \in Fds : socket[f].conn = session.conn => socket[f].recved
    BY <2>2, <2>6 DEF Held, NotYet, Owned
  <2>10. Head(up).type # "disconnect"
    BY <1>1
  <2> QED
    BY <1>1, <2>2, <2>5, <2>7, <2>8, <2>9, <2>10, HeldProcess
<1>7. CASE users[u] = Absent
  <2>1. users' = users /\ down' = down
    BY <1>4, <1>7 DEF HandleTransform
  <2>2. /\ \A c : InUse(c)' <=> InUse(c)
        /\ \A c : Started(c)' => Started(c)
        /\ StartsHeld'
        /\ \A c \in Conns : \A i, j \in 1 .. Len(up') :
             Starts(i, c)' /\ Starts(j, c)' => i = j
        /\ \A w : GoneAfter(w, 1) => GoneAfter(w, 0)'
    BY <1>1, Taken
  <2>3. \A c : (Seated(c)' <=> Seated(c)) /\ (Closing(c)' <=> Closing(c))
    BY <2>1 DEF Seated, Closing
  <2>4. \A w : GoneAfter(w, 0) => GoneAfter(w, 1)
    BY <1>1, <1>3, OnTheWay DEF GoneAfter
  <2>5. SessionsHeld'
    BY <2>1, <2>2, <2>4 DEF Held, SessionsHeld
  <2>6. StartsOnce' /\ ClosedFor'
    BY <2>2, <2>3 DEF Held, StartsOnce, ClosedFor
  <2>7. NotYet'
    BY <1>1, <2>2, <2>3 DEF Held, NotYet, connector
  <2> QED
    BY <2>2, <2>5, <2>6, <2>7 DEF Held
<1> QED
  BY <1>6, <1>7

\* The first request of a connection makes it the player's session.
LEMMA HeldStart ==
  ASSUME Inv, Held, HandleStart
  PROVE  Held'
<1> DEFINE m == Head(up)
           old == users[m.uin]
           logout == ToPlayer("logout", old, m.uin, 0, m.conn)
<1>1. /\ up # <<>> /\ up' = Tail(up) /\ UNCHANGED connector
      /\ m.type = "start"
  BY DEF HandleStart
<1>2. /\ m.uin \in Uins /\ m.conn \in Conns /\ m.number \in Numbers
      /\ m.index \in Fds /\ Owned(m.conn, m.uin)
  BY <1>1, FirstUp DEF OwnedUp, Upward
<1>3. Head(up) = up[1] /\ 1 \in 1 .. Len(up)
  BY <1>1, Shorter DEF Inv, OwnedLinks
<1>4. PICK before : before = IF old = Absent THEN <<>> ELSE <<logout>>
  OBVIOUS
<1>5. /\ before \in Seq(OwnedDown)
      /\ \A i \in 1 .. Len(before) : before[i].type # "close"
  <2>1. CASE old = Absent
    BY <2>1, <1>4, EmptySeq
  <2>2. CASE old # Absent
    <3>1. logout \in OwnedDown
      BY <1>2, <2>2, SessionOwned, DownToPlayer
    <3>2. logout.type = "logout"
      BY DEF ToPlayer
    <3> HIDE DEF logout
    <3> QED
      BY <2>2, <1>4, <3>1, <3>2
  <2> QED
    BY <2>1, <2>2
<1>6. PICK session : session = [conn |-> m.conn, index |-> m.index]
  OBVIOUS
<1>7. session \in [conn : Conns, index : Fds] /\ session.conn = m.conn
  BY <1>2, <1>6
<1>8. Process(m, session, before)
  BY <1>4, <1>6 DEF HandleStart
<1>9. PICK u \in Uins : u = m.uin
  BY <1>2
<1>10. \/ /\ users' = [users EXCEPT ![u] = session]
          /\ \A c : Closing(c)' => Closing(c)
       \/ /\ users' = [users EXCEPT ![u] = Absent]
          /\ \A c : Closing(c)' => Closing(c) \/ c = session.conn
  <2> HIDE DEF m
  <2> QED
    BY <1>2, <1>5, <1>7, <1>8, <1>9, Closes
<1>11. Starts(1, session.conn) /\ Started(session.conn)
  BY <1>1, <1>3, <1>7 DEF Starts, Started
<1>12. InUse(session.conn) \/ GoneAfter(u, 1)
  BY <1>1, <1>3, <1>7, <1>9 DEF Held, StartsHeld
<1>13. ~Closing(session.conn)
  BY <1>7, <1>11 DEF Held, StartsOnce
<1>14. \A f \in Fds : socket[f].conn = session.conn => socket[f].recved
  BY <1>2, <1>7, <1>11 DEF Held, NotYet, Owned
<1>15. Head(up).type # "disconnect" /\ Owned(session.conn, u)
  BY <1>1, <1>2, <1>7, <1>9
<1> QED
  BY <1>1, <1>7, <1>10, <1>11, <1>12, <1>13, <1>14, <1>15, HeldProcess

\* The news arrives: the player it is about has no session.
LEMMA HeldDisconnect ==
  ASSUME Inv, Held, HandleDisconnect
  PROVE  Held'
<1> DEFINE m == Head(up)
<1>1. /\ up # <<>> /\ up' = Tail(up) /\ UNCHANGED connector /\ down' = down
      /\ users' = [u \in Uins |-> IF u = m.uin THEN Absent ELSE users[u]]
      /\ m.type = "disconnect"
  BY DEF HandleDisconnect
<1>2. m = up[1]
  BY <1>1, Shorter DEF Inv, OwnedLinks
<1>3. /\ \A c : InUse(c)' <=> InUse(c)
      /\ \A c : Started(c)' => Started(c)
      /\ StartsHeld'
      /\ \A c \in Conns : \A i, j \in 1 .. Len(up') :
           Starts(i, c)' /\ Starts(j, c)' => i = j
      /\ \A w : GoneAfter(w, 1) => GoneAfter(w, 0)'
  BY <1>1, Taken
<1>4. \A w : w # m.uin /\ GoneAfter(w, 0) => GoneAfter(w, 1)
  BY <1>2, OnTheWay DEF GoneAfter
<1>5. \A w \in Uins : users'[w] # Absent => w # m.uin /\ users'[w] = users[w]
  BY <1>1
<1>6. SessionsHeld'
  <2> SUFFICES ASSUME NEW w \in Uins, users'[w] # Absent
               PROVE  (InUse(users[w].conn) \/ GoneAfter(w, 0))'
    BY DEF SessionsHeld
  <2> QED
    BY <1>3, <1>4, <1>5 DEF Held, SessionsHeld
<1>7. \A c : (Seated(c)' => Seated(c)) /\ (Closing(c)' <=> Closing(c))
  BY <1>1, <1>5 DEF Seated, Closing
<1>8. StartsOnce' /\ ClosedFor'
  BY <1>3, <1>7 DEF Held, StartsOnce, ClosedFor
<1>9. NotYet'
  BY <1>1, <1>3, <1>7 DEF Held, NotYet, connector
<1> QED
  BY <1>3, <1>6, <1>8, <1>9 DEF Held

---------------------------------------------------------------------------
(* The invariant and the property *)

\* A step that loses nothing keeps what is said of the sessions.
LEMMA HeldStep ==
  ASSUME Inv, OneSocket, Held, [Next]_vars, Whole'
  PROVE  Held'
<1>0. refusals' = 0 /\ breaks' = 0 /\ ~silent' /\ breaks = 0
  BY WholeBefore DEF Whole
<1>1. CASE \E f \in Fds : ClientCloses(f) \/ CheckSelf(f)
  <2>1. PICK f \in Fds : ClientCloses(f) \/ CheckSelf(f)
    BY <1>1
  <2>2. PICK reason : /\ ClearCurrentSocket(f, reason)
                      /\ reason # "InvalidSignature" /\ reason # "Service"
    BY <2>1 DEF ClientCloses, CheckSelf, ByClient, ByTimeout
  <2>3. socket[f].conn # 0 /\ down' = down /\ users' = users
    BY <2>1 DEF ClientCloses, CheckSelf, logic
  <2> QED
    BY <1>0, <2>2, <2>3, HeldCleared
<1>2. CASE \E f \in Fds : RecvClientMessages(f)
  <2>1. PICK f \in Fds : RecvClientMessages(f)
    BY <1>2
  <2>2. PICK more : socket' = [socket EXCEPT ![f].buffer = more]
    BY <2>1 DEF RecvClientMessages
  <2>3. \A g \in Fds : /\ socket'[g].conn = socket[g].conn
                       /\ socket'[g].recved = socket[g].recved
    BY <2>2 DEF Inv, SocketsOK, Sockets
  <2>4. up' = up /\ users' = users /\ down' = down
    BY <2>1 DEF RecvClientMessages, logic
  <2> QED
    BY <2>3, <2>4, HeldStays
<1>3. CASE \E f \in Fds : \E u \in Uins : Accept(f, u)
  BY <1>3, HeldAccept
<1>4. CASE TransferBadSize \/ TransferGarbage \/ TransferRejected
  <2>1. HasPacket
    BY <1>4 DEF TransferBadSize, TransferGarbage, TransferRejected, WellFormed
  <2>2. busy \in Fds /\ socket[busy].conn # 0
    BY <2>1, PacketAtHand DEF Current
  <2>3. PICK reason : /\ TransferEnds(reason) /\ reason # "Service"
                      /\ reason = "InvalidSignature" => ~socket[busy].recved
    BY <1>4 DEF TransferBadSize, TransferGarbage, TransferRejected, Current
  <2>4. ClearCurrentSocket(busy, reason) /\ down' = down /\ users' = users
    BY <2>3 DEF TransferEnds, logic
  <2> QED
    BY <1>0, <2>2, <2>3, <2>4, HeldCleared
<1>5. CASE TransferHeartbeat
  <2>1. PICK u : socket' = [socket EXCEPT ![busy].uin = u, ![busy].recved = TRUE]
    BY <1>5 DEF TransferHeartbeat
  <2>2. \A g \in Fds : /\ socket'[g].conn = socket[g].conn
                       /\ socket[g].recved => socket'[g].recved
    BY <2>1 DEF Inv, SocketsOK, Sockets
  <2>3. up' = up /\ users' = users /\ down' = down
    BY <1>5 DEF TransferHeartbeat, logic
  <2> QED
    BY <2>2, <2>3, HeldStays
<1>6. CASE TransferRequest
  BY <1>6, HeldRequest
<1>7. CASE TransferDone
  <2>1. socket' = [socket EXCEPT ![busy].buffer = <<>>]
    BY <1>7 DEF TransferDone
  <2>2. \A g \in Fds : /\ socket'[g].conn = socket[g].conn
                       /\ socket[g].recved => socket'[g].recved
    BY <2>1 DEF Inv, SocketsOK, Sockets
  <2>3. up' = up /\ users' = users /\ down' = down
    BY <1>7 DEF TransferDone, logic
  <2> QED
    BY <2>2, <2>3, HeldStays
<1>8. CASE Logic
  BY <1>8, HeldTransform, HeldStart, HeldDisconnect DEF Logic
<1>9. CASE Deliver
  <2> DEFINE f == Head(down).index
  <2>1. /\ f \in Fds /\ Head(down).uin \in Uins /\ Head(down).conn \in Conns
        /\ down # <<>> /\ down' = Tail(down) /\ users' = users
    BY <1>9, MessageDown DEF Deliver, DeliverAnswer, DeliverClose, logic
  <2>2. CASE socket' = socket /\ up' = up
    BY <2>1, <2>2, HeldStays
  <2>3. CASE socket' = [socket EXCEPT ![f].sended = TRUE] /\ up' = up
    <3>1. \A g \in Fds : /\ socket'[g].conn = socket[g].conn
                         /\ socket'[g].recved = socket[g].recved
      BY <2>1, <2>3 DEF Inv, SocketsOK, Sockets
    <3> QED
      BY <2>1, <2>3, <3>1, HeldStays
  <2>4. CASE SamePlayer(Head(down)) /\ ClearCurrentSocket(f, "Client")
    <3>1. socket[f].conn # 0
      BY <2>1, <2>4, NobodyAssumption DEF SamePlayer, Inv, Tickets, Owned
    <3> QED
      BY <1>0, <2>1, <2>4, <3>1, HeldCleared
  <2>5. CASE /\ Head(down).type = "close"
             /\ socket[f].conn = Head(down).conn
             /\ ClearCurrentSocket(f, "Service")
    <3>1. Head(down) = down[1] /\ 1 \in 1 .. Len(down)
      BY <2>1, Shorter DEF Inv, OwnedLinks
    <3>2. Closing(socket[f].conn) /\ socket[f].conn \in Conns
      BY <2>1, <2>5, <3>1 DEF Closing
    <3>3. ~Started(socket[f].conn) /\ ~Seated(socket[f].conn)
      BY <3>2 DEF Held, StartsOnce, ClosedFor
    <3>4. socket[f].conn # 0
      BY <3>2 DEF Conns
    <3> QED
      BY <1>0, <2>1, <2>5, <3>3, <3>4, HeldCleared
  <2> QED
    BY <1>9, <2>2, <2>3, <2>4, <2>5 DEF Deliver, DeliverAnswer, DeliverClose
<1>10. CASE TransferRefused \/ Break
  BY <1>0, <1>10 DEF TransferRefused, Break, Inv, Faults
<1>11. CASE UNCHANGED vars
  BY <1>11, HeldStays DEF vars, connector, logic
<1> QED
  BY <1>1, <1>2, <1>3, <1>4, <1>5, <1>6, <1>7, <1>8, <1>9, <1>10, <1>11
     DEF Next, TransferCode

\* The invariant: whatever has a session, or is about to have one, is in use
\* or its disconnect_notify is on the way.
THEOREM NewsIsKept == Spec => []News
<1>1. Init => OneSocket /\ Held
  BY EmptySeq DEF Init, OneSocket, Free, Held, SessionsHeld, StartsHeld,
     StartsOnce, ClosedFor, NotYet, Started, Closing, Starts
<1>2. News /\ [Next]_vars => News'
  BY OneSocketStep, NextInv, WholeBefore, HeldStep DEF News
<1> QED
  BY <1>1, <1>2, InitInv, PTL DEF Spec, News

\* A player stays in the logic server's table after his connection has gone
\* only while the news is on its way, if no message has been lost and no
\* connection in use was closed as one that had never been used.
THEOREM SessionsAreExplained == Spec => []SessionsExplained
<1>1. News => SessionsExplained
  <2> SUFFICES ASSUME Held, NEW u \in Uins, users[u] # Absent
               PROVE  \/ Open(users[u].conn)
                      \/ \E i \in 1 .. Len(up) : /\ up[i].type = "disconnect"
                                                 /\ up[i].uin = u
    BY DEF News, Whole, SessionsExplained
  <2> QED
    BY DEF Held, SessionsHeld, InUse, GoneAfter, Open
<1> QED
  BY <1>1, NewsIsKept, PTL

=============================================================================
