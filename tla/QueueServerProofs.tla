------------------------- MODULE QueueServerProofs -------------------------
(***************************************************************************)
(* Proofs about QueueServer, for any descriptors, game servers, players,   *)
(* groups, processors and number of messages.                              *)
(*                                                                         *)
(* The inductive invariant has three parts.  TablesInv: the tables tell    *)
(* the truth about the sockets, and m_stServerIDToFd leads to the only     *)
(* connected entry of a server.  QueuesInv: what waits for a processor is  *)
(* its own, later than what has been handled, and in the order of          *)
(* dispatch.  LoopInv: the main thread's own state; while the listening    *)
(* socket has an event to come, the other descriptors of the batch are     *)
(* still open.                                                             *)
(***************************************************************************)
EXTENDS QueueServer, SequenceTheorems, TLAPS

-----------------------------------------------------------------------------
(***************************************************************************)
(* The inductive invariant.                                                *)
(***************************************************************************)
Connected(fd) == IsServer(fd) /\ m_astConnectionMap[fd].connected

TablesTyped ==
  /\ sock \in [Fds -> Servers \cup Uins \cup {NoPeer}]
  /\ DOMAIN m_astConnectionMap \subseteq Fds
  /\ m_astConnectionMap \in [DOMAIN m_astConnectionMap -> Connection]
  /\ DOMAIN m_stClientConMap \subseteq Fds
  /\ m_stClientConMap \in [DOMAIN m_stClientConMap -> TSocketInfo]
  /\ DOMAIN m_stServerIDToFd \subseteq Servers
  /\ m_stServerIDToFd \in [DOMAIN m_stServerIDToFd -> Fds]

\* A connected entry of a server is the one that m_stServerIDToFd leads to.
ServersTrue ==
  \A fd \in DOMAIN m_astConnectionMap :
    LET s == m_astConnectionMap[fd].m_iEntityId
    IN  m_astConnectionMap[fd].connected =>
          /\ sock[fd] = s
          /\ s \in DOMAIN m_stServerIDToFd
          /\ m_stServerIDToFd[s] = fd

PlayersTrue ==
  \A fd \in DOMAIN m_stClientConMap :
    /\ sock[fd] \in Uins
    /\ m_stClientConMap[fd].recved => sock[fd] = m_stClientConMap[fd].m_uin

TablesInv == TablesTyped /\ ServersTrue /\ PlayersTrue

Real == ServerMessage \cup ClientMessage

\* A notice has no answer.
Answers == {m \in Real : m.cmd # "notify"}

\* What may wait for processor i: a wake-up, or a message of its own that is
\* later than everything handled about the same server.
Due(i) ==
  {WakeUp} \cup
  {m \in Real : /\ ProcessorOf(m) = i
                /\ m.id <= sent
                /\ lastHandled[m.m_iServerID] < m.id}

Before(m, n) == m \in Real /\ n \in Real => m.id < n.id

\* The messages of a processor are in the order of dispatch, the one that its
\* thread is handling before those in its queue.
ProcessorInv(i) ==
  /\ msgQueue[i] \in Seq(Due(i))
  /\ \A k, l \in 1 .. Len(msgQueue[i]) :
       k < l => Before(msgQueue[i][k], msgQueue[i][l])
  /\ \/ thread[i] = Popping
     \/ thread[i] = Finished /\ i \in is_stop /\ msgQueue[i] = <<>>
     \/ \E m \in Due(i) :
          /\ thread[i] = Handling(m)
          /\ \A k \in 1 .. Len(msgQueue[i]) : Before(m, msgQueue[i][k])

QueuesInv ==
  /\ msgQueue \in [Processors -> Seq(Message)]
  /\ thread \in [Processors -> {Popping, Finished} \cup {Handling(m) : m \in Message}]
  /\ is_stop \subseteq Processors
  /\ m_stMsgQueue \in Seq(Answers)
  /\ sent \in 0 .. MaxMessages
  /\ lastHandled \in [Servers -> 0 .. MaxMessages]
  /\ \A s \in Servers : lastHandled[s] <= sent
  /\ \A i \in Processors : ProcessorInv(i)

LoopInv ==
  /\ pc \in {"check", "timers", "wait", "events", "send", "stop", "done"}
  /\ batch \subseteq Fds \cup {ListenFd}
  /\ iMsgNum \in Nat /\ iMsgNum <= Len(m_stMsgQueue)
  /\ unanswered \subseteq Fds \X (1 .. MaxMessages)
  /\ is_stop # {} => pc \in {"stop", "done"}
  /\ pc = "events" /\ ListenFd \in batch =>
       \A fd \in batch \ {ListenFd} : sock[fd] # NoPeer

Inv == TablesInv /\ QueuesInv /\ LoopInv

\* The history, which no step reads.
LossesTyped == lost \subseteq 1 .. MaxMessages

-----------------------------------------------------------------------------
(***************************************************************************)
(* Facts about the operators.                                              *)
(***************************************************************************)

\* What is left of a table after some entries have been erased.
LEMMA Erased ==
  ASSUME NEW B, NEW f, f \in [DOMAIN f -> B], NEW S
  PROVE  /\ DOMAIN Erase(f, S) = DOMAIN f \ S
         /\ \A x \in DOMAIN f \ S : Erase(f, S)[x] = f[x]
         /\ Erase(f, S) \in [DOMAIN f \ S -> B]
BY DEF Erase, Restrict

\* A table after one entry has been set.
LEMMA Assigned ==
  ASSUME NEW B, NEW f, f \in [DOMAIN f -> B], NEW x, NEW v \in B
  PROVE  /\ DOMAIN Assign(f, x, v) = DOMAIN f \cup {x}
         /\ Assign(f, x, v)[x] = v
         /\ \A y \in DOMAIN f \ {x} : Assign(f, x, v)[y] = f[y]
         /\ Assign(f, x, v) \in [DOMAIN f \cup {x} -> B]
BY DEF Assign

\* The two tables of connections after entries of both have been erased.
LEMMA TablesErased ==
  ASSUME TablesTyped, NEW S, NEW C,
         m_astConnectionMap' = Erase(m_astConnectionMap, S),
         m_stClientConMap' = Erase(m_stClientConMap, C)
  PROVE  /\ DOMAIN m_astConnectionMap' = DOMAIN m_astConnectionMap \ S
         /\ \A fd \in DOMAIN m_astConnectionMap' :
               m_astConnectionMap'[fd] = m_astConnectionMap[fd]
         /\ m_astConnectionMap' \in [DOMAIN m_astConnectionMap' -> Connection]
         /\ DOMAIN m_stClientConMap' = DOMAIN m_stClientConMap \ C
         /\ \A fd \in DOMAIN m_stClientConMap' :
               m_stClientConMap'[fd] = m_stClientConMap[fd]
         /\ m_stClientConMap' \in [DOMAIN m_stClientConMap' -> TSocketInfo]
<1> DEFINE a == Erase(m_astConnectionMap, S)
           c == Erase(m_stClientConMap, C)
<1>1. /\ m_astConnectionMap \in [DOMAIN m_astConnectionMap -> Connection]
      /\ m_stClientConMap \in [DOMAIN m_stClientConMap -> TSocketInfo]
  BY DEF TablesTyped
<1>2. /\ DOMAIN a = DOMAIN m_astConnectionMap \ S
      /\ \A fd \in DOMAIN m_astConnectionMap \ S : a[fd] = m_astConnectionMap[fd]
      /\ a \in [DOMAIN m_astConnectionMap \ S -> Connection]
  BY ONLY <1>1, Erased
<1>3. /\ DOMAIN c = DOMAIN m_stClientConMap \ C
      /\ \A fd \in DOMAIN m_stClientConMap \ C : c[fd] = m_stClientConMap[fd]
      /\ c \in [DOMAIN m_stClientConMap \ C -> TSocketInfo]
  BY ONLY <1>1, Erased
<1> QED
  BY <1>2, <1>3

\* Closing descriptors leaves the others alone.
LEMMA ClosedSockets ==
  ASSUME TablesTyped, NEW S
  PROVE  /\ Closed(S) \in [Fds -> Servers \cup Uins \cup {NoPeer}]
         /\ \A fd \in Fds : Closed(S)[fd] = IF fd \in S THEN NoPeer ELSE sock[fd]
         /\ S = {} => Closed(S) = sock
BY DEF Closed, TablesTyped

\* The tables stay true when entries of theirs only go or are disconnected,
\* and no socket changes under an entry that remains.
Shrinks ==
  /\ sock' \in [Fds -> Servers \cup Uins \cup {NoPeer}]
  /\ DOMAIN m_astConnectionMap' \subseteq DOMAIN m_astConnectionMap
  /\ m_astConnectionMap' \in [DOMAIN m_astConnectionMap' -> Connection]
  /\ \A fd \in DOMAIN m_astConnectionMap' :
       m_astConnectionMap'[fd].connected =>
          /\ m_astConnectionMap'[fd] = m_astConnectionMap[fd]
          /\ sock'[fd] = sock[fd]
  /\ DOMAIN m_stClientConMap' \subseteq DOMAIN m_stClientConMap
  /\ m_stClientConMap' \in [DOMAIN m_stClientConMap' -> TSocketInfo]
  /\ \A fd \in DOMAIN m_stClientConMap' :
        /\ m_stClientConMap'[fd] = m_stClientConMap[fd]
        /\ sock'[fd] = sock[fd]
  /\ UNCHANGED m_stServerIDToFd

\* The tables stay true when they only shrink.
LEMMA ShrinksKeeps ==
  ASSUME TablesInv, Shrinks
  PROVE  TablesInv'
<1>1. TablesTyped'
  BY DEF TablesInv, TablesTyped, Shrinks
<1>2. ServersTrue'
  BY DEF TablesInv, TablesTyped, ServersTrue, Shrinks
<1>3. PlayersTrue'
  BY DEF TablesInv, TablesTyped, PlayersTrue, Shrinks
<1> QED
  BY <1>1, <1>2, <1>3 DEF TablesInv

\* A connected entry of a server and an entry of a player are never on one
\* descriptor.
LEMMA Apart ==
  ASSUME TablesInv, NEW fd \in DOMAIN m_stClientConMap
  PROVE  /\ sock[fd] \in Uins /\ sock[fd] \notin Servers /\ sock[fd] # NoPeer
         /\ ~Connected(fd)
<1>1. /\ sock[fd] \in Uins /\ sock[fd] \notin Servers /\ sock[fd] # NoPeer
  BY PeersAssumption DEF TablesInv, PlayersTrue
<1>2. Connected(fd) => sock[fd] \in Servers
  BY DEF TablesInv, TablesTyped, ServersTrue, Connected, IsServer, Connection
<1> QED
  BY <1>1, <1>2

\* Entries of both kinds go, and the sockets of the connected ones and of
\* some of the players are closed.
LEMMA EntriesGo ==
  ASSUME TablesInv, NEW S, NEW C, NEW closed,
         closed \subseteq {fd \in S : Connected(fd)} \cup C,
         m_astConnectionMap' = Erase(m_astConnectionMap, S),
         m_stClientConMap' = Erase(m_stClientConMap, C),
         sock' = Closed(closed),
         \A fd \in closed : ~Connected(fd) \/ fd \in S,
         UNCHANGED m_stServerIDToFd
  PROVE  TablesInv'
<1>1. sock' \in [Fds -> Servers \cup Uins \cup {NoPeer}]
  BY ClosedSockets DEF TablesInv
<1>2. /\ DOMAIN m_astConnectionMap' = DOMAIN m_astConnectionMap \ S
      /\ \A fd \in DOMAIN m_astConnectionMap' :
            m_astConnectionMap'[fd] = m_astConnectionMap[fd]
      /\ m_astConnectionMap' \in [DOMAIN m_astConnectionMap' -> Connection]
      /\ DOMAIN m_stClientConMap' = DOMAIN m_stClientConMap \ C
      /\ \A fd \in DOMAIN m_stClientConMap' :
            m_stClientConMap'[fd] = m_stClientConMap[fd]
      /\ m_stClientConMap' \in [DOMAIN m_stClientConMap' -> TSocketInfo]
  BY TablesErased DEF TablesInv
<1>3. \A fd \in DOMAIN m_astConnectionMap' :
         m_astConnectionMap'[fd].connected => sock'[fd] = sock[fd]
  <2> SUFFICES ASSUME NEW fd \in DOMAIN m_astConnectionMap',
                      m_astConnectionMap'[fd].connected
               PROVE  sock'[fd] = sock[fd]
    OBVIOUS
  <2>1. Connected(fd) /\ fd \notin S /\ fd \in Fds
    BY <1>2 DEF Connected, IsServer, TablesInv, TablesTyped
  <2> QED
    BY <2>1, ClosedSockets DEF TablesInv
<1>4. \A fd \in DOMAIN m_stClientConMap' : sock'[fd] = sock[fd]
  <2> SUFFICES ASSUME NEW fd \in DOMAIN m_stClientConMap'
               PROVE  sock'[fd] = sock[fd]
    OBVIOUS
  <2>1. fd \in DOMAIN m_stClientConMap /\ fd \notin C /\ fd \in Fds
    BY <1>2 DEF TablesInv, TablesTyped
  <2>2. ~Connected(fd)
    BY <2>1, Apart
  <2> QED
    BY <2>1, <2>2, ClosedSockets DEF TablesInv
<1> QED
  BY <1>1, <1>2, <1>3, <1>4, ShrinksKeeps DEF Shrinks

\* Erasing nothing changes nothing.
LEMMA EraseNothing ==
  ASSUME TablesTyped
  PROVE  /\ Erase(m_astConnectionMap, {}) = m_astConnectionMap
         /\ Erase(m_stClientConMap, {}) = m_stClientConMap
<1>1. ASSUME NEW B, NEW f, f \in [DOMAIN f -> B]
      PROVE  Erase(f, {}) = f
  BY <1>1 DEF Erase, Restrict
<1> QED
  BY <1>1 DEF TablesTyped

-----------------------------------------------------------------------------
(***************************************************************************)
(* The tables, action by action.                                           *)
(***************************************************************************)

\* A step that leaves sockets and tables alone keeps the first part.
LEMMA UnchangedTables ==
  ASSUME TablesInv, UNCHANGED <<sock, tables>>
  PROVE  TablesInv'
BY DEF TablesInv, TablesTyped, ServersTrue, PlayersTrue, tables

\* A time-out takes entries away and closes no socket under another one.
LEMMA TimersTables ==
  ASSUME TablesInv, Timers
  PROVE  TablesInv'
<1>1. PICK active \in BOOLEAN, silent \in SUBSET DOMAIN m_astConnectionMap,
           idle \in SUBSET DOMAIN m_stClientConMap :
             CheckTimers(active, silent, idle)
  BY DEF Timers
<1> DEFINE live == {fd \in silent : m_astConnectionMap[fd].connected}
<1>2. live \subseteq {fd \in silent : Connected(fd)}
  BY DEF Connected, IsServer
<1>3. /\ m_astConnectionMap' = Erase(m_astConnectionMap, silent)
      /\ m_stClientConMap' = Erase(m_stClientConMap, idle)
      /\ sock' = Closed(live)
      /\ UNCHANGED m_stServerIDToFd
  BY <1>1 DEF CheckTimers
<1> HIDE DEF live
<1> QED
  BY <1>2, <1>3, EntriesGo

\* An error event takes the descriptor out of both tables.
LEMMA SocketErrorTables ==
  ASSUME TablesInv, NEW fd \in Fds, SocketError(fd)
  PROVE  TablesInv'
<1> DEFINE closed == IF fd \in DOMAIN m_stClientConMap \/ Connected(fd)
                     THEN {fd} ELSE {}
<1>1. sock' = Closed(closed)
  BY ClosedSockets DEF SocketError, Connected, IsServer, TablesInv
<1>2. closed \subseteq {f \in {fd} : Connected(f)} \cup {fd}
  OBVIOUS
<1>3. \A f \in closed : ~Connected(f) \/ f \in {fd}
  OBVIOUS
<1> HIDE DEF closed
<1> QED
  BY <1>1, <1>2, <1>3, EntriesGo DEF SocketError

\* A game server that goes is taken out, or its entry is disconnected.
LEMMA ServerGoneTables ==
  ASSUME TablesInv, NEW fd \in Fds, ServerGone(fd)
  PROVE  TablesInv'
<1> DEFINE closed == IF Connected(fd) THEN {fd} ELSE {}
<1>1. sock' = Closed(closed)
  BY ClosedSockets
     DEF ServerGone, ClearServerConnection, Connected, IsServer, TablesInv
<1>2. closed \subseteq {f \in {fd} : Connected(f)} \cup {}
  OBVIOUS
<1>3. \A f \in closed : ~Connected(f) \/ f \in {fd}
  OBVIOUS
<1>4. m_stClientConMap' = Erase(m_stClientConMap, {})
  BY EraseNothing DEF ServerGone, ClearServerConnection, TablesInv
<1> HIDE DEF closed
<1> QED
  BY <1>1, <1>2, <1>3, <1>4, EntriesGo DEF ServerGone, ClearServerConnection

\* A player's entry goes, whether he is gone or cannot be written to.
LEMMA ClientGoneTables ==
  ASSUME TablesInv, NEW fd \in DOMAIN m_stClientConMap, ClearClientSocket(fd)
  PROVE  TablesInv'
<1>1. m_astConnectionMap' = Erase(m_astConnectionMap, {})
  BY EraseNothing DEF ClearClientSocket, TablesInv
<1>2. ~Connected(fd)
  BY Apart
<1>3. \A f \in {fd} : ~Connected(f) \/ f \in {}
  BY <1>2
<1>4. {fd} \subseteq {f \in {} : Connected(f)} \cup {fd}
  OBVIOUS
<1> QED
  BY <1>1, <1>3, <1>4, EntriesGo DEF ClearClientSocket

\* A server cannot be written to: its socket is closed, its entry stays.
LEMMA WriteFailsTables ==
  ASSUME TablesInv, m_stMsgQueue \in Seq(Answers), iMsgNum <= Len(m_stMsgQueue),
         iMsgNum \in Nat, WriteFails
  PROVE  TablesInv'
<1> DEFINE m == Head(m_stMsgQueue)
<1>1. Deliverable(m)
  BY DEF WriteFails
<1>2. CASE m.cmd = "heartbeat"
  <2>1. ClearClientSocket(m.m_iFd) /\ m.m_iFd \in DOMAIN m_stClientConMap
    BY <1>1, <1>2 DEF WriteFails, Deliverable
  <2> QED
    BY <2>1, ClientGoneTables
<1>3. CASE m.cmd # "heartbeat"
  <2> DEFINE fd == m.m_iFd
  <2>1. /\ fd \in DOMAIN m_astConnectionMap
        /\ m_astConnectionMap[fd].connected
        /\ m_astConnectionMap' = [m_astConnectionMap EXCEPT ![fd].connected = FALSE]
        /\ sock' = Closed({fd})
        /\ UNCHANGED <<m_stClientConMap, m_stServerIDToFd>>
    BY <1>1, <1>3 DEF WriteFails, Deliverable
  <2> HIDE DEF fd
  <2>2. /\ sock' \in [Fds -> Servers \cup Uins \cup {NoPeer}]
        /\ \A f \in Fds \ {fd} : sock'[f] = sock[f]
    BY <2>1, ClosedSockets DEF TablesInv
  <2>3. /\ DOMAIN m_astConnectionMap' = DOMAIN m_astConnectionMap
        /\ m_astConnectionMap'[fd].connected = FALSE
        /\ \A f \in DOMAIN m_astConnectionMap \ {fd} :
              m_astConnectionMap'[f] = m_astConnectionMap[f]
        /\ m_astConnectionMap' \in [DOMAIN m_astConnectionMap' -> Connection]
    BY <2>1 DEF TablesInv, TablesTyped, Connection
  <2>4. fd \notin DOMAIN m_stClientConMap
    BY <2>1, Apart DEF Connected, IsServer
  <2> QED
    BY <2>1, <2>2, <2>3, <2>4, ShrinksKeeps DEF Shrinks, TablesInv, TablesTyped
<1> QED
  BY <1>2, <1>3

\* A connected entry that AddServerConnection takes for an older connection of
\* s is one, and the other entries are of other servers.
LEMMA RepeatedIsOlder ==
  ASSUME TablesInv, NEW s \in Servers
  PROVE  /\ Repeated(s) \subseteq DOMAIN m_astConnectionMap
         /\ \A f \in DOMAIN m_astConnectionMap \ Repeated(s) :
              Connected(f) => m_astConnectionMap[f].m_iEntityId # s
BY DEF TablesInv, TablesTyped, ServersTrue, Repeated, Connected, IsServer

\* A game server that connects becomes the only connected entry of its id.
LEMMA AcceptServerTables ==
  ASSUME TablesInv, NEW fd \in Fds, sock[fd] = NoPeer, NEW s \in Servers,
         AddServerConnection(s, fd)
  PROVE  TablesInv'
<1> DEFINE live == {f \in Repeated(s) : m_astConnectionMap[f].connected}
           kept == Erase(m_astConnectionMap, Repeated(s))
           new == [m_iEntityId |-> s, connected |-> TRUE]
<1>1. /\ sock' = [Closed(live) EXCEPT ![fd] = s]
      /\ m_astConnectionMap' = Assign(kept, fd, new)
      /\ m_stServerIDToFd' = Assign(m_stServerIDToFd, s, fd)
      /\ m_stClientConMap' = m_stClientConMap
  BY DEF AddServerConnection
<1>2. /\ DOMAIN kept = DOMAIN m_astConnectionMap \ Repeated(s)
      /\ \A f \in DOMAIN kept : kept[f] = m_astConnectionMap[f]
      /\ kept \in [DOMAIN kept -> Connection]
  <2>1. m_astConnectionMap \in [DOMAIN m_astConnectionMap -> Connection]
    BY DEF TablesInv, TablesTyped
  <2>2. /\ DOMAIN kept = DOMAIN m_astConnectionMap \ Repeated(s)
        /\ \A f \in DOMAIN m_astConnectionMap \ Repeated(s) :
              kept[f] = m_astConnectionMap[f]
        /\ kept \in [DOMAIN m_astConnectionMap \ Repeated(s) -> Connection]
    BY ONLY <2>1, Erased
  <2> QED
    BY ONLY <2>2
<1>3. /\ Closed(live) \in [Fds -> Servers \cup Uins \cup {NoPeer}]
      /\ \A f \in Fds : Closed(live)[f] = IF f \in live THEN NoPeer ELSE sock[f]
  BY ClosedSockets DEF TablesInv
<1>4. \A f \in live : Connected(f)
  BY RepeatedIsOlder DEF Connected, IsServer
<1>5. new \in Connection /\ new.m_iEntityId = s
  BY DEF Connection
<1> HIDE DEF kept, new, live
<1>6. /\ DOMAIN m_astConnectionMap' = DOMAIN kept \cup {fd}
      /\ m_astConnectionMap'[fd] = new
      /\ \A f \in DOMAIN kept \ {fd} : m_astConnectionMap'[f] = kept[f]
      /\ m_astConnectionMap' \in [DOMAIN m_astConnectionMap' -> Connection]
  <2>1. /\ DOMAIN Assign(kept, fd, new) = DOMAIN kept \cup {fd}
        /\ Assign(kept, fd, new)[fd] = new
        /\ \A f \in DOMAIN kept \ {fd} : Assign(kept, fd, new)[f] = kept[f]
        /\ Assign(kept, fd, new) \in [DOMAIN kept \cup {fd} -> Connection]
    BY ONLY <1>2, <1>5, Assigned
  <2> QED
    BY ONLY <1>1, <2>1
<1>7. /\ DOMAIN m_stServerIDToFd' = DOMAIN m_stServerIDToFd \cup {s}
      /\ m_stServerIDToFd'[s] = fd
      /\ \A t \in DOMAIN m_stServerIDToFd \ {s} :
            m_stServerIDToFd'[t] = m_stServerIDToFd[t]
      /\ m_stServerIDToFd' \in [DOMAIN m_stServerIDToFd' -> Fds]
  BY <1>1 DEF Assign, TablesInv, TablesTyped
<1>8. /\ sock' \in [Fds -> Servers \cup Uins \cup {NoPeer}]
      /\ sock'[fd] = s
      /\ \A f \in Fds \ {fd} : sock'[f] = IF f \in live THEN NoPeer ELSE sock[f]
  BY <1>1, <1>3
<1>9. TablesTyped'
  BY <1>1, <1>2, <1>6, <1>7, <1>8 DEF TablesInv, TablesTyped
<1>10. ServersTrue'
  <2> SUFFICES ASSUME NEW f \in DOMAIN m_astConnectionMap',
                      m_astConnectionMap'[f].connected
               PROVE  LET t == m_astConnectionMap'[f].m_iEntityId
                      IN  /\ sock'[f] = t
                          /\ t \in DOMAIN m_stServerIDToFd'
                          /\ m_stServerIDToFd'[t] = f
    BY DEF ServersTrue
  <2>1. CASE f = fd
    BY <2>1, <1>5, <1>6, <1>7, <1>8
  <2>2. CASE f # fd
    <3>1. /\ f \in DOMAIN m_astConnectionMap \ Repeated(s) /\ f \in Fds
          /\ m_astConnectionMap'[f] = m_astConnectionMap[f]
          /\ f \notin live
      BY <2>2, <1>2, <1>6 DEF live, TablesInv, TablesTyped
    <3>2. m_astConnectionMap[f].m_iEntityId # s
      BY <3>1, RepeatedIsOlder DEF Connected, IsServer
    <3> QED
      BY <2>2, <3>1, <3>2, <1>7, <1>8 DEF TablesInv, ServersTrue
  <2> QED
    BY <2>1, <2>2
<1>11. PlayersTrue'
  <2> SUFFICES ASSUME NEW f \in DOMAIN m_stClientConMap
               PROVE  sock'[f] = sock[f]
    BY <1>1 DEF PlayersTrue, TablesInv
  <2>1. f \in Fds /\ f # fd /\ f \notin live
    BY <1>4, Apart DEF TablesInv, TablesTyped
  <2> QED
    BY <2>1, <1>8
<1> QED
  BY <1>9, <1>10, <1>11 DEF TablesInv

\* A player who connects gets an entry of his own.
LEMMA AcceptClientTables ==
  ASSUME TablesInv, NEW fd \in Fds, sock[fd] = NoPeer, NEW u \in Uins,
         AddClientConnection(u, fd)
  PROVE  TablesInv'
<1>1. /\ sock' = [sock EXCEPT ![fd] = u]
      /\ m_stClientConMap' = Assign(m_stClientConMap, fd, NewClient)
      /\ UNCHANGED <<m_astConnectionMap, m_stServerIDToFd>>
  BY DEF AddClientConnection
<1>2. NewClient \in TSocketInfo /\ NewClient.recved = FALSE
  BY DEF NewClient, TSocketInfo
<1>3. /\ DOMAIN m_stClientConMap' = DOMAIN m_stClientConMap \cup {fd}
      /\ m_stClientConMap'[fd] = NewClient
      /\ \A f \in DOMAIN m_stClientConMap \ {fd} :
            m_stClientConMap'[f] = m_stClientConMap[f]
      /\ m_stClientConMap' \in [DOMAIN m_stClientConMap' -> TSocketInfo]
  <2>1. m_stClientConMap \in [DOMAIN m_stClientConMap -> TSocketInfo]
    BY DEF TablesInv, TablesTyped
  <2> DEFINE c == Assign(m_stClientConMap, fd, NewClient)
  <2>2. /\ DOMAIN c = DOMAIN m_stClientConMap \cup {fd}
        /\ c[fd] = NewClient
        /\ \A f \in DOMAIN m_stClientConMap \ {fd} : c[f] = m_stClientConMap[f]
        /\ c \in [DOMAIN m_stClientConMap \cup {fd} -> TSocketInfo]
    BY ONLY <1>2, <2>1, Assigned
  <2> QED
    BY ONLY <1>1, <2>2
<1>4. /\ sock' \in [Fds -> Servers \cup Uins \cup {NoPeer}]
      /\ sock'[fd] = u
      /\ \A f \in Fds \ {fd} : sock'[f] = sock[f]
  BY <1>1 DEF TablesInv, TablesTyped
<1>5. TablesTyped'
  BY <1>1, <1>3, <1>4 DEF TablesInv, TablesTyped
<1>6. ServersTrue'
  <2>1. ~Connected(fd)
    BY PeersAssumption DEF TablesInv, TablesTyped, ServersTrue, Connected, IsServer, Connection
  <2> QED
    BY <2>1, <1>1, <1>4
       DEF TablesInv, TablesTyped, ServersTrue, Connected, IsServer
<1>7. PlayersTrue'
  BY <1>2, <1>3, <1>4 DEF TablesInv, TablesTyped, PlayersTrue
<1> QED
  BY <1>5, <1>6, <1>7 DEF TablesInv

\* The first packet of a connection says who the player is: the one whose
\* socket it is.
LEMMA AcceptedTables ==
  ASSUME TablesInv, NEW fd \in DOMAIN m_stClientConMap, NEW g \in Groups,
         Accepted(fd, g)
  PROVE  /\ TablesInv'
         /\ m_stClientConMap'[fd].m_uin = sock[fd]
<1> DEFINE new == IF m_stClientConMap[fd].recved THEN m_stClientConMap[fd]
                  ELSE [m_uin |-> sock[fd], m_iGroupID |-> g, recved |-> TRUE]
<1>1. /\ m_stClientConMap' = [m_stClientConMap EXCEPT ![fd] = new]
      /\ UNCHANGED <<sock, m_astConnectionMap, m_stServerIDToFd>>
  BY DEF Accepted
<1>2. /\ sock[fd] \in Uins
      /\ m_stClientConMap[fd] \in TSocketInfo
      /\ m_stClientConMap[fd].recved => m_stClientConMap[fd].m_uin = sock[fd]
  BY DEF TablesInv, TablesTyped, PlayersTrue
<1>3. new \in TSocketInfo /\ new.m_uin = sock[fd]
  BY <1>2 DEF TSocketInfo
<1> HIDE DEF new
<1>4. /\ DOMAIN m_stClientConMap' = DOMAIN m_stClientConMap
      /\ m_stClientConMap'[fd] = new
      /\ \A f \in DOMAIN m_stClientConMap \ {fd} :
            m_stClientConMap'[f] = m_stClientConMap[f]
      /\ m_stClientConMap' \in [DOMAIN m_stClientConMap' -> TSocketInfo]
  BY <1>1, <1>3 DEF TablesInv, TablesTyped
<1>5. TablesTyped'
  BY <1>1, <1>4 DEF TablesInv, TablesTyped
<1>6. ServersTrue'
  BY <1>1 DEF TablesInv, ServersTrue
<1>7. PlayersTrue'
  BY <1>1, <1>3, <1>4 DEF TablesInv, PlayersTrue
<1> QED
  BY <1>3, <1>4, <1>5, <1>6, <1>7 DEF TablesInv

-----------------------------------------------------------------------------
(***************************************************************************)
(* The queues.                                                             *)
(***************************************************************************)

\* A message that is put into a queue is none of the wake-ups.
LEMMA RealMessage ==
  ASSUME NEW m \in Real
  PROVE  /\ m # WakeUp /\ m \in Message
         /\ m.cmd \in {"notify", "check", "heartbeat"}
         /\ m.m_iServerID \in Servers /\ m.m_iFd \in Fds
         /\ m.id \in 1 .. MaxMessages
         /\ ProcessorOf(m) \in Processors
<1>1. /\ m.cmd \in {"notify", "check", "heartbeat"}
      /\ m.m_iServerID \in Servers /\ m.m_iFd \in Fds
      /\ m.id \in 1 .. MaxMessages
  BY DEF Real, ServerMessage, ClientMessage
<1>2. m # WakeUp
  BY <1>1 DEF WakeUp
<1>3. ProcessorOf(m) \in Processors
  <2>1. m.m_iServerID \in Nat /\ MSG_PROCESSOR_NUM \in Nat \ {0}
    BY <1>1, PeersAssumption, BoundsAssumption
  <2> QED
    BY <2>1 DEF ProcessorOf, Processors
<1> QED
  BY <1>1, <1>2, <1>3 DEF Real, Message

\* A sequence is one over every set that holds its elements.
LEMMA Retyped ==
  ASSUME NEW S, NEW T, NEW q \in Seq(S), \A k \in 1 .. Len(q) : q[k] \in T
  PROVE  q \in Seq(T)
<1>1. Len(q) \in Nat /\ q \in [1 .. Len(q) -> S]
  BY LenProperties
<1>2. q \in [1 .. Len(q) -> T]
  BY <1>1
<1> QED
  BY <1>1, <1>2, SeqDef

\* What is due to a processor stays due while more is dispatched.
LEMMA DueGrows ==
  ASSUME QueuesInv, sent' \in Nat, sent <= sent', NEW i \in Processors,
         \A s \in Servers : s % MSG_PROCESSOR_NUM = i =>
                               lastHandled'[s] = lastHandled[s]
  PROVE  Due(i) \subseteq Due(i)'
<1> SUFFICES ASSUME NEW m \in Real, m \in Due(i), m # WakeUp
             PROVE  m \in Due(i)'
  BY DEF Due
<1>1. ProcessorOf(m) = i /\ m.id <= sent /\ lastHandled[m.m_iServerID] < m.id
  BY DEF Due
<1>2. m.m_iServerID \in Servers /\ m.id \in Nat
  BY RealMessage
<1>3. lastHandled'[m.m_iServerID] = lastHandled[m.m_iServerID]
  BY <1>1, <1>2 DEF ProcessorOf
<1>4. m.id <= sent'
  BY <1>1, <1>2 DEF QueuesInv
<1> QED
  BY <1>1, <1>3, <1>4 DEF Due, ProcessorOf

\* A processor that a step leaves alone keeps its part, when at most more is
\* due to it and more processors are told to stop.
LEMMA ProcessorKept ==
  ASSUME QueuesInv, NEW i \in Processors, Due(i) \subseteq Due(i)',
         msgQueue'[i] = msgQueue[i], thread'[i] = thread[i],
         is_stop \subseteq is_stop'
  PROVE  ProcessorInv(i)'
<1>1. ProcessorInv(i)
  BY DEF QueuesInv
<1>2. msgQueue'[i] \in Seq(Due(i)')
  BY <1>1, SeqMonotonic DEF ProcessorInv
<1>3. \A k, l \in 1 .. Len(msgQueue'[i]) :
         k < l => Before(msgQueue'[i][k], msgQueue'[i][l])
  BY <1>1 DEF ProcessorInv
<1>4. \/ thread'[i] = Popping
      \/ thread'[i] = Finished /\ i \in is_stop' /\ msgQueue'[i] = <<>>
      \/ \E m \in Due(i)' :
           /\ thread'[i] = Handling(m)
           /\ \A k \in 1 .. Len(msgQueue'[i]) : Before(m, msgQueue'[i][k])
  <2>1. CASE \E m \in Due(i) :
               /\ thread[i] = Handling(m)
               /\ \A k \in 1 .. Len(msgQueue[i]) : Before(m, msgQueue[i][k])
    BY <2>1
  <2>2. CASE thread[i] = Popping
    BY <2>2
  <2>3. CASE thread[i] = Finished /\ i \in is_stop /\ msgQueue[i] = <<>>
    BY <2>3
  <2> QED
    BY <1>1, <2>1, <2>2, <2>3 DEF ProcessorInv
<1> QED
  BY <1>2, <1>3, <1>4 DEF ProcessorInv

\* A step that leaves processors and queues alone keeps what is said of them.
LEMMA UnchangedQueues ==
  ASSUME QueuesInv, UNCHANGED queuing
  PROVE  QueuesInv'
<1>1. \A i \in Processors : ProcessorInv(i)'
  <2> SUFFICES ASSUME NEW i \in Processors
               PROVE  ProcessorInv(i)'
    OBVIOUS
  <2>1. Due(i) \subseteq Due(i)'
    BY DueGrows DEF queuing, QueuesInv
  <2> QED
    BY <2>1, ProcessorKept DEF queuing
<1> QED
  BY <1>1 DEF queuing, QueuesInv

\* The new message is the last of its processor's queue.
LEMMA DispatchQueues ==
  ASSUME QueuesInv, LoopInv, pc = "events", NEW m \in Real, m.id = sent + 1,
         AddMessageQueueProcessor(m)
  PROVE  /\ QueuesInv'
         /\ UNCHANGED m_stMsgQueue
         /\ unanswered' \subseteq Fds \X (1 .. MaxMessages)
<1> DEFINE p == ProcessorOf(m)
<1>1. /\ sent < MaxMessages /\ sent' = sent + 1
      /\ msgQueue' = [msgQueue EXCEPT ![p] = Append(@, m)]
      /\ unanswered' \subseteq unanswered \cup {<<m.m_iFd, m.id>>}
      /\ UNCHANGED <<is_stop, thread, m_stMsgQueue, lastHandled>>
  BY DEF AddMessageQueueProcessor
<1>2. /\ m \in Message /\ m.m_iServerID \in Servers /\ m.m_iFd \in Fds
      /\ m.id \in 1 .. MaxMessages /\ p \in Processors
  BY RealMessage
<1>3. sent \in Nat /\ sent' \in 0 .. MaxMessages
  BY <1>1, BoundsAssumption DEF QueuesInv
<1>4. \A i \in Processors : Due(i) \subseteq Due(i)'
  BY <1>1, <1>3, DueGrows
<1> HIDE DEF p
<1>5. \A i \in Processors : msgQueue[i] \in Seq(Message)
  BY DEF QueuesInv
<1>6. /\ msgQueue' \in [Processors -> Seq(Message)]
      /\ msgQueue'[p] = Append(msgQueue[p], m)
      /\ \A i \in Processors \ {p} : msgQueue'[i] = msgQueue[i]
  <2>1. Append(msgQueue[p], m) \in Seq(Message)
    BY <1>2, <1>5, AppendProperties
  <2> QED
    BY <1>1, <1>2, <2>1 DEF QueuesInv
<1>7. ProcessorInv(p)'
  <2> DEFINE q == msgQueue[p]
             r == Append(q, m)
  <2>1. ProcessorInv(p) /\ q \in Seq(Message) /\ Len(q) \in Nat
    BY <1>2, <1>5, LenProperties DEF QueuesInv
  <2>2. m \in Due(p)'
    <3>1. m.id <= sent'
      BY <1>1, <1>3
    <3>2. lastHandled'[m.m_iServerID] < m.id
      BY <1>1, <1>2, <1>3 DEF QueuesInv
    <3> QED
      BY <3>1, <3>2 DEF Due, p, ProcessorOf
  <2>3. /\ r \in Seq(Due(p)') /\ Len(r) = Len(q) + 1 /\ r[Len(q) + 1] = m
        /\ \A k \in 1 .. Len(q) : r[k] = q[k]
    <3>1. q \in Seq(Due(p)')
      BY <2>1, <1>2, <1>4, SeqMonotonic DEF ProcessorInv
    <3> HIDE DEF q
    <3> QED
      BY <3>1, <2>2, AppendProperties
  <2>4. \A k \in 1 .. Len(q) : q[k] \in Due(p)
    <3>1. q \in Seq(Due(p))
      BY <2>1 DEF ProcessorInv
    <3> QED
      BY <3>1, ElementOfSeq
  <2>5. \A n : n \in Due(p) => Before(n, m)
    BY <1>3, RealMessage DEF Due, Before
  <2> HIDE DEF r
  <2>6. \A k, l \in 1 .. Len(r) : k < l => Before(r[k], r[l])
    <3> SUFFICES ASSUME NEW k \in 1 .. Len(q), NEW l \in 1 .. Len(q) + 1, k < l
                 PROVE  Before(r[k], r[l])
      BY <2>1, <2>3
    <3>1. CASE l = Len(q) + 1
      BY <3>1, <2>3, <2>4, <2>5
    <3>2. CASE l # Len(q) + 1
      <4>1. l \in 1 .. Len(q)
        BY <3>2, <2>1
      <4>2. Before(q[k], q[l])
        BY <4>1, <2>1 DEF ProcessorInv
      <4> QED
        BY <4>1, <4>2, <2>3
    <3> QED
      BY <3>1, <3>2
  <2>7. \/ thread[p] = Popping
        \/ \E n \in Due(p) :
             /\ thread[p] = Handling(n)
             /\ \A k \in 1 .. Len(q) : Before(n, q[k])
    <3>1. is_stop = {}
      BY DEF LoopInv
    <3> QED
      BY <3>1, <2>1 DEF ProcessorInv
  <2>8. \/ thread'[p] = Popping
        \/ \E n \in Due(p)' :
             /\ thread'[p] = Handling(n)
             /\ \A k \in 1 .. Len(r) : Before(n, r[k])
    <3>1. CASE thread[p] = Popping
      BY <3>1, <1>1
    <3>2. ASSUME NEW n \in Due(p), thread[p] = Handling(n),
                 \A k \in 1 .. Len(q) : Before(n, q[k])
          PROVE  /\ n \in Due(p)' /\ thread'[p] = Handling(n)
                 /\ \A k \in 1 .. Len(r) : Before(n, r[k])
      <4>1. n \in Due(p)' /\ thread'[p] = Handling(n)
        BY <3>2, <1>1, <1>2, <1>4
      <4>2. ASSUME NEW k \in 1 .. Len(r)
            PROVE  Before(n, r[k])
        BY <3>2, <2>1, <2>3, <2>5
      <4> QED
        BY <4>1, <4>2
    <3> QED
      BY <3>1, <3>2, <2>7
  <2>9. msgQueue'[p] = r
    BY <1>6 DEF r
  <2> HIDE DEF q
  <2> QED
    BY <2>3, <2>6, <2>8, <2>9 DEF ProcessorInv
<1>8. \A i \in Processors : ProcessorInv(i)'
  BY <1>1, <1>4, <1>6, <1>7, ProcessorKept
<1>9. unanswered' \subseteq Fds \X (1 .. MaxMessages)
  BY <1>1, <1>2 DEF LoopInv
<1> QED
  BY <1>1, <1>3, <1>6, <1>8, <1>9 DEF QueuesInv

\* A wake-up in an empty queue.
LEMMA TimersQueues ==
  ASSUME QueuesInv, LoopInv, Timers
  PROVE  QueuesInv'
<1>1. PICK active \in BOOLEAN :
        /\ pc = "timers"
        /\ msgQueue' = [i \in Processors |->
               IF active /\ msgQueue[i] = <<>> THEN <<WakeUp>> ELSE msgQueue[i]]
        /\ UNCHANGED <<is_stop, thread, m_stMsgQueue, sent, lastHandled>>
  BY DEF Timers, CheckTimers
<1>2. is_stop = {}
  BY <1>1 DEF LoopInv
<1>3. \A i \in Processors : Due(i) \subseteq Due(i)'
  BY <1>1, DueGrows DEF QueuesInv
<1>4. msgQueue' \in [Processors -> Seq(Message)]
  <2>1. <<WakeUp>> \in Seq(Message)
    BY DEF Message
  <2>2. msgQueue \in [Processors -> Seq(Message)]
    BY DEF QueuesInv
  <2> QED
    BY <1>1, <2>1, <2>2
<1>5. ASSUME NEW i \in Processors
      PROVE  ProcessorInv(i)'
  <2>1. CASE msgQueue'[i] = msgQueue[i]
    BY <2>1, <1>1, <1>3, ProcessorKept
  <2>2. CASE msgQueue[i] = <<>> /\ msgQueue'[i] = <<WakeUp>>
    <3>1. \/ thread'[i] = Popping
          \/ \E m \in Due(i)' : thread'[i] = Handling(m)
      BY <1>1, <1>2, <1>3 DEF QueuesInv, ProcessorInv
    <3>2. WakeUp \in Due(i)' /\ WakeUp \notin Real
      BY RealMessage DEF Due
    <3>3. /\ msgQueue'[i] \in Seq(Due(i)')
          /\ \A k, l \in 1 .. Len(msgQueue'[i]) :
                k < l => Before(msgQueue'[i][k], msgQueue'[i][l])
          /\ \A m : \A k \in 1 .. Len(msgQueue'[i]) : Before(m, msgQueue'[i][k])
      BY <2>2, <3>2 DEF Before
    <3> QED
      BY <3>1, <3>3 DEF ProcessorInv
  <2> QED
    BY <1>1, <2>1, <2>2
<1> QED
  BY <1>1, <1>4, <1>5 DEF QueuesInv

\* Stopping a processor keeps what is said of the queues.
LEMMA StopProcessorQueues ==
  ASSUME QueuesInv, NEW p \in Processors, StopProcessor(p)
  PROVE  QueuesInv'
<1>1. /\ is_stop' = is_stop \cup {p}
      /\ UNCHANGED <<msgQueue, thread, m_stMsgQueue, sent, lastHandled>>
  BY DEF StopProcessor
<1>2. \A i \in Processors : ProcessorInv(i)'
  <2> SUFFICES ASSUME NEW i \in Processors
               PROVE  ProcessorInv(i)'
    OBVIOUS
  <2>1. Due(i) \subseteq Due(i)'
    BY <1>1, DueGrows DEF QueuesInv
  <2> QED
    BY <1>1, <2>1, ProcessorKept
<1> QED
  BY <1>1, <1>2 DEF QueuesInv

\* Taking an answer out of the queue: it is one that was asked for.
LEMMA PopAnswerQueues ==
  ASSUME QueuesInv, iMsgNum \in Nat, iMsgNum <= Len(m_stMsgQueue), PopAnswer
  PROVE  /\ QueuesInv'
         /\ Head(m_stMsgQueue) \in Answers
         /\ iMsgNum' \in Nat /\ iMsgNum' <= Len(m_stMsgQueue')
<1>1. /\ iMsgNum > 0 /\ iMsgNum' = iMsgNum - 1
      /\ m_stMsgQueue' = Tail(m_stMsgQueue)
      /\ UNCHANGED <<msgQueue, is_stop, thread, sent, lastHandled>>
  BY DEF PopAnswer
<1>2. m_stMsgQueue \in Seq(Answers) /\ m_stMsgQueue # <<>>
  BY <1>1, EmptySeq DEF QueuesInv
<1>3. /\ Head(m_stMsgQueue) \in Answers
      /\ Tail(m_stMsgQueue) \in Seq(Answers)
      /\ Len(Tail(m_stMsgQueue)) = Len(m_stMsgQueue) - 1
      /\ Len(m_stMsgQueue) \in Nat
  BY <1>2, HeadTailProperties, LenProperties
<1>4. \A i \in Processors : ProcessorInv(i)'
  <2> SUFFICES ASSUME NEW i \in Processors
               PROVE  ProcessorInv(i)'
    OBVIOUS
  <2>1. Due(i) \subseteq Due(i)'
    BY <1>1, DueGrows DEF QueuesInv
  <2> QED
    BY <1>1, <2>1, ProcessorKept
<1> QED
  BY <1>1, <1>3, <1>4 DEF QueuesInv

\* The first message leaves the queue for the thread, or the thread ends.
LEMMA PopFrontQueues ==
  ASSUME QueuesInv, NEW p \in Processors, PopFront(p)
  PROVE  QueuesInv' /\ UNCHANGED <<is_stop, m_stMsgQueue>>
<1>1. UNCHANGED <<is_stop, m_stMsgQueue, sent, lastHandled>>
  BY DEF PopFront
<1>2. \A i \in Processors : Due(i) \subseteq Due(i)'
  BY <1>1, DueGrows DEF QueuesInv
<1> DEFINE q == msgQueue[p]
<1>3. q \in Seq(Message) /\ q \in Seq(Due(p)) /\ Len(q) \in Nat
  BY LenProperties DEF QueuesInv, ProcessorInv
<1>4. \A k, l \in 1 .. Len(q) : k < l => Before(q[k], q[l])
  BY DEF QueuesInv, ProcessorInv
<1>5. ASSUME q # <<>>,
             thread' = [thread EXCEPT ![p] = Handling(Head(q))],
             msgQueue' = [msgQueue EXCEPT ![p] = Tail(@)]
      PROVE  QueuesInv'
  <2> DEFINE h == Head(q)
             r == Tail(q)
  <2>1. /\ h \in Message /\ h \in Due(p) /\ h = q[1]
        /\ r \in Seq(Message) /\ r \in Seq(Due(p))
        /\ Len(r) = Len(q) - 1
        /\ \A k \in 1 .. Len(r) : r[k] = q[k + 1]
    <3> HIDE DEF q
    <3> QED
      BY <1>3, <1>5, HeadTailProperties
  <2>2. /\ msgQueue' \in [Processors -> Seq(Message)]
        /\ msgQueue'[p] = r
        /\ \A i \in Processors \ {p} : msgQueue'[i] = msgQueue[i]
    BY <1>5, <2>1 DEF QueuesInv
  <2> HIDE DEF r
  <2>3. /\ thread' \in [Processors -> {Popping, Finished}
                           \cup {Handling(m) : m \in Message}]
        /\ thread'[p] = Handling(h)
        /\ \A i \in Processors \ {p} : thread'[i] = thread[i]
    <3> HIDE DEF h
    <3>1. Handling(h) \in {Handling(m) : m \in Message}
      BY <2>1
    <3>2. thread' = [thread EXCEPT ![p] = Handling(h)]
      BY <1>5 DEF h
    <3> QED
      BY <3>1, <3>2 DEF QueuesInv
  <2>4. ProcessorInv(p)'
    <3>1. msgQueue'[p] \in Seq(Due(p)')
      BY <2>1, <2>2, <1>2, SeqMonotonic
    <3>2. \A k \in 1 .. Len(r) : k + 1 \in 1 .. Len(q) /\ r[k] = q[k + 1]
      BY <1>3, <2>1
    <3>3. \A k, l \in 1 .. Len(r) : k < l => Before(r[k], r[l])
      BY <3>2, <1>4
    <3>4. \A k \in 1 .. Len(r) : Before(h, r[k])
      <4> SUFFICES ASSUME NEW k \in 1 .. Len(r)
                   PROVE  Before(h, r[k])
        OBVIOUS
      <4>1. 1 \in 1 .. Len(q) /\ 1 < k + 1
        BY <1>3, <2>1
      <4>2. Before(q[1], q[k + 1])
        BY <4>1, <3>2, <1>4
      <4> QED
        BY <4>2, <3>2, <2>1
    <3>5. h \in Due(p)'
      BY <2>1, <1>2
    <3> HIDE DEF h
    <3> QED
      BY <2>2, <2>3, <3>1, <3>3, <3>4, <3>5 DEF ProcessorInv
  <2>5. \A i \in Processors : ProcessorInv(i)'
    BY <1>1, <1>2, <2>2, <2>3, <2>4, ProcessorKept
  <2> QED
    BY <1>1, <2>2, <2>3, <2>5 DEF QueuesInv
<1>6. ASSUME q = <<>>, p \in is_stop,
             thread' = [thread EXCEPT ![p] = Finished], UNCHANGED msgQueue
      PROVE  QueuesInv'
  <2>1. /\ thread' \in [Processors -> {Popping, Finished}
                           \cup {Handling(m) : m \in Message}]
        /\ thread'[p] = Finished
        /\ \A i \in Processors \ {p} : thread'[i] = thread[i]
    BY <1>6 DEF QueuesInv
  <2>2. ProcessorInv(p)'
    <3>1. msgQueue'[p] \in Seq(Due(p)')
      BY <1>3, <1>6, <1>2, SeqMonotonic
    <3> QED
      BY <3>1, <1>1, <1>4, <1>6, <2>1 DEF ProcessorInv
  <2>3. \A i \in Processors : ProcessorInv(i)'
    BY <1>1, <1>2, <1>6, <2>1, <2>2, ProcessorKept
  <2> QED
    BY <1>1, <1>6, <2>1, <2>3 DEF QueuesInv
<1> QED
  BY <1>1, <1>5, <1>6 DEF PopFront

\* What the thread is handling is due to it, before all that waits.
LEMMA HandledIsDue ==
  ASSUME QueuesInv, NEW p \in Processors, HandleMessage(p)
  PROVE  \E m \in Due(p) :
           /\ thread[p] = Handling(m) /\ thread[p].msg = m
           /\ \A k \in 1 .. Len(msgQueue[p]) : Before(m, msgQueue[p][k])
<1>1. thread[p].at = "handle"
  BY DEF HandleMessage
<1>2. thread[p] # Popping /\ thread[p] # Finished
  BY <1>1 DEF Popping, Finished
<1>3. ProcessorInv(p)
  BY DEF QueuesInv
<1>4. \A m : Handling(m).msg = m
  BY DEF Handling
<1> QED
  BY <1>2, <1>3, <1>4 DEF ProcessorInv

\* A message about a server is handled after all earlier ones, and everything
\* about that server still to come is later.
LEMMA HandleQueues ==
  ASSUME QueuesInv, NEW p \in Processors, HandleMessage(p)
  PROVE  /\ QueuesInv'
         /\ UNCHANGED is_stop
         /\ Len(m_stMsgQueue) <= Len(m_stMsgQueue')
         /\ \A s \in Servers : lastHandled'[s] >= lastHandled[s]
<1> DEFINE q == msgQueue[p]
<1>1. PICK m \in Due(p) :
        /\ thread[p] = Handling(m) /\ thread[p].msg = m
        /\ \A k \in 1 .. Len(q) : Before(m, q[k])
  BY HandledIsDue
<1>2. /\ thread' = [thread EXCEPT ![p] = Popping]
      /\ \/ m_stMsgQueue' = m_stMsgQueue
         \/ /\ m.cmd \in {"heartbeat", "check"}
            /\ m_stMsgQueue' = Append(m_stMsgQueue, m)
      /\ lastHandled' = IF m.cmd = "wake" THEN lastHandled
                        ELSE [lastHandled EXCEPT ![m.m_iServerID] = m.id]
      /\ UNCHANGED <<msgQueue, is_stop, sent>>
  BY <1>1 DEF HandleMessage
<1>3. /\ thread' \in [Processors -> {Popping, Finished}
                         \cup {Handling(n) : n \in Message}]
      /\ thread'[p] = Popping
      /\ \A i \in Processors \ {p} : thread'[i] = thread[i]
  BY <1>2 DEF QueuesInv
<1>4. sent \in Nat /\ MaxMessages \in Nat /\ sent <= MaxMessages
  BY BoundsAssumption DEF QueuesInv
<1>5. CASE m = WakeUp
  <2>1. lastHandled' = lastHandled /\ m_stMsgQueue' = m_stMsgQueue
    BY <1>2, <1>5 DEF WakeUp
  <2>2. \A i \in Processors : Due(i) \subseteq Due(i)'
    BY <1>2, <2>1, <1>4, DueGrows
  <2>3. ProcessorInv(p)'
    <3>1. msgQueue'[p] \in Seq(Due(p)')
      BY <1>2, <2>2, SeqMonotonic DEF QueuesInv, ProcessorInv
    <3> QED
      BY <3>1, <1>2, <1>3 DEF QueuesInv, ProcessorInv
  <2>4. \A i \in Processors : ProcessorInv(i)'
    BY <1>2, <1>3, <2>2, <2>3, ProcessorKept
  <2>5. QueuesInv'
    BY <1>2, <1>3, <2>1, <2>4 DEF QueuesInv
  <2>6. Len(m_stMsgQueue) \in Nat /\ \A s \in Servers : lastHandled[s] \in Nat
    BY <1>4, LenProperties DEF QueuesInv
  <2> QED
    BY <1>2, <2>1, <2>5, <2>6
<1>6. CASE m # WakeUp
  <2> DEFINE t == m.m_iServerID
  <2>1. /\ m \in Real /\ ProcessorOf(m) = p /\ m.id <= sent /\ lastHandled[t] < m.id
    BY <1>1, <1>6 DEF Due
  <2>2. /\ m.cmd # "wake" /\ t \in Servers /\ m.id \in 1 .. MaxMessages
        /\ t % MSG_PROCESSOR_NUM = p
    BY <2>1, RealMessage DEF ProcessorOf
  <2>3. lastHandled' = [lastHandled EXCEPT ![t] = m.id]
    BY <1>2, <2>2
  <2> HIDE DEF t
  <2>4. /\ lastHandled' \in [Servers -> 0 .. MaxMessages]
        /\ lastHandled'[t] = m.id
        /\ \A s \in Servers \ {t} : lastHandled'[s] = lastHandled[s]
    BY <2>2, <2>3 DEF QueuesInv
  <2>5. /\ \A s \in Servers : lastHandled'[s] <= sent'
        /\ \A s \in Servers : lastHandled'[s] >= lastHandled[s]
    <3> SUFFICES ASSUME NEW s \in Servers
                 PROVE  lastHandled'[s] <= sent' /\ lastHandled'[s] >= lastHandled[s]
      OBVIOUS
    <3>1. lastHandled[s] \in Nat /\ lastHandled[s] <= sent
      BY <1>4 DEF QueuesInv
    <3>2. CASE s = t
      BY <3>1, <3>2, <1>2, <2>1, <2>2, <2>4 DEF t
    <3>3. CASE s # t
      BY <3>1, <3>3, <1>2, <2>4
    <3> QED
      BY <3>2, <3>3
  <2>6. \A i \in Processors \ {p} : Due(i) \subseteq Due(i)'
    <3> SUFFICES ASSUME NEW i \in Processors \ {p}
                 PROVE  Due(i) \subseteq Due(i)'
      OBVIOUS
    <3>1. \A s \in Servers : s % MSG_PROCESSOR_NUM = i => lastHandled'[s] = lastHandled[s]
      BY <2>2, <2>4
    <3> QED
      BY <3>1, <1>2, <1>4, DueGrows
  <2>7. ProcessorInv(p)'
    <3>1. q \in Seq(Due(p))
      BY DEF QueuesInv, ProcessorInv
    <3>2. ASSUME NEW k \in 1 .. Len(q)
          PROVE  q[k] \in Due(p)'
      <4>1. PICK n \in Due(p) : n = q[k] /\ Before(m, n)
        BY <3>1, <1>1, ElementOfSeq
      <4>2. CASE n = WakeUp
        BY <4>1, <4>2 DEF Due
      <4>3. CASE n # WakeUp
        <5>1. /\ n \in Real /\ ProcessorOf(n) = p /\ n.id <= sent
              /\ lastHandled[n.m_iServerID] < n.id /\ m.id < n.id
          BY <4>1, <4>3, <2>1 DEF Due, Before
        <5>2. n.m_iServerID \in Servers
          BY <5>1, RealMessage
        <5>3. lastHandled'[n.m_iServerID] < n.id
          BY <5>1, <5>2, <2>4
        <5> QED
          BY <4>1, <5>1, <5>3, <1>2 DEF Due
      <4> QED
        BY <4>2, <4>3
    <3>3. q \in Seq(Due(p)')
      BY <3>1, <3>2, Retyped
    <3> QED
      BY <3>3, <1>2, <1>3 DEF QueuesInv, ProcessorInv
  <2>8. \A i \in Processors : ProcessorInv(i)'
    BY <1>2, <1>3, <2>6, <2>7, ProcessorKept
  <2>9. m_stMsgQueue' \in Seq(Answers) /\ Len(m_stMsgQueue) <= Len(m_stMsgQueue')
    <3>1. m_stMsgQueue \in Seq(Answers) /\ Len(m_stMsgQueue) \in Nat
      BY LenProperties DEF QueuesInv
    <3>2. CASE m \in Answers
      <4>1. /\ Append(m_stMsgQueue, m) \in Seq(Answers)
            /\ Len(Append(m_stMsgQueue, m)) = Len(m_stMsgQueue) + 1
        BY <3>1, <3>2, AppendProperties
      <4> QED
        BY <3>1, <4>1, <1>2
    <3>3. CASE m \notin Answers
      BY <3>1, <3>3, <1>2, <2>1 DEF Answers
    <3> QED
      BY <3>2, <3>3
  <2> QED
    BY <1>2, <1>3, <2>4, <2>5, <2>8, <2>9 DEF QueuesInv
<1> QED
  BY <1>5, <1>6

-----------------------------------------------------------------------------
(***************************************************************************)
(* The steps.  With the invariant, each keeps the promises of the two      *)
(* action properties.                                                      *)
(***************************************************************************)
Fresh ==
  \A fd \in batch' \ {ListenFd} :
     pc = "events" /\ sock'[fd] # NoPeer => sock'[fd] = sock[fd]

Ordered == \A s \in Servers : lastHandled'[s] >= lastHandled[s]

\* A step that handles nothing keeps the order.
LEMMA SameOrder ==
  ASSUME QueuesInv, UNCHANGED lastHandled
  PROVE  Ordered
<1>1. \A s \in Servers : lastHandled[s] \in Nat
  BY BoundsAssumption DEF QueuesInv
<1> QED
  BY <1>1 DEF Ordered

\* Putting a message into a queue handles nothing.
LEMMA DispatchOrder ==
  ASSUME QueuesInv, NEW m, AddMessageQueueProcessor(m)
  PROVE  Ordered /\ UNCHANGED <<is_stop, m_stMsgQueue>>
BY SameOrder DEF AddMessageQueueProcessor

\* The invariant holds initially.
LEMMA InitInv ==
  ASSUME Init
  PROVE  Inv
<1>1. TablesInv
  BY DEF Init, Empty, TablesInv, TablesTyped, ServersTrue, PlayersTrue
<1>2. QueuesInv
  BY BoundsAssumption DEF Init, QueuesInv, ProcessorInv
<1>3. LoopInv
  BY DEF Init, LoopInv
<1> QED
  BY <1>1, <1>2, <1>3 DEF Inv

\* An event that closes no descriptor but its own, and opens none.
LEMMA EventLoop ==
  ASSUME Inv, NEW fd \in Fds, Event(fd), Consumed(fd) \/ UNCHANGED batch,
         \A f \in Fds : sock'[f] = sock[f] \/ (f = fd /\ Consumed(fd) /\ sock'[f] = NoPeer),
         UNCHANGED <<is_stop, m_stMsgQueue>>,
         unanswered' \subseteq Fds \X (1 .. MaxMessages)
  PROVE  LoopInv' /\ Fresh
<1>1. /\ pc = "events" /\ pc' = pc /\ iMsgNum' = iMsgNum
      /\ batch' \subseteq batch /\ (Consumed(fd) => fd \notin batch')
  BY DEF Event, Consumed
<1>2. \A f \in batch' \ {ListenFd} : f \in Fds /\ sock'[f] = sock[f]
  BY <1>1 DEF Inv, LoopInv
<1> QED
  BY <1>1, <1>2 DEF Inv, LoopInv, Fresh

\* Forgetting the requests of closed connections adds none.
LEMMA Forgotten ==
  ASSUME LoopInv, NEW S, Forget(S)
  PROVE  unanswered' \subseteq Fds \X (1 .. MaxMessages)
BY DEF Forget, LoopInv

\* Accepting a connection, the case the last part of LoopInv is for: the new
\* socket is not one that the batch still has an event of.
LEMMA StepAccept ==
  ASSUME Inv, Accept
  PROVE  Inv' /\ Fresh /\ Ordered
<1>1. PICK fd \in Fds :
        /\ sock[fd] = NoPeer
        /\ \/ \E s \in Servers : AddServerConnection(s, fd)
           \/ \E u \in Uins : AddClientConnection(u, fd)
  BY DEF Accept
<1>2. /\ ListenFd \in batch /\ batch' = batch \ {ListenFd}
      /\ pc = "events" /\ UNCHANGED <<pc, iMsgNum, queuing>>
  BY DEF Accept, Event, Consumed
<1>3. fd \notin batch
  BY <1>1, <1>2, FdsAssumption DEF Inv, LoopInv
<1>4. /\ TablesInv'
      /\ \A f \in Fds \ {fd} : sock'[f] \in {sock[f], NoPeer}
      /\ unanswered' \subseteq Fds \X (1 .. MaxMessages)
  <2>1. CASE \E s \in Servers : AddServerConnection(s, fd)
    <3>1. PICK s \in Servers : AddServerConnection(s, fd)
      BY <2>1
    <3>2. TablesInv'
      BY <3>1, <1>1, AcceptServerTables DEF Inv
    <3> DEFINE live == {f \in Repeated(s) : m_astConnectionMap[f].connected}
    <3>3. sock' = [Closed(live) EXCEPT ![fd] = s] /\ Forget(Repeated(s))
      BY <3>1 DEF AddServerConnection
    <3> HIDE DEF live
    <3>4. \A f \in Fds \ {fd} : sock'[f] \in {sock[f], NoPeer}
      BY <3>3, ClosedSockets DEF Inv, TablesInv
    <3> QED
      BY <3>2, <3>3, <3>4, Forgotten DEF Inv
  <2>2. CASE \E u \in Uins : AddClientConnection(u, fd)
    <3>1. PICK u \in Uins : AddClientConnection(u, fd)
      BY <2>2
    <3>2. TablesInv'
      BY <3>1, <1>1, AcceptClientTables DEF Inv
    <3>3. sock' = [sock EXCEPT ![fd] = u] /\ unanswered' = unanswered
      BY <3>1 DEF AddClientConnection
    <3> QED
      BY <3>2, <3>3 DEF Inv, LoopInv, TablesInv, TablesTyped
  <2> QED
    BY <1>1, <2>1, <2>2
<1>5. QueuesInv' /\ Ordered
  BY <1>2, UnchangedQueues, SameOrder DEF Inv, queuing
<1>6. \A f \in batch' \ {ListenFd} : f \in Fds /\ f # fd
  BY <1>2, <1>3 DEF Inv, LoopInv
<1>7. LoopInv'
  BY <1>2, <1>4 DEF Inv, LoopInv, queuing
<1>8. Fresh
  BY <1>4, <1>6 DEF Fresh
<1> QED
  BY <1>4, <1>5, <1>7, <1>8 DEF Inv

\* A connection that is refused leaves no trace.
LEMMA StepRefuse ==
  ASSUME Inv, Refuse
  PROVE  Inv' /\ Fresh /\ Ordered
<1>1. /\ pc = "events" /\ batch' = batch \ {ListenFd}
      /\ UNCHANGED <<sock, tables, pc, iMsgNum, queuing, unanswered>>
  BY DEF Refuse, Event, Consumed
<1>2. TablesInv' /\ QueuesInv' /\ Ordered
  BY <1>1, UnchangedTables, UnchangedQueues, SameOrder DEF Inv, queuing
<1>3. LoopInv' /\ Fresh
  BY <1>1 DEF Inv, LoopInv, Fresh, queuing
<1> QED
  BY <1>2, <1>3 DEF Inv

\* An error event.
LEMMA StepSocketError ==
  ASSUME Inv, NEW fd \in Fds, SocketError(fd)
  PROVE  Inv' /\ Fresh /\ Ordered
<1>1. /\ Event(fd) /\ Consumed(fd) /\ Forget({fd}) /\ UNCHANGED queuing
      /\ sock' = sock \/ sock' = Closed({fd})
  BY DEF SocketError
<1>2. TablesInv' /\ QueuesInv' /\ Ordered
  BY <1>1, SocketErrorTables, UnchangedQueues, SameOrder DEF Inv, queuing
<1>3. \A f \in Fds : sock'[f] = sock[f] \/ (f = fd /\ sock'[f] = NoPeer)
  BY <1>1, ClosedSockets DEF Inv, TablesInv
<1>4. LoopInv' /\ Fresh
  BY <1>1, <1>3, EventLoop, Forgotten DEF Inv, queuing
<1> QED
  BY <1>2, <1>4 DEF Inv

\* The event of a game server's connection that is gone.
LEMMA StepServerGone ==
  ASSUME Inv, NEW fd \in Fds, ServerGone(fd)
  PROVE  Inv' /\ Fresh /\ Ordered
<1>1. /\ Event(fd) /\ Consumed(fd) /\ Forget({fd}) /\ UNCHANGED queuing
      /\ sock' = sock \/ sock' = Closed({fd})
  BY DEF ServerGone, ClearServerConnection
<1>2. TablesInv' /\ QueuesInv' /\ Ordered
  BY <1>1, ServerGoneTables, UnchangedQueues, SameOrder DEF Inv, queuing
<1>3. \A f \in Fds : sock'[f] = sock[f] \/ (f = fd /\ sock'[f] = NoPeer)
  BY <1>1, ClosedSockets DEF Inv, TablesInv
<1>4. LoopInv' /\ Fresh
  BY <1>1, <1>3, EventLoop, Forgotten DEF Inv, queuing
<1> QED
  BY <1>2, <1>4 DEF Inv

\* The event of a player's connection that is gone or refused.
LEMMA StepClientGone ==
  ASSUME Inv, NEW fd \in Fds, ClientGone(fd)
  PROVE  Inv' /\ Fresh /\ Ordered
<1>1. /\ Event(fd) /\ Consumed(fd) /\ Forget({fd}) /\ UNCHANGED queuing
      /\ fd \in DOMAIN m_stClientConMap /\ ClearClientSocket(fd)
  BY DEF ClientGone, IsClient
<1>2. TablesInv' /\ QueuesInv' /\ Ordered
  BY <1>1, ClientGoneTables, UnchangedQueues, SameOrder DEF Inv, queuing
<1>3. \A f \in Fds : sock'[f] = sock[f] \/ (f = fd /\ sock'[f] = NoPeer)
  BY <1>1, ClosedSockets DEF Inv, TablesInv, ClearClientSocket
<1>4. LoopInv' /\ Fresh
  BY <1>1, <1>3, EventLoop, Forgotten DEF Inv, queuing
<1> QED
  BY <1>2, <1>4 DEF Inv

\* An event after which the main thread changes nothing.
LEMMA StepNothingToDo ==
  ASSUME Inv, NEW fd \in Fds, NothingToDo(fd)
  PROVE  Inv' /\ Fresh /\ Ordered
<1>1. /\ Event(fd) /\ Consumed(fd)
      /\ UNCHANGED <<sock, tables, queuing, unanswered>>
  BY DEF NothingToDo
<1>2. TablesInv' /\ QueuesInv' /\ Ordered
  BY <1>1, UnchangedTables, UnchangedQueues, SameOrder DEF Inv, queuing
<1>3. LoopInv' /\ Fresh
  BY <1>1, EventLoop DEF Inv, LoopInv, queuing
<1> QED
  BY <1>2, <1>3 DEF Inv

\* A notice or a check from a game server.
LEMMA StepServerPacket ==
  ASSUME Inv, NEW fd \in Fds, NEW cmd \in {"notify", "check"},
         ServerPacket(fd, cmd)
  PROVE  Inv' /\ Fresh /\ Ordered
<1> DEFINE m == [cmd |-> cmd, m_iFd |-> fd, id |-> sent + 1,
                 m_iServerID |-> m_astConnectionMap[fd].m_iEntityId]
<1>1. /\ Event(fd) /\ (Consumed(fd) \/ UNCHANGED batch)
      /\ fd \in DOMAIN m_astConnectionMap
      /\ AddMessageQueueProcessor(m)
      /\ UNCHANGED <<sock, tables>>
  BY DEF ServerPacket, IsServer
<1>2. m \in Real /\ m.id = sent + 1
  <2>1. m_astConnectionMap[fd].m_iEntityId \in Servers
    BY <1>1 DEF Inv, TablesInv, TablesTyped, Connection
  <2>2. sent + 1 \in 1 .. MaxMessages
    BY <1>1, BoundsAssumption DEF AddMessageQueueProcessor, Inv, QueuesInv
  <2> QED
    BY <2>1, <2>2 DEF Real, ServerMessage
<1> HIDE DEF m
<1>3. pc = "events"
  BY <1>1 DEF Event
<1>4. TablesInv'
  BY <1>1, UnchangedTables DEF Inv
<1>5. /\ QueuesInv' /\ UNCHANGED <<is_stop, m_stMsgQueue>> /\ Ordered
      /\ unanswered' \subseteq Fds \X (1 .. MaxMessages)
  BY <1>1, <1>2, <1>3, DispatchQueues, DispatchOrder DEF Inv
<1>6. LoopInv' /\ Fresh
  BY <1>1, <1>5, EventLoop
<1> QED
  BY <1>4, <1>5, <1>6 DEF Inv

\* A player's heartbeat that is dispatched.
LEMMA StepClientPacket ==
  ASSUME Inv, NEW fd \in Fds, NEW g \in Groups, ClientPacket(fd, g)
  PROVE  Inv' /\ Fresh /\ Ordered
<1> DEFINE m == [cmd |-> "heartbeat", m_iServerID |-> MergeTo[g], m_iFd |-> fd,
                 m_iUin |-> m_stClientConMap'[fd].m_uin, m_iGroupID |-> g,
                 id |-> sent + 1]
<1>1. /\ Event(fd) /\ (Consumed(fd) \/ UNCHANGED batch)
      /\ fd \in DOMAIN m_stClientConMap
      /\ MergeTo[g] \in Servers
      /\ Accepted(fd, g)
      /\ AddMessageQueueProcessor(m)
  BY DEF ClientPacket, IsClient
<1>2. /\ TablesInv'
      /\ m_stClientConMap'[fd].m_uin \in Uins
      /\ UNCHANGED sock
  BY <1>1, AcceptedTables, Apart DEF Inv, Accepted
<1>3. m \in Real /\ m.id = sent + 1
  <2>1. sent + 1 \in 1 .. MaxMessages
    BY <1>1, BoundsAssumption DEF AddMessageQueueProcessor, Inv, QueuesInv
  <2> QED
    BY <2>1, <1>1, <1>2 DEF Real, ClientMessage
<1>4. pc = "events"
  BY <1>1 DEF Event
<1> HIDE DEF m
<1>5. /\ QueuesInv' /\ UNCHANGED <<is_stop, m_stMsgQueue>> /\ Ordered
      /\ unanswered' \subseteq Fds \X (1 .. MaxMessages)
  BY <1>1, <1>3, <1>4, DispatchQueues, DispatchOrder DEF Inv
<1>6. LoopInv' /\ Fresh
  BY <1>1, <1>2, <1>5, EventLoop
<1> QED
  BY <1>2, <1>5, <1>6 DEF Inv

\* A player's packet that is not dispatched.
LEMMA StepClientPacketOnly ==
  ASSUME Inv, NEW fd \in Fds, NEW g \in Groups, ClientPacketOnly(fd, g)
  PROVE  Inv' /\ Fresh /\ Ordered
<1>1. /\ Event(fd) /\ Consumed(fd)
      /\ fd \in DOMAIN m_stClientConMap
      /\ Accepted(fd, g)
      /\ UNCHANGED <<queuing, unanswered>>
  BY DEF ClientPacketOnly, IsClient
<1>2. TablesInv' /\ UNCHANGED sock /\ QueuesInv' /\ Ordered
  BY <1>1, AcceptedTables, UnchangedQueues, SameOrder DEF Inv, Accepted, queuing
<1>3. LoopInv' /\ Fresh
  BY <1>1, <1>2, EventLoop DEF Inv, LoopInv, queuing
<1> QED
  BY <1>2, <1>3 DEF Inv

\* The steps of the loop that touch no table and no queue.
LEMMA StepLoop ==
  ASSUME Inv,
         CheckServerContext \/ EpollWait \/ BeginSend \/ EndSend \/ AllStopped
  PROVE  Inv' /\ Fresh /\ Ordered
<1>1. UNCHANGED <<sock, tables, queuing, unanswered>>
  BY DEF CheckServerContext, EpollWait, BeginSend, EndSend, AllStopped
<1>2. TablesInv' /\ QueuesInv' /\ Ordered
  BY <1>1, UnchangedTables, UnchangedQueues, SameOrder DEF Inv, queuing
<1>3. Fresh
  BY <1>1 DEF Fresh
<1>4. LoopInv'
  <2>1. UNCHANGED <<m_stMsgQueue, is_stop, sock, unanswered>>
    BY <1>1 DEF queuing
  <2>2. Len(m_stMsgQueue) \in Nat
    BY LenProperties DEF Inv, QueuesInv
  <2>3. CASE CheckServerContext
    BY <2>1, <2>3 DEF CheckServerContext, Inv, LoopInv
  <2>4. CASE EpollWait
    BY <2>1, <2>4, FdsAssumption DEF EpollWait, Inv, LoopInv
  <2>5. CASE BeginSend
    BY <2>1, <2>2, <2>5 DEF BeginSend, Inv, LoopInv
  <2>6. CASE EndSend
    BY <2>1, <2>6 DEF EndSend, Inv, LoopInv
  <2>7. CASE AllStopped
    BY <2>1, <2>7 DEF AllStopped, Inv, LoopInv
  <2> QED
    BY <2>3, <2>4, <2>5, <2>6, <2>7
<1> QED
  BY <1>2, <1>3, <1>4 DEF Inv

\* The time-outs and the wake-ups of the processors.
LEMMA StepTimers ==
  ASSUME Inv, Timers
  PROVE  Inv' /\ Fresh /\ Ordered
<1>1. PICK active \in BOOLEAN, silent \in SUBSET DOMAIN m_astConnectionMap,
           idle \in SUBSET DOMAIN m_stClientConMap :
             CheckTimers(active, silent, idle)
  BY DEF Timers
<1>2. /\ pc = "timers" /\ pc' = "wait" /\ Forget(silent \cup idle)
      /\ UNCHANGED <<batch, iMsgNum, is_stop, m_stMsgQueue, lastHandled>>
  BY <1>1 DEF CheckTimers
<1>3. TablesInv' /\ QueuesInv' /\ Ordered
  BY <1>2, TimersTables, TimersQueues, SameOrder DEF Inv
<1>4. LoopInv' /\ Fresh
  BY <1>2, Forgotten DEF Inv, LoopInv, Fresh
<1> QED
  BY <1>3, <1>4 DEF Inv

\* An answer is dropped, written, refused, or cannot be written.
LEMMA StepAnswer ==
  ASSUME Inv, DropAnswer \/ WriteAnswer \/ WriteRefused \/ WriteFails
  PROVE  Inv' /\ Fresh /\ Ordered
<1>1. /\ PopAnswer
      /\ pc = "send" /\ pc' = pc
      /\ UNCHANGED <<batch, is_stop, lastHandled>>
  BY DEF DropAnswer, WriteAnswer, WriteRefused, WriteFails, PopAnswer
<1>2. /\ iMsgNum \in Nat /\ iMsgNum <= Len(m_stMsgQueue)
      /\ m_stMsgQueue \in Seq(Answers)
  BY DEF Inv, LoopInv, QueuesInv
<1>3. /\ QueuesInv' /\ Ordered
      /\ iMsgNum' \in Nat /\ iMsgNum' <= Len(m_stMsgQueue')
  BY <1>1, <1>2, PopAnswerQueues, SameOrder DEF Inv
<1>4. TablesInv'
  BY <1>2, UnchangedTables, WriteFailsTables
     DEF Inv, DropAnswer, WriteAnswer, WriteRefused
<1>5. unanswered' \subseteq Fds \X (1 .. MaxMessages)
  <2>1. CASE DropAnswer
    BY <2>1 DEF DropAnswer, Inv, LoopInv
  <2>2. CASE WriteAnswer
    BY <2>2 DEF WriteAnswer, Inv, LoopInv
  <2>3. CASE WriteRefused
    BY <2>3 DEF WriteRefused, Inv, LoopInv
  <2>4. CASE WriteFails
    BY <2>4, Forgotten DEF WriteFails, Inv
  <2> QED
    BY <2>1, <2>2, <2>3, <2>4
<1>6. LoopInv' /\ Fresh
  BY <1>1, <1>3, <1>5 DEF Inv, LoopInv, Fresh
<1> QED
  BY <1>3, <1>4, <1>6 DEF Inv

\* The end of one processor.
LEMMA StepStopProcessor ==
  ASSUME Inv, NEW i \in Processors, StopProcessor(i)
  PROVE  Inv' /\ Fresh /\ Ordered
<1>1. /\ pc = "stop" /\ is_stop' = is_stop \cup {i}
      /\ UNCHANGED <<sock, tables, batch, pc, iMsgNum, m_stMsgQueue,
                     lastHandled, unanswered>>
  BY DEF StopProcessor
<1>2. TablesInv' /\ QueuesInv' /\ Ordered
  BY <1>1, UnchangedTables, StopProcessorQueues, SameOrder DEF Inv
<1>3. LoopInv' /\ Fresh
  BY <1>1 DEF Inv, LoopInv, Fresh
<1> QED
  BY <1>2, <1>3 DEF Inv

\* The two steps of a processor's thread.
LEMMA StepProcessor ==
  ASSUME Inv, NEW i \in Processors, Processor(i)
  PROVE  Inv' /\ Fresh /\ Ordered
<1>1. UNCHANGED <<sock, tables, batch, pc, iMsgNum, unanswered>>
  BY DEF Processor
<1>2. TablesInv' /\ Fresh
  BY <1>1, UnchangedTables DEF Inv, Fresh
<1>3. /\ QueuesInv' /\ Ordered /\ UNCHANGED is_stop
      /\ Len(m_stMsgQueue) <= Len(m_stMsgQueue')
  <2>1. CASE PopFront(i)
    <3>1. UNCHANGED <<m_stMsgQueue, lastHandled>> /\ Len(m_stMsgQueue) \in Nat
      BY <2>1, LenProperties DEF PopFront, Inv, QueuesInv
    <3> QED
      BY <2>1, <3>1, PopFrontQueues, SameOrder DEF Inv
  <2>2. CASE HandleMessage(i)
    BY <2>2, HandleQueues DEF Inv, Ordered
  <2> QED
    BY <2>1, <2>2 DEF Processor
<1>4. LoopInv'
  <2>1. Len(m_stMsgQueue) \in Nat /\ Len(m_stMsgQueue') \in Nat
    BY <1>3, LenProperties DEF Inv, QueuesInv
  <2> QED
    BY <1>1, <1>3, <2>1 DEF Inv, LoopInv
<1> QED
  BY <1>2, <1>3, <1>4 DEF Inv

\* Every step keeps the invariant, and does not break the order or take a new
\* connection for an old one.
LEMMA NextInv ==
  ASSUME Inv, [Next]_vars
  PROVE  Inv' /\ Fresh /\ Ordered
<1>1. CASE UNCHANGED vars
  <2>1. UNCHANGED <<sock, tables, batch, pc, iMsgNum, queuing, unanswered>>
    BY <1>1 DEF vars
  <2>2. TablesInv' /\ QueuesInv' /\ Ordered
    BY <2>1, UnchangedTables, UnchangedQueues, SameOrder DEF Inv, queuing
  <2>3. LoopInv' /\ Fresh
    BY <2>1 DEF Inv, LoopInv, Fresh, queuing
  <2> QED
    BY <2>2, <2>3 DEF Inv
<1>2. CASE DispatchMessage
  <2>1. CASE Accept \/ Refuse
    BY <2>1, StepAccept, StepRefuse
  <2>2. ASSUME NEW fd \in Fds,
               SocketError(fd) \/ ServerGone(fd) \/ ClientGone(fd) \/ NothingToDo(fd)
        PROVE  Inv' /\ Fresh /\ Ordered
    BY <2>2, StepSocketError, StepServerGone, StepClientGone, StepNothingToDo
  <2>3. ASSUME NEW fd \in Fds, NEW cmd \in {"notify", "check"}, ServerPacket(fd, cmd)
        PROVE  Inv' /\ Fresh /\ Ordered
    BY <2>3, StepServerPacket
  <2>4. ASSUME NEW fd \in Fds, NEW g \in Groups,
               ClientPacket(fd, g) \/ ClientPacketOnly(fd, g)
        PROVE  Inv' /\ Fresh /\ Ordered
    BY <2>4, StepClientPacket, StepClientPacketOnly
  <2> QED
    BY <1>2, <2>1, <2>2, <2>3, <2>4 DEF DispatchMessage
<1>3. CASE CheckServerContext \/ Timers \/ EpollWait
  BY <1>3, StepLoop, StepTimers
<1>4. CASE SendClientMsg
  BY <1>4, StepLoop, StepAnswer DEF SendClientMsg
<1>5. CASE After_Run
  BY <1>5, StepLoop, StepStopProcessor DEF After_Run
<1>6. CASE \E i \in Processors : Processor(i)
  BY <1>6, StepProcessor
<1> QED
  BY <1>1, <1>2, <1>3, <1>4, <1>5, <1>6 DEF Next, Main, Terminated

\* What is lost is the answer to a message that was dispatched.
LEMMA NextLosses ==
  ASSUME Inv, LossesTyped, [Next]_vars
  PROVE  LossesTyped'
<1>1. CASE DropAnswer \/ WriteRefused
  <2>1. Head(m_stMsgQueue) \in Answers
    BY <1>1, PopAnswerQueues DEF DropAnswer, WriteRefused, Inv, LoopInv
  <2>2. Head(m_stMsgQueue).id \in 1 .. MaxMessages
    BY <2>1, RealMessage DEF Answers
  <2> QED
    BY <1>1, <2>2 DEF DropAnswer, WriteRefused, Loses, LossesTyped
<1>2. ASSUME NEW i \in Processors, HandleMessage(i)
      PROVE  LossesTyped'
  <2>1. PICK m \in Due(i) : thread[i].msg = m
    BY <1>2, HandledIsDue DEF Inv
  <2>2. lost' = lost \/ (m.cmd \in {"heartbeat", "check"} /\ Loses(m))
    BY <1>2, <2>1 DEF HandleMessage
  <2>3. m.cmd \in {"heartbeat", "check"} => m.id \in 1 .. MaxMessages
    BY RealMessage DEF Due, WakeUp
  <2> QED
    BY <2>2, <2>3 DEF Loses, LossesTyped
<1>3. CASE UNCHANGED lost
  BY <1>3 DEF LossesTyped
<1>4. \/ DropAnswer \/ WriteRefused
      \/ \E i \in Processors : HandleMessage(i)
      \/ UNCHANGED lost
  <2>1. DispatchMessage => UNCHANGED lost
    <3>1. Accept \/ Refuse => UNCHANGED lost
      BY DEF Accept, Refuse, queuing
    <3>2. ASSUME NEW fd \in Fds
          PROVE  /\ SocketError(fd) \/ ServerGone(fd) => UNCHANGED lost
                 /\ ClientGone(fd) \/ NothingToDo(fd) => UNCHANGED lost
      BY DEF SocketError, ServerGone, ClientGone, NothingToDo, queuing,
             AddMessageQueueProcessor
    <3>3. ASSUME NEW fd \in Fds, NEW cmd \in {"notify", "check"}
          PROVE  ServerPacket(fd, cmd) => UNCHANGED lost
      BY DEF ServerPacket, AddMessageQueueProcessor, queuing
    <3>4. ASSUME NEW fd \in Fds, NEW g \in Groups
          PROVE  ClientPacket(fd, g) \/ ClientPacketOnly(fd, g) => UNCHANGED lost
      BY DEF ClientPacket, ClientPacketOnly, AddMessageQueueProcessor, queuing
    <3> QED
      BY <3>1, <3>2, <3>3, <3>4 DEF DispatchMessage
  <2>2. SendClientMsg => DropAnswer \/ WriteRefused \/ UNCHANGED lost
    BY DEF SendClientMsg, BeginSend, WriteAnswer, WriteFails, EndSend, queuing
  <2>3. ASSUME NEW i \in Processors, Processor(i)
        PROVE  HandleMessage(i) \/ UNCHANGED lost
    BY <2>3 DEF Processor, PopFront
  <2>4. CheckServerContext \/ Timers \/ EpollWait \/ After_Run => UNCHANGED lost
    BY DEF CheckServerContext, Timers, CheckTimers, EpollWait, After_Run,
           StopProcessor, AllStopped, queuing
  <2> QED
    BY <2>1, <2>2, <2>3, <2>4 DEF Next, Main, Terminated, vars, queuing
<1> QED
  BY <1>1, <1>2, <1>3, <1>4

-----------------------------------------------------------------------------
(***************************************************************************)
(* The theorems.                                                           *)
(***************************************************************************)

\* The inductive invariant holds in every reachable state.
THEOREM Invariant == Spec => []Inv
BY InitInv, NextInv, PTL DEF Spec

\* The history keeps its type.
LEMMA LossesInvariant == Spec => []LossesTyped
<1>1. Init => LossesTyped
  BY DEF Init, LossesTyped
<1> QED
  BY <1>1, NextLosses, Invariant, PTL DEF Spec

\* What the invariant says of types.
LEMMA InvTypeOK == Inv /\ LossesTyped => TypeOK
<1> SUFFICES ASSUME Inv, LossesTyped PROVE TypeOK
  OBVIOUS
<1>1. /\ sock \in [Fds -> Servers \cup Uins \cup {NoPeer}]
      /\ DOMAIN m_astConnectionMap \subseteq Fds
      /\ Range(m_astConnectionMap) \subseteq Connection
      /\ DOMAIN m_stClientConMap \subseteq Fds
      /\ Range(m_stClientConMap) \subseteq TSocketInfo
      /\ DOMAIN m_stServerIDToFd \subseteq Servers
      /\ Range(m_stServerIDToFd) \subseteq Fds
  BY DEF Inv, TablesInv, TablesTyped, Range
<1>2. \A i \in Processors : Range(msgQueue[i]) \subseteq Message
  <2> SUFFICES ASSUME NEW i \in Processors
               PROVE  Range(msgQueue[i]) \subseteq Message
    OBVIOUS
  <2>1. msgQueue[i] \in Seq(Message)
    BY DEF Inv, QueuesInv
  <2> QED
    BY <2>1, LenProperties DEF Range
<1>3. Range(m_stMsgQueue) \subseteq ServerMessage \cup ClientMessage
  BY LenProperties DEF Inv, QueuesInv, Range, Answers, Real
<1>4. \A i \in Processors : \/ thread[i] \in {Popping, Finished}
                            \/ \E m \in Message : thread[i] = Handling(m)
  BY DEF Inv, QueuesInv
<1> QED
  BY <1>1, <1>2, <1>3, <1>4 DEF Inv, QueuesInv, LoopInv, LossesTyped, TypeOK

\* Every variable keeps its type: no table holds an entry that is not one of
\* the code's, and no thread handles what is not a message.
THEOREM TypeCorrect == Spec => []TypeOK
BY Invariant, LossesInvariant, InvTypeOK, PTL

\* What the invariant says of tables and sockets.
LEMMA InvTables == Inv => TablesMatchSockets
<1> SUFFICES ASSUME Inv PROVE TablesMatchSockets
  OBVIOUS
<1>1. \A fd \in DOMAIN m_astConnectionMap :
         m_astConnectionMap[fd].connected =>
             /\ sock[fd] = m_astConnectionMap[fd].m_iEntityId
             /\ fd \notin DOMAIN m_stClientConMap
  BY Apart DEF Inv, TablesInv, ServersTrue, Connected, IsServer
<1>2. \A fd \in DOMAIN m_stClientConMap :
         /\ m_stClientConMap[fd].recved => sock[fd] = m_stClientConMap[fd].m_uin
         /\ sock[fd] \in Uins
  BY DEF Inv, TablesInv, PlayersTrue
<1>3. \A f, g \in DOMAIN m_astConnectionMap :
         /\ m_astConnectionMap[f].connected /\ m_astConnectionMap[g].connected
         /\ m_astConnectionMap[f].m_iEntityId = m_astConnectionMap[g].m_iEntityId
         => f = g
  BY DEF Inv, TablesInv, ServersTrue
<1> QED
  BY <1>1, <1>2, <1>3 DEF TablesMatchSockets

\* The tables of connections tell the truth about the sockets, and no game
\* server has two live connections, however many descriptors, servers and
\* players there are and however often a descriptor is used again.
THEOREM TablesAgree == Spec => []TablesMatchSockets
BY Invariant, InvTables, PTL

\* What the invariant says of the answers that were sent.
LEMMA InvAnswers == Inv => AnswersReachAsker
<1> SUFFICES ASSUME Inv, NEW m \in Range(m_stMsgQueue), Deliverable(m)
             PROVE  \/ sock[m.m_iFd] = IF m.cmd = "heartbeat" THEN m.m_iUin
                                       ELSE m.m_iServerID
                    \/ m.cmd = "check" /\ ~m_astConnectionMap[m.m_iFd].connected
  BY DEF AnswersReachAsker
<1>1. m \in ServerMessage \cup ClientMessage /\ m.cmd # "notify"
  BY LenProperties DEF Inv, QueuesInv, Range, Answers, Real
<1>2. CASE m.cmd = "heartbeat"
  <2>1. m.m_iUin \in Uins
    BY <1>1, <1>2 DEF ServerMessage, ClientMessage
  <2>2. /\ m.m_iFd \in DOMAIN m_stClientConMap
        /\ m_stClientConMap[m.m_iFd].m_uin = m.m_iUin
    BY <1>2 DEF Deliverable
  <2>3. m_stClientConMap[m.m_iFd].recved
    BY <2>1, <2>2, PeersAssumption DEF Inv, TablesInv, TablesTyped, TSocketInfo
  <2> QED
    BY <1>2, <2>2, <2>3 DEF Inv, TablesInv, PlayersTrue
<1>3. CASE m.cmd # "heartbeat"
  <2>1. m.cmd = "check"
    BY <1>1, <1>3 DEF ServerMessage, ClientMessage
  <2> QED
    BY <1>3, <2>1 DEF Deliverable, Inv, TablesInv, ServersTrue
<1> QED
  BY <1>2, <1>3

\* An answer that passes the checks of SendClientMsg goes to the player or the
\* server that asked, though perhaps on a later connection of his, however
\* often the descriptor in it has been closed and used again.
THEOREM AnswersReach == Spec => []AnswersReachAsker
BY Invariant, InvAnswers, PTL

\* What the invariant says of a processor that has ended.
LEMMA InvStop == Inv => NothingLostAtStop
<1> SUFFICES ASSUME Inv, NEW i \in Processors, thread[i] = Finished
             PROVE  msgQueue[i] = <<>>
  BY DEF NothingLostAtStop
<1>1. ProcessorInv(i)
  BY DEF Inv, QueuesInv
<1>2. Finished # Popping /\ \A m : Finished # Handling(m)
  <2>1. /\ Finished.at = "finished" /\ Popping.at = "pop"
        /\ \A m : Handling(m).at = "handle"
    BY DEF Finished, Popping, Handling
  <2> QED
    BY <2>1
<1> QED
  BY <1>1, <1>2 DEF ProcessorInv

\* A processor thread that has ended has an empty queue, for ever.
THEOREM NothingLost == Spec => []NothingLostAtStop
BY Invariant, InvStop, PTL

\* An event is never handled for a connection that was accepted after the
\* event was reported.
THEOREM EventsFresh == Spec => NoStaleEvent
<1>1. Inv /\ [Next]_vars => [Fresh]_vars
  BY NextInv
<1> QED
  BY <1>1, Invariant, PTL DEF Spec, NoStaleEvent, Fresh

\* The messages about one game server are handled in the order of dispatch,
\* for any number of processor threads.
THEOREM InOrder == Spec => HandledInOrder
<1>1. Inv /\ [Next]_vars => [Ordered]_vars
  BY NextInv
<1> QED
  BY <1>1, Invariant, PTL DEF Spec, HandledInOrder, Ordered

=============================================================================
