---------------------------- MODULE QueueServer ----------------------------
(***************************************************************************)
(* The process around the login queues (server/queue_server): the main     *)
(* thread of CQueueGameControl, its tables of connections, and the message *)
(* processor threads.  The main thread reads the sockets, turns packets    *)
(* into messages for the processors and writes the processors' answers;    *)
(* what a processor does with a message is the subject of LoginQueue.      *)
(*                                                                         *)
(* A socket is reached through its file descriptor, in the tables and in   *)
(* the messages alike, and the kernel hands a closed descriptor out again: *)
(* every place that keeps one may come to hold somebody else's.            *)
(*                                                                         *)
(* The peers are free to connect, to send and to fail at any time.  A peer *)
(* is a game server or a player; sock is the truth about who is at the     *)
(* other end of a descriptor.                                              *)
(***************************************************************************)
EXTENDS Integers, Sequences, FiniteSets, Functions

CONSTANTS
    Fds,                \* the descriptors the kernel can give to a connection
    ListenFd,           \* the descriptor of m_stListenSocket
    Servers,            \* the ids of the game servers
    Uins,               \* the players
    MergeTo,            \* GetServerIDByGroupID: group -> its server, or -1
    NoPeer,             \* what sock says of a closed descriptor
    NoUin,              \* m_uin of a connection that has not signed in
    MSG_PROCESSOR_NUM,
    MaxMessages         \* bound of the model: messages dispatched in a run

Groups == DOMAIN MergeTo
Processors == 0 .. MSG_PROCESSOR_NUM - 1

ASSUME FdsAssumption == ListenFd \notin Fds
ASSUME PeersAssumption ==
    /\ Servers \subseteq Nat \ {0}
    /\ Servers \cap Uins = {}
    /\ NoPeer \notin Servers \cup Uins
    /\ NoUin \notin Uins
ASSUME MergeToAssumption ==
    Servers \subseteq Groups /\ MergeTo \in [Groups -> Servers \cup {-1}]
ASSUME BoundsAssumption ==
    MSG_PROCESSOR_NUM \in Nat \ {0} /\ MaxMessages \in Nat

VARIABLES
    sock,               \* descriptor -> the peer, NoPeer when it is closed
    m_astConnectionMap, \* descriptor -> the connection of a game server
    m_stClientConMap,   \* descriptor -> the connection of a player
    m_stServerIDToFd,   \* server -> the descriptor of its last connection
    batch,              \* the descriptors of the epoll events still to handle
    pc,                 \* where the main thread is
    iMsgNum,            \* answers still to write in this round of SendClientMsg
    msgQueue,           \* processor -> its blocking queue
    is_stop,            \* the processors whose queue has been stopped
    thread,             \* processor -> where its thread is
    m_stMsgQueue,       \* the answers for the main thread to write
    sent,               \* how many messages have been dispatched
    lastHandled,        \* server -> the last message about it handled
    lost,               \* history: the requests whose answer has been lost
    unanswered          \* history: requests of open connections, not answered

tables == <<m_astConnectionMap, m_stClientConMap, m_stServerIDToFd>>
queuing == <<msgQueue, is_stop, thread, m_stMsgQueue, sent, lastHandled, lost>>
vars == <<sock, tables, batch, pc, iMsgNum, queuing, unanswered>>

-----------------------------------------------------------------------------

\* CTCPConnectionHandle: a failed send closes the socket and leaves the
\* entry, which is then not connected.
Connection == [m_iEntityId : Servers, connected : BOOLEAN]

\* TSocketInfo.  Until the first valid packet m_uin and m_iGroupID are unset.
TSocketInfo ==
    [m_uin : {NoUin}, m_iGroupID : {0}, recved : {FALSE}]
        \cup [m_uin : Uins, m_iGroupID : Groups, recved : {TRUE}]

NewClient == [m_uin |-> NoUin, m_iGroupID |-> 0, recved |-> FALSE]

\* TQueueMsgData: a heartbeat comes from a player, the others from a game
\* server; only a heartbeat and a reconnect check are answered.  The id, in
\* the order of dispatch, is not part of the code's messages.
ServerMessage == [cmd : {"notify", "check"}, m_iServerID : Servers,
                  m_iFd : Fds, id : 1 .. MaxMessages]
ClientMessage == [cmd : {"heartbeat"}, m_iServerID : Servers, m_iFd : Fds,
                  m_iUin : Uins, m_iGroupID : Groups, id : 1 .. MaxMessages]
WakeUp == [cmd |-> "wake"]
Message == ServerMessage \cup ClientMessage \cup {WakeUp}

Popping == [at |-> "pop"]
Finished == [at |-> "finished"]
Handling(m) == [at |-> "handle", msg |-> m]

Erase(f, S) == Restrict(f, DOMAIN f \ S)
Assign(f, x, v) == [y \in DOMAIN f \cup {x} |-> IF y = x THEN v ELSE f[y]]

Closed(S) == [fd \in Fds |-> IF fd \in S THEN NoPeer ELSE sock[fd]]

\* Nobody waits for an answer on a connection that has left the tables.
Forget(S) == unanswered' = {r \in unanswered : r[1] \notin S}

\* Mutant of ProcessorOf: the players' messages have a thread of their own.
ProcessorOfMutant(m) ==
    IF m.cmd = "heartbeat" THEN 0 ELSE m.m_iServerID % MSG_PROCESSOR_NUM

\* AddMessageQueueProcessor: one processor serves all players of a server.
ProcessorOf(m) == m.m_iServerID % MSG_PROCESSOR_NUM

AddMessageQueueProcessor(m) ==
    /\ sent < MaxMessages
    /\ sent' = m.id
    /\ msgQueue' = [msgQueue EXCEPT ![ProcessorOf(m)] = Append(@, m)]
    /\ unanswered' = IF m.cmd = "notify" THEN unanswered
                     ELSE unanswered \cup {<<m.m_iFd, m.id>>}
    /\ UNCHANGED <<is_stop, thread, m_stMsgQueue, lastHandled, lost>>

-----------------------------------------------------------------------------
(***************************************************************************)
(* CQueueRouterManager.                                                    *)
(***************************************************************************)
ClearServerConnection(fd) ==
    /\ m_astConnectionMap' = Erase(m_astConnectionMap, {fd})
    /\ sock' = IF m_astConnectionMap[fd].connected THEN Closed({fd}) ELSE sock
    /\ UNCHANGED <<m_stClientConMap, m_stServerIDToFd>>

\* Mutant of ClearClientSocket: the entry stays.
ClearClientSocketMutant(fd) == sock' = Closed({fd}) /\ UNCHANGED tables

ClearClientSocket(fd) ==
    /\ m_stClientConMap' = Erase(m_stClientConMap, {fd})
    /\ sock' = Closed({fd})
    /\ UNCHANGED <<m_astConnectionMap, m_stServerIDToFd>>

\* Mutant of Repeated: no check for an older connection.
RepeatedMutant(s) == {}

\* The entry that AddServerConnection takes for an older connection of s.
Repeated(s) ==
    {fd \in DOMAIN m_astConnectionMap :
        s \in DOMAIN m_stServerIDToFd /\ m_stServerIDToFd[s] = fd}

AddServerConnection(s, fd) ==
    LET repeated == Repeated(s)
        live == {f \in repeated : m_astConnectionMap[f].connected}
    IN  /\ sock' = [Closed(live) EXCEPT ![fd] = s]
        /\ m_astConnectionMap' =
               Assign(Erase(m_astConnectionMap, repeated), fd,
                      [m_iEntityId |-> s, connected |-> TRUE])
        /\ m_stServerIDToFd' = Assign(m_stServerIDToFd, s, fd)
        /\ Forget(repeated)
        /\ UNCHANGED m_stClientConMap

AddClientConnection(u, fd) ==
    /\ sock' = [sock EXCEPT ![fd] = u]
    /\ m_stClientConMap' = Assign(m_stClientConMap, fd, NewClient)
    /\ UNCHANGED <<m_astConnectionMap, m_stServerIDToFd, unanswered>>

-----------------------------------------------------------------------------
(***************************************************************************)
(* The loop of CQueueGameControl::Run: "check" the run flags, "timers",    *)
(* "wait" in epoll, handle the "events", "send" the answers; at the end    *)
(* "stop" the processors.                                                  *)
(***************************************************************************)
CheckServerContext ==
    /\ pc = "check"
    /\ pc' \in {"timers", "stop"}
    /\ UNCHANGED <<sock, tables, batch, iMsgNum, queuing, unanswered>>

\* CheckTimers.  How long a peer has been silent is not modelled: any may
\* have been silent for too long.  A timed out client's entry goes, his
\* socket stays open.  A wake-up is put only into an empty queue here: next
\* to another message it has no effect.
CheckTimers(active, silent, idle) ==
    /\ pc = "timers"
    /\ pc' = "wait"
    /\ msgQueue' = [i \in Processors |->
           IF active /\ msgQueue[i] = <<>> THEN <<WakeUp>> ELSE msgQueue[i]]
    /\ LET live == {fd \in silent : m_astConnectionMap[fd].connected}
       IN  sock' = Closed(live)
    /\ m_astConnectionMap' = Erase(m_astConnectionMap, silent)
    /\ m_stClientConMap' = Erase(m_stClientConMap, idle)
    /\ Forget(silent \cup idle)
    /\ UNCHANGED <<m_stServerIDToFd, batch, iMsgNum, is_stop, thread,
                   m_stMsgQueue, sent, lastHandled, lost>>

\* CheckConnectionAlive erases the entries that are not connected as well.
Timers ==
    LET broken == {fd \in DOMAIN m_astConnectionMap :
                      ~m_astConnectionMap[fd].connected}
    IN  \E active \in BOOLEAN, silent \in SUBSET DOMAIN m_astConnectionMap,
           idle \in SUBSET DOMAIN m_stClientConMap :
            /\ silent = {} \/ broken \subseteq silent
            /\ CheckTimers(active, silent, idle)

EpollWait ==
    /\ pc = "wait"
    /\ pc' = "events"
    /\ batch' \in SUBSET ({fd \in Fds : sock[fd] # NoPeer} \cup {ListenFd})
    /\ UNCHANGED <<sock, tables, iMsgNum, queuing, unanswered>>

\* One of the events of this round, in whatever order the kernel lists them.
Event(fd) ==
    /\ pc = "events"
    /\ fd \in batch
    /\ UNCHANGED <<pc, iMsgNum>>

Consumed(fd) == batch' = batch \ {fd}

\* Mutant of Accept: the listening socket is read until nobody is waiting.
AcceptMutant ==
    /\ Event(ListenFd) /\ (Consumed(ListenFd) \/ UNCHANGED batch)
    /\ \E fd \in Fds :
        /\ sock[fd] = NoPeer
        /\ \/ \E s \in Servers : AddServerConnection(s, fd)
           \/ \E u \in Uins : AddClientConnection(u, fd)
    /\ UNCHANGED queuing

\* The kernel may give the new connection any descriptor that is closed.
Accept ==
    /\ Event(ListenFd) /\ Consumed(ListenFd)
    /\ \E fd \in Fds :
        /\ sock[fd] = NoPeer
        /\ \/ \E s \in Servers : AddServerConnection(s, fd)
           \/ \E u \in Uins : AddClientConnection(u, fd)
    /\ UNCHANGED queuing

\* Too many clients, an address outside the intranet, or a failed call.
Refuse ==
    /\ Event(ListenFd) /\ Consumed(ListenFd)
    /\ UNCHANGED <<sock, tables, queuing, unanswered>>

IsServer(fd) == fd \in DOMAIN m_astConnectionMap
IsClient(fd) == ~IsServer(fd) /\ fd \in DOMAIN m_stClientConMap

\* An error event clears both tables of the descriptor.
SocketError(fd) ==
    /\ Event(fd) /\ Consumed(fd)
    /\ m_astConnectionMap' = Erase(m_astConnectionMap, {fd})
    /\ m_stClientConMap' = Erase(m_stClientConMap, {fd})
    /\ sock' = IF \/ fd \in DOMAIN m_stClientConMap
                  \/ IsServer(fd) /\ m_astConnectionMap[fd].connected
               THEN Closed({fd}) ELSE sock
    /\ Forget({fd})
    /\ UNCHANGED <<m_stServerIDToFd, queuing>>

\* The event of a connection that is broken, closed by the peer, or merged
\* into another server.
ServerGone(fd) ==
    /\ Event(fd) /\ Consumed(fd)
    /\ IsServer(fd)
    /\ ClearServerConnection(fd)
    /\ Forget({fd})
    /\ UNCHANGED queuing

\* One message of a game server.  A read may bring several: then the event is
\* not over yet.
ServerPacket(fd, cmd) ==
    LET s == m_astConnectionMap[fd].m_iEntityId
    IN  /\ Event(fd) /\ (Consumed(fd) \/ UNCHANGED batch)
        /\ IsServer(fd)
        /\ m_astConnectionMap[fd].connected
        /\ MergeTo[s] = s
        /\ AddMessageQueueProcessor(
               [cmd |-> cmd, m_iServerID |-> s, m_iFd |-> fd, id |-> sent + 1])
        /\ UNCHANGED <<sock, tables>>

\* The peer has closed the connection, or recv_client_messages refuses its
\* packet: malformed, without a valid ticket, or not of the player signed in.
ClientGone(fd) ==
    /\ Event(fd) /\ Consumed(fd)
    /\ IsClient(fd)
    /\ ClearClientSocket(fd)
    /\ Forget({fd})
    /\ UNCHANGED queuing

\* transfer_one_code accepts a packet of group g: the first one, whose ticket
\* names the player and the group, or a later one of the same player.
Accepted(fd, g) ==
    LET old == m_stClientConMap[fd]
        new == IF old.recved THEN old
               ELSE [m_uin |-> sock[fd], m_iGroupID |-> g, recved |-> TRUE]
    IN  /\ m_stClientConMap' = [m_stClientConMap EXCEPT ![fd] = new]
        /\ UNCHANGED <<sock, m_astConnectionMap, m_stServerIDToFd>>

\* A queue heartbeat.  The group is the one this packet names.
ClientPacket(fd, g) ==
    /\ Event(fd) /\ (Consumed(fd) \/ UNCHANGED batch)
    /\ IsClient(fd)
    /\ MergeTo[g] \in Servers
    /\ Accepted(fd, g)
    /\ AddMessageQueueProcessor(
           [cmd |-> "heartbeat", m_iServerID |-> MergeTo[g], m_iFd |-> fd,
            m_iUin |-> m_stClientConMap'[fd].m_uin, m_iGroupID |-> g,
            id |-> sent + 1])

\* A connection heartbeat, another command or an unknown group: the packet
\* is accepted and nothing is dispatched.
ClientPacketOnly(fd, g) ==
    /\ Event(fd) /\ Consumed(fd)
    /\ IsClient(fd)
    /\ Accepted(fd, g)
    /\ UNCHANGED <<queuing, unanswered>>

\* Part of a packet, a connection heartbeat of a server, or an event of a
\* socket that is in neither table.
NothingToDo(fd) ==
    /\ Event(fd) /\ Consumed(fd)
    /\ IsServer(fd) => m_astConnectionMap[fd].connected
    /\ UNCHANGED <<sock, tables, queuing, unanswered>>

DispatchMessage ==
    \/ Accept
    \/ Refuse
    \/ \E fd \in Fds :
        \/ SocketError(fd) \/ ServerGone(fd) \/ ClientGone(fd) \/ NothingToDo(fd)
        \/ \E cmd \in {"notify", "check"} : ServerPacket(fd, cmd)
        \/ \E g \in Groups : ClientPacket(fd, g) \/ ClientPacketOnly(fd, g)

\* Mutants of BeginSend: one answer too many, or one too few.
BeginSendOneMore ==
    /\ pc = "events"
    /\ batch = {}
    /\ pc' = "send"
    /\ iMsgNum' = Len(m_stMsgQueue) + 1
    /\ UNCHANGED <<sock, tables, batch, queuing, unanswered>>
BeginSendOneLess ==
    /\ pc = "events"
    /\ batch = {}
    /\ pc' = "send"
    /\ iMsgNum' = IF m_stMsgQueue = <<>> THEN 0 ELSE Len(m_stMsgQueue) - 1
    /\ UNCHANGED <<sock, tables, batch, queuing, unanswered>>

\* SendClientMsg: at most as many answers as there were on entry.
BeginSend ==
    /\ pc = "events"
    /\ batch = {}
    /\ pc' = "send"
    /\ iMsgNum' = Len(m_stMsgQueue)
    /\ UNCHANGED <<sock, tables, batch, queuing, unanswered>>

\* Mutant of Deliverable: the player of the connection is not compared.
DeliverableMutant(m) ==
    IF m.cmd = "heartbeat"
    THEN /\ m.m_iFd \in DOMAIN m_stClientConMap
         /\ m_stClientConMap[m.m_iFd].m_iGroupID = m.m_iGroupID
    ELSE /\ m.m_iFd \in DOMAIN m_astConnectionMap
         /\ m_astConnectionMap[m.m_iFd].m_iEntityId = m.m_iServerID

\* The checks made before an answer is written to the descriptor in it.
Deliverable(m) ==
    IF m.cmd = "heartbeat"
    THEN /\ m.m_iFd \in DOMAIN m_stClientConMap
         /\ m_stClientConMap[m.m_iFd].m_uin = m.m_iUin
         /\ m_stClientConMap[m.m_iFd].m_iGroupID = m.m_iGroupID
    ELSE /\ m.m_iFd \in DOMAIN m_astConnectionMap
         /\ m_astConnectionMap[m.m_iFd].m_iEntityId = m.m_iServerID

PopAnswer ==
    /\ pc = "send"
    /\ iMsgNum > 0
    /\ iMsgNum' = iMsgNum - 1
    /\ m_stMsgQueue' = Tail(m_stMsgQueue)
    /\ UNCHANGED <<pc, batch, msgQueue, is_stop, thread, sent, lastHandled>>

Loses(m) == lost' = lost \cup {m.id}

\* The connection is still the player's, but his first packet on it named
\* another group than the one that asked.
NamesOtherGroup(m) ==
    /\ m.cmd = "heartbeat"
    /\ m.m_iFd \in DOMAIN m_stClientConMap
    /\ m_stClientConMap[m.m_iFd].m_uin = m.m_iUin
    /\ m_stClientConMap[m.m_iFd].m_iGroupID # m.m_iGroupID

DropAnswer ==
    /\ PopAnswer
    /\ LET m == Head(m_stMsgQueue)
       IN  /\ ~Deliverable(m)
           /\ IF NamesOtherGroup(m) THEN Loses(m) ELSE UNCHANGED lost
    /\ UNCHANGED <<sock, tables, unanswered>>

\* Written to the socket, or, to a game server, into its send buffer.
WriteAnswer ==
    /\ PopAnswer
    /\ LET m == Head(m_stMsgQueue)
       IN  /\ Deliverable(m)
           /\ m.cmd = "check" => m_astConnectionMap[m.m_iFd].connected
           /\ unanswered' = unanswered \ {<<m.m_iFd, m.id>>}
    /\ UNCHANGED <<sock, tables, lost>>

\* What SendData returns to SendClientMsg is ignored: the send buffer of a
\* game server's connection has no room for the answer, or the connection is
\* broken already.
WriteRefused ==
    /\ PopAnswer
    /\ LET m == Head(m_stMsgQueue)
       IN  /\ m.cmd = "check" /\ Deliverable(m)
           /\ Loses(m)
    /\ UNCHANGED <<sock, tables, unanswered>>

\* The send fails.  A client's connection is cleared; a server's connection
\* is closed by send_data and stays in the table.
WriteFails ==
    /\ PopAnswer
    /\ LET m == Head(m_stMsgQueue)
       IN  /\ Deliverable(m)
           /\ Forget({m.m_iFd})
           /\ UNCHANGED lost
           /\ IF m.cmd = "heartbeat"
              THEN ClearClientSocket(m.m_iFd)
              ELSE /\ m_astConnectionMap[m.m_iFd].connected
                   /\ m_astConnectionMap' =
                          [m_astConnectionMap EXCEPT ![m.m_iFd].connected = FALSE]
                   /\ sock' = Closed({m.m_iFd})
                   /\ UNCHANGED <<m_stClientConMap, m_stServerIDToFd>>

EndSend ==
    /\ pc = "send"
    /\ iMsgNum = 0
    /\ pc' = "check"
    /\ UNCHANGED <<sock, tables, batch, iMsgNum, queuing, unanswered>>

\* After_Run: CQueueProcessor::Stop for one processor after the other; each
\* joins the thread before the next one is stopped.
StopProcessor(i) ==
    /\ pc = "stop"
    /\ i \notin is_stop
    /\ \A j \in 0 .. i - 1 : thread[j] = Finished
    /\ is_stop' = is_stop \cup {i}
    /\ UNCHANGED <<sock, tables, batch, pc, iMsgNum, msgQueue, thread,
                   m_stMsgQueue, sent, lastHandled, lost, unanswered>>

AllStopped ==
    /\ pc = "stop"
    /\ \A i \in Processors : thread[i] = Finished
    /\ pc' = "done"
    /\ UNCHANGED <<sock, tables, batch, iMsgNum, queuing, unanswered>>

-----------------------------------------------------------------------------
(***************************************************************************)
(* A processor's thread, CQueueProcessor::Run: pop_front of its blocking   *)
(* queue, and the handling of the message.                                 *)
(***************************************************************************)
\* Mutants of PopFront: pop_front gives up as soon as the queue is stopped, or
\* the loop goes on popping from a queue that is stopped and empty.
PopFrontStopsAtOnce(i) ==
    /\ thread[i] = Popping
    /\ \/ /\ i \notin is_stop
          /\ msgQueue[i] # <<>>
          /\ thread' = [thread EXCEPT ![i] = Handling(Head(msgQueue[i]))]
          /\ msgQueue' = [msgQueue EXCEPT ![i] = Tail(@)]
       \/ /\ i \in is_stop
          /\ thread' = [thread EXCEPT ![i] = Finished]
          /\ UNCHANGED msgQueue
    /\ UNCHANGED <<is_stop, m_stMsgQueue, sent, lastHandled, lost>>
PopFrontNeverStops(i) ==
    /\ thread[i] = Popping
    /\ IF msgQueue[i] # <<>>
       THEN /\ thread' = [thread EXCEPT ![i] = Handling(Head(msgQueue[i]))]
            /\ msgQueue' = [msgQueue EXCEPT ![i] = Tail(@)]
       ELSE i \in is_stop /\ UNCHANGED <<thread, msgQueue>>
    /\ UNCHANGED <<is_stop, m_stMsgQueue, sent, lastHandled, lost>>

PopFront(i) ==
    /\ thread[i] = Popping
    /\ \/ /\ msgQueue[i] # <<>>
          /\ thread' = [thread EXCEPT ![i] = Handling(Head(msgQueue[i]))]
          /\ msgQueue' = [msgQueue EXCEPT ![i] = Tail(@)]
       \/ /\ msgQueue[i] = <<>>
          /\ i \in is_stop
          /\ thread' = [thread EXCEPT ![i] = Finished]
          /\ UNCHANGED msgQueue
    /\ UNCHANGED <<is_stop, m_stMsgQueue, sent, lastHandled, lost>>

\* A heartbeat and a reconnect check are answered, unless the check cannot be
\* decoded or the answer not be encoded.
HandleMessage(i) ==
    /\ thread[i].at = "handle"
    /\ thread' = [thread EXCEPT ![i] = Popping]
    /\ LET m == thread[i].msg
       IN  /\ \/ /\ m.cmd \in {"heartbeat", "check"}
                 /\ m_stMsgQueue' = Append(m_stMsgQueue, m)
                 /\ UNCHANGED lost
              \/ /\ m.cmd \in {"heartbeat", "check"}
                 /\ Loses(m)
                 /\ UNCHANGED m_stMsgQueue
              \/ /\ m.cmd \notin {"heartbeat", "check"}
                 /\ UNCHANGED <<m_stMsgQueue, lost>>
           /\ lastHandled' = IF m.cmd = "wake" THEN lastHandled
                             ELSE [lastHandled EXCEPT ![m.m_iServerID] = m.id]
    /\ UNCHANGED <<msgQueue, is_stop, sent>>

Processor(i) ==
    /\ PopFront(i) \/ HandleMessage(i)
    /\ UNCHANGED <<sock, tables, batch, pc, iMsgNum, unanswered>>

-----------------------------------------------------------------------------

Empty == [x \in {} |-> 0]

Init ==
    /\ sock = [fd \in Fds |-> NoPeer]
    /\ m_astConnectionMap = Empty
    /\ m_stClientConMap = Empty
    /\ m_stServerIDToFd = Empty
    /\ batch = {}
    /\ pc = "check"
    /\ iMsgNum = 0
    /\ msgQueue = [i \in Processors |-> <<>>]
    /\ is_stop = {}
    /\ thread = [i \in Processors |-> Popping]
    /\ m_stMsgQueue = <<>>
    /\ sent = 0
    /\ lastHandled = [s \in Servers |-> 0]
    /\ lost = {} /\ unanswered = {}

SendClientMsg ==
    \/ BeginSend \/ DropAnswer \/ WriteAnswer \/ WriteRefused \/ WriteFails
    \/ EndSend

After_Run == (\E i \in Processors : StopProcessor(i)) \/ AllStopped

Main ==
    \/ CheckServerContext
    \/ Timers
    \/ EpollWait
    \/ DispatchMessage
    \/ SendClientMsg
    \/ After_Run

\* The process has ended.
Terminated == pc = "done" /\ UNCHANGED vars

Next ==
    \/ Main
    \/ \E i \in Processors : Processor(i)
    \/ Terminated

Spec == Init /\ [][Next]_vars

(***************************************************************************)
(* Fairness: every thread that can take a step goes on taking steps.  The  *)
(* main thread waits 100 ms for events at most, and a send does not block. *)
(***************************************************************************)
FairSpec ==
    Spec /\ WF_vars(Main) /\ \A i \in Processors : WF_vars(Processor(i))

-----------------------------------------------------------------------------
(***************************************************************************)
(* Properties.                                                             *)
(***************************************************************************)

\* The type of every variable.
TypeOK ==
    /\ sock \in [Fds -> Servers \cup Uins \cup {NoPeer}]
    /\ DOMAIN m_astConnectionMap \subseteq Fds
    /\ Range(m_astConnectionMap) \subseteq Connection
    /\ DOMAIN m_stClientConMap \subseteq Fds
    /\ Range(m_stClientConMap) \subseteq TSocketInfo
    /\ DOMAIN m_stServerIDToFd \subseteq Servers
    /\ Range(m_stServerIDToFd) \subseteq Fds
    /\ batch \subseteq Fds \cup {ListenFd}
    /\ pc \in {"check", "timers", "wait", "events", "send", "stop", "done"}
    /\ iMsgNum \in Nat /\ iMsgNum <= Len(m_stMsgQueue)
    /\ \A i \in Processors : Range(msgQueue[i]) \subseteq Message
    /\ is_stop \subseteq Processors
    /\ \A i \in Processors : \/ thread[i] \in {Popping, Finished}
                             \/ \E m \in Message : thread[i] = Handling(m)
    /\ Range(m_stMsgQueue) \subseteq ServerMessage \cup ClientMessage
    /\ sent \in 0 .. MaxMessages
    /\ lastHandled \in [Servers -> 0 .. MaxMessages]
    /\ lost \subseteq 1 .. MaxMessages
    /\ unanswered \subseteq Fds \X (1 .. MaxMessages)

\* The tables tell the truth about the sockets, although descriptors are
\* closed in six places and handed out again: the connected entry of a server
\* is a socket to that server, a player's entry is a socket to that player,
\* and no descriptor is a live connection of both kinds.  A game server never
\* has two live connections: its presence notifications and its reconnect
\* checks come through one socket, in one order.
TablesMatchSockets ==
    /\ \A fd \in DOMAIN m_astConnectionMap :
           m_astConnectionMap[fd].connected =>
               /\ sock[fd] = m_astConnectionMap[fd].m_iEntityId
               /\ fd \notin DOMAIN m_stClientConMap
    /\ \A fd \in DOMAIN m_stClientConMap :
           IF m_stClientConMap[fd].recved
           THEN sock[fd] = m_stClientConMap[fd].m_uin
           ELSE sock[fd] \in Uins
    /\ \A f, g \in DOMAIN m_astConnectionMap :
           /\ m_astConnectionMap[f].connected /\ m_astConnectionMap[g].connected
           /\ m_astConnectionMap[f].m_iEntityId = m_astConnectionMap[g].m_iEntityId
           => f = g

\* An answer that passes the checks of SendClientMsg goes to the player or the
\* server that asked, however many connections have come and gone on the
\* descriptor since: at worst on a later connection of his.
AnswersReachAsker ==
    \A m \in Range(m_stMsgQueue) :
        Deliverable(m) =>
            \/ sock[m.m_iFd] = IF m.cmd = "heartbeat" THEN m.m_iUin
                               ELSE m.m_iServerID
            \/ m.cmd = "check" /\ ~m_astConnectionMap[m.m_iFd].connected

\* The messages about one game server are handled in the order in which the
\* main thread read them, whichever connections they came from: a player's
\* logout cannot overtake his login, and no two threads own the same queue.
HandledInOrder ==
    [][\A s \in Servers : lastHandled'[s] >= lastHandled[s]]_vars

\* A processor thread does not end with a message left in its queue, and
\* nothing is put into the queue of a thread that has ended.
NothingLostAtStop ==
    \A i \in Processors : thread[i] = Finished => msgQueue[i] = <<>>

\* An event is never handled for a connection that was accepted after the
\* event was reported: handling one event may close other descriptors of the
\* same batch, but never makes them somebody else's.
NoStaleEvent ==
    [][\A fd \in batch' \ {ListenFd} :
          pc = "events" /\ sock'[fd] # NoPeer => sock'[fd] = sock[fd]]_vars

\* Once the exit flag has been seen the process ends, with the processors
\* busy or blocked in pop_front when they are stopped.
ShutdownCompletes == (pc = "stop") ~> (pc = "done")

\* Every request is answered, unless its connection is closed or forgotten
\* first, or the process is told to exit: no answer stays in the queue for
\* ever, although a round writes only those it saw when it began.  The code
\* loses an answer on an open connection in four places: the check cannot be
\* decoded, the answer not be encoded, the connection's send buffer is full,
\* or the player's heartbeat named another group than his first one.
RequestsAnswered ==
    \A r \in Fds \X (1 .. MaxMessages) :
        (r \in unanswered) ~>
            (r \notin unanswered \/ r[2] \in lost \/ pc \in {"stop", "done"})

\* The log of CheckClientAlive on a client that has timed out: "socket was
\* timeout ... so close it!".  No client's socket stays open with no entry.
TimedOutIsClosed ==
    \A fd \in Fds :
        sock[fd] \in Uins => fd \in DOMAIN m_stClientConMap

\* The log of AddServerConnection on the connection it closes: "has a repeat
\* logic_svr connection".  Accepting a connection of a server closes no
\* connection of another one.
OnlyRepeatsClosed ==
    [][\A fd \in Fds :
          ListenFd \in batch \ batch' /\ sock[fd] # NoPeer /\ sock'[fd] = NoPeer
             => \E new \in Fds : sock[new] = NoPeer /\ sock'[new] = sock[fd]]_vars

=============================================================================
