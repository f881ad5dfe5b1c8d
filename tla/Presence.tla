------------------------------ MODULE Presence ------------------------------
(***************************************************************************)
(* Who is on a game server, as the game server knows it (CLogicUser) and   *)
(* as the queue server counts it, with the TCP connection between them     *)
(* that carries login and logout notices one way, the check of a returning *)
(* player both ways, and breaks.                                           *)
(*                                                                         *)
(* The queue server's side is LoginQueue seen from one player at a time:   *)
(* which of its containers he is in (never two, LoginQueue's OneRole),     *)
(* with the clock, the line and the capacity left open.  The switch of the *)
(* queue and the time since a player's last logout, which the game server  *)
(* reads when he wants to return, may have any value at any time.          *)
(***************************************************************************)
EXTENDS Naturals, Sequences

CONSTANTS
    Uins,           \* the players
    MaxLogins,      \* bound: start requests
    MaxRequests,    \* bound: reconnect requests
    MaxFaults,      \* bound: broken connections and crashes
    MaxRefusals     \* bound: messages SendData refuses

ASSUME PresenceAssumption ==
    MaxLogins \in Nat /\ MaxRequests \in Nat
        /\ MaxFaults \in Nat /\ MaxRefusals \in Nat

VARIABLES
    users,              \* m_stUserContainer: the players on the game server
    m_stUserQueueTag,   \* those whose logout shall not be protected
    connected,          \* the game server's socket is connected
    link,               \* what the connection really is: "up" or "cut"
    toQueue, toLogic,   \* the messages under way
    place,              \* the queue server's container the player is in
    refused,            \* history: told to log out and queue, since he came
    waits,              \* history: a reconnect request is not answered yet
    missed,             \* history: his last notice did not reach the queue
    lost,               \* history: a check of his or its answer was lost since
                        \* his last check was sent
    logins, requests, faults, refusals

logic   == <<users, m_stUserQueueTag>>
network == <<connected, link, toQueue, toLogic>>
bounds  == <<logins, requests, faults, refusals>>
vars    == <<logic, network, place, refused, waits, missed, lost, bounds>>

\* MSG_QUEUE_USER_LOGIN_NOTIFY with m_bLogin, MSG_QUEUE_USER_LIST_ONLINE_NOTIFY
In(S)           == [type |-> "in", uins |-> S, protect |-> FALSE]
\* MSG_QUEUE_USER_LOGIN_NOTIFY without m_bLogin
Out(u, protect) == [type |-> "out", uins |-> {u}, protect |-> protect]
\* MSG_QUEUE_USER_RECONNECT_CHECK and its answer
Check(u)        == [type |-> "check", uins |-> {u}, protect |-> FALSE]
Answer(u, can)  == [m_iUin |-> u, m_bCanLogin |-> can]

Init ==
    /\ users = {} /\ m_stUserQueueTag = {}
    /\ connected = FALSE /\ link = "cut"
    /\ toQueue = <<>> /\ toLogic = <<>>
    /\ place = [u \in Uins |-> "none"]
    /\ refused = [u \in Uins |-> FALSE]
    /\ waits = [u \in Uins |-> FALSE]
    /\ missed = {} /\ lost = {}
    /\ logins = 0 /\ requests = 0 /\ faults = 0 /\ refusals = 0

-----------------------------------------------------------------------------
(***************************************************************************)
(* Sending.  The Notify functions send if the socket is connected, which   *)
(* it is until a break is noticed, and look at no result: a message is     *)
(* lost with the connection, or refused when the send buffer is full.      *)
(***************************************************************************)

Arrives == connected /\ link = "up"

Without(ms, i) == SubSeq(ms, 1, i - 1) \o SubSeq(ms, i + 1, Len(ms))

\* The messages ms about u, one of which may be refused.
Notify(u, ms) ==
    \/ /\ Arrives
       /\ toQueue' = toQueue \o ms
       /\ missed' = missed \ {u}
       /\ UNCHANGED refusals
    \/ /\ Arrives
       /\ refusals < MaxRefusals /\ refusals' = refusals + 1
       /\ \E i \in 1 .. Len(ms) :
             /\ toQueue' = toQueue \o Without(ms, i)
             /\ missed' = IF i = Len(ms) THEN missed \cup {u} ELSE missed \ {u}
    \/ /\ ~Arrives
       /\ missed' = missed \cup {u}
       /\ UNCHANGED <<toQueue, refusals>>

-----------------------------------------------------------------------------
(***************************************************************************)
(* Players come and go: AddUser and DelUser.                               *)
(***************************************************************************)

Came(u) ==
    /\ logins < MaxLogins /\ logins' = logins + 1
    /\ refused' = [refused EXCEPT ![u] = FALSE]
    /\ waits' = [waits EXCEPT ![u] = FALSE]

\* Mutant: a tag is used up only if the notice can be sent.
TagUsedIfSent(u) ==
    m_stUserQueueTag' = IF connected THEN m_stUserQueueTag \ {u}
                        ELSE m_stUserQueueTag

\* OnUserLogout: CheckQueueTag erases the tag it finds.
CheckQueueTag(u) == m_stUserQueueTag' = m_stUserQueueTag \ {u}

\* Mutant: the default of m_bProtect.
LogoutNoticeProtects(u) == Out(u, TRUE)

LogoutNotice(u) == Out(u, u \notin m_stUserQueueTag)

\* A start_request of a player who is not there.
Login(u) ==
    /\ u \notin users
    /\ Came(u)
    /\ users' = users \cup {u}
    /\ Notify(u, <<In({u})>>)
    /\ UNCHANGED <<m_stUserQueueTag, connected, link, toLogic, place, lost,
                   requests, faults>>

\* Mutant: the player is added before the old entry is deleted.
KickAddsFirst(u) == <<In({u}), In({u}), LogoutNotice(u)>>

\* A start_request of a player who is there: AddUser sends its notice before
\* the insertion fails, DelUser sends one, and AddUser is called again.
Kick(u) == <<In({u}), LogoutNotice(u), In({u})>>

Relogin(u) ==
    /\ u \in users
    /\ Came(u) /\ CheckQueueTag(u)
    /\ Notify(u, Kick(u))
    /\ UNCHANGED <<users, connected, link, toLogic, place, lost, requests,
                   faults>>

\* disconnect_notify.
Logout(u) ==
    /\ u \in users
    /\ CheckQueueTag(u)
    /\ users' = users \ {u}
    /\ waits' = [waits EXCEPT ![u] = FALSE]
    /\ Notify(u, <<LogoutNotice(u)>>)
    /\ UNCHANGED <<connected, link, toLogic, place, refused, lost, logins,
                   requests, faults>>

-----------------------------------------------------------------------------
(***************************************************************************)
(* MSG_LOGIC_RECONNECT, the request of a player who wants to go on.        *)
(***************************************************************************)

Requested(u) ==
    /\ u \in users
    /\ requests < MaxRequests /\ requests' = requests + 1
    /\ UNCHANGED <<users, connected, link, toLogic, place, logins, faults>>

\* He is told to log out and, if told to queue as well, gets a tag.
SendAway(u, queue) ==
    /\ waits' = [waits EXCEPT ![u] = FALSE]
    /\ refused' = [refused EXCEPT ![u] = @ \/ queue]
    /\ m_stUserQueueTag' = IF queue THEN m_stUserQueueTag \cup {u}
                           ELSE m_stUserQueueTag

HandleReconnect(u) ==
    /\ waits' = [waits EXCEPT ![u] = FALSE]
    /\ UNCHANGED <<m_stUserQueueTag, refused>>

\* More than an hour after his last logout he has to queue again; if the daily
\* refresh is this very second, only when the protection is over.
ReconnectRefused(u) ==
    /\ Requested(u)
    /\ \E queue \in BOOLEAN : SendAway(u, queue)
    /\ UNCHANGED <<toQueue, missed, lost, refusals>>

\* Within the time of the protection, or with the switch off.
ReconnectAtOnce(u) ==
    /\ Requested(u)
    /\ HandleReconnect(u)
    /\ UNCHANGED <<toQueue, missed, lost, refusals>>

Loses(u) == lost' = lost \cup {u}

\* NotifyQueueSvrReconnectCheck, after the protection.
ReconnectCheck(u) ==
    /\ connected
    /\ Requested(u)
    /\ waits' = [waits EXCEPT ![u] = TRUE]
    /\ \/ link = "up" /\ toQueue' = Append(toQueue, Check(u))
          /\ lost' = lost \ {u} /\ UNCHANGED refusals
       \/ link = "up" /\ refusals < MaxRefusals /\ refusals' = refusals + 1
          /\ Loses(u) /\ UNCHANGED toQueue
       \/ link = "cut" /\ UNCHANGED <<toQueue, lost, refusals>>
    /\ UNCHANGED <<m_stUserQueueTag, refused, missed>>

\* Mutant: an answer counts for a player who has gone.
StillThereAlways(u) == TRUE

\* GetUserInfo.
StillThere(u) == u \in users

\* DoServerRunUserReconnectCheck: the answer names the player, and counts for
\* whatever session he has now.  Nothing is done for him when the answer cannot
\* be decoded or his data not be loaded.
HandleAnswer ==
    /\ connected /\ toLogic # <<>>
    /\ toLogic' = Tail(toLogic)
    /\ LET m == Head(toLogic) IN
       \/ /\ StillThere(m.m_iUin)
          /\ IF m.m_bCanLogin THEN HandleReconnect(m.m_iUin)
             ELSE SendAway(m.m_iUin, TRUE)
          /\ UNCHANGED lost
       \/ /\ StillThere(m.m_iUin) /\ Loses(m.m_iUin)
          /\ UNCHANGED <<m_stUserQueueTag, refused, waits>>
       \/ /\ ~StillThere(m.m_iUin)
          /\ UNCHANGED <<m_stUserQueueTag, refused, waits, lost>>
    /\ UNCHANGED <<users, connected, link, toQueue, place, missed, bounds>>

-----------------------------------------------------------------------------
(***************************************************************************)
(* The queue server.                                                       *)
(***************************************************************************)

\* Mutant: a logout without protection is ignored.
AfterLogoutIgnored(m, u) == IF m.protect THEN "protected" ELSE place[u]

\* UserLogout leaves a protection that the player has.
AfterLogout(m, u) ==
    IF m.protect \/ place[u] = "protected" THEN "protected" ELSE "none"

Placed(m) ==
    [u \in Uins |-> IF u \notin m.uins THEN place[u]
                    ELSE IF m.type = "in" THEN "online" ELSE AfterLogout(m, u)]

HandleNotice ==
    /\ toQueue # <<>> /\ Head(toQueue).type \in {"in", "out"}
    /\ toQueue' = Tail(toQueue)
    /\ place' = Placed(Head(toQueue))
    /\ UNCHANGED <<logic, connected, link, toLogic, refused, waits, missed,
                   lost, bounds>>

NobodyWaits == \A u \in Uins : place[u] # "waiting"

\* Mutant: only a positive answer is sent.
AnswersSentIfTrue(u) ==
    IF link = "up" /\ NobodyWaits THEN Append(toLogic, Answer(u, TRUE))
    ELSE toLogic

\* The answer is dropped when the connection has gone.
AnswersSent(u) ==
    IF link = "up" THEN Append(toLogic, Answer(u, NobodyWaits)) ELSE toLogic

\* There is no answer to a check that cannot be decoded, and SendClientMsg does
\* not notice when the send buffer has no room for the answer.
HandleCheck ==
    /\ toQueue # <<>> /\ Head(toQueue).type = "check"
    /\ toQueue' = Tail(toQueue)
    /\ \E u \in Head(toQueue).uins :
          \/ toLogic' = AnswersSent(u) /\ UNCHANGED lost
          \/ Loses(u) /\ UNCHANGED toLogic
    /\ UNCHANGED <<logic, connected, link, place, refused, waits, missed,
                   bounds>>

\* A player's heartbeat: a seat at once, or a place in the line.
Heartbeat(u) ==
    /\ place[u] = "none"
    /\ \/ place' = [place EXCEPT ![u] = "waiting"]
       \/ NobodyWaits /\ place' = [place EXCEPT ![u] = "protected"]
    /\ refused' = [refused EXCEPT ![u] = @ /\ u \in users]
    /\ UNCHANGED <<logic, network, waits, missed, lost, bounds>>

\* Refresh admits or drops a waiting player, or ends a protection.
Refresh(u) ==
    /\ \/ place[u] = "waiting" /\ place' = [place EXCEPT ![u] = "protected"]
       \/ place[u] \in {"waiting", "protected"}
          /\ place' = [place EXCEPT ![u] = "none"]
    /\ UNCHANGED <<logic, network, refused, waits, missed, lost, bounds>>

-----------------------------------------------------------------------------
(***************************************************************************)
(* The connection, and crashes of either process.                          *)
(***************************************************************************)

Fault == faults < MaxFaults /\ faults' = faults + 1

\* Those with a notice among the messages under way.
Noticed == {u \in Uins : \E i \in 1 .. Len(toQueue) :
               toQueue[i].type # "check" /\ u \in toQueue[i].uins}

Cut ==
    /\ Fault /\ link = "up"
    /\ link' = "cut"
    /\ UNCHANGED <<logic, connected, toQueue, toLogic, place, refused, waits,
                   missed, lost, logins, requests, refusals>>

\* recv or send fails: the socket is closed.
NoticeCut ==
    /\ connected /\ link = "cut"
    /\ connected' = FALSE
    /\ toLogic' = <<>>
    /\ UNCHANGED <<logic, link, toQueue, place, refused, waits, missed, lost,
                   bounds>>

\* Mutant: the list is not sent.
FirstMessagesNone == <<>>

\* NotifyQueueSvrUserListOnline.
FirstMessages == <<In(users)>>

\* RefreshQueueConn.  What the old connection still held is lost.
RefreshQueueConn ==
    /\ ~connected
    /\ connected' = TRUE /\ link' = "up"
    /\ toQueue' = FirstMessages /\ toLogic' = <<>>
    /\ missed' = (missed \cup Noticed) \ users
    /\ UNCHANGED <<logic, place, refused, waits, lost, bounds>>

LogicRestarts ==
    /\ Fault
    /\ users' = {} /\ m_stUserQueueTag' = {}
    /\ connected' = FALSE /\ link' = "cut" /\ toLogic' = <<>>
    /\ missed' = missed \cup users
    /\ refused' = [u \in Uins |-> refused[u] /\ u \notin users]
    /\ waits' = [u \in Uins |-> FALSE]
    /\ UNCHANGED <<toQueue, place, lost, logins, requests, refusals>>

QueueRestarts ==
    /\ Fault
    /\ place' = [u \in Uins |-> "none"]
    /\ link' = "cut" /\ toQueue' = <<>>
    /\ missed' = missed \cup Noticed
    /\ UNCHANGED <<logic, connected, toLogic, refused, waits, lost, logins,
                   requests, refusals>>

-----------------------------------------------------------------------------
Player(u) == \/ Login(u) \/ Relogin(u) \/ Logout(u)
             \/ ReconnectRefused(u) \/ ReconnectAtOnce(u) \/ ReconnectCheck(u)
             \/ Heartbeat(u) \/ Refresh(u)

HandleMessage == HandleNotice \/ HandleCheck

Next == \/ \E u \in Uins : Player(u)
        \/ HandleMessage \/ HandleAnswer
        \/ Cut \/ NoticeCut \/ RefreshQueueConn
        \/ LogicRestarts \/ QueueRestarts

Spec == Init /\ [][Next]_vars

\* Both processes are loops that read what has arrived; the game server's
\* also notices a closed socket and tries to connect every ten seconds.
FairSpec == /\ Spec
            /\ WF_vars(HandleMessage) /\ WF_vars(HandleAnswer)
            /\ WF_vars(NoticeCut) /\ WF_vars(RefreshQueueConn)

-----------------------------------------------------------------------------
(***************************************************************************)
(* Properties.                                                             *)
(***************************************************************************)

Places == {"none", "waiting", "protected", "online"}

Messages == [type : {"in", "out", "check"}, uins : SUBSET Uins,
             protect : BOOLEAN]
Answers  == [m_iUin : Uins, m_bCanLogin : BOOLEAN]

\* Type correctness; a tag belongs to a player who is on the server, and the
\* game server is connected when the connection is up.
TypeOK ==
    /\ users \subseteq Uins /\ m_stUserQueueTag \subseteq users
    /\ connected \in BOOLEAN /\ link \in {"up", "cut"}
    /\ link = "up" => connected
    /\ toQueue \in Seq(Messages) /\ toLogic \in Seq(Answers)
    /\ place \in [Uins -> Places]
    /\ refused \in [Uins -> BOOLEAN] /\ waits \in [Uins -> BOOLEAN]
    /\ missed \subseteq Uins /\ lost \subseteq Uins
    /\ logins \in Nat /\ requests \in Nat /\ faults \in Nat /\ refusals \in Nat

Settled == Arrives /\ toQueue = <<>>

\* However connections broke and processes crashed, everybody on the game
\* server is counted by the queue server as soon as the connection is up again
\* and its messages are handled, unless one was refused: the capacity is never
\* given away twice.
OnlineIsCounted ==
    Settled /\ refusals = 0 => \A u \in users : place[u] = "online"

\* The two servers differ only about players whose last notice was lost or
\* refused, and who have not come back since.
DifferenceExplained ==
    Settled => \A u \in Uins \ missed :
        (u \in users) = (place[u] = "online")

\* A player who is told to queue and leaves has no seat to come back to: not
\* by a tag of this session that was used up early, nor does one of an earlier
\* session take away the protection of this one's.
About(u) == {i \in 1 .. Len(toQueue) : u \in toQueue[i].uins}

RefusedHasNoSeat ==
    \A u \in Uins \ (users \cup missed) :
        refusals = 0 /\ refused[u] /\ About(u) = {} => place[u] = "none"

\* The tag in a logout notice is this session's: a player who was not told to
\* queue keeps his seat for the time of the protection.
LogoutIsProtected ==
    [][\A u \in users : Logout(u) /\ Arrives /\ toQueue' # toQueue
          => toQueue'[Len(toQueue')].protect = ~refused[u]]_vars

\* A player whose return is checked is let in or sent away, unless he leaves
\* or the connection breaks.  The code has no time-out for it: he waits on if
\* the check or the answer finds a full send buffer or cannot be decoded, or
\* his data cannot be loaded when the answer comes.
ReconnectIsAnswered ==
    \A u \in Uins : waits[u] ~> (~waits[u] \/ faults > 0 \/ u \in lost)

\* A player on the game server is counted in the end, whatever breaks.
PresenceIsRestored ==
    \A u \in Uins :
        u \in users ~> (place[u] = "online" \/ u \notin users \/ refusals > 0)
=============================================================================
