---------------------------- MODULE LoginQueue ----------------------------
(***************************************************************************)
(* The login queue of one game server: the object CQueueServerQueManage    *)
(* and the processor thread CQueueMsgProcessor that owns it                *)
(* (server/queue_server).  A player may enter the game server when he has  *)
(* a seat: he is online, or he is inside a protection period granted on    *)
(* admission or on logout.  When no seat is free he waits; the thread      *)
(* admits waiting players once per second, in the order of their indices.  *)
(*                                                                         *)
(* The thread serves one message per iteration in two steps, because time  *)
(* and the configuration may change between them: it pops a message and    *)
(* refreshes the queues (PopAndRefresh), then handles the message.  A      *)
(* thread owns the queues of several game servers, which share nothing but *)
(* the thread: a message for another of them is an Ignore step here.       *)
(*                                                                         *)
(* Every stored instant t of the code is represented by the seconds left   *)
(* until it, t - now, so an instant has passed when it is negative.  Tick  *)
(* lets one second go by; -1 stands for every instant that has passed,     *)
(* which is all the code ever asks of one.                                 *)
(***************************************************************************)
EXTENDS Integers, FiniteSets, Functions

CONSTANTS
    Users,      \* the player ids (m_iUin)
    Configs,    \* the contents the reloadable queue configuration may have
    MaxIndex    \* bound of the model: m_uMaxIndex never exceeds it

(***************************************************************************)
(* TZooQueueConfig::m_stQueueConfig: one capacity and three durations in   *)
(* seconds.                                                                *)
(***************************************************************************)
QueueConfig ==
    [m_iMaxOnlineNum : Nat, m_iLoginProtectTime : Nat,
     m_iLogoutProtectTime : Nat, m_iQueueAliveInterval : Nat]

ASSUME UsersAssumption == IsFiniteSet(Users)
ASSUME ConfigsAssumption == Configs \subseteq QueueConfig /\ Configs # {}
ASSUME MaxIndexAssumption == MaxIndex \in Nat \ {0}

VARIABLES
    m_uMinIndex,            \* indices below it have been served
    m_uMaxIndex,            \* the next index to hand out
    m_stUserQueue,          \* waiting player -> his index and alive time
    m_stOnlineUser,         \* the players the game server reported online
    m_stUserProtectTime,    \* protected player -> end of his protection
    config,                 \* the current CQueueServerConfig
    fresh,                  \* m_tmLastRefreshTime is the current second
    pc,                     \* where the thread is: "pop" or "handle"
    reply                   \* the answer the last handler sent, if any

queues == <<m_uMinIndex, m_uMaxIndex, m_stUserQueue, m_stOnlineUser,
            m_stUserProtectTime>>
vars == <<queues, config, fresh, pc, reply>>

-----------------------------------------------------------------------------

TQueueUserInfo == [m_uIndex : Nat \ {0}, m_iLastAliveTime : Int]

NoReply == [type |-> "none"]

\* What a handler hands to the main thread for sending: the answer to a
\* client's queue heartbeat, or to a game server's reconnect check.
HeartbeatReply ==
    [type : {"heartbeat"}, m_iUin : Users, m_bCanLogin : BOOLEAN,
     m_iBeforeNum : Int, m_iSvrRsp : {"SUCCESS", "INTERN_ERROR"}]
ReconnectReply ==
    [type : {"reconnect"}, m_iUin : Users, m_bCanLogin : BOOLEAN]

Erase(f, S) == Restrict(f, DOMAIN f \ S)
Assign(f, x, v) == [y \in DOMAIN f \cup {x} |-> IF y = x THEN v ELSE f[y]]

Waiting == DOMAIN m_stUserQueue
Protected == DOMAIN m_stUserProtectTime
Seated == m_stOnlineUser \cup Protected

GetCurQueueNum == Cardinality(Waiting)
GetCurOnlineNum == Cardinality(m_stOnlineUser)

\* v entered the queue before u.
AheadOf(v, u) == m_stUserQueue[v].m_uIndex < m_stUserQueue[u].m_uIndex

-----------------------------------------------------------------------------
(***************************************************************************)
(* CQueueServerQueManage::Refresh.  Expired protections end; then the      *)
(* waiting players that stopped sending heartbeats are dropped and those   *)
(* whose index lies in the window of free seats are admitted; the window   *)
(* moves up, over the indices of players that have left as well.           *)
(***************************************************************************)
StillProtected == {u \in Protected : m_stUserProtectTime[u] >= 0}

\* Mutant of AllowNum: the protected players are not counted.
AllowNumMutant ==
    LET free == config.m_iMaxOnlineNum - GetCurOnlineNum
    IN  IF free < 0 THEN 0 ELSE free

AllowNum ==
    LET free == config.m_iMaxOnlineNum - GetCurOnlineNum
                    - Cardinality(StillProtected)
    IN  IF free < 0 THEN 0 ELSE free

CurIndex == m_uMinIndex + AllowNum

Alive == {u \in Waiting : m_stUserQueue[u].m_iLastAliveTime >= 0}

\* Mutant of Admitted: <= for <.
AdmittedMutant == {u \in Alive : m_stUserQueue[u].m_uIndex <= CurIndex}

Admitted == {u \in Alive : m_stUserQueue[u].m_uIndex < CurIndex}

StillWaiting == Alive \ Admitted

\* Mutants of NextMinIndex: the window jumps to the end of the line (std::max),
\* starts again at the first index, or stays where it is.
NextMinIndexMax == IF CurIndex < m_uMaxIndex THEN m_uMaxIndex ELSE CurIndex
NextMinIndexReset ==
    IF 1 + AllowNum < m_uMaxIndex THEN 1 + AllowNum ELSE m_uMaxIndex
NextMinIndexStuck == m_uMinIndex

\* m_uMinIndex = std::min(uCurIndex, m_uMaxIndex)
NextMinIndex == IF CurIndex < m_uMaxIndex THEN CurIndex ELSE m_uMaxIndex

ResetIndices == StillWaiting = {}

RefreshQueues ==
    /\ m_stUserProtectTime' =
           [u \in StillProtected \cup Admitted |->
               IF u \in Admitted THEN config.m_iLoginProtectTime
                                 ELSE m_stUserProtectTime[u]]
    /\ m_stUserQueue' = Restrict(m_stUserQueue, StillWaiting)
    /\ m_uMinIndex' = IF ResetIndices THEN 1 ELSE NextMinIndex
    /\ m_uMaxIndex' = IF ResetIndices THEN 1 ELSE m_uMaxIndex
    /\ UNCHANGED m_stOnlineUser

\* CQueueMsgProcessor::Refresh does nothing a second time in one second.
PopAndRefresh ==
    /\ pc = "pop"
    /\ pc' = "handle"
    /\ IF fresh THEN UNCHANGED queues ELSE RefreshQueues
    /\ fresh' = TRUE
    /\ reply' = NoReply
    /\ UNCHANGED config

-----------------------------------------------------------------------------
(***************************************************************************)
(* The message handlers.                                                   *)
(***************************************************************************)
Handled(r) ==
    /\ pc = "handle"
    /\ pc' = "pop"
    /\ reply' = r
    /\ UNCHANGED fresh

\* Mutant of UserLogin: the protection of the player who comes in stays.
UserLoginMutant(S) ==
    /\ m_stUserQueue' = Erase(m_stUserQueue, S)
    /\ m_stOnlineUser' = m_stOnlineUser \cup S
    /\ UNCHANGED <<m_uMinIndex, m_uMaxIndex, m_stUserProtectTime>>

\* CQueueServerQueManage::UserLogin, for every player of a set.
UserLogin(S) ==
    /\ m_stUserQueue' = Erase(m_stUserQueue, S)
    /\ m_stUserProtectTime' = Erase(m_stUserProtectTime, S)
    /\ m_stOnlineUser' = m_stOnlineUser \cup S
    /\ UNCHANGED <<m_uMinIndex, m_uMaxIndex>>

\* CQueueServerQueManage::UserLogout.
UserLogout(u, bProtect) ==
    /\ m_stUserQueue' = Erase(m_stUserQueue, {u})
    /\ m_stOnlineUser' = m_stOnlineUser \ {u}
    /\ m_stUserProtectTime' =
           IF bProtect
           THEN Assign(m_stUserProtectTime, u, config.m_iLogoutProtectTime)
           ELSE m_stUserProtectTime
    /\ UNCHANGED <<m_uMinIndex, m_uMaxIndex>>

\* ProcessUserLoginNotify, its two cases.
ProcessUserLogin(u) ==
    /\ Handled(NoReply)
    /\ UserLogin({u})
    /\ UNCHANGED config

ProcessUserLogout(u, bProtect) ==
    /\ Handled(NoReply)
    /\ UserLogout(u, bProtect)
    /\ UNCHANGED config

\* ProcessUserListOnlineNotify.
ProcessUserListOnline(S) ==
    /\ Handled(NoReply)
    /\ UserLogin(S)
    /\ UNCHANGED config

\* CheckCanLogin, the condition for taking a seat at once: nobody waits, and
\* there is room.
SeatIsFree ==
    /\ Waiting = {}
    /\ GetCurOnlineNum + Cardinality(Protected) < config.m_iMaxOnlineNum

\* Mutant of HeartbeatCanLogin: a newcomer does not look at the line.
HeartbeatCanLoginMutant(u, svrRsp) ==
    /\ \/ u \in Seated
       \/ /\ u \notin Waiting
          /\ GetCurOnlineNum + Cardinality(Protected) < config.m_iMaxOnlineNum
    /\ Handled([type |-> "heartbeat", m_iUin |-> u, m_bCanLogin |-> TRUE,
                m_iBeforeNum |-> 0, m_iSvrRsp |-> svrRsp])
    /\ m_stUserProtectTime' =
           IF u \in Seated THEN m_stUserProtectTime
           ELSE Assign(m_stUserProtectTime, u, config.m_iLoginProtectTime)
    /\ UNCHANGED <<m_uMinIndex, m_uMaxIndex, m_stUserQueue, m_stOnlineUser,
                   config>>

\* ProcessUserQueueHeartbeat for a player CheckCanLogin lets in.  He gets a
\* seat if he has none.  Whether the session ticket could be encrypted only
\* shows in m_iSvrRsp: the seat is kept and m_bCanLogin is TRUE either way.
HeartbeatCanLogin(u, svrRsp) ==
    /\ u \in Seated \/ SeatIsFree
    /\ Handled([type |-> "heartbeat", m_iUin |-> u, m_bCanLogin |-> TRUE,
                m_iBeforeNum |-> 0, m_iSvrRsp |-> svrRsp])
    /\ m_stUserProtectTime' =
           IF u \in Seated THEN m_stUserProtectTime
           ELSE Assign(m_stUserProtectTime, u, config.m_iLoginProtectTime)
    /\ UNCHANGED <<m_uMinIndex, m_uMaxIndex, m_stUserQueue, m_stOnlineUser,
                   config>>

\* Mutant of BeforeNum: the player himself is not counted.
BeforeNumMutant(u) == m_stUserQueue[u].m_uIndex - m_uMinIndex

\* GetBeforeNumAndUpdateAlive's answer for a waiting player.
BeforeNum(u) == m_stUserQueue[u].m_uIndex - m_uMinIndex + 1

\* The alive time is computed from a configuration that is read after
\* CheckCanLogin has read its own, so a reload may fall in between: `later'
\* is the configuration then.
HeartbeatWaiting(u, later) ==
    /\ u \in Waiting \ Seated
    /\ Handled([type |-> "heartbeat", m_iUin |-> u, m_bCanLogin |-> FALSE,
                m_iBeforeNum |-> BeforeNum(u), m_iSvrRsp |-> "SUCCESS"])
    /\ m_stUserQueue' = [m_stUserQueue EXCEPT
           ![u].m_iLastAliveTime = later.m_iQueueAliveInterval]
    /\ config' = later
    /\ UNCHANGED <<m_uMinIndex, m_uMaxIndex, m_stOnlineUser,
                   m_stUserProtectTime>>

\* Mutant of HeartbeatJoin: the index is taken before the first one.
HeartbeatJoinMutant(u, later) ==
    /\ u \notin Seated /\ ~SeatIsFree
    /\ u \notin Waiting
    /\ m_uMaxIndex < MaxIndex
    /\ Handled([type |-> "heartbeat", m_iUin |-> u, m_bCanLogin |-> FALSE,
                m_iBeforeNum |-> m_uMaxIndex + 1 - m_uMinIndex,
                m_iSvrRsp |-> "SUCCESS"])
    /\ m_uMaxIndex' = m_uMaxIndex + 1
    /\ m_stUserQueue' = Assign(m_stUserQueue, u,
           [m_uIndex |-> m_uMaxIndex - 1,
            m_iLastAliveTime |-> later.m_iQueueAliveInterval])
    /\ config' = later
    /\ UNCHANGED <<m_uMinIndex, m_stOnlineUser, m_stUserProtectTime>>

\* AddQueue: a player who has no seat and does not wait yet joins the end.
HeartbeatJoin(u, later) ==
    /\ u \notin Seated /\ ~SeatIsFree
    /\ u \notin Waiting
    /\ m_uMaxIndex < MaxIndex
    /\ Handled([type |-> "heartbeat", m_iUin |-> u, m_bCanLogin |-> FALSE,
                m_iBeforeNum |-> m_uMaxIndex + 1 - m_uMinIndex,
                m_iSvrRsp |-> "SUCCESS"])
    /\ m_uMaxIndex' = m_uMaxIndex + 1
    /\ m_stUserQueue' = Assign(m_stUserQueue, u,
           [m_uIndex |-> m_uMaxIndex,
            m_iLastAliveTime |-> later.m_iQueueAliveInterval])
    /\ config' = later
    /\ UNCHANGED <<m_uMinIndex, m_stOnlineUser, m_stUserProtectTime>>

\* ProcessUserReconnectCheck: a player may come back in only if nobody waits.
ProcessUserReconnectCheck(u) ==
    /\ Handled([type |-> "reconnect", m_iUin |-> u,
                m_bCanLogin |-> ~(GetCurQueueNum > 0)])
    /\ UNCHANGED <<queues, config>>

\* The wake-up message (command 0), an unknown command, a body that does not
\* decode, a message for the queue of another game server.
Ignore ==
    /\ Handled(NoReply)
    /\ UNCHANGED <<queues, config>>

-----------------------------------------------------------------------------
(***************************************************************************)
(* The environment: time, and the main thread reloading the configuration. *)
(***************************************************************************)
Elapse(t) == IF t >= 0 THEN t - 1 ELSE t

Tick ==
    /\ m_stUserQueue' = [u \in Waiting |-> [m_stUserQueue[u] EXCEPT
           !.m_iLastAliveTime = Elapse(@)]]
    /\ m_stUserProtectTime' =
           [u \in Protected |-> Elapse(m_stUserProtectTime[u])]
    /\ fresh' = FALSE
    /\ UNCHANGED <<m_uMinIndex, m_uMaxIndex, m_stOnlineUser, config, pc, reply>>

SetConfig(c) ==
    /\ config' = c
    /\ UNCHANGED <<queues, fresh, pc, reply>>

-----------------------------------------------------------------------------

Init ==
    /\ m_uMinIndex = 1
    /\ m_uMaxIndex = 1
    /\ m_stUserQueue = [u \in {} |-> 0]
    /\ m_stOnlineUser = {}
    /\ m_stUserProtectTime = [u \in {} |-> 0]
    /\ config \in Configs
    /\ fresh = FALSE
    /\ pc = "pop"
    /\ reply = NoReply

ProcessUserQueueHeartbeat(u) ==
    \/ \E rsp \in {"SUCCESS", "INTERN_ERROR"} : HeartbeatCanLogin(u, rsp)
    \/ \E later \in Configs : HeartbeatWaiting(u, later)
    \/ \E later \in Configs : HeartbeatJoin(u, later)

ProcessMessages ==
    \/ \E u \in Users : ProcessUserLogin(u)
    \/ \E u \in Users, bProtect \in BOOLEAN : ProcessUserLogout(u, bProtect)
    \/ \E S \in SUBSET Users : ProcessUserListOnline(S)
    \/ \E u \in Users : ProcessUserQueueHeartbeat(u)
    \/ \E u \in Users : ProcessUserReconnectCheck(u)
    \/ Ignore

Next ==
    \/ PopAndRefresh
    \/ ProcessMessages
    \/ Tick
    \/ \E c \in Configs : SetConfig(c)

Spec == Init /\ [][Next]_vars

(***************************************************************************)
(* Fairness.  The thread is a loop over a blocking queue into which the    *)
(* main thread puts a wake-up message every five seconds, so it always     *)
(* pops again and always finishes the message it popped; time passes.      *)
(***************************************************************************)
FairSpec == Spec /\ WF_vars(PopAndRefresh) /\ WF_vars(ProcessMessages)
                 /\ WF_vars(Tick)

-----------------------------------------------------------------------------
(***************************************************************************)
(* Properties.                                                             *)
(***************************************************************************)

\* The type of every variable, the bound of the model included.
TypeOK ==
    /\ m_uMinIndex \in Nat /\ m_uMaxIndex \in Nat
    /\ m_uMaxIndex <= MaxIndex
    /\ Waiting \subseteq Users
    /\ m_stUserQueue \in [Waiting -> TQueueUserInfo]
    /\ m_stOnlineUser \subseteq Users
    /\ Protected \subseteq Users
    /\ m_stUserProtectTime \in [Protected -> Int]
    /\ config \in Configs
    /\ fresh \in BOOLEAN
    /\ pc \in {"pop", "handle"}
    /\ reply \in {NoReply} \cup HeartbeatReply \cup ReconnectReply

\* A player is in one of the three containers of CQueueServerQueManage at
\* most, whatever order the notifications of the game server, the player's
\* own heartbeats and the refreshes come in: no player takes two seats from
\* the capacity that Refresh computes, and nobody who may enter holds a place
\* in the line.
OneRole ==
    /\ m_stOnlineUser \cap Protected = {}
    /\ Waiting \cap Seated = {}

\* The indices of the waiting players are distinct and lie in the window
\* m_uMinIndex .. m_uMaxIndex - 1, through every admission, expiry and reset
\* of the two bounds: the unsigned subtraction in GetBeforeNumAndUpdateAlive
\* cannot wrap, and no admission window can skip a waiting player.
IndexWindow ==
    /\ 1 <= m_uMinIndex /\ m_uMinIndex <= m_uMaxIndex
    /\ \A u \in Waiting : /\ m_uMinIndex <= m_stUserQueue[u].m_uIndex
                          /\ m_stUserQueue[u].m_uIndex < m_uMaxIndex
    /\ \A u, v \in Waiting :
           m_stUserQueue[u].m_uIndex = m_stUserQueue[v].m_uIndex => u = v

\* The answer to a queue heartbeat is true when it is sent: whoever is told
\* to log in has a seat, and whoever is told to wait waits, with no more
\* players before him than m_iBeforeNum (which counts himself) says.
HonestAnswer ==
    reply.type = "heartbeat" =>
        IF reply.m_bCanLogin
        THEN reply.m_iUin \in Seated
        ELSE /\ reply.m_iUin \in Waiting
             /\ Cardinality({v \in Waiting : AheadOf(v, reply.m_iUin)})
                    < reply.m_iBeforeNum

\* The steps in which the queue server itself decides who gets a seat.
AdmissionStep ==
    PopAndRefresh \/ \E u \in Users : ProcessUserQueueHeartbeat(u)

\* Nobody is overtaken: when a refresh or a heartbeat gives u a seat, every
\* player who was waiting before u (every waiting player, if u was not in
\* line) has left the line with that step as well.
NoOvertaking ==
    [][AdmissionStep =>
         \A u \in Seated' \ Seated, v \in Waiting :
            (u \in Waiting => AheadOf(v, u)) => v \notin Waiting']_vars

\* The queue server never admits beyond m_iMaxOnlineNum: a refresh or
\* heartbeat that seats somebody leaves at most that many seats taken, with
\* whatever capacity the configuration has been reloaded to.
CapacityRespected ==
    [][AdmissionStep /\ ~(Seated' \subseteq Seated) =>
         Cardinality(Seated') <= config.m_iMaxOnlineNum]_vars

\* The number shown to a waiting player never grows while he waits, although
\* the window moves past the indices of players who left and both bounds are
\* reset whenever a refresh finds the line empty.
PositionNeverGrows ==
    [][\A u \in Waiting \cap Waiting' : BeforeNum(u)' <= BeforeNum(u)]_vars

\* A refresh that finds a free seat.
RefreshWithSeat == PopAndRefresh /\ ~fresh /\ AllowNum > 0

\* If refreshes keep finding free seats, every waiting player gets out of the
\* line, also one who stays alive for ever and stands behind any number of
\* indices whose owners have left.
EventuallyServed ==
    []<><<RefreshWithSeat>>_vars =>
        \A u \in Users : (u \in Waiting) ~> (u \notin Waiting)

\* The login queue implements the abstract admission queue: the line is the
\* order of the indices, the seats are the online and the protected players, a
\* refresh serves the line and the handling of a message is the desk.
Line == {p \in Waiting \X Waiting : AheadOf(p[1], p[2])}

Turn == IF pc = "pop" THEN "line" ELSE "desk"

Answer ==
    IF reply.type = "heartbeat" THEN <<reply.m_iUin, reply.m_bCanLogin>>
    ELSE <<>>

Admission == INSTANCE AdmissionQueue WITH
    waiting <- Waiting,
    ahead <- Line,
    seated <- Seated,
    cap <- config.m_iMaxOnlineNum,
    turn <- Turn,
    answer <- Answer

\* Every behaviour of the queue server is one of the abstract queue.
ImplementsAdmissionQueue == Admission!Spec

=============================================================================
