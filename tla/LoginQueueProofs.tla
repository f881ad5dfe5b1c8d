------------------------- MODULE LoginQueueProofs -------------------------
(***************************************************************************)
(* Proofs about LoginQueue, for every set of players, every set of         *)
(* configurations and every bound.                                         *)
(*                                                                         *)
(* The inductive invariant is Inv: the types need m_uMaxIndex to be        *)
(* positive, the window needs the types, and the disjointness of the three *)
(* containers carries the counting arguments.                              *)
(***************************************************************************)
EXTENDS LoginQueue, FiniteSetTheorems, TLAPS

Inv == TypeOK /\ OneRole /\ IndexWindow

-----------------------------------------------------------------------------
(***************************************************************************)
(* Facts about the operators of the model.                                 *)
(***************************************************************************)

\* Every container holds finitely many players, so GetCurOnlineNum and the
\* other counts are natural numbers.
LEMMA FiniteContainers ==
    ASSUME TypeOK
    PROVE  /\ IsFiniteSet(Waiting) /\ IsFiniteSet(Protected)
           /\ IsFiniteSet(m_stOnlineUser) /\ IsFiniteSet(StillProtected)
           /\ IsFiniteSet(Seated)
<1>1. \A S \in SUBSET Users : IsFiniteSet(S)
  BY UsersAssumption, FS_Subset
<1> QED
  BY <1>1 DEF TypeOK, StillProtected, Seated

\* The number of seats a refresh may give out is a natural number, and the
\* admission window starts at m_uMinIndex.
LEMMA AllowNumType ==
    ASSUME TypeOK
    PROVE  /\ AllowNum \in Nat
           /\ CurIndex \in Nat /\ CurIndex = m_uMinIndex + AllowNum
<1>1. GetCurOnlineNum \in Nat /\ Cardinality(StillProtected) \in Nat
  BY FiniteContainers, FS_CardinalityType DEF GetCurOnlineNum
<1>2. config.m_iMaxOnlineNum \in Nat
  BY ConfigsAssumption DEF TypeOK, QueueConfig
<1>3. AllowNum \in Nat
  BY <1>1, <1>2 DEF AllowNum
<1> QED
  BY <1>3 DEF CurIndex, TypeOK

\* What a refresh leaves in the containers.
LEMMA RefreshEffect ==
    ASSUME TypeOK, RefreshQueues
    PROVE  /\ Waiting' = StillWaiting
           /\ Protected' = StillProtected \cup Admitted
           /\ \A u \in StillWaiting : m_stUserQueue'[u] = m_stUserQueue[u]
           /\ StillWaiting \subseteq Waiting /\ Admitted \subseteq Waiting
           /\ StillProtected \subseteq Protected
BY DEF RefreshQueues, Waiting, Protected, Restrict, StillWaiting, Admitted,
       Alive, StillProtected

-----------------------------------------------------------------------------
(***************************************************************************)
(* The inductive invariant.                                                *)
(***************************************************************************)

\* Empty containers satisfy the invariant.
LEMMA InitInv == Init => Inv
<1> SUFFICES ASSUME Init PROVE Inv
  OBVIOUS
<1>1. Waiting = {} /\ Protected = {} /\ Seated = {}
  BY DEF Init, Waiting, Protected, Seated
<1>2. m_stUserQueue \in [{} -> TQueueUserInfo]
      /\ m_stUserProtectTime \in [{} -> Int]
  BY DEF Init
<1>3. TypeOK
  <2>1. m_uMinIndex \in Nat /\ m_uMaxIndex \in Nat /\ m_uMaxIndex <= MaxIndex
    BY MaxIndexAssumption DEF Init
  <2> QED
    BY <1>1, <1>2, <2>1, Zenon DEF Init, TypeOK
<1> QED
  BY <1>1, <1>3 DEF Inv, OneRole, IndexWindow, Init

\* The refresh before a message is handled keeps the invariant.
LEMMA RefreshInv ==
    ASSUME Inv, PopAndRefresh
    PROVE  Inv'
<1>1. CASE fresh
  BY <1>1 DEF PopAndRefresh, Inv, TypeOK, OneRole, IndexWindow, queues,
              Waiting, Protected, Seated
<1>2. CASE ~fresh
  <2>1. RefreshQueues
    BY <1>2 DEF PopAndRefresh
  <2>2. TypeOK /\ OneRole /\ IndexWindow
    BY DEF Inv
  <2> USE <2>1, <2>2
  <2>3. CurIndex \in Nat /\ m_uMinIndex <= CurIndex
    BY AllowNumType DEF TypeOK
  <2>4. TypeOK'
    <3>1. m_uMinIndex' \in Nat /\ m_uMaxIndex' \in Nat
          /\ m_uMaxIndex' <= MaxIndex
      BY <2>3, MaxIndexAssumption DEF RefreshQueues, NextMinIndex, TypeOK
    <3>2. Waiting' \subseteq Users /\ m_stUserQueue' \in [Waiting' -> TQueueUserInfo]
      BY RefreshEffect DEF RefreshQueues, Restrict, TypeOK
    <3>3. config.m_iLoginProtectTime \in Int
      BY ConfigsAssumption DEF TypeOK, QueueConfig
    <3>4. Protected' \subseteq Users /\ m_stUserProtectTime' \in [Protected' -> Int]
      BY <3>3, RefreshEffect DEF RefreshQueues, TypeOK
    <3> QED
      BY <3>1, <3>2, <3>4 DEF TypeOK, PopAndRefresh, RefreshQueues
  <2>5. OneRole'
    BY RefreshEffect DEF OneRole, Seated, RefreshQueues, StillWaiting
  <2>6. IndexWindow'
    <3>1. CASE StillWaiting = {}
      BY <3>1, RefreshEffect DEF IndexWindow, RefreshQueues, ResetIndices
    <3>2. CASE StillWaiting # {}
      <4>1. m_uMinIndex' = NextMinIndex /\ m_uMaxIndex' = m_uMaxIndex
        BY <3>2 DEF RefreshQueues, ResetIndices
      <4>2. 1 <= m_uMinIndex' /\ m_uMinIndex' <= m_uMaxIndex'
        BY <4>1, <2>3 DEF NextMinIndex, IndexWindow, TypeOK
      <4>3. ASSUME NEW u \in Waiting'
            PROVE  /\ m_uMinIndex' <= m_stUserQueue'[u].m_uIndex
                   /\ m_stUserQueue'[u].m_uIndex < m_uMaxIndex'
        <5>1. u \in StillWaiting /\ u \in Waiting
              /\ m_stUserQueue'[u] = m_stUserQueue[u]
          BY <4>3, RefreshEffect
        <5>2. m_stUserQueue[u].m_uIndex \in Nat
          BY <5>1 DEF TypeOK, TQueueUserInfo
        <5>3. ~(m_stUserQueue[u].m_uIndex < CurIndex)
          BY <5>1 DEF StillWaiting, Admitted
        <5> QED
          BY <5>1, <5>2, <5>3, <4>1, <2>3 DEF NextMinIndex, IndexWindow, TypeOK
      <4>4. \A u, v \in Waiting' :
              m_stUserQueue'[u].m_uIndex = m_stUserQueue'[v].m_uIndex => u = v
        BY RefreshEffect DEF IndexWindow
      <4> QED
        BY <4>2, <4>3, <4>4 DEF IndexWindow
    <3> QED
      BY <3>1, <3>2
  <2> QED
    BY <2>4, <2>5, <2>6 DEF Inv
<1> QED
  BY <1>1, <1>2 DEF Inv, TypeOK


\* The replies the handlers build have the types of the replies.
LEMMA ReplyType ==
    ASSUME TypeOK, IndexWindow, NEW u \in Users
    PROVE  /\ \A rsp \in {"SUCCESS", "INTERN_ERROR"} :
                 [type |-> "heartbeat", m_iUin |-> u, m_bCanLogin |-> TRUE,
                  m_iBeforeNum |-> 0, m_iSvrRsp |-> rsp] \in HeartbeatReply
           /\ u \in Waiting =>
                 [type |-> "heartbeat", m_iUin |-> u, m_bCanLogin |-> FALSE,
                  m_iBeforeNum |-> BeforeNum(u), m_iSvrRsp |-> "SUCCESS"]
                     \in HeartbeatReply
           /\ [type |-> "heartbeat", m_iUin |-> u, m_bCanLogin |-> FALSE,
               m_iBeforeNum |-> m_uMaxIndex + 1 - m_uMinIndex,
               m_iSvrRsp |-> "SUCCESS"] \in HeartbeatReply
           /\ \A b \in BOOLEAN :
                 [type |-> "reconnect", m_iUin |-> u, m_bCanLogin |-> b]
                     \in ReconnectReply
<1>1. u \in Waiting => BeforeNum(u) \in Int
  BY DEF TypeOK, BeforeNum, TQueueUserInfo
<1>2. m_uMaxIndex + 1 - m_uMinIndex \in Int
  BY DEF TypeOK
<1> QED
  BY <1>1, <1>2 DEF HeartbeatReply, ReconnectReply

\* UserLogin, for any set of players, keeps the containers well formed.
LEMMA UserLoginInv ==
    ASSUME Inv, NEW S \in SUBSET Users, UserLogin(S)
    PROVE  /\ Waiting' = Waiting \ S /\ Protected' = Protected \ S
           /\ m_stUserQueue' \in [Waiting' -> TQueueUserInfo]
           /\ m_stUserProtectTime' \in [Protected' -> Int]
           /\ OneRole' /\ IndexWindow'
<1>1. Waiting' = Waiting \ S /\ Protected' = Protected \ S
  BY DEF UserLogin, Erase, Restrict, Waiting, Protected
<1>2. /\ \A u \in Waiting' : m_stUserQueue'[u] = m_stUserQueue[u]
      /\ \A u \in Protected' : m_stUserProtectTime'[u] = m_stUserProtectTime[u]
  BY <1>1 DEF UserLogin, Erase, Restrict, Waiting, Protected
<1>3. /\ m_stUserQueue' \in [Waiting' -> TQueueUserInfo]
      /\ m_stUserProtectTime' \in [Protected' -> Int]
  BY <1>1, <1>2 DEF UserLogin, Erase, Restrict, Inv, TypeOK, Waiting, Protected
<1>4. OneRole'
  BY <1>1 DEF UserLogin, Inv, OneRole, Seated
<1>5. IndexWindow'
  BY <1>1, <1>2 DEF UserLogin, Inv, IndexWindow
<1> QED
  BY <1>1, <1>3, <1>4, <1>5

\* So does UserLogout, with or without a protection period.
LEMMA UserLogoutInv ==
    ASSUME Inv, NEW u \in Users, NEW bProtect \in BOOLEAN,
           UserLogout(u, bProtect)
    PROVE  /\ Waiting' = Waiting \ {u}
           /\ Protected' = IF bProtect THEN Protected \cup {u} ELSE Protected
           /\ m_stUserQueue' \in [Waiting' -> TQueueUserInfo]
           /\ m_stUserProtectTime' \in [Protected' -> Int]
           /\ OneRole' /\ IndexWindow'
<1>1. /\ Waiting' = Waiting \ {u}
      /\ \A v \in Waiting' : m_stUserQueue'[v] = m_stUserQueue[v]
  BY DEF UserLogout, Erase, Restrict, Waiting
<1>2. m_stUserQueue' \in [Waiting' -> TQueueUserInfo]
  BY <1>1 DEF UserLogout, Erase, Restrict, Inv, TypeOK, Waiting
<1>3. Protected' = IF bProtect THEN Protected \cup {u} ELSE Protected
  BY DEF UserLogout, Assign, Protected
<1>4. m_stUserProtectTime' \in [Protected' -> Int]
  <2>1. config.m_iLogoutProtectTime \in Int
    BY ConfigsAssumption DEF Inv, TypeOK, QueueConfig
  <2> QED
    BY <1>3, <2>1 DEF UserLogout, Assign, Inv, TypeOK, Protected
<1>5. OneRole'
  BY <1>1, <1>3 DEF UserLogout, Inv, OneRole, Seated
<1>6. IndexWindow'
  BY <1>1 DEF UserLogout, Inv, IndexWindow
<1> QED
  BY <1>1, <1>2, <1>3, <1>4, <1>5, <1>6

\* So does a list of players who are on line,
LEMMA LoginInv ==
    ASSUME Inv, NEW S \in SUBSET Users, Handled(NoReply), UserLogin(S),
           UNCHANGED config
    PROVE  Inv'
<1>1. m_stOnlineUser' \subseteq Users
  BY DEF UserLogin, Inv, TypeOK
<1>2. m_uMinIndex' = m_uMinIndex /\ m_uMaxIndex' = m_uMaxIndex
  BY DEF UserLogin
<1>3. pc' = "pop" /\ reply' = NoReply /\ fresh' = fresh
  BY DEF Handled
<1>4. TypeOK'
  BY <1>1, <1>2, <1>3, UserLoginInv DEF Inv, TypeOK
<1> QED
  BY <1>4, UserLoginInv DEF Inv

\* a player who leaves,
LEMMA LogoutInv ==
    ASSUME Inv, NEW u \in Users, NEW bProtect \in BOOLEAN,
           ProcessUserLogout(u, bProtect)
    PROVE  Inv'
<1>1. UserLogout(u, bProtect)
  BY DEF ProcessUserLogout
<1>2. m_stOnlineUser' \subseteq Users
  BY <1>1 DEF UserLogout, Inv, TypeOK
<1>3. m_uMinIndex' = m_uMinIndex /\ m_uMaxIndex' = m_uMaxIndex
  BY <1>1 DEF UserLogout
<1>4. pc' = "pop" /\ reply' = NoReply /\ fresh' = fresh /\ config' = config
  BY DEF ProcessUserLogout, Handled
<1>5. TypeOK'
  BY <1>1, <1>2, <1>3, <1>4, UserLogoutInv DEF Inv, TypeOK
<1> QED
  BY <1>1, <1>5, UserLogoutInv DEF Inv

\* a player who asks whether it is his turn,
LEMMA HeartbeatInv ==
    ASSUME Inv, NEW u \in Users, ProcessUserQueueHeartbeat(u)
    PROVE  Inv'
<1> USE DEF Inv
<1>1. ASSUME NEW rsp \in {"SUCCESS", "INTERN_ERROR"}, HeartbeatCanLogin(u, rsp)
      PROVE  Inv'
  <2>1. Waiting' = Waiting /\ UNCHANGED <<m_uMinIndex, m_uMaxIndex,
            m_stUserQueue, m_stOnlineUser, config, fresh>>
    BY <1>1 DEF HeartbeatCanLogin, Handled, Waiting
  <2>2. Protected' = Protected \cup {u} \/ Protected' = Protected
    BY <1>1 DEF HeartbeatCanLogin, Assign, Protected
  <2>3. Seated' = Seated \cup {u} /\ u \notin Waiting
    BY <1>1, <2>1 DEF HeartbeatCanLogin, Assign, Protected, Seated,
                      SeatIsFree, OneRole
  <2>4. m_stUserProtectTime' \in [Protected' -> Int]
    <3>1. config.m_iLoginProtectTime \in Int
      BY ConfigsAssumption DEF TypeOK, QueueConfig
    <3> QED
      BY <1>1, <3>1 DEF HeartbeatCanLogin, Assign, Protected, TypeOK
  <2>5. m_stOnlineUser \cap Protected' = {}
    BY <1>1 DEF HeartbeatCanLogin, Assign, Protected, Seated, OneRole
  <2>6. reply' \in HeartbeatReply /\ pc' = "pop"
    BY <1>1, ReplyType DEF HeartbeatCanLogin, Handled
  <2>7. TypeOK'
    BY <2>1, <2>2, <2>4, <2>6 DEF TypeOK
  <2>8. OneRole'
    BY <2>1, <2>3, <2>5 DEF OneRole
  <2>9. IndexWindow'
    BY <2>1 DEF IndexWindow
  <2> QED
    BY <2>7, <2>8, <2>9
<1>2. ASSUME NEW later \in Configs, HeartbeatWaiting(u, later)
      PROVE  Inv'
  <2>1. /\ Protected' = Protected /\ Seated' = Seated
        /\ UNCHANGED <<m_uMinIndex, m_uMaxIndex, m_stOnlineUser,
                       m_stUserProtectTime, fresh>>
        /\ config' \in Configs
    BY <1>2 DEF HeartbeatWaiting, Handled, Protected, Seated
  <2>2. later.m_iQueueAliveInterval \in Int
    BY ConfigsAssumption DEF QueueConfig
  <2>3. Waiting' = Waiting /\ u \in Waiting
    BY <1>2 DEF HeartbeatWaiting, Waiting
  <2>4. m_stUserQueue' \in [Waiting' -> TQueueUserInfo]
    BY <1>2, <2>2, <2>3 DEF HeartbeatWaiting, TypeOK, TQueueUserInfo
  <2>5. \A v \in Waiting :
            m_stUserQueue'[v].m_uIndex = m_stUserQueue[v].m_uIndex
    BY <1>2, <2>3 DEF HeartbeatWaiting, TypeOK, TQueueUserInfo
  <2>6. reply' \in HeartbeatReply /\ pc' = "pop"
    BY <1>2, <2>3, ReplyType DEF HeartbeatWaiting, Handled
  <2>7. TypeOK'
    BY <2>1, <2>3, <2>4, <2>6 DEF TypeOK
  <2>8. OneRole'
    BY <2>1, <2>3 DEF OneRole
  <2>9. IndexWindow'
    BY <2>1, <2>3, <2>5 DEF IndexWindow
  <2> QED
    BY <2>7, <2>8, <2>9
<1>3. ASSUME NEW later \in Configs, HeartbeatJoin(u, later)
      PROVE  Inv'
  <2>1. /\ Protected' = Protected /\ Seated' = Seated
        /\ UNCHANGED <<m_uMinIndex, m_stOnlineUser, m_stUserProtectTime, fresh>>
        /\ config' \in Configs
    BY <1>3 DEF HeartbeatJoin, Handled, Protected, Seated
  <2>2. later.m_iQueueAliveInterval \in Int
    BY ConfigsAssumption DEF QueueConfig
  <2>3. /\ Waiting' = Waiting \cup {u} /\ u \notin Waiting /\ u \notin Seated
        /\ m_stUserQueue'[u].m_uIndex = m_uMaxIndex
        /\ \A v \in Waiting : m_stUserQueue'[v] = m_stUserQueue[v]
    BY <1>3 DEF HeartbeatJoin, Waiting, Assign
  <2>4. m_uMaxIndex \in Nat \ {0} /\ m_uMaxIndex' = m_uMaxIndex + 1
        /\ m_uMaxIndex < MaxIndex
    BY <1>3 DEF HeartbeatJoin, TypeOK, IndexWindow
  <2>5. m_stUserQueue' \in [Waiting' -> TQueueUserInfo]
    BY <1>3, <2>2, <2>3, <2>4 DEF HeartbeatJoin, Assign, TypeOK, TQueueUserInfo,
                                  Waiting
  <2>6. reply' \in HeartbeatReply /\ pc' = "pop"
    BY <1>3, ReplyType DEF HeartbeatJoin, Handled
  <2>7. TypeOK'
    <3>1. m_uMaxIndex' \in Nat /\ m_uMaxIndex' <= MaxIndex
      BY <2>4, MaxIndexAssumption
    <3> QED
      BY <2>1, <2>3, <2>5, <2>6, <3>1 DEF TypeOK
  <2>8. OneRole'
    BY <2>1, <2>3 DEF OneRole
  <2>9. IndexWindow'
    <3>1. \A v \in Waiting : m_stUserQueue[v].m_uIndex \in Nat
      BY DEF TypeOK, TQueueUserInfo
    <3> QED
      BY <2>1, <2>3, <2>4, <3>1 DEF IndexWindow, TypeOK
  <2> QED
    BY <2>7, <2>8, <2>9
<1> QED
  BY <1>1, <1>2, <1>3 DEF ProcessUserQueueHeartbeat

\* and the passing of a second.
LEMMA TickInv ==
    ASSUME Inv, Tick
    PROVE  Inv'
<1> USE DEF Inv
<1>1. Waiting' = Waiting /\ Protected' = Protected /\ Seated' = Seated
  BY DEF Tick, Waiting, Protected, Seated
<1>2. \A t \in Int : Elapse(t) \in Int
  BY DEF Elapse
<1>3. m_stUserQueue' \in [Waiting' -> TQueueUserInfo]
      /\ \A u \in Waiting : m_stUserQueue'[u].m_uIndex = m_stUserQueue[u].m_uIndex
  BY <1>1, <1>2 DEF Tick, TypeOK, TQueueUserInfo
<1>4. m_stUserProtectTime' \in [Protected' -> Int]
  BY <1>1, <1>2 DEF Tick, TypeOK
<1>5. fresh' \in BOOLEAN /\ UNCHANGED <<m_uMinIndex, m_uMaxIndex,
          m_stOnlineUser, config, pc, reply>>
  BY DEF Tick
<1>6. TypeOK'
  BY <1>1, <1>3, <1>4, <1>5 DEF TypeOK
<1>7. OneRole' /\ IndexWindow'
  BY <1>1, <1>3, <1>5 DEF OneRole, IndexWindow
<1> QED
  BY <1>6, <1>7

\* Every step keeps the invariant.
LEMMA NextInv == Inv /\ [Next]_vars => Inv'
<1> SUFFICES ASSUME Inv, [Next]_vars PROVE Inv'
  OBVIOUS
<1>1. CASE PopAndRefresh
  BY <1>1, RefreshInv
<1>2. ASSUME NEW u \in Users, ProcessUserLogin(u)
      PROVE  Inv'
  BY <1>2, LoginInv DEF ProcessUserLogin
<1>3. ASSUME NEW u \in Users, NEW bProtect \in BOOLEAN,
             ProcessUserLogout(u, bProtect)
      PROVE  Inv'
  BY <1>3, LogoutInv
<1>4. ASSUME NEW S \in SUBSET Users, ProcessUserListOnline(S)
      PROVE  Inv'
  BY <1>4, LoginInv DEF ProcessUserListOnline
<1>5. ASSUME NEW u \in Users, ProcessUserQueueHeartbeat(u)
      PROVE  Inv'
  BY <1>5, HeartbeatInv
<1>6. ASSUME NEW r \in {NoReply} \cup ReconnectReply, Handled(r),
             UNCHANGED <<queues, config>>
      PROVE  Inv'
  BY <1>6 DEF Inv, TypeOK, OneRole, IndexWindow, Handled, queues,
              Waiting, Protected, Seated
<1>7. ASSUME NEW u \in Users, ProcessUserReconnectCheck(u)
      PROVE  Inv'
  <2>1. [type |-> "reconnect", m_iUin |-> u,
         m_bCanLogin |-> ~(GetCurQueueNum > 0)] \in ReconnectReply
    BY ReplyType DEF Inv
  <2> QED
    BY <1>6, <1>7, <2>1 DEF ProcessUserReconnectCheck
<1>8. CASE Ignore
  BY <1>6, <1>8 DEF Ignore
<1>9. CASE Tick
  BY <1>9, TickInv
<1>10. ASSUME NEW c \in Configs, SetConfig(c)
       PROVE  Inv'
  BY <1>10 DEF SetConfig, Inv, TypeOK, OneRole, IndexWindow, queues,
               Waiting, Protected, Seated
<1>11. CASE UNCHANGED vars
  BY <1>11 DEF vars, Inv, TypeOK, OneRole, IndexWindow, queues,
               Waiting, Protected, Seated
<1> QED
  BY <1>1, <1>2, <1>3, <1>4, <1>5, <1>7, <1>8, <1>9, <1>10, <1>11
  DEF Next, ProcessMessages

\* The invariant holds in every behaviour.
LEMMA Invariance == Spec => []Inv
BY InitInv, NextInv, PTL DEF Spec

\* The variables have their types in every reachable state.
THEOREM TypeCorrect == Spec => []TypeOK
<1>1. Inv => TypeOK
  BY DEF Inv
<1> QED
  BY <1>1, Invariance, PTL

\* No player is in two of the three containers of the queue server.
THEOREM ContainersDisjoint == Spec => []OneRole
<1>1. Inv => OneRole
  BY DEF Inv
<1> QED
  BY <1>1, Invariance, PTL

\* The indices of the waiting players are distinct and inside the window.
THEOREM IndicesInWindow == Spec => []IndexWindow
<1>1. Inv => IndexWindow
  BY DEF Inv
<1> QED
  BY <1>1, Invariance, PTL

-----------------------------------------------------------------------------
(***************************************************************************)
(* Counting: distinct indices in a window are at most as many as the       *)
(* window is long.                                                         *)
(***************************************************************************)

\* A set of waiting players whose indices lie in m_uMinIndex .. hi - 1 has at
\* most hi - m_uMinIndex members.
LEMMA WindowCount ==
    ASSUME TypeOK, IndexWindow, NEW hi \in Nat, m_uMinIndex <= hi,
           NEW S \in SUBSET Waiting,
           \A u \in S : m_stUserQueue[u].m_uIndex < hi
    PROVE  /\ IsFiniteSet(S) /\ Cardinality(S) \in Nat
           /\ Cardinality(S) <= hi - m_uMinIndex
<1> DEFINE f == [u \in S |-> m_stUserQueue[u].m_uIndex]
           T == m_uMinIndex .. (hi - 1)
<1>1. \A u \in S : m_stUserQueue[u].m_uIndex \in T
  BY DEF TypeOK, IndexWindow, TQueueUserInfo
<1>2. f \in Injection(S, T)
  BY <1>1 DEF Injection, IsInjective, IndexWindow
<1>3. m_uMinIndex \in Int /\ hi - 1 \in Int /\ m_uMinIndex \in Nat
  BY DEF TypeOK
<1>4. IsFiniteSet(T) /\ Cardinality(T) = hi - m_uMinIndex
  BY <1>3, FS_Interval
<1>5. IsFiniteSet(S) /\ Cardinality(S) <= Cardinality(T)
  BY <1>2, <1>4, FS_Injection
<1> QED
  BY <1>4, <1>5, FS_CardinalityType

\* A union of two finite sets has at most as many members as the two sets.
LEMMA UnionCount ==
    ASSUME NEW S, IsFiniteSet(S), NEW T, IsFiniteSet(T)
    PROVE  /\ IsFiniteSet(S \cup T) /\ Cardinality(S \cup T) \in Nat
           /\ Cardinality(S \cup T) <= Cardinality(S) + Cardinality(T)
<1>1. S \cap T \in SUBSET S
  OBVIOUS
<1>2. IsFiniteSet(S \cap T)
  BY <1>1, FS_Subset
<1>3. IsFiniteSet(S \cup T)
      /\ Cardinality(S \cup T)
             = Cardinality(S) + Cardinality(T) - Cardinality(S \cap T)
  BY FS_Union
<1>4. /\ Cardinality(S) \in Nat /\ Cardinality(T) \in Nat
      /\ Cardinality(S \cap T) \in Nat
  BY <1>2, FS_CardinalityType
<1>5. Cardinality(S \cup T) \in Nat
  BY <1>3, FS_CardinalityType
<1> QED
  BY <1>3, <1>4, <1>5

-----------------------------------------------------------------------------
(***************************************************************************)
(* The answers to heartbeats.                                              *)
(***************************************************************************)

\* The inductive form of HonestAnswer: the number in the answer is the
\* player's current position.
ReplyInv ==
    reply.type = "heartbeat" =>
        IF reply.m_bCanLogin
        THEN reply.m_iUin \in Seated
        ELSE /\ reply.m_iUin \in Waiting
             /\ reply.m_iBeforeNum = BeforeNum(reply.m_iUin)

\* Every step keeps the last answer in keeping with the containers.
LEMMA ReplyInvStep ==
    ASSUME Inv, ReplyInv, [Next]_vars
    PROVE  ReplyInv'
<1>1. ASSUME reply' = NoReply
      PROVE  ReplyInv'
  BY <1>1 DEF NoReply, ReplyInv
<1>2. ASSUME NEW u \in Users, NEW rsp, HeartbeatCanLogin(u, rsp)
      PROVE  ReplyInv'
  <2>1. u \in Seated'
    BY <1>2 DEF HeartbeatCanLogin, Assign, Protected, Seated
  <2>2. reply' = [type |-> "heartbeat", m_iUin |-> u, m_bCanLogin |-> TRUE,
                  m_iBeforeNum |-> 0, m_iSvrRsp |-> rsp]
    BY <1>2 DEF HeartbeatCanLogin, Handled
  <2> QED
    BY <2>1, <2>2 DEF ReplyInv
<1>3. ASSUME NEW u \in Users, NEW later, HeartbeatWaiting(u, later)
      PROVE  ReplyInv'
  <2>1. u \in Waiting /\ u \in Waiting' /\ m_uMinIndex' = m_uMinIndex
    BY <1>3 DEF HeartbeatWaiting, Waiting
  <2>2. m_stUserQueue'[u].m_uIndex = m_stUserQueue[u].m_uIndex
    BY <1>3, <2>1 DEF HeartbeatWaiting, Inv, TypeOK, TQueueUserInfo, Waiting
  <2>3. reply' = [type |-> "heartbeat", m_iUin |-> u, m_bCanLogin |-> FALSE,
                  m_iBeforeNum |-> BeforeNum(u), m_iSvrRsp |-> "SUCCESS"]
    BY <1>3 DEF HeartbeatWaiting, Handled
  <2> QED
    BY <2>1, <2>2, <2>3 DEF ReplyInv, BeforeNum
<1>4. ASSUME NEW u \in Users, NEW later, HeartbeatJoin(u, later)
      PROVE  ReplyInv'
  <2>1. u \in Waiting' /\ m_stUserQueue'[u].m_uIndex = m_uMaxIndex
        /\ m_uMinIndex' = m_uMinIndex
    BY <1>4 DEF HeartbeatJoin, Waiting, Assign
  <2>2. reply' = [type |-> "heartbeat", m_iUin |-> u, m_bCanLogin |-> FALSE,
                  m_iBeforeNum |-> m_uMaxIndex + 1 - m_uMinIndex,
                  m_iSvrRsp |-> "SUCCESS"]
    BY <1>4 DEF HeartbeatJoin, Handled
  <2>3. m_uMaxIndex + 1 - m_uMinIndex = m_uMaxIndex - m_uMinIndex + 1
    BY DEF Inv, TypeOK
  <2> QED
    BY <2>1, <2>2, <2>3 DEF ReplyInv, BeforeNum
<1>5. ASSUME NEW u \in Users, ProcessUserReconnectCheck(u)
      PROVE  ReplyInv'
  BY <1>5 DEF ProcessUserReconnectCheck, Handled, ReplyInv
<1>6. CASE Tick
  <2>1. Waiting' = Waiting /\ Seated' = Seated /\ reply' = reply
        /\ m_uMinIndex' = m_uMinIndex
    BY <1>6 DEF Tick, Waiting, Protected, Seated
  <2>2. \A u \in Waiting : m_stUserQueue'[u].m_uIndex = m_stUserQueue[u].m_uIndex
    BY <1>6 DEF Tick, Inv, TypeOK, TQueueUserInfo
  <2> QED
    BY <2>1, <2>2 DEF ReplyInv, BeforeNum
<1>7. ASSUME UNCHANGED <<queues, reply>>
      PROVE  ReplyInv'
  BY <1>7 DEF queues, ReplyInv, BeforeNum, Waiting, Protected, Seated
<1> QED
  BY <1>1, <1>2, <1>3, <1>4, <1>5, <1>6, <1>7
  DEF Next, ProcessMessages, ProcessUserQueueHeartbeat, PopAndRefresh,
      ProcessUserLogin, ProcessUserLogout, ProcessUserListOnline, Ignore,
      Handled, SetConfig, vars

\* A player's position is larger than the number of players before him.
LEMMA PositionCoversAhead ==
    ASSUME TypeOK, IndexWindow, NEW u \in Waiting
    PROVE  Cardinality({v \in Waiting : AheadOf(v, u)}) < BeforeNum(u)
<1>1. m_stUserQueue[u].m_uIndex \in Nat
      /\ m_uMinIndex <= m_stUserQueue[u].m_uIndex
  BY DEF TypeOK, IndexWindow, TQueueUserInfo
<1>2. Cardinality({v \in Waiting : AheadOf(v, u)})
          <= m_stUserQueue[u].m_uIndex - m_uMinIndex
      /\ Cardinality({v \in Waiting : AheadOf(v, u)}) \in Nat
  BY <1>1, WindowCount DEF AheadOf
<1> QED
  BY <1>1, <1>2 DEF BeforeNum, TypeOK

\* Whoever is told to log in has a seat; whoever is told to wait is told a
\* number that exceeds the number of players before him.
THEOREM AnswersHonest == Spec => []HonestAnswer
<1>1. Init => ReplyInv
  BY DEF Init, ReplyInv, NoReply
<1>2. Inv /\ ReplyInv /\ [Next]_vars => ReplyInv'
  BY ReplyInvStep
<1>3. Inv /\ ReplyInv => HonestAnswer
  BY PositionCoversAhead DEF Inv, ReplyInv, HonestAnswer
<1> QED
  BY <1>1, <1>2, <1>3, Invariance, PTL DEF Spec

-----------------------------------------------------------------------------
(***************************************************************************)
(* What the admissions may never do.                                       *)
(***************************************************************************)

\* A refresh seats the admitted players only; a heartbeat seats its sender,
\* and only when nobody waits.
LEMMA WhoIsSeated ==
    ASSUME Inv, AdmissionStep, NEW u \in Seated' \ Seated
    PROVE  \/ ~fresh /\ RefreshQueues /\ u \in Admitted /\ config' = config
           \/ /\ SeatIsFree /\ Waiting' = Waiting /\ config' = config
              /\ Seated' = Seated \cup {u}
<1>1. CASE PopAndRefresh /\ fresh
  BY <1>1 DEF PopAndRefresh, queues, Seated, Protected
<1>2. CASE PopAndRefresh /\ ~fresh
  <2>1. RefreshQueues /\ ~fresh /\ m_stOnlineUser' = m_stOnlineUser
    BY <1>2 DEF PopAndRefresh, RefreshQueues
  <2>2. u \in Admitted
    BY <2>1, RefreshEffect DEF Seated, Inv
  <2> QED
    BY <1>2, <2>1, <2>2 DEF PopAndRefresh
<1>3. ASSUME NEW w \in Users, NEW rsp, HeartbeatCanLogin(w, rsp)
      PROVE  SeatIsFree /\ Waiting' = Waiting /\ config' = config
             /\ Seated' = Seated \cup {u}
  <2>1. CASE w \in Seated
    BY <1>3, <2>1 DEF HeartbeatCanLogin, Seated, Protected
  <2>2. CASE w \notin Seated
    <3>1. SeatIsFree /\ Waiting' = Waiting /\ config' = config
      BY <1>3, <2>2 DEF HeartbeatCanLogin, Waiting
    <3>2. Seated' = Seated \cup {w}
      BY <1>3, <2>2 DEF HeartbeatCanLogin, Assign, Seated, Protected
    <3> QED
      BY <3>1, <3>2
  <2> QED
    BY <2>1, <2>2
<1>4. ASSUME NEW w \in Users, NEW later,
             HeartbeatWaiting(w, later) \/ HeartbeatJoin(w, later)
      PROVE  FALSE
  BY <1>4 DEF HeartbeatWaiting, HeartbeatJoin, Seated, Protected
<1> QED
  BY <1>1, <1>2, <1>3, <1>4 DEF AdmissionStep, ProcessUserQueueHeartbeat, Inv, TypeOK

\* No refresh and no heartbeat seats a player and leaves somebody who was
\* before him in the line.
THEOREM LineRespected == Spec => NoOvertaking
<1>1. ASSUME Inv, AdmissionStep, NEW u \in Seated' \ Seated, NEW v \in Waiting,
             u \in Waiting => AheadOf(v, u)
      PROVE  v \notin Waiting'
  <2>1. CASE SeatIsFree
    BY <2>1 DEF SeatIsFree
  <2>2. CASE RefreshQueues /\ u \in Admitted
    <3>1. u \in Waiting /\ m_stUserQueue[u].m_uIndex < CurIndex
      BY <2>2 DEF Admitted, Alive
    <3>2. m_stUserQueue[v].m_uIndex < m_stUserQueue[u].m_uIndex
      BY <1>1, <3>1 DEF AheadOf
    <3>3. m_stUserQueue[v].m_uIndex \in Nat /\ m_stUserQueue[u].m_uIndex \in Nat
      BY <1>1, <3>1 DEF Inv, TypeOK, TQueueUserInfo
    <3>4. CurIndex \in Nat
      BY <1>1, AllowNumType DEF Inv
    <3>5. m_stUserQueue[v].m_uIndex < CurIndex
      BY <3>1, <3>2, <3>3, <3>4
    <3> QED
      BY <1>1, <2>2, <3>5, RefreshEffect DEF Inv, StillWaiting, Admitted
  <2> QED
    BY <1>1, <2>1, <2>2, WhoIsSeated
<1>2. Inv => [AdmissionStep =>
                \A u \in Seated' \ Seated, v \in Waiting :
                   (u \in Waiting => AheadOf(v, u)) => v \notin Waiting']_vars
  BY <1>1
<1> QED
  BY <1>2, Invariance, PTL DEF NoOvertaking

\* After a step in which the queue server seats somebody, at most
\* m_iMaxOnlineNum seats are taken.
LEMMA SeatsWithinCapacity ==
    ASSUME Inv, AdmissionStep, NEW u \in Seated' \ Seated
    PROVE  Cardinality(Seated') <= config.m_iMaxOnlineNum
<1> USE DEF Inv
<1>1. config.m_iMaxOnlineNum \in Nat
  BY ConfigsAssumption DEF TypeOK, QueueConfig
<1>2. /\ IsFiniteSet(m_stOnlineUser) /\ GetCurOnlineNum \in Nat
      /\ IsFiniteSet(Protected) /\ Cardinality(Protected) \in Nat
      /\ IsFiniteSet(StillProtected) /\ Cardinality(StillProtected) \in Nat
  BY FiniteContainers, FS_CardinalityType DEF GetCurOnlineNum
<1>3. CASE SeatIsFree /\ Seated' = Seated \cup {u}
  <2>1. /\ IsFiniteSet(Seated) /\ Cardinality(Seated) \in Nat
        /\ Cardinality(Seated) <= GetCurOnlineNum + Cardinality(Protected)
    BY <1>2, UnionCount DEF Seated, GetCurOnlineNum
  <2>2. Cardinality(Seated') = Cardinality(Seated) + 1
    BY <1>3, <2>1, FS_AddElement
  <2> QED
    BY <1>1, <1>2, <1>3, <2>1, <2>2 DEF SeatIsFree
<1>4. CASE RefreshQueues /\ u \in Admitted
  <2>1. /\ AllowNum \in Nat /\ CurIndex \in Nat /\ m_uMinIndex \in Nat
        /\ CurIndex = m_uMinIndex + AllowNum
    BY AllowNumType DEF TypeOK
  <2>2. /\ IsFiniteSet(Admitted) /\ Cardinality(Admitted) \in Nat
        /\ Cardinality(Admitted) <= AllowNum
    <3>1. Admitted \in SUBSET Waiting
          /\ \A w \in Admitted : m_stUserQueue[w].m_uIndex < CurIndex
      BY DEF Admitted, Alive
    <3>2. /\ IsFiniteSet(Admitted) /\ Cardinality(Admitted) \in Nat
          /\ Cardinality(Admitted) <= CurIndex - m_uMinIndex
      BY <2>1, <3>1, WindowCount
    <3> QED
      BY <2>1, <3>2
  <2>3. Cardinality(Admitted) # 0
    BY <1>4, <2>2, FS_EmptySet
  <2>4. AllowNum = config.m_iMaxOnlineNum - GetCurOnlineNum
                       - Cardinality(StillProtected)
    BY <1>1, <1>2, <2>1, <2>2, <2>3 DEF AllowNum
  <2> DEFINE P == StillProtected \cup Admitted
  <2>5. /\ IsFiniteSet(P) /\ Cardinality(P) \in Nat
        /\ Cardinality(P) <= Cardinality(StillProtected) + Cardinality(Admitted)
    BY <1>2, <2>2, UnionCount
  <2>6. Seated' = m_stOnlineUser \cup P
    BY <1>4, RefreshEffect DEF Seated, RefreshQueues
  <2>7. /\ Cardinality(m_stOnlineUser \cup P) \in Nat
        /\ Cardinality(m_stOnlineUser \cup P) <= GetCurOnlineNum + Cardinality(P)
    <3> HIDE DEF P
    <3> QED
      BY <1>2, <2>5, UnionCount DEF GetCurOnlineNum
  <2> HIDE DEF P
  <2> QED
    BY <1>1, <1>2, <2>2, <2>4, <2>5, <2>6, <2>7
<1> QED
  BY <1>3, <1>4, WhoIsSeated

\* No refresh and no heartbeat admits beyond m_iMaxOnlineNum.
THEOREM CapacityKept == Spec => CapacityRespected
<1>1. Inv => [AdmissionStep /\ ~(Seated' \subseteq Seated) =>
                Cardinality(Seated') <= config.m_iMaxOnlineNum]_vars
  BY SeatsWithinCapacity
<1> QED
  BY <1>1, Invariance, PTL DEF CapacityRespected

\* The position of a waiting player never grows.
THEOREM PositionMonotone == Spec => PositionNeverGrows
<1>1. ASSUME Inv, [Next]_vars, NEW u \in Waiting \cap Waiting'
      PROVE  BeforeNum(u)' <= BeforeNum(u)
  <2> USE DEF Inv
  <2>1. m_stUserQueue[u].m_uIndex \in Nat /\ m_uMinIndex \in Nat
    BY <1>1 DEF TypeOK, TQueueUserInfo
  <2>2. ASSUME m_uMinIndex' \in Nat, m_uMinIndex <= m_uMinIndex',
               m_stUserQueue'[u].m_uIndex = m_stUserQueue[u].m_uIndex
        PROVE  BeforeNum(u)' <= BeforeNum(u)
    BY <2>1, <2>2 DEF BeforeNum
  <2>3. CASE PopAndRefresh
    <3>1. CASE fresh
      BY <2>1, <2>2, <2>3, <3>1 DEF PopAndRefresh, queues
    <3>2. CASE ~fresh
      <4>1. RefreshQueues
        BY <2>3, <3>2 DEF PopAndRefresh
      <4>2. u \in StillWaiting /\ m_stUserQueue'[u] = m_stUserQueue[u]
        BY <1>1, <4>1, RefreshEffect
      <4>3. m_uMinIndex' = NextMinIndex
        BY <4>1, <4>2 DEF RefreshQueues, ResetIndices
      <4>4. m_uMinIndex' \in Nat /\ m_uMinIndex <= m_uMinIndex'
        BY <1>1, <4>3, AllowNumType DEF NextMinIndex, TypeOK, IndexWindow
      <4> QED
        BY <2>2, <4>2, <4>4
    <3> QED
      BY <1>1, <3>1, <3>2 DEF TypeOK
  <2>4. ASSUME m_uMinIndex' = m_uMinIndex,
               m_stUserQueue'[u].m_uIndex = m_stUserQueue[u].m_uIndex
        PROVE  BeforeNum(u)' <= BeforeNum(u)
    BY <2>1, <2>2, <2>4
  <2>5. ASSUME NEW S, UserLogin(S)
        PROVE  BeforeNum(u)' <= BeforeNum(u)
    BY <1>1, <2>4, <2>5 DEF UserLogin, Erase, Restrict, Waiting
  <2>6. ASSUME NEW w, NEW b, UserLogout(w, b)
        PROVE  BeforeNum(u)' <= BeforeNum(u)
    BY <1>1, <2>4, <2>6 DEF UserLogout, Erase, Restrict, Waiting
  <2>7. ASSUME NEW w \in Users, ProcessUserQueueHeartbeat(w)
        PROVE  BeforeNum(u)' <= BeforeNum(u)
    <3>1. m_uMinIndex' = m_uMinIndex
      BY <2>7 DEF ProcessUserQueueHeartbeat, HeartbeatCanLogin,
                  HeartbeatWaiting, HeartbeatJoin
    <3>2. ASSUME NEW rsp, HeartbeatCanLogin(w, rsp)
          PROVE  m_stUserQueue'[u].m_uIndex = m_stUserQueue[u].m_uIndex
      BY <3>2 DEF HeartbeatCanLogin
    <3>3. ASSUME NEW later, HeartbeatWaiting(w, later)
          PROVE  m_stUserQueue'[u].m_uIndex = m_stUserQueue[u].m_uIndex
      BY <1>1, <3>3 DEF HeartbeatWaiting, TypeOK, TQueueUserInfo, Waiting
    <3>4. ASSUME NEW later, HeartbeatJoin(w, later)
          PROVE  m_stUserQueue'[u].m_uIndex = m_stUserQueue[u].m_uIndex
      BY <1>1, <3>4 DEF HeartbeatJoin, Assign, Waiting
    <3> QED
      BY <2>4, <2>7, <3>1, <3>2, <3>3, <3>4 DEF ProcessUserQueueHeartbeat
  <2>8. CASE Tick
    BY <1>1, <2>4, <2>8 DEF Tick, TypeOK, TQueueUserInfo
  <2>9. ASSUME UNCHANGED queues
        PROVE  BeforeNum(u)' <= BeforeNum(u)
    BY <2>4, <2>9 DEF queues
  <2> QED
    BY <1>1, <2>3, <2>5, <2>6, <2>7, <2>8, <2>9
    DEF Next, ProcessMessages, ProcessUserLogin, ProcessUserLogout,
        ProcessUserListOnline, ProcessUserReconnectCheck, Ignore, SetConfig,
        vars
<1>2. Inv /\ [Next]_vars =>
        [\A u \in Waiting \cap Waiting' : BeforeNum(u)' <= BeforeNum(u)]_vars
  BY <1>1
<1> QED
  BY <1>2, Invariance, PTL DEF Spec, PositionNeverGrows

-----------------------------------------------------------------------------
(***************************************************************************)
(* The login queue implements the abstract admission queue.                *)
(***************************************************************************)

\* The line changes with the waiting players and their indices only: if the
\* players who go on waiting keep their indices, those who leave are removed
\* from the line and the order of the others stays.
LEMMA LineWithout ==
    ASSUME Waiting' \subseteq Waiting,
           \A v \in Waiting' :
               m_stUserQueue'[v].m_uIndex = m_stUserQueue[v].m_uIndex
    PROVE  Line' = Line \cap (Waiting' \X Waiting')
BY DEF Line, AheadOf

\* The instance of AdmissionQueue brings its own copy of Cardinality.
LEMMA SameCardinality == \A S : Admission!Cardinality(S) = Cardinality(S)
BY Zenon DEF Admission!Cardinality, Cardinality

\* The capacity is a natural number.
LEMMA CapType == ASSUME TypeOK PROVE config.m_iMaxOnlineNum \in Nat
BY ConfigsAssumption DEF TypeOK, QueueConfig

\* The queue is initially empty in the abstract specification too.
LEMMA InitRefines == Init => Admission!Init
<1> SUFFICES ASSUME Init PROVE Admission!Init
  OBVIOUS
<1>1. Waiting = {} /\ Seated = {} /\ Line = {}
  BY DEF Init, Waiting, Seated, Protected, Line
<1>2. config.m_iMaxOnlineNum \in Nat
  BY ConfigsAssumption DEF Init, QueueConfig
<1> QED
  BY <1>1, <1>2 DEF Init, NoReply, Turn, Answer, Admission!Init

\* Handling a message is serving the desk, here with nobody told anything.
LEMMA NoReplyRefines == ASSUME Handled(NoReply) PROVE Admission!Desk(<<>>)
BY DEF Handled, NoReply, Turn, Answer, Admission!Desk

\* A refresh is one round of admissions.
LEMMA RefreshRefines ==
    ASSUME Inv, PopAndRefresh, ~fresh
    PROVE  Admission!Serve
<1> USE DEF Inv
<1>0. Turn = "line" /\ Turn' = "desk" /\ Answer' = <<>>
  BY DEF PopAndRefresh, Turn, Answer, NoReply
<1>1. RefreshQueues /\ config' = config
  BY DEF PopAndRefresh
<1> DEFINE vacated == Seated \ (m_stOnlineUser \cup StillProtected)
           gaveUp == Waiting \ Alive
<1>2. /\ StillWaiting \subseteq Waiting /\ Admitted \subseteq Waiting \ gaveUp
      /\ Waiting \ (gaveUp \cup Admitted) = StillWaiting
      /\ StillProtected \subseteq Protected
  BY DEF StillWaiting, Admitted, Alive, StillProtected
<1>3. \A u \in Admitted, v \in StillWaiting : <<u, v>> \in Line
  <2> TAKE u \in Admitted, v \in StillWaiting
  <2>1. u \in Waiting /\ v \in Waiting
    BY <1>2
  <2>2. /\ m_stUserQueue[u].m_uIndex \in Nat /\ m_stUserQueue[v].m_uIndex \in Nat
        /\ CurIndex \in Nat
    BY <2>1, AllowNumType DEF TypeOK, TQueueUserInfo
  <2>3. /\ m_stUserQueue[u].m_uIndex < CurIndex
        /\ ~(m_stUserQueue[v].m_uIndex < CurIndex)
    BY DEF Admitted, StillWaiting
  <2> QED
    BY <2>1, <2>2, <2>3 DEF Line, AheadOf
<1>4. Seated' = (Seated \ vacated) \cup Admitted
  BY <1>1, <1>2, RefreshEffect DEF Seated, RefreshQueues
<1>5. Admitted = {} \/ Cardinality((Seated \ vacated) \cup Admitted)
                           <= config.m_iMaxOnlineNum
  <2>1. SUFFICES ASSUME Admitted # {}
                 PROVE  Cardinality(Seated') <= config.m_iMaxOnlineNum
    BY <1>4
  <2>2. PICK u \in Admitted : TRUE
    BY <2>1
  <2>3. u \in Seated' \ Seated
    BY <1>2, <1>4, <2>2 DEF OneRole
  <2> QED
    BY <2>3, SeatsWithinCapacity DEF AdmissionStep
<1>6. /\ Waiting' = Waiting \ (gaveUp \cup Admitted)
      /\ Line' = Line \cap (Waiting' \X Waiting')
  <2>1. Waiting' = StillWaiting
        /\ \A v \in Waiting' : m_stUserQueue'[v] = m_stUserQueue[v]
    BY <1>1, RefreshEffect
  <2> QED
    BY <1>2, <2>1, LineWithout
<1>7. vacated \in SUBSET Seated /\ gaveUp \in SUBSET Waiting
      /\ Admitted \in SUBSET (Waiting \ gaveUp)
  BY <1>2
<1>8. \A u \in Admitted, v \in Waiting \ (gaveUp \cup Admitted) : <<u, v>> \in Line
  BY <1>2, <1>3
<1> HIDE DEF vacated, gaveUp
<1>9. Admitted = {} \/ Admission!Cardinality((Seated \ vacated) \cup Admitted)
                           <= config.m_iMaxOnlineNum
  BY <1>5, SameCardinality
<1>10. UNCHANGED config.m_iMaxOnlineNum
  BY <1>1
<1>11. SUFFICES
      \E v \in SUBSET Seated, g \in SUBSET Waiting :
         \E A \in SUBSET (Waiting \ g) :
            /\ \A u \in A, w \in Waiting \ (g \cup A) : <<u, w>> \in Line
            /\ A = {} \/ Admission!Cardinality((Seated \ v) \cup A)
                             <= config.m_iMaxOnlineNum
            /\ Seated' = (Seated \ v) \cup A
            /\ Waiting' = Waiting \ (g \cup A)
            /\ Line' = Line \cap (Waiting' \X Waiting')
            /\ UNCHANGED config.m_iMaxOnlineNum
  BY <1>0, <1>11, Zenon DEF Admission!Serve, Admission!Without
<1> USE <1>7
<1> WITNESS vacated \in SUBSET Seated, gaveUp \in SUBSET Waiting
<1> WITNESS Admitted \in SUBSET (Waiting \ gaveUp)
<1> QED
  BY <1>4, <1>6, <1>8, <1>9, <1>10

\* Players who come on line have seats in the abstract specification,
LEMMA LoginRefines ==
    ASSUME Inv, NEW S \in SUBSET Users, UserLogin(S), config' = config,
           Handled(NoReply)
    PROVE  Admission!Playing(S)
<1>1. Waiting' = Waiting \ S /\ Protected' = Protected \ S
      /\ m_stOnlineUser' = m_stOnlineUser \cup S
      /\ \A v \in Waiting' : m_stUserQueue'[v] = m_stUserQueue[v]
  BY DEF UserLogin, Erase, Restrict, Waiting, Protected
<1>2. Seated' = Seated \cup S
  BY <1>1 DEF Seated
<1>3. Line' = Line \cap (Waiting' \X Waiting')
  BY <1>1, LineWithout
<1> QED
  BY <1>1, <1>2, <1>3, NoReplyRefines DEF Admission!Playing, Admission!Without

\* one who leaves gives his up,
LEMMA LogoutRefines ==
    ASSUME Inv, NEW u \in Users, NEW bProtect \in BOOLEAN,
           UserLogout(u, bProtect), config' = config, Handled(NoReply)
    PROVE  Admission!Left(u)
<1>1. Waiting' = Waiting \ {u} /\ m_stOnlineUser' = m_stOnlineUser \ {u}
      /\ Protected' = (IF bProtect THEN Protected \cup {u} ELSE Protected)
      /\ \A v \in Waiting' : m_stUserQueue'[v] = m_stUserQueue[v]
  BY DEF UserLogout, Erase, Restrict, Assign, Waiting, Protected
<1>2. Seated' \in {Seated, Seated \cup {u}, Seated \ {u}}
  BY <1>1 DEF Seated
<1>3. Line' = Line \cap (Waiting' \X Waiting')
  BY <1>1, LineWithout
<1> QED
  BY <1>1, <1>2, <1>3, NoReplyRefines DEF Admission!Left, Admission!Without

\* and one who asks at the desk enters, waits or joins the line.
LEMMA HeartbeatRefines ==
    ASSUME Inv, NEW u \in Users, ProcessUserQueueHeartbeat(u)
    PROVE  Admission!Enter(u) \/ Admission!Wait(u) \/ Admission!Join(u)
<1> USE DEF Inv
<1>1. ASSUME NEW rsp, HeartbeatCanLogin(u, rsp)
      PROVE  Admission!Enter(u)
  <2>1. Waiting' = Waiting /\ Line' = Line /\ config' = config
    BY <1>1 DEF HeartbeatCanLogin, Waiting, Line, AheadOf
  <2>4. Admission!Desk(<<u, TRUE>>)
    BY <1>1 DEF HeartbeatCanLogin, Handled, Turn, Answer, Admission!Desk
  <2>2. CASE u \in Seated
    <3>1. Seated' = Seated
      BY <1>1, <2>2 DEF HeartbeatCanLogin, Seated, Protected
    <3> QED
      BY <2>1, <2>2, <2>4, <3>1 DEF Admission!Enter
  <2>3. CASE u \notin Seated
    <3>1. Seated' = Seated \cup {u}
      BY <1>1, <2>3 DEF HeartbeatCanLogin, Assign, Seated, Protected
    <3>2. SeatIsFree
      BY <1>1, <2>3 DEF HeartbeatCanLogin
    <3>3. /\ Cardinality(Seated) \in Nat /\ GetCurOnlineNum \in Nat
          /\ Cardinality(Protected) \in Nat
          /\ Cardinality(Seated) <= GetCurOnlineNum + Cardinality(Protected)
      BY FiniteContainers, UnionCount, FS_CardinalityType
      DEF Seated, GetCurOnlineNum
    <3>4. Cardinality(Seated) < config.m_iMaxOnlineNum
      BY <3>2, <3>3, CapType DEF SeatIsFree
    <3> QED
      BY <2>1, <2>4, <3>1, <3>2, <3>4, SameCardinality
      DEF SeatIsFree, Admission!Enter
  <2> QED
    BY <2>2, <2>3
<1>2. ASSUME NEW later \in Configs, HeartbeatWaiting(u, later)
      PROVE  Admission!Wait(u)
  <2>1. Waiting' = Waiting /\ Seated' = Seated /\ u \in Waiting \ Seated
    BY <1>2 DEF HeartbeatWaiting, Waiting, Seated, Protected
  <2>2. \A v \in Waiting :
            m_stUserQueue'[v].m_uIndex = m_stUserQueue[v].m_uIndex
    BY <1>2 DEF HeartbeatWaiting, TypeOK, TQueueUserInfo
  <2>3. Line' = Line
    BY <2>1, <2>2 DEF Line, AheadOf
  <2>4. config'.m_iMaxOnlineNum \in Nat
    BY <1>2, ConfigsAssumption DEF HeartbeatWaiting, QueueConfig
  <2>5. Admission!Desk(<<u, FALSE>>)
    BY <1>2 DEF HeartbeatWaiting, Handled, Turn, Answer, Admission!Desk
  <2> QED
    BY <2>1, <2>3, <2>4, <2>5 DEF Admission!Wait
<1>3. ASSUME NEW later \in Configs, HeartbeatJoin(u, later)
      PROVE  Admission!Join(u)
  <2>1. /\ u \notin Seated /\ u \notin Waiting /\ ~SeatIsFree
        /\ Waiting' = Waiting \cup {u} /\ Seated' = Seated
        /\ m_stUserQueue'[u].m_uIndex = m_uMaxIndex
        /\ \A v \in Waiting : m_stUserQueue'[v] = m_stUserQueue[v]
    BY <1>3 DEF HeartbeatJoin, Assign, Waiting, Seated, Protected
  <2>2. Waiting # {} \/ Cardinality(Seated) >= config.m_iMaxOnlineNum
    <3>1. SUFFICES ASSUME Waiting = {}
                   PROVE  Cardinality(Seated) >= config.m_iMaxOnlineNum
      OBVIOUS
    <3>2. /\ GetCurOnlineNum \in Nat /\ Cardinality(Protected) \in Nat
          /\ Cardinality(Seated) = GetCurOnlineNum + Cardinality(Protected)
      <4>1. m_stOnlineUser \cap Protected = {}
        BY DEF OneRole
      <4>2. Cardinality(m_stOnlineUser \cap Protected) = 0
        BY <4>1, FS_EmptySet
      <4>3. Cardinality(m_stOnlineUser \cup Protected)
              = Cardinality(m_stOnlineUser) + Cardinality(Protected)
                    - Cardinality(m_stOnlineUser \cap Protected)
        BY FiniteContainers, FS_Union
      <4>4. Cardinality(m_stOnlineUser) \in Nat /\ Cardinality(Protected) \in Nat
        BY FiniteContainers, FS_CardinalityType
      <4> QED
        BY <4>2, <4>3, <4>4 DEF Seated, GetCurOnlineNum
    <3> QED
      BY <2>1, <3>1, <3>2, CapType DEF SeatIsFree
  <2>3. Line' = Line \cup (Waiting \X {u})
    <3>1. \A v \in Waiting : /\ m_stUserQueue[v].m_uIndex \in Nat
                             /\ m_stUserQueue[v].m_uIndex < m_uMaxIndex
      BY DEF TypeOK, IndexWindow, TQueueUserInfo
    <3>2. \A v \in Waiting : AheadOf(v, u)' /\ ~AheadOf(u, v)'
      BY <2>1, <3>1 DEF AheadOf, TypeOK
    <3>3. ~AheadOf(u, u)'
      BY <2>1 DEF AheadOf, TypeOK
    <3>4. \A v, w \in Waiting : AheadOf(v, w)' <=> AheadOf(v, w)
      BY <2>1 DEF AheadOf
    <3> QED
      BY <2>1, <3>2, <3>3, <3>4 DEF Line
  <2>4. config'.m_iMaxOnlineNum \in Nat
    BY <1>3, ConfigsAssumption DEF HeartbeatJoin, QueueConfig
  <2>5. Admission!Desk(<<u, FALSE>>)
    BY <1>3 DEF HeartbeatJoin, Handled, Turn, Answer, Admission!Desk
  <2> QED
    BY <2>1, <2>2, <2>3, <2>4, <2>5, SameCardinality DEF Admission!Join
<1> QED
  BY <1>1, <1>2, <1>3 DEF ProcessUserQueueHeartbeat

\* Every step is one of the abstract specification, or changes nothing there.
LEMMA StepRefines ==
    Inv /\ [Next]_vars => [Admission!Next]_(Admission!aqVars)
<1> SUFFICES ASSUME Inv, [Next]_vars
             PROVE  Admission!Next \/ UNCHANGED Admission!aqVars
  OBVIOUS
<1>1. ASSUME UNCHANGED queues, UNCHANGED config
      PROVE  UNCHANGED <<Waiting, Line, Seated, config.m_iMaxOnlineNum>>
  BY <1>1 DEF queues, Waiting, Seated, Protected, Line, AheadOf
<1>2. CASE PopAndRefresh
  <2>1. CASE fresh
    <3>1. UNCHANGED <<Waiting, Line, Seated, config.m_iMaxOnlineNum>>
      BY <1>1, <1>2, <2>1 DEF PopAndRefresh
    <3>2. Turn = "line" /\ Turn' = "desk" /\ Answer' = <<>>
      BY <1>2 DEF PopAndRefresh, Turn, Answer, NoReply
    <3>3. Line \subseteq Waiting \X Waiting
      BY DEF Line
    <3>4. SUFFICES
            \E v \in SUBSET Seated, g \in SUBSET Waiting :
               \E A \in SUBSET (Waiting \ g) :
                  /\ \A u \in A, w \in Waiting \ (g \cup A) : <<u, w>> \in Line
                  /\ A = {} \/ Admission!Cardinality((Seated \ v) \cup A)
                                   <= config.m_iMaxOnlineNum
                  /\ Seated' = (Seated \ v) \cup A
                  /\ Waiting' = Waiting \ (g \cup A)
                  /\ Line' = Line \cap (Waiting' \X Waiting')
                  /\ UNCHANGED config.m_iMaxOnlineNum
      BY <3>2, <3>4, Zenon DEF Admission!Serve, Admission!Without, Admission!Next
    <3> WITNESS {} \in SUBSET Seated, {} \in SUBSET Waiting
    <3> WITNESS {} \in SUBSET (Waiting \ {})
    <3> QED
      BY <3>1, <3>3
  <2>2. CASE ~fresh
    BY <1>2, <2>2, RefreshRefines DEF Admission!Next
  <2> QED
    BY <2>1, <2>2
<1>3. ASSUME NEW u \in Users, ProcessUserLogin(u)
      PROVE  Admission!Next
  BY <1>3, LoginRefines DEF ProcessUserLogin, Admission!Next
<1>4. ASSUME NEW u \in Users, NEW bProtect \in BOOLEAN,
             ProcessUserLogout(u, bProtect)
      PROVE  Admission!Next
  BY <1>4, LogoutRefines DEF ProcessUserLogout, Admission!Next
<1>5. ASSUME NEW S \in SUBSET Users, ProcessUserListOnline(S)
      PROVE  Admission!Next
  BY <1>5, LoginRefines DEF ProcessUserListOnline, Admission!Next
<1>6. ASSUME NEW u \in Users, ProcessUserQueueHeartbeat(u)
      PROVE  Admission!Next
  BY <1>6, HeartbeatRefines DEF Admission!Next
<1>7. ASSUME NEW u \in Users, ProcessUserReconnectCheck(u)
      PROVE  Admission!Next
  <2>1. UNCHANGED <<Waiting, Line, Seated, config.m_iMaxOnlineNum>>
    BY <1>1, <1>7 DEF ProcessUserReconnectCheck
  <2>2. Admission!Desk(<<>>)
    BY <1>7 DEF ProcessUserReconnectCheck, Handled, Turn, Answer, Admission!Desk
  <2> QED
    BY <2>1, <2>2 DEF Admission!Other, Admission!Next
<1>8. CASE Ignore
  <2>1. UNCHANGED <<Waiting, Line, Seated, config.m_iMaxOnlineNum>>
    BY <1>1, <1>8 DEF Ignore
  <2>2. Admission!Desk(<<>>)
    BY <1>8, NoReplyRefines DEF Ignore
  <2> QED
    BY <2>1, <2>2 DEF Admission!Other, Admission!Next
<1>9. CASE Tick
  <2>1. Waiting' = Waiting /\ Seated' = Seated /\ config' = config
    BY <1>9 DEF Tick, Waiting, Protected, Seated
  <2>2. \A u \in Waiting : m_stUserQueue'[u].m_uIndex = m_stUserQueue[u].m_uIndex
    BY <1>9 DEF Tick, Inv, TypeOK, TQueueUserInfo
  <2> QED
    BY <1>9, <2>1, <2>2 DEF Tick, Admission!aqVars, Line, AheadOf, Turn, Answer
<1>10. ASSUME NEW c \in Configs, SetConfig(c)
       PROVE  Admission!SetCap
  <2>1. config'.m_iMaxOnlineNum \in Nat
    BY <1>10, ConfigsAssumption DEF SetConfig, QueueConfig
  <2> QED
    BY <1>10, <2>1 DEF SetConfig, queues, Admission!SetCap, Waiting, Seated,
                       Protected, Line, AheadOf, Turn, Answer
<1>11. CASE UNCHANGED vars
  BY <1>1, <1>11 DEF vars, Admission!aqVars, Turn, Answer
<1> QED
  BY <1>2, <1>3, <1>4, <1>5, <1>6, <1>7, <1>8, <1>9, <1>10, <1>11
  DEF Next, ProcessMessages, Admission!Next

\* Every behaviour of the login queue is a behaviour of the abstract queue.
THEOREM Refinement == Spec => ImplementsAdmissionQueue
BY InitRefines, StepRefines, Invariance, PTL
DEF Spec, ImplementsAdmissionQueue, Admission!Spec

=============================================================================
