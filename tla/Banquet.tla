------------------------------ MODULE Banquet -------------------------------
(***************************************************************************)
(* Banquets: the team thread of the cross server, which keeps the guests   *)
(* of every banquet and an index from each player to the banquet he gives  *)
(* and the one he attends, and the game servers, which keep a copy of a    *)
(* player's index and check his requests against it.                       *)
(*                                                                         *)
(* Requests and answers travel in order and are lost when the connection   *)
(* breaks; an answer is also lost when a send buffer is full or the game   *)
(* server cannot handle it.  Every player is on a game server of his own.  *)
(* Items, homes, cards and invitations are left open: a request may be     *)
(* refused for them or not.  So is the clock: whether a countdown or a     *)
(* banquet has ended is chosen each time the code asks.                    *)
(***************************************************************************)
EXTENDS Integers, SequencesExt

CONSTANTS
    Players,
    NoTeam,         \* the banquet id 0
    Seats,          \* m_iGuestMaxNum
    Windows,        \* bound: stretches of 1000 s, which banquet ids contain
    MaxSteps        \* bound: requests of the players, broken connections and
                    \* lost answers

ASSUME BanquetAssumption ==
    /\ IsFiniteSet(Players)
    /\ NoTeam \notin Players \X (1 .. Windows)
    /\ Seats \in Nat \ {0} /\ Windows \in Nat \ {0}
    /\ MaxSteps \in Nat

VARIABLES
    m_stUinToTeamID,    \* index: player -> the banquets he gives and attends
    m_stTeamMap,        \* banquet id -> m_stGuestMap: who is at which seat
    stuck,              \* the team thread is in a loop it never leaves
    copy,               \* GetBanquetAllTeamID of each player
    up, down,           \* requests and answers under way
    synced,     \* history: no answer was lost since his ids were last sent
    astray,     \* history: those who quit a banquet while attending another
    steps

tables == <<m_stUinToTeamID, m_stTeamMap>>
game   == <<copy, synced>>
vars   == <<tables, stuck, astray, game, up, down, steps>>

NoIds   == [m_iCreateId |-> NoTeam, m_iJoinId |-> NoTeam]
TeamIds == Players \X (1 .. Windows)

\* Some players give a banquet already.
Init ==
    /\ \E hosts \in SUBSET Players :
          LET ids == [u \in hosts |-> [NoIds EXCEPT !.m_iCreateId = <<u, 1>>]]
          IN  /\ m_stUinToTeamID = ids
              /\ m_stTeamMap = [k \in hosts \X {1} |-> [pos \in {1} |-> k[1]]]
              /\ copy = [u \in Players |-> IF u \in hosts THEN ids[u] ELSE NoIds]
    /\ stuck = FALSE /\ astray = {}
    /\ synced = [u \in Players |-> TRUE]
    /\ up = [u \in Players |-> <<>>] /\ down = [u \in Players |-> <<>>]
    /\ steps = 0

-----------------------------------------------------------------------------
(***************************************************************************)
(* The game server: requests, checked against the copy.                    *)
(***************************************************************************)

Step == steps < MaxSteps /\ steps' = steps + 1

Asks(u, m) ==
    /\ Step
    /\ up' = [up EXCEPT ![u] = Append(@, m)]
    /\ UNCHANGED <<tables, stuck, astray, game, down>>

AskCreate(u) ==
    /\ copy[u].m_iCreateId = NoTeam
    /\ Asks(u, [cmd |-> "create", team |-> NoTeam])

\* The banquet is the client's choice.
AskJoin(u) ==
    /\ copy[u].m_iJoinId = NoTeam
    /\ \E k \in TeamIds : Asks(u, [cmd |-> "join", team |-> k])

AskQuit(u) ==
    /\ copy[u].m_iJoinId # NoTeam
    /\ Asks(u, [cmd |-> "quit", team |-> copy[u].m_iJoinId])

\* The player logs in or reconnects.
AskIds(u) ==
    Asks(u, [cmd |-> "ids", team |-> NoTeam])

-----------------------------------------------------------------------------
(***************************************************************************)
(* The cross server: one thread takes the requests.  An error goes back    *)
(* without a body and changes nothing, so it is not sent here.             *)
(***************************************************************************)

GetTeamIDByUin(u) ==
    IF u \in DOMAIN m_stUinToTeamID THEN m_stUinToTeamID[u] ELSE NoIds

Takes(u, cmd) ==
    /\ ~stuck
    /\ up[u] # <<>> /\ Head(up[u]).cmd = cmd
    /\ up' = [up EXCEPT ![u] = Tail(@)]
    /\ UNCHANGED <<stuck, copy, steps>>

Answers(u, m) == down' = [down EXCEPT ![u] = Append(@, m)]

Refuses == UNCHANGED <<tables, down>>

Drop(f, x) == Restrict(f, DOMAIN f \ {x})

\* The entry is made if there is none.
Put(f, x, value) ==
    [y \in DOMAIN f \cup {x} |-> IF y = x THEN value ELSE f[y]]

SetIds(u, ids) == m_stUinToTeamID' = Put(m_stUinToTeamID, u, ids)

MayCreate(u, k) ==
    GetTeamIDByUin(u).m_iCreateId = NoTeam /\ k \notin DOMAIN m_stTeamMap

\* The id is the player's number and the seconds divided by 1000: an id
\* that is in use refuses the banquet.
CreateOrUpdateTeam(u) ==
    /\ Takes(u, "create") /\ UNCHANGED <<astray, synced>>
    /\ \E k \in {u} \X (1 .. Windows) :
          IF MayCreate(u, k)
          THEN /\ m_stTeamMap' = Put(m_stTeamMap, k, [pos \in {1} |-> u])
               /\ SetIds(u, [GetTeamIDByUin(u) EXCEPT !.m_iCreateId = k])
               /\ Answers(u, [cmd |-> "create", ids |-> [NoIds EXCEPT !.m_iCreateId = k]])
          ELSE Refuses

MayJoin(u, k) ==
    /\ GetTeamIDByUin(u).m_iJoinId = NoTeam
    /\ k \in DOMAIN m_stTeamMap
    /\ Cardinality(DOMAIN m_stTeamMap[k]) < Seats

\* The client chooses a seat, here the first free one: the order of the seats
\* only tells which of a player's own two seats he quits.
FreeSeatMutant(k) == Min((0 .. Seats) \ DOMAIN m_stTeamMap[k])
FreeSeat(k) == Min((1 .. Seats) \ DOMAIN m_stTeamMap[k])

\* He is refused also if the seat is taken, the banquet has ended or he is not
\* invited.
JoinTeam(u) ==
    /\ Takes(u, "join") /\ UNCHANGED <<astray, synced>>
    /\ LET k == Head(up[u]).team
       IN  \/ /\ MayJoin(u, k)
              /\ m_stTeamMap' = [m_stTeamMap EXCEPT ![k] = Put(@, FreeSeat(k), u)]
              /\ SetIds(u, [GetTeamIDByUin(u) EXCEPT !.m_iJoinId = k])
              /\ Answers(u, [cmd |-> "join", ids |-> [NoIds EXCEPT !.m_iJoinId = k]])
           \/ Refuses

SeatsOf(u, k) == {pos \in DOMAIN m_stTeamMap[k] : m_stTeamMap[k][pos] = u}

MayQuit(u, k) ==
    /\ k \in DOMAIN m_stTeamMap
    /\ GetTeamIDByUin(u).m_iJoinId # NoTeam

\* The first seat of the player is freed, if he has one, and he attends no
\* banquet, whichever one he attended.  He is refused if his countdown is over.
ProcessBanquetQuitTeam(u) ==
    /\ Takes(u, "quit") /\ UNCHANGED synced
    /\ LET k == Head(up[u]).team
       IN  \/ /\ MayQuit(u, k)
              /\ m_stTeamMap' =
                    IF SeatsOf(u, k) = {} THEN m_stTeamMap
                    ELSE [m_stTeamMap EXCEPT ![k] = Drop(@, Min(SeatsOf(u, k)))]
              /\ SetIds(u, [GetTeamIDByUin(u) EXCEPT !.m_iJoinId = NoTeam])
              /\ Answers(u, [cmd |-> "quit", ids |-> NoIds])
              /\ astray' = IF GetTeamIDByUin(u).m_iJoinId = k THEN astray
                           ELSE astray \cup {u}
           \/ /\ MayQuit(u, k) => SeatsOf(u, k) # {}
              /\ Refuses /\ UNCHANGED astray

ProcessBanquetUpdateLogin(u) ==
    /\ Takes(u, "ids")
    /\ Answers(u, [cmd |-> "ids", ids |-> GetTeamIDByUin(u)])
    /\ synced' = [synced EXCEPT ![u] = TRUE]
    /\ UNCHANGED <<tables, astray>>

-----------------------------------------------------------------------------
(***************************************************************************)
(* RefreshTeam, at most once a second, before a message (a heartbeat if    *)
(* there is no other): the guests whose countdown is over get their reward *)
(* and leave; banquets that are over and empty are removed.                *)
(***************************************************************************)

\* The player's ids after the banquet k has ended for him: at his own banquet
\* he may have a second seat, as a guest, whose countdown goes on.
EndedMutant(ids, k) == [f \in DOMAIN ids |-> IF ids[f] = k THEN NoTeam ELSE ids[f]]
Ended(ids, k) ==
    IF ids.m_iCreateId = k THEN [ids EXCEPT !.m_iCreateId = NoTeam]
    ELSE IF ids.m_iJoinId = k THEN [ids EXCEPT !.m_iJoinId = NoTeam]
    ELSE ids

\* One turn of the inner loop, at seat pos of banquet k, whose countdown is
\* over.  Without an entry in the index the guest is neither removed nor passed
\* over.
Reward(s, k, pos) ==
    LET u == s.teams[k][pos]
        ids == Ended(s.ids[u], k)
    IN  IF u \notin DOMAIN s.ids THEN [s EXCEPT !.stuck = TRUE]
        ELSE [ids |-> IF ids = NoIds THEN Drop(s.ids, u)
                      ELSE [s.ids EXCEPT ![u] = ids],
              teams |-> [s.teams EXCEPT ![k] = Drop(@, pos)],
              down |-> [s.down EXCEPT ![u] = Append(@, [cmd |-> "finish", ids |-> ids])],
              stuck |-> FALSE]

\* One turn of the outer loop, for a banquet of which the seats in due are to
\* be rewarded, and which has ended or not.
RefreshOne(s, k, due, ended) ==
    LET seat[pos \in 0 .. Seats] ==
            IF pos = 0 THEN s
            ELSE LET a == seat[pos - 1]
                 IN  IF a.stuck \/ pos \notin due THEN a ELSE Reward(a, k, pos)
        t == seat[Seats]
    IN  IF ended /\ t.teams[k] = <<>> /\ ~t.stuck
        THEN [t EXCEPT !.teams = Drop(@, k)]
        ELSE t

\* The banquets of order, one after the other.
RefreshAll(s, order, due, ended) ==
    LET turn[i \in 0 .. Len(order)] ==
            IF i = 0 THEN s
            ELSE LET a == turn[i - 1]
                     k == order[i]
                 IN  IF a.stuck THEN a
                     ELSE RefreshOne(a, k, {pos \in 1 .. Seats : <<k, pos>> \in due}, k \in ended)
    IN  turn[Len(order)]

Taken == UNION {{k} \X DOMAIN m_stTeamMap[k] : k \in DOMAIN m_stTeamMap}

\* The banquets are met in the order of a hash table; of those that have
\* ended, only the ones that are left by everybody matter.
RefreshTeam ==
    /\ ~stuck
    /\ \E due \in SUBSET Taken :
       \E ended \in SUBSET {k \in DOMAIN m_stTeamMap :
                             {k} \X DOMAIN m_stTeamMap[k] \subseteq due} :
       \E order \in SetToSeqs({d[1] : d \in due} \cup ended) :
          LET s == [ids |-> m_stUinToTeamID, teams |-> m_stTeamMap,
                    down |-> down, stuck |-> FALSE]
              t == RefreshAll(s, order, due, ended)
          IN  /\ t # s
              /\ m_stUinToTeamID' = t.ids /\ m_stTeamMap' = t.teams
              /\ down' = t.down /\ stuck' = t.stuck
    /\ UNCHANGED <<astray, game, up, steps>>

-----------------------------------------------------------------------------
(***************************************************************************)
(* The game server: answers, which overwrite the copy.                     *)
(***************************************************************************)

Receives(u, cmd) ==
    /\ down[u] # <<>> /\ Head(down[u]).cmd = cmd
    /\ down' = [down EXCEPT ![u] = Tail(@)]
    /\ UNCHANGED <<tables, stuck, astray, synced, up, steps>>

DoServerRunCreateBanquetTeam(u) ==
    /\ Receives(u, "create")
    /\ copy' = [copy EXCEPT ![u].m_iCreateId = Head(down[u]).ids.m_iCreateId]

DoServerRunJoinBanquetTeam(u) ==
    /\ Receives(u, "join")
    /\ copy' = [copy EXCEPT ![u].m_iJoinId = Head(down[u]).ids.m_iJoinId]

DoServerRunBanquetQuitTeam(u) ==
    /\ Receives(u, "quit")
    /\ copy' = [copy EXCEPT ![u].m_iJoinId = NoTeam]

DoServerRunBanquetFinishNotifyMutant(u) ==
    /\ Receives(u, "finish")
    /\ copy' = [copy EXCEPT ![u].m_iJoinId = Head(down[u]).ids.m_iJoinId]

DoServerRunBanquetFinishNotify(u) ==
    /\ Receives(u, "finish")
    /\ copy' = [copy EXCEPT ![u] = Head(down[u]).ids]

DoServerRunBanquetUpdateLogin(u) ==
    /\ Receives(u, "ids")
    /\ copy' = [copy EXCEPT ![u] = Head(down[u]).ids]

-----------------------------------------------------------------------------
(***************************************************************************)
(* Lost answers.  On a broken connection, the requests the cross server    *)
(* has read survive, and the answers it has not written when the           *)
(* connection is there again.  Until then it goes on handling requests,    *)
(* drops the answers, and gives no rewards (IsGroupConnecting): as if all  *)
(* of it were before the break.                                            *)
(***************************************************************************)

\* His ids are still sent after the first i answers: whatever was lost before
\* them makes no difference.
IdsAfter(u, i) == \E n \in i + 1 .. Len(down[u]) : down[u][n].cmd = "ids"

Break(u) ==
    /\ Step
    /\ \E i \in 0 .. Len(up[u]), j \in 0 .. Len(down[u]) :
          /\ up' = [up EXCEPT ![u] = SubSeq(@, 1, i)]
          /\ down' = [down EXCEPT ![u] = SubSeq(@, j + 1, Len(@))]
          /\ synced' = [synced EXCEPT ![u] = @ /\ (j = 0 \/ IdsAfter(u, j))]
    /\ UNCHANGED <<tables, stuck, astray, copy>>

LoseAnswer(u, i) ==
    /\ Step
    /\ down' = [down EXCEPT ![u] = RemoveAt(@, i)]
    /\ synced' = [synced EXCEPT ![u] = @ /\ IdsAfter(u, i)]
    /\ UNCHANGED <<tables, stuck, astray, copy, up>>

\* SendClientMsg ignores what SendData returns: an answer that finds no room
\* in the send buffer is lost, the next one may find some.
SendRefused(u) == \E i \in 1 .. Len(down[u]) : LoseAnswer(u, i)

\* DoServerProcess returns before the answer is handled: the player's group is
\* not this server's, his data cannot be loaded, or the answer not be unpacked.
DoServerProcessFails(u) == down[u] # <<>> /\ LoseAnswer(u, 1)

-----------------------------------------------------------------------------
Next ==
    \/ \E u \in Players :
          \/ AskCreate(u) \/ AskJoin(u) \/ AskQuit(u) \/ AskIds(u)
          \/ CreateOrUpdateTeam(u) \/ JoinTeam(u)
          \/ ProcessBanquetQuitTeam(u) \/ ProcessBanquetUpdateLogin(u)
          \/ DoServerRunCreateBanquetTeam(u) \/ DoServerRunJoinBanquetTeam(u)
          \/ DoServerRunBanquetQuitTeam(u) \/ DoServerRunBanquetFinishNotify(u)
          \/ DoServerRunBanquetUpdateLogin(u)
          \/ Break(u) \/ SendRefused(u) \/ DoServerProcessFails(u)
    \/ RefreshTeam

Spec == Init /\ [][Next]_vars

-----------------------------------------------------------------------------
Ids == [m_iCreateId : TeamIds \cup {NoTeam}, m_iJoinId : TeamIds \cup {NoTeam}]

\* Types.
TypeOK ==
    /\ DOMAIN m_stUinToTeamID \subseteq Players
    /\ \A u \in DOMAIN m_stUinToTeamID : m_stUinToTeamID[u] \in Ids
    /\ DOMAIN m_stTeamMap \subseteq TeamIds
    /\ \A k \in DOMAIN m_stTeamMap :
          /\ DOMAIN m_stTeamMap[k] \subseteq 1 .. Seats
          /\ \A pos \in DOMAIN m_stTeamMap[k] : m_stTeamMap[k][pos] \in Players
    /\ stuck \in BOOLEAN
    /\ copy \in [Players -> Ids]
    /\ synced \in [Players -> BOOLEAN]
    /\ astray \subseteq Players
    /\ steps \in 0 .. MaxSteps

\* The two tables agree: a player has as many seats at a banquet as his entry
\* in the index says, so that the end of a countdown finds the entry and
\* RefreshTeam does not loop for ever at a guest without one.  Requests that
\* were checked against an outdated copy, lost messages, rewards and the id
\* of an ended banquet used again never part them; only quitting one banquet
\* while attending another does, which no line refuses.
SeatsIndexed ==
    /\ stuck => astray # {}
    /\ \A u \in Players \ astray :
        LET e == GetTeamIDByUin(u)
        IN  /\ {e.m_iCreateId, e.m_iJoinId} \subseteq DOMAIN m_stTeamMap \cup {NoTeam}
            /\ \A k \in DOMAIN m_stTeamMap :
                  Cardinality(SeatsOf(u, k)) =
                     Cardinality({f \in DOMAIN e : e[f] = k})

\* Once nothing is under way to a player, his copy is his entry in the index,
\* although five answers overwrite it in part or as a whole, unless an answer
\* to him was lost, with a broken connection or without, and his ids have not
\* been sent since.
InSync ==
    \A u \in Players :
        synced[u] /\ down[u] = <<>> => copy[u] = GetTeamIDByUin(u)

=============================================================================
