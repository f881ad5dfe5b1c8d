--------------------------- MODULE BanquetProofs ----------------------------
(***************************************************************************)
(* Proofs about Banquet, for any players, any number of seats, of requests *)
(* and of lost answers.                                                    *)
(*                                                                         *)
(* RefreshTeam is two loops, here two recursive functions.  What they do   *)
(* is proved by induction on the seats of a banquet and on the banquets,   *)
(* with the least counterexample of a set of natural numbers in place of   *)
(* an induction schema: the invariant is stated for the tables and the     *)
(* answers as they are between two turns of the loops.                     *)
(***************************************************************************)
EXTENDS Banquet, FiniteSetTheorems, SequenceTheorems, TLAPS

-----------------------------------------------------------------------------
(***************************************************************************)
(* Induction.                                                              *)
(***************************************************************************)

\* A set of natural numbers that is not empty has a least element.
LEMMA Least ==
  ASSUME NEW T \in SUBSET Nat, T # {}
  PROVE  \E n \in T : \A m \in T : n <= m
<1>1. OpToRel(<, Nat) = {ss \in Nat \X Nat : ss[1] < ss[2]}
  BY DEF OpToRel
<1>2. PICK x \in T :
        \A y \in T : <<y, x>> \notin {ss \in Nat \X Nat : ss[1] < ss[2]}
  <2>1. IsWellFoundedOn({ss \in Nat \X Nat : ss[1] < ss[2]}, Nat)
    BY ONLY <1>1, NatLessThanWellFounded
  <2>2. T \subseteq Nat /\ T # {}
    OBVIOUS
  <2> QED BY ONLY <2>1, <2>2, WFMin
<1>3. ASSUME NEW y \in T, y < x PROVE FALSE
  <2>1. <<y, x>> \in Nat \X Nat
    OBVIOUS
  <2>2. <<y, x>>[1] < <<y, x>>[2]
    BY <1>3
  <2> QED BY <2>1, <2>2, <1>2
<1> QED BY <1>3

\* A set that has 0, and with every number below n the next one, has all
\* numbers up to n.
LEMMA Stepwise ==
  ASSUME NEW n \in Nat, NEW S, 0 \in S, \A i \in 0 .. n - 1 : i \in S => i + 1 \in S
  PROVE  \A i \in 0 .. n : i \in S
<1> SUFFICES ASSUME NEW j \in 0 .. n, j \notin S PROVE FALSE
  OBVIOUS
<1> DEFINE T == {i \in 0 .. n : i \notin S}
<1>1. T \in SUBSET Nat /\ T # {}
  OBVIOUS
<1> HIDE DEF T
<1>2. PICK m \in T : \A k \in T : m <= k
  BY <1>1, Least
<1>3. m \in 0 .. n /\ m # 0 /\ m \notin S
  BY <1>2 DEF T
<1>4. m - 1 \in S
  BY <1>2, <1>3 DEF T
<1> QED BY <1>3, <1>4

\* The turns of the inner loop, at the seats of one banquet.
SeatTurns(s, k, due) ==
  CHOOSE seat : seat = [pos \in 0 .. Seats |->
            IF pos = 0 THEN s
            ELSE LET a == seat[pos - 1]
                 IN  IF a.stuck \/ pos \notin due THEN a ELSE Reward(a, k, pos)]

\* The inner loop is defined at every seat.
LEMMA SeatTurnsDefined ==
  ASSUME NEW s, NEW k, NEW due
  PROVE  SeatTurns(s, k, due) =
            [pos \in 0 .. Seats |->
               IF pos = 0 THEN s
               ELSE LET a == SeatTurns(s, k, due)[pos - 1]
                    IN  IF a.stuck \/ pos \notin due THEN a
                        ELSE Reward(a, k, pos)]
<1> DEFINE F(a, pos) == IF a.stuck \/ pos \notin due THEN a ELSE Reward(a, k, pos)
           S == {n \in 0 .. Seats :
                   \E g : g = [pos \in 0 .. n |->
                                 IF pos = 0 THEN s ELSE F(g[pos - 1], pos)]}
<1> HIDE DEF F
<1>1. 0 \in S
  <2>1. [pos \in 0 .. 0 |-> s] =
          [pos \in 0 .. 0 |-> IF pos = 0 THEN s ELSE F([q \in 0 .. 0 |-> s][pos - 1], pos)]
    OBVIOUS
  <2>2. \E g : g = [pos \in 0 .. 0 |-> IF pos = 0 THEN s ELSE F(g[pos - 1], pos)]
    BY <2>1, Zenon
  <2> QED BY <2>2, BanquetAssumption
<1>2. ASSUME NEW n \in 0 .. Seats - 1, n \in S PROVE n + 1 \in S
  <2>1. PICK g : g = [pos \in 0 .. n |-> IF pos = 0 THEN s ELSE F(g[pos - 1], pos)]
    BY <1>2
  <2> DEFINE h == [pos \in 0 .. n + 1 |-> IF pos = n + 1 THEN F(g[n], n + 1) ELSE g[pos]]
  <2>2. ASSUME NEW pos \in 0 .. n + 1
        PROVE  h[pos] = IF pos = 0 THEN s ELSE F(h[pos - 1], pos)
    <3>1. CASE pos = 0
      BY <2>1, <3>1
    <3>2. CASE pos = n + 1
      BY <2>1, <3>2
    <3>3. CASE pos \in 1 .. n
      BY <2>1, <3>3
    <3> QED BY <3>1, <3>2, <3>3
  <2>3. h = [pos \in 0 .. n + 1 |-> IF pos = 0 THEN s ELSE F(h[pos - 1], pos)]
    BY <2>2
  <2> HIDE DEF h
  <2> QED BY <2>3, BanquetAssumption
<1>3. Seats \in S
  <2> HIDE DEF S
  <2> QED BY <1>1, <1>2, Stepwise, BanquetAssumption
<1>4. \E seat : seat = [pos \in 0 .. Seats |->
                          IF pos = 0 THEN s ELSE F(seat[pos - 1], pos)]
  BY <1>3
<1> QED BY <1>4, Zenon DEF SeatTurns, F

\* One turn of the outer loop is the turns of the inner one.
LEMMA RefreshOneTurns ==
  ASSUME NEW s, NEW k, NEW due, NEW ended
  PROVE  RefreshOne(s, k, due, ended) =
            LET t == SeatTurns(s, k, due)[Seats]
            IN  IF ended /\ t.teams[k] = <<>> /\ ~t.stuck
                THEN [t EXCEPT !.teams = Drop(@, k)]
                ELSE t
BY Zenon DEF RefreshOne, SeatTurns

\* The turns of the outer loop.
BanquetTurns(s, order, due, ended) ==
  CHOOSE turn : turn = [i \in 0 .. Len(order) |->
            IF i = 0 THEN s
            ELSE LET a == turn[i - 1]
                     k == order[i]
                 IN  IF a.stuck THEN a
                     ELSE RefreshOne(a, k, {pos \in 1 .. Seats : <<k, pos>> \in due}, k \in ended)]

\* The walk over all banquets is the last of its turns.
LEMMA RefreshAllTurns ==
  ASSUME NEW s, NEW order, NEW due, NEW ended
  PROVE  RefreshAll(s, order, due, ended) =
            BanquetTurns(s, order, due, ended)[Len(order)]
BY Zenon DEF RefreshAll, BanquetTurns

\* What the next banquet does to the tables.
NextTurn(a, k, due, ended) ==
  IF a.stuck THEN a
  ELSE RefreshOne(a, k, {pos \in 1 .. Seats : <<k, pos>> \in due}, k \in ended)

\* The outer loop is defined at every banquet.
LEMMA BanquetTurnsDefined ==
  ASSUME NEW s, NEW order, NEW due, NEW ended, Len(order) \in Nat
  PROVE  BanquetTurns(s, order, due, ended) =
            [i \in 0 .. Len(order) |->
               IF i = 0 THEN s
               ELSE NextTurn(BanquetTurns(s, order, due, ended)[i - 1],
                             order[i], due, ended)]
<1> DEFINE F(a, i) == NextTurn(a, order[i], due, ended)
           N == Len(order)
           S == {n \in 0 .. N :
                   \E g : g = [i \in 0 .. n |->
                                 IF i = 0 THEN s ELSE F(g[i - 1], i)]}
<1> HIDE DEF F, N
<1>0. N \in Nat
  BY DEF N
<1>1. 0 \in S
  <2>1. [i \in 0 .. 0 |-> s] =
          [i \in 0 .. 0 |-> IF i = 0 THEN s ELSE F([q \in 0 .. 0 |-> s][i - 1], i)]
    OBVIOUS
  <2>2. \E g : g = [i \in 0 .. 0 |-> IF i = 0 THEN s ELSE F(g[i - 1], i)]
    BY <2>1, Zenon
  <2> QED BY <2>2, <1>0
<1>2. ASSUME NEW n \in 0 .. N - 1, n \in S PROVE n + 1 \in S
  <2>1. PICK g : g = [i \in 0 .. n |-> IF i = 0 THEN s ELSE F(g[i - 1], i)]
    BY <1>2
  <2> DEFINE h == [i \in 0 .. n + 1 |-> IF i = n + 1 THEN F(g[n], n + 1) ELSE g[i]]
  <2>2. ASSUME NEW i \in 0 .. n + 1
        PROVE  h[i] = IF i = 0 THEN s ELSE F(h[i - 1], i)
    <3>1. CASE i = 0
      BY <2>1, <3>1, <1>0
    <3>2. CASE i = n + 1
      BY <2>1, <3>2, <1>0
    <3>3. CASE i \in 1 .. n
      BY <2>1, <3>3, <1>0
    <3> QED BY <3>1, <3>2, <3>3, <1>0
  <2>3. h = [i \in 0 .. n + 1 |-> IF i = 0 THEN s ELSE F(h[i - 1], i)]
    BY <2>2
  <2> HIDE DEF h
  <2> QED BY <2>3, <1>0
<1>3. N \in S
  <2> HIDE DEF S
  <2>1. \A n \in 0 .. N - 1 : n \in S => n + 1 \in S
    BY <1>2
  <2>2. \A n \in 0 .. N : n \in S
    BY ONLY <1>0, <1>1, <2>1, Stepwise
  <2> QED BY <1>0, <2>2
<1>4. \E turn : turn = [i \in 0 .. N |->
                          IF i = 0 THEN s ELSE F(turn[i - 1], i)]
  BY <1>3
<1> QED BY <1>4, Zenon DEF BanquetTurns, F, N, NextTurn

-----------------------------------------------------------------------------
(***************************************************************************)
(* The tables: what the invariant says about them.                         *)
(***************************************************************************)

Fields == {"m_iCreateId", "m_iJoinId"}

\* The player's entry in an index ids.
Entry(ids, u) == IF u \in DOMAIN ids THEN ids[u] ELSE NoIds

\* Where the player's entry names the banquet k, and where he sits there.
Named(ids, u, k) == {f \in Fields : Entry(ids, u)[f] = k}
Sits(teams, u, k) == {pos \in DOMAIN teams[k] : teams[k][pos] = u}

GuestMaps == UNION {[D -> Players] : D \in SUBSET (1 .. Seats)}

Typed(ids, teams) ==
  /\ DOMAIN ids \subseteq Players /\ ids \in [DOMAIN ids -> Ids]
  /\ DOMAIN teams \subseteq TeamIds /\ teams \in [DOMAIN teams -> GuestMaps]

\* The tables agree about every player but those in lost.
Existing(ids, teams, lost) ==
  \A u \in Players \ lost : \A f \in Fields :
    Entry(ids, u)[f] \in DOMAIN teams \cup {NoTeam}

Counted(ids, teams, lost) ==
  \A u \in Players \ lost : \A k \in DOMAIN teams :
    Cardinality(Sits(teams, u, k)) = Cardinality(Named(ids, u, k))

-----------------------------------------------------------------------------
(***************************************************************************)
(* The tables: types.                                                      *)
(***************************************************************************)

\* A map of guests gives players to some of the seats.
LEMMA GuestMap ==
  ASSUME NEW g
  PROVE  g \in GuestMaps <=> /\ DOMAIN g \subseteq 1 .. Seats
                             /\ g \in [DOMAIN g -> Players]
BY DEF GuestMaps

\* The two fields of an entry.
LEMMA EntryFields ==
  ASSUME NEW e \in Ids
  PROVE  /\ DOMAIN e = Fields
         /\ \A f \in Fields : e[f] \in TeamIds \cup {NoTeam}
BY DEF Ids, Fields

\* The entry of a player who is not in the index.
LEMMA NoEntry ==
  /\ NoIds \in Ids
  /\ \A f \in Fields : NoIds[f] = NoTeam
BY DEF NoIds, Ids, Fields

\* Two entries with the same fields are the same.
LEMMA SameEntry ==
  ASSUME NEW d \in Ids, NEW e \in Ids, \A f \in Fields : d[f] = e[f]
  PROVE  d = e
BY DEF Ids, Fields

\* A player's entry has its type, whether or not he is in the index.
LEMMA EntryType ==
  ASSUME NEW ids, NEW teams, Typed(ids, teams), NEW u
  PROVE  Entry(ids, u) \in Ids
BY NoEntry DEF Entry, Typed

\* No banquet has the id 0.
LEMMA TeamIsReal ==
  ASSUME NEW k \in TeamIds
  PROVE  k # NoTeam
BY BanquetAssumption DEF TeamIds

\* The guests of a banquet.
LEMMA GuestsType ==
  ASSUME NEW ids, NEW teams, Typed(ids, teams), NEW k \in DOMAIN teams
  PROVE  /\ k \in TeamIds /\ k # NoTeam
         /\ teams[k] \in GuestMaps
         /\ DOMAIN teams[k] \subseteq 1 .. Seats
         /\ \A pos \in DOMAIN teams[k] : teams[k][pos] \in Players
<1>1. k \in TeamIds /\ teams[k] \in GuestMaps
  BY DEF Typed
<1> QED BY <1>1, GuestMap, TeamIsReal

\* The sets that are counted are finite.
LEMMA CountsAreFinite ==
  ASSUME NEW ids, NEW teams, Typed(ids, teams), NEW k \in DOMAIN teams, NEW u
  PROVE  /\ IsFiniteSet(Sits(teams, u, k)) /\ IsFiniteSet(Named(ids, u, k))
         /\ IsFiniteSet(DOMAIN teams[k])
<1>1. DOMAIN teams[k] \subseteq 1 .. Seats
  BY GuestsType
<1>2. IsFiniteSet(1 .. Seats)
  BY FS_Interval, BanquetAssumption
<1>3. IsFiniteSet(DOMAIN teams[k])
  BY <1>1, <1>2, FS_Subset
<1>4. Sits(teams, u, k) \subseteq DOMAIN teams[k]
  BY DEF Sits
<1>5. IsFiniteSet({"m_iCreateId"})
  BY FS_Singleton
<1>6. IsFiniteSet({"m_iCreateId"} \cup {"m_iJoinId"})
  BY <1>5, FS_AddElement
<1>7. Named(ids, u, k) \subseteq {"m_iCreateId"} \cup {"m_iJoinId"}
  BY DEF Named, Fields
<1> QED BY <1>3, <1>4, <1>6, <1>7, FS_Subset

\* An entry that is put into the index.
LEMMA EntryPut ==
  ASSUME NEW ids, NEW teams, Typed(ids, teams), NEW u \in Players, NEW e \in Ids
  PROVE  /\ Typed(Put(ids, u, e), teams)
         /\ Entry(Put(ids, u, e), u) = e
         /\ \A v \in Players \ {u} : Entry(Put(ids, u, e), v) = Entry(ids, v)
BY DEF Typed, Put, Entry

\* The entry that exists already is changed, or it is dropped when it names
\* no banquet any more.
WithEntry(ids, u, e) ==
  IF e = NoIds THEN Drop(ids, u) ELSE [ids EXCEPT ![u] = e]

\* What WithEntry does to the entries of the index.
LEMMA EntrySet ==
  ASSUME NEW ids, NEW teams, Typed(ids, teams), NEW u \in DOMAIN ids, NEW e \in Ids
  PROVE  /\ Typed(WithEntry(ids, u, e), teams)
         /\ Entry(WithEntry(ids, u, e), u) = e
         /\ \A v \in Players \ {u} : Entry(WithEntry(ids, u, e), v) = Entry(ids, v)
<1>1. CASE e = NoIds
  BY <1>1 DEF Typed, Drop, Restrict, Entry, WithEntry
<1>2. CASE e # NoIds
  BY <1>2 DEF Typed, Entry, WithEntry
<1> QED BY <1>1, <1>2

-----------------------------------------------------------------------------
(***************************************************************************)
(* The tables: what the requests and rewards do to them.                   *)
(***************************************************************************)

\* One element more, one element less.
LEMMA OneMore ==
  ASSUME NEW S, IsFiniteSet(S), NEW T, NEW x, x \notin S, T = S \cup {x}
  PROVE  Cardinality(T) = Cardinality(S) + 1 /\ Cardinality(S) \in Nat
BY FS_AddElement, FS_CardinalityType

\* A finite set without one of its members.
LEMMA OneLess ==
  ASSUME NEW S, IsFiniteSet(S), NEW T, NEW x \in S, T = S \ {x}
  PROVE  Cardinality(T) = Cardinality(S) - 1 /\ Cardinality(S) \in Nat
BY FS_RemoveElement, FS_CardinalityType

\* A set without elements counts nothing, and only it does.
LEMMA NoneCounted ==
  ASSUME NEW S, IsFiniteSet(S)
  PROVE  Cardinality(S) = 0 <=> S = {}
BY FS_EmptySet

\* The guests when one of them leaves the seat pos of the banquet k, or
\* takes it, and when u begins the banquet.
WithoutSeat(teams, k, pos) == [teams EXCEPT ![k] = Drop(@, pos)]
WithSeat(teams, k, pos, u) == [teams EXCEPT ![k] = Put(@, pos, u)]
WithBanquet(teams, k, u) == Put(teams, k, [pos \in {1} |-> u])

\* A guest leaves the seat pos of the banquet k.
LEMMA SeatDropped ==
  ASSUME NEW ids, NEW teams, Typed(ids, teams),
         NEW k \in DOMAIN teams, NEW pos \in DOMAIN teams[k]
  PROVE  LET new == WithoutSeat(teams, k, pos)
         IN  /\ Typed(ids, new)
             /\ DOMAIN new = DOMAIN teams
             /\ DOMAIN new[k] = DOMAIN teams[k] \ {pos}
             /\ \A j \in DOMAIN teams : j # k => new[j] = teams[j]
             /\ \A v, j : j \in DOMAIN teams =>
                  Sits(new, v, j) = IF j = k THEN Sits(teams, v, k) \ {pos}
                                    ELSE Sits(teams, v, j)
<1> DEFINE g == Drop(teams[k], pos)
           new == [teams EXCEPT ![k] = g]
<1>1. /\ DOMAIN teams[k] \subseteq 1 .. Seats
      /\ \A p \in DOMAIN teams[k] : teams[k][p] \in Players
  BY GuestsType
<1>2. /\ DOMAIN g = DOMAIN teams[k] \ {pos}
      /\ \A p \in DOMAIN teams[k] \ {pos} : g[p] = teams[k][p]
      /\ g \in [DOMAIN g -> Players]
  BY <1>1 DEF Drop, Restrict
<1> HIDE DEF g
<1>3. g \in GuestMaps
  BY <1>1, <1>2, GuestMap
<1>4. /\ DOMAIN new = DOMAIN teams /\ new[k] = g
      /\ \A j \in DOMAIN teams : j # k => new[j] = teams[j]
      /\ new \in [DOMAIN teams -> GuestMaps]
  BY <1>3 DEF Typed
<1> HIDE DEF new
<1>5. Typed(ids, new)
  BY <1>4 DEF Typed
<1>6. ASSUME NEW v, NEW j \in DOMAIN teams
      PROVE  Sits(new, v, j) = IF j = k THEN Sits(teams, v, k) \ {pos}
                               ELSE Sits(teams, v, j)
  BY <1>2, <1>4 DEF Sits
<1>7. new = WithoutSeat(teams, k, pos)
  BY DEF new, g, WithoutSeat
<1> QED BY <1>2, <1>4, <1>5, <1>6, <1>7

\* A guest takes the seat pos of the banquet k.
LEMMA SeatPut ==
  ASSUME NEW ids, NEW teams, Typed(ids, teams), NEW k \in DOMAIN teams,
         NEW pos \in 1 .. Seats, pos \notin DOMAIN teams[k], NEW u \in Players
  PROVE  LET new == WithSeat(teams, k, pos, u)
         IN  /\ Typed(ids, new)
             /\ DOMAIN new = DOMAIN teams
             /\ \A v, j : j \in DOMAIN teams =>
                  Sits(new, v, j) = IF j = k /\ v = u
                                    THEN Sits(teams, v, k) \cup {pos}
                                    ELSE Sits(teams, v, j)
             /\ pos \notin Sits(teams, u, k)
<1> DEFINE g == Put(teams[k], pos, u)
           new == [teams EXCEPT ![k] = g]
<1>1. /\ DOMAIN teams[k] \subseteq 1 .. Seats
      /\ \A p \in DOMAIN teams[k] : teams[k][p] \in Players
  BY GuestsType
<1>2. /\ DOMAIN g = DOMAIN teams[k] \cup {pos}
      /\ \A p \in DOMAIN teams[k] : g[p] = teams[k][p]
      /\ g[pos] = u
      /\ g \in [DOMAIN g -> Players]
  BY <1>1 DEF Put
<1> HIDE DEF g
<1>3. g \in GuestMaps
  BY <1>1, <1>2, GuestMap
<1>4. /\ DOMAIN new = DOMAIN teams /\ new[k] = g
      /\ \A j \in DOMAIN teams : j # k => new[j] = teams[j]
      /\ new \in [DOMAIN teams -> GuestMaps]
  BY <1>3 DEF Typed
<1> HIDE DEF new
<1>5. Typed(ids, new)
  BY <1>4 DEF Typed
<1>6. ASSUME NEW v, NEW j \in DOMAIN teams
      PROVE  Sits(new, v, j) = IF j = k /\ v = u
                               THEN Sits(teams, v, k) \cup {pos}
                               ELSE Sits(teams, v, j)
  BY <1>2, <1>4 DEF Sits
<1>7. new = WithSeat(teams, k, pos, u)
  BY DEF new, g, WithSeat
<1>8. pos \notin Sits(teams, u, k)
  BY DEF Sits
<1> QED BY <1>4, <1>5, <1>6, <1>7, <1>8

\* A banquet that begins, with its host on the first seat.
LEMMA BanquetPut ==
  ASSUME NEW ids, NEW teams, Typed(ids, teams),
         NEW k \in TeamIds, k \notin DOMAIN teams, NEW u \in Players
  PROVE  LET new == WithBanquet(teams, k, u)
         IN  /\ Typed(ids, new)
             /\ DOMAIN new = DOMAIN teams \cup {k}
             /\ \A v, j : j \in DOMAIN teams => Sits(new, v, j) = Sits(teams, v, j)
             /\ \A v : Sits(new, v, k) = IF v = u THEN {1} ELSE {}
<1> DEFINE g == [pos \in {1} |-> u]
           new == Put(teams, k, g)
<1>1. g \in GuestMaps
  BY GuestMap, BanquetAssumption
<1>2. DOMAIN g = {1} /\ g[1] = u
  OBVIOUS
<1> HIDE DEF g
<1>3. /\ DOMAIN new = DOMAIN teams \cup {k} /\ new[k] = g
      /\ \A j \in DOMAIN teams : new[j] = teams[j]
      /\ new \in [DOMAIN teams \cup {k} -> GuestMaps]
  BY <1>1 DEF Typed, Put
<1> HIDE DEF new
<1>4. Typed(ids, new)
  BY <1>3 DEF Typed
<1>5. ASSUME NEW v
      PROVE  /\ \A j \in DOMAIN teams : Sits(new, v, j) = Sits(teams, v, j)
             /\ Sits(new, v, k) = IF v = u THEN {1} ELSE {}
  BY <1>2, <1>3 DEF Sits
<1>6. new = WithBanquet(teams, k, u)
  BY DEF new, g, WithBanquet
<1> QED BY <1>3, <1>4, <1>5, <1>6

\* A banquet that is removed.
LEMMA BanquetDropped ==
  ASSUME NEW ids, NEW teams, Typed(ids, teams), NEW k
  PROVE  LET new == Drop(teams, k)
         IN  /\ Typed(ids, new)
             /\ DOMAIN new = DOMAIN teams \ {k}
             /\ \A j \in DOMAIN teams \ {k} : new[j] = teams[j]
             /\ \A v, j : j \in DOMAIN new => Sits(new, v, j) = Sits(teams, v, j)
BY DEF Typed, Drop, Restrict, Sits

-----------------------------------------------------------------------------
(***************************************************************************)
(* The tables agree after a guest has left, come, or given a banquet.      *)
(***************************************************************************)

\* A field of u's entry that named the banquet k is cleared.
Cleared(ids, new, u, k, f) ==
  /\ Entry(ids, u)[f] = k /\ Entry(new, u)[f] = NoTeam
  /\ \A g \in Fields \ {f} : Entry(new, u)[g] = Entry(ids, u)[g]

\* A field of u's entry that was clear names the banquet k.
Filled(ids, new, u, k, f) ==
  /\ Entry(ids, u)[f] = NoTeam /\ Entry(new, u)[f] = k
  /\ \A g \in Fields \ {f} : Entry(new, u)[g] = Entry(ids, u)[g]

Others(ids, new, u) == \A v \in Players \ {u} : Entry(new, v) = Entry(ids, v)

\* Clearing a field takes one from the fields that name the banquet.
LEMMA NamedCleared ==
  ASSUME NEW ids, NEW new, NEW u, NEW k, NEW f \in Fields, k # NoTeam,
         Cleared(ids, new, u, k, f)
  PROVE  /\ Named(new, u, k) = Named(ids, u, k) \ {f} /\ f \in Named(ids, u, k)
         /\ \A j : j # k /\ j # NoTeam => Named(new, u, j) = Named(ids, u, j)
BY DEF Named, Cleared

\* Filling a field adds one to the fields that name the banquet.
LEMMA NamedFilled ==
  ASSUME NEW ids, NEW new, NEW u, NEW k, NEW f \in Fields, k # NoTeam,
         Filled(ids, new, u, k, f)
  PROVE  /\ Named(new, u, k) = Named(ids, u, k) \cup {f} /\ f \notin Named(ids, u, k)
         /\ \A j : j # k /\ j # NoTeam => Named(new, u, j) = Named(ids, u, j)
BY DEF Named, Filled

\* The entries of other players name what they named.
LEMMA NamedOthers ==
  ASSUME NEW ids, NEW new, NEW u, Others(ids, new, u)
  PROVE  \A v \in Players \ {u} : \A j : Named(new, v, j) = Named(ids, v, j)
BY DEF Named, Others

\* A guest loses his seat, and his entry one of the fields that named the
\* banquet: the tables agree as before.
LEMMA GuestLeaves ==
  ASSUME NEW ids, NEW teams, Typed(ids, teams), NEW lost,
         Existing(ids, teams, lost), Counted(ids, teams, lost),
         NEW k \in DOMAIN teams, NEW pos \in DOMAIN teams[k],
         NEW u, u = teams[k][pos], NEW new, Others(ids, new, u),
         u \notin lost => \E f \in Fields : Cleared(ids, new, u, k, f)
  PROVE  LET left == WithoutSeat(teams, k, pos)
         IN  Existing(new, left, lost) /\ Counted(new, left, lost)
<1> DEFINE left == WithoutSeat(teams, k, pos)
<1>0. Typed(ids, teams) /\ k \in DOMAIN teams /\ pos \in DOMAIN teams[k]
  OBVIOUS
<1>1. /\ DOMAIN left = DOMAIN teams
      /\ \A v, j : j \in DOMAIN teams =>
           Sits(left, v, j) = IF j = k THEN Sits(teams, v, k) \ {pos}
                              ELSE Sits(teams, v, j)
  BY ONLY <1>0, SeatDropped
<1> HIDE DEF left
<1>2. \A j \in DOMAIN teams : j # NoTeam
  BY GuestsType
<1>3. Existing(new, left, lost)
  <2> SUFFICES ASSUME NEW v \in Players \ lost, NEW g \in Fields
               PROVE  Entry(new, v)[g] \in DOMAIN teams \cup {NoTeam}
    BY <1>1 DEF Existing
  <2>1. Entry(ids, v)[g] \in DOMAIN teams \cup {NoTeam}
    BY DEF Existing
  <2> QED BY <2>1 DEF Others, Cleared
<1>4. Counted(new, left, lost)
  <2> SUFFICES ASSUME NEW v \in Players \ lost, NEW j \in DOMAIN teams
               PROVE  Cardinality(Sits(left, v, j)) = Cardinality(Named(new, v, j))
    BY <1>1 DEF Counted
  <2>1. Cardinality(Sits(teams, v, j)) = Cardinality(Named(ids, v, j))
    BY DEF Counted
  <2>2. CASE v # u
    <3>1. Named(new, v, j) = Named(ids, v, j)
      BY <2>2, NamedOthers
    <3>2. pos \notin Sits(teams, v, k)
      BY <2>2 DEF Sits
    <3>3. Sits(left, v, j) = Sits(teams, v, j)
      BY <1>1, <3>2
    <3> QED BY <2>1, <3>1, <3>3
  <2>3. CASE v = u /\ j # k
    <3>1. PICK f \in Fields : Cleared(ids, new, u, k, f)
      BY <2>3
    <3>2. Named(new, u, j) = Named(ids, u, j)
      BY <3>1, <2>3, <1>2, NamedCleared
    <3>3. Sits(left, u, j) = Sits(teams, u, j)
      BY <1>1, <2>3
    <3> QED BY <2>1, <2>3, <3>2, <3>3
  <2>4. CASE v = u /\ j = k
    <3>1. PICK f \in Fields : Cleared(ids, new, u, k, f)
      BY <2>4
    <3>2. Named(new, u, k) = Named(ids, u, k) \ {f} /\ f \in Named(ids, u, k)
      BY <3>1, <1>2, NamedCleared
    <3>3. Sits(left, u, k) = Sits(teams, u, k) \ {pos} /\ pos \in Sits(teams, u, k)
      BY <1>1, <2>4 DEF Sits
    <3>4. IsFiniteSet(Sits(teams, u, k)) /\ IsFiniteSet(Named(ids, u, k))
      BY CountsAreFinite
    <3>5. Cardinality(Named(new, u, k)) = Cardinality(Named(ids, u, k)) - 1
      BY ONLY <3>2, <3>4, OneLess
    <3>6. Cardinality(Sits(left, u, k)) = Cardinality(Sits(teams, u, k)) - 1
      BY ONLY <3>3, <3>4, OneLess
    <3> QED BY <2>1, <2>4, <3>5, <3>6
  <2> QED BY <2>2, <2>3, <2>4
<1> QED BY <1>3, <1>4 DEF left

\* A guest takes a free seat, and his entry names the banquet.
LEMMA GuestComes ==
  ASSUME NEW ids, NEW teams, Typed(ids, teams), NEW lost,
         Existing(ids, teams, lost), Counted(ids, teams, lost),
         NEW k \in DOMAIN teams, NEW pos \in 1 .. Seats, pos \notin DOMAIN teams[k],
         NEW u \in Players, NEW new, Others(ids, new, u),
         NEW f \in Fields, Filled(ids, new, u, k, f)
  PROVE  LET come == WithSeat(teams, k, pos, u)
         IN  Existing(new, come, lost) /\ Counted(new, come, lost)
<1> DEFINE come == WithSeat(teams, k, pos, u)
<1>0. /\ Typed(ids, teams) /\ k \in DOMAIN teams
      /\ pos \in 1 .. Seats /\ pos \notin DOMAIN teams[k] /\ u \in Players
  OBVIOUS
<1>1. /\ DOMAIN come = DOMAIN teams
      /\ \A v, j : j \in DOMAIN teams =>
           Sits(come, v, j) = IF j = k /\ v = u THEN Sits(teams, v, k) \cup {pos}
                              ELSE Sits(teams, v, j)
      /\ pos \notin Sits(teams, u, k)
  BY ONLY <1>0, SeatPut
<1> HIDE DEF come
<1>2. \A j \in DOMAIN teams : j # NoTeam
  BY GuestsType
<1>3. Existing(new, come, lost)
  <2> SUFFICES ASSUME NEW v \in Players \ lost, NEW g \in Fields
               PROVE  Entry(new, v)[g] \in DOMAIN teams \cup {NoTeam}
    BY <1>1 DEF Existing
  <2>1. Entry(ids, v)[g] \in DOMAIN teams \cup {NoTeam}
    BY DEF Existing
  <2> QED BY <2>1 DEF Others, Filled
<1>4. Counted(new, come, lost)
  <2> SUFFICES ASSUME NEW v \in Players \ lost, NEW j \in DOMAIN teams
               PROVE  Cardinality(Sits(come, v, j)) = Cardinality(Named(new, v, j))
    BY <1>1 DEF Counted
  <2>1. Cardinality(Sits(teams, v, j)) = Cardinality(Named(ids, v, j))
    BY DEF Counted
  <2>2. CASE v # u
    <3>1. Named(new, v, j) = Named(ids, v, j)
      BY <2>2, NamedOthers
    <3>2. Sits(come, v, j) = Sits(teams, v, j)
      BY <1>1, <2>2
    <3> QED BY <2>1, <3>1, <3>2
  <2>3. CASE v = u /\ j # k
    <3>1. Named(new, u, j) = Named(ids, u, j)
      BY <2>3, <1>2, NamedFilled
    <3>2. Sits(come, u, j) = Sits(teams, u, j)
      BY <1>1, <2>3
    <3> QED BY <2>1, <2>3, <3>1, <3>2
  <2>4. CASE v = u /\ j = k
    <3>1. Named(new, u, k) = Named(ids, u, k) \cup {f} /\ f \notin Named(ids, u, k)
      BY <1>2, NamedFilled
    <3>2. Sits(come, u, k) = Sits(teams, u, k) \cup {pos}
      BY <1>1
    <3>3. IsFiniteSet(Sits(teams, u, k)) /\ IsFiniteSet(Named(ids, u, k))
      BY CountsAreFinite
    <3>4. Cardinality(Named(new, u, k)) = Cardinality(Named(ids, u, k)) + 1
      BY ONLY <3>1, <3>3, OneMore
    <3>5. Cardinality(Sits(come, u, k)) = Cardinality(Sits(teams, u, k)) + 1
      BY ONLY <1>1, <3>2, <3>3, OneMore
    <3> QED BY <2>1, <2>4, <3>4, <3>5
  <2> QED BY <2>2, <2>3, <2>4
<1> QED BY <1>3, <1>4 DEF come

\* A player gives a banquet whose id is not in use, and his entry names it:
\* no other entry did.
LEMMA HostBegins ==
  ASSUME NEW ids, NEW teams, Typed(ids, teams), NEW lost,
         Existing(ids, teams, lost), Counted(ids, teams, lost),
         NEW k \in TeamIds, k \notin DOMAIN teams,
         NEW u \in Players, NEW new, Others(ids, new, u),
         NEW f \in Fields, Filled(ids, new, u, k, f)
  PROVE  LET more == WithBanquet(teams, k, u)
         IN  Existing(new, more, lost) /\ Counted(new, more, lost)
<1> DEFINE more == WithBanquet(teams, k, u)
<1>0. Typed(ids, teams) /\ k \in TeamIds /\ k \notin DOMAIN teams /\ u \in Players
  OBVIOUS
<1>1. /\ DOMAIN more = DOMAIN teams \cup {k}
      /\ \A v, j : j \in DOMAIN teams => Sits(more, v, j) = Sits(teams, v, j)
      /\ \A v : Sits(more, v, k) = IF v = u THEN {1} ELSE {}
  BY ONLY <1>0, BanquetPut
<1> HIDE DEF more
<1>2. k # NoTeam /\ \A j \in DOMAIN teams : j # NoTeam
  BY GuestsType, TeamIsReal
<1>3. Existing(new, more, lost)
  <2> SUFFICES ASSUME NEW v \in Players \ lost, NEW g \in Fields
               PROVE  Entry(new, v)[g] \in DOMAIN teams \cup {k, NoTeam}
    BY <1>1 DEF Existing
  <2>1. Entry(ids, v)[g] \in DOMAIN teams \cup {NoTeam}
    BY DEF Existing
  <2> QED BY <2>1 DEF Others, Filled
<1>4. Counted(new, more, lost)
  <2> SUFFICES ASSUME NEW v \in Players \ lost, NEW j \in DOMAIN teams \cup {k}
               PROVE  Cardinality(Sits(more, v, j)) = Cardinality(Named(new, v, j))
    BY <1>1 DEF Counted
  <2>1. CASE j # k
    <3>1. Cardinality(Sits(teams, v, j)) = Cardinality(Named(ids, v, j))
      BY <2>1 DEF Counted
    <3>2. Named(new, v, j) = Named(ids, v, j)
      BY <2>1, <1>2, NamedFilled, NamedOthers
    <3>3. Sits(more, v, j) = Sits(teams, v, j)
      BY <1>1, <2>1
    <3> QED BY <3>1, <3>2, <3>3
  <2>2. CASE j = k
    <3>1. Named(ids, v, k) = {}
      BY <1>2 DEF Named, Existing
    <3>2. CASE v # u
      <4>1. Named(new, v, k) = {} /\ Sits(more, v, k) = {}
        BY <3>1, <3>2, <1>1, NamedOthers
      <4> QED BY <2>2, <4>1
    <3>3. CASE v = u
      <4>1. Named(new, u, k) = {f} /\ Sits(more, u, k) = {1}
        BY <3>1, <3>3, <1>1, <1>2, NamedFilled
      <4>2. Cardinality({f}) = 1 /\ Cardinality({1}) = 1
        BY FS_Singleton
      <4> QED BY <2>2, <3>3, <4>1, <4>2
    <3> QED BY <3>2, <3>3
  <2> QED BY <2>1, <2>2
<1> QED BY <1>3, <1>4 DEF more

\* A banquet without guests is removed: no entry names it.
LEMMA BanquetRemoved ==
  ASSUME NEW ids, NEW teams, Typed(ids, teams), NEW lost,
         Existing(ids, teams, lost), Counted(ids, teams, lost),
         NEW k \in DOMAIN teams, DOMAIN teams[k] = {}
  PROVE  Existing(ids, Drop(teams, k), lost) /\ Counted(ids, Drop(teams, k), lost)
<1> DEFINE less == Drop(teams, k)
<1>0. Typed(ids, teams)
  OBVIOUS
<1>1. /\ DOMAIN less = DOMAIN teams \ {k}
      /\ \A v, j : j \in DOMAIN less => Sits(less, v, j) = Sits(teams, v, j)
  BY ONLY <1>0, BanquetDropped
<1> HIDE DEF less
<1>2. ASSUME NEW v \in Players \ lost
      PROVE  Named(ids, v, k) = {}
  <2>1. Sits(teams, v, k) = {}
    BY DEF Sits
  <2>2. IsFiniteSet(Sits(teams, v, k)) /\ IsFiniteSet(Named(ids, v, k))
    BY CountsAreFinite
  <2>3. Cardinality(Sits(teams, v, k)) = Cardinality(Named(ids, v, k))
    BY DEF Counted
  <2> QED BY <2>1, <2>2, <2>3, NoneCounted
<1>3. Existing(ids, less, lost)
  <2> SUFFICES ASSUME NEW v \in Players \ lost, NEW g \in Fields
               PROVE  Entry(ids, v)[g] \in DOMAIN less \cup {NoTeam}
    BY DEF Existing
  <2>1. Entry(ids, v)[g] \in DOMAIN teams \cup {NoTeam}
    BY DEF Existing
  <2>2. g \notin Named(ids, v, k)
    BY <1>2
  <2> QED BY <1>1, <2>1, <2>2 DEF Named
<1>4. Counted(ids, less, lost)
  BY <1>1 DEF Counted
<1> QED BY <1>3, <1>4 DEF less

-----------------------------------------------------------------------------
(***************************************************************************)
(* The answers under way to a player, and his copy.                        *)
(***************************************************************************)

Msgs == {m \in [cmd : {"create", "join", "quit", "finish", "ids"}, ids : Ids] :
           m.cmd = "quit" => m.ids = NoIds}

\* The fields of the copy that an answer overwrites.
Overwritten(m) ==
  IF m.cmd = "create" THEN {"m_iCreateId"}
  ELSE IF m.cmd \in {"join", "quit"} THEN {"m_iJoinId"}
  ELSE Fields

Writers(d, f) == {i \in 1 .. Len(d) : f \in Overwritten(d[i])}

\* If sy, the copy c will be the entry e when the answers d have been handled.
Follows(d, e, c, sy) ==
  sy => \A f \in Fields :
    /\ \A i \in Writers(d, f) :
         (\A j \in Writers(d, f) : j <= i) => d[i].ids[f] = e[f]
    /\ Writers(d, f) = {} => c[f] = e[f]

AllFollow(ids, d, c, sy) ==
  \A u \in Players : Follows(d[u], Entry(ids, u), c[u], sy[u])

\* Writers of a queue with a message more at its end, one less at its
\* beginning, and of the end of a queue.
LEMMA WritersSent ==
  ASSUME NEW d \in Seq(Msgs), NEW m \in Msgs, NEW f
  PROVE  LET n == Len(d) + 1
         IN  /\ \A i \in Writers(d, f) : i < n /\ Append(d, m)[i] = d[i]
             /\ Append(d, m)[n] = m
             /\ Writers(Append(d, m), f) =
                  IF f \in Overwritten(m) THEN Writers(d, f) \cup {n}
                  ELSE Writers(d, f)
BY AppendProperties DEF Writers

\* The writers of a field among the answers that are left when the first n
\* have been taken.
LEMMA WritersCut ==
  ASSUME NEW d \in Seq(Msgs), NEW n \in 0 .. Len(d), NEW f
  PROVE  LET q == SubSeq(d, n + 1, Len(d))
         IN  /\ q \in Seq(Msgs)
             /\ \A i \in Writers(q, f) : i + n \in Writers(d, f) /\ q[i] = d[i + n]
             /\ \A i \in Writers(d, f) : i > n => i - n \in Writers(q, f)
<1> DEFINE q == SubSeq(d, n + 1, Len(d))
<1>1. /\ q \in Seq(Msgs) /\ Len(q) = Len(d) - n
      /\ \A i \in 1 .. Len(d) - n : q[i] = d[n + i]
  BY SubSeqProperties
<1> HIDE DEF q
<1>2. \A i \in Writers(q, f) : i + n \in Writers(d, f) /\ q[i] = d[i + n]
  BY <1>1 DEF Writers
<1>3. ASSUME NEW i \in Writers(d, f), i > n PROVE i - n \in Writers(q, f)
  <2>1. i \in Int /\ i - n \in 1 .. Len(d) - n /\ n + (i - n) = i
    BY <1>3 DEF Writers
  <2>2. q[i - n] = d[i]
    BY <2>1, <1>1
  <2> QED BY <2>1, <2>2, <1>1 DEF Writers
<1> QED BY <1>1, <1>2, <1>3 DEF q

\* An answer is sent with the new value of the fields it overwrites.
LEMMA AnswerSent ==
  ASSUME NEW d \in Seq(Msgs), NEW m \in Msgs, NEW e, NEW new, NEW c,
         NEW sy, NEW sy2, sy2 => sy \/ Overwritten(m) = Fields,
         Follows(d, e, c, sy),
         \A f \in Fields :
           new[f] = IF f \in Overwritten(m) THEN m.ids[f] ELSE e[f]
  PROVE  Follows(Append(d, m), new, c, sy2)
<1> SUFFICES ASSUME sy2, NEW f \in Fields
             PROVE  /\ \A i \in Writers(Append(d, m), f) :
                         (\A j \in Writers(Append(d, m), f) : j <= i)
                            => Append(d, m)[i].ids[f] = new[f]
                    /\ Writers(Append(d, m), f) = {} => c[f] = new[f]
  BY DEF Follows
<1>1. f \notin Overwritten(m) =>
        /\ \A i \in Writers(d, f) :
             (\A j \in Writers(d, f) : j <= i) => d[i].ids[f] = e[f]
        /\ Writers(d, f) = {} => c[f] = e[f]
  BY DEF Follows
<1>2. /\ \A i \in Writers(d, f) : i < Len(d) + 1 /\ Append(d, m)[i] = d[i]
      /\ Append(d, m)[Len(d) + 1] = m
      /\ Writers(Append(d, m), f) =
           IF f \in Overwritten(m) THEN Writers(d, f) \cup {Len(d) + 1}
           ELSE Writers(d, f)
  BY WritersSent
<1>3. Len(d) \in Nat /\ \A i \in Writers(d, f) : i \in Nat
  BY DEF Writers
<1>4. CASE f \in Overwritten(m)
  BY <1>2, <1>3, <1>4
<1>5. CASE f \notin Overwritten(m)
  BY <1>1, <1>2, <1>5
<1> QED BY <1>4, <1>5

\* n answers are lost before one that overwrites the whole copy, the i-th: it
\* makes up for them.
LEMMA AnswersLost ==
  ASSUME NEW d \in Seq(Msgs), NEW q \in Seq(Msgs), NEW e, NEW c, NEW sy,
         Follows(d, e, c, sy),
         NEW i \in 1 .. Len(d), Overwritten(d[i]) = Fields,
         NEW n \in 0 .. i - 1, Len(q) = Len(d) - n,
         \A k \in i .. Len(d) : q[k - n] = d[k]
  PROVE  Follows(q, e, c, sy)
<1> SUFFICES ASSUME sy, NEW f \in Fields
             PROVE  /\ \A j \in Writers(q, f) :
                         (\A k \in Writers(q, f) : k <= j) => q[j].ids[f] = e[f]
                    /\ Writers(q, f) # {}
  BY DEF Follows
<1>1. Len(d) \in Nat /\ i \in Nat /\ n \in Nat
  OBVIOUS
<1>2. i - n \in Writers(q, f)
  <2>1. i - n \in 1 .. Len(q) /\ q[i - n] = d[i]
    BY <1>1
  <2> QED BY <2>1 DEF Writers
<1>3. ASSUME NEW k \in Writers(d, f), k >= i PROVE k - n \in Writers(q, f)
  <2>1. k \in i .. Len(d) /\ k - n \in 1 .. Len(q) /\ f \in Overwritten(d[k])
    BY <1>1, <1>3 DEF Writers
  <2> QED BY <2>1 DEF Writers
<1>4. ASSUME NEW j \in Writers(q, f), \A k \in Writers(q, f) : k <= j
      PROVE  q[j].ids[f] = e[f]
  <2>1. j \in Nat /\ j >= i - n /\ j <= Len(d) - n /\ f \in Overwritten(q[j])
    BY <1>1, <1>2, <1>4 DEF Writers
  <2>2. j + n \in i .. Len(d) /\ (j + n) - n = j
    BY <1>1, <2>1
  <2>3. q[j] = d[j + n]
    BY <2>2
  <2>4. j + n \in Writers(d, f)
    BY <1>1, <2>1, <2>2, <2>3 DEF Writers
  <2>5. ASSUME NEW k \in Writers(d, f) PROVE k <= j + n
    <3>1. k \in Nat
      BY DEF Writers
    <3>2. CASE k < i
      BY <1>1, <2>2, <3>1, <3>2
    <3>3. CASE k >= i
      BY <1>1, <1>3, <1>4, <2>1, <3>1, <3>3
    <3> QED BY <1>1, <3>1, <3>2, <3>3
  <2> QED BY <2>3, <2>4, <2>5 DEF Follows
<1> QED BY <1>2, <1>4

\* The first answer is handled.
LEMMA AnswerGot ==
  ASSUME NEW d \in Seq(Msgs), d # <<>>, NEW e, NEW c, NEW new, NEW sy,
         Follows(d, e, c, sy),
         \A f \in Fields :
           new[f] = IF f \in Overwritten(Head(d)) THEN Head(d).ids[f] ELSE c[f]
  PROVE  Follows(Tail(d), e, new, sy)
<1> DEFINE q == Tail(d)
<1>0. /\ q = SubSeq(d, 1 + 1, Len(d)) /\ Head(d) = d[1]
      /\ 1 \in 0 .. Len(d) /\ 1 \in 1 .. Len(d) /\ Len(d) \in Nat
  BY TailIsSubSeq, HeadTailProperties, EmptySeq
<1> HIDE DEF q
<1> SUFFICES ASSUME sy, NEW f \in Fields
             PROVE  /\ \A i \in Writers(q, f) :
                         (\A j \in Writers(q, f) : j <= i) => q[i].ids[f] = e[f]
                    /\ Writers(q, f) = {} => new[f] = e[f]
  BY DEF Follows, q
<1>1. /\ \A i \in Writers(q, f) : i + 1 \in Writers(d, f) /\ q[i] = d[i + 1]
      /\ \A i \in Writers(d, f) : i > 1 => i - 1 \in Writers(q, f)
  <2>1. PICK n \in 0 .. Len(d) : n = 1
    BY <1>0
  <2>2. LET r == SubSeq(d, n + 1, Len(d))
        IN  /\ \A i \in Writers(r, f) : i + n \in Writers(d, f) /\ r[i] = d[i + n]
            /\ \A i \in Writers(d, f) : i > n => i - n \in Writers(r, f)
    BY WritersCut
  <2>3. q = SubSeq(d, n + 1, Len(d))
    BY <1>0, <2>1
  <2> QED BY ONLY <2>1, <2>2, <2>3
<1>2. (\A i \in Writers(d, f) : i \in Nat /\ i > 0) /\ (\A i \in Writers(q, f) : i \in Nat)
  BY DEF Writers
<1>3. ASSUME NEW i \in Writers(q, f), \A j \in Writers(q, f) : j <= i
      PROVE  q[i].ids[f] = e[f]
  <2>1. ASSUME NEW j \in Writers(d, f) PROVE j <= i + 1
    BY <1>1, <1>2, <1>3
  <2> QED BY <1>1, <2>1 DEF Follows
<1>4. ASSUME Writers(q, f) = {} PROVE new[f] = e[f]
  <2>1. \A i \in Writers(d, f) : i = 1
    BY <1>1, <1>2, <1>4
  <2>2. CASE f \in Overwritten(Head(d))
    <3>1. 1 \in Writers(d, f)
      BY <1>0, <2>2 DEF Writers
    <3>2. \A j \in Writers(d, f) : j <= 1
      BY <2>1
    <3>3. d[1].ids[f] = e[f]
      BY <3>1, <3>2 DEF Follows
    <3> QED BY <1>0, <2>2, <3>3
  <2>3. CASE f \notin Overwritten(Head(d))
    <3>1. Writers(d, f) = {}
      BY <1>0, <2>1, <2>3 DEF Writers
    <3> QED BY <2>3, <3>1 DEF Follows
  <2> QED BY <2>2, <2>3
<1> QED BY <1>3, <1>4

-----------------------------------------------------------------------------
(***************************************************************************)
(* RefreshTeam: its tables and answers between two turns of its loops.     *)
(***************************************************************************)

Sound(s, lost, c, sy) ==
  /\ s = [ids |-> s.ids, teams |-> s.teams, down |-> s.down, stuck |-> s.stuck]
  /\ s.stuck \in BOOLEAN
  /\ s.stuck => lost # {}
  /\ Typed(s.ids, s.teams)
  /\ Existing(s.ids, s.teams, lost)
  /\ Counted(s.ids, s.teams, lost)
  /\ s.down \in [Players -> Seq(Msgs)]
  /\ AllFollow(s.ids, s.down, c, sy)

\* The entry after the banquet k has ended for the player.
LEMMA EndedEntry ==
  ASSUME NEW e \in Ids, NEW k \in TeamIds
  PROVE  /\ Ended(e, k) \in Ids
         /\ (\E f \in Fields : e[f] = k) =>
               \E f \in Fields : /\ e[f] = k /\ Ended(e, k)[f] = NoTeam
                                 /\ \A g \in Fields \ {f} : Ended(e, k)[g] = e[g]
BY DEF Ended, Ids, Fields

\* An answer m to u that overwrites all of his copy makes up for the answers
\* that were lost; no other does.
MakesUp(m, u, sy, sy2) ==
  \A v \in Players : sy2[v] => sy[v] \/ (v = u /\ Overwritten(m) = Fields)

\* An answer is sent to u with the fields of his new entry that it overwrites.
LEMMA SentTo ==
  ASSUME NEW d \in [Players -> Seq(Msgs)], NEW u \in Players, NEW m \in Msgs,
         NEW ids, NEW new, NEW c, NEW sy, NEW sy2,
         AllFollow(ids, d, c, sy), Others(ids, new, u),
         MakesUp(m, u, sy, sy2),
         \A f \in Fields : Entry(new, u)[f] =
           IF f \in Overwritten(m) THEN m.ids[f] ELSE Entry(ids, u)[f]
  PROVE  LET d2 == [d EXCEPT ![u] = Append(@, m)]
         IN  /\ d2 \in [Players -> Seq(Msgs)]
             /\ AllFollow(new, d2, c, sy2)
<1> DEFINE d2 == [d EXCEPT ![u] = Append(@, m)]
<1>1. /\ d2 \in [Players -> Seq(Msgs)] /\ d2[u] = Append(d[u], m)
      /\ \A v \in Players \ {u} : d2[v] = d[v]
  BY AppendProperties
<1> HIDE DEF d2
<1>2. Follows(d2[u], Entry(new, u), c[u], sy2[u])
  <2>1. /\ d[u] \in Seq(Msgs) /\ Follows(d[u], Entry(ids, u), c[u], sy[u])
        /\ sy2[u] => sy[u] \/ Overwritten(m) = Fields
    BY DEF AllFollow, MakesUp
  <2>2. Follows(Append(d[u], m), Entry(new, u), c[u], sy2[u])
    BY <2>1, AnswerSent
  <2> QED BY <1>1, <2>2
<1>3. ASSUME NEW v \in Players \ {u}
      PROVE  Follows(d2[v], Entry(new, v), c[v], sy2[v])
  <2>1. /\ Follows(d[v], Entry(ids, v), c[v], sy[v])
        /\ d2[v] = d[v] /\ Entry(new, v) = Entry(ids, v) /\ (sy2[v] => sy[v])
    BY <1>1 DEF AllFollow, Others, MakesUp
  <2> QED BY <2>1 DEF Follows
<1> QED BY <1>1, <1>2, <1>3 DEF AllFollow, d2

\* A guest whose countdown is over is rewarded: if he has no entry, he is one
\* the tables do not agree about.
LEMMA OneReward ==
  ASSUME NEW s, NEW lost, NEW c, NEW sy, Sound(s, lost, c, sy),
         NEW k \in DOMAIN s.teams, NEW pos \in DOMAIN s.teams[k]
  PROVE  LET t == Reward(s, k, pos)
         IN  /\ Sound(t, lost, c, sy)
             /\ DOMAIN t.teams = DOMAIN s.teams
             /\ \A j \in DOMAIN s.teams : j # k => t.teams[j] = s.teams[j]
             /\ \/ t.stuck
                \/ DOMAIN t.teams[k] = DOMAIN s.teams[k] \ {pos}
<1> DEFINE t == Reward(s, k, pos)
<1>1. PICK u : u = s.teams[k][pos]
  OBVIOUS
<1>2. Typed(s.ids, s.teams) /\ k \in TeamIds /\ k # NoTeam /\ u \in Players
  BY <1>1, GuestsType DEF Sound
<1>3. u \notin lost => \E f \in Fields : Entry(s.ids, u)[f] = k
  <2> SUFFICES ASSUME u \notin lost, Named(s.ids, u, k) = {} PROVE FALSE
    BY DEF Named
  <2>1. Cardinality(Sits(s.teams, u, k)) = Cardinality(Named(s.ids, u, k))
    BY <1>2 DEF Sound, Counted
  <2>2. IsFiniteSet(Sits(s.teams, u, k)) /\ IsFiniteSet(Named(s.ids, u, k))
    BY <1>2, CountsAreFinite
  <2>3. pos \in Sits(s.teams, u, k)
    BY <1>1 DEF Sits
  <2> QED BY <2>1, <2>2, <2>3, NoneCounted
<1>4. CASE u \notin DOMAIN s.ids
  <2>1. t = [s EXCEPT !.stuck = TRUE]
    BY <1>1, <1>4 DEF Reward
  <2>2. /\ t.ids = s.ids /\ t.teams = s.teams /\ t.down = s.down /\ t.stuck = TRUE
        /\ t = [ids |-> s.ids, teams |-> s.teams, down |-> s.down, stuck |-> TRUE]
    BY <2>1 DEF Sound
  <2>3. u \in lost
    BY <1>2, <1>3, <1>4, NoEntry DEF Entry
  <2> HIDE DEF t
  <2>4. Sound(t, lost, c, sy)
    BY <2>2, <2>3 DEF Sound
  <2> QED BY <2>2, <2>4 DEF t
<1>5. CASE u \in DOMAIN s.ids
  <2> DEFINE e == Ended(s.ids[u], k)
             m == [cmd |-> "finish", ids |-> e]
             ids == WithEntry(s.ids, u, e)
             teams == WithoutSeat(s.teams, k, pos)
             d == [s.down EXCEPT ![u] = Append(@, m)]
  <2>1. t = [ids |-> ids, teams |-> teams, down |-> d, stuck |-> FALSE]
    BY <1>1, <1>5 DEF Reward, WithEntry, WithoutSeat
  <2>2. /\ t.ids = ids /\ t.teams = teams /\ t.down = d /\ t.stuck = FALSE
        /\ t = [ids |-> t.ids, teams |-> t.teams, down |-> t.down, stuck |-> t.stuck]
    BY <2>1
  <2> HIDE DEF t
  <2>3. s.ids[u] \in Ids /\ Entry(s.ids, u) = s.ids[u]
    BY <1>2, <1>5 DEF Typed, Entry
  <2>4. /\ e \in Ids
        /\ u \notin lost => \E f \in Fields :
              /\ s.ids[u][f] = k /\ e[f] = NoTeam
              /\ \A g \in Fields \ {f} : e[g] = s.ids[u][g]
    BY <1>2, <1>3, <2>3, EndedEntry
  <2>5. m \in Msgs /\ Overwritten(m) = Fields /\ m.ids = e
    BY <2>4 DEF Msgs, Overwritten
  <2> HIDE DEF e, m
  <2>6. /\ Typed(ids, s.teams) /\ Entry(ids, u) = e
        /\ Others(s.ids, ids, u)
    BY <1>2, <1>5, <2>4, EntrySet DEF Others
  <2> HIDE DEF ids
  <2>7. /\ Typed(ids, teams) /\ DOMAIN teams = DOMAIN s.teams
        /\ DOMAIN teams[k] = DOMAIN s.teams[k] \ {pos}
        /\ \A j \in DOMAIN s.teams : j # k => teams[j] = s.teams[j]
    BY <2>6, SeatDropped
  <2>8. Existing(ids, teams, lost) /\ Counted(ids, teams, lost)
    <3>1. u \notin lost => \E f \in Fields : Cleared(s.ids, ids, u, k, f)
      BY <2>3, <2>4, <2>6 DEF Cleared
    <3>2. Existing(s.ids, s.teams, lost) /\ Counted(s.ids, s.teams, lost)
      BY DEF Sound
    <3> QED BY <1>1, <1>2, <2>6, <3>1, <3>2, GuestLeaves
  <2> HIDE DEF teams
  <2>9. d \in [Players -> Seq(Msgs)] /\ AllFollow(ids, d, c, sy)
    <3>1. s.down \in [Players -> Seq(Msgs)] /\ AllFollow(s.ids, s.down, c, sy)
      BY DEF Sound
    <3>2. \A f \in Fields : Entry(ids, u)[f] =
            IF f \in Overwritten(m) THEN m.ids[f] ELSE Entry(s.ids, u)[f]
      BY <2>5, <2>6
    <3>3. MakesUp(m, u, sy, sy)
      BY DEF MakesUp
    <3> QED BY ONLY <1>2, <2>5, <2>6, <3>1, <3>2, <3>3, SentTo DEF d
  <2> HIDE DEF d
  <2>10. Sound(t, lost, c, sy)
    BY <2>2, <2>7, <2>8, <2>9 DEF Sound
  <2> QED BY <2>2, <2>7, <2>10 DEF t
<1> QED BY <1>4, <1>5

\* What holds of the tables a after some turns at the seats of the banquet k:
\* the other banquets are as in the tables s, and the seats still to come are
\* taken.
AtSeat(a, s, k, due, pos, lost, c, sy) ==
  /\ Sound(a, lost, c, sy)
  /\ DOMAIN a.teams = DOMAIN s.teams
  /\ \A j \in DOMAIN s.teams : j # k => a.teams[j] = s.teams[j]
  /\ a.stuck \/ \A p \in due : p > pos => p \in DOMAIN a.teams[k]

\* The turns of the inner loop.
LEMMA SeatTurnsSound ==
  ASSUME NEW s, NEW lost, NEW c, NEW sy, Sound(s, lost, c, sy),
         NEW k \in DOMAIN s.teams, NEW due \in SUBSET DOMAIN s.teams[k]
  PROVE  AtSeat(SeatTurns(s, k, due)[Seats], s, k, due, Seats, lost, c, sy)
<1> DEFINE seat == SeatTurns(s, k, due)
           S == {pos \in 0 .. Seats : AtSeat(seat[pos], s, k, due, pos, lost, c, sy)}
<1>1. seat = [pos \in 0 .. Seats |->
                IF pos = 0 THEN s
                ELSE LET a == seat[pos - 1]
                     IN  IF a.stuck \/ pos \notin due THEN a
                         ELSE Reward(a, k, pos)]
  BY SeatTurnsDefined
<1> HIDE DEF seat
<1>2. 0 \in S
  <2>1. seat[0] = s
    BY <1>1, BanquetAssumption
  <2> QED BY <2>1, BanquetAssumption DEF AtSeat
<1>3. ASSUME NEW n \in 0 .. Seats - 1, n \in S PROVE n + 1 \in S
  <2> DEFINE a == seat[n]
             b == seat[n + 1]
  <2>1. b = IF a.stuck \/ n + 1 \notin due THEN a ELSE Reward(a, k, n + 1)
    <3>1. n + 1 \in 0 .. Seats /\ n + 1 # 0 /\ (n + 1) - 1 = n
      BY BanquetAssumption
    <3> QED BY <1>1, <3>1
  <2>2. AtSeat(a, s, k, due, n, lost, c, sy)
    BY <1>3
  <2> HIDE DEF a, b
  <2>3. \A p \in due : p \in Nat
    BY GuestsType DEF Sound
  <2>4. CASE a.stuck \/ n + 1 \notin due
    <3>1. b = a
      BY <2>1, <2>4
    <3> QED BY <2>2, <2>3, <2>4, <3>1, BanquetAssumption DEF AtSeat, b
  <2>5. CASE ~a.stuck /\ n + 1 \in due
    <3>1. b = Reward(a, k, n + 1)
      BY <2>1, <2>5
    <3>2. k \in DOMAIN a.teams /\ n + 1 \in DOMAIN a.teams[k] /\ Sound(a, lost, c, sy)
      BY <2>2, <2>5 DEF AtSeat
    <3>3. /\ Sound(b, lost, c, sy)
          /\ DOMAIN b.teams = DOMAIN a.teams
          /\ \A j \in DOMAIN a.teams : j # k => b.teams[j] = a.teams[j]
          /\ b.stuck \/ DOMAIN b.teams[k] = DOMAIN a.teams[k] \ {n + 1}
      BY ONLY <3>1, <3>2, OneReward
    <3> QED BY <2>2, <2>3, <2>5, <3>3, BanquetAssumption DEF AtSeat, b
  <2> QED BY <2>4, <2>5
<1>4. Seats \in S
  <2> HIDE DEF S
  <2>1. \A n \in 0 .. Seats - 1 : n \in S => n + 1 \in S
    BY <1>3
  <2>2. \A n \in 0 .. Seats : n \in S
    BY ONLY <1>2, <2>1, Stepwise, BanquetAssumption
  <2> QED BY <2>2, BanquetAssumption
<1> QED BY <1>4 DEF seat

\* The turn of the outer loop at the banquet k.
LEMMA RefreshOneSound ==
  ASSUME NEW s, NEW lost, NEW c, NEW sy, Sound(s, lost, c, sy),
         NEW k \in DOMAIN s.teams, NEW due \in SUBSET DOMAIN s.teams[k], NEW ended
  PROVE  LET t == RefreshOne(s, k, due, ended)
         IN  /\ Sound(t, lost, c, sy)
             /\ \A j \in DOMAIN s.teams : j # k =>
                  j \in DOMAIN t.teams /\ t.teams[j] = s.teams[j]
<1> DEFINE a == SeatTurns(s, k, due)[Seats]
           t == RefreshOne(s, k, due, ended)
<1>1. AtSeat(a, s, k, due, Seats, lost, c, sy)
  BY SeatTurnsSound
<1>2. t = IF ended /\ a.teams[k] = <<>> /\ ~a.stuck
          THEN [a EXCEPT !.teams = Drop(@, k)] ELSE a
  BY RefreshOneTurns
<1> HIDE DEF a, t
<1>3. CASE ~(ended /\ a.teams[k] = <<>> /\ ~a.stuck)
  BY <1>1, <1>2, <1>3 DEF AtSeat, t
<1>4. CASE ended /\ a.teams[k] = <<>> /\ ~a.stuck
  <2> DEFINE left == Drop(a.teams, k)
  <2>1. t = [ids |-> a.ids, teams |-> left, down |-> a.down, stuck |-> a.stuck]
    BY <1>1, <1>2, <1>4 DEF AtSeat, Sound
  <2>2. t.ids = a.ids /\ t.teams = left /\ t.down = a.down /\ t.stuck = a.stuck
    BY <2>1
  <2>3. /\ k \in DOMAIN a.teams /\ DOMAIN a.teams[k] = {}
        /\ Typed(a.ids, a.teams)
        /\ Existing(a.ids, a.teams, lost) /\ Counted(a.ids, a.teams, lost)
    BY <1>1, <1>4 DEF AtSeat, Sound
  <2>4. /\ Typed(a.ids, left) /\ DOMAIN left = DOMAIN a.teams \ {k}
        /\ \A j \in DOMAIN a.teams \ {k} : left[j] = a.teams[j]
    <3>1. PICK ids, teams : ids = a.ids /\ teams = a.teams
      OBVIOUS
    <3>2. Typed(ids, teams)
      BY <2>3, <3>1
    <3>3. /\ Typed(ids, Drop(teams, k)) /\ DOMAIN Drop(teams, k) = DOMAIN teams \ {k}
          /\ \A j \in DOMAIN teams \ {k} : Drop(teams, k)[j] = teams[j]
      BY ONLY <3>2, BanquetDropped
    <3> QED BY <3>1, <3>3
  <2>5. Existing(a.ids, left, lost) /\ Counted(a.ids, left, lost)
    BY ONLY <2>3, BanquetRemoved
  <2> HIDE DEF left
  <2>6. Sound(t, lost, c, sy)
    BY <1>1, <2>1, <2>2, <2>4, <2>5 DEF AtSeat, Sound
  <2> QED BY <1>1, <2>2, <2>4, <2>6 DEF AtSeat, t
<1> QED BY <1>3, <1>4

\* What holds of the tables a after the turns at the first i banquets of
\* order: the banquets still to come are as in the tables s.
AtTurn(a, s, order, i, lost, c, sy) ==
  /\ Sound(a, lost, c, sy)
  /\ \/ a.stuck
     \/ \A j \in 1 .. Len(order) : j > i =>
          order[j] \in DOMAIN a.teams /\ a.teams[order[j]] = s.teams[order[j]]

\* One turn of the outer loop.
LEMMA NextTurnSound ==
  ASSUME NEW a, NEW lost, NEW c, NEW sy, Sound(a, lost, c, sy), ~a.stuck,
         NEW k \in DOMAIN a.teams, NEW due, NEW ended,
         \A pos : <<k, pos>> \in due => pos \in DOMAIN a.teams[k]
  PROVE  /\ Sound(NextTurn(a, k, due, ended), lost, c, sy)
         /\ \A j \in DOMAIN a.teams : j # k =>
              /\ j \in DOMAIN NextTurn(a, k, due, ended).teams
              /\ NextTurn(a, k, due, ended).teams[j] = a.teams[j]
<1>1. PICK seats : seats = {pos \in 1 .. Seats : <<k, pos>> \in due}
  OBVIOUS
<1>2. PICK over : over = (k \in ended)
  OBVIOUS
<1>3. PICK b : b = RefreshOne(a, k, seats, over)
  OBVIOUS
<1>4. NextTurn(a, k, due, ended) = b
  BY <1>1, <1>2, <1>3, Zenon DEF NextTurn
<1>5. seats \in SUBSET DOMAIN a.teams[k]
  BY <1>1
<1>6. /\ Sound(b, lost, c, sy)
      /\ \A j \in DOMAIN a.teams : j # k => j \in DOMAIN b.teams /\ b.teams[j] = a.teams[j]
  <2>1. Sound(a, lost, c, sy) /\ k \in DOMAIN a.teams
    OBVIOUS
  <2> QED BY ONLY <2>1, <1>3, <1>5, RefreshOneSound
<1> QED BY <1>4, <1>6

\* All turns of the outer loop.
LEMMA RefreshAllSound ==
  ASSUME NEW s, NEW lost, NEW c, NEW sy, Sound(s, lost, c, sy),
         NEW order, Len(order) \in Nat,
         \A i \in 1 .. Len(order) : order[i] \in DOMAIN s.teams,
         \A i, j \in 1 .. Len(order) : i # j => order[i] # order[j],
         NEW due, NEW ended,
         \A k \in DOMAIN s.teams : \A pos : <<k, pos>> \in due => pos \in DOMAIN s.teams[k]
  PROVE  Sound(RefreshAll(s, order, due, ended), lost, c, sy)
<1> DEFINE turn == BanquetTurns(s, order, due, ended)
           N == Len(order)
           S == {i \in 0 .. N : AtTurn(turn[i], s, order, i, lost, c, sy)}
<1>1. turn = [i \in 0 .. N |->
                IF i = 0 THEN s ELSE NextTurn(turn[i - 1], order[i], due, ended)]
  BY BanquetTurnsDefined
<1> HIDE DEF turn
<1>2. 0 \in S
  <2>1. turn[0] = s
    BY <1>1
  <2> QED BY <2>1 DEF AtTurn
<1>3. ASSUME NEW n \in 0 .. N - 1, n \in S PROVE n + 1 \in S
  <2> DEFINE a == turn[n]
             b == turn[n + 1]
             k == order[n + 1]
  <2>1. b = NextTurn(a, k, due, ended)
    <3>1. n + 1 \in 0 .. N /\ n + 1 # 0 /\ (n + 1) - 1 = n
      OBVIOUS
    <3> QED BY <1>1, <3>1
  <2>2. AtTurn(a, s, order, n, lost, c, sy)
    BY <1>3
  <2>3. CASE a.stuck
    <3>1. b = a
      BY <2>1, <2>3 DEF NextTurn
    <3>2. AtTurn(b, s, order, n + 1, lost, c, sy)
      BY <2>2, <2>3, <3>1 DEF AtTurn
    <3> QED BY <3>2
  <2>4. CASE ~a.stuck
    <3>1. /\ Sound(a, lost, c, sy)
          /\ n + 1 \in 1 .. N
          /\ k \in DOMAIN a.teams /\ a.teams[k] = s.teams[k]
      BY <2>2, <2>4 DEF AtTurn
    <3>2. \A pos : <<k, pos>> \in due => pos \in DOMAIN a.teams[k]
      BY <3>1
    <3> HIDE DEF a, b
    <3>3. /\ Sound(b, lost, c, sy)
          /\ \A j \in DOMAIN a.teams : j # k =>
               j \in DOMAIN b.teams /\ b.teams[j] = a.teams[j]
      <4> HIDE DEF k
      <4> QED BY <2>1, <2>4, <3>1, <3>2, NextTurnSound
    <3>4. \A j \in 1 .. N : j > n + 1 =>
            order[j] \in DOMAIN b.teams /\ b.teams[order[j]] = s.teams[order[j]]
      <4> SUFFICES ASSUME NEW j \in 1 .. N, j > n + 1
                   PROVE  /\ order[j] \in DOMAIN b.teams
                          /\ b.teams[order[j]] = s.teams[order[j]]
        OBVIOUS
      <4>1. order[j] # k
        BY <3>1
      <4>2. order[j] \in DOMAIN a.teams /\ a.teams[order[j]] = s.teams[order[j]]
        BY <2>2, <2>4 DEF AtTurn
      <4> QED BY <3>3, <4>1, <4>2
    <3>5. AtTurn(b, s, order, n + 1, lost, c, sy)
      BY <3>3, <3>4 DEF AtTurn
    <3> QED BY <3>5 DEF b
  <2> QED BY <2>3, <2>4
<1>4. N \in S
  <2> HIDE DEF S, N
  <2>1. \A n \in 0 .. N - 1 : n \in S => n + 1 \in S
    BY <1>3
  <2>2. N \in Nat
    BY DEF N
  <2>3. \A n \in 0 .. N : n \in S
    BY ONLY <1>2, <2>1, <2>2, Stepwise
  <2> QED BY <2>2, <2>3
<1>5. Sound(turn[N], lost, c, sy)
  BY <1>4 DEF AtTurn
<1> QED BY <1>5, RefreshAllTurns DEF turn

-----------------------------------------------------------------------------
(***************************************************************************)
(* The inductive invariant.                                                *)
(***************************************************************************)

Types ==
  /\ copy \in [Players -> Ids] /\ synced \in [Players -> BOOLEAN]
  /\ astray \subseteq Players
  /\ steps \in 0 .. MaxSteps
  /\ stuck \in BOOLEAN

Tables ==
  /\ Typed(m_stUinToTeamID, m_stTeamMap)
  /\ stuck => astray # {}
  /\ Existing(m_stUinToTeamID, m_stTeamMap, astray)
  /\ Counted(m_stUinToTeamID, m_stTeamMap, astray)

Copies ==
  /\ down \in [Players -> Seq(Msgs)]
  /\ AllFollow(m_stUinToTeamID, down, copy, synced)

Inv == Types /\ Tables /\ Copies

\* A player's entry in the index.
LEMMA EntryOf ==
  ASSUME NEW u
  PROVE  GetTeamIDByUin(u) = Entry(m_stUinToTeamID, u)
BY DEF GetTeamIDByUin, Entry

\* What the invariant says of the tables is what the properties say of them.
LEMMA InvTypes == Inv => TypeOK
<1> SUFFICES ASSUME Inv PROVE TypeOK
  OBVIOUS
<1>1. Typed(m_stUinToTeamID, m_stTeamMap) /\ Types
  BY DEF Inv, Tables
<1>2. \A k \in DOMAIN m_stTeamMap :
        /\ DOMAIN m_stTeamMap[k] \subseteq 1 .. Seats
        /\ \A pos \in DOMAIN m_stTeamMap[k] : m_stTeamMap[k][pos] \in Players
  BY <1>1, GuestsType
<1> QED BY <1>1, <1>2 DEF TypeOK, Types, Typed

\* What the invariant says of seats and index.
LEMMA InvSeats == Inv => SeatsIndexed
<1> SUFFICES ASSUME Inv PROVE SeatsIndexed
  OBVIOUS
<1>1. Tables
  BY DEF Inv
<1>2. ASSUME NEW u \in Players \ astray
      PROVE  LET e == GetTeamIDByUin(u)
             IN  /\ {e.m_iCreateId, e.m_iJoinId} \subseteq DOMAIN m_stTeamMap \cup {NoTeam}
                 /\ \A k \in DOMAIN m_stTeamMap :
                       Cardinality(SeatsOf(u, k)) =
                          Cardinality({f \in DOMAIN e : e[f] = k})
  <2> DEFINE e == GetTeamIDByUin(u)
  <2>1. e = Entry(m_stUinToTeamID, u) /\ e \in Ids
    BY <1>1, EntryOf, EntryType DEF Tables
  <2>2. DOMAIN e = Fields
    BY <2>1, EntryFields
  <2>3. \A f \in Fields : e[f] \in DOMAIN m_stTeamMap \cup {NoTeam}
    BY <1>1, <2>1 DEF Tables, Existing
  <2> HIDE DEF e
  <2>4. {e.m_iCreateId, e.m_iJoinId} \subseteq DOMAIN m_stTeamMap \cup {NoTeam}
    BY <2>3 DEF Fields
  <2>5. ASSUME NEW k \in DOMAIN m_stTeamMap
        PROVE  Cardinality(SeatsOf(u, k)) = Cardinality({f \in DOMAIN e : e[f] = k})
    <3>1. SeatsOf(u, k) = Sits(m_stTeamMap, u, k)
      BY DEF SeatsOf, Sits
    <3>2. {f \in DOMAIN e : e[f] = k} = Named(m_stUinToTeamID, u, k)
      BY <2>1, <2>2 DEF Named
    <3>3. Cardinality(Sits(m_stTeamMap, u, k)) = Cardinality(Named(m_stUinToTeamID, u, k))
      BY <1>1 DEF Tables, Counted
    <3> QED BY <3>1, <3>2, <3>3
  <2> QED BY <2>4, <2>5 DEF e
<1> QED BY <1>1, <1>2 DEF SeatsIndexed, Tables

\* What the invariant says of a copy when nothing is under way.
LEMMA InvSync == Inv => InSync
<1> SUFFICES ASSUME Inv, NEW u \in Players, synced[u], down[u] = <<>>
             PROVE  copy[u] = GetTeamIDByUin(u)
  BY DEF InSync
<1>1. Follows(down[u], Entry(m_stUinToTeamID, u), copy[u], synced[u])
  BY DEF Inv, Copies, AllFollow
<1>2. \A f \in Fields : Writers(down[u], f) = {}
  BY EmptySeq DEF Writers
<1>3. \A f \in Fields : copy[u][f] = Entry(m_stUinToTeamID, u)[f]
  BY <1>1, <1>2 DEF Follows
<1>4. copy[u] \in Ids /\ Entry(m_stUinToTeamID, u) \in Ids
  BY EntryType DEF Inv, Types, Tables
<1> QED BY <1>3, <1>4, SameEntry, EntryOf

\* The banquets that are given at the beginning.
LEMMA InitInv == Init => Inv
<1> SUFFICES ASSUME Init PROVE Inv
  OBVIOUS
<1>1. PICK hosts \in SUBSET Players :
        /\ m_stUinToTeamID = [u \in hosts |-> [NoIds EXCEPT !.m_iCreateId = <<u, 1>>]]
        /\ m_stTeamMap = [k \in hosts \X {1} |-> [pos \in {1} |-> k[1]]]
        /\ copy = [u \in Players |-> IF u \in hosts THEN [NoIds EXCEPT !.m_iCreateId = <<u, 1>>]
                                     ELSE NoIds]
  BY DEF Init
<1>2. ASSUME NEW u \in Players
      PROVE  LET e == IF u \in hosts THEN [NoIds EXCEPT !.m_iCreateId = <<u, 1>>] ELSE NoIds
             IN  /\ <<u, 1>> \in TeamIds
                 /\ e \in Ids
                 /\ Entry(m_stUinToTeamID, u) = e
                 /\ copy[u] = e
                 /\ e["m_iCreateId"] = IF u \in hosts THEN <<u, 1>> ELSE NoTeam
                 /\ e["m_iJoinId"] = NoTeam
  <2>1. <<u, 1>> \in TeamIds
    BY BanquetAssumption DEF TeamIds
  <2> QED BY <1>1, <2>1 DEF NoIds, Ids, Entry
<1>3. Types
  <2>1. copy \in [Players -> Ids]
    BY <1>1, <1>2
  <2>2. /\ synced \in [Players -> BOOLEAN] /\ astray = {} /\ stuck = FALSE
        /\ steps \in 0 .. MaxSteps
    BY BanquetAssumption DEF Init
  <2> QED BY <2>1, <2>2 DEF Types
<1>4. Typed(m_stUinToTeamID, m_stTeamMap)
  <2>1. \A k \in hosts \X {1} : k \in TeamIds /\ [pos \in {1} |-> k[1]] \in GuestMaps
    <3> SUFFICES ASSUME NEW k \in hosts \X {1}
                 PROVE  k \in TeamIds /\ [pos \in {1} |-> k[1]] \in GuestMaps
      OBVIOUS
    <3>1. k[1] \in Players /\ 1 \in 1 .. Seats /\ 1 \in 1 .. Windows
      BY BanquetAssumption
    <3>2. k \in TeamIds
      BY <3>1 DEF TeamIds
    <3> QED BY <3>1, <3>2, GuestMap
  <2>2. \A u \in hosts : m_stUinToTeamID[u] \in Ids
    BY <1>1, <1>2 DEF Entry
  <2>3. m_stTeamMap \in [hosts \X {1} -> GuestMaps]
    BY <1>1, <2>1
  <2> QED BY <1>1, <2>1, <2>2, <2>3 DEF Typed
<1>5. Existing(m_stUinToTeamID, m_stTeamMap, astray)
  <2> SUFFICES ASSUME NEW u \in Players, NEW f \in Fields
               PROVE  Entry(m_stUinToTeamID, u)[f] \in (hosts \X {1}) \cup {NoTeam}
    BY <1>1 DEF Existing
  <2>1. CASE u \in hosts /\ f = "m_iCreateId"
    <3>1. Entry(m_stUinToTeamID, u)["m_iCreateId"] = <<u, 1>>
      BY <1>2, <2>1
    <3> QED BY <2>1, <3>1
  <2>2. CASE u \notin hosts \/ f # "m_iCreateId"
    <3>1. Entry(m_stUinToTeamID, u)[f] = NoTeam
      BY <1>2, <2>2 DEF Fields
    <3> QED BY <3>1
  <2> QED BY <2>1, <2>2
<1>6. Counted(m_stUinToTeamID, m_stTeamMap, astray)
  <2> SUFFICES ASSUME NEW u \in Players, NEW k \in hosts \X {1}
               PROVE  Cardinality(Sits(m_stTeamMap, u, k)) =
                         Cardinality(Named(m_stUinToTeamID, u, k))
    BY <1>1 DEF Counted
  <2>1. /\ m_stTeamMap[k] = [pos \in {1} |-> k[1]]
        /\ k = <<k[1], 1>> /\ k[1] \in hosts /\ k # NoTeam
    <3>1. k = <<k[1], 1>> /\ k[1] \in hosts
      OBVIOUS
    <3>2. k[1] \in Players
      BY <3>1
    <3>3. <<k[1], 1>> \in TeamIds
      BY <1>2, <3>2
    <3>4. k \in TeamIds
      BY <3>1, <3>3
    <3> QED BY <1>1, <3>1, <3>4, TeamIsReal
  <2>2. CASE u = k[1]
    <3>1. Sits(m_stTeamMap, u, k) = {1}
      BY <2>1, <2>2 DEF Sits
    <3>2. Named(m_stUinToTeamID, u, k) = {"m_iCreateId"}
      <4>1. \A f \in Fields :
              Entry(m_stUinToTeamID, u)[f] = k <=> f = "m_iCreateId"
        BY <1>2, <2>1, <2>2 DEF Fields
      <4> QED BY ONLY <4>1 DEF Named, Fields
    <3> QED BY <3>1, <3>2, FS_Singleton
  <2>3. CASE u # k[1]
    <3>1. Sits(m_stTeamMap, u, k) = {}
      BY <2>1, <2>3 DEF Sits
    <3>2. Named(m_stUinToTeamID, u, k) = {}
      <4>1. Entry(m_stUinToTeamID, u)["m_iCreateId"] \in {<<u, 1>>, NoTeam}
        BY <1>2
      <4>2. Entry(m_stUinToTeamID, u)["m_iJoinId"] = NoTeam
        BY <1>2
      <4>3. <<u, 1>> # k
        BY <2>1, <2>3
      <4> QED BY <2>1, <4>1, <4>2, <4>3 DEF Named, Fields
    <3> QED BY <3>1, <3>2
  <2> QED BY <2>2, <2>3
<1>7. Copies
  <2>1. down \in [Players -> Seq(Msgs)] /\ \A u \in Players : down[u] = <<>>
    BY EmptySeq DEF Init
  <2>2. \A u \in Players : copy[u] = Entry(m_stUinToTeamID, u)
    BY <1>2
  <2>3. \A u \in Players : \A f : Writers(down[u], f) = {}
    BY <2>1 DEF Writers
  <2> QED BY <2>1, <2>2, <2>3 DEF Copies, AllFollow, Follows
<1> QED BY <1>3, <1>4, <1>5, <1>6, <1>7 DEF Inv, Tables, Init

-----------------------------------------------------------------------------
(***************************************************************************)
(* Every step preserves the invariant: the game servers and the network.   *)
(***************************************************************************)

\* A request leaves the tables and the copies alone.
LEMMA StepAsks ==
  ASSUME Inv, NEW u, NEW m, Asks(u, m)
  PROVE  Inv'
<1>1. Types'
  BY BanquetAssumption DEF Inv, Types, Asks, Step, game
<1>2. Tables' /\ Copies'
  BY DEF Inv, Tables, Copies, Asks, game, tables
<1> QED BY <1>1, <1>2 DEF Inv

\* A request goes up; no table and no answer changes.
LEMMA StepAsk ==
  ASSUME Inv, NEW u \in Players,
         AskCreate(u) \/ AskJoin(u) \/ AskQuit(u) \/ AskIds(u)
  PROVE  Inv'
<1>1. \E m : Asks(u, m)
  BY DEF AskCreate, AskJoin, AskQuit, AskIds
<1> QED BY <1>1, StepAsks

\* The game server handles the first answer, new is the player's new copy.
LEMMA Handled ==
  ASSUME Inv, NEW u \in Players, NEW cmd, Receives(u, cmd),
         NEW new \in Ids, copy' = [copy EXCEPT ![u] = new],
         LET m == Head(down[u])
         IN  \A f \in Fields :
               new[f] = IF f \in Overwritten(m) THEN m.ids[f] ELSE copy[u][f]
  PROVE  Inv'
<1>1. /\ down[u] # <<>> /\ down' = [down EXCEPT ![u] = Tail(@)]
      /\ UNCHANGED <<tables, stuck, astray, synced, steps>>
  BY DEF Receives
<1>2. Types'
  BY <1>1 DEF Inv, Types
<1>3. Tables'
  BY <1>1 DEF Inv, Tables, tables
<1>4. down[u] \in Seq(Msgs) /\ down \in [Players -> Seq(Msgs)]
  BY DEF Inv, Copies
<1>5. /\ down' \in [Players -> Seq(Msgs)] /\ down'[u] = Tail(down[u])
      /\ \A v \in Players \ {u} : down'[v] = down[v]
  BY <1>1, <1>4, HeadTailProperties
<1>6. m_stUinToTeamID' = m_stUinToTeamID
  BY <1>1 DEF tables
<1>7. ASSUME NEW v \in Players
      PROVE  Follows(down'[v], Entry(m_stUinToTeamID, v), copy'[v], synced[v])
  <2>1. Follows(down[v], Entry(m_stUinToTeamID, v), copy[v], synced[v])
    BY DEF Inv, Copies, AllFollow
  <2>2. CASE v # u
    <3>1. copy'[v] = copy[v] /\ down'[v] = down[v]
      BY <1>5, <2>2 DEF Inv, Types
    <3> QED BY <2>1, <3>1
  <2>3. CASE v = u
    <3>1. copy'[u] = new
      BY DEF Inv, Types
    <3>2. Follows(Tail(down[u]), Entry(m_stUinToTeamID, u), new, synced[u])
      BY <1>1, <1>4, <2>1, <2>3, AnswerGot
    <3> QED BY <1>5, <2>3, <3>1, <3>2
  <2> QED BY <2>2, <2>3
<1>8. Copies'
  BY <1>1, <1>5, <1>6, <1>7 DEF Copies, AllFollow
<1> QED BY <1>2, <1>3, <1>8 DEF Inv

\* The answer that is handled has its type.
LEMMA FirstAnswer ==
  ASSUME Inv, NEW u \in Players, NEW cmd, Receives(u, cmd)
  PROVE  Head(down[u]) \in Msgs /\ Head(down[u]).cmd = cmd /\ copy[u] \in Ids
BY EmptySeq, HeadTailProperties DEF Inv, Copies, Types, Receives

\* An answer is written into the copy, and is no longer under way.
LEMMA StepHandles ==
  ASSUME Inv, NEW u \in Players,
         \/ DoServerRunCreateBanquetTeam(u) \/ DoServerRunJoinBanquetTeam(u)
         \/ DoServerRunBanquetQuitTeam(u) \/ DoServerRunBanquetFinishNotify(u)
         \/ DoServerRunBanquetUpdateLogin(u)
  PROVE  Inv'
<1>1. CASE DoServerRunCreateBanquetTeam(u)
  <2> DEFINE m == Head(down[u])
             new == [copy[u] EXCEPT !.m_iCreateId = m.ids.m_iCreateId]
  <2>1. Receives(u, "create") /\ copy' = [copy EXCEPT ![u] = new]
    BY <1>1 DEF DoServerRunCreateBanquetTeam
  <2>2. m \in Msgs /\ m.cmd = "create" /\ copy[u] \in Ids
    BY <2>1, FirstAnswer
  <2>3. /\ new \in Ids
        /\ \A f \in Fields : new[f] = IF f \in Overwritten(m) THEN m.ids[f] ELSE copy[u][f]
    BY <2>2 DEF Ids, Msgs, Overwritten, Fields
  <2> HIDE DEF new
  <2> QED BY <2>1, <2>3, Handled
<1>2. CASE DoServerRunJoinBanquetTeam(u)
  <2> DEFINE m == Head(down[u])
             new == [copy[u] EXCEPT !.m_iJoinId = m.ids.m_iJoinId]
  <2>1. Receives(u, "join") /\ copy' = [copy EXCEPT ![u] = new]
    BY <1>2 DEF DoServerRunJoinBanquetTeam
  <2>2. m \in Msgs /\ m.cmd = "join" /\ copy[u] \in Ids
    BY <2>1, FirstAnswer
  <2>3. /\ new \in Ids
        /\ \A f \in Fields : new[f] = IF f \in Overwritten(m) THEN m.ids[f] ELSE copy[u][f]
    BY <2>2 DEF Ids, Msgs, Overwritten, Fields
  <2> HIDE DEF new
  <2> QED BY <2>1, <2>3, Handled
<1>3. CASE DoServerRunBanquetQuitTeam(u)
  <2> DEFINE m == Head(down[u])
             new == [copy[u] EXCEPT !.m_iJoinId = NoTeam]
  <2>1. Receives(u, "quit") /\ copy' = [copy EXCEPT ![u] = new]
    BY <1>3 DEF DoServerRunBanquetQuitTeam
  <2>2. m \in Msgs /\ m.cmd = "quit" /\ copy[u] \in Ids
    BY <2>1, FirstAnswer
  <2>3. /\ new \in Ids
        /\ \A f \in Fields : new[f] = IF f \in Overwritten(m) THEN m.ids[f] ELSE copy[u][f]
    BY <2>2 DEF Ids, Msgs, Overwritten, Fields, NoIds
  <2> HIDE DEF new
  <2> QED BY <2>1, <2>3, Handled
<1>4. CASE DoServerRunBanquetFinishNotify(u) \/ DoServerRunBanquetUpdateLogin(u)
  <2> DEFINE m == Head(down[u])
  <2>1. PICK cmd \in {"finish", "ids"} :
          Receives(u, cmd) /\ copy' = [copy EXCEPT ![u] = m.ids]
    BY <1>4 DEF DoServerRunBanquetFinishNotify, DoServerRunBanquetUpdateLogin
  <2>2. m \in Msgs /\ m.cmd = cmd
    BY <2>1, FirstAnswer
  <2>3. /\ m.ids \in Ids
        /\ \A f \in Fields : m.ids[f] = IF f \in Overwritten(m) THEN m.ids[f] ELSE copy[u][f]
    BY <2>1, <2>2 DEF Msgs, Overwritten
  <2>4. PICK new : new = m.ids
    OBVIOUS
  <2>5. /\ new \in Ids /\ copy' = [copy EXCEPT ![u] = new]
        /\ \A f \in Fields : new[f] = IF f \in Overwritten(m) THEN m.ids[f] ELSE copy[u][f]
    BY <2>1, <2>3, <2>4
  <2> QED BY <2>1, <2>5, Handled
<1> QED BY <1>1, <1>2, <1>3, <1>4

\* Answers to u are lost, q are left.
LEMMA StepLoses ==
  ASSUME Inv, NEW u \in Players, NEW q \in Seq(Msgs), NEW b \in BOOLEAN,
         down' = [down EXCEPT ![u] = q],
         synced' = [synced EXCEPT ![u] = b],
         Follows(q, Entry(m_stUinToTeamID, u), copy[u], b),
         Step, UNCHANGED <<tables, stuck, astray, copy>>
  PROVE  Inv'
<1>1. Types'
  BY BanquetAssumption DEF Inv, Types, Step
<1>2. Tables'
  BY DEF Inv, Tables, tables
<1>3. /\ down' \in [Players -> Seq(Msgs)]
      /\ down'[u] = q /\ synced'[u] = b
      /\ \A v \in Players \ {u} : down'[v] = down[v] /\ synced'[v] = synced[v]
  BY DEF Inv, Types, Copies
<1>4. \A v \in Players : Follows(down[v], Entry(m_stUinToTeamID, v), copy[v], synced[v])
  BY DEF Inv, Copies, AllFollow
<1>5. ASSUME NEW v \in Players
      PROVE  Follows(down'[v], Entry(m_stUinToTeamID, v), copy[v], synced'[v])
  <2>1. CASE v # u
    BY <1>3, <1>4, <2>1
  <2>2. CASE v = u
    BY <1>3, <2>2
  <2> QED BY <2>1, <2>2
<1>6. Copies'
  BY <1>3, <1>5 DEF Copies, AllFollow, tables
<1> QED BY <1>1, <1>2, <1>6 DEF Inv

\* The ids of u are still under way to him, after the first i answers.
LEMMA IdsComeAfter ==
  ASSUME NEW u, NEW i, IdsAfter(u, i)
  PROVE  \E n \in i + 1 .. Len(down[u]) : Overwritten(down[u][n]) = Fields
BY DEF IdsAfter, Overwritten

\* A broken connection: the copy may miss the first answers.
LEMMA StepBreak ==
  ASSUME Inv, NEW u \in Players, Break(u)
  PROVE  Inv'
<1>1. PICK j \in 0 .. Len(down[u]) :
        /\ down' = [down EXCEPT ![u] = SubSeq(@, j + 1, Len(@))]
        /\ synced' = [synced EXCEPT ![u] = @ /\ (j = 0 \/ IdsAfter(u, j))]
  BY DEF Break
<1>2. PICK d : d = down[u]
  OBVIOUS
<1>3. d \in Seq(Msgs) /\ Len(d) \in Nat /\ j \in 0 .. Len(d)
  BY <1>1, <1>2 DEF Inv, Copies
<1>4. PICK q : q = SubSeq(d, j + 1, Len(d))
  OBVIOUS
<1>5. /\ q \in Seq(Msgs) /\ Len(q) = Len(d) - j
      /\ \A k \in j + 1 .. Len(d) : q[k - j] = d[k]
  <2>1. /\ q \in Seq(Msgs) /\ Len(q) = Len(d) - j
        /\ \A k \in 1 .. Len(d) - j : q[k] = d[j + k]
    BY <1>3, <1>4, SubSeqProperties
  <2>2. ASSUME NEW k \in j + 1 .. Len(d)
        PROVE  k - j \in 1 .. Len(d) - j /\ j + (k - j) = k
    BY <1>3
  <2> QED BY <2>1, <2>2
<1>6. PICK b : b = (synced[u] /\ (j = 0 \/ IdsAfter(u, j)))
  OBVIOUS
<1>7. b \in BOOLEAN
  BY <1>6 DEF Inv, Types, IdsAfter
<1>8. Follows(d, Entry(m_stUinToTeamID, u), copy[u], synced[u])
  BY <1>2 DEF Inv, Copies, AllFollow
<1>9. Follows(q, Entry(m_stUinToTeamID, u), copy[u], b)
  <2> SUFFICES ASSUME b PROVE Follows(q, Entry(m_stUinToTeamID, u), copy[u], synced[u])
    BY <1>6 DEF Follows
  <2>1. CASE j = 0
    <3>1. Len(q) = Len(d) /\ \A k \in 1 .. Len(q) : q[k] = d[k]
      BY <1>3, <1>5, <2>1
    <3>2. q = d
      BY <1>3, <1>5, <3>1, SeqEqual
    <3> QED BY <1>8, <3>2
  <2>2. CASE IdsAfter(u, j)
    <3>1. PICK i \in j + 1 .. Len(d) : Overwritten(d[i]) = Fields
      BY <1>2, <1>3, <2>2, IdsComeAfter
    <3>2. i \in 1 .. Len(d) /\ j \in 0 .. i - 1 /\ \A k \in i .. Len(d) : q[k - j] = d[k]
      BY <1>3, <1>5, <3>1
    <3> QED BY ONLY <1>3, <1>5, <1>8, <3>1, <3>2, AnswersLost
  <2> QED BY <1>6, <2>1, <2>2
<1>10. /\ down' = [down EXCEPT ![u] = q] /\ synced' = [synced EXCEPT ![u] = b]
       /\ Step /\ UNCHANGED <<tables, stuck, astray, copy>>
  BY <1>1, <1>2, <1>4, <1>6 DEF Break
<1> QED BY <1>5, <1>7, <1>9, <1>10, StepLoses

\* An answer is lost on an open connection: those before and after it are not.
LEMMA StepLoseAnswer ==
  ASSUME Inv, NEW u \in Players, NEW i \in 1 .. Len(down[u]), LoseAnswer(u, i)
  PROVE  Inv'
<1>1. PICK d : d = down[u]
  OBVIOUS
<1>2. d \in Seq(Msgs) /\ Len(d) \in Nat /\ i \in 1 .. Len(d)
  BY <1>1 DEF Inv, Copies
<1>3. PICK q : q = RemoveAt(d, i)
  OBVIOUS
<1>4. /\ q \in Seq(Msgs) /\ Len(q) = Len(d) - 1
      /\ \A k \in i + 1 .. Len(d) : q[k - 1] = d[k]
  <2>1. PICK x, y : x = SubSeq(d, 1, i - 1) /\ y = SubSeq(d, i + 1, Len(d))
    OBVIOUS
  <2>2. x \in Seq(Msgs) /\ Len(x) = i - 1
    BY <1>2, <2>1, SubSeqProperties
  <2>3. /\ y \in Seq(Msgs) /\ Len(y) = Len(d) - i
        /\ \A k \in 1 .. Len(d) - i : y[k] = d[i + k]
    BY <1>2, <2>1, SubSeqProperties
  <2>4. q = x \o y
    BY <1>3, <2>1 DEF RemoveAt
  <2>5. /\ q \in Seq(Msgs) /\ Len(q) = Len(x) + Len(y)
        /\ \A k \in 1 .. Len(x) + Len(y) :
              q[k] = IF k <= Len(x) THEN x[k] ELSE y[k - Len(x)]
    BY <2>2, <2>3, <2>4, ConcatProperties
  <2>6. ASSUME NEW k \in i + 1 .. Len(d) PROVE q[k - 1] = d[k]
    <3>1. /\ k - 1 \in 1 .. (i - 1) + (Len(d) - i) /\ ~(k - 1 <= i - 1)
          /\ (k - 1) - (i - 1) = k - i /\ k - i \in 1 .. Len(d) - i
          /\ i + (k - i) = k
      BY <1>2
    <3>2. q[k - 1] = y[k - i]
      BY <2>2, <2>3, <2>5, <3>1
    <3>3. y[k - i] = d[k]
      BY <2>3, <3>1
    <3> QED BY <3>2, <3>3
  <2> QED BY <1>2, <2>2, <2>3, <2>5, <2>6
<1>5. PICK b : b = (synced[u] /\ IdsAfter(u, i))
  OBVIOUS
<1>6. b \in BOOLEAN
  BY <1>5 DEF Inv, Types, IdsAfter
<1>7. Follows(q, Entry(m_stUinToTeamID, u), copy[u], b)
  <2> SUFFICES ASSUME b PROVE Follows(q, Entry(m_stUinToTeamID, u), copy[u], synced[u])
    BY <1>5 DEF Follows
  <2>1. PICK n \in i + 1 .. Len(d) : Overwritten(d[n]) = Fields
    <3>1. IdsAfter(u, i)
      BY <1>5, Zenon
    <3>2. i \in Nat
      BY <1>2
    <3> QED BY <1>1, <3>1, <3>2, IdsComeAfter
  <2>2. n \in 1 .. Len(d) /\ 1 \in 0 .. n - 1 /\ \A k \in n .. Len(d) : q[k - 1] = d[k]
    BY <1>2, <1>4, <2>1
  <2>3. Follows(d, Entry(m_stUinToTeamID, u), copy[u], synced[u])
    BY <1>1 DEF Inv, Copies, AllFollow
  <2> QED BY ONLY <1>2, <1>4, <2>1, <2>2, <2>3, AnswersLost
<1>8. /\ down' = [down EXCEPT ![u] = q] /\ synced' = [synced EXCEPT ![u] = b]
      /\ Step /\ UNCHANGED <<tables, stuck, astray, copy>>
  BY <1>1, <1>3, <1>5 DEF LoseAnswer
<1> QED BY <1>4, <1>6, <1>7, <1>8, StepLoses

\* A send that is refused, and an answer that is not handled.
LEMMA StepLost ==
  ASSUME Inv, NEW u \in Players, SendRefused(u) \/ DoServerProcessFails(u)
  PROVE  Inv'
<1>1. CASE SendRefused(u)
  BY <1>1, StepLoseAnswer DEF SendRefused
<1>2. CASE DoServerProcessFails(u)
  <2>1. 1 \in 1 .. Len(down[u])
    BY <1>2, EmptySeq DEF Inv, Copies, DoServerProcessFails
  <2> QED BY <1>2, <2>1, StepLoseAnswer DEF DoServerProcessFails
<1> QED BY <1>1, <1>2

-----------------------------------------------------------------------------
(***************************************************************************)
(* Every step preserves the invariant: the cross server.                   *)
(***************************************************************************)

\* The first of some seats is one of them.
LEMMA MinIn ==
  ASSUME NEW S \in SUBSET Nat, S # {}
  PROVE  Min(S) \in S
<1>1. \E n \in S : \A m \in S : n <= m
  BY Least
<1> QED BY <1>1 DEF Min

\* A banquet with fewer guests than seats has a free one.
LEMMA FreeSeatExists ==
  ASSUME Tables, NEW k \in DOMAIN m_stTeamMap,
         Cardinality(DOMAIN m_stTeamMap[k]) < Seats
  PROVE  FreeSeat(k) \in 1 .. Seats /\ FreeSeat(k) \notin DOMAIN m_stTeamMap[k]
<1> DEFINE free == (1 .. Seats) \ DOMAIN m_stTeamMap[k]
<1>1. DOMAIN m_stTeamMap[k] \subseteq 1 .. Seats
  BY GuestsType DEF Tables
<1>2. free # {}
  <2>1. Cardinality(1 .. Seats) = Seats
    BY FS_Interval, BanquetAssumption
  <2>2. DOMAIN m_stTeamMap[k] # 1 .. Seats
    BY <2>1, BanquetAssumption
  <2> QED BY <1>1, <2>2
<1>3. free \in SUBSET Nat
  OBVIOUS
<1>4. Min(free) \in free
  BY <1>2, <1>3, MinIn
<1> QED BY <1>4 DEF FreeSeat

\* A field of an entry is set.
LEMMA FieldSet ==
  ASSUME NEW e \in Ids, NEW k \in TeamIds \cup {NoTeam}
  PROVE  /\ [e EXCEPT !.m_iCreateId = k] \in Ids
         /\ [e EXCEPT !.m_iCreateId = k]["m_iCreateId"] = k
         /\ [e EXCEPT !.m_iCreateId = k]["m_iJoinId"] = e["m_iJoinId"]
         /\ [e EXCEPT !.m_iJoinId = k] \in Ids
         /\ [e EXCEPT !.m_iJoinId = k]["m_iJoinId"] = k
         /\ [e EXCEPT !.m_iJoinId = k]["m_iCreateId"] = e["m_iCreateId"]
BY DEF Ids

\* Requests that change nothing, and what a request never changes.
LEMMA TakesKeeps ==
  ASSUME Inv, NEW u, NEW cmd, Takes(u, cmd)
  PROVE  copy' = copy /\ stuck' = stuck /\ steps' = steps /\ ~stuck
BY DEF Takes

\* A request that is refused is answered with the index's values.
LEMMA StepRefused ==
  ASSUME Inv, NEW u, NEW cmd, Takes(u, cmd), Refuses,
         astray' = astray, synced' = synced
  PROVE  Inv'
<1>1. /\ copy' = copy /\ synced' = synced /\ stuck' = stuck /\ steps' = steps
      /\ m_stUinToTeamID' = m_stUinToTeamID /\ m_stTeamMap' = m_stTeamMap
      /\ down' = down /\ astray' = astray
  BY TakesKeeps DEF Refuses, tables
<1> QED BY <1>1 DEF Inv, Types, Tables, Copies

\* The answer m to u is sent, with the fields of his new entry e that it
\* overwrites.
LEMMA CopiesAnswered ==
  ASSUME Inv, NEW u \in Players, NEW cmd, Takes(u, cmd), synced' = synced,
         NEW m \in Msgs, Answers(u, m), NEW e \in Ids, SetIds(u, e),
         \A f \in Fields :
           e[f] = IF f \in Overwritten(m) THEN m.ids[f] ELSE Entry(m_stUinToTeamID, u)[f]
  PROVE  /\ Copies'
         /\ Typed(m_stUinToTeamID', m_stTeamMap)
         /\ Entry(m_stUinToTeamID', u) = e
         /\ Others(m_stUinToTeamID, m_stUinToTeamID', u)
<1>1. m_stUinToTeamID' = Put(m_stUinToTeamID, u, e)
  BY DEF SetIds
<1>2. Typed(m_stUinToTeamID, m_stTeamMap)
  BY DEF Inv, Tables
<1>3. /\ Typed(m_stUinToTeamID', m_stTeamMap)
      /\ Entry(m_stUinToTeamID', u) = e
      /\ Others(m_stUinToTeamID, m_stUinToTeamID', u)
  BY <1>1, <1>2, EntryPut DEF Others
<1>4. PICK ids : ids = m_stUinToTeamID'
  OBVIOUS
<1>5. down \in [Players -> Seq(Msgs)] /\ AllFollow(m_stUinToTeamID, down, copy, synced)
  BY DEF Inv, Copies
<1>6. LET d2 == [down EXCEPT ![u] = Append(@, m)]
      IN  d2 \in [Players -> Seq(Msgs)] /\ AllFollow(ids, d2, copy, synced)
  <2>1. /\ u \in Players /\ m \in Msgs /\ Others(m_stUinToTeamID, ids, u)
        /\ \A f \in Fields : Entry(ids, u)[f] =
             IF f \in Overwritten(m) THEN m.ids[f] ELSE Entry(m_stUinToTeamID, u)[f]
        /\ MakesUp(m, u, synced, synced)
    BY <1>3, <1>4 DEF MakesUp
  <2> QED BY ONLY <1>5, <2>1, SentTo
<1>7. /\ down' = [down EXCEPT ![u] = Append(@, m)]
      /\ copy' = copy /\ synced' = synced
  BY TakesKeeps DEF Answers
<1>8. Copies'
  BY <1>4, <1>6, <1>7 DEF Copies
<1> QED BY <1>3, <1>8

\* A banquet is given, or its level changed.
LEMMA StepCreate ==
  ASSUME Inv, NEW u \in Players, CreateOrUpdateTeam(u)
  PROVE  Inv'
<1>1. PICK k \in {u} \X (1 .. Windows) :
        IF MayCreate(u, k)
        THEN /\ m_stTeamMap' = Put(m_stTeamMap, k, [pos \in {1} |-> u])
             /\ SetIds(u, [GetTeamIDByUin(u) EXCEPT !.m_iCreateId = k])
             /\ Answers(u, [cmd |-> "create", ids |-> [NoIds EXCEPT !.m_iCreateId = k]])
        ELSE Refuses
  BY DEF CreateOrUpdateTeam
<1>2. Takes(u, "create") /\ astray' = astray /\ synced' = synced
  BY DEF CreateOrUpdateTeam
<1>3. CASE ~MayCreate(u, k)
  BY <1>1, <1>2, <1>3, StepRefused
<1>4. CASE MayCreate(u, k)
  <2> DEFINE old == Entry(m_stUinToTeamID, u)
             e == [old EXCEPT !.m_iCreateId = k]
             m == [cmd |-> "create", ids |-> [NoIds EXCEPT !.m_iCreateId = k]]
  <2>1. /\ k \in TeamIds /\ k # NoTeam /\ k \notin DOMAIN m_stTeamMap
        /\ old["m_iCreateId"] = NoTeam
    BY <1>4, EntryOf, TeamIsReal DEF MayCreate, TeamIds
  <2>2. /\ m_stTeamMap' = WithBanquet(m_stTeamMap, k, u)
        /\ SetIds(u, e) /\ Answers(u, m)
    BY <1>1, <1>4, EntryOf DEF WithBanquet
  <2>3. Tables /\ old \in Ids
    BY EntryType DEF Inv, Tables
  <2>4. e \in Ids /\ e["m_iCreateId"] = k /\ e["m_iJoinId"] = old["m_iJoinId"]
    <3>1. PICK d : d = old
      OBVIOUS
    <3>2. d \in Ids /\ k \in TeamIds \cup {NoTeam}
      BY <2>1, <2>3, <3>1
    <3>3. PICK n : n = [d EXCEPT !.m_iCreateId = k]
      OBVIOUS
    <3>4. n \in Ids /\ n["m_iCreateId"] = k /\ n["m_iJoinId"] = d["m_iJoinId"]
      BY ONLY <3>2, <3>3, FieldSet
    <3>5. e = n
      BY <3>1, <3>3
    <3> HIDE DEF old, e
    <3> QED BY ONLY <3>1, <3>4, <3>5
  <2>5. m \in Msgs /\ Overwritten(m) = {"m_iCreateId"} /\ m.ids["m_iCreateId"] = k
    <3>1. PICK n : n = [NoIds EXCEPT !.m_iCreateId = k]
      OBVIOUS
    <3>2. n \in Ids /\ n["m_iCreateId"] = k
      <4>1. NoIds \in Ids /\ k \in TeamIds \cup {NoTeam}
        BY <2>1, NoEntry
      <4> QED BY ONLY <3>1, <4>1, FieldSet
    <3>3. m = [cmd |-> "create", ids |-> n]
      BY <3>1
    <3> QED BY <3>2, <3>3 DEF Msgs, Overwritten
  <2> HIDE DEF old, e, m
  <2>6. \A f \in Fields : e[f] = IF f \in Overwritten(m) THEN m.ids[f] ELSE old[f]
    BY <2>4, <2>5 DEF Fields
  <2>7. /\ Copies'
        /\ Typed(m_stUinToTeamID', m_stTeamMap)
        /\ Entry(m_stUinToTeamID', u) = e
        /\ Others(m_stUinToTeamID, m_stUinToTeamID', u)
    BY <1>2, <2>2, <2>4, <2>5, <2>6, CopiesAnswered DEF old
  <2>8. Filled(m_stUinToTeamID, m_stUinToTeamID', u, k, "m_iCreateId")
    BY <2>1, <2>4, <2>7 DEF Filled, Fields, old
  <2>9. Typed(m_stUinToTeamID', m_stTeamMap')
    BY <2>1, <2>2, <2>7, BanquetPut
  <2>10. /\ Existing(m_stUinToTeamID', m_stTeamMap', astray)
         /\ Counted(m_stUinToTeamID', m_stTeamMap', astray)
    BY <2>1, <2>2, <2>3, <2>7, <2>8, HostBegins DEF Tables, Fields
  <2>11. Types' /\ Tables'
    BY <1>2, <2>3, <2>9, <2>10, TakesKeeps DEF Inv, Types, Tables
  <2> QED BY <2>7, <2>11 DEF Inv
<1> QED BY <1>3, <1>4

\* A guest takes a seat, and the index says so.
LEMMA StepJoin ==
  ASSUME Inv, NEW u \in Players, JoinTeam(u)
  PROVE  Inv'
<1>1. PICK k : k = Head(up[u]).team
  OBVIOUS
<1>2. Takes(u, "join") /\ astray' = astray /\ synced' = synced
  BY DEF JoinTeam
<1>3. CASE Refuses
  BY <1>2, <1>3, StepRefused
<1>4. CASE ~Refuses
  <2> DEFINE old == Entry(m_stUinToTeamID, u)
             e == [old EXCEPT !.m_iJoinId = k]
             m == [cmd |-> "join", ids |-> [NoIds EXCEPT !.m_iJoinId = k]]
             pos == FreeSeat(k)
  <2>1. /\ MayJoin(u, k)
        /\ m_stTeamMap' = WithSeat(m_stTeamMap, k, pos, u)
        /\ SetIds(u, e) /\ Answers(u, m)
    BY <1>1, <1>4, EntryOf DEF JoinTeam, WithSeat
  <2>2. Tables /\ old \in Ids
    BY EntryType DEF Inv, Tables
  <2>3. /\ k \in DOMAIN m_stTeamMap /\ k \in TeamIds /\ k # NoTeam
        /\ Cardinality(DOMAIN m_stTeamMap[k]) < Seats
        /\ old["m_iJoinId"] = NoTeam
    BY <2>1, <2>2, EntryOf, GuestsType DEF MayJoin, Tables
  <2>4. pos \in 1 .. Seats /\ pos \notin DOMAIN m_stTeamMap[k]
    BY <2>2, <2>3, FreeSeatExists
  <2>5. e \in Ids /\ e["m_iJoinId"] = k /\ e["m_iCreateId"] = old["m_iCreateId"]
    BY <2>2, <2>3, FieldSet
  <2>6. m \in Msgs /\ Overwritten(m) = {"m_iJoinId"} /\ m.ids["m_iJoinId"] = k
    <3>1. PICK n : n = [NoIds EXCEPT !.m_iJoinId = k]
      OBVIOUS
    <3>2. n \in Ids /\ n["m_iJoinId"] = k
      BY <2>3, <3>1, NoEntry, FieldSet
    <3>3. m = [cmd |-> "join", ids |-> n]
      BY <3>1
    <3> QED BY <3>2, <3>3 DEF Msgs, Overwritten
  <2> HIDE DEF old, e, m, pos
  <2>7. \A f \in Fields : e[f] = IF f \in Overwritten(m) THEN m.ids[f] ELSE old[f]
    BY <2>5, <2>6 DEF Fields
  <2>8. /\ Copies'
        /\ Typed(m_stUinToTeamID', m_stTeamMap)
        /\ Entry(m_stUinToTeamID', u) = e
        /\ Others(m_stUinToTeamID, m_stUinToTeamID', u)
    BY <1>2, <2>1, <2>5, <2>6, <2>7, CopiesAnswered DEF old
  <2>9. Filled(m_stUinToTeamID, m_stUinToTeamID', u, k, "m_iJoinId")
    BY <2>3, <2>5, <2>8 DEF Filled, Fields, old
  <2>10. Typed(m_stUinToTeamID', m_stTeamMap')
    BY <2>1, <2>3, <2>4, <2>8, SeatPut
  <2>11. /\ Existing(m_stUinToTeamID', m_stTeamMap', astray)
         /\ Counted(m_stUinToTeamID', m_stTeamMap', astray)
    BY <2>1, <2>2, <2>3, <2>4, <2>8, <2>9, GuestComes DEF Tables, Fields
  <2>12. Types' /\ Tables'
    BY <1>2, <2>2, <2>10, <2>11, TakesKeeps DEF Inv, Types, Tables
  <2> QED BY <2>8, <2>12 DEF Inv
<1> QED BY <1>3, <1>4

\* A player quits the banquet k: he goes astray if his entry names another as
\* the one he attends, or none of his seats at k is that of the entry.
LEMMA StepQuit ==
  ASSUME Inv, NEW u \in Players, ProcessBanquetQuitTeam(u)
  PROVE  Inv'
<1>1. PICK k : k = Head(up[u]).team
  OBVIOUS
<1>2. Takes(u, "quit") /\ synced' = synced
  BY DEF ProcessBanquetQuitTeam
<1>3. CASE Refuses /\ astray' = astray
  BY <1>2, <1>3, StepRefused
<1>4. CASE ~(Refuses /\ astray' = astray)
  <2> DEFINE old == Entry(m_stUinToTeamID, u)
             e == [old EXCEPT !.m_iJoinId = NoTeam]
             m == [cmd |-> "quit", ids |-> NoIds]
             ids == m_stUinToTeamID
             new == m_stUinToTeamID'
  <2>1. /\ k \in DOMAIN m_stTeamMap
        /\ m_stTeamMap' = IF SeatsOf(u, k) = {} THEN m_stTeamMap
                          ELSE WithoutSeat(m_stTeamMap, k, Min(SeatsOf(u, k)))
        /\ SetIds(u, e) /\ Answers(u, m)
        /\ astray' = IF old.m_iJoinId = k THEN astray ELSE astray \cup {u}
    BY <1>1, <1>4, EntryOf DEF ProcessBanquetQuitTeam, MayQuit, WithoutSeat
  <2>2. Tables /\ old \in Ids /\ k # NoTeam
    BY <2>1, EntryType, GuestsType DEF Inv, Tables
  <2>3. e \in Ids /\ e["m_iJoinId"] = NoTeam /\ e["m_iCreateId"] = old["m_iCreateId"]
    BY <2>2, FieldSet
  <2>4. m \in Msgs /\ Overwritten(m) = {"m_iJoinId"} /\ m.ids["m_iJoinId"] = NoTeam
    BY NoEntry DEF Msgs, Overwritten, Fields
  <2> HIDE DEF old, e, m
  <2>5. \A f \in Fields : e[f] = IF f \in Overwritten(m) THEN m.ids[f] ELSE old[f]
    BY <2>3, <2>4 DEF Fields
  <2>6. /\ Copies'
        /\ Typed(new, m_stTeamMap)
        /\ Entry(new, u) = e
        /\ Others(ids, new, u)
    BY <1>2, <2>1, <2>3, <2>4, <2>5, CopiesAnswered DEF old
  <2>7. u \notin astray' => Cleared(ids, new, u, k, "m_iJoinId")
    BY <2>1, <2>3, <2>6 DEF Cleared, Fields, old
  <2>8. /\ astray \subseteq astray' /\ astray' \subseteq Players
        /\ Existing(ids, m_stTeamMap, astray')
        /\ Counted(ids, m_stTeamMap, astray')
    BY <2>1, <2>2 DEF Inv, Types, Tables, Existing, Counted
  <2>9. SeatsOf(u, k) = Sits(m_stTeamMap, u, k)
    BY DEF SeatsOf, Sits
  <2>10. CASE SeatsOf(u, k) = {}
    <3>1. u \in astray'
      <4> SUFFICES ASSUME u \notin astray' PROVE FALSE
        OBVIOUS
      <4>1. Cardinality(Sits(m_stTeamMap, u, k)) = Cardinality(Named(ids, u, k))
        BY <2>1, <2>8 DEF Counted
      <4>2. IsFiniteSet(Sits(m_stTeamMap, u, k)) /\ IsFiniteSet(Named(ids, u, k))
        BY <2>1, <2>2, CountsAreFinite DEF Tables
      <4>3. Named(ids, u, k) = {}
        BY <2>9, <2>10, <4>1, <4>2, NoneCounted
      <4> QED BY <2>7, <4>3 DEF Cleared, Named, Fields
    <3>2. Typed(new, m_stTeamMap') /\ m_stTeamMap' = m_stTeamMap
      BY <2>1, <2>6, <2>10
    <3>3. Existing(new, m_stTeamMap, astray') /\ Counted(new, m_stTeamMap, astray')
      BY <2>6, <2>8, <3>1, NamedOthers DEF Existing, Counted, Others
    <3>4. Types' /\ Tables'
      BY <1>2, <2>8, <3>2, <3>3, TakesKeeps DEF Inv, Types, Tables
    <3> QED BY <2>6, <3>4 DEF Inv
  <2>11. CASE SeatsOf(u, k) # {}
    <3> DEFINE pos == Min(SeatsOf(u, k))
    <3>1. pos \in DOMAIN m_stTeamMap[k] /\ m_stTeamMap[k][pos] = u
      <4>1. SeatsOf(u, k) \in SUBSET Nat
        BY <2>1, <2>2, <2>9, GuestsType DEF Tables, Sits
      <4>2. pos \in SeatsOf(u, k)
        BY <2>11, <4>1, MinIn
      <4> QED BY <2>9, <4>2 DEF Sits
    <3>2. m_stTeamMap' = WithoutSeat(m_stTeamMap, k, pos)
      BY <2>1, <2>11
    <3> HIDE DEF pos
    <3>3. Typed(new, m_stTeamMap')
      BY <2>1, <2>6, <3>1, <3>2, SeatDropped
    <3>4. /\ Existing(new, m_stTeamMap', astray')
          /\ Counted(new, m_stTeamMap', astray')
      <4>1. u \notin astray' => \E f \in Fields : Cleared(ids, new, u, k, f)
        BY <2>7 DEF Fields
      <4> QED BY <2>1, <2>2, <2>6, <2>8, <3>1, <3>2, <4>1, GuestLeaves DEF Tables
    <3>5. Types' /\ Tables'
      BY <1>2, <2>8, <3>3, <3>4, TakesKeeps DEF Inv, Types, Tables
    <3> QED BY <2>6, <3>5 DEF Inv
  <2> QED BY <2>10, <2>11
<1> QED BY <1>3, <1>4

\* A player is told his ids.
LEMMA StepIds ==
  ASSUME Inv, NEW u \in Players, ProcessBanquetUpdateLogin(u)
  PROVE  Inv'
<1> DEFINE e == Entry(m_stUinToTeamID, u)
           m == [cmd |-> "ids", ids |-> e]
<1>1. /\ Takes(u, "ids") /\ Answers(u, m)
      /\ UNCHANGED <<m_stUinToTeamID, m_stTeamMap, astray>>
      /\ synced' = [synced EXCEPT ![u] = TRUE]
  BY EntryOf DEF ProcessBanquetUpdateLogin, tables
<1>2. e \in Ids
  BY EntryType DEF Inv, Tables
<1>3. m \in Msgs /\ Overwritten(m) = Fields /\ m.ids = e
  BY <1>2 DEF Msgs, Overwritten
<1> HIDE DEF m
<1>4. Types' /\ Tables'
  BY <1>1, TakesKeeps DEF Inv, Types, Tables
<1>5. LET d2 == [down EXCEPT ![u] = Append(@, m)]
      IN  d2 \in [Players -> Seq(Msgs)] /\ AllFollow(m_stUinToTeamID, d2, copy, synced')
  <2>1. down \in [Players -> Seq(Msgs)] /\ AllFollow(m_stUinToTeamID, down, copy, synced)
    BY DEF Inv, Copies
  <2>2. Others(m_stUinToTeamID, m_stUinToTeamID, u)
    BY DEF Others
  <2>3. \A f \in Fields : Entry(m_stUinToTeamID, u)[f] =
          IF f \in Overwritten(m) THEN m.ids[f] ELSE Entry(m_stUinToTeamID, u)[f]
    BY <1>3
  <2> HIDE DEF e
  <2>4. u \in Players /\ m \in Msgs
    BY <1>3
  <2>5. PICK sy2 : sy2 = synced'
    OBVIOUS
  <2>6. MakesUp(m, u, synced, sy2)
    BY <1>1, <1>3, <2>5 DEF Inv, Types, MakesUp
  <2>7. LET d2 == [down EXCEPT ![u] = Append(@, m)]
        IN  d2 \in [Players -> Seq(Msgs)] /\ AllFollow(m_stUinToTeamID, d2, copy, sy2)
    BY ONLY <2>1, <2>2, <2>3, <2>4, <2>6, SentTo
  <2> QED BY <2>5, <2>7
<1>6. Copies'
  BY <1>1, <1>5, TakesKeeps DEF Copies, Answers
<1> QED BY <1>4, <1>6 DEF Inv

\* The banquets are finitely many.
LEMMA BanquetsFinite == IsFiniteSet(TeamIds)
<1>1. IsFiniteSet(1 .. Windows)
  BY FS_Interval, BanquetAssumption
<1> QED BY <1>1, FS_Product, BanquetAssumption DEF TeamIds

\* The seats that are taken are seats of the banquets.
LEMMA TakenSeats ==
  ASSUME NEW d \in Taken
  PROVE  \E k \in DOMAIN m_stTeamMap : \E pos \in DOMAIN m_stTeamMap[k] : d = <<k, pos>>
BY DEF Taken

\* Any order of a finite set meets every element once.
LEMMA OrderOf ==
  ASSUME NEW S, IsFiniteSet(S), NEW order \in SetToSeqs(S)
  PROVE  /\ Len(order) \in Nat
         /\ \A i \in 1 .. Len(order) : order[i] \in S
         /\ \A i, j \in 1 .. Len(order) : i # j => order[i] # order[j]
<1>1. PICK n \in Nat : n = Cardinality(S)
  BY FS_CardinalityType
<1>2. /\ order \in [1 .. n -> S]
      /\ \A i, j \in 1 .. n : i # j => order[i] # order[j]
  BY <1>1 DEF SetToSeqs
<1>3. Len(order) = n
  BY <1>2, SeqDef
<1> QED BY <1>2, <1>3

\* The walk over banquets and guests, and the notices it sends.
LEMMA StepRefresh ==
  ASSUME Inv, RefreshTeam
  PROVE  Inv'
<1> DEFINE s == [ids |-> m_stUinToTeamID, teams |-> m_stTeamMap,
                 down |-> down, stuck |-> FALSE]
<1>1. PICK due \in SUBSET Taken, ended \in SUBSET DOMAIN m_stTeamMap :
        \E order \in SetToSeqs({d[1] : d \in due} \cup ended) :
          LET t == RefreshAll(s, order, due, ended)
          IN  /\ m_stUinToTeamID' = t.ids /\ m_stTeamMap' = t.teams
              /\ down' = t.down /\ stuck' = t.stuck
  BY DEF RefreshTeam
<1> DEFINE S == {d[1] : d \in due} \cup ended
<1>2. PICK order \in SetToSeqs(S) :
          LET t == RefreshAll(s, order, due, ended)
          IN  /\ m_stUinToTeamID' = t.ids /\ m_stTeamMap' = t.teams
              /\ down' = t.down /\ stuck' = t.stuck
  BY <1>1
<1>3. UNCHANGED <<astray, copy, synced, steps>>
  BY DEF RefreshTeam, game
<1>4. S \subseteq DOMAIN m_stTeamMap
  BY TakenSeats
<1>5. IsFiniteSet(S)
  BY <1>4, BanquetsFinite, FS_Subset DEF Inv, Tables, Typed
<1> HIDE DEF S
<1>6. /\ Len(order) \in Nat
      /\ \A i \in 1 .. Len(order) : order[i] \in DOMAIN m_stTeamMap
      /\ \A i, j \in 1 .. Len(order) : i # j => order[i] # order[j]
  BY <1>4, <1>5, OrderOf
<1>7. \A k \in DOMAIN m_stTeamMap : \A pos :
        <<k, pos>> \in due => pos \in DOMAIN m_stTeamMap[k]
  <2> SUFFICES ASSUME NEW k \in DOMAIN m_stTeamMap, NEW pos, <<k, pos>> \in due
               PROVE  pos \in DOMAIN m_stTeamMap[k]
    OBVIOUS
  <2>1. PICK j \in DOMAIN m_stTeamMap :
          \E p \in DOMAIN m_stTeamMap[j] : <<k, pos>> = <<j, p>>
    BY TakenSeats
  <2> QED BY <2>1
<1>8. /\ Sound(s, astray, copy, synced)
      /\ s.teams = m_stTeamMap
  BY DEF Sound, Inv, Tables, Copies
<1>9. PICK t : t = RefreshAll(s, order, due, ended)
  OBVIOUS
<1> HIDE DEF s
<1>10. Sound(t, astray, copy, synced)
  BY <1>6, <1>7, <1>8, <1>9, RefreshAllSound
<1>11. /\ m_stUinToTeamID' = t.ids /\ m_stTeamMap' = t.teams
       /\ down' = t.down /\ stuck' = t.stuck
  BY <1>2, <1>9
<1>12. Types'
  BY <1>3, <1>10, <1>11 DEF Inv, Types, Sound
<1>13. Tables' /\ Copies'
  BY <1>3, <1>10, <1>11 DEF Sound, Tables, Copies
<1> QED BY <1>12, <1>13 DEF Inv

-----------------------------------------------------------------------------
(***************************************************************************)
(* Theorems.                                                               *)
(***************************************************************************)

\* Every step preserves the invariant.
LEMMA NextInv ==
  ASSUME Inv, [Next]_vars
  PROVE  Inv'
<1>1. ASSUME NEW u \in Players,
             AskCreate(u) \/ AskJoin(u) \/ AskQuit(u) \/ AskIds(u)
      PROVE  Inv'
  BY <1>1, StepAsk
<1>2. ASSUME NEW u \in Players, CreateOrUpdateTeam(u)
      PROVE  Inv'
  BY <1>2, StepCreate
<1>3. ASSUME NEW u \in Players, JoinTeam(u)
      PROVE  Inv'
  BY <1>3, StepJoin
<1>4. ASSUME NEW u \in Players, ProcessBanquetQuitTeam(u)
      PROVE  Inv'
  BY <1>4, StepQuit
<1>5. ASSUME NEW u \in Players, ProcessBanquetUpdateLogin(u)
      PROVE  Inv'
  BY <1>5, StepIds
<1>6. ASSUME NEW u \in Players,
             \/ DoServerRunCreateBanquetTeam(u) \/ DoServerRunJoinBanquetTeam(u)
             \/ DoServerRunBanquetQuitTeam(u) \/ DoServerRunBanquetFinishNotify(u)
             \/ DoServerRunBanquetUpdateLogin(u)
      PROVE  Inv'
  BY <1>6, StepHandles
<1>7. ASSUME NEW u \in Players, Break(u)
      PROVE  Inv'
  BY <1>7, StepBreak
<1>8. ASSUME NEW u \in Players, SendRefused(u) \/ DoServerProcessFails(u)
      PROVE  Inv'
  BY <1>8, StepLost
<1>9. CASE RefreshTeam
  BY <1>9, StepRefresh
<1>10. CASE UNCHANGED vars
  BY <1>10 DEF vars, tables, game, Inv, Types, Tables, Copies
<1> QED BY <1>1, <1>2, <1>3, <1>4, <1>5, <1>6, <1>7, <1>8, <1>9, <1>10 DEF Next

\* The inductive invariant holds in every behaviour.
THEOREM Invariant == Spec => []Inv
BY InitInv, NextInv, PTL DEF Spec

\* Tables, copies and histories have their types: RefreshTeam, which drops
\* seats, entries and banquets one after the other, never uses one that is
\* gone.
THEOREM TypeCorrect == Spec => []TypeOK
<1>1. Spec => []Inv
  BY Invariant
<1> QED BY <1>1, InvTypes, PTL

\* A player has as many seats at a banquet as his entry in the index says,
\* so that no countdown ends for a guest without an entry, unless somebody
\* has quit one banquet while he attended another.
THEOREM SeatsAreIndexed == Spec => []SeatsIndexed
<1>1. Spec => []Inv
  BY Invariant
<1> QED BY <1>1, InvSeats, PTL

\* When nothing is under way to a player and no answer to him was lost, on a
\* broken connection or an open one, since his ids were last sent, his copy of
\* the ids is his entry in the index.
THEOREM CopiesAgree == Spec => []InSync
<1>1. Spec => []Inv
  BY Invariant
<1> QED BY <1>1, InvSync, PTL

=============================================================================
