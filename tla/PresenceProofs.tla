--------------------------- MODULE PresenceProofs ---------------------------
(***************************************************************************)
(* Proofs about Presence, for any players and any number of logins, of     *)
(* requests, of broken connections and crashes, and of refused messages.   *)
(*                                                                         *)
(* The properties speak of a connection whose messages have been handled.  *)
(* They are inductive as soon as they say, at every moment, what the       *)
(* messages under way lead to when they are handled in their order: that   *)
(* is decided by the last notice about a player, and for his seat also by  *)
(* the one before it.                                                      *)
(***************************************************************************)
EXTENDS Presence, SequenceTheorems, TLAPS

-----------------------------------------------------------------------------
(***************************************************************************)
(* What a queue of messages leads to, for a player whose container is p    *)
(* when none of them has been handled.                                     *)
(***************************************************************************)

\* The notices about u in the queue q.
Notices(q, u) ==
  {i \in 1 .. Len(q) : q[i].type # "check" /\ u \in q[i].uins}

\* He is online when the first n messages have been handled.
OnlineAt(q, p, u, n) ==
  \/ \E k \in Notices(q, u) :
       /\ k <= n /\ q[k].type = "in"
       /\ \A j \in Notices(q, u) : j <= n => j <= k
  \/ (\A j \in Notices(q, u) : j > n) /\ p = "online"

Online(q, p, u) == OnlineAt(q, p, u, Len(q))

\* The last notice i about u says that he has left.
LastOut(q, u, i) ==
  /\ i \in Notices(q, u) /\ q[i].type = "out"
  /\ \A j \in Notices(q, u) : j <= i

\* He is not online when all have been handled.
Gone(q, p, u) ==
  \/ \E i \in Notices(q, u) : LastOut(q, u, i)
  \/ Notices(q, u) = {} /\ p # "online"

\* He has no seat when all have been handled, because he is online when the
\* last notice, which does not protect him, is handled.
Left(q, p, u) ==
  \/ \E i \in Notices(q, u) :
       LastOut(q, u, i) /\ ~q[i].protect /\ OnlineAt(q, p, u, i - 1)
  \/ Notices(q, u) = {} /\ p = "none"

-----------------------------------------------------------------------------
(***************************************************************************)
(* The inductive invariant.                                                *)
(***************************************************************************)

\* Those who have left, and those who are there while the connection is up,
\* are known, or will be, unless a notice was lost.
GoneIsKnown == \A u \in Uins \ (users \cup missed) : Gone(toQueue, place[u], u)

OnlineIsKnown ==
  link = "up" => \A u \in users \ missed : Online(toQueue, place[u], u)

\* As long as the connection is up only a refused message is missed.
OnlyRefusedIsMissed == link = "up" /\ refusals = 0 => users \cap missed = {}

\* The tag of a player is his present session's.
TagIsRefusal == \A u \in users : (u \in m_stUserQueueTag) = refused[u]

SeatIsLost ==
  \A u \in Uins \ (users \cup missed) :
     refusals = 0 /\ refused[u] => Left(toQueue, place[u], u)

Inv == /\ TypeOK
       /\ GoneIsKnown /\ OnlineIsKnown /\ OnlyRefusedIsMissed
       /\ TagIsRefusal /\ SeatIsLost

-----------------------------------------------------------------------------
(***************************************************************************)
(* Queues of messages.                                                     *)
(***************************************************************************)

\* What a message does to the container of a player.
Moved(m, p, u) ==
  IF u \notin m.uins \/ m.type = "check" THEN p
  ELSE IF m.type = "in" THEN "online"
  ELSE IF m.protect \/ p = "protected" THEN "protected" ELSE "none"

\* Handling the first message leads where the queue leads to.
LEMMA Popped ==
  ASSUME NEW q \in Seq(Messages), q # <<>>, NEW u, NEW p, NEW r, r = Tail(q),
         NEW s, s = Moved(Head(q), p, u)
  PROVE  /\ \A n \in 1 .. Len(q) : OnlineAt(q, p, u, n) => OnlineAt(r, s, u, n - 1)
         /\ Online(q, p, u) => Online(r, s, u)
         /\ Gone(q, p, u) => Gone(r, s, u)
         /\ Left(q, p, u) => Left(r, s, u)
<1>1. /\ Len(q) \in Nat \ {0} /\ Len(r) = Len(q) - 1 /\ Head(q) = q[1]
      /\ \A i \in 1 .. Len(r) : r[i] = q[i + 1]
  BY EmptySeq, HeadTailProperties
<1>2. q[1] \in Messages
  BY <1>1, ElementOfSeq
<1>3. /\ Notices(q, u) \subseteq 1 .. Len(q)
      /\ \A i \in Notices(r, u) : i + 1 \in Notices(q, u) /\ r[i] = q[i + 1]
      /\ \A i \in Notices(q, u) \ {1} : i - 1 \in Notices(r, u) /\ r[i - 1] = q[i]
      /\ Notices(r, u) \subseteq 1 .. Len(r)
  BY <1>1 DEF Notices
<1>4. 1 \in Notices(q, u) <=> q[1].type # "check" /\ u \in q[1].uins
  BY <1>1 DEF Notices
<1>5. /\ 1 \notin Notices(q, u) => s = p
      /\ 1 \in Notices(q, u) /\ q[1].type = "in" => s = "online"
      /\ 1 \in Notices(q, u) /\ q[1].type = "out" => s # "online"
      /\ 1 \in Notices(q, u) /\ q[1].type = "out" /\ ~q[1].protect /\ p = "online"
            => s = "none"
  BY <1>1, <1>2, <1>4 DEF Moved
<1>6. ASSUME NEW n \in 1 .. Len(q), OnlineAt(q, p, u, n)
      PROVE  OnlineAt(r, s, u, n - 1)
  <2>1. ASSUME NEW k \in Notices(q, u), k <= n, q[k].type = "in",
               \A j \in Notices(q, u) : j <= n => j <= k
        PROVE  OnlineAt(r, s, u, n - 1)
    <3>1. CASE k = 1
      <4>1. \A j \in Notices(r, u) : j > n - 1
        BY <2>1, <3>1, <1>1, <1>3
      <4> QED
        BY <2>1, <3>1, <4>1, <1>5 DEF OnlineAt
    <3>2. CASE k # 1
      <4>1. k - 1 \in Notices(r, u) /\ r[k - 1].type = "in" /\ k - 1 <= n - 1
        BY <2>1, <3>2, <1>1, <1>3
      <4>2. \A j \in Notices(r, u) : j <= n - 1 => j <= k - 1
        BY <2>1, <1>1, <1>3
      <4> QED
        BY <4>1, <4>2 DEF OnlineAt
    <3> QED
      BY <3>1, <3>2
  <2>2. ASSUME \A j \in Notices(q, u) : j > n, p = "online"
        PROVE  OnlineAt(r, s, u, n - 1)
    <3>1. 1 \notin Notices(q, u)
      BY <2>2
    <3>2. \A j \in Notices(r, u) : j > n - 1
      BY <2>2, <1>1, <1>3
    <3> QED
      BY <2>2, <3>1, <3>2, <1>5 DEF OnlineAt
  <2> QED
    BY <1>6, <2>1, <2>2 DEF OnlineAt
<1>7. ASSUME NEW i \in Notices(q, u), LastOut(q, u, i)
      PROVE  \/ i = 1 /\ Notices(r, u) = {}
             \/ i # 1 /\ LastOut(r, u, i - 1)
  BY <1>1, <1>3, <1>7 DEF LastOut
<1>8. Online(q, p, u) => Online(r, s, u)
  BY <1>1, <1>6 DEF Online
<1>9. Gone(q, p, u) => Gone(r, s, u)
  <2>1. ASSUME NEW i \in Notices(q, u), LastOut(q, u, i)
        PROVE  Gone(r, s, u)
    BY <2>1, <1>5, <1>7 DEF Gone, LastOut
  <2>2. ASSUME Notices(q, u) = {}, p # "online"
        PROVE  Gone(r, s, u)
    BY <2>2, <1>3, <1>5 DEF Gone
  <2> QED
    BY <2>1, <2>2 DEF Gone
<1>10. Left(q, p, u) => Left(r, s, u)
  <2>1. ASSUME NEW i \in Notices(q, u), LastOut(q, u, i), ~q[i].protect,
               OnlineAt(q, p, u, i - 1)
        PROVE  Left(r, s, u)
    <3>1. CASE i = 1
      <4>1. \A k \in Notices(q, u) : ~(k <= i - 1)
        BY <3>1, <1>3
      <4>2. p = "online"
        BY <2>1, <4>1 DEF OnlineAt
      <4>3. s = "none" /\ Notices(r, u) = {}
        BY <2>1, <3>1, <4>2, <1>5, <1>7 DEF LastOut
      <4> QED
        BY <4>3 DEF Left
    <3>2. CASE i # 1
      <4>1. i - 1 \in 1 .. Len(q) /\ r[i - 1] = q[i] /\ i - 1 \in Notices(r, u)
        BY <3>2, <1>1, <1>3
      <4>2. LastOut(r, u, i - 1)
        BY <2>1, <3>2, <1>7
      <4>3. OnlineAt(r, s, u, (i - 1) - 1)
        BY <2>1, <4>1, <1>6
      <4> QED
        BY <2>1, <4>1, <4>2, <4>3 DEF Left
    <3> QED
      BY <3>1, <3>2
  <2>2. ASSUME Notices(q, u) = {}, p = "none"
        PROVE  Left(r, s, u)
    BY <2>2, <1>3, <1>5 DEF Left
  <2> QED
    BY <2>1, <2>2 DEF Left
<1> QED
  BY <1>6, <1>8, <1>9, <1>10

\* Messages that are no notices about u change nothing for him.
LEMMA AddedOthers ==
  ASSUME NEW q \in Seq(Messages), NEW ms \in Seq(Messages), NEW u, NEW p,
         \A k \in 1 .. Len(ms) : ms[k].type = "check" \/ u \notin ms[k].uins,
         NEW r, r = q \o ms
  PROVE  /\ Online(q, p, u) => Online(r, p, u)
         /\ Gone(q, p, u) => Gone(r, p, u)
         /\ Left(q, p, u) => Left(r, p, u)
<1>1. /\ Len(q) \in Nat /\ Len(ms) \in Nat /\ Len(r) = Len(q) + Len(ms)
      /\ \A i \in 1 .. Len(r) :
            r[i] = IF i <= Len(q) THEN q[i] ELSE ms[i - Len(q)]
  BY ConcatProperties, LenProperties
<1>2. \A i \in 1 .. Len(q) : i \in 1 .. Len(r) /\ r[i] = q[i]
  BY <1>1
<1>3. \A i \in 1 .. Len(r) : i <= Len(q) \/ i - Len(q) \in 1 .. Len(ms)
  BY <1>1
<1>4. Notices(r, u) = Notices(q, u)
  <2>1. \A i \in Notices(r, u) : i \in Notices(q, u)
    BY <1>1, <1>3 DEF Notices
  <2>2. \A i \in Notices(q, u) : i \in Notices(r, u)
    BY <1>2 DEF Notices
  <2> QED
    BY <2>1, <2>2
<1>5. \A i \in Notices(q, u) : r[i] = q[i] /\ i \in 1 .. Len(q)
  BY <1>2 DEF Notices
<1>6. Online(q, p, u) => Online(r, p, u)
  <2>1. \A i \in Notices(q, u) : i <= Len(q) /\ i <= Len(r) /\ ~(i > Len(q)) /\ ~(i > Len(r))
    BY <1>1, <1>5
  <2> QED
    BY <2>1, <1>4, <1>5 DEF Online, OnlineAt
<1>7. Gone(q, p, u) => Gone(r, p, u)
  BY <1>4, <1>5 DEF Gone, LastOut
<1>8. Left(q, p, u) => Left(r, p, u)
  BY <1>4, <1>5 DEF Left, LastOut, OnlineAt
<1> QED
  BY <1>6, <1>7, <1>8

\* The last message decides, if it is a notice about u.
LEMMA AddedLast ==
  ASSUME NEW q \in Seq(Messages), NEW ms \in Seq(Messages), ms # <<>>,
         NEW u, NEW p, NEW r, r = q \o ms, NEW m, m = ms[Len(ms)],
         u \in m.uins
  PROVE  /\ m.type = "in" => Online(r, p, u)
         /\ m.type = "out" => Gone(r, p, u)
         /\ m.type = "out" /\ ~m.protect /\ Len(ms) = 1 /\ Online(q, p, u)
               => Left(r, p, u)
<1>1. /\ Len(q) \in Nat /\ Len(ms) \in Nat \ {0} /\ Len(r) = Len(q) + Len(ms)
      /\ \A i \in 1 .. Len(r) :
            r[i] = IF i <= Len(q) THEN q[i] ELSE ms[i - Len(q)]
  BY ConcatProperties, LenProperties, EmptySeq
<1>2. Len(r) \in 1 .. Len(r) /\ r[Len(r)] = m
  BY <1>1
<1>3. /\ \A j \in Notices(r, u) : j \in 1 .. Len(r) /\ j <= Len(r)
      /\ m.type # "check" => Len(r) \in Notices(r, u)
  BY <1>1, <1>2 DEF Notices
<1>4. m.type = "in" => Online(r, p, u)
  BY <1>1, <1>2, <1>3 DEF Online, OnlineAt
<1>5. m.type = "out" => LastOut(r, u, Len(r))
  BY <1>2, <1>3 DEF LastOut
<1>6. ASSUME m.type = "out", ~m.protect, Len(ms) = 1, Online(q, p, u)
      PROVE  Left(r, p, u)
  <2>1. Len(r) - 1 = Len(q)
    BY <1>1, <1>6
  <2>2. /\ \A i \in Notices(q, u) : i \in Notices(r, u) /\ r[i] = q[i]
        /\ \A i \in Notices(r, u) : i <= Len(q) => i \in Notices(q, u)
        /\ \A i \in Notices(q, u) : i \in 1 .. Len(q)
    BY <1>1 DEF Notices
  <2>3. OnlineAt(r, p, u, Len(q))
    <3>1. ASSUME NEW k \in Notices(q, u), q[k].type = "in",
                 \A j \in Notices(q, u) : j <= Len(q) => j <= k
          PROVE  OnlineAt(r, p, u, Len(q))
      BY <3>1, <2>2, <1>1 DEF OnlineAt
    <3>2. ASSUME \A j \in Notices(q, u) : j > Len(q), p = "online"
          PROVE  OnlineAt(r, p, u, Len(q))
      <4>1. \A j \in Notices(r, u) : j > Len(q)
        BY <3>2, <2>2, <1>1, <1>3
      <4> QED
        BY <3>2, <4>1 DEF OnlineAt
    <3> QED
      BY <1>6, <3>1, <3>2 DEF Online, OnlineAt
  <2> QED
    BY <1>2, <1>3, <1>5, <1>6, <2>1, <2>3 DEF Left
<1> QED
  BY <1>3, <1>4, <1>5, <1>6 DEF Gone

\* A container changes, and not by a notice: nobody becomes online or stops
\* being online.
LEMMA PlaceMoved ==
  ASSUME NEW q, NEW u, NEW p, NEW s, p # "online", s # "online"
  PROVE  /\ Online(q, p, u) => Online(q, s, u)
         /\ Gone(q, p, u) => Gone(q, s, u)
         /\ p # "none" /\ Left(q, p, u) => Left(q, s, u)
<1>1. \A n : OnlineAt(q, p, u, n) => OnlineAt(q, s, u, n)
  BY DEF OnlineAt
<1> QED
  BY <1>1 DEF Online, Gone, Left

\* The messages but the i-th.
LEMMA OneLost ==
  ASSUME NEW ms \in Seq(Messages), NEW i \in 1 .. Len(ms)
  PROVE  /\ Without(ms, i) \in Seq(Messages)
         /\ Len(Without(ms, i)) = Len(ms) - 1
         /\ \A k \in 1 .. Len(ms) - 1 :
               Without(ms, i)[k] = IF k < i THEN ms[k] ELSE ms[k + 1]
<1> DEFINE a == SubSeq(ms, 1, i - 1)
           b == SubSeq(ms, i + 1, Len(ms))
<1>1. Len(ms) \in Nat /\ i \in Int /\ \A k \in 1 .. Len(ms) : ms[k] \in Messages
  BY LenProperties, ElementOfSeq
<1>2. /\ a \in Seq(Messages) /\ Len(a) = i - 1
      /\ \A k \in 1 .. i - 1 : a[k] = ms[k]
  <2>1. \A k \in 1 .. i - 1 : ms[k] \in Messages
    BY <1>1
  <2>2. /\ a \in Seq(Messages)
        /\ Len(a) = IF 1 <= i - 1 THEN (i - 1) - 1 + 1 ELSE 0
        /\ \A k \in 1 .. (i - 1) - 1 + 1 : a[k] = ms[1 + k - 1]
    BY <1>1, <2>1, SubSeqProperties
  <2> HIDE DEF a
  <2> QED
    BY <1>1, <2>2
<1>3. /\ b \in Seq(Messages) /\ Len(b) = Len(ms) - i
      /\ \A k \in 1 .. Len(ms) - i : b[k] = ms[i + k]
  <2>1. \A k \in i + 1 .. Len(ms) : ms[k] \in Messages
    BY <1>1
  <2>2. /\ b \in Seq(Messages)
        /\ Len(b) = IF i + 1 <= Len(ms) THEN Len(ms) - (i + 1) + 1 ELSE 0
        /\ \A k \in 1 .. Len(ms) - (i + 1) + 1 : b[k] = ms[(i + 1) + k - 1]
    BY <1>1, <2>1, SubSeqProperties
  <2> HIDE DEF b
  <2> QED
    BY <1>1, <2>2
<1> HIDE DEF a, b
<1>4. /\ a \o b \in Seq(Messages)
      /\ Len(a \o b) = Len(a) + Len(b)
      /\ \A k \in 1 .. Len(a) + Len(b) :
            (a \o b)[k] = IF k <= Len(a) THEN a[k] ELSE b[k - Len(a)]
  BY <1>2, <1>3, ConcatProperties
<1>5. \A k \in 1 .. Len(ms) - 1 :
         (a \o b)[k] = IF k < i THEN ms[k] ELSE ms[k + 1]
  <2> SUFFICES ASSUME NEW k \in 1 .. Len(ms) - 1
               PROVE  (a \o b)[k] = IF k < i THEN ms[k] ELSE ms[k + 1]
    OBVIOUS
  <2>1. CASE k < i
    BY <2>1, <1>1, <1>2, <1>3, <1>4
  <2>2. CASE ~(k < i)
    <3>1. k - (i - 1) \in 1 .. Len(ms) - i /\ i + (k - (i - 1)) = k + 1
      BY <2>2, <1>1
    <3>2. b[k - (i - 1)] = ms[k + 1]
      BY <3>1, <1>3
    <3>3. (a \o b)[k] = b[k - (i - 1)]
      BY <2>2, <1>1, <1>2, <1>3, <1>4
    <3> QED
      BY <3>2, <3>3, <2>2
  <2> QED
    BY <2>1, <2>2
<1>6. Len(a \o b) = Len(ms) - 1
  BY <1>1, <1>2, <1>3, <1>4
<1> QED
  BY <1>4, <1>5, <1>6 DEF Without, a, b

-----------------------------------------------------------------------------
(***************************************************************************)
(* Sending notices.                                                        *)
(***************************************************************************)

\* Notices about u change nothing for the others; if his last one is not
\* missed, it decides about him.
LEMMA Notified ==
  ASSUME TypeOK, NEW u \in Uins, NEW ms \in Seq(Messages), ms # <<>>,
         \A k \in 1 .. Len(ms) : ms[k].uins = {u},
         NEW m, m = ms[Len(ms)], Notify(u, ms)
  PROVE  /\ toQueue' \in Seq(Messages) /\ missed' \subseteq Uins
         /\ refusals' \in Nat /\ (refusals' = 0 => refusals = 0)
         /\ \A w \in Uins \ {u} :
              /\ w \in missed' <=> w \in missed
              /\ Online(toQueue, place[w], w) => Online(toQueue', place[w], w)
              /\ Gone(toQueue, place[w], w) => Gone(toQueue', place[w], w)
              /\ Left(toQueue, place[w], w) => Left(toQueue', place[w], w)
         /\ u \notin missed' /\ m.type = "in" => Online(toQueue', place[u], u)
         /\ u \notin missed' /\ m.type = "out" => Gone(toQueue', place[u], u)
         /\ u \notin missed' => link = "up"
         /\ link = "up" /\ refusals' = 0 =>
               toQueue' = toQueue \o ms /\ u \notin missed'
<1>1. /\ toQueue \in Seq(Messages) /\ missed \subseteq Uins /\ refusals \in Nat
      /\ link = "up" => connected
  BY DEF TypeOK
<1>2. \A w \in Uins \ {u} : \A k \in 1 .. Len(ms) : w \notin ms[k].uins
  OBVIOUS
<1>3. Len(ms) \in Nat \ {0} /\ u \in m.uins
  BY EmptySeq
<1>4. CASE /\ Arrives
           /\ toQueue' = toQueue \o ms
           /\ missed' = missed \ {u}
           /\ UNCHANGED refusals
  <2>1. toQueue' \in Seq(Messages)
    BY <1>1, <1>4, ConcatProperties
  <2>2. /\ m.type = "in" => Online(toQueue', place[u], u)
        /\ m.type = "out" => Gone(toQueue', place[u], u)
    BY <1>1, <1>3, <1>4, AddedLast
  <2>3. \A w \in Uins \ {u} :
          /\ Online(toQueue, place[w], w) => Online(toQueue', place[w], w)
          /\ Gone(toQueue, place[w], w) => Gone(toQueue', place[w], w)
          /\ Left(toQueue, place[w], w) => Left(toQueue', place[w], w)
    BY <1>1, <1>2, <1>4, AddedOthers
  <2> QED
    BY <1>1, <1>4, <2>1, <2>2, <2>3 DEF Arrives
<1>5. ASSUME Arrives, refusals' = refusals + 1, NEW i \in 1 .. Len(ms),
             toQueue' = toQueue \o Without(ms, i),
             missed' = IF i = Len(ms) THEN missed \cup {u} ELSE missed \ {u}
      PROVE  /\ toQueue' \in Seq(Messages) /\ missed' \subseteq Uins
             /\ refusals' \in Nat /\ refusals' # 0
             /\ \A w \in Uins \ {u} :
                  /\ w \in missed' <=> w \in missed
                  /\ Online(toQueue, place[w], w) => Online(toQueue', place[w], w)
                  /\ Gone(toQueue, place[w], w) => Gone(toQueue', place[w], w)
                  /\ Left(toQueue, place[w], w) => Left(toQueue', place[w], w)
             /\ u \notin missed' /\ m.type = "in" => Online(toQueue', place[u], u)
             /\ u \notin missed' /\ m.type = "out" => Gone(toQueue', place[u], u)
             /\ link = "up"
  <2> DEFINE rest == Without(ms, i)
  <2>1. /\ rest \in Seq(Messages) /\ Len(rest) = Len(ms) - 1
        /\ \A k \in 1 .. Len(ms) - 1 :
              rest[k] = IF k < i THEN ms[k] ELSE ms[k + 1]
    BY OneLost
  <2> HIDE DEF rest
  <2>2. toQueue' = toQueue \o rest /\ toQueue' \in Seq(Messages)
    BY <1>1, <1>5, <2>1, ConcatProperties DEF rest
  <2>3. \A w \in Uins \ {u} : \A k \in 1 .. Len(rest) : w \notin rest[k].uins
    BY <1>2, <1>3, <2>1
  <2>4. \A w \in Uins \ {u} :
          /\ Online(toQueue, place[w], w) => Online(toQueue', place[w], w)
          /\ Gone(toQueue, place[w], w) => Gone(toQueue', place[w], w)
          /\ Left(toQueue, place[w], w) => Left(toQueue', place[w], w)
    BY <1>1, <2>1, <2>2, <2>3, AddedOthers
  <2>5. CASE i = Len(ms)
    BY <1>1, <1>5, <2>2, <2>4, <2>5 DEF Arrives
  <2>6. CASE i # Len(ms)
    <3>1. rest # <<>> /\ rest[Len(rest)] = m
      BY <1>3, <2>1, <2>6, EmptySeq
    <3>2. /\ m.type = "in" => Online(toQueue', place[u], u)
          /\ m.type = "out" => Gone(toQueue', place[u], u)
      <4>1. /\ toQueue \in Seq(Messages) /\ rest \in Seq(Messages)
            /\ toQueue' = toQueue \o rest /\ rest # <<>>
            /\ m = rest[Len(rest)] /\ u \in m.uins
        BY <1>1, <1>3, <2>1, <2>2, <3>1
      <4> QED
        BY ONLY <4>1, AddedLast
    <3> QED
      BY <1>1, <1>5, <2>2, <2>4, <2>6, <3>2 DEF Arrives
  <2> QED
    BY <2>5, <2>6
<1>6. CASE /\ ~Arrives
           /\ missed' = missed \cup {u}
           /\ UNCHANGED <<toQueue, refusals>>
  BY <1>1, <1>6 DEF Arrives
<1> QED
  BY <1>4, <1>5, <1>6 DEF Notify

-----------------------------------------------------------------------------
(***************************************************************************)
(* The steps.                                                              *)
(***************************************************************************)

\* The notices that a game server sends.
LEMMA NoticesAre ==
  ASSUME NEW u \in Uins
  PROVE  In({u}) \in Messages /\ LogoutNotice(u) \in Messages
BY DEF In, LogoutNotice, Out, Messages

\* A short queue.
LEMMA Short ==
  ASSUME NEW a \in Messages, NEW b \in Messages, NEW c \in Messages
  PROVE  /\ <<a>> \in Seq(Messages) /\ Len(<<a>>) = 1 /\ <<a>>[1] = a
         /\ <<a, b, c>> \in Seq(Messages) /\ Len(<<a, b, c>>) = 3
         /\ <<a, b, c>>[1] = a /\ <<a, b, c>>[2] = b /\ <<a, b, c>>[3] = c
         /\ <<a>> # <<>> /\ <<a, b, c>> # <<>>
OBVIOUS

\* A player comes, whether or not he was there: his session is a new one.
LEMMA Arrival ==
  ASSUME Inv, NEW u \in Uins, NEW ms \in Seq(Messages), ms # <<>>,
         \A k \in 1 .. Len(ms) : ms[k].uins = {u},
         ms[Len(ms)].type = "in",
         Came(u), CheckQueueTag(u), Notify(u, ms),
         users' = users \cup {u},
         UNCHANGED <<connected, link, toLogic, place, lost, requests, faults>>
  PROVE  Inv'
<1>1. /\ toQueue' \in Seq(Messages) /\ missed' \subseteq Uins
      /\ refusals' \in Nat /\ (refusals' = 0 => refusals = 0)
      /\ \A w \in Uins \ {u} :
           /\ w \in missed' <=> w \in missed
           /\ Online(toQueue, place[w], w) => Online(toQueue', place[w], w)
           /\ Gone(toQueue, place[w], w) => Gone(toQueue', place[w], w)
           /\ Left(toQueue, place[w], w) => Left(toQueue', place[w], w)
      /\ u \notin missed' => Online(toQueue', place[u], u)
      /\ link = "up" /\ refusals' = 0 => u \notin missed'
  BY Notified DEF Inv
<1>2. /\ logins' = logins + 1
      /\ refused' = [refused EXCEPT ![u] = FALSE]
      /\ waits' = [waits EXCEPT ![u] = FALSE]
      /\ m_stUserQueueTag' = m_stUserQueueTag \ {u}
      /\ users' = users \cup {u}
      /\ UNCHANGED <<connected, link, toLogic, place, lost, requests, faults>>
  BY DEF Came, CheckQueueTag
<1>3. TypeOK'
  BY <1>1, <1>2 DEF Inv, TypeOK
<1>4. GoneIsKnown'
  BY <1>1, <1>2 DEF Inv, GoneIsKnown
<1>5. OnlineIsKnown'
  BY <1>1, <1>2 DEF Inv, TypeOK, OnlineIsKnown
<1>6. OnlyRefusedIsMissed'
  BY <1>1, <1>2 DEF Inv, TypeOK, OnlyRefusedIsMissed
<1>7. /\ refused'[u] = FALSE
      /\ \A w \in Uins \ {u} : refused'[w] = refused[w]
  BY <1>2 DEF Inv, TypeOK
<1>8. TagIsRefusal'
  <2> SUFFICES ASSUME NEW w \in users'
               PROVE  (w \in m_stUserQueueTag') = refused'[w]
    BY DEF TagIsRefusal
  <2>1. CASE w = u
    <3>1. (w \in m_stUserQueueTag') = FALSE
      BY <2>1, <1>2
    <3>2. refused'[w] = FALSE
      BY <2>1, <1>7
    <3> QED
      BY <3>1, <3>2, Zenon
  <2>2. CASE w # u
    BY <2>2, <1>2, <1>7 DEF Inv, TypeOK, TagIsRefusal
  <2> QED
    BY <2>1, <2>2
<1>9. SeatIsLost'
  BY <1>1, <1>2, <1>7 DEF Inv, SeatIsLost
<1> QED
  BY <1>3, <1>4, <1>5, <1>6, <1>8, <1>9 DEF Inv

\* A login of a player who is not there.
LEMMA StepLogin ==
  ASSUME Inv, NEW u \in Uins, Login(u)
  PROVE  Inv'
<1> DEFINE ms == <<In({u})>>
<1>1. ms \in Seq(Messages) /\ Len(ms) = 1 /\ ms[1] = In({u}) /\ ms # <<>>
  BY NoticesAre, Short
<1>2. /\ \A k \in 1 .. Len(ms) : ms[k].uins = {u}
      /\ ms[Len(ms)].type = "in"
  BY <1>1 DEF In
<1>3. /\ Came(u) /\ Notify(u, ms) /\ users' = users \cup {u}
      /\ UNCHANGED <<connected, link, toLogic, place, lost, requests, faults>>
  BY DEF Login
<1>4. CheckQueueTag(u)
  BY DEF Login, CheckQueueTag, Inv, TypeOK
<1> HIDE DEF ms
<1> QED
  BY <1>1, <1>2, <1>3, <1>4, Arrival

\* A login over a session of the same player.
LEMMA StepRelogin ==
  ASSUME Inv, NEW u \in Uins, Relogin(u)
  PROVE  Inv'
<1> DEFINE ms == <<In({u}), LogoutNotice(u), In({u})>>
<1>1. /\ ms \in Seq(Messages) /\ Len(ms) = 3
      /\ ms[1] = In({u}) /\ ms[2] = LogoutNotice(u) /\ ms[3] = In({u})
      /\ ms # <<>>
  BY NoticesAre, Short
<1>2. /\ \A k \in 1 .. Len(ms) : ms[k].uins = {u}
      /\ ms[Len(ms)].type = "in"
  <2>1. In({u}).uins = {u} /\ In({u}).type = "in" /\ LogoutNotice(u).uins = {u}
    BY DEF In, LogoutNotice, Out
  <2>2. \A k \in 1 .. 3 : k = 1 \/ k = 2 \/ k = 3
    OBVIOUS
  <2> HIDE DEF ms
  <2> QED
    BY <1>1, <2>1, <2>2
<1>3. /\ Came(u) /\ CheckQueueTag(u) /\ Notify(u, ms) /\ users' = users \cup {u}
      /\ UNCHANGED <<connected, link, toLogic, place, lost, requests, faults>>
  BY DEF Relogin, Kick
<1> HIDE DEF ms
<1> QED
  BY <1>1, <1>2, <1>3, Arrival

\* A player leaves.  If he was told to queue, his notice does not protect him.
LEMMA StepLogout ==
  ASSUME Inv, NEW u \in Uins, Logout(u)
  PROVE  Inv'
<1> DEFINE m == LogoutNotice(u)
           ms == <<m>>
<1>1. ms \in Seq(Messages) /\ Len(ms) = 1 /\ ms[1] = m /\ ms # <<>>
  BY NoticesAre, Short
<1>2. m.uins = {u} /\ m.type = "out" /\ m.protect = (u \notin m_stUserQueueTag)
  BY DEF LogoutNotice, Out
<1>3. /\ u \in users /\ Notify(u, ms) /\ users' = users \ {u}
      /\ m_stUserQueueTag' = m_stUserQueueTag \ {u}
      /\ waits' = [waits EXCEPT ![u] = FALSE]
      /\ UNCHANGED <<connected, link, toLogic, place, refused, lost, logins,
                     requests, faults>>
  BY DEF Logout, CheckQueueTag
<1> HIDE DEF m, ms
<1>4. /\ toQueue' \in Seq(Messages) /\ missed' \subseteq Uins
      /\ refusals' \in Nat /\ (refusals' = 0 => refusals = 0)
      /\ \A w \in Uins \ {u} :
           /\ w \in missed' <=> w \in missed
           /\ Online(toQueue, place[w], w) => Online(toQueue', place[w], w)
           /\ Gone(toQueue, place[w], w) => Gone(toQueue', place[w], w)
           /\ Left(toQueue, place[w], w) => Left(toQueue', place[w], w)
      /\ u \notin missed' => Gone(toQueue', place[u], u)
      /\ u \notin missed' => link = "up"
      /\ link = "up" /\ refusals' = 0 =>
            toQueue' = toQueue \o ms /\ u \notin missed'
  <2>1. ms[Len(ms)] = m /\ \A k \in 1 .. Len(ms) : ms[k].uins = {u}
    BY <1>1, <1>2
  <2> QED
    BY <1>1, <1>2, <1>3, <2>1, Notified DEF Inv
<1>5. TypeOK'
  BY <1>3, <1>4 DEF Inv, TypeOK
<1>6. GoneIsKnown'
  BY <1>3, <1>4 DEF Inv, GoneIsKnown
<1>7. OnlineIsKnown'
  BY <1>3, <1>4 DEF Inv, TypeOK, OnlineIsKnown
<1>8. OnlyRefusedIsMissed'
  BY <1>3, <1>4 DEF Inv, TypeOK, OnlyRefusedIsMissed
<1>9. TagIsRefusal'
  BY <1>3 DEF Inv, TypeOK, TagIsRefusal
<1>10. ASSUME refusals' = 0, refused[u], u \notin missed'
       PROVE  Left(toQueue', place[u], u)
  <2>1. /\ link = "up" /\ refusals = 0
        /\ toQueue' = toQueue \o ms
    BY <1>4, <1>10
  <2>2. Online(toQueue, place[u], u)
    BY <1>3, <2>1 DEF Inv, OnlineIsKnown, OnlyRefusedIsMissed
  <2>3. ~m.protect
    BY <1>2, <1>3, <1>10 DEF Inv, TagIsRefusal
  <2>4. toQueue \in Seq(Messages)
    BY DEF Inv, TypeOK
  <2> QED
    BY <1>1, <1>2, <2>1, <2>2, <2>3, <2>4, AddedLast
<1>11. SeatIsLost'
  BY <1>3, <1>4, <1>10 DEF Inv, SeatIsLost
<1> QED
  BY <1>5, <1>6, <1>7, <1>8, <1>9, <1>11 DEF Inv

\* What the four parts about notices rest on has not changed.
LEMMA SameNotices ==
  ASSUME Inv, UNCHANGED <<users, missed, toQueue, place>>,
         refusals' \in Nat, refusals' = 0 => refusals = 0,
         link' = "up" => link = "up",
         \A u \in Uins \ users : refused'[u] => refused[u]
  PROVE  GoneIsKnown' /\ OnlineIsKnown' /\ OnlyRefusedIsMissed' /\ SeatIsLost'
<1>1. GoneIsKnown'
  BY DEF Inv, GoneIsKnown
<1>2. OnlineIsKnown'
  BY DEF Inv, OnlineIsKnown
<1>3. OnlyRefusedIsMissed'
  BY DEF Inv, OnlyRefusedIsMissed
<1>4. SeatIsLost'
  BY DEF Inv, SeatIsLost
<1> QED
  BY <1>1, <1>2, <1>3, <1>4

\* A player who is there is sent away, or let in.
LEMMA SentAway ==
  ASSUME Inv, NEW u \in users,
         (\E queue \in BOOLEAN : SendAway(u, queue)) \/ HandleReconnect(u)
  PROVE  /\ m_stUserQueueTag' \subseteq users
         /\ refused' \in [Uins -> BOOLEAN] /\ waits' \in [Uins -> BOOLEAN]
         /\ \A w \in Uins \ users : refused'[w] = refused[w]
         /\ users' = users => TagIsRefusal'
<1>1. u \in Uins
  BY DEF Inv, TypeOK
<1>2. CASE HandleReconnect(u)
  BY <1>1, <1>2 DEF HandleReconnect, Inv, TypeOK, TagIsRefusal
<1>3. ASSUME NEW queue \in BOOLEAN, SendAway(u, queue)
      PROVE  /\ m_stUserQueueTag' \subseteq users
             /\ refused' \in [Uins -> BOOLEAN] /\ waits' \in [Uins -> BOOLEAN]
             /\ \A w \in Uins \ users : refused'[w] = refused[w]
             /\ users' = users => TagIsRefusal'
  <2>1. CASE queue = TRUE
    <3>1. /\ waits' = [waits EXCEPT ![u] = FALSE]
          /\ refused' = [refused EXCEPT ![u] = TRUE]
          /\ m_stUserQueueTag' = m_stUserQueueTag \cup {u}
      BY <1>1, <1>3, <2>1 DEF SendAway, Inv, TypeOK
    <3>2. /\ refused' \in [Uins -> BOOLEAN] /\ waits' \in [Uins -> BOOLEAN]
          /\ refused'[u] = TRUE
          /\ \A w \in Uins \ {u} : refused'[w] = refused[w]
      BY <1>1, <3>1 DEF Inv, TypeOK
    <3>3. ASSUME users' = users, NEW w \in users
          PROVE  (w \in m_stUserQueueTag') = refused'[w]
      <4>1. CASE w = u
        BY <4>1, <3>1, <3>2
      <4>2. CASE w # u
        BY <4>2, <3>1, <3>2 DEF Inv, TypeOK, TagIsRefusal
      <4> QED
        BY <4>1, <4>2
    <3> QED
      BY <1>1, <3>1, <3>2, <3>3 DEF Inv, TypeOK, TagIsRefusal
  <2>2. CASE queue = FALSE
    <3>1. /\ waits' = [waits EXCEPT ![u] = FALSE]
          /\ refused' = refused
          /\ m_stUserQueueTag' = m_stUserQueueTag
      BY <1>1, <1>3, <2>2 DEF SendAway, Inv, TypeOK
    <3> QED
      BY <1>1, <3>1 DEF Inv, TypeOK, TagIsRefusal
  <2> QED
    BY <2>1, <2>2
<1> QED
  BY <1>2, <1>3

\* A reconnect request that is decided without the queue server.
LEMMA StepReconnectDecided ==
  ASSUME Inv, NEW u \in Uins, ReconnectRefused(u) \/ ReconnectAtOnce(u)
  PROVE  Inv'
<1>1. /\ u \in users /\ requests' = requests + 1
      /\ (\E queue \in BOOLEAN : SendAway(u, queue)) \/ HandleReconnect(u)
      /\ UNCHANGED <<users, connected, link, toLogic, place, logins, faults,
                     toQueue, missed, lost, refusals>>
  BY DEF ReconnectRefused, ReconnectAtOnce, Requested
<1>2. /\ m_stUserQueueTag' \subseteq users
      /\ refused' \in [Uins -> BOOLEAN] /\ waits' \in [Uins -> BOOLEAN]
      /\ \A w \in Uins \ users : refused'[w] = refused[w]
      /\ TagIsRefusal'
  BY <1>1, SentAway
<1>3. TypeOK'
  BY <1>1, <1>2 DEF Inv, TypeOK
<1>4. GoneIsKnown' /\ OnlineIsKnown' /\ OnlyRefusedIsMissed' /\ SeatIsLost'
  BY <1>1, <1>2, SameNotices DEF Inv, TypeOK
<1> QED
  BY <1>2, <1>3, <1>4 DEF Inv

\* The queue server's answer to a reconnect check.
LEMMA StepHandleAnswer ==
  ASSUME Inv, HandleAnswer
  PROVE  Inv'
<1> DEFINE u == Head(toLogic).m_iUin
<1>1. /\ toLogic # <<>> /\ toLogic' = Tail(toLogic)
      /\ \/ u \in users /\ ((\E queue \in BOOLEAN : SendAway(u, queue))
                               \/ HandleReconnect(u))
         \/ UNCHANGED <<m_stUserQueueTag, refused, waits>>
      /\ lost' = lost \/ lost' = lost \cup {u}
      /\ UNCHANGED <<users, connected, link, toQueue, place, missed, logins,
                     requests, faults, refusals>>
  BY DEF HandleAnswer, StillThere, Loses, bounds
<1>2. toLogic' \in Seq(Answers) /\ lost' \subseteq Uins
  <2>1. Head(toLogic) \in Answers /\ Tail(toLogic) \in Seq(Answers)
    BY <1>1, HeadTailProperties DEF Inv, TypeOK
  <2>2. u \in Uins
    BY <2>1 DEF Answers
  <2> QED
    BY <1>1, <2>1, <2>2 DEF Inv, TypeOK
<1> HIDE DEF u
<1>3. /\ m_stUserQueueTag' \subseteq users
      /\ refused' \in [Uins -> BOOLEAN] /\ waits' \in [Uins -> BOOLEAN]
      /\ \A w \in Uins \ users : refused'[w] = refused[w]
      /\ TagIsRefusal'
  <2>1. CASE UNCHANGED <<m_stUserQueueTag, refused, waits>>
    BY <1>1, <2>1 DEF Inv, TypeOK, TagIsRefusal
  <2>2. CASE u \in users /\ ((\E queue \in BOOLEAN : SendAway(u, queue))
                               \/ HandleReconnect(u))
    BY <1>1, <2>2, SentAway
  <2> QED
    BY <1>1, <2>1, <2>2
<1>4. TypeOK'
  BY <1>1, <1>2, <1>3 DEF Inv, TypeOK
<1>5. GoneIsKnown' /\ OnlineIsKnown' /\ OnlyRefusedIsMissed' /\ SeatIsLost'
  BY <1>1, <1>3, SameNotices DEF Inv, TypeOK
<1> QED
  BY <1>3, <1>4, <1>5 DEF Inv

\* A check says nothing about where the player is.
LEMMA StepReconnectCheck ==
  ASSUME Inv, NEW u \in Uins, ReconnectCheck(u)
  PROVE  Inv'
<1> DEFINE ms == <<Check(u)>>
<1>1. /\ u \in users /\ requests' = requests + 1
      /\ waits' = [waits EXCEPT ![u] = TRUE]
      /\ toQueue' = Append(toQueue, Check(u)) \/ toQueue' = toQueue
      /\ refusals' = refusals \/ refusals' = refusals + 1
      /\ lost' \in {lost, lost \ {u}, lost \cup {u}}
      /\ UNCHANGED <<users, connected, link, toLogic, place, logins, faults,
                     m_stUserQueueTag, refused, missed>>
  BY DEF ReconnectCheck, Requested, Loses
<1>2. Check(u) \in Messages /\ Check(u).type = "check"
  BY DEF Check, Messages
<1>3. /\ toQueue \in Seq(Messages) /\ ms \in Seq(Messages)
      /\ Len(ms) = 1 /\ ms[1] = Check(u)
      /\ Append(toQueue, Check(u)) = toQueue \o ms
      /\ Append(toQueue, Check(u)) \in Seq(Messages)
  <2>1. toQueue \in Seq(Messages)
    BY DEF Inv, TypeOK
  <2> QED
    BY <1>2, <2>1, Short, AppendIsConcat, AppendProperties
<1>4. \A k \in 1 .. Len(ms) : ms[k].type = "check"
  BY <1>2, <1>3
<1> HIDE DEF ms
<1>5. \A w \in Uins :
        /\ Online(toQueue, place[w], w) => Online(toQueue', place'[w], w)
        /\ Gone(toQueue, place[w], w) => Gone(toQueue', place'[w], w)
        /\ Left(toQueue, place[w], w) => Left(toQueue', place'[w], w)
  <2>1. CASE toQueue' = toQueue
    BY <1>1, <2>1
  <2>2. CASE toQueue' = toQueue \o ms
    BY <1>1, <1>3, <1>4, <2>2, AddedOthers
  <2> QED
    BY <1>1, <1>3, <2>1, <2>2
<1>6. refusals \in Nat /\ refusals' \in Nat /\ (refusals' = 0 => refusals = 0)
  BY <1>1 DEF Inv, TypeOK
<1>7. toQueue' \in Seq(Messages)
  BY <1>1, <1>3
<1>8. TypeOK'
  BY <1>1, <1>6, <1>7 DEF Inv, TypeOK
<1>9. GoneIsKnown' /\ OnlineIsKnown'
  BY <1>1, <1>5 DEF Inv, TypeOK, GoneIsKnown, OnlineIsKnown
<1>10. OnlyRefusedIsMissed' /\ TagIsRefusal'
  BY <1>1, <1>6 DEF Inv, OnlyRefusedIsMissed, TagIsRefusal
<1>11. SeatIsLost'
  BY <1>1, <1>5, <1>6 DEF Inv, SeatIsLost
<1> QED
  BY <1>8, <1>9, <1>10, <1>11 DEF Inv

\* The queue server handles the first message.
LEMMA StepHandleMessage ==
  ASSUME Inv, HandleMessage
  PROVE  Inv'
<1> DEFINE m == Head(toQueue)
<1>1. /\ toQueue \in Seq(Messages) /\ toQueue # <<>> /\ toQueue' = Tail(toQueue)
      /\ UNCHANGED <<logic, connected, link, refused, waits, missed, bounds>>
  BY DEF HandleMessage, HandleNotice, HandleCheck, Inv, TypeOK
<1>2. m \in Messages /\ toQueue' \in Seq(Messages)
  BY <1>1, HeadTailProperties
<1>3. /\ place' \in [Uins -> Places] /\ toLogic' \in Seq(Answers)
      /\ lost' \subseteq Uins
      /\ \A w \in Uins : place'[w] = Moved(m, place[w], w)
  <2>1. CASE HandleNotice
    <3>1. place' = Placed(m) /\ m.type \in {"in", "out"} /\ UNCHANGED <<toLogic, lost>>
      BY <2>1 DEF HandleNotice
    <3>2. \A w \in Uins : Placed(m)[w] = Moved(m, place[w], w)
      BY <3>1 DEF Placed, AfterLogout, Moved
    <3>3. Placed(m) \in [Uins -> Places]
      BY DEF Placed, AfterLogout, Places, Inv, TypeOK
    <3> QED
      BY <3>1, <3>2, <3>3 DEF Inv, TypeOK
  <2>2. CASE HandleCheck
    <3>1. /\ m.type = "check" /\ place' = place
          /\ \E u \in m.uins :
                \/ toLogic' = AnswersSent(u) /\ UNCHANGED lost
                \/ lost' = lost \cup {u} /\ UNCHANGED toLogic
      BY <2>2 DEF HandleCheck, Loses
    <3>2. \A w \in Uins : Moved(m, place[w], w) = place[w]
      BY <3>1 DEF Moved
    <3>3. PICK u \in m.uins : \/ toLogic' = AnswersSent(u) /\ UNCHANGED lost
                              \/ lost' = lost \cup {u} /\ UNCHANGED toLogic
      BY <3>1
    <3>4. u \in Uins /\ NobodyWaits \in BOOLEAN
      BY <1>2 DEF Messages, NobodyWaits
    <3>5. Answer(u, NobodyWaits) \in Answers
      BY <3>4 DEF Answer, Answers
    <3>6. AnswersSent(u) \in Seq(Answers)
      BY <3>5, AppendProperties DEF AnswersSent, Inv, TypeOK
    <3>7. toLogic' \in Seq(Answers) /\ lost' \subseteq Uins
      BY <3>3, <3>4, <3>6 DEF Inv, TypeOK
    <3> QED
      BY <3>1, <3>2, <3>7 DEF Inv, TypeOK
  <2> QED
    BY <2>1, <2>2 DEF HandleMessage
<1> HIDE DEF m
<1>4. \A w \in Uins :
        /\ Online(toQueue, place[w], w) => Online(toQueue', place'[w], w)
        /\ Gone(toQueue, place[w], w) => Gone(toQueue', place'[w], w)
        /\ Left(toQueue, place[w], w) => Left(toQueue', place'[w], w)
  BY <1>1, <1>3, Popped DEF m
<1>5. TypeOK'
  BY <1>1, <1>2, <1>3 DEF Inv, TypeOK, logic, bounds
<1>6. GoneIsKnown' /\ OnlineIsKnown'
  BY <1>1, <1>4 DEF Inv, TypeOK, GoneIsKnown, OnlineIsKnown, logic
<1>7. OnlyRefusedIsMissed' /\ TagIsRefusal'
  BY <1>1 DEF Inv, OnlyRefusedIsMissed, TagIsRefusal, logic, bounds
<1>8. SeatIsLost'
  BY <1>1, <1>4 DEF Inv, SeatIsLost, logic, bounds
<1> QED
  BY <1>5, <1>6, <1>7, <1>8 DEF Inv

\* A heartbeat or Refresh moves a player who is not online.
LEMMA StepMoved ==
  ASSUME Inv, NEW u \in Uins, Heartbeat(u) \/ Refresh(u)
  PROVE  Inv'
<1>1. /\ place[u] # "online"
      /\ \E p \in Places \ {"online"} : place' = [place EXCEPT ![u] = p]
      /\ UNCHANGED <<logic, network, waits, missed, lost, bounds>>
  BY DEF Heartbeat, Refresh, Places
<1>2. /\ place' \in [Uins -> Places] /\ place'[u] # "online"
      /\ \A w \in Uins \ {u} : place'[w] = place[w]
  BY <1>1 DEF Inv, TypeOK
<1>3. \A w \in Uins :
        /\ Online(toQueue, place[w], w) => Online(toQueue', place'[w], w)
        /\ Gone(toQueue, place[w], w) => Gone(toQueue', place'[w], w)
        /\ \/ place[u] = "none" /\ w = u
           \/ Left(toQueue, place[w], w) => Left(toQueue', place'[w], w)
  BY <1>1, <1>2, PlaceMoved DEF network
<1>4. /\ refused' \in [Uins -> BOOLEAN]
      /\ \A w \in Uins : refused'[w] => refused[w]
      /\ \A w \in users : refused'[w] = refused[w]
      /\ place[u] = "none" => (refused'[u] => u \in users)
  <2>1. CASE Heartbeat(u)
    <3>1. refused' = [refused EXCEPT ![u] = @ /\ u \in users]
      BY <2>1 DEF Heartbeat
    <3>2. CASE u \in users
      <4>1. refused' = refused
        BY <3>1, <3>2 DEF Inv, TypeOK
      <4> QED
        BY <3>2, <4>1 DEF Inv, TypeOK
    <3>3. CASE u \notin users
      <4>1. refused' = [refused EXCEPT ![u] = FALSE]
        BY <3>1, <3>3 DEF Inv, TypeOK
      <4> QED
        BY <3>3, <4>1 DEF Inv, TypeOK
    <3> QED
      BY <3>2, <3>3
  <2>2. CASE Refresh(u)
    BY <2>2 DEF Refresh, Inv, TypeOK
  <2> QED
    BY <2>1, <2>2
<1>5. TypeOK'
  BY <1>1, <1>2, <1>4 DEF Inv, TypeOK, logic, network, bounds
<1>6. GoneIsKnown' /\ OnlineIsKnown'
  BY <1>1, <1>3 DEF Inv, TypeOK, GoneIsKnown, OnlineIsKnown, logic, network
<1>7. OnlyRefusedIsMissed' /\ TagIsRefusal'
  BY <1>1, <1>4 DEF Inv, OnlyRefusedIsMissed, TagIsRefusal, logic, network, bounds
<1>8. SeatIsLost'
  BY <1>1, <1>3, <1>4 DEF Inv, SeatIsLost, logic, bounds
<1> QED
  BY <1>5, <1>6, <1>7, <1>8 DEF Inv

\* The connection breaks, or the break is noticed.
LEMMA StepCut ==
  ASSUME Inv, Cut \/ NoticeCut
  PROVE  Inv'
<1>1. /\ link' = "cut" /\ connected' \in BOOLEAN
      /\ toLogic' \in Seq(Answers) /\ faults' \in Nat
      /\ UNCHANGED <<logic, toQueue, place, refused, waits, missed, lost,
                     logins, requests, refusals>>
  <2>1. CASE Cut
    BY <2>1 DEF Cut, Fault, Inv, TypeOK
  <2>2. CASE NoticeCut
    BY <2>2, EmptySeq DEF NoticeCut, Inv, TypeOK, bounds
  <2> QED
    BY <2>1, <2>2
<1>2. TypeOK'
  BY <1>1 DEF Inv, TypeOK, logic
<1>3. GoneIsKnown' /\ OnlineIsKnown' /\ OnlyRefusedIsMissed' /\ SeatIsLost'
  BY <1>1, SameNotices DEF Inv, TypeOK, logic
<1>4. TagIsRefusal'
  BY <1>1 DEF Inv, TagIsRefusal, logic
<1> QED
  BY <1>2, <1>3, <1>4 DEF Inv

\* Without a notice under way about him, a player's container decides.
LEMMA NotNoticed ==
  ASSUME NEW u \in Uins \ Noticed
  PROVE  /\ Notices(toQueue, u) = {}
         /\ Gone(toQueue, place[u], u) => place[u] # "online"
         /\ Left(toQueue, place[u], u) => place[u] = "none"
<1>1. Notices(toQueue, u) = {}
  BY DEF Noticed, Notices
<1> QED
  BY <1>1 DEF Gone, Left

\* The list of players on a new connection.
LEMMA Listed ==
  ASSUME NEW u, NEW p, NEW q, q = <<In(users)>>
  PROVE  /\ u \in users => Online(q, p, u)
         /\ u \notin users => Notices(q, u) = {}
<1>1. Len(q) = 1 /\ q[1].type = "in" /\ q[1].uins = users
  BY DEF In
<1>2. \A i \in 1 .. Len(q) : i = 1
  BY <1>1
<1>3. u \in users => Notices(q, u) = {1}
  BY <1>1, <1>2 DEF Notices
<1>4. u \notin users => Notices(q, u) = {}
  BY <1>1, <1>2 DEF Notices
<1> QED
  BY <1>1, <1>3, <1>4 DEF Online, OnlineAt

\* A new connection, whose first message is the list of the players.
LEMMA StepRefreshQueueConn ==
  ASSUME Inv, RefreshQueueConn
  PROVE  Inv'
<1>1. /\ connected' = TRUE /\ link' = "up"
      /\ toQueue' = <<In(users)>> /\ toLogic' = <<>>
      /\ missed' = (missed \cup Noticed) \ users
      /\ UNCHANGED <<logic, place, refused, waits, lost, bounds>>
  BY DEF RefreshQueueConn, FirstMessages
<1>2. In(users) \in Messages
  BY DEF In, Messages, Inv, TypeOK
<1>3. toQueue' \in Seq(Messages) /\ toLogic' \in Seq(Answers)
  BY <1>1, <1>2, Short, EmptySeq
<1>4. Noticed \subseteq Uins
  BY DEF Noticed
<1>5. TypeOK'
  BY <1>1, <1>3, <1>4 DEF Inv, TypeOK, logic, bounds
<1>6. \A u \in users : Online(toQueue', place'[u], u)
  BY <1>1, Listed
<1>7. ASSUME NEW u \in Uins \ (users \cup missed')
      PROVE  /\ u \in Uins \ Noticed /\ u \in Uins \ (users \cup missed)
             /\ Notices(toQueue', u) = {}
  BY <1>1, <1>7, Listed
<1>8. GoneIsKnown'
  <2> SUFFICES ASSUME NEW u \in Uins \ (users \cup missed')
               PROVE  Gone(toQueue', place'[u], u)
    BY <1>1 DEF GoneIsKnown, logic
  <2>1. place[u] # "online"
    BY <1>7, NotNoticed DEF Inv, GoneIsKnown
  <2> QED
    BY <1>1, <1>7, <2>1 DEF Gone
<1>9. OnlineIsKnown' /\ OnlyRefusedIsMissed'
  BY <1>1, <1>6 DEF OnlineIsKnown, OnlyRefusedIsMissed, logic
<1>10. TagIsRefusal'
  BY <1>1 DEF Inv, TagIsRefusal, logic
<1>11. SeatIsLost'
  <2> SUFFICES ASSUME NEW u \in Uins \ (users \cup missed'),
                      refusals = 0, refused[u]
               PROVE  Left(toQueue', place'[u], u)
    BY <1>1 DEF SeatIsLost, logic, bounds
  <2>1. place[u] = "none"
    BY <1>7, NotNoticed DEF Inv, SeatIsLost
  <2> QED
    BY <1>1, <1>7, <2>1 DEF Left
<1> QED
  BY <1>5, <1>8, <1>9, <1>10, <1>11 DEF Inv

\* A game server that starts anew, with nobody in its table.
LEMMA StepLogicRestarts ==
  ASSUME Inv, LogicRestarts
  PROVE  Inv'
<1>1. /\ faults' = faults + 1
      /\ users' = {} /\ m_stUserQueueTag' = {}
      /\ connected' = FALSE /\ link' = "cut" /\ toLogic' = <<>>
      /\ missed' = missed \cup users
      /\ refused' = [u \in Uins |-> refused[u] /\ u \notin users]
      /\ waits' = [u \in Uins |-> FALSE]
      /\ UNCHANGED <<toQueue, place, lost, logins, requests, refusals>>
  BY DEF LogicRestarts, Fault
<1>2. toLogic' \in Seq(Answers)
  BY <1>1, EmptySeq
<1>3. refused' \in [Uins -> BOOLEAN] /\ \A u \in Uins : refused'[u] => refused[u]
  BY <1>1
<1>4. TypeOK'
  <2>1. users' \subseteq Uins /\ m_stUserQueueTag' \subseteq users'
    BY <1>1
  <2>2. waits' \in [Uins -> BOOLEAN] /\ missed' \subseteq Uins /\ faults' \in Nat
    BY <1>1 DEF Inv, TypeOK
  <2> QED
    BY <1>1, <1>2, <1>3, <2>1, <2>2 DEF Inv, TypeOK
<1>5. GoneIsKnown'
  BY <1>1 DEF Inv, GoneIsKnown
<1>6. OnlineIsKnown' /\ OnlyRefusedIsMissed' /\ TagIsRefusal'
  BY <1>1 DEF OnlineIsKnown, OnlyRefusedIsMissed, TagIsRefusal
<1>7. SeatIsLost'
  BY <1>1, <1>3 DEF Inv, SeatIsLost
<1> QED
  BY <1>4, <1>5, <1>6, <1>7 DEF Inv

\* A queue server that starts anew, with empty containers.
LEMMA StepQueueRestarts ==
  ASSUME Inv, QueueRestarts
  PROVE  Inv'
<1>1. /\ faults' = faults + 1
      /\ place' = [u \in Uins |-> "none"]
      /\ link' = "cut" /\ toQueue' = <<>>
      /\ missed' = missed \cup Noticed
      /\ UNCHANGED <<logic, connected, toLogic, refused, waits, lost, logins,
                     requests, refusals>>
  BY DEF QueueRestarts, Fault
<1>2. toQueue' \in Seq(Messages) /\ Len(toQueue') = 0
  BY <1>1, EmptySeq
<1>3. \A u \in Uins : Notices(toQueue', u) = {} /\ place'[u] = "none"
  BY <1>1, <1>2 DEF Notices
<1>4. place' \in [Uins -> Places] /\ Noticed \subseteq Uins
  BY <1>1 DEF Places, Noticed
<1>5. TypeOK'
  BY <1>1, <1>2, <1>4 DEF Inv, TypeOK, logic
<1>6. GoneIsKnown' /\ SeatIsLost'
  BY <1>3 DEF GoneIsKnown, SeatIsLost, Gone, Left
<1>7. OnlineIsKnown' /\ OnlyRefusedIsMissed' /\ TagIsRefusal'
  BY <1>1 DEF Inv, OnlineIsKnown, OnlyRefusedIsMissed, TagIsRefusal, logic
<1> QED
  BY <1>5, <1>6, <1>7 DEF Inv

\* The invariant holds initially.
LEMMA InitInv ==
  ASSUME Init
  PROVE  Inv
<1>1. TypeOK
  BY EmptySeq DEF Init, TypeOK, Places
<1>2. \A u \in Uins : Notices(toQueue, u) = {} /\ place[u] = "none"
  <2>1. Len(toQueue) = 0 /\ \A u \in Uins : place[u] = "none"
    BY EmptySeq DEF Init
  <2>2. \A i : i \notin 1 .. Len(toQueue)
    BY <2>1
  <2> QED
    BY <2>1, <2>2 DEF Notices
<1>3. GoneIsKnown /\ SeatIsLost
  BY <1>2 DEF GoneIsKnown, SeatIsLost, Gone, Left
<1>4. OnlineIsKnown /\ OnlyRefusedIsMissed /\ TagIsRefusal
  BY DEF Init, OnlineIsKnown, OnlyRefusedIsMissed, TagIsRefusal
<1> QED
  BY <1>1, <1>3, <1>4 DEF Inv

\* Every step keeps the invariant.
LEMMA NextInv ==
  ASSUME Inv, [Next]_vars
  PROVE  Inv'
<1>1. CASE UNCHANGED vars
  <2>1. UNCHANGED <<users, m_stUserQueueTag, connected, link, toQueue, toLogic,
                    place, refused, waits, missed, lost, logins, requests,
                    faults, refusals>>
    BY <1>1 DEF vars, logic, network, bounds
  <2>2. TypeOK' /\ TagIsRefusal'
    BY <2>1 DEF Inv, TypeOK, TagIsRefusal
  <2>3. GoneIsKnown' /\ OnlineIsKnown' /\ OnlyRefusedIsMissed' /\ SeatIsLost'
    BY <2>1, SameNotices DEF Inv, TypeOK
  <2> QED
    BY <2>2, <2>3 DEF Inv
<1>2. ASSUME NEW u \in Uins, Player(u)
      PROVE  Inv'
  BY <1>2, StepLogin, StepRelogin, StepLogout, StepReconnectDecided,
     StepReconnectCheck, StepMoved DEF Player
<1>3. CASE HandleMessage \/ HandleAnswer
  BY <1>3, StepHandleMessage, StepHandleAnswer
<1>4. CASE Cut \/ NoticeCut \/ RefreshQueueConn
  BY <1>4, StepCut, StepRefreshQueueConn
<1>5. CASE LogicRestarts \/ QueueRestarts
  BY <1>5, StepLogicRestarts, StepQueueRestarts
<1> QED
  BY <1>1, <1>2, <1>3, <1>4, <1>5 DEF Next

-----------------------------------------------------------------------------
(***************************************************************************)
(* The theorems.                                                           *)
(***************************************************************************)

\* The inductive invariant holds in every reachable state.
THEOREM Invariant == Spec => []Inv
BY InitInv, NextInv, PTL DEF Spec

\* Every variable keeps its type; only players on the server have a tag, and
\* the game server takes a connection that is up for connected.
THEOREM TypeCorrect == Spec => []TypeOK
<1>1. Inv => TypeOK
  BY DEF Inv
<1> QED
  BY <1>1, Invariant, PTL

\* When nothing is under way, the containers decide.
LEMMA SettledPlaces ==
  ASSUME Inv, Settled, NEW u \in Uins
  PROVE  /\ Online(toQueue, place[u], u) => place[u] = "online"
         /\ Gone(toQueue, place[u], u) => place[u] # "online"
         /\ link = "up"
<1>1. toQueue = <<>> /\ Len(toQueue) = 0 /\ link = "up"
  BY EmptySeq DEF Settled, Arrives
<1>2. Notices(toQueue, u) = {}
  BY <1>1 DEF Notices
<1> QED
  BY <1>1, <1>2 DEF Online, OnlineAt, Gone

\* What the invariant says of a connection that is up and idle.
LEMMA InvOnline == Inv => OnlineIsCounted
<1> SUFFICES ASSUME Inv, Settled, refusals = 0, NEW u \in users
             PROVE  place[u] = "online"
  BY DEF OnlineIsCounted
<1>1. u \in Uins /\ link = "up"
  BY SettledPlaces DEF Inv, TypeOK
<1> QED
  BY <1>1, SettledPlaces DEF Inv, OnlineIsKnown, OnlyRefusedIsMissed

\* However connections broke and processes crashed, everybody on the game
\* server is counted by the queue server when its messages are handled, unless
\* one was refused.
THEOREM OnlineCounted == Spec => []OnlineIsCounted
BY Invariant, InvOnline, PTL

\* What the invariant says of a player only one side knows.
LEMMA InvDifference == Inv => DifferenceExplained
<1> SUFFICES ASSUME Inv, Settled, NEW u \in Uins \ missed
             PROVE  (u \in users) = (place[u] = "online")
  BY Zenon DEF DifferenceExplained
<1>1. CASE u \in users
  BY <1>1, SettledPlaces DEF Inv, OnlineIsKnown
<1>2. CASE u \notin users
  BY <1>2, SettledPlaces DEF Inv, GoneIsKnown
<1> QED
  BY <1>1, <1>2

\* The two servers differ only about players whose last notice was lost or
\* refused.
THEOREM DifferenceIsMissed == Spec => []DifferenceExplained
BY Invariant, InvDifference, PTL

\* What the invariant says of a player who was told to queue.
LEMMA InvRefused == Inv => RefusedHasNoSeat
<1> SUFFICES ASSUME Inv, NEW u \in Uins \ (users \cup missed),
                    refusals = 0, refused[u], About(u) = {}
             PROVE  place[u] = "none"
  BY DEF RefusedHasNoSeat
<1>1. Notices(toQueue, u) = {}
  BY DEF Notices, About
<1>2. Left(toQueue, place[u], u)
  BY DEF Inv, SeatIsLost
<1> QED
  BY <1>1, <1>2 DEF Left

\* A player who was told to queue and left has no protected seat, when the
\* messages about him are handled.
THEOREM RefusedSeat == Spec => []RefusedHasNoSeat
BY Invariant, InvRefused, PTL

\* The logout notice carries the tag of the session it ends.
LEMMA NoticeProtects ==
  ASSUME Inv, NEW u \in users, Logout(u), Arrives, toQueue' # toQueue
  PROVE  toQueue'[Len(toQueue')].protect = ~refused[u]
<1> DEFINE m == LogoutNotice(u)
           ms == <<m>>
<1>1. u \in Uins /\ toQueue \in Seq(Messages)
  BY DEF Inv, TypeOK
<1>2. ms \in Seq(Messages) /\ Len(ms) = 1 /\ ms[1] = m
  BY <1>1, NoticesAre, Short
<1>3. m.protect = (u \notin m_stUserQueueTag)
  BY DEF LogoutNotice, Out
<1>4. (u \in m_stUserQueueTag) = refused[u] /\ refused[u] \in BOOLEAN
  BY <1>1 DEF Inv, TypeOK, TagIsRefusal
<1> HIDE DEF m, ms
<1>5. toQueue' = toQueue \o ms
  <2>1. \/ toQueue' = toQueue \o ms
        \/ \E i \in 1 .. Len(ms) : toQueue' = toQueue \o Without(ms, i)
    BY DEF Logout, Notify, Arrives, ms, m
  <2>2. ASSUME NEW i \in 1 .. Len(ms)
        PROVE  toQueue \o Without(ms, i) = toQueue
    <3>1. Without(ms, i) \in Seq(Messages) /\ Len(Without(ms, i)) = 0
      <4>1. /\ Without(ms, i) \in Seq(Messages)
            /\ Len(Without(ms, i)) = Len(ms) - 1
        BY <1>2, OneLost
      <4> QED
        BY <4>1, <1>2
    <3>2. Without(ms, i) = <<>>
      BY <3>1, EmptySeq
    <3> QED
      BY <1>1, <3>2, ConcatEmptySeq
  <2> QED
    BY <2>1, <2>2
<1>6. /\ Len(toQueue) \in Nat /\ Len(toQueue') = Len(toQueue) + 1
      /\ toQueue'[Len(toQueue) + 1] = m
  <2>1. /\ Len(toQueue \o ms) = Len(toQueue) + 1
        /\ \A i \in 1 .. Len(toQueue) + 1 : (toQueue \o ms)[i] =
              IF i <= Len(toQueue) THEN toQueue[i] ELSE ms[i - Len(toQueue)]
    <3>1. /\ Len(toQueue \o ms) = Len(toQueue) + Len(ms)
          /\ \A i \in 1 .. Len(toQueue) + Len(ms) : (toQueue \o ms)[i] =
                IF i <= Len(toQueue) THEN toQueue[i] ELSE ms[i - Len(toQueue)]
      BY ONLY <1>1, <1>2, ConcatProperties
    <3> QED
      BY ONLY <1>2, <3>1
  <2>2. Len(toQueue) \in Nat
    BY ONLY <1>1, LenProperties
  <2> QED
    BY ONLY <1>2, <1>5, <2>1, <2>2
<1> QED
  BY <1>3, <1>4, <1>6

\* A player who was not told to queue keeps his seat when he leaves, and one
\* who was told does not.
THEOREM LogoutProtected == Spec => LogoutIsProtected
<1>1. Inv => [\A u \in users : Logout(u) /\ Arrives /\ toQueue' # toQueue
                 => toQueue'[Len(toQueue')].protect = ~refused[u]]_vars
  BY NoticeProtects
<1> QED
  BY <1>1, Invariant, PTL DEF LogoutIsProtected

=============================================================================
