-------------------------- MODULE AdmissionQueue --------------------------
(***************************************************************************)
(* What a login queue promises, with nothing of how it keeps the promise:  *)
(* no indices, no clocks, no configuration but the number of seats.        *)
(*                                                                         *)
(* Players wait in a line, given by the relation `ahead', or hold a seat.  *)
(* The queue serves the line and its desk in turn.  It gives seats only    *)
(* while there are free ones, to the front of the line, or at the desk to  *)
(* a newcomer when nobody waits, and what it tells a player at the desk is *)
(* so.  The game server is not bound by the line: it reports at the desk   *)
(* who plays and who has left.                                             *)
(***************************************************************************)
EXTENDS Naturals, FiniteSets

CONSTANT Users

VARIABLES
    waiting,    \* the players in line
    ahead,      \* <<v, u>> \in ahead: v stands before u
    seated,     \* the players that may enter
    cap,        \* the number of seats the queue may give out
    turn,       \* what is served next, the "line" or the "desk"
    answer      \* <<u, b>>: u has just been told that he may enter, if b, or
                \* that he has to wait; <<>>: nobody has just been told

aqVars == <<waiting, ahead, seated, cap, turn, answer>>

\* The line without the players of S, the others in the same order.
Without(S) ==
    /\ waiting' = waiting \ S
    /\ ahead' = ahead \cap (waiting' \X waiting')

Init ==
    /\ waiting = {}
    /\ ahead = {}
    /\ seated = {}
    /\ cap \in Nat
    /\ turn = "line"
    /\ answer = <<>>

\* One round of admissions: some seats fall vacant, some players have given
\* up, and the players of A, who stand before everybody that goes on waiting,
\* get seats.
Serve ==
    /\ turn = "line" /\ turn' = "desk"
    /\ answer' = <<>>
    /\ \E vacated \in SUBSET seated, gaveUp \in SUBSET waiting :
        \E A \in SUBSET (waiting \ gaveUp) :
            /\ \A u \in A, v \in waiting \ (gaveUp \cup A) : <<u, v>> \in ahead
            /\ A = {} \/ Cardinality((seated \ vacated) \cup A) <= cap
            /\ seated' = (seated \ vacated) \cup A
            /\ Without(gaveUp \cup A)
            /\ UNCHANGED cap

Desk(a) ==
    /\ turn = "desk" /\ turn' = "line"
    /\ answer' = a

\* A player is let in: he has a seat, or nobody waits and there is one.
Enter(u) ==
    /\ Desk(<<u, TRUE>>)
    /\ u \in seated \/ (waiting = {} /\ Cardinality(seated) < cap)
    /\ seated' = seated \cup {u}
    /\ UNCHANGED <<waiting, ahead, cap>>

\* A player in line has to go on waiting.
Wait(u) ==
    /\ Desk(<<u, FALSE>>)
    /\ u \in waiting \ seated
    /\ cap' \in Nat
    /\ UNCHANGED <<waiting, ahead, seated>>

\* A newcomer has to wait, because others do or because there is no seat.
Join(u) ==
    /\ Desk(<<u, FALSE>>)
    /\ u \notin waiting \cup seated
    /\ waiting # {} \/ Cardinality(seated) >= cap
    /\ waiting' = waiting \cup {u}
    /\ ahead' = ahead \cup (waiting \X {u})
    /\ cap' \in Nat
    /\ UNCHANGED seated

\* The game server reports that the players of S are playing.
Playing(S) ==
    /\ Desk(<<>>)
    /\ seated' = seated \cup S
    /\ Without(S)
    /\ UNCHANGED cap

\* The game server reports that u has left; it may have his seat kept.
Left(u) ==
    /\ Desk(<<>>)
    /\ seated' \in {seated, seated \cup {u}, seated \ {u}}
    /\ Without({u})
    /\ UNCHANGED cap

\* A call at the desk that moves nobody.
Other ==
    /\ Desk(<<>>)
    /\ UNCHANGED <<waiting, ahead, seated, cap>>

\* The operators change the number of seats.
SetCap ==
    /\ cap' \in Nat
    /\ UNCHANGED <<waiting, ahead, seated, turn, answer>>

Next ==
    \/ Serve
    \/ \E u \in Users : Enter(u) \/ Wait(u) \/ Join(u) \/ Left(u)
    \/ \E S \in SUBSET Users : Playing(S)
    \/ Other
    \/ SetCap

Spec == Init /\ [][Next]_aqVars

=============================================================================
