--------------------------- MODULE MessageStream ---------------------------
(***************************************************************************)
(* What a CTCPSocket promises its callers: between two connects the        *)
(* messages one side sends form a stream, and the other side gets the      *)
(* messages of that stream whole, in order and once.  The bytes of the     *)
(* stream are numbered from 1; a message is the position of its first byte *)
(* and its size.  A new connection starts a new stream, and whatever the   *)
(* old one had not delivered is lost.                                      *)
(***************************************************************************)
EXTENDS Naturals

CONSTANT Sizes          \* the sizes of the messages

VARIABLES
    accepted,   \* the number of bytes accepted for sending
    consumed,   \* the number of bytes handed to the receiver
    codes,      \* first byte -> size, of every message of this stream
    data        \* the message handed out last: the positions of its bytes

vars == <<accepted, consumed, codes, data>>

Init ==
    /\ accepted = 0 /\ consumed = 0
    /\ codes = <<>> /\ data = <<>>

Send(n) ==
    /\ accepted' = accepted + n
    /\ codes' = [p \in DOMAIN codes \cup {accepted + 1} |->
                    IF p = accepted + 1 THEN n ELSE codes[p]]
    /\ UNCHANGED <<consumed, data>>

Deliver ==
    /\ consumed + 1 \in DOMAIN codes
    /\ data' = [i \in 1 .. codes[consumed + 1] |-> consumed + i]
    /\ consumed' = consumed + codes[consumed + 1]
    /\ UNCHANGED <<accepted, codes>>

NewStream ==
    /\ accepted' = 0 /\ consumed' = 0 /\ codes' = <<>>
    /\ UNCHANGED data

Next == (\E n \in Sizes : Send(n)) \/ Deliver \/ NewStream

Spec == Init /\ [][Next]_vars
=============================================================================
