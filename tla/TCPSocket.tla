----------------------------- MODULE TCPSocket -----------------------------
(***************************************************************************)
(* CTCPSocket, the buffered stream socket between the servers, at its two  *)
(* ends: the object the sender calls send_data on and the object the       *)
(* receiver calls recv_data and get_one_code on, with the kernel between   *)
(* them.  The other direction is the same code with other buffers.         *)
(*                                                                         *)
(* A byte is its position in the stream of the connection, so that a byte  *)
(* which is lost, repeated or moved is seen; the length field of a message *)
(* is looked up with the position of the byte the code reads it from.      *)
(* m_send_buffer and m_recv_buffer hold the bytes from index 0 to the tail *)
(* (the tail is their length); the heads count the bytes already used.     *)
(*                                                                         *)
(* MaxBytes bounds the length of one stream; it stands for nothing in the  *)
(* code.                                                                   *)
(***************************************************************************)
EXTENDS Integers, Sequences

CONSTANTS
    BufferSize,      \* socket_buffer_size; the arrays have one byte more
    MaxPackageSize,  \* max_code_size of get_one_code
    LengthField,     \* m_4bytes: 4 bytes of length, or 2
    Sizes,           \* the sizes of the messages, length field included
    WireCapacity,    \* what the kernel takes before send reports EAGAIN
    MaxBytes         \* bound on accepted

\* send_data copies a message whose size it never compares with the buffer's:
\* that none is larger is what the definition of socket_buffer_size asks for.
ASSUME TCPSocketAssumption ==
    /\ LengthField \in Nat \ {0}
    /\ BufferSize \in Nat /\ WireCapacity \in Nat /\ MaxBytes \in Nat
    /\ MaxPackageSize \in 1 .. BufferSize
    /\ Sizes \subseteq LengthField .. BufferSize

VARIABLES
    s_status, m_send_buffer, m_send_head,              \* the sender's socket
    r_status, m_recv_buffer, m_recv_head, draining,    \* the receiver's
    wire, link,                                        \* the kernel
    accepted, consumed, codes, data                    \* history

sender   == <<s_status, m_send_buffer, m_send_head>>
receiver == <<r_status, m_recv_buffer, m_recv_head, draining>>
network  == <<wire, link>>
history  == <<accepted, consumed, codes, data>>
vars     == <<sender, receiver, network, history>>

\* get_one_code looks at the first bytes of the buffer for the size; a byte
\* that starts no message reads as an invalid size.
CodeSize ==
    LET first == m_recv_buffer[m_recv_head + 1]
    IN IF first \in DOMAIN codes THEN codes[first] ELSE 0

SendPending == Len(m_send_buffer) - m_send_head
RecvPending == Len(m_recv_buffer) - m_recv_head

Min2(a, b) == IF a < b THEN a ELSE b

\* What is left of a buffer when its used bytes are moved out.
Compacted(buffer, head) == SubSeq(buffer, head + 1, Len(buffer))

\* The bytes of the next message, of size n.
NewBytes(n) == [i \in 1 .. n |-> accepted + i]

Accept(n) ==
    /\ accepted' = accepted + n
    /\ codes' = [p \in DOMAIN codes \cup {accepted + 1} |->
                    IF p = accepted + 1 THEN n ELSE codes[p]]
    /\ UNCHANGED <<consumed, data>>

Init ==
    /\ s_status = "closed" /\ m_send_buffer = <<>> /\ m_send_head = 0
    /\ r_status = "closed" /\ m_recv_buffer = <<>> /\ m_recv_head = 0
    /\ draining = FALSE
    /\ wire = <<>> /\ link = "down"
    /\ accepted = 0 /\ consumed = 0 /\ codes = <<>> /\ data = <<>>

-----------------------------------------------------------------------------
(***************************************************************************)
(* Opening and closing.                                                    *)
(***************************************************************************)

\* Mutant: accept_fd does not empty the receive buffer.
ConnectKeepsBytes ==
    /\ s_status = "closed" /\ ~draining
    /\ s_status' = "connected" /\ m_send_buffer' = <<>> /\ m_send_head' = 0
    /\ r_status' = "connected" /\ UNCHANGED <<m_recv_buffer, m_recv_head>>
    /\ wire' = <<>> /\ link' = "up"
    /\ accepted' = 0 /\ consumed' = 0 /\ codes' = <<>>
    /\ UNCHANGED <<draining, data>>

\* open_as_client and connect_to on one side, accept_fd on the other, which
\* closes what the object still holds.
Connect ==
    /\ s_status = "closed" /\ ~draining
    /\ s_status' = "connected" /\ m_send_buffer' = <<>> /\ m_send_head' = 0
    /\ r_status' = "connected" /\ m_recv_buffer' = <<>> /\ m_recv_head' = 0
    /\ wire' = <<>> /\ link' = "up"
    /\ accepted' = 0 /\ consumed' = 0 /\ codes' = <<>>
    /\ UNCHANGED <<draining, data>>

CloseSender ==
    s_status' = "closed" /\ m_send_buffer' = <<>> /\ m_send_head' = 0

\* Mutant: the receive head survives a close.
CloseReceiverKeepsHead ==
    r_status' = "closed" /\ m_recv_buffer' = <<>> /\ UNCHANGED m_recv_head

CloseReceiver ==
    r_status' = "closed" /\ m_recv_buffer' = <<>> /\ m_recv_head' = 0

\* The sender's caller closes: the bytes in the kernel still arrive.
SenderCloses ==
    /\ s_status = "connected"
    /\ CloseSender
    /\ link' = IF link = "up" THEN "fin" ELSE link
    /\ UNCHANGED <<receiver, wire, history>>

\* The receiver's caller closes: the bytes it has not read are lost.
ReceiverCloses ==
    /\ r_status = "connected" /\ ~draining
    /\ CloseReceiver
    /\ wire' = <<>> /\ link' = "reset"
    /\ UNCHANGED <<sender, draining, history>>

\* The network breaks.
Reset ==
    /\ link \in {"up", "fin"}
    /\ wire' = <<>> /\ link' = "reset"
    /\ UNCHANGED <<sender, receiver, history>>

-----------------------------------------------------------------------------
(***************************************************************************)
(* send_data.  The pending bytes go out first.  send takes bytes until the *)
(* kernel is full and then reports EAGAIN.                                 *)
(***************************************************************************)

CanSend(n) ==
    /\ s_status = "connected" /\ link = "up"
    /\ accepted + n <= MaxBytes

\* How far the pending bytes get, and m_send_head after that.
Flushed     == Min2(SendPending, WireCapacity - Len(wire))
\* Mutant: a partial flush does not move m_send_head.
HeadNotMoved == m_send_head

HeadFlushed == m_send_head + Flushed
Flush       == SubSeq(m_send_buffer, m_send_head + 1, HeadFlushed)

\* Mutant: the room behind the tail is taken to be the room in the buffer.
FitsAnywhere(n) == BufferSize - SendPending >= n

FitsBehind(n)     == BufferSize - Len(m_send_buffer) >= n
FitsCompacted(n)  == BufferSize - Len(m_send_buffer) + HeadFlushed >= n

\* EAGAIN with bytes still pending: the message joins them, if there is room
\* behind the tail,
SendAppend(n) ==
    /\ CanSend(n) /\ Flushed < SendPending
    /\ FitsBehind(n)
    /\ wire' = wire \o Flush
    /\ m_send_head' = HeadFlushed
    /\ m_send_buffer' = m_send_buffer \o NewBytes(n)
    /\ Accept(n)
    /\ UNCHANGED <<s_status, receiver, link>>

\* or if there is once the used bytes are moved out,
SendCompact(n) ==
    /\ CanSend(n) /\ Flushed < SendPending
    /\ ~FitsBehind(n) /\ FitsCompacted(n)
    /\ wire' = wire \o Flush
    /\ m_send_head' = 0
    /\ m_send_buffer' = Compacted(m_send_buffer, HeadFlushed) \o NewBytes(n)
    /\ Accept(n)
    /\ UNCHANGED <<s_status, receiver, link>>

\* or is refused whole: send_notenouth_buffer.
SendRefused(n) ==
    /\ CanSend(n) /\ Flushed < SendPending
    /\ ~FitsBehind(n) /\ ~FitsCompacted(n)
    /\ wire' = wire \o Flush
    /\ m_send_head' = HeadFlushed
    /\ UNCHANGED <<s_status, m_send_buffer, receiver, link, history>>

\* Nothing pending is left: the message goes to the kernel, and the part it
\* does not take is kept.
SendDirect(n) ==
    /\ CanSend(n) /\ Flushed = SendPending
    /\ LET room  == WireCapacity - Len(wire) - Flushed
           taken == Min2(n, room)
       IN /\ wire' = wire \o Flush \o SubSeq(NewBytes(n), 1, taken)
          /\ m_send_buffer' = SubSeq(NewBytes(n), taken + 1, n)
          /\ m_send_head' = 0
    /\ Accept(n)
    /\ UNCHANGED <<s_status, receiver, link>>

\* send fails for another reason than EAGAIN.
SendError ==
    /\ s_status = "connected" /\ link = "reset"
    /\ CloseSender
    /\ UNCHANGED <<receiver, network, history>>

SendData(n) ==
    SendAppend(n) \/ SendCompact(n) \/ SendRefused(n) \/ SendDirect(n)

-----------------------------------------------------------------------------
(***************************************************************************)
(* recv_data, which reads once.  The buffer it reads behind is the one     *)
(* left by the two adjustments at its top: an empty buffer starts again at *)
(* index 0, and a tail at the end of the array moves the bytes down.       *)
(***************************************************************************)

RoomBehind == BufferSize + 1 - Len(m_recv_buffer)

\* Whether recv_data may read: not when the unread bytes fill the array.
RecvRoom == RoomBehind > 0 \/ m_recv_head > 0

ToRead ==
    IF RecvPending = 0 \/ RoomBehind = 0
    THEN Compacted(m_recv_buffer, m_recv_head)
    ELSE m_recv_buffer

\* recv returns k of the bytes that have arrived.
RecvBytes(k) ==
    /\ r_status = "connected" /\ ~draining
    /\ RecvRoom
    /\ k <= Min2(Len(wire), BufferSize + 1 - Len(ToRead))
    /\ m_recv_buffer' = ToRead \o SubSeq(wire, 1, k)
    /\ m_recv_head' = IF ToRead = m_recv_buffer THEN m_recv_head ELSE 0
    /\ wire' = SubSeq(wire, k + 1, Len(wire))
    /\ draining' = TRUE
    /\ UNCHANGED <<sender, r_status, link, history>>

\* recv_notenouth_buffer: the callers go on with what the buffer holds.
RecvFull ==
    /\ r_status = "connected" /\ ~draining
    /\ ~RecvRoom /\ wire # <<>>
    /\ draining' = TRUE
    /\ UNCHANGED <<sender, r_status, m_recv_buffer, m_recv_head, network,
                   history>>

\* recv returns 0, the peer has closed, or fails: the socket is closed.
RecvClosed ==
    /\ r_status = "connected" /\ ~draining
    /\ RecvRoom
    /\ wire = <<>> /\ link \in {"fin", "reset"}
    /\ CloseReceiver
    /\ UNCHANGED <<sender, draining, network, history>>

-----------------------------------------------------------------------------
(***************************************************************************)
(* get_one_code.  After every recv_data the caller repeats it until it     *)
(* returns no message.                                                     *)
(***************************************************************************)

\* Mutant: a message that ends at the tail is not whole.
IncompleteOffByOne ==
    ~(RecvPending >= LengthField /\ RecvPending > CodeSize)

\* The buffer does not hold a whole message.
Incomplete ==
    ~(RecvPending >= LengthField /\ RecvPending >= CodeSize)

\* Mutant: a message of max_code_size bytes is too long.
LegalStrict == CodeSize > 0 /\ CodeSize < MaxPackageSize

\* The size in the length field is one the caller can take.
Legal == CodeSize > 0 /\ CodeSize <= MaxPackageSize

\* Enum_MHPE_GetOneCode_NoData: bytes at the end of the array move down.
GetNoData ==
    /\ draining
    /\ Incomplete
    /\ IF RecvPending > 0 /\ RoomBehind = 0
       THEN m_recv_buffer' = Compacted(m_recv_buffer, m_recv_head)
            /\ m_recv_head' = 0
       ELSE UNCHANGED <<m_recv_buffer, m_recv_head>>
    /\ draining' = FALSE
    /\ UNCHANGED <<sender, r_status, network, history>>

\* Enum_MHPE_GetOneCode_Invalid, Enum_MHPE_GetOneCode_CodeSizeNotEnough: the
\* bytes stay where they are.
GetFails ==
    /\ draining
    /\ ~Incomplete
    /\ ~Legal
    /\ draining' = FALSE
    /\ UNCHANGED <<sender, r_status, m_recv_buffer, m_recv_head, network,
                   history>>

\* Mutant: max_code_size is not compared.
GetSuccessAnySize ==
    /\ draining
    /\ ~Incomplete
    /\ data' = SubSeq(m_recv_buffer, m_recv_head + 1, m_recv_head + CodeSize)
    /\ consumed' = consumed + CodeSize
    /\ m_recv_head' = m_recv_head + CodeSize
    /\ UNCHANGED <<sender, r_status, m_recv_buffer, draining, network,
                   accepted, codes>>

GetSuccess ==
    /\ draining
    /\ ~Incomplete
    /\ Legal
    /\ data' = SubSeq(m_recv_buffer, m_recv_head + 1, m_recv_head + CodeSize)
    /\ consumed' = consumed + CodeSize
    /\ IF RecvPending = CodeSize
       THEN m_recv_buffer' = <<>> /\ m_recv_head' = 0
       ELSE m_recv_head' = m_recv_head + CodeSize
            /\ UNCHANGED m_recv_buffer
    /\ UNCHANGED <<sender, r_status, draining, network, accepted, codes>>

GetOneCode == GetNoData \/ GetFails \/ GetSuccess

-----------------------------------------------------------------------------
Next ==
    \/ Connect \/ SenderCloses \/ ReceiverCloses \/ Reset
    \/ \E n \in Sizes : SendData(n)
    \/ SendError
    \/ \E k \in 1 .. BufferSize + 1 : RecvBytes(k)
    \/ RecvFull \/ RecvClosed
    \/ GetOneCode

Spec == Init /\ [][Next]_vars

\* epoll is level triggered: a receiver with something to read is called
\* again, and its loop over the messages ends.
RecvData == (\E k \in 1 .. BufferSize + 1 : RecvBytes(k)) \/ RecvFull
            \/ RecvClosed

FairSpec == Spec /\ WF_vars(RecvData) /\ WF_vars(GetOneCode)

-----------------------------------------------------------------------------
(***************************************************************************)
(* Properties.                                                             *)
(***************************************************************************)

Status == {"closed", "connected"}

TypeOK ==
    /\ s_status \in Status /\ r_status \in Status
    /\ link \in {"down", "up", "fin", "reset"}
    /\ draining \in BOOLEAN
    /\ m_send_buffer \in Seq(Nat) /\ m_recv_buffer \in Seq(Nat)
    /\ wire \in Seq(Nat) /\ data \in Seq(Nat)
    /\ m_send_head \in 0 .. Len(m_send_buffer)
    /\ m_recv_head \in 0 .. Len(m_recv_buffer)
    /\ accepted \in Nat /\ consumed \in Nat
    /\ DOMAIN codes \subseteq Nat
    /\ \A p \in DOMAIN codes : codes[p] \in Sizes

\* Neither array is written past its end, whatever the kernel takes or
\* returns and in whatever order messages of any size are sent.
BuffersFit ==
    /\ Len(m_send_buffer) <= BufferSize
    /\ Len(m_recv_buffer) <= BufferSize + 1

\* The unread bytes, the bytes in the kernel and the pending bytes are one
\* stretch of the stream, without a gap or a repetition: no compaction, no
\* partial send and no refused message breaks it.
StreamInOrder ==
    /\ \A i \in 1 .. RecvPending :
          m_recv_buffer[m_recv_head + i] = consumed + i
    /\ \A i \in 1 .. Len(wire) : wire[i] = consumed + RecvPending + i
    /\ s_status = "connected" =>
          \A i \in 1 .. SendPending :
             m_send_buffer[m_send_head + i] = accepted - SendPending + i
    /\ s_status = "connected" /\ link = "up" =>
          accepted = consumed + RecvPending + Len(wire) + SendPending

\* The receive buffer never stops the stream: unless the message at its head
\* is longer than get_one_code takes, recv_data can read, so
\* recv_notenouth_buffer is never the last word.
NeverFull ==
    ~draining /\ r_status = "connected" /\ RecvPending >= LengthField
        /\ CodeSize <= MaxPackageSize
    => RecvPending <= BufferSize

\* Once a message longer than max_code_size is at the head, the connection
\* delivers nothing more until it is opened again.
OversizedBlocks ==
    [][consumed + 1 \in DOMAIN codes /\ codes[consumed + 1] > MaxPackageSize
       /\ consumed' # consumed => consumed' = 0 /\ accepted' = 0]_vars

\* The messages come out whole, in order and once.
Stream == INSTANCE MessageStream
StreamSpec == Stream!Spec

\* A message whose last byte the kernel has taken is delivered, also when the
\* sender closes right after it, unless the connection breaks, is opened
\* again first or holds a message that is too long.
Taken(last) == \E i \in 1 .. Len(wire) : wire[i] = last

Ended(last) ==
    \/ link = "reset" \/ r_status = "closed" \/ accepted < last
    \/ \E q \in DOMAIN codes : codes[q] > MaxPackageSize

TakenIsDelivered ==
    \A q \in 1 .. MaxBytes : \A n \in Sizes :
        (q \in DOMAIN codes /\ codes[q] = n /\ Taken(q + n - 1))
            ~> (consumed >= q + n - 1 \/ Ended(q + n - 1))

=============================================================================
