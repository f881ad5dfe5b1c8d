-------------------------- MODULE TCPSocketProofs --------------------------
(***************************************************************************)
(* Proofs about TCPSocket, for every buffer size, message size and kernel. *)
(*                                                                         *)
(* The inductive invariant joins the types, the bounds of the buffers and  *)
(* the order of the stream with two facts no run names: the messages cut   *)
(* the stream into adjacent pieces, and the bytes handed out end with one  *)
(* of them (Framed); and the receiver never leaves a whole message of a    *)
(* legal size behind (Drained).  Framed is what makes the byte at          *)
(* m_recv_head the first of a message; Drained is what leaves room.        *)
(***************************************************************************)
EXTENDS TCPSocket, SequenceTheorems, TLAPS

EndOf(p) == p + codes[p] - 1

Framed ==
    /\ consumed + RecvPending + Len(wire) <= accepted
    /\ consumed + 1 \in DOMAIN codes \/ consumed = accepted
    /\ \A p \in DOMAIN codes :
          /\ p >= 1 /\ EndOf(p) <= accepted
          /\ EndOf(p) + 1 \in DOMAIN codes \/ EndOf(p) = accepted

Drained ==
    ~draining => Incomplete \/ CodeSize > MaxPackageSize

WireFits == Len(wire) <= WireCapacity

Inv == TypeOK /\ BuffersFit /\ StreamInOrder /\ Framed /\ Drained /\ WireFits

-----------------------------------------------------------------------------
(***************************************************************************)
(* Facts about the operators of the model.                                 *)
(***************************************************************************)

\* A message has a length field and fits into the buffer.
LEMMA SizesFacts ==
    \A n \in Sizes : n \in Nat /\ n >= 1 /\ n >= LengthField /\ n <= BufferSize
BY TCPSocketAssumption

\* A stretch of a buffer is the bytes at its indices.
LEMMA Stretch ==
    ASSUME NEW s \in Seq(Nat), NEW a \in Nat, NEW b \in Nat,
           a <= b, b <= Len(s)
    PROVE  /\ SubSeq(s, a + 1, b) \in Seq(Nat)
           /\ Len(SubSeq(s, a + 1, b)) = b - a
           /\ \A i \in 1 .. b - a : SubSeq(s, a + 1, b)[i] = s[a + i]
<1>1. \A i \in a + 1 .. b : s[i] \in Nat
  BY ElementOfSeq
<1> QED
  BY <1>1, SubSeqProperties, a + 1 \in Int, b \in Int

\* Bytes behind bytes.
LEMMA Behind ==
    ASSUME NEW s \in Seq(Nat), NEW t \in Seq(Nat)
    PROVE  /\ s \o t \in Seq(Nat)
           /\ Len(s \o t) = Len(s) + Len(t)
           /\ \A i \in 1 .. Len(s) : (s \o t)[i] = s[i]
           /\ \A i \in 1 .. Len(t) : (s \o t)[Len(s) + i] = t[i]
<1>1. Len(s) \in Nat /\ Len(t) \in Nat
  BY LenProperties
<1> QED
  BY <1>1, ConcatProperties

\* Concatenation is associative.
LEMMA Between ==
    ASSUME NEW s \in Seq(Nat), NEW t \in Seq(Nat), NEW u \in Seq(Nat)
    PROVE  (s \o t) \o u = s \o (t \o u)
<1>1. \A S : \A x, y, z \in Seq(S) : (x \o y) \o z = x \o (y \o z)
  BY ConcatAssociative
<1> QED
  BY <1>1, SMTT(30)

\* The bytes of a new message continue the stream.
LEMMA NewBytesFacts ==
    ASSUME TypeOK, NEW n \in Nat
    PROVE  /\ NewBytes(n) \in Seq(Nat) /\ Len(NewBytes(n)) = n
           /\ \A i \in 1 .. n : NewBytes(n)[i] = accepted + i
BY DEF NewBytes, TypeOK

\* What the types say of the counts.
LEMMA Counts ==
    ASSUME TypeOK
    PROVE  /\ Len(m_send_buffer) \in Nat /\ Len(m_recv_buffer) \in Nat
           /\ Len(wire) \in Nat
           /\ SendPending \in Nat /\ RecvPending \in Nat
           /\ m_send_head \in Nat /\ m_recv_head \in Nat
           /\ m_send_head <= Len(m_send_buffer)
           /\ m_recv_head <= Len(m_recv_buffer)
<1>1. /\ Len(m_send_buffer) \in Nat /\ Len(m_recv_buffer) \in Nat
      /\ Len(wire) \in Nat
  BY LenProperties DEF TypeOK
<1> QED
  BY <1>1 DEF TypeOK, SendPending, RecvPending

\* Accepting a message keeps the stream cut into messages.
LEMMA AcceptFramed ==
    ASSUME Inv, NEW n \in Sizes, Accept(n)
    PROVE  /\ accepted' \in Nat /\ consumed' = consumed /\ data' = data
           /\ accepted' = accepted + n
           /\ DOMAIN codes' \subseteq Nat
           /\ \A p \in DOMAIN codes' : codes'[p] \in Sizes
           /\ consumed + 1 \in DOMAIN codes' \/ consumed = accepted'
           /\ \A p \in DOMAIN codes' :
                 /\ p >= 1 /\ EndOf(p)' <= accepted'
                 /\ EndOf(p)' + 1 \in DOMAIN codes' \/ EndOf(p)' = accepted'
           /\ \A p \in DOMAIN codes : p \in DOMAIN codes' /\ codes'[p] = codes[p]
<1>1. n \in Nat /\ n >= 1
  BY SizesFacts
<1>2. /\ accepted \in Nat /\ consumed \in Nat /\ DOMAIN codes \subseteq Nat
      /\ \A p \in DOMAIN codes : codes[p] \in Sizes
  BY DEF Inv, TypeOK
<1>3. /\ DOMAIN codes' = DOMAIN codes \cup {accepted + 1}
      /\ codes'[accepted + 1] = n
      /\ \A p \in DOMAIN codes : p # accepted + 1 => codes'[p] = codes[p]
  BY DEF Accept
<1>4. \A p \in DOMAIN codes : p >= 1 /\ p + codes[p] - 1 <= accepted
  BY DEF Inv, Framed, EndOf
<1>5. \A p \in DOMAIN codes : codes[p] \in Nat /\ codes[p] >= 1
  BY <1>2, SizesFacts
<1>6. \A p \in DOMAIN codes : p # accepted + 1
  BY <1>2, <1>4, <1>5
<1>7. ASSUME NEW p \in DOMAIN codes'
      PROVE  /\ codes'[p] \in Sizes
             /\ p >= 1 /\ EndOf(p)' <= accepted'
             /\ EndOf(p)' + 1 \in DOMAIN codes' \/ EndOf(p)' = accepted'
  <2>1. CASE p = accepted + 1
    BY <2>1, <1>1, <1>2, <1>3 DEF EndOf, Accept
  <2>2. CASE p \in DOMAIN codes
    <3>1. codes'[p] = codes[p] /\ EndOf(p)' = EndOf(p)
      BY <2>2, <1>3, <1>6 DEF EndOf
    <3>2. EndOf(p) <= accepted /\ p >= 1
      BY <2>2, <1>4 DEF EndOf
    <3>3. EndOf(p) + 1 \in DOMAIN codes \/ EndOf(p) = accepted
      BY <2>2 DEF Inv, Framed
    <3>4. EndOf(p) \in Int
      BY <2>2, <1>2, <1>5 DEF EndOf
    <3> QED
      BY <3>1, <3>2, <3>3, <3>4, <1>1, <1>2, <1>3, <2>2 DEF Accept
  <2> QED
    BY <2>1, <2>2, <1>3
<1>8. consumed + 1 \in DOMAIN codes \/ consumed = accepted
  BY DEF Inv, Framed
<1> QED
  BY <1>1, <1>2, <1>3, <1>6, <1>7, <1>8 DEF Accept

-----------------------------------------------------------------------------
(***************************************************************************)
(* The inductive invariant.                                                *)
(***************************************************************************)

\* Two sockets that have never been connected satisfy the invariant.
LEMMA InitInv == Init => Inv
<1> SUFFICES ASSUME Init PROVE Inv
  OBVIOUS
<1>1. <<>> \in Seq(Nat) /\ Len(<<>>) = 0 /\ DOMAIN <<>> = {}
  BY EmptySeq
<1>2. TypeOK
  <2>1. /\ s_status \in Status /\ r_status \in Status
        /\ link \in {"down", "up", "fin", "reset"} /\ draining \in BOOLEAN
        /\ accepted \in Nat /\ consumed \in Nat
    BY DEF Init, Status
  <2>2. /\ m_send_buffer \in Seq(Nat) /\ m_recv_buffer \in Seq(Nat)
        /\ wire \in Seq(Nat) /\ data \in Seq(Nat)
        /\ m_send_head \in 0 .. Len(m_send_buffer)
        /\ m_recv_head \in 0 .. Len(m_recv_buffer)
    BY <1>1 DEF Init
  <2>3. DOMAIN codes = {}
    BY <1>1 DEF Init
  <2> QED
    BY <2>1, <2>2, <2>3 DEF TypeOK
<1>3. BuffersFit
  BY <1>1, TCPSocketAssumption DEF Init, BuffersFit
<1>4. SendPending = 0 /\ RecvPending = 0 /\ Len(wire) = 0
  BY <1>1 DEF Init, SendPending, RecvPending
<1>5. StreamInOrder
  BY <1>4 DEF Init, StreamInOrder
<1>6. Framed
  BY <1>1, <1>4 DEF Init, Framed
<1>7. Drained
  BY <1>4, TCPSocketAssumption DEF Init, Drained, Incomplete
<1>8. WireFits
  BY <1>4, TCPSocketAssumption DEF WireFits
<1> QED
  BY <1>2, <1>3, <1>5, <1>6, <1>7, <1>8 DEF Inv

\* The byte at m_recv_head is the first of a message.
LEMMA HeadStartsMessage ==
    ASSUME Inv, RecvPending > 0
    PROVE  /\ m_recv_buffer[m_recv_head + 1] = consumed + 1
           /\ consumed + 1 \in DOMAIN codes
           /\ CodeSize = codes[consumed + 1]
           /\ CodeSize \in Sizes
<1>1. RecvPending \in Nat /\ m_recv_head \in Nat /\ Len(wire) \in Nat
  BY Counts DEF Inv
<1>2. m_recv_buffer[m_recv_head + 1] = consumed + 1
  <2>1. 1 \in 1 .. RecvPending
    BY <1>1
  <2> QED
    BY <2>1 DEF Inv, StreamInOrder
<1>3. consumed + 1 \in DOMAIN codes
  BY <1>1 DEF Inv, Framed, TypeOK
<1> QED
  BY <1>2, <1>3 DEF CodeSize, Inv, TypeOK

\* The receiver stays drained while messages are accepted behind what it has.
LEMMA StaysDrained ==
    ASSUME Inv, UNCHANGED <<receiver, consumed>>,
           \A p \in DOMAIN codes : p \in DOMAIN codes' /\ codes'[p] = codes[p]
    PROVE  Drained'
<1>1. /\ draining' = draining /\ RecvPending' = RecvPending
      /\ m_recv_buffer' = m_recv_buffer /\ m_recv_head' = m_recv_head
  BY DEF receiver, RecvPending
<1>2. RecvPending \in Nat
  BY Counts DEF Inv
<1>3. CASE RecvPending < LengthField
  BY <1>1, <1>2, <1>3, TCPSocketAssumption DEF Drained, Incomplete
<1>4. CASE RecvPending >= LengthField
  <2>1. RecvPending > 0
    BY <1>2, <1>4, TCPSocketAssumption
  <2>2. CodeSize' = CodeSize
    BY <2>1, <1>1, HeadStartsMessage DEF CodeSize
  <2> QED
    BY <1>1, <2>2 DEF Inv, Drained, Incomplete
<1> QED
  BY <1>2, <1>3, <1>4, TCPSocketAssumption

\* Every way of sending gives the kernel the next bytes of the stream and
\* keeps the ones after them.
LEMMA SendKeepsInv ==
    ASSUME Inv, NEW n, NEW out \in Seq(Nat),
           (n \in Sizes /\ Accept(n)) \/ (n = 0 /\ UNCHANGED history),
           s_status = "connected", link = "up",
           UNCHANGED <<s_status, receiver, link>>,
           wire' = wire \o out, Len(wire) + Len(out) <= WireCapacity,
           m_send_buffer' \in Seq(Nat), Len(m_send_buffer') <= BufferSize,
           m_send_head' \in 0 .. Len(m_send_buffer'),
           Len(out) + SendPending' = SendPending + n,
           \A i \in 1 .. Len(out) : out[i] = accepted - SendPending + i,
           \A i \in 1 .. SendPending' :
              m_send_buffer'[m_send_head' + i] = accepted' - SendPending' + i
    PROVE  Inv'
<1>1. n \in Nat /\ accepted' = accepted + n /\ consumed' = consumed
      /\ data' = data
  BY SizesFacts DEF Accept, history, Inv, TypeOK
<1>2. /\ accepted' \in Nat
      /\ DOMAIN codes' \subseteq Nat
      /\ \A p \in DOMAIN codes' : codes'[p] \in Sizes
      /\ consumed + 1 \in DOMAIN codes' \/ consumed = accepted'
      /\ \A p \in DOMAIN codes' :
            /\ p >= 1 /\ EndOf(p)' <= accepted'
            /\ EndOf(p)' + 1 \in DOMAIN codes' \/ EndOf(p)' = accepted'
      /\ \A p \in DOMAIN codes : p \in DOMAIN codes' /\ codes'[p] = codes[p]
  <2>1. CASE n \in Sizes /\ Accept(n)
    BY <2>1, AcceptFramed
  <2>2. CASE n = 0 /\ UNCHANGED history
    BY <2>2 DEF history, Inv, TypeOK, Framed, EndOf
  <2> QED
    BY <2>1, <2>2
<1>3. /\ r_status' = r_status /\ m_recv_buffer' = m_recv_buffer
      /\ m_recv_head' = m_recv_head /\ draining' = draining
      /\ RecvPending' = RecvPending
  BY DEF receiver, RecvPending
<1>4. /\ wire' \in Seq(Nat) /\ Len(wire') = Len(wire) + Len(out)
      /\ \A i \in 1 .. Len(wire) : wire'[i] = wire[i]
      /\ \A i \in 1 .. Len(out) : wire'[Len(wire) + i] = out[i]
  BY Behind DEF Inv, TypeOK
<1>5. /\ Len(wire) \in Nat /\ Len(out) \in Nat /\ RecvPending \in Nat
      /\ SendPending \in Nat /\ accepted \in Nat /\ consumed \in Nat
  BY Counts, LenProperties DEF Inv, TypeOK
<1>6. SendPending' \in Nat
  BY LenProperties DEF SendPending
<1>7. accepted = consumed + RecvPending + Len(wire) + SendPending
  BY DEF Inv, StreamInOrder
<1>8. TypeOK'
  <2>1. /\ s_status' \in Status /\ r_status' \in Status
        /\ link' \in {"down", "up", "fin", "reset"} /\ draining' \in BOOLEAN
        /\ consumed' \in Nat /\ data' \in Seq(Nat)
        /\ m_recv_buffer' \in Seq(Nat)
        /\ m_recv_head' \in 0 .. Len(m_recv_buffer')
    BY <1>1, <1>3 DEF Inv, TypeOK
  <2> QED
    BY <2>1, <1>2, <1>4 DEF TypeOK
<1>9. BuffersFit'
  BY <1>3 DEF Inv, BuffersFit
<1>10. accepted' = consumed' + RecvPending' + Len(wire') + SendPending'
  <2>1. accepted' = accepted + n
    BY <1>1
  <2>2. RecvPending' = RecvPending
    BY <1>3
  <2>3. Len(wire') = Len(wire) + Len(out)
    BY <1>4
  <2>4. Len(out) + SendPending' = SendPending + n
    OBVIOUS
  <2>5. n \in Nat
    BY <1>1
  <2>6. consumed' = consumed
    BY <1>1
  <2> QED
    <3>1. accepted' = (consumed + RecvPending + Len(wire) + SendPending) + n
      BY <2>1, <1>7
    <3>2. consumed + RecvPending + Len(wire) + SendPending + n
          = consumed + RecvPending + Len(wire) + (SendPending + n)
      BY <2>5, <1>5
    <3>3. consumed + RecvPending + Len(wire) + (Len(out) + SendPending')
          = consumed + RecvPending + (Len(wire) + Len(out)) + SendPending'
      BY <1>5, <1>6
    <3> QED
      BY <3>1, <3>2, <3>3, <2>2, <2>3, <2>4, <2>6
<1>11. StreamInOrder'
  <2>1. \A i \in 1 .. RecvPending' :
           m_recv_buffer'[m_recv_head' + i] = consumed' + i
    BY <1>1, <1>3 DEF Inv, StreamInOrder
  <2>2. ASSUME NEW i \in 1 .. Len(wire')
        PROVE  wire'[i] = consumed' + RecvPending' + i
    <3>1. CASE i <= Len(wire)
      <4>1. i \in 1 .. Len(wire)
        BY <3>1, <1>5
      <4> QED
        BY <4>1, <1>1, <1>3, <1>4 DEF Inv, StreamInOrder
    <3>2. CASE i > Len(wire)
      <4>1. i - Len(wire) \in 1 .. Len(out)
        BY <3>2, <1>4, <1>5
      <4>2. wire'[Len(wire) + (i - Len(wire))] = out[i - Len(wire)]
        BY <4>1, <1>4
      <4>3. out[i - Len(wire)] = accepted - SendPending + (i - Len(wire))
        BY <4>1
      <4>4. wire'[i] = accepted - SendPending + (i - Len(wire))
        BY <4>2, <4>3, <1>5, <4>1
      <4> QED
        BY <4>4, <1>1, <1>3, <1>5, <1>7
    <3> QED
      BY <3>1, <3>2, <1>5
  <2> QED
    BY <2>1, <2>2, <1>10 DEF StreamInOrder
<1>12. Framed'
  BY <1>1, <1>2, <1>3, <1>4, <1>5, <1>6, <1>10 DEF Framed
<1>13. Drained'
  BY <1>1, <1>2, StaysDrained
<1>14. WireFits'
  BY <1>4 DEF WireFits
<1> QED
  BY <1>8, <1>9, <1>11, <1>12, <1>13, <1>14 DEF Inv

\* How far the pending bytes get.
LEMMA FlushFacts ==
    ASSUME Inv
    PROVE  /\ Flushed \in Nat /\ Flushed <= SendPending
           /\ Len(wire) + Flushed <= WireCapacity
           /\ HeadFlushed = m_send_head + Flushed
           /\ HeadFlushed \in Nat /\ HeadFlushed <= Len(m_send_buffer)
           /\ Len(m_send_buffer) - HeadFlushed = SendPending - Flushed
           /\ Flush \in Seq(Nat) /\ Len(Flush) = Flushed
           /\ s_status = "connected" =>
                 \A i \in 1 .. Flushed : Flush[i] = accepted - SendPending + i
<1>1. /\ Len(wire) \in Nat /\ SendPending \in Nat /\ m_send_head \in Nat
      /\ Len(m_send_buffer) \in Nat
      /\ SendPending = Len(m_send_buffer) - m_send_head
      /\ WireCapacity \in Nat /\ Len(wire) <= WireCapacity
  BY Counts, TCPSocketAssumption DEF Inv, WireFits, SendPending
<1>2. /\ Flushed \in Nat /\ Flushed <= SendPending
      /\ Len(wire) + Flushed <= WireCapacity
  BY <1>1 DEF Flushed, Min2
<1>3. /\ HeadFlushed = m_send_head + Flushed
      /\ HeadFlushed \in Nat /\ HeadFlushed <= Len(m_send_buffer)
      /\ HeadFlushed - m_send_head = Flushed /\ m_send_head <= HeadFlushed
      /\ Len(m_send_buffer) - HeadFlushed = SendPending - Flushed
  BY <1>1, <1>2 DEF HeadFlushed
<1>4. /\ Flush \in Seq(Nat) /\ Len(Flush) = Flushed
      /\ \A i \in 1 .. Flushed : Flush[i] = m_send_buffer[m_send_head + i]
  <2>1. m_send_buffer \in Seq(Nat)
    BY DEF Inv, TypeOK
  <2>2. /\ SubSeq(m_send_buffer, m_send_head + 1, HeadFlushed) \in Seq(Nat)
        /\ Len(SubSeq(m_send_buffer, m_send_head + 1, HeadFlushed))
           = HeadFlushed - m_send_head
        /\ \A i \in 1 .. HeadFlushed - m_send_head :
              SubSeq(m_send_buffer, m_send_head + 1, HeadFlushed)[i]
              = m_send_buffer[m_send_head + i]
    <3>1. /\ m_send_head \in Nat /\ HeadFlushed \in Nat
          /\ m_send_head <= HeadFlushed /\ HeadFlushed <= Len(m_send_buffer)
      BY ONLY <1>1, <1>3
    <3> QED
      BY ONLY <2>1, <3>1, Stretch
  <2> QED
    BY <2>2, <1>3 DEF Flush
<1>5. ASSUME s_status = "connected", NEW i \in 1 .. Flushed
      PROVE  Flush[i] = accepted - SendPending + i
  <2>1. i \in 1 .. SendPending
    BY <1>1, <1>2
  <2> QED
    BY <2>1, <1>4, <1>5 DEF Inv, StreamInOrder
<1> QED
  BY <1>2, <1>3, <1>4, <1>5

\* The bytes still pending after the flush, with a new message behind them,
\* wherever in the buffer they start.
LEMMA AppendFacts ==
    ASSUME Inv, s_status = "connected", NEW n \in Sizes,
           NEW base \in Seq(Nat), NEW head \in Nat,
           head <= Len(base), Len(base) - head = SendPending - Flushed,
           \A i \in 1 .. SendPending - Flushed :
              base[head + i] = m_send_buffer[HeadFlushed + i]
    PROVE  /\ base \o NewBytes(n) \in Seq(Nat)
           /\ Len(base \o NewBytes(n)) = Len(base) + n
           /\ \A i \in 1 .. (SendPending - Flushed + n) :
                 (base \o NewBytes(n))[head + i]
                 = (accepted + n) - (SendPending - Flushed + n) + i
<1>1. n \in Nat /\ n >= 1
  BY SizesFacts
<1>2. /\ NewBytes(n) \in Seq(Nat) /\ Len(NewBytes(n)) = n
      /\ \A i \in 1 .. n : NewBytes(n)[i] = accepted + i
  BY <1>1, NewBytesFacts DEF Inv
<1>3. /\ base \o NewBytes(n) \in Seq(Nat)
      /\ Len(base \o NewBytes(n)) = Len(base) + n
      /\ \A i \in 1 .. Len(base) : (base \o NewBytes(n))[i] = base[i]
      /\ \A i \in 1 .. n : (base \o NewBytes(n))[Len(base) + i]
                            = NewBytes(n)[i]
  <2>1. /\ base \o NewBytes(n) \in Seq(Nat)
        /\ Len(base \o NewBytes(n)) = Len(base) + Len(NewBytes(n))
        /\ \A i \in 1 .. Len(base) : (base \o NewBytes(n))[i] = base[i]
        /\ \A i \in 1 .. Len(NewBytes(n)) :
              (base \o NewBytes(n))[Len(base) + i] = NewBytes(n)[i]
    BY <1>2, Behind
  <2> QED
    BY <2>1, <1>2
<1>4. /\ Len(base) \in Nat /\ SendPending \in Nat /\ Flushed \in Nat
      /\ Flushed <= SendPending /\ accepted \in Nat /\ m_send_head \in Nat
      /\ HeadFlushed = m_send_head + Flushed
  BY Counts, FlushFacts, LenProperties DEF Inv, TypeOK
<1>5. ASSUME NEW i \in 1 .. (SendPending - Flushed + n)
      PROVE  (base \o NewBytes(n))[head + i]
             = (accepted + n) - (SendPending - Flushed + n) + i
  <2>1. CASE i <= SendPending - Flushed
    <3>1. i \in 1 .. SendPending - Flushed /\ head + i \in 1 .. Len(base)
      BY <2>1, <1>1, <1>4
    <3>2. (base \o NewBytes(n))[head + i] = m_send_buffer[HeadFlushed + i]
      BY <3>1, <1>3
    <3>3. Flushed + i \in 1 .. SendPending
      BY <3>1, <1>4
    <3>4. m_send_buffer[m_send_head + (Flushed + i)]
          = accepted - SendPending + (Flushed + i)
      BY <3>3 DEF Inv, StreamInOrder
    <3>5. HeadFlushed + i = m_send_head + (Flushed + i)
      BY <3>1, <1>4
    <3>6. (base \o NewBytes(n))[head + i]
          = accepted - SendPending + (Flushed + i)
      BY <3>2, <3>4, <3>5
    <3>7. accepted - SendPending + (Flushed + i)
          = (accepted + n) - (SendPending - Flushed + n) + i
      BY <3>1, <1>1, <1>4
    <3> QED
      BY <3>6, <3>7
  <2>2. CASE i > SendPending - Flushed
    <3>1. i - (SendPending - Flushed) \in 1 .. n
      BY <2>2, <1>1, <1>4
    <3>2. head + i = Len(base) + (i - (SendPending - Flushed))
      BY <3>1, <1>4
    <3>3. (base \o NewBytes(n))[head + i]
          = accepted + (i - (SendPending - Flushed))
      BY <3>1, <3>2, <1>2, <1>3
    <3>4. accepted + (i - (SendPending - Flushed))
          = (accepted + n) - (SendPending - Flushed + n) + i
      BY <3>1, <1>1, <1>4
    <3> QED
      BY <3>3, <3>4
  <2>3. i <= SendPending - Flushed \/ i > SendPending - Flushed
    <3>1. i \in Int
      OBVIOUS
    <3> QED
      BY <3>1, <1>4
  <2> QED
    BY <2>1, <2>2, <2>3
<1> QED
  BY <1>3, <1>5

-----------------------------------------------------------------------------
(***************************************************************************)
(* Every action preserves the invariant.                                   *)
(***************************************************************************)

\* A message is appended to what is pending.
LEMMA SendAppendInv ==
    ASSUME Inv, NEW n \in Sizes, SendAppend(n)
    PROVE  Inv'
<1>1. n \in Nat /\ n >= 1
  BY SizesFacts
<1>2. /\ s_status = "connected" /\ link = "up"
      /\ wire' = wire \o Flush /\ m_send_head' = HeadFlushed
      /\ m_send_buffer' = m_send_buffer \o NewBytes(n)
      /\ Accept(n) /\ UNCHANGED <<s_status, receiver, link>>
      /\ BufferSize - Len(m_send_buffer) >= n
  BY DEF SendAppend, CanSend, FitsBehind
<1>3. /\ Len(m_send_buffer) \in Nat /\ SendPending \in Nat
      /\ BufferSize \in Nat /\ accepted \in Nat /\ Len(wire) \in Nat
  BY Counts, TCPSocketAssumption DEF Inv, TypeOK
<1>4. /\ m_send_buffer \o NewBytes(n) \in Seq(Nat)
      /\ Len(m_send_buffer \o NewBytes(n)) = Len(m_send_buffer) + n
      /\ \A i \in 1 .. (SendPending - Flushed + n) :
            (m_send_buffer \o NewBytes(n))[HeadFlushed + i]
            = (accepted + n) - (SendPending - Flushed + n) + i
  <2>1. m_send_buffer \in Seq(Nat)
    BY DEF Inv, TypeOK
  <2>2. /\ HeadFlushed \in Nat /\ HeadFlushed <= Len(m_send_buffer)
        /\ Len(m_send_buffer) - HeadFlushed = SendPending - Flushed
    BY FlushFacts
  <2> QED
    BY <2>1, <2>2, <1>2, AppendFacts
<1>5. SendPending' = SendPending - Flushed + n
  <2>1. SendPending' = (Len(m_send_buffer) + n) - HeadFlushed
    BY <1>2, <1>4 DEF SendPending
  <2> QED
    BY <2>1, <1>1, <1>3, FlushFacts
<1>6. accepted' = accepted + n
  BY <1>2 DEF Accept
<1>7. /\ Len(m_send_buffer') <= BufferSize
      /\ m_send_head' \in 0 .. Len(m_send_buffer')
  BY <1>1, <1>2, <1>3, <1>4, FlushFacts
<1>8. Len(Flush) + SendPending' = SendPending + n
  BY <1>1, <1>3, <1>5, FlushFacts
<1>9. \A i \in 1 .. Len(Flush) : Flush[i] = accepted - SendPending + i
  BY <1>2, FlushFacts
<1>10. \A i \in 1 .. SendPending' :
          m_send_buffer'[m_send_head' + i] = accepted' - SendPending' + i
  BY <1>2, <1>4, <1>5, <1>6
<1>11. Flush \in Seq(Nat) /\ Len(wire) + Len(Flush) <= WireCapacity
  BY FlushFacts
<1>12. m_send_buffer' \in Seq(Nat)
  BY <1>2, <1>4
<1> QED
  BY <1>2, <1>7, <1>8, <1>9, <1>10, <1>11, <1>12, SendKeepsInv

\* send_data moves the pending bytes to the front and appends the message.
LEMMA SendCompactInv ==
    ASSUME Inv, NEW n \in Sizes, SendCompact(n)
    PROVE  Inv'
<1> DEFINE rest == SubSeq(m_send_buffer, HeadFlushed + 1, Len(m_send_buffer))
<1>1. n \in Nat /\ n >= 1
  BY SizesFacts
<1>2. /\ s_status = "connected" /\ link = "up"
      /\ wire' = wire \o Flush /\ m_send_head' = 0
      /\ m_send_buffer' = rest \o NewBytes(n)
      /\ Accept(n) /\ UNCHANGED <<s_status, receiver, link>>
      /\ BufferSize - Len(m_send_buffer) + HeadFlushed >= n
  BY DEF SendCompact, CanSend, FitsCompacted, Compacted
<1>3. /\ Len(m_send_buffer) \in Nat /\ SendPending \in Nat
      /\ BufferSize \in Nat /\ accepted \in Nat /\ Len(wire) \in Nat
  BY Counts, TCPSocketAssumption DEF Inv, TypeOK
<1>4. /\ rest \in Seq(Nat) /\ Len(rest) = SendPending - Flushed
      /\ \A i \in 1 .. SendPending - Flushed :
            rest[i] = m_send_buffer[HeadFlushed + i]
  <2>1. m_send_buffer \in Seq(Nat)
    BY DEF Inv, TypeOK
  <2>2. /\ rest \in Seq(Nat) /\ Len(rest) = Len(m_send_buffer) - HeadFlushed
        /\ \A i \in 1 .. Len(m_send_buffer) - HeadFlushed :
              rest[i] = m_send_buffer[HeadFlushed + i]
    <3>1. /\ HeadFlushed \in Nat /\ HeadFlushed <= Len(m_send_buffer)
          /\ Len(m_send_buffer) \in Nat /\ Len(m_send_buffer) <= Len(m_send_buffer)
      BY <1>3, FlushFacts
    <3> QED
      BY ONLY <2>1, <3>1, Stretch
  <2> QED
    BY <2>2, FlushFacts
<1> HIDE DEF rest
<1>5. /\ rest \o NewBytes(n) \in Seq(Nat)
      /\ Len(rest \o NewBytes(n)) = Len(rest) + n
      /\ \A i \in 1 .. (SendPending - Flushed + n) :
            (rest \o NewBytes(n))[0 + i]
            = (accepted + n) - (SendPending - Flushed + n) + i
  <2>1. 0 <= Len(rest) /\ Len(rest) - 0 = SendPending - Flushed
    BY <1>3, <1>4, FlushFacts
  <2>2. \A i \in 1 .. SendPending - Flushed :
           rest[0 + i] = m_send_buffer[HeadFlushed + i]
    BY <1>4
  <2>3. 0 \in Nat /\ s_status = "connected" /\ rest \in Seq(Nat)
    BY <1>2, <1>4
  <2> QED
    BY ONLY Inv, n \in Sizes, <2>1, <2>2, <2>3, AppendFacts
<1>6. SendPending' = SendPending - Flushed + n
  <2>1. SendPending' = (Len(rest) + n) - 0
    BY <1>2, <1>5 DEF SendPending
  <2> QED
    BY <2>1, <1>1, <1>3, <1>4, FlushFacts
<1>7. accepted' = accepted + n
  BY <1>2 DEF Accept
<1>8. /\ Len(m_send_buffer') <= BufferSize
      /\ m_send_head' \in 0 .. Len(m_send_buffer')
  <2>1. Len(rest) = Len(m_send_buffer) - HeadFlushed
    BY <1>4, FlushFacts
  <2>2. Len(m_send_buffer') = Len(m_send_buffer) - HeadFlushed + n
    BY <2>1, <1>2, <1>5
  <2>3. HeadFlushed \in Nat /\ HeadFlushed <= Len(m_send_buffer)
    BY FlushFacts
  <2>4. BufferSize - Len(m_send_buffer) + HeadFlushed >= n /\ m_send_head' = 0
    BY <1>2
  <2> QED
    BY ONLY <2>2, <2>3, <2>4, <1>1, <1>3
<1>9. Len(Flush) + SendPending' = SendPending + n
  BY <1>1, <1>3, <1>6, FlushFacts
<1>10. \A i \in 1 .. Len(Flush) : Flush[i] = accepted - SendPending + i
  BY <1>2, FlushFacts
<1>11. \A i \in 1 .. SendPending' :
          m_send_buffer'[m_send_head' + i] = accepted' - SendPending' + i
  BY <1>2, <1>5, <1>6, <1>7
<1>12. Flush \in Seq(Nat) /\ Len(wire) + Len(Flush) <= WireCapacity
  BY FlushFacts
<1>13. m_send_buffer' \in Seq(Nat)
  BY <1>2, <1>5
<1> QED
  BY <1>2, <1>8, <1>9, <1>10, <1>11, <1>12, <1>13, SendKeepsInv

\* send_data has no room for the message.
LEMMA SendRefusedInv ==
    ASSUME Inv, NEW n \in Sizes, SendRefused(n)
    PROVE  Inv'
<1>1. /\ s_status = "connected" /\ link = "up"
      /\ wire' = wire \o Flush /\ m_send_head' = HeadFlushed
      /\ m_send_buffer' = m_send_buffer
      /\ UNCHANGED <<s_status, receiver, link>> /\ UNCHANGED history
      /\ accepted' = accepted
  BY DEF SendRefused, CanSend, history
<1>2. /\ Len(m_send_buffer) \in Nat /\ SendPending \in Nat
      /\ accepted \in Nat /\ m_send_head \in Nat
      /\ m_send_buffer \in Seq(Nat) /\ Len(m_send_buffer) <= BufferSize
  BY Counts DEF Inv, TypeOK, BuffersFit
<1>3. SendPending' = SendPending - Flushed
  BY <1>1, FlushFacts DEF SendPending
<1>4. m_send_head' \in 0 .. Len(m_send_buffer')
  BY <1>1, <1>2, FlushFacts
<1>5. Len(Flush) + SendPending' = SendPending + 0
  BY <1>2, <1>3, FlushFacts
<1>6. ASSUME NEW i \in 1 .. SendPending'
      PROVE  m_send_buffer'[m_send_head' + i] = accepted' - SendPending' + i
  <2>1. Flushed + i \in 1 .. SendPending
    <3>1. Flushed \in Nat /\ i \in 1 .. (SendPending - Flushed)
      BY <1>3, FlushFacts
    <3> QED
      BY ONLY <3>1, <1>2
  <2>2. m_send_buffer[m_send_head + (Flushed + i)]
        = accepted - SendPending + (Flushed + i)
    BY <2>1, <1>1 DEF Inv, StreamInOrder
  <2>3. m_send_head' + i = m_send_head + (Flushed + i)
    BY <1>1, <1>2, FlushFacts
  <2>4. accepted - SendPending + (Flushed + i) = accepted' - SendPending' + i
    <3>1. Flushed \in Nat /\ i \in Int /\ accepted \in Nat
          /\ SendPending \in Nat
      BY <1>2, FlushFacts
    <3>2. accepted - SendPending + (Flushed + i)
          = accepted - (SendPending - Flushed) + i
      BY ONLY <3>1
    <3> QED
      BY <1>1, <1>3, <3>2
  <2> QED
    BY <1>1, <2>2, <2>3, <2>4
<1>7. \A i \in 1 .. Len(Flush) : Flush[i] = accepted - SendPending + i
  BY <1>1, FlushFacts
<1>8. Flush \in Seq(Nat) /\ Len(wire) + Len(Flush) <= WireCapacity
  BY FlushFacts
<1> QED
  BY <1>1, <1>2, <1>4, <1>5, <1>6, <1>7, <1>8, SendKeepsInv

\* send_data writes to the kernel, and keeps what the kernel did not take.
LEMMA SendDirectInv ==
    ASSUME Inv, NEW n \in Sizes, SendDirect(n)
    PROVE  Inv'
<1> DEFINE room  == WireCapacity - Len(wire) - Flushed
           taken == Min2(n, room)
           now   == SubSeq(NewBytes(n), 0 + 1, taken)
           later == SubSeq(NewBytes(n), taken + 1, n)
           out   == Flush \o now
<1>1. n \in Nat /\ n >= 1
  BY SizesFacts
<1>2. /\ Len(wire) \in Nat /\ SendPending \in Nat /\ accepted \in Nat
      /\ WireCapacity \in Nat /\ BufferSize \in Nat
      /\ wire \in Seq(Nat) /\ Flush \in Seq(Nat) /\ Len(Flush) = Flushed
      /\ Flushed \in Nat /\ Len(wire) + Flushed <= WireCapacity
  BY Counts, TCPSocketAssumption, FlushFacts DEF Inv, TypeOK
<1>3. /\ s_status = "connected" /\ link = "up" /\ Flushed = SendPending
      /\ wire' = (wire \o Flush) \o now
      /\ m_send_buffer' = later /\ m_send_head' = 0
      /\ Accept(n) /\ UNCHANGED <<s_status, receiver, link>>
  BY DEF SendDirect, CanSend
<1>4. /\ taken \in Nat /\ taken <= n
      /\ Len(wire) + Flushed + taken <= WireCapacity
  <2>1. room \in Nat /\ Len(wire) + Flushed + room = WireCapacity
    BY <1>2
  <2> HIDE DEF room
  <2>2. taken \in Nat /\ taken <= n /\ taken <= room
    BY <2>1, <1>1 DEF Min2
  <2> QED
    BY <2>1, <2>2, <1>2
<1> HIDE DEF taken
<1>5. /\ NewBytes(n) \in Seq(Nat) /\ Len(NewBytes(n)) = n
      /\ \A i \in 1 .. n : NewBytes(n)[i] = accepted + i
  BY <1>1, NewBytesFacts DEF Inv
<1>6. /\ now \in Seq(Nat) /\ Len(now) = taken
      /\ \A i \in 1 .. taken : now[i] = accepted + i
  <2>1. /\ 0 \in Nat /\ 0 <= taken /\ taken <= Len(NewBytes(n))
    BY <1>4, <1>5
  <2>2. /\ now \in Seq(Nat) /\ Len(now) = taken - 0
        /\ \A i \in 1 .. taken - 0 : now[i] = NewBytes(n)[0 + i]
    BY ONLY <2>1, <1>4, <1>5, Stretch
  <2>3. taken - 0 = taken
    BY <1>4
  <2> QED
    BY <2>2, <2>3, <1>1, <1>4, <1>5
<1>7. /\ later \in Seq(Nat) /\ Len(later) = n - taken
      /\ \A i \in 1 .. n - taken : later[i] = accepted + taken + i
  <2>1. n \in Nat /\ n <= Len(NewBytes(n))
    BY <1>1, <1>5
  <2>2. /\ later \in Seq(Nat) /\ Len(later) = n - taken
        /\ \A i \in 1 .. n - taken : later[i] = NewBytes(n)[taken + i]
    BY ONLY <2>1, <1>4, <1>5, Stretch
  <2>3. ASSUME NEW i \in 1 .. n - taken
        PROVE  later[i] = accepted + taken + i
    <3>1. taken + i \in 1 .. n
      BY <1>1, <1>4
    <3>2. NewBytes(n)[taken + i] = accepted + (taken + i)
      BY <3>1, <1>5
    <3>3. accepted + (taken + i) = accepted + taken + i
      BY <1>2, <1>4
    <3> QED
      BY <2>2, <3>2, <3>3
  <2> QED
    BY <2>2, <2>3
<1> HIDE DEF now, later
<1>8. /\ out \in Seq(Nat) /\ Len(out) = SendPending + taken
      /\ \A i \in 1 .. Len(out) : out[i] = accepted - SendPending + i
  <2>1. /\ out \in Seq(Nat) /\ Len(out) = Len(Flush) + Len(now)
        /\ \A i \in 1 .. Len(Flush) : out[i] = Flush[i]
        /\ \A i \in 1 .. Len(now) : out[Len(Flush) + i] = now[i]
    BY <1>2, <1>6, Behind
  <2>2. ASSUME NEW i \in 1 .. Len(out)
        PROVE  out[i] = accepted - SendPending + i
    <3>1. CASE i <= SendPending
      <4>1. i \in 1 .. Flushed /\ i \in 1 .. Len(Flush)
        BY <3>1, <1>2, <1>3
      <4> QED
        BY <4>1, <2>1, <1>3, FlushFacts
    <3>2. CASE i > SendPending
      <4>1. i - SendPending \in 1 .. taken
        BY <3>2, <2>1, <1>2, <1>3, <1>4, <1>6
      <4>2. i = Len(Flush) + (i - SendPending)
        BY <1>2, <1>3
      <4>3. out[i] = accepted + (i - SendPending)
        BY <4>1, <4>2, <2>1, <1>6
      <4>4. accepted + (i - SendPending) = accepted - SendPending + i
        BY <1>2
      <4> QED
        BY <4>3, <4>4
    <3> QED
      BY <3>1, <3>2, <1>2
  <2> QED
    BY <2>1, <2>2, <1>2, <1>3, <1>6
<1>9. wire' = wire \o out
  <2>1. wire \in Seq(Nat) /\ Flush \in Seq(Nat) /\ now \in Seq(Nat)
    BY <1>2, <1>6
  <2>2. (wire \o Flush) \o now = wire \o (Flush \o now)
    BY <2>1, Between
  <2> QED
    BY <2>2, <1>3
<1> HIDE DEF out
<1>10. accepted' = accepted + n
  BY <1>3 DEF Accept
<1>11. SendPending' = n - taken
  BY <1>1, <1>3, <1>4, <1>7 DEF SendPending
<1>12. Len(wire) + Len(out) <= WireCapacity
  BY <1>2, <1>3, <1>4, <1>8
<1>13. /\ m_send_buffer' \in Seq(Nat) /\ Len(m_send_buffer') <= BufferSize
       /\ m_send_head' \in 0 .. Len(m_send_buffer')
  <2>1. n <= BufferSize
    BY SizesFacts
  <2> QED
    BY <2>1, <1>1, <1>2, <1>3, <1>4, <1>7
<1>14. Len(out) + SendPending' = SendPending + n
  BY <1>1, <1>2, <1>4, <1>8, <1>11
<1>15. ASSUME NEW i \in 1 .. SendPending'
       PROVE  m_send_buffer'[m_send_head' + i] = accepted' - SendPending' + i
  <2>1. i \in 1 .. n - taken
    BY <1>11
  <2>2. later[i] = accepted + taken + i
    BY <2>1, <1>7
  <2>3. accepted + taken + i = accepted' - SendPending' + i
    BY <2>1, <1>1, <1>2, <1>4, <1>10, <1>11
  <2>4. m_send_head' + i = i
    BY <2>1, <1>3
  <2> QED
    BY <2>2, <2>3, <2>4, <1>3
<1> QED
  BY <1>3, <1>8, <1>9, <1>12, <1>13, <1>14, <1>15, SendKeepsInv

\* Closing either end, or losing the connection, shortens the stream.
LEMMA CloseKeepsInv ==
    ASSUME Inv, UNCHANGED history, UNCHANGED draining,
           UNCHANGED sender \/ CloseSender,
           \/ /\ UNCHANGED receiver
              /\ UNCHANGED wire \/ wire' = <<>>
           \/ CloseReceiver /\ wire' = <<>>,
           link' \in {"down", "fin", "reset"}
    PROVE  Inv'
<1>1. /\ <<>> \in Seq(Nat) /\ Len(<<>>) = 0
  BY EmptySeq
<1>2. /\ Len(wire) \in Nat /\ RecvPending \in Nat /\ SendPending \in Nat
      /\ WireCapacity \in Nat /\ BufferSize \in Nat
      /\ accepted \in Nat /\ consumed \in Nat /\ LengthField > 0
  BY Counts, TCPSocketAssumption DEF Inv, TypeOK
<1>3. /\ accepted' = accepted /\ consumed' = consumed /\ codes' = codes
      /\ data' = data
  BY DEF history
<1>4. /\ s_status' \in Status /\ m_send_buffer' \in Seq(Nat)
      /\ m_send_head' \in 0 .. Len(m_send_buffer')
      /\ Len(m_send_buffer') <= BufferSize
      /\ s_status' = "connected" =>
            \A i \in 1 .. SendPending' :
               m_send_buffer'[m_send_head' + i] = accepted' - SendPending' + i
  <2>1. CASE UNCHANGED sender
    <3>1. /\ s_status' = s_status /\ m_send_buffer' = m_send_buffer
          /\ m_send_head' = m_send_head /\ SendPending' = SendPending
      BY <2>1 DEF sender, SendPending
    <3> QED
      BY <3>1, <1>3 DEF Inv, TypeOK, BuffersFit, StreamInOrder
  <2>2. CASE CloseSender
    BY <2>2, <1>1, <1>2 DEF CloseSender, Status
  <2> QED
    BY <2>1, <2>2
<1>5. /\ r_status' \in Status /\ draining' \in BOOLEAN
      /\ m_recv_buffer' \in Seq(Nat)
      /\ m_recv_head' \in 0 .. Len(m_recv_buffer')
      /\ Len(m_recv_buffer') <= BufferSize + 1
      /\ \A i \in 1 .. RecvPending' :
            m_recv_buffer'[m_recv_head' + i] = consumed' + i
      /\ wire' \in Seq(Nat) /\ Len(wire') <= WireCapacity
      /\ \A i \in 1 .. Len(wire') : wire'[i] = consumed' + RecvPending' + i
      /\ consumed' + RecvPending' + Len(wire') <= accepted'
      /\ Drained'
  <2>1. CASE UNCHANGED receiver /\ (UNCHANGED wire \/ wire' = <<>>)
    <3>1. /\ r_status' = r_status /\ m_recv_buffer' = m_recv_buffer
          /\ m_recv_head' = m_recv_head /\ draining' = draining
          /\ RecvPending' = RecvPending /\ CodeSize' = CodeSize
      BY <2>1, <1>3 DEF receiver, RecvPending, CodeSize
    <3>2. /\ wire' \in Seq(Nat) /\ Len(wire') <= WireCapacity
          /\ \A i \in 1 .. Len(wire') :
                wire'[i] = consumed' + RecvPending' + i
          /\ consumed' + RecvPending' + Len(wire') <= accepted'
      <4>1. CASE UNCHANGED wire
        BY <4>1, <3>1, <1>3
        DEF Inv, TypeOK, WireFits, StreamInOrder, Framed
      <4>2. CASE wire' = <<>>
        <5>1. consumed + RecvPending + Len(wire) <= accepted
          BY DEF Inv, Framed
        <5> QED
          BY <5>1, <4>2, <3>1, <1>1, <1>2, <1>3
      <4> QED
        BY <4>1, <4>2, <2>1
    <3>3. Drained'
      BY <3>1 DEF Inv, Drained, Incomplete
    <3> QED
      BY <3>1, <3>2, <3>3, <1>3 DEF Inv, TypeOK, BuffersFit, StreamInOrder
  <2>2. CASE CloseReceiver /\ wire' = <<>>
    <3>1. /\ m_recv_buffer' = <<>> /\ m_recv_head' = 0 /\ wire' = <<>>
          /\ r_status' = "closed" /\ RecvPending' = 0
      BY <2>2, <1>1 DEF CloseReceiver, RecvPending
    <3>2. Drained'
      BY <3>1, <1>2, TCPSocketAssumption DEF Drained, Incomplete
    <3>3. consumed <= accepted
      BY <1>2 DEF Inv, Framed
    <3> QED
      BY <3>1, <3>2, <3>3, <1>1, <1>2, <1>3 DEF Inv, TypeOK, Status
  <2> QED
    BY <2>1, <2>2
<1>6. TypeOK'
  BY <1>3, <1>4, <1>5 DEF Inv, TypeOK
<1>7. BuffersFit'
  BY <1>4, <1>5 DEF BuffersFit
<1>8. StreamInOrder'
  BY <1>4, <1>5 DEF StreamInOrder
<1>9. Framed'
  BY <1>3, <1>5 DEF Inv, Framed, EndOf
<1> QED
  BY <1>5, <1>6, <1>7, <1>8, <1>9 DEF Inv, WireFits

\* A socket is closed, by its owner or by an error.
LEMMA ClosingInv ==
    ASSUME Inv, SenderCloses \/ ReceiverCloses \/ Reset \/ SendError
                \/ RecvClosed
    PROVE  Inv'
<1>1. CASE SenderCloses
  BY <1>1, CloseKeepsInv DEF SenderCloses, receiver, Inv, TypeOK
<1>2. CASE ReceiverCloses
  BY <1>2, CloseKeepsInv DEF ReceiverCloses
<1>3. CASE Reset
  BY <1>3, CloseKeepsInv DEF Reset, receiver
<1>4. CASE SendError
  BY <1>4, CloseKeepsInv DEF SendError, receiver, network
<1>5. CASE RecvClosed
  BY <1>5, CloseKeepsInv DEF RecvClosed, network
<1> QED
  BY <1>1, <1>2, <1>3, <1>4, <1>5

\* A new connection, with empty buffers on both sides.
LEMMA ConnectInv ==
    ASSUME Inv, Connect
    PROVE  Inv'
<1>1. /\ <<>> \in Seq(Nat) /\ Len(<<>>) = 0 /\ DOMAIN <<>> = {}
  BY EmptySeq
<1>2. /\ s_status' = "connected" /\ m_send_buffer' = <<>> /\ m_send_head' = 0
      /\ r_status' = "connected" /\ m_recv_buffer' = <<>> /\ m_recv_head' = 0
      /\ wire' = <<>> /\ link' = "up" /\ draining' = draining
      /\ accepted' = 0 /\ consumed' = 0 /\ codes' = <<>> /\ data' = data
  BY DEF Connect
<1>3. SendPending' = 0 /\ RecvPending' = 0 /\ Len(wire') = 0
  BY <1>1, <1>2 DEF SendPending, RecvPending
<1>4. TypeOK'
  <2>1. DOMAIN codes' = {}
    BY <1>1, <1>2
  <2>2. draining' \in BOOLEAN /\ data' \in Seq(Nat)
    BY <1>2 DEF Inv, TypeOK
  <2>3. /\ m_send_head' \in 0 .. Len(m_send_buffer')
        /\ m_recv_head' \in 0 .. Len(m_recv_buffer')
    BY <1>1, <1>2
  <2> QED
    BY <2>1, <2>2, <2>3, <1>1, <1>2 DEF TypeOK, Status
<1>5. BuffersFit' /\ WireFits'
  BY <1>1, <1>2, TCPSocketAssumption DEF BuffersFit, WireFits
<1>6. StreamInOrder'
  BY <1>2, <1>3 DEF StreamInOrder
<1>7. Framed'
  BY <1>1, <1>2, <1>3 DEF Framed
<1>8. Drained'
  BY <1>3, TCPSocketAssumption DEF Drained, Incomplete
<1> QED
  BY <1>4, <1>5, <1>6, <1>7, <1>8 DEF Inv

\* recv_data appends bytes from the kernel to the buffer.
LEMMA RecvBytesInv ==
    ASSUME Inv, NEW k \in 1 .. BufferSize + 1, RecvBytes(k)
    PROVE  Inv'
<1> DEFINE got  == SubSeq(wire, 0 + 1, k)
           rest == SubSeq(wire, k + 1, Len(wire))
           head == IF ToRead = m_recv_buffer THEN m_recv_head ELSE 0
<1>1. /\ Len(wire) \in Nat /\ RecvPending \in Nat /\ SendPending \in Nat
      /\ m_recv_head \in Nat /\ Len(m_recv_buffer) \in Nat
      /\ m_recv_head <= Len(m_recv_buffer)
      /\ RecvPending = Len(m_recv_buffer) - m_recv_head
      /\ BufferSize \in Nat /\ WireCapacity \in Nat
      /\ accepted \in Nat /\ consumed \in Nat /\ k \in Nat
      /\ m_recv_buffer \in Seq(Nat) /\ wire \in Seq(Nat)
  BY Counts, TCPSocketAssumption DEF Inv, TypeOK, RecvPending
<1>2. /\ k <= Min2(Len(wire), BufferSize + 1 - Len(ToRead))
      /\ m_recv_buffer' = ToRead \o got /\ m_recv_head' = head
      /\ wire' = rest /\ draining' = TRUE
      /\ UNCHANGED <<sender, r_status, link, history>>
  BY DEF RecvBytes
<1>3. /\ s_status' = s_status /\ m_send_buffer' = m_send_buffer
      /\ m_send_head' = m_send_head /\ SendPending' = SendPending
      /\ r_status' = r_status /\ link' = link
      /\ accepted' = accepted /\ consumed' = consumed /\ codes' = codes
      /\ data' = data
  BY <1>2 DEF sender, history, SendPending
<1>4. /\ ToRead \in Seq(Nat) /\ head \in 0 .. Len(ToRead)
      /\ Len(ToRead) - head = RecvPending
      /\ \A i \in 1 .. RecvPending : ToRead[head + i] = consumed + i
  <2>1. \A i \in 1 .. RecvPending :
           m_recv_buffer[m_recv_head + i] = consumed + i
    BY DEF Inv, StreamInOrder
  <2>2. CASE ToRead = m_recv_buffer
    BY <2>1, <2>2, <1>1
  <2>3. CASE ToRead # m_recv_buffer
    <3> DEFINE moved == SubSeq(m_recv_buffer, m_recv_head + 1,
                               Len(m_recv_buffer))
    <3>1. ToRead = moved /\ head = 0
      BY <2>3 DEF ToRead, Compacted
    <3>2. /\ moved \in Seq(Nat)
          /\ Len(moved) = Len(m_recv_buffer) - m_recv_head
          /\ \A i \in 1 .. Len(m_recv_buffer) - m_recv_head :
                moved[i] = m_recv_buffer[m_recv_head + i]
      <4>1. Len(m_recv_buffer) <= Len(m_recv_buffer)
        BY <1>1
      <4> QED
        BY ONLY <4>1, <1>1, Stretch
    <3> HIDE DEF moved
    <3>3. \A i \in 1 .. RecvPending : 0 + i = i
      BY <1>1
    <3>4. Len(moved) = RecvPending /\ Len(moved) - 0 = RecvPending
      BY ONLY <3>2, <1>1
    <3>5. \A i \in 1 .. RecvPending : moved[i] = consumed + i
      BY ONLY <3>2, <2>1, <1>1
    <3>6. 0 \in 0 .. Len(moved)
      BY ONLY <3>4, <1>1
    <3> HIDE DEF head
    <3> QED
      BY <3>1, <3>2, <3>3, <3>4, <3>5, <3>6
  <2> QED
    BY <2>2, <2>3
<1> HIDE DEF head
<1>5. /\ Len(ToRead) \in Nat /\ head \in Nat /\ head <= Len(ToRead)
      /\ k <= Len(wire) /\ Len(ToRead) + k <= BufferSize + 1
      /\ Len(ToRead) = head + RecvPending
  <2>1. Len(ToRead) \in Nat
    BY <1>4, LenProperties
  <2>2. k <= Len(wire) /\ k <= BufferSize + 1 - Len(ToRead)
    BY <2>1, <1>1, <1>2 DEF Min2
  <2>3. head \in Nat /\ head <= Len(ToRead)
    BY <2>1, <1>4
  <2>4. Len(ToRead) - head = RecvPending
    BY <1>4
  <2>5. Len(ToRead) = head + RecvPending
    BY ONLY <2>1, <2>3, <2>4, <1>1
  <2>6. Len(ToRead) + k <= BufferSize + 1
    BY ONLY <2>1, <2>2, <1>1
  <2> QED
    BY <2>1, <2>2, <2>3, <2>5, <2>6
<1>6. /\ got \in Seq(Nat) /\ Len(got) = k
      /\ \A i \in 1 .. k : got[i] = consumed + RecvPending + i
  <2>1. 0 \in Nat /\ 0 <= k /\ k - 0 = k
    BY <1>1
  <2>2. /\ got \in Seq(Nat) /\ Len(got) = k - 0
        /\ \A i \in 1 .. k - 0 : got[i] = wire[0 + i]
    BY ONLY <2>1, <1>1, <1>5, Stretch
  <2>3. \A i \in 1 .. k : 0 + i = i /\ i \in 1 .. Len(wire)
    BY <1>1, <1>5
  <2> QED
    BY <2>1, <2>2, <2>3 DEF Inv, StreamInOrder
<1>7. /\ rest \in Seq(Nat) /\ Len(rest) = Len(wire) - k
      /\ \A i \in 1 .. Len(wire) - k :
            rest[i] = consumed + RecvPending + k + i
  <2>1. Len(wire) <= Len(wire)
    BY <1>1
  <2>2. /\ rest \in Seq(Nat) /\ Len(rest) = Len(wire) - k
        /\ \A i \in 1 .. Len(wire) - k : rest[i] = wire[k + i]
    <3>1. PICK b : b = Len(wire)
      OBVIOUS
    <3>2. wire \in Seq(Nat) /\ k \in Nat /\ b \in Nat /\ k <= b /\ b <= Len(wire)
      BY ONLY <2>1, <3>1, <1>1, <1>5
    <3>3. /\ SubSeq(wire, k + 1, b) \in Seq(Nat)
          /\ Len(SubSeq(wire, k + 1, b)) = b - k
          /\ \A i \in 1 .. b - k : SubSeq(wire, k + 1, b)[i] = wire[k + i]
      BY ONLY <3>2, Stretch
    <3> QED
      BY ONLY <3>1, <3>3
  <2>3. ASSUME NEW i \in 1 .. Len(wire) - k
        PROVE  rest[i] = consumed + RecvPending + k + i
    <3>1. k + i \in 1 .. Len(wire)
      BY <1>1, <1>5
    <3>2. wire[k + i] = consumed + RecvPending + (k + i)
      BY <3>1 DEF Inv, StreamInOrder
    <3>3. consumed + RecvPending + (k + i) = consumed + RecvPending + k + i
      BY <1>1
    <3> QED
      BY <2>2, <3>2, <3>3
  <2> QED
    BY <2>2, <2>3
<1> HIDE DEF got, rest
<1>8. /\ m_recv_buffer' \in Seq(Nat) /\ Len(m_recv_buffer') = Len(ToRead) + k
      /\ \A i \in 1 .. Len(ToRead) : m_recv_buffer'[i] = ToRead[i]
      /\ \A i \in 1 .. k : m_recv_buffer'[Len(ToRead) + i] = got[i]
  <2>1. /\ ToRead \o got \in Seq(Nat)
        /\ Len(ToRead \o got) = Len(ToRead) + Len(got)
        /\ \A i \in 1 .. Len(ToRead) : (ToRead \o got)[i] = ToRead[i]
        /\ \A i \in 1 .. Len(got) :
              (ToRead \o got)[Len(ToRead) + i] = got[i]
    BY <1>4, <1>6, Behind
  <2> QED
    BY <2>1, <1>2, <1>6
<1>9. RecvPending' = RecvPending + k
  <2>1. RecvPending' = (Len(ToRead) + k) - head
    BY <1>2, <1>8 DEF RecvPending
  <2> QED
    BY ONLY <2>1, <1>1, <1>5
<1>10. TypeOK'
  <2>1. m_recv_head' \in 0 .. Len(m_recv_buffer')
    <3>1. m_recv_head' = head /\ Len(m_recv_buffer') = Len(ToRead) + k
      BY <1>2, <1>8
    <3> QED
      BY ONLY <3>1, <1>1, <1>5
  <2>2. wire' \in Seq(Nat) /\ draining' \in BOOLEAN
    BY <1>2, <1>7
  <2> QED
    BY <2>1, <2>2, <1>3, <1>8 DEF Inv, TypeOK
<1>11. BuffersFit' /\ WireFits'
  <2>1. Len(wire') <= WireCapacity
    BY <1>1, <1>2, <1>5, <1>7 DEF Inv, WireFits
  <2> QED
    BY <2>1, <1>3, <1>5, <1>8 DEF Inv, BuffersFit, WireFits
<1>12. /\ RecvPending' + Len(wire') = RecvPending + Len(wire)
       /\ Len(wire') = Len(wire) - k
  BY <1>1, <1>2, <1>5, <1>7, <1>9
<1>13. StreamInOrder'
  <2>1. ASSUME NEW i \in 1 .. RecvPending'
        PROVE  m_recv_buffer'[m_recv_head' + i] = consumed' + i
    <3>1. CASE i <= RecvPending
      <4>1. i \in 1 .. RecvPending /\ head + i \in 1 .. Len(ToRead)
        BY <3>1, <1>1, <1>4, <1>5
      <4>2. ToRead[head + i] = consumed + i
        BY <4>1, <1>4
      <4> QED
        BY <4>1, <4>2, <1>2, <1>3, <1>8
    <3>2. CASE i > RecvPending
      <4>1. i - RecvPending \in 1 .. k
        BY <3>2, <1>1, <1>9
      <4>2. head + i = Len(ToRead) + (i - RecvPending)
        BY ONLY <4>1, <1>1, <1>5
      <4>3. got[i - RecvPending] = consumed + RecvPending + (i - RecvPending)
        BY <4>1, <1>6
      <4>4. consumed + RecvPending + (i - RecvPending) = consumed + i
        BY <4>1, <1>1
      <4> QED
        BY <4>1, <4>2, <4>3, <4>4, <1>2, <1>3, <1>8
    <3> QED
      BY <3>1, <3>2, <1>1
  <2>2. ASSUME NEW i \in 1 .. Len(wire')
        PROVE  wire'[i] = consumed' + RecvPending' + i
    <3>1. rest[i] = consumed + RecvPending + k + i
      BY <1>7, <1>12
    <3>2. consumed + RecvPending + k + i = consumed' + RecvPending' + i
      BY <1>1, <1>3, <1>9
    <3> QED
      BY <3>1, <3>2, <1>2
  <2>3. s_status' = "connected" =>
           \A i \in 1 .. SendPending' :
              m_send_buffer'[m_send_head' + i] = accepted' - SendPending' + i
    BY <1>3 DEF Inv, StreamInOrder
  <2>4. s_status' = "connected" /\ link' = "up" =>
           accepted' = consumed' + RecvPending' + Len(wire') + SendPending'
    <3>1. SUFFICES ASSUME s_status = "connected", link = "up"
                   PROVE  accepted' = consumed' + RecvPending' + Len(wire')
                                      + SendPending'
      BY <1>3
    <3>2. accepted = consumed + RecvPending + Len(wire) + SendPending
      BY <3>1 DEF Inv, StreamInOrder
    <3>3. consumed' + (RecvPending' + Len(wire')) + SendPending'
          = consumed + (RecvPending + Len(wire)) + SendPending
      BY <1>3, <1>12
    <3>4. RecvPending' \in Nat /\ Len(wire') \in Nat
      BY ONLY <1>1, <1>5, <1>9, <1>12
    <3>5. /\ accepted' = accepted /\ consumed' = consumed
          /\ SendPending' = SendPending
      BY <1>3
    <3> QED
      BY ONLY <3>2, <3>3, <3>4, <3>5, <1>1
  <2> QED
    BY <2>1, <2>2, <2>3, <2>4 DEF StreamInOrder
<1>14. Framed'
  <2>1. consumed + RecvPending + Len(wire) <= accepted
    BY DEF Inv, Framed
  <2>2. consumed' + RecvPending' + Len(wire') <= accepted'
    BY <2>1, <1>1, <1>3, <1>9, <1>12
  <2> QED
    BY <2>2, <1>3 DEF Inv, Framed, EndOf
<1>15. Drained'
  BY <1>2 DEF Drained
<1> QED
  BY <1>10, <1>11, <1>13, <1>14, <1>15 DEF Inv

\* Whatever get_one_code does to the buffer, it keeps the unread bytes and
\* hands out a whole message or nothing.
LEMMA GetKeepsInv ==
    ASSUME Inv, NEW c \in Nat, c <= RecvPending, consumed' = consumed + c,
           UNCHANGED <<sender, r_status, network, accepted, codes>>,
           data' \in Seq(Nat), draining' \in BOOLEAN,
           m_recv_buffer' \in Seq(Nat), Len(m_recv_buffer') <= BufferSize + 1,
           m_recv_head' \in 0 .. Len(m_recv_buffer'),
           RecvPending' = RecvPending - c,
           \A i \in 1 .. RecvPending' :
              m_recv_buffer'[m_recv_head' + i] = consumed' + i,
           consumed' + 1 \in DOMAIN codes \/ consumed' = accepted,
           Drained'
    PROVE  Inv'
<1>1. /\ Len(wire) \in Nat /\ RecvPending \in Nat /\ SendPending \in Nat
      /\ accepted \in Nat /\ consumed \in Nat
  BY Counts DEF Inv, TypeOK
<1>2. /\ s_status' = s_status /\ m_send_buffer' = m_send_buffer
      /\ m_send_head' = m_send_head /\ SendPending' = SendPending
      /\ r_status' = r_status /\ link' = link /\ wire' = wire
      /\ accepted' = accepted /\ codes' = codes
  BY DEF sender, network, SendPending
<1>3. consumed' + RecvPending' = consumed + RecvPending
  BY <1>1
<1>4. consumed' \in Nat /\ RecvPending' \in Nat
  BY <1>1
<1>5. TypeOK'
  BY <1>2, <1>4 DEF Inv, TypeOK
<1>6. BuffersFit' /\ WireFits'
  BY <1>2 DEF Inv, BuffersFit, WireFits
<1>7. StreamInOrder'
  <2>1. \A i \in 1 .. Len(wire') : wire'[i] = consumed' + RecvPending' + i
    BY <1>2, <1>3 DEF Inv, StreamInOrder
  <2>2. s_status' = "connected" =>
           \A i \in 1 .. SendPending' :
              m_send_buffer'[m_send_head' + i] = accepted' - SendPending' + i
    BY <1>2 DEF Inv, StreamInOrder
  <2>3. s_status' = "connected" /\ link' = "up" =>
           accepted' = consumed' + RecvPending' + Len(wire') + SendPending'
    BY <1>2, <1>3 DEF Inv, StreamInOrder
  <2> QED
    BY <2>1, <2>2, <2>3 DEF StreamInOrder
<1>8. Framed'
  BY <1>2, <1>3 DEF Inv, Framed, EndOf
<1> QED
  BY <1>5, <1>6, <1>7, <1>8 DEF Inv

\* get_one_code finds no whole message and moves the rest to the front.
LEMMA GetNoDataInv ==
    ASSUME Inv, GetNoData
    PROVE  Inv'
<1>1. /\ Incomplete /\ draining' = FALSE /\ data' = data
      /\ consumed' = consumed
      /\ UNCHANGED <<sender, r_status, network, accepted, codes>>
  BY DEF GetNoData, history
<1>2. /\ RecvPending \in Nat /\ m_recv_head \in Nat
      /\ Len(m_recv_buffer) \in Nat /\ m_recv_head <= Len(m_recv_buffer)
      /\ RecvPending = Len(m_recv_buffer) - m_recv_head
      /\ BufferSize \in Nat /\ consumed \in Nat
      /\ m_recv_buffer \in Seq(Nat) /\ Len(m_recv_buffer) <= BufferSize + 1
      /\ m_recv_head \in 0 .. Len(m_recv_buffer) /\ data \in Seq(Nat)
  BY Counts, TCPSocketAssumption DEF Inv, TypeOK, RecvPending, BuffersFit
<1>3. \A i \in 1 .. RecvPending :
         m_recv_buffer[m_recv_head + i] = consumed + i
  BY DEF Inv, StreamInOrder
<1>4. /\ m_recv_buffer' \in Seq(Nat) /\ Len(m_recv_buffer') <= BufferSize + 1
      /\ m_recv_head' \in 0 .. Len(m_recv_buffer')
      /\ RecvPending' = RecvPending
      /\ \A i \in 1 .. RecvPending :
            m_recv_buffer'[m_recv_head' + i] = consumed + i
  <2>1. CASE UNCHANGED <<m_recv_buffer, m_recv_head>>
    BY <2>1, <1>2, <1>3 DEF RecvPending
  <2>2. CASE m_recv_buffer' = Compacted(m_recv_buffer, m_recv_head)
             /\ m_recv_head' = 0
    <3> DEFINE moved == SubSeq(m_recv_buffer, m_recv_head + 1,
                               Len(m_recv_buffer))
    <3>1. m_recv_buffer' = moved /\ m_recv_head' = 0
      BY <2>2 DEF Compacted
    <3>2. /\ moved \in Seq(Nat)
          /\ Len(moved) = Len(m_recv_buffer) - m_recv_head
          /\ \A i \in 1 .. Len(m_recv_buffer) - m_recv_head :
                moved[i] = m_recv_buffer[m_recv_head + i]
      <4>1. Len(m_recv_buffer) <= Len(m_recv_buffer)
        BY <1>2
      <4> QED
        BY ONLY <4>1, <1>2, Stretch
    <3> HIDE DEF moved
    <3>3. \A i \in 1 .. RecvPending : 0 + i = i
      BY <1>2
    <3>4. Len(moved) = RecvPending /\ Len(moved) - 0 = RecvPending
      BY ONLY <3>2, <1>2
    <3>5. \A i \in 1 .. RecvPending : moved[i] = consumed + i
      BY ONLY <3>2, <1>2, <1>3
    <3>6. 0 \in 0 .. Len(moved) /\ Len(moved) <= BufferSize + 1
      BY ONLY <3>4, <1>2
    <3> QED
      BY <3>1, <3>2, <3>3, <3>4, <3>5, <3>6 DEF RecvPending
  <2> QED
    BY <2>1, <2>2 DEF GetNoData
<1>5. Drained'
  <2>1. CASE RecvPending < LengthField
    BY <2>1, <1>2, <1>4, TCPSocketAssumption DEF Drained, Incomplete
  <2>2. CASE RecvPending >= LengthField
    <3>1. RecvPending > 0
      BY <2>2, <1>2, TCPSocketAssumption
    <3>2. 1 \in 1 .. RecvPending
      BY <3>1, <1>2
    <3>3. m_recv_buffer'[m_recv_head' + 1] = consumed + 1
      BY <3>2, <1>4
    <3>4. CodeSize' = CodeSize
      BY <3>1, <3>3, <1>1, HeadStartsMessage DEF CodeSize
    <3> QED
      BY <3>4, <1>1, <1>4 DEF Drained, Incomplete
  <2> QED
    BY <2>1, <2>2, <1>2, TCPSocketAssumption
<1>6. consumed + 1 \in DOMAIN codes \/ consumed = accepted
  BY DEF Inv, Framed
<1>7. 0 \in Nat /\ 0 <= RecvPending /\ consumed' = consumed + 0
      /\ RecvPending' = RecvPending - 0
  BY <1>1, <1>2, <1>4
<1> QED
  BY <1>1, <1>2, <1>4, <1>5, <1>6, <1>7, GetKeepsInv

\* recv_data finds the buffer full, or get_one_code an illegal length.
LEMMA StaysInv ==
    ASSUME Inv, RecvFull \/ GetFails
    PROVE  Inv'
<1>1. /\ UNCHANGED <<sender, r_status, m_recv_buffer, m_recv_head, network,
                     history>>
      /\ draining' \in BOOLEAN
  BY DEF RecvFull, GetFails
<1>2. /\ s_status' = s_status /\ m_send_buffer' = m_send_buffer
      /\ m_send_head' = m_send_head /\ SendPending' = SendPending
      /\ r_status' = r_status /\ link' = link /\ wire' = wire
      /\ m_recv_buffer' = m_recv_buffer /\ m_recv_head' = m_recv_head
      /\ RecvPending' = RecvPending /\ CodeSize' = CodeSize
      /\ accepted' = accepted /\ consumed' = consumed /\ codes' = codes
      /\ data' = data
  BY <1>1 DEF sender, network, history, SendPending, RecvPending, CodeSize
<1>3. Drained'
  <2>1. CASE RecvFull
    BY <2>1 DEF RecvFull, Drained
  <2>2. CASE GetFails
    <3>1. RecvPending >= LengthField
      BY <2>2 DEF GetFails, Incomplete
    <3>2. RecvPending > 0
      BY <3>1, Counts, TCPSocketAssumption DEF Inv
    <3>3. CodeSize \in Nat /\ CodeSize >= 1
      BY <3>2, HeadStartsMessage, SizesFacts
    <3> QED
      BY <2>2, <3>3, <1>2, TCPSocketAssumption DEF GetFails, Drained, Legal
  <2> QED
    BY <2>1, <2>2
<1>4. TypeOK' /\ BuffersFit' /\ WireFits'
  BY <1>1, <1>2 DEF Inv, TypeOK, BuffersFit, WireFits
<1>5. StreamInOrder'
  BY <1>2 DEF Inv, StreamInOrder
<1>6. Framed'
  BY <1>2 DEF Inv, Framed, EndOf
<1> QED
  BY <1>3, <1>4, <1>5, <1>6 DEF Inv

\* What a successful get_one_code hands out.
LEMMA GetSuccessFacts ==
    ASSUME Inv, GetSuccess
    PROVE  /\ consumed + 1 \in DOMAIN codes
           /\ CodeSize = codes[consumed + 1]
           /\ CodeSize \in Nat /\ CodeSize >= 1
           /\ CodeSize <= RecvPending /\ CodeSize <= MaxPackageSize
           /\ data' \in Seq(Nat) /\ Len(data') = CodeSize
           /\ \A i \in 1 .. CodeSize : data'[i] = consumed + i
<1>1. RecvPending >= LengthField /\ RecvPending >= CodeSize
      /\ CodeSize <= MaxPackageSize
  BY DEF GetSuccess, Incomplete, Legal
<1>2. /\ RecvPending \in Nat /\ m_recv_head \in Nat
      /\ Len(m_recv_buffer) \in Nat /\ m_recv_head <= Len(m_recv_buffer)
      /\ RecvPending = Len(m_recv_buffer) - m_recv_head
      /\ m_recv_buffer \in Seq(Nat)
  BY Counts DEF Inv, TypeOK, RecvPending
<1>3. RecvPending > 0
  BY <1>1, <1>2, TCPSocketAssumption
<1>4. /\ consumed + 1 \in DOMAIN codes /\ CodeSize = codes[consumed + 1]
      /\ CodeSize \in Nat /\ CodeSize >= 1
  BY <1>3, HeadStartsMessage, SizesFacts
<1> DEFINE last == m_recv_head + CodeSize
<1>5. /\ last \in Nat /\ m_recv_head <= last /\ last <= Len(m_recv_buffer)
      /\ last - m_recv_head = CodeSize
  BY ONLY <1>1, <1>2, <1>4
<1>6. data' = SubSeq(m_recv_buffer, m_recv_head + 1, last)
  BY DEF GetSuccess
<1> HIDE DEF last
<1>7. /\ data' \in Seq(Nat) /\ Len(data') = last - m_recv_head
      /\ \A i \in 1 .. last - m_recv_head :
            data'[i] = m_recv_buffer[m_recv_head + i]
  BY ONLY <1>2, <1>5, <1>6, Stretch
<1>8. \A i \in 1 .. CodeSize : i \in 1 .. RecvPending
  BY <1>1, <1>2, <1>4
<1> QED
  BY <1>1, <1>4, <1>5, <1>7, <1>8 DEF Inv, StreamInOrder

\* get_one_code gives out the next whole message.
LEMMA GetSuccessInv ==
    ASSUME Inv, GetSuccess
    PROVE  Inv'
<1>1. /\ consumed' = consumed + CodeSize /\ draining' = draining /\ draining
      /\ UNCHANGED <<sender, r_status, network, accepted, codes>>
  BY DEF GetSuccess
<1>2. /\ RecvPending \in Nat /\ m_recv_head \in Nat
      /\ Len(m_recv_buffer) \in Nat /\ m_recv_head <= Len(m_recv_buffer)
      /\ RecvPending = Len(m_recv_buffer) - m_recv_head
      /\ BufferSize \in Nat /\ consumed \in Nat
      /\ m_recv_buffer \in Seq(Nat) /\ Len(m_recv_buffer) <= BufferSize + 1
  BY Counts, TCPSocketAssumption DEF Inv, TypeOK, RecvPending, BuffersFit
<1>3. /\ CodeSize \in Nat /\ CodeSize <= RecvPending
      /\ data' \in Seq(Nat) /\ consumed + 1 \in DOMAIN codes
      /\ CodeSize = codes[consumed + 1]
  BY GetSuccessFacts
<1>4. /\ m_recv_buffer' \in Seq(Nat) /\ Len(m_recv_buffer') <= BufferSize + 1
      /\ m_recv_head' \in 0 .. Len(m_recv_buffer')
      /\ RecvPending' = RecvPending - CodeSize
      /\ \A i \in 1 .. RecvPending' :
            m_recv_buffer'[m_recv_head' + i] = consumed' + i
  <2>1. CASE RecvPending = CodeSize
    <3>1. m_recv_buffer' = <<>> /\ m_recv_head' = 0
      BY <2>1 DEF GetSuccess
    <3>2. /\ <<>> \in Seq(Nat) /\ Len(<<>>) = 0
      BY EmptySeq
    <3> QED
      BY <2>1, <3>1, <3>2, <1>2 DEF RecvPending
  <2>2. CASE RecvPending # CodeSize
    <3>1. m_recv_head' = m_recv_head + CodeSize
          /\ m_recv_buffer' = m_recv_buffer
      BY <2>2 DEF GetSuccess
    <3>2. /\ RecvPending' = RecvPending - CodeSize
          /\ m_recv_head' \in 0 .. Len(m_recv_buffer')
      BY <3>1, <1>2, <1>3 DEF RecvPending
    <3>3. ASSUME NEW i \in 1 .. RecvPending'
          PROVE  m_recv_buffer'[m_recv_head' + i] = consumed' + i
      <4>1. CodeSize + i \in 1 .. RecvPending
        <5>1. i \in 1 .. RecvPending - CodeSize
          BY <3>2
        <5>2. RecvPending \in Nat /\ CodeSize \in Nat
              /\ CodeSize <= RecvPending
          BY <1>2, <1>3
        <5> QED
          BY ONLY <5>1, <5>2
      <4>2. m_recv_buffer[m_recv_head + (CodeSize + i)]
            = consumed + (CodeSize + i)
        BY <4>1 DEF Inv, StreamInOrder
      <4>3. /\ m_recv_head' + i = m_recv_head + (CodeSize + i)
            /\ consumed' + i = consumed + (CodeSize + i)
        <5>1. i \in Int
          OBVIOUS
        <5>2. /\ m_recv_head' = m_recv_head + CodeSize
              /\ consumed' = consumed + CodeSize
          BY <3>1, <1>1
        <5> QED
          <6>1. CodeSize \in Nat /\ m_recv_head \in Nat /\ consumed \in Nat
            BY <1>2, <1>3
          <6>2. /\ (m_recv_head + CodeSize) + i = m_recv_head + (CodeSize + i)
                /\ (consumed + CodeSize) + i = consumed + (CodeSize + i)
            BY ONLY <5>1, <6>1
          <6> QED
            BY <5>2, <6>2
      <4> QED
        BY <4>2, <4>3, <3>1
    <3> QED
      BY <3>1, <3>2, <3>3, <1>2
  <2> QED
    BY <2>1, <2>2
<1>5. consumed' + 1 \in DOMAIN codes \/ consumed' = accepted
  <2>1. /\ EndOf(consumed + 1) + 1 \in DOMAIN codes
           \/ EndOf(consumed + 1) = accepted
    BY <1>3 DEF Inv, Framed
  <2>2. EndOf(consumed + 1) = consumed'
    BY <1>1, <1>2, <1>3 DEF EndOf
  <2> QED
    BY <2>1, <2>2
<1>6. Drained'
  BY <1>1 DEF Drained
<1>7. draining' \in BOOLEAN
  BY <1>1 DEF Inv, TypeOK
<1> QED
  BY <1>1, <1>3, <1>4, <1>5, <1>6, <1>7, GetKeepsInv

\* Every step keeps the invariant.
LEMMA NextInv == Inv /\ [Next]_vars => Inv'
<1> SUFFICES ASSUME Inv, [Next]_vars PROVE Inv'
  OBVIOUS
<1>1. CASE Connect
  BY <1>1, ConnectInv
<1>2. CASE SenderCloses \/ ReceiverCloses \/ Reset \/ SendError \/ RecvClosed
  BY <1>2, ClosingInv
<1>3. ASSUME NEW n \in Sizes, SendData(n)
      PROVE  Inv'
  BY <1>3, SendAppendInv, SendCompactInv, SendRefusedInv, SendDirectInv
  DEF SendData
<1>4. ASSUME NEW k \in 1 .. BufferSize + 1, RecvBytes(k)
      PROVE  Inv'
  BY <1>4, RecvBytesInv
<1>5. CASE RecvFull
  BY <1>5, StaysInv
<1>6. CASE GetOneCode
  BY <1>6, GetNoDataInv, StaysInv, GetSuccessInv DEF GetOneCode
<1>7. CASE UNCHANGED vars
  BY <1>7
  DEF vars, sender, receiver, network, history, Inv, TypeOK, BuffersFit,
      StreamInOrder, Framed, EndOf, Drained, Incomplete, CodeSize, WireFits,
      SendPending, RecvPending
<1> QED
  BY <1>1, <1>2, <1>3, <1>4, <1>5, <1>6, <1>7 DEF Next

-----------------------------------------------------------------------------
(***************************************************************************)
(* The theorems.                                                           *)
(***************************************************************************)

\* The inductive invariant holds in every reachable state.
THEOREM Invariant == Spec => []Inv
BY InitInv, NextInv, PTL DEF Spec

\* The variables keep their types: close_socket, accept_fd and the
\* compactions leave m_send_head and m_recv_head inside their buffers.
THEOREM TypeCorrect == Spec => []TypeOK
<1>1. Inv => TypeOK
  BY DEF Inv
<1> QED
  BY <1>1, Invariant, PTL

\* send_data and recv_data never write past the end of an array.
THEOREM Bounded == Spec => []BuffersFit
<1>1. Inv => BuffersFit
  BY DEF Inv
<1> QED
  BY <1>1, Invariant, PTL

\* What is unread, in the kernel and pending is one stretch of the stream.
THEOREM InOrder == Spec => []StreamInOrder
<1>1. Inv => StreamInOrder
  BY DEF Inv
<1> QED
  BY <1>1, Invariant, PTL

\* recv_data can read whenever the message at the head is of a legal size.
THEOREM RoomToRead == Spec => []NeverFull
<1>1. Inv => NeverFull
  <2> SUFFICES ASSUME Inv, ~draining, RecvPending >= LengthField,
                      CodeSize <= MaxPackageSize
               PROVE  RecvPending <= BufferSize
    BY DEF NeverFull
  <2>1. RecvPending \in Nat /\ RecvPending > 0
    BY Counts, TCPSocketAssumption DEF Inv
  <2>2. CodeSize \in Nat
    BY <2>1, HeadStartsMessage, SizesFacts
  <2>3. ~(RecvPending >= CodeSize)
    BY <2>2, TCPSocketAssumption DEF Inv, Drained, Incomplete
  <2>4. MaxPackageSize \in Nat /\ MaxPackageSize <= BufferSize
        /\ BufferSize \in Nat
    BY TCPSocketAssumption
  <2> QED
    BY <2>1, <2>2, <2>3, <2>4
<1> QED
  BY <1>1, Invariant, PTL

\* A message longer than max_code_size blocks its connection for good.
THEOREM Blocked == Spec => OversizedBlocks
<1> DEFINE Step == consumed + 1 \in DOMAIN codes
                   /\ codes[consumed + 1] > MaxPackageSize
                   /\ consumed' # consumed => consumed' = 0 /\ accepted' = 0
<1>1. Inv /\ [Next]_vars => [Step]_vars
  <2> SUFFICES ASSUME Inv, Next, consumed + 1 \in DOMAIN codes,
                      codes[consumed + 1] > MaxPackageSize,
                      consumed' # consumed
               PROVE  consumed' = 0 /\ accepted' = 0
    BY DEF vars
  <2>1. CASE Connect
    BY <2>1 DEF Connect
  <2>2. CASE GetSuccess
    <3>1. CodeSize <= MaxPackageSize /\ CodeSize = codes[consumed + 1]
          /\ CodeSize \in Nat
      BY <2>2, GetSuccessFacts
    <3> QED
      BY <3>1, TCPSocketAssumption
  <2>3. CASE ~Connect /\ ~GetSuccess
    BY <2>3
    DEF Next, SenderCloses, ReceiverCloses, Reset, SendData, SendAppend,
        SendCompact, SendRefused, SendDirect, SendError, RecvBytes, RecvFull,
        RecvClosed, GetOneCode, GetNoData, GetFails, Accept, history
  <2> QED
    BY <2>1, <2>2, <2>3
<1> QED
  BY <1>1, Invariant, PTL DEF Spec, OversizedBlocks

\* The two buffers, the kernel and the framing together are a stream of
\* messages: every step hands out the next message whole, accepts one at the
\* end, starts a new stream, or does nothing a caller can see.
THEOREM Refinement == Spec => StreamSpec
<1>1. Init => Stream!Init
  BY DEF Init, Stream!Init
<1>2. Inv /\ [Next]_vars => [Stream!Next]_(Stream!vars)
  <2> SUFFICES ASSUME Inv, [Next]_vars
               PROVE  Stream!Next \/ UNCHANGED history
    BY DEF Stream!vars, history
  <2>1. CASE Connect
    BY <2>1 DEF Connect, Stream!Next, Stream!NewStream
  <2>2. ASSUME NEW n \in Sizes, SendAppend(n) \/ SendCompact(n) \/ SendDirect(n)
        PROVE  Stream!Next
    BY <2>2
    DEF SendAppend, SendCompact, SendDirect, Accept, Stream!Next, Stream!Send
  <2>3. CASE GetSuccess
    <3>1. /\ consumed + 1 \in DOMAIN codes /\ CodeSize = codes[consumed + 1]
          /\ data' \in Seq(Nat) /\ Len(data') = CodeSize
          /\ \A i \in 1 .. CodeSize : data'[i] = consumed + i
      BY <2>3, GetSuccessFacts
    <3>2. data' = [i \in 1 .. codes[consumed + 1] |-> consumed + i]
      <4>1. data' = [i \in 1 .. Len(data') |-> data'[i]]
        BY <3>1, LenProperties
      <4> QED
        BY <3>1, <4>1
    <3>3. consumed' = consumed + codes[consumed + 1]
          /\ UNCHANGED <<accepted, codes>>
      BY <2>3, <3>1 DEF GetSuccess
    <3> QED
      BY <3>1, <3>2, <3>3 DEF Stream!Next, Stream!Deliver
  <2>4. CASE UNCHANGED history
    BY <2>4
  <2> QED
    BY <2>1, <2>2, <2>3, <2>4
    DEF Next, vars, SenderCloses, ReceiverCloses, Reset, SendData, SendRefused,
        SendError, RecvBytes, RecvFull, RecvClosed, GetOneCode, GetNoData,
        GetFails
<1> QED
  BY <1>1, <1>2, Invariant, PTL DEF Spec, StreamSpec, Stream!Spec
=============================================================================
