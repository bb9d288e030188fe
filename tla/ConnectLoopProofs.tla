-------------------------- MODULE ConnectLoopProofs --------------------------
(***************************************************************************)
(* The serial client down to bytes: the codec of PointerCodec for every    *)
(* event, the framing of Framing for every chunking, and the backoff of    *)
(* ConnectLoop for every cap; for any even number of values to a byte.     *)
(***************************************************************************)
EXTENDS ConnectLoop, ModuloLemmas, FiniteSetTheorems

-----------------------------------------------------------------------------
(* The codec.                                                              *)

\* A short of two bytes has as many values below zero as not.
LEMMA Sizes ==
    /\ Byte \in Nat /\ Byte >= 2
    /\ Half \in Nat /\ Short \in Nat
    /\ Short = 2 * Half /\ Half >= 1
<1>1. Byte \in Nat /\ Byte > 0 /\ Byte % 2 = 0
  BY ByteAssumption
<1> DEFINE h == Byte \div 2
<1>2. h \in Int /\ Byte = 2 * h + (Byte % 2)
  BY <1>1, RemainderRange, QuotientRemainder
<1> HIDE DEF h
<1>3. h \in Nat /\ Byte = 2 * h /\ h >= 1 /\ h * Byte \in Nat /\ Byte * Byte \in Nat
  BY <1>1, <1>2
<1>4. Byte * Byte = 2 * (h * Byte)
  BY <1>1, <1>3
<1>5. h * Byte >= 1
  BY <1>1, <1>3
<1> QED BY <1>1, <1>2, <1>3, <1>4, <1>5 DEF Half, Short, h

\* Clamping leaves a value that two bytes can hold.
LEMMA ClampRange == \A v \in Int : clamp(v) \in -Half .. Half - 1
BY Sizes DEF clamp

\* The two bytes of a short are bytes, and hold the short modulo Short.
LEMMA PackedBytes ==
    ASSUME NEW v \in Int
    PROVE  /\ pack_short(v)[1] \in Bytes /\ pack_short(v)[2] \in Bytes
           /\ pack_short(v)[1] + Byte * pack_short(v)[2] = v % Short
<1> DEFINE u == v % Short
<1>1. u \in Nat /\ u < Byte * Byte
  BY Sizes DEF Short
<1> HIDE DEF u
<1> DEFINE q == u \div Byte
           r == u % Byte
<1>2. r \in 0 .. Byte - 1 /\ q \in Int /\ u = Byte * q + r
  BY <1>1, Sizes, RemainderRange, QuotientRemainder
<1> HIDE DEF q, r
<1>3. q >= 0
  <2>1. CASE q < 0
    <3>1. Byte * (-q) >= Byte
      BY <1>2, <2>1, Sizes, MultipleBound, -q \in Nat \ {0}
    <3> QED BY <1>1, <1>2, <3>1, Sizes
  <2> QED BY <1>2, <2>1
<1>4. q < Byte
  <2>1. CASE q >= Byte
    <3>1. Byte * q >= Byte * Byte
      BY <1>2, <2>1, Sizes
    <3> QED BY <1>1, <1>2, <3>1, Sizes
  <2> QED BY <1>2, <2>1, Sizes
<1> QED BY <1>2, <1>3, <1>4, Sizes DEF pack_short, u, q, r, Bytes

\* Two's complement: what is packed within range is unpacked, sign included.
LEMMA ShortRoundTrip ==
    ASSUME NEW v \in -Half .. Half - 1
    PROVE  unpack_short(pack_short(v)[1], pack_short(v)[2]) = v
<1>1. pack_short(v)[1] + Byte * pack_short(v)[2] = v % Short
  BY PackedBytes, Sizes
<1>2. v % Short = IF v >= 0 THEN v ELSE v + Short
  BY Sizes
<1> QED BY <1>1, <1>2, Sizes DEF unpack_short

(***************************************************************************)
(* Every event, whatever its deltas: it is packed into seven bytes, from   *)
(* which the receiver gets AsReceived of it.                               *)
(***************************************************************************)
THEOREM MotionArrives ==
    ASSUME NEW b \in Int, NEW x \in Int, NEW y \in Int, NEW v \in Int, NEW h \in Int,
           NEW e, e = Motion(b, x, y, v, h)
    PROVE  Len(pack_motion(e)) = 7 /\ unpack_motion(pack_motion(e)) = AsReceived(e)
<1> DEFINE p == pack_motion(e)
           X == pack_short(clamp(x))
           Y == pack_short(clamp(y))
<1>1. e.buttons = b /\ e.dx = x /\ e.dy = y /\ e.scroll_v = v /\ e.scroll_h = h
  BY DEF Motion
<1>3. p = <<b % Byte, X[1], X[2], Y[1], Y[2], v % Byte, h % Byte>>
  BY <1>1 DEF pack_motion, low_byte
<1>4. unpack_short(X[1], X[2]) = clamp(x) /\ unpack_short(Y[1], Y[2]) = clamp(y)
  BY ClampRange, ShortRoundTrip
<1> HIDE DEF p, X, Y
<1>5. Len(p) = 7 /\ unpack_motion(p) = AsReceived(e)
  BY <1>1, <1>3, <1>4 DEF unpack_motion, AsReceived, Motion
<1> QED BY <1>5 DEF p

(***************************************************************************)
(* The scroll byte keeps no sign: a scroll the other way arrives as a      *)
(* scroll forward, and only what fits a byte from zero on is exact.        *)
(***************************************************************************)
THEOREM ScrollLosesItsSign ==
    ASSUME NEW v \in Int
    PROVE  /\ low_byte(v) >= 0
           /\ low_byte(v) = v <=> v \in Bytes
           /\ v < 0 /\ v >= -Byte => low_byte(v) = (IF v = -Byte THEN 0 ELSE v + Byte)
BY Sizes DEF low_byte, Bytes

-----------------------------------------------------------------------------
(* What the Mac writes.                                                    *)

\* The bytes of a frame, from what is remembered of it.
Plain(f) == IF f.ptype = TYPE_KEYBOARD THEN f.source ELSE pack_motion(f.source)

Packet(f) == build_packet(f.ptype, f.seqno, encrypt(Plain(f)))

Written == [ptype : {TYPE_KEYBOARD, TYPE_POINTER}, seqno : 0 .. MaxFrames - 1,
            source : Reports \cup Motions, end : Nat]

Frames ==
    {f \in Written : IF f.ptype = TYPE_KEYBOARD THEN f.source \in Reports
                                                ELSE f.source \in Motions}

EndOf(n) == IF n = 0 THEN STREAM_HEADER_LEN ELSE sent[n].end

\* Every frame remembered was written on the stream, ...
SentInv ==
    /\ stream \in Seq(Bytes)
    /\ session \in {0, 1}
    /\ sent \in Seq(Frames)
    /\ Len(sent) <= MaxFrames
    /\ \A i \in DOMAIN sent : sent[i].seqno = i - 1 /\ sent[i].end \in 1 .. Len(stream)
    /\ \A i, j \in DOMAIN sent : i < j => sent[i].end < sent[j].end
    /\ headerAt \in Nat \cup {NotWritten}

\* ... and behind the header the stream is made of frames.
LayoutInv ==
    Aligned =>
        /\ Len(stream) = EndOf(Len(sent))
        /\ STREAM_HEADER_LEN <= Len(stream)
        /\ SubSeq(stream, 1, STREAM_HEADER_LEN) = Header
        /\ \A i \in DOMAIN sent :
              /\ EndOf(i - 1) + Len(frame_packet(Packet(sent[i]))) = sent[i].end
              /\ SubSeq(stream, EndOf(i - 1) + 1, sent[i].end) = frame_packet(Packet(sent[i]))

\* The receiver: its variables hold bytes, and nothing before the first read.
Delivery == [ptype : Int, seqno : Int, payload : Seq(Bytes)]

ReaderType ==
    /\ delivered \in Seq(Delivery)
    /\ taken \in 0 .. Len(stream)
    /\ awaitingHeader \in BOOLEAN /\ feeding \in BOOLEAN
    /\ headerBuf \in Seq(Bytes) /\ header \in Seq(Bytes) /\ buffer \in Seq(Bytes)
    /\ taken = 0 => /\ awaitingHeader /\ ~feeding
                    /\ headerBuf = <<>> /\ buffer = <<>> /\ delivered = <<>>

\* Before the end of the header it has collected what there was, ...
CollectInv ==
    Aligned /\ awaitingHeader =>
        /\ taken < STREAM_HEADER_LEN /\ ~feeding
        /\ headerBuf = SubSeq(stream, 1, taken)
        /\ buffer = <<>> /\ delivered = <<>>

Unpacked(f) == [ptype |-> f.ptype, seqno |-> f.seqno, payload |-> encrypt(Plain(f))]

\* ... and after it the buffer is the stream from the last frame returned.
BufferInv ==
    Aligned /\ ~awaitingHeader =>
        /\ STREAM_HEADER_LEN <= taken
        /\ header = Header
        /\ Len(delivered) <= Len(sent)
        /\ \A i \in 1 .. Len(delivered) : delivered[i] = Unpacked(sent[i])
        /\ EndOf(Len(delivered)) <= taken
        /\ buffer = SubSeq(stream, EndOf(Len(delivered)) + 1, taken)
        /\ ~feeding => \/ Len(delivered) = Len(sent)
                       \/ taken < sent[Len(delivered) + 1].end

FramingInv ==
    SentInv /\ LayoutInv /\ ReaderType /\ CollectInv /\ BufferInv

\* The pause to come is the next of the doubling, and the last one was slept.
BackoffInv ==
    /\ looppc = "read" => tries = 0 /\ slept = 0 /\ backoff = 1
    /\ looppc = "try" /\ tries < MaxTries =>
          /\ backoff = Least(2 ^ tries, MAX_BACKOFF)
          /\ slept + 1 >= backoff
    /\ looppc \in {"wait", "sleep"} /\ tries < MaxTries =>
          /\ tries > 0
          /\ backoff = Least(2 ^ (tries - 1), MAX_BACKOFF)
          /\ slept + 1 >= backoff

-----------------------------------------------------------------------------
(* Frames are bytes, and can be read back.                                 *)

LEMMA MotionBytes ==
    ASSUME NEW e \in Motions
    PROVE  /\ pack_motion(e) \in Seq(Bytes) /\ Len(pack_motion(e)) = 7
           /\ unpack_motion(pack_motion(e)) = AsReceived(e)
<1>0. e = Motion(e.buttons, e.dx, e.dy, e.scroll_v, e.scroll_h)
  BY FramingAssumption
<1>1. /\ e.buttons \in Int /\ e.dx \in Int /\ e.dy \in Int
      /\ e.scroll_v \in Int /\ e.scroll_h \in Int
  BY FramingAssumption, Sizes DEF Bytes
<1>2. Len(pack_motion(e)) = 7 /\ unpack_motion(pack_motion(e)) = AsReceived(e)
  <2> DEFINE b == e.buttons  x == e.dx  y == e.dy  v == e.scroll_v  h == e.scroll_h
  <2>1. /\ e = Motion(b, x, y, v, h)
        /\ b \in Int /\ x \in Int /\ y \in Int /\ v \in Int /\ h \in Int
    BY <1>0, <1>1
  <2> HIDE DEF b, x, y, v, h
  <2>2. Len(pack_motion(e)) = 7
    BY <2>1, MotionArrives
  <2>3. unpack_motion(pack_motion(e)) = AsReceived(e)
    BY <2>1, MotionArrives
  <2> QED
    BY <2>2, <2>3
<1>3. \A v \in Int : low_byte(v) \in Bytes /\ clamp(v) \in Int
  BY Sizes DEF low_byte, Bytes, clamp
<1>4. /\ pack_short(clamp(e.dx))[1] \in Bytes /\ pack_short(clamp(e.dx))[2] \in Bytes
      /\ pack_short(clamp(e.dy))[1] \in Bytes /\ pack_short(clamp(e.dy))[2] \in Bytes
  BY <1>1, <1>3, PackedBytes
<1>5. pack_motion(e) \in Seq(Bytes)
  BY <1>1, <1>3, <1>4 DEF pack_motion
<1> QED
  BY <1>2, <1>5

\* The cipher's overhead is in front of the plaintext.
LEMMA EncryptedBytes ==
    ASSUME NEW q \in Seq(Bytes)
    PROVE  /\ encrypt(q) \in Seq(Bytes) /\ Len(encrypt(q)) = Overhead + Len(q)
           /\ decrypt(encrypt(q)) = q
<1> DEFINE pad == [i \in 1 .. Overhead |-> 0]
<1>1. 0 \in Bytes /\ Overhead \in Nat
  BY Sizes, FramingAssumption DEF Bytes
<1>2. pad \in Seq(Bytes) /\ Len(pad) = Overhead
  BY <1>1
<1> HIDE DEF pad
<1>3. /\ pad \o q \in Seq(Bytes) /\ Len(pad \o q) = Overhead + Len(q)
      /\ SubSeq(pad \o q, Overhead + 1, Len(pad \o q)) = q
  BY <1>1, <1>2
<1> QED
  BY <1>3 DEF encrypt, decrypt, pad

LEMMA PlainBytes ==
    ASSUME NEW f \in Frames
    PROVE  /\ Plain(f) \in Seq(Bytes)
           /\ encrypt(Plain(f)) \in Seq(Bytes)
           /\ HEADER_SIZE + Len(encrypt(Plain(f))) < Byte * Byte
           /\ decrypt(encrypt(Plain(f))) = Plain(f)
<1>1. /\ Plain(f) \in Seq(Bytes)
      /\ HEADER_SIZE + Overhead + Len(Plain(f)) < Byte * Byte
  <2>1. CASE f.ptype = TYPE_KEYBOARD
    BY <2>1, FramingAssumption, FieldsAssumption DEF Frames, Plain
  <2>2. CASE f.ptype # TYPE_KEYBOARD
    BY <2>2, MotionBytes, FieldsAssumption DEF Frames, Plain
  <2> QED
    BY <2>1, <2>2
<1>2. /\ encrypt(Plain(f)) \in Seq(Bytes)
      /\ Len(encrypt(Plain(f))) = Overhead + Len(Plain(f))
      /\ decrypt(encrypt(Plain(f))) = Plain(f)
  BY <1>1, EncryptedBytes
<1>3. HEADER_SIZE + Len(encrypt(Plain(f))) < Byte * Byte
  BY <1>1, <1>2, FramingAssumption DEF HEADER_SIZE
<1> QED
  BY <1>1, <1>2, <1>3

\* The lowest byte of a number, and the rest.
LEMMA DivisionByByte ==
    ASSUME NEW m \in Nat
    PROVE  /\ m % Byte \in 0 .. Byte - 1 /\ m \div Byte \in Nat
           /\ m = Byte * (m \div Byte) + (m % Byte)
<1> DEFINE x == m \div Byte
           y == m % Byte
<1>1. y \in 0 .. Byte - 1 /\ x \in Int /\ m = Byte * x + y /\ Byte \in Nat \ {0}
  BY Sizes, RemainderRange, QuotientRemainder
<1> HIDE DEF x, y
<1>2. x >= 0
  <2> SUFFICES ASSUME x < 0 PROVE FALSE
    BY <1>1
  <2>1. Byte * (-x) >= Byte
    BY <1>1, MultipleBound, -x \in Nat \ {0}
  <2> QED
    BY <1>1, <2>1
<1> QED
  BY <1>1, <1>2 DEF x, y

\* A number of four bytes.
LEMMA FourBytes ==
    ASSUME NEW n \in Nat, n < Byte * Byte * Byte * Byte
    PROVE  LET b == n \div Byte
               c == b \div Byte
               d == c \div Byte
           IN  /\ n % Byte \in Bytes /\ b % Byte \in Bytes
               /\ c % Byte \in Bytes /\ d % Byte \in Bytes
               /\ (n % Byte) + Byte * ((b % Byte) + Byte * ((c % Byte) + Byte * (d % Byte))) = n
<1> DEFINE b == n \div Byte
           c == b \div Byte
           d == c \div Byte
<1>0. Byte \in Nat \ {0} /\ Byte >= 2
  BY Sizes
<1>1. b \in Nat /\ c \in Nat /\ d \in Nat
  BY DivisionByByte
<1>2. /\ n % Byte \in 0 .. Byte - 1 /\ n = Byte * b + (n % Byte)
      /\ b % Byte \in 0 .. Byte - 1 /\ b = Byte * c + (b % Byte)
      /\ c % Byte \in 0 .. Byte - 1 /\ c = Byte * d + (c % Byte)
  BY <1>1, DivisionByByte
<1> HIDE DEF b, c, d
<1>3. d < Byte
  <2> SUFFICES ASSUME d >= Byte PROVE FALSE
    BY <1>0, <1>1
  <2>1. Byte * d >= Byte * Byte
    BY <1>0, <1>1
  <2>2. c >= Byte * Byte
    BY <1>0, <1>1, <1>2, <2>1
  <2>3. Byte * c >= Byte * (Byte * Byte)
    BY <1>0, <1>1, <2>2, Byte * Byte \in Nat
  <2>4. b >= Byte * Byte * Byte
    BY <1>0, <1>1, <1>2, <2>3
  <2>5. Byte * b >= Byte * (Byte * Byte * Byte)
    BY <1>0, <1>1, <2>4, Byte * Byte * Byte \in Nat
  <2> QED
    BY <1>0, <1>1, <1>2, <2>5
<1>4. d % Byte = d
  BY <1>0, <1>1, <1>3
<1>5. (n % Byte) + Byte * ((b % Byte) + Byte * ((c % Byte) + Byte * (d % Byte))) = n
  BY <1>0, <1>1, <1>2, <1>4
<1>6. /\ n % Byte \in Bytes /\ b % Byte \in Bytes
      /\ c % Byte \in Bytes /\ d % Byte \in Bytes
  BY <1>0, <1>1, <1>2, <1>3, <1>4 DEF Bytes
<1> QED
  BY <1>5, <1>6, Zenon DEF b, c, d

LEMMA PacketBytes ==
    ASSUME NEW f \in Frames
    PROVE  LET p == Packet(f)
               x == encrypt(Plain(f))
           IN  /\ p \in Seq(Bytes) /\ Len(p) = HEADER_SIZE + Len(x) /\ Len(p) < Byte * Byte
               /\ p[1] = f.ptype
               /\ p[2] + Byte * (p[3] + Byte * (p[4] + Byte * p[5])) = f.seqno
               /\ SubSeq(p, HEADER_SIZE + 1, Len(p)) = x
<1> DEFINE n == f.seqno
           b == n \div Byte
           c == b \div Byte
           d == c \div Byte
           x == encrypt(Plain(f))
           h == <<f.ptype, n % Byte, b % Byte, c % Byte, d % Byte>>
<1>1. x \in Seq(Bytes) /\ HEADER_SIZE + Len(x) < Byte * Byte
  BY PlainBytes
<1>2. f.ptype \in Bytes
  BY Sizes, FieldsAssumption DEF Frames, Written, Bytes, TYPE_KEYBOARD, TYPE_POINTER
<1>3. n \in Nat /\ n < Byte * Byte * Byte * Byte
  <2>1. Byte * Byte * Byte * Byte \in Nat
    BY Sizes
  <2> QED
    BY <2>1, FieldsAssumption, FramingAssumption DEF Frames, Written
<1>4. /\ n % Byte \in Bytes /\ b % Byte \in Bytes /\ c % Byte \in Bytes /\ d % Byte \in Bytes
      /\ (n % Byte) + Byte * ((b % Byte) + Byte * ((c % Byte) + Byte * (d % Byte))) = n
  BY <1>3, FourBytes
<1>5. Packet(f) = h \o x
  BY DEF Packet, build_packet
<1> HIDE DEF b, c, d, x, n
<1>6. h \in Seq(Bytes) /\ Len(h) = HEADER_SIZE
  BY <1>2, <1>4 DEF HEADER_SIZE
<1>7. /\ h[1] = f.ptype
      /\ h[2] + Byte * (h[3] + Byte * (h[4] + Byte * h[5])) = n
  BY <1>4
<1> HIDE DEF h
<1> DEFINE p == h \o x
<1>8. p \in Seq(Bytes) /\ Len(p) = Len(h) + Len(x) /\ \A i \in 1 .. Len(h) : p[i] = h[i]
  BY <1>1, <1>6
<1>9. SubSeq(p, Len(h) + 1, Len(p)) = x
  BY <1>1, <1>6
<1> HIDE DEF p
<1>10. Len(p) < Byte * Byte /\ Len(p) = HEADER_SIZE + Len(x)
  BY <1>1, <1>6, <1>8
<1>11. p[1] = f.ptype /\ p[2] + Byte * (p[3] + Byte * (p[4] + Byte * p[5])) = f.seqno
  <2>1. p[1] = h[1] /\ p[2] = h[2] /\ p[3] = h[3] /\ p[4] = h[4] /\ p[5] = h[5]
    BY <1>6, <1>8 DEF HEADER_SIZE
  <2> QED
    BY <1>7, <2>1 DEF n
<1>12. Packet(f) = p
  BY <1>5 DEF p
<1> QED
  BY <1>6, <1>8, <1>9, <1>10, <1>11, <1>12, Zenon DEF x

\* Its length is in front of it.
LEMMA FrameBytes ==
    ASSUME NEW f \in Frames
    PROVE  LET p == Packet(f)
               F == frame_packet(p)
           IN  /\ F \in Seq(Bytes) /\ Len(F) = LENGTH_SIZE + Len(p)
               /\ F[1] + Byte * F[2] = Len(p)
               /\ SubSeq(F, LENGTH_SIZE + 1, Len(F)) = p
<1> DEFINE p == Packet(f)
           n == Len(p)
<1>1. p \in Seq(Bytes) /\ n \in Nat /\ n < Byte * Byte
  BY PacketBytes
<1> DEFINE q == n \div Byte
           r == n % Byte
<1>3. frame_packet(p) = <<r, q>> \o p
  BY DEF frame_packet
<1> HIDE DEF p, n
<1>2. r \in 0 .. Byte - 1 /\ q \in Nat /\ n = Byte * q + r
  BY <1>1, DivisionByByte
<1> HIDE DEF q, r
<1>5. q < Byte
  <2> SUFFICES ASSUME q >= Byte PROVE FALSE
    BY <1>2, Sizes
  <2>1. Byte * q >= Byte * Byte
    BY <1>2, Sizes
  <2> QED
    BY <1>1, <1>2, <2>1, Sizes
<1>6. <<r, q>> \in Seq(Bytes) /\ Len(<<r, q>>) = 2 /\ r + Byte * q = n
  BY <1>2, <1>5, Sizes DEF Bytes
<1> DEFINE F == <<r, q>> \o p
<1>7. /\ F \in Seq(Bytes) /\ Len(F) = 2 + n
      /\ F[1] = r /\ F[2] = q /\ SubSeq(F, 3, Len(F)) = p
  BY <1>1, <1>6 DEF n
<1> HIDE DEF F
<1> QED
  BY <1>3, <1>6, <1>7 DEF LENGTH_SIZE, F, p, n
-----------------------------------------------------------------------------
(* The Mac's writes keep the invariant.                                    *)

LEMMA HeaderBytes ==
    ASSUME session \in {0, 1}
    PROVE  Header \in Seq(Bytes) /\ Len(Header) = STREAM_HEADER_LEN
<1>1. session \in Bytes /\ STREAM_HEADER_LEN \in Nat
  BY Sizes, FramingAssumption DEF Bytes
<1> QED
  BY <1>1 DEF Header

\* A frame that is written is one of Frames.
LEMMA FrameWritten ==
    ASSUME SentInv, NEW ptype, NEW plaintext, NEW source,
           \/ ptype = TYPE_KEYBOARD /\ source \in Reports /\ plaintext = source
           \/ ptype = TYPE_POINTER /\ source \in Motions /\ plaintext = pack_motion(source),
           WriteFrame(ptype, plaintext, source)
    PROVE  \E f \in Frames :
              /\ f.seqno = Len(sent) /\ f.end = Len(stream')
              /\ stream' = stream \o frame_packet(Packet(f))
              /\ sent' = Append(sent, f) /\ Len(sent) < MaxFrames
              /\ UNCHANGED <<session, headerAt, taken, readerVars, delivered>>
<1> DEFINE framed == frame_packet(build_packet(ptype, Len(sent), encrypt(plaintext)))
           f == [ptype |-> ptype, seqno |-> Len(sent), source |-> source,
                 end |-> Len(stream \o framed)]
<1>1. /\ Len(sent) < MaxFrames /\ stream' = stream \o framed /\ sent' = Append(sent, f)
      /\ UNCHANGED <<session, headerAt, taken, readerVars, delivered>>
  BY DEF WriteFrame
<1>2. Plain(f) = plaintext
  BY DEF Plain, TYPE_KEYBOARD, TYPE_POINTER
<1>3. framed = frame_packet(Packet(f))
  BY <1>2 DEF Packet
<1>4. Len(stream \o framed) \in Nat => f \in Frames
  BY <1>1, FramingAssumption DEF Frames, Written, SentInv, TYPE_KEYBOARD, TYPE_POINTER
<1>5. framed \in Seq(Bytes)
  <2> DEFINE g == [ptype |-> ptype, seqno |-> Len(sent), source |-> source, end |-> 0]
  <2>1. g \in Frames
    BY <1>1, FramingAssumption DEF Frames, Written, SentInv, TYPE_KEYBOARD, TYPE_POINTER
  <2>2. Packet(g) = Packet(f)
    BY DEF Packet, Plain
  <2> QED
    BY <1>3, <2>1, <2>2, FrameBytes
<1>6. Len(stream \o framed) \in Nat
  BY <1>5 DEF SentInv
<1> HIDE DEF framed
<1>7. f.seqno = Len(sent) /\ f.end = Len(stream')
  BY <1>1
<1> QED
  BY <1>1, <1>3, <1>4, <1>6, <1>7

\* What a write leaves to be read: a longer stream.
LEMMA PrefixOfStream ==
    ASSUME stream \in Seq(Bytes), NEW w \in Seq(Bytes), stream' = stream \o w
    PROVE  /\ stream' \in Seq(Bytes) /\ Len(stream') = Len(stream) + Len(w)
           /\ \A m, n \in Nat : n <= Len(stream) =>
                 SubSeq(stream', m + 1, n) = SubSeq(stream, m + 1, n)
           /\ SubSeq(stream', Len(stream) + 1, Len(stream')) = w
OBVIOUS

\* What was not written yet was not read: the receiver's side of a write.
LEMMA WriteKeepsReader ==
    ASSUME FramingInv, SentInv', NEW w \in Seq(Bytes), stream' = stream \o w,
           UNCHANGED <<session, taken, readerVars, delivered>>,
           Aligned' => Aligned \/ stream = <<>>,
           Len(sent') >= Len(sent), \A i \in DOMAIN sent : sent'[i] = sent[i],
           \A i \in DOMAIN sent' : i > Len(sent) => sent'[i].end > Len(stream)
    PROVE  ReaderType' /\ CollectInv' /\ BufferInv'
<1>0. /\ stream \in Seq(Bytes) /\ sent \in Seq(Frames) /\ sent' \in Seq(Frames)
      /\ taken \in Nat /\ taken <= Len(stream) /\ delivered \in Seq(Delivery)
      /\ STREAM_HEADER_LEN \in Nat
      /\ \A i \in DOMAIN sent : sent[i].end \in 1 .. Len(stream)
  BY FramingAssumption DEF FramingInv, SentInv, ReaderType
<1>1. /\ Len(stream') = Len(stream) + Len(w)
      /\ \A m, n \in Nat : n <= Len(stream) =>
            SubSeq(stream', m + 1, n) = SubSeq(stream, m + 1, n)
  BY <1>0, PrefixOfStream
<1>2. /\ awaitingHeader' = awaitingHeader /\ headerBuf' = headerBuf /\ header' = header
      /\ buffer' = buffer /\ feeding' = feeding /\ taken' = taken /\ session' = session
      /\ delivered' = delivered
  BY DEF readerVars
<1>3. ReaderType'
  BY <1>0, <1>1, <1>2 DEF FramingInv, ReaderType
<1>4. CASE Aligned
  <2>1. CollectInv'
    <3>1. SubSeq(stream', 1, taken) = SubSeq(stream, 1, taken)
      <4>1. SubSeq(stream', 0 + 1, taken) = SubSeq(stream, 0 + 1, taken)
        BY <1>0, <1>1, 0 \in Nat
      <4> QED
        BY <4>1, 0 + 1 = 1, Zenon
    <3>2. awaitingHeader => /\ taken < STREAM_HEADER_LEN /\ ~feeding
                            /\ headerBuf = SubSeq(stream, 1, taken)
                            /\ buffer = <<>> /\ delivered = <<>>
      BY <1>4 DEF FramingInv, CollectInv
    <3> QED
      BY <1>2, <3>1, <3>2, Zenon DEF CollectInv
  <2>2. BufferInv'
    <3> SUFFICES ASSUME ~awaitingHeader
                 PROVE  BufferInv'
      BY <1>2 DEF BufferInv
    <3>0. /\ STREAM_HEADER_LEN <= taken /\ header = Header /\ Len(delivered) <= Len(sent)
          /\ \A i \in 1 .. Len(delivered) : delivered[i] = Unpacked(sent[i])
          /\ EndOf(Len(delivered)) <= taken
          /\ buffer = SubSeq(stream, EndOf(Len(delivered)) + 1, taken)
          /\ ~feeding => \/ Len(delivered) = Len(sent)
                         \/ taken < sent[Len(delivered) + 1].end
      BY <1>4 DEF FramingInv, BufferInv
    <3>1. PICK n \in Nat : n = Len(delivered)
      BY <1>0
    <3>2. /\ n <= Len(sent)
          /\ \A i \in 1 .. n : delivered[i] = Unpacked(sent[i])
          /\ EndOf(n) <= taken /\ buffer = SubSeq(stream, EndOf(n) + 1, taken)
          /\ ~feeding => n = Len(sent) \/ taken < sent[n + 1].end
      BY <3>0, <3>1
    <3>3. n = 0 \/ (n \in DOMAIN sent /\ sent'[n] = sent[n])
      BY <1>0, <3>2
    <3>4. EndOf(n)' = EndOf(n) /\ EndOf(n) \in Nat
      BY <1>0, <3>3 DEF EndOf
    <3>5. SubSeq(stream', EndOf(n) + 1, taken) = SubSeq(stream, EndOf(n) + 1, taken)
      BY <1>0, <1>1, <3>4
    <3>6. Header' = Header
      BY <1>2 DEF Header
    <3>7. ASSUME NEW i \in 1 .. n PROVE delivered[i] = Unpacked(sent'[i])
      <4>1. i \in DOMAIN sent
        BY <1>0, <3>2
      <4> QED
        BY <3>2, <4>1, Zenon
    <3>8. ~feeding => n = Len(sent') \/ taken < sent'[n + 1].end
      <4>1. CASE n = Len(sent) /\ n # Len(sent')
        <5>1. n + 1 \in DOMAIN sent' /\ n + 1 > Len(sent)
          BY <1>0, <4>1
        <5>2. sent'[n + 1].end > Len(stream) /\ sent'[n + 1].end \in Nat
          BY <5>1 DEF SentInv
        <5> QED
          BY <1>0, <5>2
      <4>2. CASE n < Len(sent)
        <5>1. n + 1 \in DOMAIN sent /\ n # Len(sent)
          BY <1>0, <4>2
        <5> QED
          BY <3>2, <5>1
      <4> QED
        BY <1>0, <3>2, <4>1, <4>2
    <3>9. n <= Len(sent')
      BY <1>0, <3>2
    <3>10. /\ Len(delivered)' = n
           /\ \A i \in 1 .. n : delivered'[i] = Unpacked(sent[i])'
           /\ EndOf(Len(delivered))' = EndOf(n)
      <4>1. Len(delivered)' = n
        BY <1>2, <3>1
      <4>2. \A i \in 1 .. n : delivered'[i] = Unpacked(sent[i])'
        BY <1>2, <3>7
      <4>3. EndOf(Len(delivered))' = EndOf(n)'
        BY <4>1 DEF EndOf
      <4> QED
        BY <3>4, <4>1, <4>2, <4>3
    <3>11. buffer' = SubSeq(stream', EndOf(n) + 1, taken')
      BY <1>2, <3>2, <3>5
    <3> QED
      BY <1>2, <3>0, <3>2, <3>6, <3>8, <3>9, <3>10, <3>11 DEF BufferInv
  <2> QED
    BY <1>3, <2>1, <2>2
<1>5. CASE ~Aligned /\ Aligned'
  <2>1. taken = 0
    BY <1>0, <1>5
  <2>2. /\ awaitingHeader /\ ~feeding
        /\ headerBuf = <<>> /\ buffer = <<>> /\ delivered = <<>>
    BY <2>1 DEF FramingInv, ReaderType
  <2>3. SubSeq(stream', 1, 0) = <<>>
    BY <1>0
  <2>4. 0 < STREAM_HEADER_LEN
    BY FramingAssumption
  <2>5. CollectInv'
    BY <1>2, <2>1, <2>2, <2>3, <2>4 DEF CollectInv
  <2> QED
    BY <1>2, <1>3, <2>2, <2>5 DEF BufferInv
<1>6. CASE ~Aligned'
  BY <1>3, <1>6 DEF CollectInv, BufferInv
<1> QED
  BY <1>4, <1>5, <1>6

LEMMA HeaderKeepsFraming ==
    ASSUME FramingInv, WriteHeader
    PROVE  FramingInv'
<1>1. /\ headerAt = NotWritten /\ headerAt' = Len(stream) /\ stream' = stream \o Header
      /\ UNCHANGED <<session, sent, taken, readerVars, delivered>>
  BY DEF WriteHeader
<1>2. /\ stream \in Seq(Bytes) /\ session \in {0, 1} /\ sent \in Seq(Frames)
      /\ Len(sent) <= MaxFrames
      /\ \A i \in DOMAIN sent : sent[i].seqno = i - 1 /\ sent[i].end \in 1 .. Len(stream)
      /\ \A i, j \in DOMAIN sent : i < j => sent[i].end < sent[j].end
  BY DEF FramingInv, SentInv
<1>3. Header \in Seq(Bytes) /\ Len(Header) = STREAM_HEADER_LEN /\ STREAM_HEADER_LEN \in Nat
  BY <1>2, HeaderBytes, FramingAssumption
<1>4. /\ stream' \in Seq(Bytes) /\ Len(stream') = Len(stream) + STREAM_HEADER_LEN
      /\ Len(stream) \in Nat
  <2>1. PICK w \in Seq(Bytes) : w = Header
    BY <1>3
  <2>2. Len(w) = STREAM_HEADER_LEN /\ stream' = stream \o w
    BY <1>1, <1>3, <2>1
  <2>3. stream' \in Seq(Bytes) /\ Len(stream') = Len(stream) + Len(w)
    BY <1>2, <2>2, PrefixOfStream
  <2> QED
    BY <1>2, <2>2, <2>3
<1>5. SentInv'
  BY <1>1, <1>2, <1>3, <1>4 DEF SentInv
<1>6. Aligned' => stream = <<>> /\ sent = <<>>
  <2> SUFFICES ASSUME Aligned'
               PROVE  stream = <<>> /\ sent = <<>>
    OBVIOUS
  <2>1. Len(stream) = 0
    BY <1>1 DEF Aligned
  <2>2. stream = <<>>
    BY <1>2, <2>1
  <2>3. Len(sent) = 0
    <3> SUFFICES ASSUME Len(sent) # 0 PROVE FALSE
      OBVIOUS
    <3>1. 1 \in DOMAIN sent
      BY <1>2
    <3> QED
      BY <1>2, <2>1, <3>1
  <2> QED
    BY <1>2, <2>2, <2>3
<1>7. LayoutInv'
  <2> SUFFICES ASSUME Aligned'
               PROVE  LayoutInv'
    BY DEF LayoutInv
  <2>1. stream' = Header /\ Header' = Header /\ sent' = <<>>
    <3>1. Header' = Header
      BY <1>1 DEF Header
    <3>2. <<>> \o Header = Header
      BY <1>3
    <3> QED
      BY <1>1, <1>6, <3>1, <3>2
  <2>2. SubSeq(Header, 1, STREAM_HEADER_LEN) = Header
    BY <1>3
  <2>3. Len(sent') = 0 /\ DOMAIN sent' = {}
    BY <2>1
  <2>4. EndOf(Len(sent))' = STREAM_HEADER_LEN
    BY <2>3 DEF EndOf
  <2> QED
    BY <1>3, <2>1, <2>2, <2>3, <2>4 DEF LayoutInv
<1>8. ReaderType' /\ CollectInv' /\ BufferInv'
  <2>1. Aligned' => Aligned \/ stream = <<>>
    BY <1>6
  <2>2. Len(sent') >= Len(sent) /\ \A i \in DOMAIN sent : sent'[i] = sent[i]
    BY <1>1, <1>2
  <2>3. \A i \in DOMAIN sent' : i > Len(sent) => sent'[i].end > Len(stream)
    BY <1>1, <1>2
  <2> QED
    BY <1>1, <1>3, <1>5, <2>1, <2>2, <2>3, WriteKeepsReader
<1> QED
  BY <1>5, <1>7, <1>8 DEF FramingInv

LEMMA FrameKeepsFraming ==
    ASSUME FramingInv, NEW ptype, NEW plaintext, NEW source,
           \/ ptype = TYPE_KEYBOARD /\ source \in Reports /\ plaintext = source
           \/ ptype = TYPE_POINTER /\ source \in Motions /\ plaintext = pack_motion(source),
           WriteFrame(ptype, plaintext, source)
    PROVE  FramingInv'
<1>1. PICK f \in Frames :
              /\ f.seqno = Len(sent) /\ f.end = Len(stream')
              /\ stream' = stream \o frame_packet(Packet(f))
              /\ sent' = Append(sent, f) /\ Len(sent) < MaxFrames
              /\ UNCHANGED <<session, headerAt, taken, readerVars, delivered>>
  BY FrameWritten DEF FramingInv
<1>2. /\ stream \in Seq(Bytes) /\ session \in {0, 1} /\ sent \in Seq(Frames)
      /\ \A i \in DOMAIN sent : sent[i].seqno = i - 1 /\ sent[i].end \in 1 .. Len(stream)
      /\ \A i, j \in DOMAIN sent : i < j => sent[i].end < sent[j].end
      /\ headerAt \in Nat \cup {NotWritten}
      /\ STREAM_HEADER_LEN \in Nat /\ MaxFrames \in Nat
  BY FramingAssumption DEF FramingInv, SentInv
<1>3. PICK w \in Seq(Bytes) : w = frame_packet(Packet(f)) /\ Len(w) >= 1
  <2>1. /\ frame_packet(Packet(f)) \in Seq(Bytes)
        /\ Len(frame_packet(Packet(f))) = LENGTH_SIZE + Len(Packet(f))
        /\ Packet(f) \in Seq(Bytes)
    BY FrameBytes, PacketBytes
  <2> QED
    BY <2>1 DEF LENGTH_SIZE
<1>4. /\ stream' \in Seq(Bytes) /\ Len(stream') = Len(stream) + Len(w)
      /\ \A m, n \in Nat : n <= Len(stream) =>
            SubSeq(stream', m + 1, n) = SubSeq(stream, m + 1, n)
      /\ SubSeq(stream', Len(stream) + 1, Len(stream')) = w
  BY <1>1, <1>2, <1>3, PrefixOfStream
<1>5. PICK k \in Nat : k = Len(sent) /\ DOMAIN sent = 1 .. k
  BY <1>2
<1>6. /\ sent' \in Seq(Frames) /\ Len(sent') = k + 1 /\ sent'[k + 1] = f
      /\ \A i \in 1 .. k : sent'[i] = sent[i]
  BY <1>1, <1>2, <1>5
<1>7. SentInv'
  <2>1. \A i \in DOMAIN sent' : sent'[i].seqno = i - 1 /\ sent'[i].end \in 1 .. Len(stream')
    <3> SUFFICES ASSUME NEW i \in 1 .. k + 1
                 PROVE  sent'[i].seqno = i - 1 /\ sent'[i].end \in 1 .. Len(stream')
      BY <1>6
    <3>1. CASE i = k + 1
      BY <1>1, <1>2, <1>3, <1>4, <1>5, <1>6, <3>1
    <3>2. CASE i \in 1 .. k
      <4>1. sent'[i] = sent[i] /\ sent[i].seqno = i - 1 /\ sent[i].end \in 1 .. Len(stream)
        BY <1>2, <1>5, <1>6, <3>2
      <4> QED
        BY <1>2, <1>3, <1>4, <4>1
    <3> QED
      BY <3>1, <3>2
  <2>2. \A i, j \in DOMAIN sent' : i < j => sent'[i].end < sent'[j].end
    <3> SUFFICES ASSUME NEW i \in 1 .. k + 1, NEW j \in 1 .. k + 1, i < j
                 PROVE  sent'[i].end < sent'[j].end
      BY <1>6
    <3>1. i \in 1 .. k /\ sent'[i] = sent[i] /\ sent[i].end \in 1 .. Len(stream)
      <4>1. i \in 1 .. k
        OBVIOUS
      <4> QED
        BY <1>2, <1>5, <1>6, <4>1
    <3>2. CASE j = k + 1
      BY <1>1, <1>2, <1>3, <1>4, <1>6, <3>1, <3>2
    <3>3. CASE j \in 1 .. k
      BY <1>2, <1>5, <1>6, <3>1, <3>3
    <3> QED
      BY <3>2, <3>3
  <2> QED
    BY <1>1, <1>2, <1>4, <1>5, <1>6, <2>1, <2>2 DEF SentInv
<1>8. \A i \in 0 .. k : EndOf(i)' = EndOf(i)
  BY <1>6 DEF EndOf
<1>9. LayoutInv'
  <2> SUFFICES ASSUME Aligned
               PROVE  LayoutInv'
    BY <1>1 DEF LayoutInv, Aligned
  <2>1. /\ Len(stream) = EndOf(k) /\ STREAM_HEADER_LEN <= Len(stream)
        /\ SubSeq(stream, 1, STREAM_HEADER_LEN) = Header
        /\ \A i \in 1 .. k :
              /\ EndOf(i - 1) + Len(frame_packet(Packet(sent[i]))) = sent[i].end
              /\ SubSeq(stream, EndOf(i - 1) + 1, sent[i].end)
                    = frame_packet(Packet(sent[i]))
    BY <1>2, <1>5 DEF FramingInv, LayoutInv
  <2>2. Len(stream)' = EndOf(Len(sent))'
    BY <1>1, <1>6 DEF EndOf
  <2>3. STREAM_HEADER_LEN <= Len(stream')
    BY <1>2, <1>3, <1>4, <2>1
  <2>4. SubSeq(stream', 1, STREAM_HEADER_LEN) = Header'
    <3>1. SubSeq(stream', 0 + 1, STREAM_HEADER_LEN) = SubSeq(stream, 0 + 1, STREAM_HEADER_LEN)
      BY <1>2, <1>4, <2>1, 0 \in Nat
    <3>2. SubSeq(stream', 1, STREAM_HEADER_LEN) = SubSeq(stream, 1, STREAM_HEADER_LEN)
      BY <3>1, 0 + 1 = 1, Zenon
    <3>3. Header' = Header
      BY <1>1 DEF Header
    <3> QED
      BY <2>1, <3>2, <3>3
  <2>5. ASSUME NEW i \in 1 .. k + 1
        PROVE  /\ EndOf(i - 1)' + Len(frame_packet(Packet(sent'[i]))) = sent'[i].end
               /\ SubSeq(stream', EndOf(i - 1)' + 1, sent'[i].end)
                     = frame_packet(Packet(sent'[i]))
    <3>1. CASE i = k + 1
      <4>1. EndOf(i - 1)' = Len(stream) /\ sent'[i] = f /\ f.end = Len(stream')
        <5>1. i - 1 = k /\ k \in 0 .. k
          BY <3>1
        <5> QED
          BY <1>1, <1>6, <1>8, <2>1, <3>1, <5>1
      <4> QED
        BY <1>3, <1>4, <4>1
    <3>2. CASE i \in 1 .. k
      <4>1. EndOf(i - 1)' = EndOf(i - 1) /\ sent'[i] = sent[i]
        <5>1. i - 1 \in 0 .. k
          BY <3>2
        <5> QED
          BY <1>6, <1>8, <3>2, <5>1
      <4>2. sent[i].end \in Nat /\ sent[i].end <= Len(stream) /\ EndOf(i - 1) \in Nat
        <5>1. \A j \in 1 .. k : sent[j].end \in Nat /\ sent[j].end <= Len(stream)
          BY <1>2, <1>5
        <5>2. i - 1 = 0 \/ i - 1 \in 1 .. k
          BY <3>2
        <5> QED
          BY <1>2, <3>2, <5>1, <5>2 DEF EndOf
      <4>3. SubSeq(stream', EndOf(i - 1) + 1, sent[i].end)
              = SubSeq(stream, EndOf(i - 1) + 1, sent[i].end)
        BY <1>4, <4>2
      <4> QED
        BY <2>1, <3>2, <4>1, <4>3
    <3> QED
      BY <3>1, <3>2
  <2>6. DOMAIN sent' = 1 .. k + 1
    BY <1>6
  <2> QED
    BY <2>2, <2>3, <2>4, <2>5, <2>6 DEF LayoutInv
<1>10. ReaderType' /\ CollectInv' /\ BufferInv'
  <2>1. Aligned' => Aligned \/ stream = <<>>
    BY <1>1 DEF Aligned
  <2>2. Len(sent') >= Len(sent) /\ \A i \in DOMAIN sent : sent'[i] = sent[i]
    BY <1>2, <1>5, <1>6
  <2>3. \A i \in DOMAIN sent' : i > Len(sent) => sent'[i].end > Len(stream)
    BY <1>1, <1>2, <1>3, <1>4, <1>5, <1>6
  <2> QED
    BY <1>1, <1>3, <1>7, <2>1, <2>2, <2>3, WriteKeepsReader
<1> QED
  BY <1>7, <1>9, <1>10 DEF FramingInv

LEMMA WriteKeepsFraming ==
    ASSUME FramingInv, Write
    PROVE  FramingInv'
<1>1. CASE WriteHeader
  BY <1>1, HeaderKeepsFraming
<1>2. ASSUME NEW r \in Reports, WriteFrame(TYPE_KEYBOARD, r, r)
      PROVE  FramingInv'
  BY <1>2, FrameKeepsFraming
<1>3. ASSUME NEW e \in Motions, WriteFrame(TYPE_POINTER, pack_motion(e), e)
      PROVE  FramingInv'
  BY <1>3, FrameKeepsFraming
<1> QED
  BY <1>1, <1>2, <1>3 DEF Write

-----------------------------------------------------------------------------
(* Reading, and what feed makes of it, keep the invariant.                 *)

\* Parts of the stream, one after the other and one of another.
LEMMA Parts ==
    ASSUME NEW s \in Seq(Bytes), NEW m \in Nat, NEW k \in Nat, NEW n \in Nat,
           m <= k, k <= n, n <= Len(s)
    PROVE  /\ SubSeq(s, m + 1, k) \in Seq(Bytes) /\ Len(SubSeq(s, m + 1, k)) = k - m
           /\ SubSeq(s, m + 1, k) \o SubSeq(s, k + 1, n) = SubSeq(s, m + 1, n)
           /\ SubSeq(SubSeq(s, m + 1, n), 1, k - m) = SubSeq(s, m + 1, k)
           /\ SubSeq(SubSeq(s, m + 1, n), k - m + 1, n - m) = SubSeq(s, k + 1, n)
<1>1. SubSeq(s, m + 1, k) \in Seq(Bytes) /\ Len(SubSeq(s, m + 1, k)) = k - m
  OBVIOUS
<1>2. SubSeq(s, m + 1, k) \o SubSeq(s, k + 1, n) = SubSeq(s, m + 1, n)
  OBVIOUS
<1>3. SubSeq(SubSeq(s, m + 1, n), 1, k - m) = SubSeq(s, m + 1, k)
  OBVIOUS
<1>4. SubSeq(SubSeq(s, m + 1, n), k - m + 1, n - m) = SubSeq(s, k + 1, n)
  OBVIOUS
<1> QED
  BY <1>1, <1>2, <1>3, <1>4

\* The Mac's side is not the reader's.
LEMMA MacSideKept ==
    ASSUME FramingInv, UNCHANGED <<session, macSide>>
    PROVE  SentInv' /\ LayoutInv' /\ Header' = Header /\ (Aligned' <=> Aligned)
                /\ \A i \in Nat : EndOf(i)' = EndOf(i)
<1>1. /\ session' = session /\ stream' = stream /\ headerAt' = headerAt /\ sent' = sent
  BY DEF macSide
<1>2. Header' = Header /\ \A i : EndOf(i)' = EndOf(i)
  BY <1>1 DEF Header, EndOf
<1>3. SentInv'
  BY <1>1 DEF FramingInv, SentInv
<1>4. Aligned' <=> Aligned
  BY <1>1 DEF Aligned
<1>5. LayoutInv'
  BY <1>1, <1>2, <1>4 DEF FramingInv, LayoutInv
<1> QED
  BY <1>2, <1>3, <1>4, <1>5

LEMMA ReadKeepsFraming ==
    ASSUME FramingInv, NEW n \in Nat \ {0}, Read(n)
    PROVE  FramingInv'
<1>1. /\ ~feeding /\ taken + n <= Len(stream) /\ taken' = taken + n
      /\ UNCHANGED <<session, macSide, delivered>>
  BY DEF Read
<1>2. stream' = stream /\ sent' = sent /\ session' = session /\ delivered' = delivered
  BY <1>1 DEF macSide
<1>3. /\ SentInv' /\ LayoutInv' /\ Header' = Header /\ (Aligned' <=> Aligned)
      /\ \A i \in Nat : EndOf(i)' = EndOf(i)
  BY <1>1, MacSideKept
<1>4. /\ stream \in Seq(Bytes) /\ taken \in Nat /\ taken <= Len(stream)
      /\ headerBuf \in Seq(Bytes) /\ header \in Seq(Bytes) /\ buffer \in Seq(Bytes)
      /\ delivered \in Seq(Delivery) /\ awaitingHeader \in BOOLEAN /\ feeding \in BOOLEAN
      /\ STREAM_HEADER_LEN \in Nat \ {0}
  BY FramingAssumption DEF FramingInv, SentInv, ReaderType
<1>5. PICK m \in Nat : m = taken + n
  BY <1>4
<1> DEFINE H == STREAM_HEADER_LEN
           chunk == SubSeq(stream, taken + 1, m)
<1>6. chunk \in Seq(Bytes) /\ m <= Len(stream) /\ taken <= m /\ taken' = m /\ m # 0
  BY <1>1, <1>4, <1>5, Parts
\* While the header is awaited.
<1>7. CASE awaitingHeader
  <2> DEFINE hb == headerBuf \o chunk
             leftover == SubSeq(hb, H + 1, Len(hb))
  <2>1. hb \in Seq(Bytes) /\ Len(hb) \in Nat
    BY <1>4, <1>6
  <2>2. headerBuf' = hb
    BY <1>5, <1>7 DEF Read
  <2>3. Aligned => /\ taken < H /\ headerBuf = SubSeq(stream, 1, taken)
                   /\ buffer = <<>> /\ delivered = <<>>
    BY <1>7 DEF FramingInv, CollectInv
  <2>4. Aligned => hb = SubSeq(stream, 1, m) /\ Len(hb) = m
    <3> SUFFICES ASSUME Aligned
                 PROVE  hb = SubSeq(stream, 1, m) /\ Len(hb) = m
      OBVIOUS
    <3>1. /\ SubSeq(stream, 0 + 1, taken) \o chunk = SubSeq(stream, 0 + 1, m)
          /\ Len(SubSeq(stream, 0 + 1, m)) = m - 0
      BY <1>4, <1>6, 0 \in Nat, 0 <= taken, m <= m, Parts
    <3>2. /\ SubSeq(stream, 1, taken) \o chunk = SubSeq(stream, 1, m)
          /\ Len(SubSeq(stream, 1, m)) = m
      BY <3>1, 0 + 1 = 1, m - 0 = m, Zenon
    <3> QED
      BY <2>3, <3>2, Zenon
  <2>0. IF Len(headerBuf') >= H
        THEN TakeHeader(headerBuf')
        ELSE UNCHANGED <<awaitingHeader, header, buffer, feeding>>
    BY <1>7 DEF Read
  <2> HIDE DEF hb, chunk, leftover
  <2>5. CASE Len(hb) < H
    <3>1. /\ awaitingHeader' = awaitingHeader /\ header' = header
          /\ buffer' = buffer /\ feeding' = feeding
      <4>1. ~(Len(headerBuf') >= H)
        BY <1>4, <2>1, <2>2, <2>5
      <4> QED
        BY <2>0, <4>1
    <3>2. ReaderType'
      <4>1. taken' \in 0 .. Len(stream') /\ taken' # 0
        BY <1>2, <1>4, <1>6
      <4> QED
        BY <1>1, <1>2, <1>4, <2>1, <2>2, <3>1, <4>1 DEF ReaderType
    <3>3. CollectInv'
      BY <1>1, <1>2, <1>3, <1>6, <2>2, <2>3, <2>4, <2>5, <3>1 DEF CollectInv
    <3>4. BufferInv'
      BY <1>7, <3>1 DEF BufferInv
    <3> QED
      BY <1>3, <3>2, <3>3, <3>4 DEF FramingInv
  <2>6. CASE Len(hb) >= H
    <3>1. /\ header' = SubSeq(hb, 1, H) /\ awaitingHeader' = FALSE
          /\ IF leftover # <<>> THEN buffer' = buffer \o leftover /\ feeding' = TRUE
                                ELSE UNCHANGED <<buffer, feeding>>
      BY <2>0, <2>2, <2>6 DEF TakeHeader, Feed, leftover
    <3>2. SubSeq(hb, 1, H) \in Seq(Bytes) /\ leftover \in Seq(Bytes)
      BY <1>4, <2>1, <2>6 DEF leftover
    <3>3. /\ buffer' \in Seq(Bytes) /\ feeding' \in BOOLEAN
      <4>1. buffer \o leftover \in Seq(Bytes)
        BY <1>4, <3>2
      <4> QED
        BY <1>1, <1>4, <3>1, <4>1
    <3>4. ReaderType'
      <4>1. taken' \in 0 .. Len(stream') /\ taken' # 0
        BY <1>2, <1>4, <1>6
      <4>2. header' \in Seq(Bytes) /\ headerBuf' \in Seq(Bytes) /\ delivered' \in Seq(Delivery)
        BY <1>2, <1>4, <2>1, <2>2, <3>1, <3>2
      <4> QED
        BY <3>1, <3>3, <4>1, <4>2 DEF ReaderType
    <3>5. CollectInv'
      BY <3>1 DEF CollectInv
    <3>6. BufferInv'
      <4> SUFFICES ASSUME Aligned
                   PROVE  BufferInv'
        BY <1>3 DEF BufferInv
      <4>0. H - 0 = H /\ m - 0 = m
        BY <1>4
      <4>1. H <= m
        BY <1>4, <2>4, <2>6
      <4>2. header' = Header
        <5>1. SubSeq(SubSeq(stream, 0 + 1, m), 1, H - 0) = SubSeq(stream, 0 + 1, H)
          BY <1>4, <1>6, <4>1, 0 \in Nat, 0 <= H, Parts
        <5>2. SubSeq(SubSeq(stream, 1, m), 1, H) = SubSeq(stream, 1, H)
          BY <5>1, 0 + 1 = 1, <4>0, Zenon
        <5>3. SubSeq(stream, 1, H) = Header
          BY DEF FramingInv, LayoutInv
        <5> QED
          BY <2>4, <3>1, <5>2, <5>3, Zenon
      <4>3. leftover = SubSeq(stream, H + 1, m)
        <5>1. SubSeq(SubSeq(stream, 0 + 1, m), H - 0 + 1, m - 0) = SubSeq(stream, H + 1, m)
          BY <1>4, <1>6, <4>1, 0 \in Nat, 0 <= H, Parts
        <5>2. SubSeq(SubSeq(stream, 1, m), H + 1, m) = SubSeq(stream, H + 1, m)
          BY <5>1, 0 + 1 = 1, <4>0, Zenon
        <5> QED
          BY <2>4, <5>2, Zenon DEF leftover
      <4>4. buffer' = leftover
        <5>1. <<>> \o leftover = leftover
          BY <3>2
        <5> QED
          BY <2>3, <3>1, <5>1
      <4>5. Len(delivered') = 0 /\ delivered' = <<>>
        BY <1>2, <2>3
      <4>6. EndOf(0)' = H
        BY DEF EndOf
      <4>7. ~feeding' => Len(sent) = 0 \/ m < sent[1].end
        <5> SUFFICES ASSUME leftover = <<>>, Len(sent) # 0
                     PROVE  m < sent[1].end
          BY <3>1
        <5>1. m = H
          <6>1. Len(leftover) = m - H
            <7>1. /\ stream \in Seq(Bytes) /\ H \in Nat /\ m \in Nat
                  /\ H <= m /\ m <= m /\ m <= Len(stream)
              BY <1>4, <1>5, <1>6, <4>1
            <7>2. Len(SubSeq(stream, H + 1, m)) = m - H
              BY <7>1, Parts, Zenon
            <7> QED
              BY <4>3, <7>2
          <6>2. Len(leftover) = 0
            OBVIOUS
          <6> QED
            BY <1>4, <4>1, <6>1, <6>2
        <5>2. 1 \in DOMAIN sent /\ sent[1] \in Frames
          BY DEF FramingInv, SentInv
        <5>3. H + Len(frame_packet(Packet(sent[1]))) = sent[1].end
          <6>1. EndOf(1 - 1) + Len(frame_packet(Packet(sent[1]))) = sent[1].end
            BY <5>2 DEF FramingInv, LayoutInv
          <6> QED
            BY <6>1 DEF EndOf
        <5>4. Len(frame_packet(Packet(sent[1]))) >= 1 /\ Len(frame_packet(Packet(sent[1]))) \in Nat
          <6>1. /\ Len(frame_packet(Packet(sent[1]))) = 2 + Len(Packet(sent[1]))
                /\ Packet(sent[1]) \in Seq(Bytes)
            BY <5>2, FrameBytes, PacketBytes DEF LENGTH_SIZE
          <6> QED
            BY <6>1
        <5> QED
          BY <1>4, <5>1, <5>3, <5>4
      <4>8. /\ EndOf(Len(delivered))' = H /\ Len(delivered)' = 0
        BY <4>5, <4>6 DEF EndOf
      <4>9. Len(delivered') <= Len(sent')
        BY <1>2, <4>5 DEF FramingInv, SentInv
      <4>10. \A i \in 1 .. Len(delivered') : delivered'[i] = Unpacked(sent[i])'
        BY <4>5
      <4>11. ~feeding' => Len(delivered') = Len(sent') \/ taken' < sent'[Len(delivered') + 1].end
        BY <1>2, <1>6, <4>5, <4>7
      <4>12. buffer' = SubSeq(stream', H + 1, taken')
        BY <1>2, <1>6, <4>3, <4>4
      <4> QED
        BY <1>3, <1>6, <4>1, <4>2, <4>8, <4>9, <4>10, <4>11, <4>12 DEF BufferInv
    <3> QED
      BY <1>3, <3>4, <3>5, <3>6 DEF FramingInv
  <2> QED
    BY <1>4, <2>1, <2>5, <2>6
\* Behind it.
<1>8. CASE ~awaitingHeader
  <2>1. /\ buffer' = buffer \o chunk /\ feeding' = TRUE
        /\ UNCHANGED <<awaitingHeader, headerBuf, header>>
    BY <1>5, <1>8 DEF Read, Feed
  <2>2. ReaderType'
    BY <1>2, <1>4, <1>6, <2>1 DEF ReaderType
  <2>3. CollectInv'
    BY <1>8, <2>1 DEF CollectInv
  <2>4. BufferInv'
    <3> SUFFICES ASSUME Aligned
                 PROVE  BufferInv'
      BY <1>3 DEF BufferInv
    <3>1. /\ H <= taken /\ header = Header /\ Len(delivered) <= Len(sent)
          /\ \A i \in 1 .. Len(delivered) : delivered[i] = Unpacked(sent[i])
          /\ EndOf(Len(delivered)) <= taken
          /\ buffer = SubSeq(stream, EndOf(Len(delivered)) + 1, taken)
      BY <1>8 DEF FramingInv, BufferInv
    <3>2. PICK k \in Nat : k = Len(delivered)
      BY <1>4
    <3>3. EndOf(k) \in Nat /\ EndOf(k) <= taken /\ buffer = SubSeq(stream, EndOf(k) + 1, taken)
      <4>1. EndOf(k) \in Nat
        BY <1>4, <3>1, <3>2 DEF EndOf, FramingInv, SentInv
      <4> QED
        BY <3>1, <3>2, <4>1
    <3>4. buffer' = SubSeq(stream, EndOf(k) + 1, m)
      <4>1. PICK e \in Nat : e = EndOf(k)
        BY <3>3
      <4>2. /\ stream \in Seq(Bytes) /\ e \in Nat /\ taken \in Nat /\ m \in Nat
            /\ e <= taken /\ taken <= m /\ m <= Len(stream)
        BY <1>4, <1>5, <1>6, <3>3, <4>1
      <4>3. SubSeq(stream, e + 1, taken) \o SubSeq(stream, taken + 1, m) = SubSeq(stream, e + 1, m)
        BY <4>2
      <4> QED
        BY <2>1, <3>3, <4>1, <4>3
    <3>5. EndOf(Len(delivered))' = EndOf(k) /\ Len(delivered') = k
      <4>1. EndOf(Len(delivered))' = EndOf(k)'
        BY <1>2, <3>2 DEF EndOf
      <4> QED
        BY <1>2, <1>3, <3>2, <4>1
    <3>6. \A i \in 1 .. Len(delivered') : delivered'[i] = Unpacked(sent[i])'
      BY <1>2, <3>1
    <3>7. buffer' = SubSeq(stream', EndOf(k) + 1, taken')
      BY <1>2, <1>6, <3>4
    <3>8. H <= taken' /\ EndOf(k) <= taken' /\ k <= Len(sent')
      BY <1>2, <1>4, <1>6, <3>1, <3>2, <3>3
    <3> QED
      BY <1>3, <2>1, <3>1, <3>5, <3>6, <3>7, <3>8 DEF BufferInv
  <2> QED
    BY <1>3, <2>2, <2>3, <2>4 DEF FramingInv
<1> QED
  BY <1>4, <1>7, <1>8

LEMMA ByteSums ==
    /\ \A x, y \in Bytes : x + Byte * y \in Nat
    /\ \A x \in Bytes, y \in Int : x + Byte * y \in Int
<1>1. ASSUME NEW x \in Bytes, NEW y \in Int
      PROVE  x + Byte * y \in Int /\ (y >= 0 => x + Byte * y >= 0)
  BY Sizes DEF Bytes
<1>2. \A y \in Bytes : y \in Int /\ y >= 0
  BY Sizes DEF Bytes
<1> QED
  BY <1>1, <1>2

\* What is cut off the buffer, or returned of it, is bytes.
LEMMA FeedTypes ==
    ASSUME FramingInv, FeedPacket \/ FeedShort \/ FeedDone
    PROVE  ReaderType'
<1>1. /\ taken \in 0 .. Len(stream) /\ feeding /\ taken # 0
      /\ awaitingHeader \in BOOLEAN /\ headerBuf \in Seq(Bytes) /\ header \in Seq(Bytes)
      /\ buffer \in Seq(Bytes) /\ delivered \in Seq(Delivery) /\ Byte \in Nat
  BY Sizes DEF FramingInv, ReaderType, FeedPacket, FeedShort, FeedDone
<1>2. /\ stream' = stream /\ taken' = taken /\ awaitingHeader' = awaitingHeader
      /\ headerBuf' = headerBuf /\ header' = header
      /\ feeding' = feeding \/ feeding' = FALSE
  BY DEF FeedPacket, FeedShort, FeedDone, macSide
<1>3. CASE FeedDone
  BY <1>1, <1>2, <1>3 DEF FeedDone, ReaderType
<1>4. CASE FeedPacket \/ FeedShort
  <2>1. /\ Len(buffer) >= 2 /\ Len(buffer) >= Total /\ feeding' = feeding
        /\ buffer' = SubSeq(buffer, Total + 1, Len(buffer))
    BY <1>4 DEF FeedPacket, FeedShort, Whole, Cut, LENGTH_SIZE
  <2>2. buffer[1] \in Bytes /\ buffer[2] \in Bytes
    BY <1>1, <2>1
  <2>3. PktLen \in Nat
    BY <2>2, ByteSums, Zenon DEF PktLen
  <2>4. Total \in Nat /\ Total = 2 + PktLen
    BY <2>3 DEF Total, LENGTH_SIZE
  <2>5. buffer' \in Seq(Bytes)
    BY <1>1, <2>1, <2>4
  <2>6. delivered' \in Seq(Delivery)
    <3>1. CASE FeedShort
      BY <1>1, <3>1 DEF FeedShort
    <3>2. CASE FeedPacket
      <4> DEFINE p == SubSeq(buffer, LENGTH_SIZE + 1, Total)
                 d == [ptype |-> p[1],
                       seqno |-> p[2] + Byte * (p[3] + Byte * (p[4] + Byte * p[5])),
                       payload |-> SubSeq(p, HEADER_SIZE + 1, Len(p))]
      <4>1. delivered' = Append(delivered, d) /\ PktLen >= 5
        BY <3>2 DEF FeedPacket, HEADER_SIZE
      <4>2. p \in Seq(Bytes) /\ Len(p) = PktLen
        BY <1>1, <2>1, <2>3, <2>4 DEF LENGTH_SIZE
      <4> HIDE DEF p
      <4>3. /\ p[1] \in Bytes /\ p[2] \in Bytes /\ p[3] \in Bytes
            /\ p[4] \in Bytes /\ p[5] \in Bytes
        BY <2>3, <4>1, <4>2
      <4>4. p[1] \in Int /\ p[2] + Byte * (p[3] + Byte * (p[4] + Byte * p[5])) \in Int
        <5>1. \A x \in Bytes : x \in Int
          BY Sizes DEF Bytes
        <5>2. p[4] + Byte * p[5] \in Int
          BY <4>3, <5>1, ByteSums, Zenon
        <5>3. p[3] + Byte * (p[4] + Byte * p[5]) \in Int
          BY <4>3, <5>2, ByteSums, Zenon
        <5> QED
          BY <4>3, <5>1, <5>3, ByteSums, Zenon
      <4>5. SubSeq(p, HEADER_SIZE + 1, Len(p)) \in Seq(Bytes)
        BY <4>2 DEF HEADER_SIZE
      <4>6. d \in Delivery
        BY <4>4, <4>5 DEF Delivery
      <4> HIDE DEF d
      <4> QED
        BY <1>1, <4>1, <4>6
    <3> QED
      BY <1>4, <3>1, <3>2
  <2> QED
    BY <1>1, <1>2, <2>1, <2>5, <2>6 DEF ReaderType
<1> QED
  BY <1>3, <1>4

LEMMA SameTail ==
    ASSUME NEW s \in Seq(Bytes), NEW q \in Seq(Bytes), NEW a \in Nat,
           a <= Len(s), a <= Len(q), \A i \in 1 .. a : s[i] = q[i]
    PROVE  SubSeq(s, 3, a) = SubSeq(q, 3, a)
OBVIOUS

\* Behind the header, the buffer begins where the next frame does.
LEMMA AtFrame ==
    ASSUME FramingInv, Aligned, ~awaitingHeader, NEW k \in Nat, k = Len(delivered),
           NEW f, f = sent[k + 1], k < Len(sent)
    PROVE  /\ f \in Frames /\ EndOf(k) \in Nat /\ EndOf(k) <= taken
           /\ EndOf(k) + LENGTH_SIZE + Len(Packet(f)) = f.end
           /\ Len(buffer) = taken - EndOf(k)
           /\ Len(buffer) >= LENGTH_SIZE => PktLen = Len(Packet(f))
           /\ Whole <=> taken >= f.end
           /\ taken >= f.end => SubSeq(buffer, LENGTH_SIZE + 1, Total) = Packet(f)
<1>1. /\ stream \in Seq(Bytes) /\ taken \in Nat /\ taken <= Len(stream)
      /\ delivered \in Seq(Delivery) /\ sent \in Seq(Frames)
      /\ \A i \in DOMAIN sent : sent[i].end \in 1 .. Len(stream)
      /\ STREAM_HEADER_LEN \in Nat /\ k + 1 \in DOMAIN sent
  BY FramingAssumption DEF FramingInv, SentInv, ReaderType
<1>2. f \in Frames /\ f.end \in Nat /\ f.end <= Len(stream)
  BY <1>1
<1>3. PICK p : p = Packet(f)
  OBVIOUS
<1>4. PICK F : F = frame_packet(p)
  OBVIOUS
<1>5. /\ p \in Seq(Bytes) /\ Len(p) \in Nat /\ Len(p) >= 5
      /\ F \in Seq(Bytes) /\ Len(F) = 2 + Len(p)
      /\ F[1] + Byte * F[2] = Len(p) /\ SubSeq(F, 3, Len(F)) = p
  <2>1. p \in Seq(Bytes) /\ Len(p) = HEADER_SIZE + Len(encrypt(Plain(f)))
    BY <1>2, <1>3, PacketBytes
  <2>2. encrypt(Plain(f)) \in Seq(Bytes)
    BY <1>2, PlainBytes
  <2>3. /\ F \in Seq(Bytes) /\ Len(F) = LENGTH_SIZE + Len(p)
        /\ F[1] + Byte * F[2] = Len(p)
        /\ SubSeq(F, LENGTH_SIZE + 1, Len(F)) = p
    BY <1>2, <1>3, <1>4, FrameBytes
  <2> QED
    BY <2>1, <2>2, <2>3 DEF LENGTH_SIZE, HEADER_SIZE
<1>6. PICK e \in Nat : e = EndOf(k)
  <2>1. EndOf(k) \in Nat
    BY <1>1 DEF EndOf
  <2> QED
    BY <2>1
<1>7. e <= taken /\ buffer = SubSeq(stream, e + 1, taken)
  BY <1>6 DEF FramingInv, BufferInv
<1>8. e + Len(F) = f.end /\ SubSeq(stream, e + 1, f.end) = F
  <2>1. k + 1 - 1 = k
    OBVIOUS
  <2>2. /\ EndOf(k + 1 - 1) + Len(frame_packet(Packet(sent[k + 1]))) = sent[k + 1].end
        /\ SubSeq(stream, EndOf(k + 1 - 1) + 1, sent[k + 1].end)
              = frame_packet(Packet(sent[k + 1]))
    BY <1>1 DEF FramingInv, LayoutInv
  <2> QED
    BY <1>3, <1>4, <1>6, <2>1, <2>2, Zenon
<1>9. PICK t \in Nat, x \in Nat, a \in Nat : t = taken /\ x = f.end /\ a = Len(F)
  BY <1>1, <1>2, <1>5
<1>10. /\ e + a = x /\ e <= t /\ t <= Len(stream) /\ x <= Len(stream)
       /\ a = 2 + Len(p) /\ a >= 7 /\ buffer = SubSeq(stream, e + 1, t)
       /\ F = SubSeq(stream, e + 1, x)
  BY <1>1, <1>2, <1>5, <1>7, <1>8, <1>9
<1>11. /\ Len(buffer) = t - e /\ buffer \in Seq(Bytes)
       /\ \A i \in 1 .. t - e : buffer[i] = stream[e + i]
  <2>1. stream \in Seq(Bytes) /\ e <= t /\ t <= Len(stream)
    BY <1>1, <1>10
  <2>2. /\ Len(SubSeq(stream, e + 1, t)) = t - e /\ SubSeq(stream, e + 1, t) \in Seq(Bytes)
    BY <2>1, t <= t, Parts
  <2>3. \A i \in 1 .. t - e : SubSeq(stream, e + 1, t)[i] = stream[e + i]
    BY <2>1
  <2> QED
    BY <1>10, <2>2, <2>3, Zenon
<1>12. \A i \in 1 .. a : F[i] = stream[e + i]
  BY <1>1, <1>10
<1>13. \A i \in 1 .. a : i <= t - e => buffer[i] = F[i]
  BY <1>10, <1>11, <1>12
<1>14. t - e >= 2 => PktLen = Len(p)
  <2> SUFFICES ASSUME t - e >= 2
               PROVE  PktLen = Len(p)
    OBVIOUS
  <2>1. buffer[1] = F[1] /\ buffer[2] = F[2]
    BY <1>10, <1>13
  <2> QED
    BY <1>5, <2>1, Zenon DEF PktLen
<1>15. t - e >= 2 => Total = a
  BY <1>5, <1>10, <1>14 DEF Total, LENGTH_SIZE
<1>16. Whole <=> t >= x
  BY <1>10, <1>11, <1>15 DEF Whole, LENGTH_SIZE
<1>17. ASSUME t >= x
       PROVE  SubSeq(buffer, 3, Total) = p
  <2>1. t - e >= a /\ t - e >= 2
    BY <1>10, <1>17
  <2>2. \A i \in 1 .. a : buffer[i] = F[i]
    BY <1>10, <1>13, <2>1
  <2>3. SubSeq(buffer, 3, a) = SubSeq(F, 3, a)
    <3>1. /\ buffer \in Seq(Bytes) /\ F \in Seq(Bytes) /\ a \in Nat
          /\ a <= Len(buffer) /\ a <= Len(F)
      BY <1>5, <1>9, <1>11, <2>1
    <3> QED
      BY <2>2, <3>1, SameTail, Zenon
  <2>4. SubSeq(F, 3, a) = p /\ Total = a
    BY <1>5, <1>9, <1>15, <2>1
  <2> QED
    BY <2>3, <2>4
<1>18. EndOf(k) + LENGTH_SIZE + Len(Packet(f)) = f.end
  BY <1>3, <1>5, <1>6, <1>9, <1>10 DEF LENGTH_SIZE
<1>19. Len(buffer) >= LENGTH_SIZE => PktLen = Len(Packet(f))
  BY <1>3, <1>11, <1>14 DEF LENGTH_SIZE
<1>20. /\ EndOf(k) \in Nat /\ EndOf(k) <= taken /\ Len(buffer) = taken - EndOf(k)
       /\ (Whole <=> taken >= f.end)
  BY <1>6, <1>9, <1>10, <1>11, <1>16
<1>21. taken >= f.end => SubSeq(buffer, LENGTH_SIZE + 1, Total) = Packet(f)
  <2>1. LENGTH_SIZE + 1 = 3
    BY DEF LENGTH_SIZE
  <2> QED
    BY <1>3, <1>9, <1>17, <2>1
<1> QED
  BY <1>2, <1>18, <1>19, <1>20, <1>21

\* Behind the last frame there is nothing.
LEMMA AtEnd ==
    ASSUME FramingInv, Aligned, ~awaitingHeader, Len(delivered) = Len(sent)
    PROVE  ~Whole
<1>1. /\ stream \in Seq(Bytes) /\ taken \in Nat /\ taken <= Len(stream)
      /\ Len(stream) = EndOf(Len(sent)) /\ EndOf(Len(delivered)) <= taken
      /\ buffer = SubSeq(stream, EndOf(Len(delivered)) + 1, taken)
  BY DEF FramingInv, SentInv, LayoutInv, ReaderType, BufferInv
<1>2. taken = Len(stream) /\ buffer = SubSeq(stream, Len(stream) + 1, Len(stream))
  BY <1>1
<1>3. Len(buffer) = 0
  BY <1>1, <1>2
<1> QED
  BY <1>3 DEF Whole, LENGTH_SIZE

\* A turn of feed's loop returns the next frame, or leaves none that is whole.
LEMMA FeedKeepsFraming ==
    ASSUME FramingInv, FeedPacket \/ FeedShort \/ FeedDone
    PROVE  FramingInv'
<1>1. /\ feeding /\ UNCHANGED <<session, macSide, taken, awaitingHeader, headerBuf, header>>
  BY DEF FeedPacket, FeedShort, FeedDone
<1>2. /\ stream' = stream /\ sent' = sent /\ taken' = taken
      /\ awaitingHeader' = awaitingHeader /\ headerBuf' = headerBuf /\ header' = header
  BY <1>1 DEF macSide
<1>3. /\ SentInv' /\ LayoutInv' /\ Header' = Header /\ (Aligned' <=> Aligned)
      /\ \A i \in Nat : EndOf(i)' = EndOf(i)
  BY <1>1, MacSideKept
<1>4. ReaderType'
  BY FeedTypes
<1>5. Aligned => ~awaitingHeader
  BY <1>1 DEF FramingInv, CollectInv
<1>6. CollectInv'
  BY <1>2, <1>3, <1>5 DEF CollectInv
<1>7. BufferInv'
  <2> SUFFICES ASSUME Aligned, ~awaitingHeader
               PROVE  BufferInv'
    BY <1>3, <1>5 DEF BufferInv
  <2>1. /\ STREAM_HEADER_LEN <= taken /\ header = Header /\ Len(delivered) <= Len(sent)
        /\ \A i \in 1 .. Len(delivered) : delivered[i] = Unpacked(sent[i])
        /\ EndOf(Len(delivered)) <= taken
        /\ buffer = SubSeq(stream, EndOf(Len(delivered)) + 1, taken)
    BY DEF FramingInv, BufferInv
  <2>2. /\ delivered \in Seq(Delivery) /\ sent \in Seq(Frames) /\ stream \in Seq(Bytes)
        /\ taken \in Nat /\ taken <= Len(stream)
    BY DEF FramingInv, ReaderType, SentInv
  <2>3. PICK k \in Nat : k = Len(delivered)
    BY <2>2
  <2>4. CASE FeedDone
    <3>1. delivered' = delivered /\ buffer' = buffer /\ feeding' = FALSE /\ ~Whole
      BY <2>4 DEF FeedDone
    <3>2. EndOf(Len(delivered))' = EndOf(Len(delivered))
      BY <1>2, <3>1 DEF EndOf
    <3>3. Len(delivered) = Len(sent) \/ taken < sent[Len(delivered) + 1].end
      <4> SUFFICES ASSUME k < Len(sent)
                   PROVE  taken < sent[k + 1].end
        BY <2>1, <2>2, <2>3
      <4>1. PICK f : f = sent[k + 1]
        OBVIOUS
      <4>2. f \in Frames /\ ~(taken >= f.end)
        BY <2>3, <3>1, <4>1, AtFrame
      <4>3. f.end \in Nat
        BY <4>2 DEF Frames, Written
      <4> QED
        BY <2>2, <4>1, <4>2, <4>3
    <3>4. \A i \in 1 .. Len(delivered') : delivered'[i] = Unpacked(sent[i])'
      BY <1>2, <2>1, <3>1
    <3> QED
      BY <1>2, <1>3, <2>1, <3>1, <3>2, <3>3, <3>4 DEF BufferInv
  <2>5. CASE FeedPacket \/ FeedShort
    <3>1. Whole /\ Cut
      BY <2>5 DEF FeedPacket, FeedShort
    <3>2. k < Len(sent)
      BY <2>1, <2>2, <2>3, <3>1, AtEnd
    <3>3. PICK f : f = sent[k + 1]
      OBVIOUS
    <3>4. /\ f \in Frames /\ EndOf(k) \in Nat /\ EndOf(k) <= taken
          /\ EndOf(k) + LENGTH_SIZE + Len(Packet(f)) = f.end
          /\ Len(buffer) = taken - EndOf(k)
          /\ Len(buffer) >= LENGTH_SIZE => PktLen = Len(Packet(f))
          /\ taken >= f.end
          /\ SubSeq(buffer, LENGTH_SIZE + 1, Total) = Packet(f)
      BY <2>3, <3>1, <3>2, <3>3, AtFrame
    <3>5. /\ PktLen = Len(Packet(f)) /\ Total = LENGTH_SIZE + Len(Packet(f))
      BY <3>1, <3>4 DEF Whole, Total
    <3>6. /\ Packet(f) \in Seq(Bytes)
          /\ Len(Packet(f)) = HEADER_SIZE + Len(encrypt(Plain(f)))
          /\ encrypt(Plain(f)) \in Seq(Bytes)
      BY <3>4, PacketBytes, PlainBytes
    <3>7. PktLen >= HEADER_SIZE
      BY <3>5, <3>6 DEF HEADER_SIZE
    <3>8. FeedPacket
      <4>1. PktLen \in Nat
        BY <3>5, <3>6
      <4>2. ~FeedShort
        BY <3>7, <4>1 DEF FeedShort, HEADER_SIZE
      <4> QED
        BY <2>5, <4>2
    <3>9. delivered' = Append(delivered, Unpacked(f))
      <4>1. PICK p : p = Packet(f)
        OBVIOUS
      <4>2. delivered' = Append(delivered,
                [ptype |-> p[1],
                 seqno |-> p[2] + Byte * (p[3] + Byte * (p[4] + Byte * p[5])),
                 payload |-> SubSeq(p, HEADER_SIZE + 1, Len(p))])
        BY <3>4, <3>8, <4>1 DEF FeedPacket
      <4>3. /\ p[1] = f.ptype
            /\ p[2] + Byte * (p[3] + Byte * (p[4] + Byte * p[5])) = f.seqno
            /\ SubSeq(p, HEADER_SIZE + 1, Len(p)) = encrypt(Plain(f))
        BY <3>4, <4>1, PacketBytes
      <4> QED
        BY <4>2, <4>3, Zenon DEF Unpacked
    <3>10. buffer' = SubSeq(stream, f.end + 1, taken)
      <4>1. PICK e \in Nat : e = EndOf(k)
        BY <3>4
      <4>2. PICK x \in Nat : x = f.end
        BY <3>4 DEF Frames, Written
      <4>3. PICK t \in Nat : t = taken
        BY <2>2
      <4>4. /\ e <= x /\ x <= t /\ t <= Len(stream) /\ stream \in Seq(Bytes)
            /\ Total = x - e /\ Len(buffer) = t - e
        <5>1. PICK q \in Nat : q = Len(Packet(f))
          BY <3>6
        <5>2. /\ Total = 2 + q /\ e + 2 + q = x /\ x <= t /\ t <= Len(stream)
              /\ Len(buffer) = t - e
          BY <2>2, <3>4, <3>5, <4>1, <4>2, <4>3, <5>1 DEF LENGTH_SIZE
        <5>3. e <= x /\ x - e = 2 + q
          <6>1. e + 2 + q = x
            BY <5>2, Zenon
          <6> QED
            BY <6>1
        <5> QED
          BY <2>2, <5>2, <5>3, Zenon
      <4>5. buffer = SubSeq(stream, e + 1, t)
        BY <2>1, <2>3, <4>1, <4>3
      <4>6. SubSeq(SubSeq(stream, e + 1, t), x - e + 1, t - e) = SubSeq(stream, x + 1, t)
        <5>1. \A s \in Seq(Bytes) : t <= Len(s) =>
                 SubSeq(SubSeq(s, e + 1, t), x - e + 1, t - e) = SubSeq(s, x + 1, t)
          BY <4>4, Parts, e \in Nat, x \in Nat, t \in Nat
        <5> QED
          BY <4>4, <5>1, Zenon
      <4>7. buffer' = SubSeq(buffer, Total + 1, Len(buffer))
        BY <3>1 DEF Cut
      <4> QED
        BY <4>2, <4>3, <4>4, <4>5, <4>6, <4>7, Zenon
    <3>11. /\ Len(delivered') = k + 1
           /\ \A i \in 1 .. k : delivered'[i] = delivered[i]
           /\ delivered'[k + 1] = Unpacked(f)
      <4>1. Unpacked(f) \in Delivery
        BY <3>4, <3>6 DEF Unpacked, Delivery, Frames, Written, TYPE_KEYBOARD, TYPE_POINTER
      <4> QED
        BY <2>2, <2>3, <3>9, <4>1
    <3>12. EndOf(Len(delivered))' = f.end
      BY <1>2, <3>3, <3>11 DEF EndOf
    <3>13. \A i \in 1 .. Len(delivered') : delivered'[i] = Unpacked(sent[i])'
      <4> SUFFICES ASSUME NEW i \in 1 .. k + 1
                   PROVE  delivered'[i] = Unpacked(sent'[i])
        BY <3>11
      <4>1. CASE i \in 1 .. k
        BY <1>2, <2>1, <2>3, <3>11, <4>1
      <4>2. CASE i = k + 1
        BY <1>2, <3>3, <3>11, <4>2
      <4> QED
        BY <4>1, <4>2
    <3>14. feeding' = TRUE
      BY <1>1, <3>8 DEF FeedPacket
    <3>15. Len(delivered') <= Len(sent') /\ f.end <= taken'
      <4>1. f.end \in Nat
        BY <3>4 DEF Frames, Written
      <4> QED
        BY <1>2, <2>2, <3>2, <3>4, <3>11, <4>1
    <3> QED
      BY <1>2, <1>3, <2>1, <3>10, <3>12, <3>13, <3>14, <3>15 DEF BufferInv
  <2> QED
    BY <2>4, <2>5
<1> QED
  BY <1>3, <1>4, <1>6, <1>7 DEF FramingInv

\* A connection that begins, or has ended, has nothing written or read.
LEMMA FreshFraming ==
    ASSUME NewStream, ResetReader, session' \in {0, 1}
    PROVE  FramingInv'
<1>1. /\ stream' = <<>> /\ headerAt' = NotWritten /\ sent' = <<>> /\ taken' = 0
      /\ delivered' = <<>> /\ awaitingHeader' = TRUE /\ headerBuf' = <<>> /\ header' = <<>>
      /\ buffer' = <<>> /\ feeding' = FALSE
  BY DEF NewStream, ResetReader
<1>2. ~Aligned'
  BY <1>1 DEF Aligned, NotWritten
<1>3. SentInv'
  BY <1>1, FramingAssumption DEF SentInv
<1>4. ReaderType'
  <2>1. <<>> \in Seq(Delivery) /\ <<>> \in Seq(Bytes) /\ 0 \in 0 .. Len(<<>>)
    OBVIOUS
  <2>2. taken' \in 0 .. Len(stream') /\ awaitingHeader' \in BOOLEAN /\ feeding' \in BOOLEAN
    BY <1>1, <2>1, Zenon
  <2> QED
    BY <1>1, <2>1, <2>2, Zenon DEF ReaderType
<1> QED
  BY <1>2, <1>3, <1>4 DEF FramingInv, LayoutInv, CollectInv, BufferInv

-----------------------------------------------------------------------------
(* The loop around the connection.                                         *)

LoopVarsOK ==
    /\ present \subseteq Ports
    /\ serving \in BOOLEAN
    /\ looppc \in {"try", "wait", "read", "sleep"}
    /\ port \in Ports \cup {NoPort}
    /\ backoff \in 1 .. MAX_BACKOFF
    /\ tries \in Nat
    /\ slept \in Nat

LoopInv == FramingInv /\ LoopVarsOK

LEMMA LoopInvInit == Init => LoopInv
<1> SUFFICES ASSUME Init
             PROVE  LoopInv
  OBVIOUS
<1>1. FramingInit
  BY DEF Init
<1>2. SentInv /\ ReaderType
  <2>1. SentInv
    BY <1>1, FramingAssumption DEF FramingInit, SentInv
  <2>2. <<>> \in Seq(Delivery) /\ <<>> \in Seq(Bytes) /\ 0 \in 0 .. Len(<<>>)
    OBVIOUS
  <2>3. taken \in 0 .. Len(stream) /\ awaitingHeader \in BOOLEAN /\ feeding \in BOOLEAN
    BY <1>1, <2>2, Zenon DEF FramingInit
  <2>4. ReaderType
    BY <1>1, <2>2, <2>3, Zenon DEF FramingInit, ReaderType
  <2> QED
    BY <2>1, <2>4
<1>3. ~Aligned
  BY <1>1 DEF FramingInit, Aligned, NotWritten
<1>4. LoopVarsOK
  <2>1. 1 \in 1 .. MAX_BACKOFF
    BY LoopAssumption
  <2>2. /\ present = {} /\ serving = FALSE /\ looppc = "try" /\ port = NoPort
        /\ backoff = 1 /\ tries = 0 /\ slept = 0
    BY DEF Init
  <2> QED
    BY <2>1, <2>2 DEF LoopVarsOK
<1> QED
  BY <1>2, <1>3, <1>4 DEF LoopInv, FramingInv, LayoutInv, CollectInv, BufferInv

LEMMA LoopInvStep == LoopInv /\ [Next]_vars => LoopInv'
<1> SUFFICES ASSUME LoopInv, [Next]_vars
             PROVE  LoopInv'
  OBVIOUS
<1>0. FramingInv /\ LoopVarsOK /\ MAX_BACKOFF \in Nat \ {0} /\ MaxTries \in Nat
  BY LoopAssumption DEF LoopInv
\* A step that leaves the bytes alone.
<1>1. ASSUME UNCHANGED framingVars
      PROVE  FramingInv'
  <2>1. UNCHANGED <<session, macSide, taken, awaitingHeader, headerBuf, header, buffer,
                    feeding, delivered>>
    BY <1>1 DEF framingVars, readerVars
  <2>2. /\ SentInv' /\ LayoutInv' /\ Header' = Header /\ (Aligned' <=> Aligned)
    BY <1>0, <2>1, MacSideKept
  <2>3. stream' = stream /\ sent' = sent
    BY <2>1 DEF macSide
  <2>4. ReaderType' /\ CollectInv'
    BY <1>0, <2>1, <2>2, <2>3 DEF FramingInv, ReaderType, CollectInv
  <2>5. EndOf(Len(delivered))' = EndOf(Len(delivered))
    BY <2>1, <2>3 DEF EndOf
  <2>6. BufferInv'
    BY <1>0, <2>1, <2>2, <2>3, <2>5 DEF FramingInv, BufferInv
  <2> QED
    BY <2>2, <2>4, <2>6 DEF FramingInv
<1>2. CASE UNCHANGED vars
  BY <1>0, <1>1, <1>2 DEF vars, loopVars, LoopInv, LoopVarsOK
<1>3. CASE \E p \in Ports : PortAppears(p) \/ PortGoes(p)
  BY <1>0, <1>1, <1>3 DEF PortAppears, PortGoes, LoopInv, LoopVarsOK
<1>4. CASE MacStarts \/ MacStops
  BY <1>0, <1>1, <1>4 DEF MacStarts, MacStops, LoopInv, LoopVarsOK
<1>5. CASE OpenPort
  <2>1. session' \in {0, 1}
    BY <1>0, <1>5 DEF OpenPort, FramingInv, SentInv
  <2>2. FramingInv'
    BY <1>5, <2>1, FreshFraming DEF OpenPort
  <2>3. Choice \in Ports
    BY <1>0, <1>5 DEF OpenPort, Opens, LoopVarsOK
  <2> QED
    BY <1>0, <1>5, <2>2, <2>3 DEF OpenPort, LoopInv, LoopVarsOK
<1>6. CASE NoPortFound \/ OpenFails
  BY <1>0, <1>1, <1>6 DEF NoPortFound, OpenFails, Counted, Least, LoopInv, LoopVarsOK
<1>7. CASE Stream
  <2>1. FramingInv'
    <3>1. CASE Write
      BY <1>0, <3>1, WriteKeepsFraming
    <3>2. ASSUME NEW n \in 1 .. ChunkLen, Read(n)
          PROVE  FramingInv'
      <4>1. n \in Nat \ {0}
        BY FramingAssumption
      <4> QED
        BY <1>0, <3>2, <4>1, ReadKeepsFraming
    <3>3. CASE FeedPacket \/ FeedShort \/ FeedDone
      BY <1>0, <3>3, FeedKeepsFraming
    <3> QED
      BY <1>7, <3>1, <3>2, <3>3 DEF Stream, Step
  <2> QED
    BY <1>0, <1>7, <2>1 DEF Stream, loopVars, LoopInv, LoopVarsOK
<1>8. CASE LinkLost
  <2>1. session' \in {0, 1}
    BY <1>0, <1>8 DEF LinkLost, FramingInv, SentInv
  <2>2. FramingInv'
    BY <1>8, <2>1, FreshFraming DEF LinkLost
  <2> QED
    BY <1>0, <1>8, <2>2 DEF LinkLost, Counted, Least, LoopInv, LoopVarsOK
<1>9. CASE SleepNoPort \/ Sleep
  <2>1. FramingInv'
    BY <1>1, <1>9 DEF SleepNoPort, Sleep
  <2>2. backoff' \in 1 .. MAX_BACKOFF /\ slept' \in Nat
    BY <1>0, <1>9 DEF SleepNoPort, Sleep, CountSleep, Least, LoopVarsOK
  <2> QED
    BY <1>0, <1>9, <2>1, <2>2 DEF SleepNoPort, Sleep, LoopInv, LoopVarsOK
<1> QED
  BY <1>2, <1>3, <1>4, <1>5, <1>6, <1>7, <1>8, <1>9 DEF Next

\* Whatever the ports, the Mac and the chunks do, the connection is laid out so.
THEOREM LoopInvariant == Spec => []LoopInv
<1>1. Init => LoopInv
  BY LoopInvInit
<1>2. LoopInv /\ [Next]_vars => LoopInv'
  BY LoopInvStep
<1> QED
  BY <1>1, <1>2, PTL DEF Spec

(***************************************************************************)
(* The variables of the client and of the framing keep their types.        *)
(***************************************************************************)
THEOREM LoopTypeCorrect == Spec => []LoopTypeOK
<1>1. LoopInv => LoopTypeOK
  <2> SUFFICES ASSUME LoopInv
               PROVE  LoopTypeOK
    OBVIOUS
  <2>1. FramingTypeOK
    BY DEF LoopInv, FramingInv, SentInv, ReaderType, FramingTypeOK
  <2> QED
    BY <2>1 DEF LoopInv, LoopVarsOK, LoopTypeOK
<1> QED
  BY <1>1, LoopInvariant, PTL

-----------------------------------------------------------------------------
(* What FramingInv says between two reads.                                 *)

\* The first frame ends behind the header, the others behind it.
LEMMA EndsBehindHeader ==
    ASSUME FramingInv, Aligned
    PROVE  \A i \in DOMAIN sent : sent[i].end \in Nat /\ sent[i].end > STREAM_HEADER_LEN
<1>1. /\ sent \in Seq(Frames) /\ \A i, j \in DOMAIN sent : i < j => sent[i].end < sent[j].end
      /\ STREAM_HEADER_LEN \in Nat
  BY FramingAssumption DEF FramingInv, SentInv
<1>2. \A i \in DOMAIN sent : sent[i] \in Frames /\ sent[i].end \in Nat
  BY <1>1 DEF Frames, Written
<1> SUFFICES ASSUME NEW i \in DOMAIN sent
             PROVE  sent[i].end > STREAM_HEADER_LEN
  BY <1>2
<1>3. 1 \in DOMAIN sent /\ (i = 1 \/ 1 < i)
  BY <1>1
<1>4. sent[1].end > STREAM_HEADER_LEN
  <2>1. EndOf(1 - 1) + Len(frame_packet(Packet(sent[1]))) = sent[1].end
    BY <1>3 DEF FramingInv, LayoutInv
  <2>2. EndOf(1 - 1) = STREAM_HEADER_LEN
    BY DEF EndOf
  <2>3. /\ Len(frame_packet(Packet(sent[1]))) = LENGTH_SIZE + Len(Packet(sent[1]))
        /\ Packet(sent[1]) \in Seq(Bytes)
    BY <1>2, <1>3, FrameBytes, PacketBytes
  <2>4. PICK q \in Nat : q = Len(Packet(sent[1]))
    BY <2>3
  <2> QED
    BY <1>1, <2>1, <2>2, <2>3, <2>4 DEF LENGTH_SIZE
<1> QED
  BY <1>1, <1>2, <1>3, <1>4

\* What feed has returned is what has arrived.
LEMMA ArrivedIsDelivered ==
    ASSUME FramingInv, Aligned, ~feeding
    PROVE  Len(delivered) \in Nat /\ Arrived = Len(delivered)
<1>1. /\ sent \in Seq(Frames) /\ delivered \in Seq(Delivery) /\ taken \in Nat
      /\ \A i, j \in DOMAIN sent : i < j => sent[i].end < sent[j].end
      /\ STREAM_HEADER_LEN \in Nat /\ awaitingHeader \in BOOLEAN
  BY FramingAssumption DEF FramingInv, SentInv, ReaderType
<1>2. \A i \in DOMAIN sent : sent[i].end \in Nat /\ sent[i].end > STREAM_HEADER_LEN
  BY EndsBehindHeader
<1> DEFINE A == {i \in DOMAIN sent : sent[i].end <= taken}
<1>3. CASE awaitingHeader
  <2>1. taken < STREAM_HEADER_LEN /\ delivered = <<>>
    BY <1>3 DEF FramingInv, CollectInv
  <2>2. A = {}
    <3> SUFFICES ASSUME NEW i \in DOMAIN sent, sent[i].end <= taken PROVE FALSE
      OBVIOUS
    <3> QED
      BY <1>1, <1>2, <2>1
  <2> QED
    BY <2>1, <2>2, FS_EmptySet DEF Arrived
<1>4. CASE ~awaitingHeader
  <2>1. PICK k \in Nat : k = Len(delivered)
    BY <1>1
  <2>2. /\ k <= Len(sent) /\ EndOf(k) <= taken
        /\ k = Len(sent) \/ taken < sent[k + 1].end
    BY <1>4, <2>1 DEF FramingInv, BufferInv
  <2>3. A = 1 .. k
    <3>1. ASSUME NEW i \in DOMAIN sent, i <= k
          PROVE  sent[i].end <= taken
      <4>1. k \in DOMAIN sent /\ k # 0 /\ (i = k \/ i < k)
        BY <1>1, <2>1, <2>2, <3>1
      <4>2. sent[k].end <= taken
        BY <2>2, <4>1 DEF EndOf
      <4> QED
        BY <1>1, <1>2, <4>1, <4>2
    <3>2. ASSUME NEW i \in DOMAIN sent, i > k
          PROVE  ~(sent[i].end <= taken)
      <4>1. k + 1 \in DOMAIN sent /\ k # Len(sent) /\ (i = k + 1 \/ k + 1 < i)
        BY <1>1, <2>1, <2>2, <3>2
      <4>2. taken < sent[k + 1].end
        BY <2>2, <4>1
      <4> QED
        BY <1>1, <1>2, <4>1, <4>2
    <3>3. \A i \in DOMAIN sent : i \in Nat /\ i >= 1
      BY <1>1
    <3>4. 1 .. k \subseteq DOMAIN sent
      BY <1>1, <2>1, <2>2
    <3> QED
      BY <2>1, <3>1, <3>2, <3>3, <3>4
  <2>4. Cardinality(1 .. k) = k
    <3>1. \A a, b \in Int : Cardinality(a .. b) = IF a > b THEN 0 ELSE b - a + 1
      BY FS_Interval
    <3>2. 1 \in Int /\ k \in Int
      OBVIOUS
    <3>3. Cardinality(1 .. k) = IF 1 > k THEN 0 ELSE k - 1 + 1
      BY <3>1, <3>2, Zenon
    <3> QED
      BY <3>3
  <2> QED
    BY <2>1, <2>3, <2>4 DEF Arrived
<1> QED
  BY <1>1, <1>3, <1>4

(***************************************************************************)
(* The bytes of a connection may be cut into any chunks, arrive at any     *)
(* pace and stop anywhere, and be followed by those of another connection: *)
(* once the header was written first, the reader holds it as it was sent,  *)
(* has returned exactly the frames that have arrived, and its buffer       *)
(* begins where the next one does.                                         *)
(***************************************************************************)
THEOREM DeframedCorrect == Spec => []Deframed
<1>1. LoopInv => Deframed
  <2> SUFFICES ASSUME FramingInv, Aligned, ~feeding
               PROVE  /\ awaitingHeader = (taken < STREAM_HEADER_LEN)
                      /\ IF awaitingHeader
                         THEN headerBuf = SubSeq(Header, 1, taken) /\ buffer = <<>>
                         ELSE /\ header = Header
                              /\ buffer = SubSeq(stream, ArrivedEnd + 1, taken)
                      /\ Len(delivered) = Arrived
                      /\ \A i \in 1 .. Arrived :
                            /\ delivered[i].ptype = sent[i].ptype
                            /\ delivered[i].seqno = sent[i].seqno
    BY DEF LoopInv, Deframed
  <2>1. /\ stream \in Seq(Bytes) /\ taken \in Nat /\ taken <= Len(stream)
        /\ awaitingHeader \in BOOLEAN /\ STREAM_HEADER_LEN \in Nat
        /\ STREAM_HEADER_LEN <= Len(stream) /\ SubSeq(stream, 1, STREAM_HEADER_LEN) = Header
    BY FramingAssumption DEF FramingInv, SentInv, ReaderType, LayoutInv
  <2>2. Len(delivered) \in Nat /\ Arrived = Len(delivered)
    BY ArrivedIsDelivered
  <2>3. CASE awaitingHeader
    <3>1. /\ taken < STREAM_HEADER_LEN /\ headerBuf = SubSeq(stream, 1, taken)
          /\ buffer = <<>> /\ delivered = <<>>
      BY <2>3 DEF FramingInv, CollectInv
    <3>2. SubSeq(Header, 1, taken) = SubSeq(stream, 1, taken)
      <4>1. SubSeq(SubSeq(stream, 1, STREAM_HEADER_LEN), 1, taken) = SubSeq(stream, 1, taken)
        BY <2>1, <3>1
      <4> QED
        BY <2>1, <4>1, Zenon
    <3>3. 1 .. Arrived = {}
      BY <2>2, <3>1
    <3> QED
      BY <2>2, <2>3, <3>1, <3>2, <3>3
  <2>4. CASE ~awaitingHeader
    <3>1. /\ STREAM_HEADER_LEN <= taken /\ header = Header
          /\ \A i \in 1 .. Len(delivered) : delivered[i] = Unpacked(sent[i])
          /\ buffer = SubSeq(stream, EndOf(Len(delivered)) + 1, taken)
      BY <2>4 DEF FramingInv, BufferInv
    <3>2. ArrivedEnd = EndOf(Len(delivered))
      BY <2>2 DEF ArrivedEnd, EndOf
    <3>3. \A i \in 1 .. Arrived : /\ delivered[i].ptype = sent[i].ptype
                                  /\ delivered[i].seqno = sent[i].seqno
      <4>1. \A f : Unpacked(f).ptype = f.ptype /\ Unpacked(f).seqno = f.seqno
        BY DEF Unpacked
      <4> QED
        BY <2>2, <3>1, <4>1, Zenon
    <3>4. awaitingHeader = (taken < STREAM_HEADER_LEN)
      BY <2>1, <2>4, <3>1
    <3> QED
      BY <2>2, <2>4, <3>1, <3>2, <3>3, <3>4
  <2> QED
    BY <2>3, <2>4
<1> QED
  BY <1>1, LoopInvariant, PTL

(***************************************************************************)
(* What the receiver decrypts is the report that was sent, or the pointer  *)
(* event with its buttons and its movement, clamped to two signed bytes.   *)
(***************************************************************************)
THEOREM ContentCorrect == Spec => []ContentArrives
<1>1. LoopInv => ContentArrives
  <2> SUFFICES ASSUME FramingInv, Aligned, NEW i \in DOMAIN delivered
               PROVE  LET plaintext == decrypt(delivered[i].payload)
                      IN  IF delivered[i].ptype = TYPE_KEYBOARD
                          THEN plaintext = sent[i].source
                          ELSE LET arrived == unpack_motion(plaintext)
                                   event == sent[i].source
                               IN  /\ Len(plaintext) >= 7
                                   /\ arrived.buttons = event.buttons
                                   /\ arrived.dx = clamp(event.dx)
                                   /\ arrived.dy = clamp(event.dy)
    BY DEF LoopInv, ContentArrives
  <2>1. delivered \in Seq(Delivery) /\ sent \in Seq(Frames)
    BY DEF FramingInv, ReaderType, SentInv
  <2>2. ~awaitingHeader
    <3> SUFFICES ASSUME awaitingHeader PROVE FALSE
      OBVIOUS
    <3>1. delivered = <<>>
      BY DEF FramingInv, CollectInv
    <3> QED
      BY <3>1
  <2>3. i \in 1 .. Len(delivered)
    BY <2>1
  <2>4. delivered[i] = Unpacked(sent[i]) /\ Len(delivered) <= Len(sent)
    BY <2>2, <2>3 DEF FramingInv, BufferInv
  <2>5. PICK f \in Frames : f = sent[i]
    BY <2>1, <2>3, <2>4
  <2>6. /\ delivered[i].ptype = f.ptype
        /\ decrypt(delivered[i].payload) = Plain(f)
    <3>1. delivered[i].payload = encrypt(Plain(f)) /\ delivered[i].ptype = f.ptype
      BY <2>4, <2>5 DEF Unpacked
    <3> QED
      BY <3>1, PlainBytes
  <2>7. CASE f.ptype = TYPE_KEYBOARD
    BY <2>5, <2>6, <2>7 DEF Plain
  <2>8. CASE f.ptype # TYPE_KEYBOARD
    <3>1. f.source \in Motions /\ Plain(f) = pack_motion(f.source)
      BY <2>8 DEF Frames, Plain
    <3>2. Len(pack_motion(f.source)) = 7
      BY <3>1, MotionBytes
    <3>3. unpack_motion(pack_motion(f.source)) = AsReceived(f.source)
      BY <3>1, MotionBytes
    <3>4. f.source.buttons % Byte = f.source.buttons
      BY <3>1, FramingAssumption, Sizes DEF Bytes
    <3>5. /\ unpack_motion(Plain(f)).buttons = f.source.buttons
          /\ unpack_motion(Plain(f)).dx = clamp(f.source.dx)
          /\ unpack_motion(Plain(f)).dy = clamp(f.source.dy)
      BY <3>1, <3>3, <3>4 DEF AsReceived, Motion
    <3> QED
      BY <2>5, <2>6, <2>8, <3>1, <3>2, <3>5
  <2> QED
    BY <2>7, <2>8
<1> QED
  BY <1>1, LoopInvariant, PTL

-----------------------------------------------------------------------------
(* The backoff.                                                            *)

\* What a power of two is: the provers have no rules for ^.
PowersOfTwo == 2 ^ 0 = 1 /\ \A n \in Nat : 2 ^ n \in Nat /\ 2 ^ (n + 1) = 2 * 2 ^ n

LEMMA BackoffStep ==
    ASSUME PowersOfTwo, LoopInv, BackoffInv, [Next]_vars
    PROVE  BackoffInv'
<1>1. /\ looppc \in {"try", "wait", "read", "sleep"} /\ backoff \in 1 .. MAX_BACKOFF
      /\ tries \in Nat /\ slept \in Nat /\ MAX_BACKOFF \in Nat \ {0} /\ MaxTries \in Nat
  BY LoopAssumption DEF LoopInv, LoopVarsOK
<1>2. ASSUME looppc' = looppc, tries' = tries, slept' = slept, backoff' = backoff
      PROVE  BackoffInv'
  BY <1>2 DEF BackoffInv
<1>3. CASE UNCHANGED vars \/ Stream
  BY <1>2, <1>3 DEF vars, loopVars, Stream
<1>4. CASE (\E p \in Ports : PortAppears(p) \/ PortGoes(p)) \/ MacStarts \/ MacStops
  BY <1>2, <1>4 DEF PortAppears, PortGoes, MacStarts, MacStops
<1>5. CASE OpenPort
  BY <1>5 DEF OpenPort, BackoffInv
<1>6. CASE NoPortFound \/ OpenFails
  <2>1. /\ looppc = "try" /\ looppc' \in {"wait", "sleep"}
        /\ tries' = Least(tries + 1, MaxTries)
        /\ backoff' = backoff /\ slept' = slept
    BY <1>6 DEF NoPortFound, OpenFails, Counted
  <2> SUFFICES ASSUME tries' < MaxTries
               PROVE  /\ tries' > 0 /\ backoff' = Least(2 ^ (tries' - 1), MAX_BACKOFF)
                      /\ slept' + 1 >= backoff'
    BY <2>1 DEF BackoffInv
  <2>2. tries' = tries + 1 /\ tries < MaxTries /\ tries' - 1 = tries
    BY <1>1, <2>1 DEF Least
  <2>3. backoff = Least(2 ^ tries, MAX_BACKOFF) /\ slept + 1 >= backoff
    BY <2>1, <2>2 DEF BackoffInv
  <2>4. backoff' = Least(2 ^ (tries' - 1), MAX_BACKOFF)
    BY <2>1, <2>2, <2>3, Zenon
  <2>5. tries' > 0 /\ slept' + 1 >= backoff'
    BY <1>1, <2>1, <2>2, <2>3
  <2> QED
    BY <2>4, <2>5
<1>7. CASE LinkLost
  <2>1. /\ looppc = "read" /\ looppc' = "sleep" /\ tries' = Least(tries + 1, MaxTries)
        /\ backoff' = backoff /\ slept' = slept
    BY <1>7 DEF LinkLost, Counted
  <2>2. tries = 0 /\ slept = 0 /\ backoff = 1
    BY <2>1 DEF BackoffInv
  <2> SUFFICES ASSUME tries' < MaxTries
               PROVE  /\ tries' > 0 /\ backoff' = Least(2 ^ (tries' - 1), MAX_BACKOFF)
                      /\ slept' + 1 >= backoff'
    BY <2>1 DEF BackoffInv
  <2>3. tries' = 1 /\ tries' - 1 = 0
    BY <1>1, <2>1, <2>2 DEF Least
  <2>4. Least(2 ^ 0, MAX_BACKOFF) = 1
    BY <1>1 DEF PowersOfTwo, Least
  <2>5. backoff' = Least(2 ^ (tries' - 1), MAX_BACKOFF)
    BY <2>1, <2>2, <2>3, <2>4, Zenon
  <2>6. tries' > 0 /\ slept' + 1 >= backoff'
    BY <2>1, <2>2, <2>3
  <2> QED
    BY <2>5, <2>6
<1>8. CASE SleepNoPort \/ Sleep
  <2>1. /\ looppc \in {"wait", "sleep"} /\ looppc' = "try" /\ tries' = tries
        /\ slept' = IF tries < MaxTries THEN slept + backoff ELSE slept
        /\ backoff' = Least(2 * backoff, MAX_BACKOFF)
    BY <1>8 DEF SleepNoPort, Sleep, CountSleep
  <2> SUFFICES ASSUME tries < MaxTries
               PROVE  backoff' = Least(2 ^ tries, MAX_BACKOFF) /\ slept' + 1 >= backoff'
    BY <2>1 DEF BackoffInv
  <2>2. /\ tries > 0 /\ backoff = Least(2 ^ (tries - 1), MAX_BACKOFF)
        /\ slept + 1 >= backoff /\ slept' = slept + backoff
    BY <2>1 DEF BackoffInv
  <2>3. PICK n \in Nat : n = tries - 1 /\ n + 1 = tries
    BY <1>1, <2>2
  <2>4. PICK d \in Nat : d = 2 ^ n /\ 2 ^ tries = 2 * d
    BY <2>3 DEF PowersOfTwo
  <2>5. backoff = Least(d, MAX_BACKOFF)
    BY <2>2, <2>3, <2>4
  <2>6. Least(2 * backoff, MAX_BACKOFF) = Least(2 * d, MAX_BACKOFF)
    BY <1>1, <2>4, <2>5 DEF Least
  <2>7. slept' + 1 >= Least(2 * backoff, MAX_BACKOFF)
    BY <1>1, <2>2 DEF Least
  <2> QED
    BY <2>1, <2>4, <2>6, <2>7
<1> QED
  BY <1>3, <1>4, <1>5, <1>6, <1>7, <1>8 DEF Next

(***************************************************************************)
(* The pause before a try doubles from one second to the cap, whatever the *)
(* cap is and on whichever of the two paths it is made, and starts over    *)
(* only when a port was open.                                              *)
(***************************************************************************)
THEOREM BackoffCorrect ==
    ASSUME PowersOfTwo
    PROVE  Spec => []BackoffPaces
<1>1. Init => BackoffInv
  <2> SUFFICES ASSUME Init
               PROVE  BackoffInv
    OBVIOUS
  <2>1. looppc = "try" /\ tries = 0 /\ slept = 0 /\ backoff = 1
    BY DEF Init
  <2>2. Least(2 ^ 0, MAX_BACKOFF) = 1
    BY LoopAssumption DEF PowersOfTwo, Least
  <2> QED
    BY <2>1, <2>2 DEF BackoffInv
<1>2. LoopInv /\ BackoffInv /\ [Next]_vars => BackoffInv'
  BY BackoffStep
<1>3. BackoffInv => BackoffPaces
  BY DEF BackoffInv, BackoffPaces
<1> QED
  BY <1>1, <1>2, <1>3, LoopInvariant, PTL DEF Spec
=============================================================================
