------------------------------ MODULE Framing -------------------------------
(***************************************************************************)
(* The bytes of one connection: what the Mac writes (packet.py, main.py of *)
(* mac-sender), and how Daemon._on_raw_data and PacketReader (main.py,     *)
(* packet.py of win-receiver) make units of the chunks they read.  Module  *)
(* Link starts from those units.                                           *)
(*                                                                         *)
(* The cipher adds Overhead bytes in front and keeps the length.           *)
(***************************************************************************)
EXTENDS PointerCodec, FiniteSets

CONSTANTS
    STREAM_HEADER_LEN,  \* 24
    Overhead,           \* 17
    ChunkLen,           \* what serial.read asks for: 1024
    Reports,            \* keyboard reports: sequences of bytes
    Motions,            \* pointer events, as captured
    MaxFrames           \* bound: frames written on a connection

ASSUME FramingAssumption ==
    /\ STREAM_HEADER_LEN \in Nat \ {0}
    /\ Overhead \in Nat
    /\ ChunkLen \in Nat \ {0}
    /\ \A r \in Reports : r \in Seq(Bytes)
    /\ \A e \in Motions :
          /\ e = Motion(e.buttons, e.dx, e.dy, e.scroll_v, e.scroll_h)
          /\ e.buttons \in Bytes
          /\ {e.dx, e.dy, e.scroll_v, e.scroll_h} \subseteq Int
    /\ MaxFrames \in Nat

TYPE_KEYBOARD == 1
TYPE_POINTER == 2
LENGTH_SIZE == 2
HEADER_SIZE == 5
NotWritten == -1

\* A packet's length fits its two bytes (MAX_PACKET_SIZE; a report has 64 bytes
\* at most, a pointer event seven), and its number four.
ASSUME FieldsAssumption ==
    /\ TYPE_POINTER < Byte
    /\ \A r \in Reports : HEADER_SIZE + Overhead + Len(r) < Byte * Byte
    /\ HEADER_SIZE + Overhead + 7 < Byte * Byte
    /\ MaxFrames <= Byte * Byte * Byte * Byte

VARIABLES
    session,        \* tells a connection from the one before
    stream,         \* bytes written on it
    headerAt,       \* history: how many bytes were written before the header
    sent,           \* history: the frames, and where each ends
    taken,          \* how many bytes were read
    awaitingHeader, \* Daemon._awaiting_header
    headerBuf,      \* Daemon._header_buf
    header,         \* the header Daemon._decryptor was made from
    buffer,         \* PacketReader._buffer
    feeding,        \* feed's loop is running
    delivered       \* history: what feed has returned

macSide == <<stream, headerAt, sent>>
readerVars == <<awaitingHeader, headerBuf, header, buffer, feeding>>
framingVars == <<session, macSide, taken, readerVars, delivered>>

Header == [i \in 1 .. STREAM_HEADER_LEN |-> session]
Plaintexts == Reports \cup {pack_motion(e) : e \in Motions}

FramingTypeOK ==
    /\ session \in {0, 1}
    /\ stream \in Seq(Bytes)
    /\ headerAt \in Nat \cup {NotWritten}
    /\ taken \in 0 .. Len(stream)
    /\ awaitingHeader \in BOOLEAN
    /\ feeding \in BOOLEAN
    /\ \A bytes \in {headerBuf, header, buffer} : bytes \in Seq(Bytes)
    /\ \A i \in DOMAIN sent : sent[i].end \in 1 .. Len(stream)

\* A fresh stream, nothing read of it.
NewStream ==
    /\ stream' = <<>>
    /\ headerAt' = NotWritten
    /\ sent' = <<>>
    /\ taken' = 0
    /\ delivered' = <<>>

\* Mutant: the reader keeps its buffer.
MutResetReader ==
    /\ awaitingHeader' = TRUE
    /\ headerBuf' = <<>>
    /\ header' = <<>>
    /\ feeding' = FALSE
    /\ UNCHANGED buffer

\* The locked part of _on_connected and of _on_disconnected.
ResetReader ==
    /\ awaitingHeader' = TRUE
    /\ headerBuf' = <<>>
    /\ header' = <<>>
    /\ buffer' = <<>>
    /\ feeding' = FALSE

FramingInit ==
    /\ session = 0
    /\ stream = <<>> /\ headerAt = NotWritten /\ sent = <<>> /\ taken = 0
    /\ awaitingHeader = TRUE /\ headerBuf = <<>> /\ header = <<>> /\ buffer = <<>>
    /\ feeding = FALSE /\ delivered = <<>>

-----------------------------------------------------------------------------
(* The Mac's writes.                                                       *)

encrypt(plaintext) == [i \in 1 .. Overhead |-> 0] \o plaintext

\* "<BL": type and sequence number, little-endian
build_packet(ptype, seqno, payload) ==
    LET b == seqno \div Byte
        c == b \div Byte
        d == c \div Byte
    IN  <<ptype, seqno % Byte, b % Byte, c % Byte, d % Byte>> \o payload

frame_packet(packet) == <<Len(packet) % Byte, Len(packet) \div Byte>> \o packet

WriteHeader ==
    /\ headerAt = NotWritten
    /\ headerAt' = Len(stream)
    /\ stream' = stream \o Header
    /\ UNCHANGED <<session, sent, taken, readerVars, delivered>>

\* A capture thread's write, which may overtake the header.
WriteFrame(ptype, plaintext, source) ==
    LET framed == frame_packet(build_packet(ptype, Len(sent), encrypt(plaintext)))
    IN  /\ Len(sent) < MaxFrames
        /\ stream' = stream \o framed
        /\ sent' = Append(sent, [ptype |-> ptype, seqno |-> Len(sent), source |-> source,
                                 end |-> Len(stream \o framed)])
        /\ UNCHANGED <<session, headerAt, taken, readerVars, delivered>>

Write ==
    \/ WriteHeader
    \/ \E r \in Reports : WriteFrame(TYPE_KEYBOARD, r, r)
    \/ \E e \in Motions : WriteFrame(TYPE_POINTER, pack_motion(e), e)

-----------------------------------------------------------------------------
(* The receiver.                                                           *)

Feed(bytes) == buffer' = buffer \o bytes /\ feeding' = TRUE

TakeHeader(bytes) ==
    LET leftover == SubSeq(bytes, STREAM_HEADER_LEN + 1, Len(bytes))
    IN  /\ header' = SubSeq(bytes, 1, STREAM_HEADER_LEN)
        /\ awaitingHeader' = FALSE
        /\ IF leftover # <<>> THEN Feed(leftover) ELSE UNCHANGED <<buffer, feeding>>

\* The next n bytes arrive: _on_raw_data.
Read(n) ==
    LET chunk == SubSeq(stream, taken + 1, taken + n)
    IN  /\ ~feeding
        /\ taken + n <= Len(stream)
        /\ taken' = taken + n
        /\ IF awaitingHeader
           THEN /\ headerBuf' = headerBuf \o chunk
                /\ IF Len(headerBuf') >= STREAM_HEADER_LEN
                   THEN TakeHeader(headerBuf')
                   ELSE UNCHANGED <<awaitingHeader, header, buffer, feeding>>
           ELSE Feed(chunk) /\ UNCHANGED <<awaitingHeader, headerBuf, header>>
        /\ UNCHANGED <<session, macSide, delivered>>

PktLen == buffer[1] + Byte * buffer[2]
Total == LENGTH_SIZE + PktLen

\* Mutant: a packet is whole only when there is something behind it.
MutWhole == Len(buffer) >= LENGTH_SIZE /\ Len(buffer) > Total

\* The buffer begins with a whole packet.
Whole == Len(buffer) >= LENGTH_SIZE /\ Len(buffer) >= Total

Cut == buffer' = SubSeq(buffer, Total + 1, Len(buffer))

\* A turn of feed's loop returns a packet,
FeedPacket ==
    /\ feeding /\ Whole
    /\ PktLen >= HEADER_SIZE
    /\ Cut
    /\ LET packet == SubSeq(buffer, LENGTH_SIZE + 1, Total)
       IN  delivered' = Append(delivered,
               [ptype |-> packet[1],
                seqno |-> packet[2] + Byte * (packet[3] + Byte * (packet[4] + Byte * packet[5])),
                payload |-> SubSeq(packet, HEADER_SIZE + 1, Len(packet))])
    /\ UNCHANGED <<session, macSide, taken, awaitingHeader, headerBuf, header, feeding>>

\* or skips one too short to be one,
FeedShort ==
    /\ feeding /\ Whole
    /\ PktLen < HEADER_SIZE
    /\ Cut
    /\ UNCHANGED <<session, macSide, taken, awaitingHeader, headerBuf, header, feeding,
                   delivered>>

\* or waits for more bytes.
FeedDone ==
    /\ feeding /\ ~Whole
    /\ feeding' = FALSE
    /\ UNCHANGED <<session, macSide, taken, awaitingHeader, headerBuf, header, buffer,
                   delivered>>

Step == (\E n \in 1 .. ChunkLen : Read(n)) \/ FeedPacket \/ FeedShort \/ FeedDone

\* decrypt, with the header of this session
decrypt(payload) == SubSeq(payload, Overhead + 1, Len(payload))

-----------------------------------------------------------------------------
(* Properties.                                                             *)

\* The header was written first.
Aligned == headerAt = 0

\* How many frames lie wholly in the bytes read, and where the last of them ends.
Arrived == Cardinality({i \in DOMAIN sent : sent[i].end <= taken})
ArrivedEnd == IF Arrived = 0 THEN STREAM_HEADER_LEN ELSE sent[Arrived].end

(***************************************************************************)
(* However the bytes are cut into chunks, once the header was written      *)
(* first: the decryptor gets the header of this connection, feed has       *)
(* returned exactly the frames that have wholly arrived, in order, and the *)
(* buffer holds the bytes of the next one - across reconnections that end  *)
(* in the middle of a header or of a frame.                                *)
(***************************************************************************)
Deframed ==
    Aligned /\ ~feeding =>
        /\ awaitingHeader = (taken < STREAM_HEADER_LEN)
        /\ IF awaitingHeader THEN headerBuf = SubSeq(Header, 1, taken) /\ buffer = <<>>
                             ELSE header = Header /\ buffer = SubSeq(stream, ArrivedEnd + 1, taken)
        /\ Len(delivered) = Arrived
        /\ \A i \in 1 .. Arrived : /\ delivered[i].ptype = sent[i].ptype
                                   /\ delivered[i].seqno = sent[i].seqno

(***************************************************************************)
(* A keyboard report arrives as it was sent, and a pointer event with its  *)
(* buttons, and with its movement as far as two signed bytes go.           *)
(***************************************************************************)
ContentArrives ==
    Aligned =>
        \A i \in DOMAIN delivered :
            LET plaintext == decrypt(delivered[i].payload)
                arrived == unpack_motion(plaintext)
                event == sent[i].source
            IN  IF delivered[i].ptype = TYPE_KEYBOARD
                THEN plaintext = event
                ELSE /\ Len(plaintext) >= 7
                     /\ arrived.buttons = event.buttons
                     /\ arrived.dx = clamp(event.dx) /\ arrived.dy = clamp(event.dy)

(***************************************************************************)
(* "scroll_v, scroll_h - signed 8-bit scroll deltas": a scroll that a      *)
(* signed byte can hold arrives as it was captured.                        *)
(***************************************************************************)
ScrollArrives ==
    Aligned =>
        \A i \in DOMAIN delivered :
            LET arrived == unpack_motion(decrypt(delivered[i].payload))
                event == sent[i].source
            IN  delivered[i].ptype = TYPE_POINTER =>
                    /\ event.scroll_v \in SignedByte => arrived.scroll_v = event.scroll_v
                    /\ event.scroll_h \in SignedByte => arrived.scroll_h = event.scroll_h
=============================================================================
