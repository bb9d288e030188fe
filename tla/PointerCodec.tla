---------------------------- MODULE PointerCodec ----------------------------
(***************************************************************************)
(* How a pointer event crosses the wire: the "<BhhBB" that mac-sender      *)
(* main.py packs and win-receiver main.py unpacks.                         *)
(***************************************************************************)
EXTENDS Integers, Sequences

CONSTANT Byte   \* how many values a byte has: 256

ASSUME ByteAssumption == Byte \in Nat \ {0} /\ Byte % 2 = 0

Bytes == 0 .. Byte - 1
Short == Byte * Byte
Half == (Byte \div 2) * Byte
SignedByte == -(Byte \div 2) .. (Byte \div 2) - 1

\* Mutant: the bounds of an unsigned short.
MutClamp(v) == IF v < 0 THEN 0 ELSE IF v > Short - 1 THEN Short - 1 ELSE v

\* max(-32768, min(32767, v))
clamp(v) == IF v < -Half THEN -Half ELSE IF v > Half - 1 THEN Half - 1 ELSE v

\* v & 0xFF
low_byte(v) == v % Byte

\* "h", little-endian two's complement
pack_short(v) == <<(v % Short) % Byte, (v % Short) \div Byte>>

unpack_short(lo, hi) == LET u == lo + Byte * hi IN IF u >= Half THEN u - Short ELSE u

Motion(b, x, y, v, h) == [buttons |-> b, dx |-> x, dy |-> y, scroll_v |-> v, scroll_h |-> h]

\* struct.pack("<BhhBB", ...)
pack_motion(e) ==
    LET x == pack_short(clamp(e.dx))
        y == pack_short(clamp(e.dy))
    IN  <<low_byte(e.buttons), x[1], x[2], y[1], y[2],
          low_byte(e.scroll_v), low_byte(e.scroll_h)>>

\* struct.unpack("<BhhBB", plaintext[:7])
unpack_motion(p) ==
    Motion(p[1], unpack_short(p[2], p[3]), unpack_short(p[4], p[5]), p[6], p[7])

\* What the receiver makes of an event: movement clamped, with its sign;
\* scrolling modulo a byte, without it, whatever the documents promise.
AsReceived(e) ==
    Motion(e.buttons % Byte, clamp(e.dx), clamp(e.dy), e.scroll_v % Byte, e.scroll_h % Byte)
=============================================================================
