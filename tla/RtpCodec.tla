------------------------------ MODULE RtpCodec ------------------------------
(***************************************************************************)
(* SIPEngine/sound_conv.c as the two audio threads of audio.c use it: a    *)
(* 16-bit sample is packed into the 8-bit code of the negotiated payload   *)
(* (0 is mu-law, every other one A-law) and unpacked by the far end.       *)
(*                                                                         *)
(* Shifts and masks of the non-negative ints are \div and % by powers of   *)
(* two.                                                                    *)
(***************************************************************************)
EXTENDS Integers, Bitwise

Short == -32768 .. 32767

-----------------------------------------------------------------------------
(* sound_conv.c. *)

\* v has a bit set from the one worth lo up to the one below hi.
HasBits(v, lo, hi) == (v % hi) \div lo # 0

val_seg(val) ==
    LET v7 == val \div 128
        r4 == HasBits(v7, 16, 256)
        v4 == IF r4 THEN v7 \div 16 ELSE v7
        r2 == HasBits(v4, 4, 16)
        v2 == IF r2 THEN v4 \div 4 ELSE v4
        r1 == HasBits(v2, 2, 4)
    IN  (IF r4 THEN 4 ELSE 0) + (IF r2 THEN 2 ELSE 0) + (IF r1 THEN 1 ELSE 0)

\* (seg << 4) | ((m >> (seg + 3)) & 0x0f)
Packed(m) ==
    LET seg == val_seg(m)
    IN  seg * 16 + ((m \div 2^(seg + 3)) % 16)

Least(a, b) == IF a < b THEN a ELSE b

\* Faulty variant of s16_to_alaw: the most negative sample is not clipped.
s16_to_alaw_unclipped(pcm) ==
    LET mask == IF pcm >= 0 THEN 213 ELSE 85
        m == IF pcm >= 0 THEN pcm ELSE -pcm
        aval == IF m < 256 THEN m \div 16 ELSE Packed(m)
    IN  (aval % 256) ^^ mask

s16_to_alaw(pcm) ==
    LET mask == IF pcm >= 0 THEN 213 ELSE 85
        m == IF pcm >= 0 THEN pcm ELSE Least(-pcm, 32767)
        aval == IF m < 256 THEN m \div 16 ELSE Packed(m)
    IN  aval ^^ mask

alaw_to_s16(code) ==
    LET a == code ^^ 85
        t == a % 128
        seg == t \div 16
        mag == IF t < 16 THEN t * 16 + 8
                         ELSE ((t % 16) * 16 + 264) * 2^(seg - 1)
    IN  IF a >= 128 THEN mag ELSE -mag

s16_to_ulaw(pcm) ==
    LET mask == IF pcm < 0 THEN 127 ELSE 255
        m == Least(132 + (IF pcm < 0 THEN -pcm ELSE pcm), 32767)
    IN  Packed(m) ^^ mask

ulaw_to_s16(code) ==
    LET u == 255 - code
        t == ((u % 16) * 8 + 132) * 2^((u % 128) \div 16)
    IN  IF u >= 128 THEN 132 - t ELSE t - 132

-----------------------------------------------------------------------------
(* audio.c: which law a payload stands for. *)

\* rtpAudioSend.
Encode(payload, pcm) == IF payload = 0 THEN s16_to_ulaw(pcm) ELSE s16_to_alaw(pcm)

\* rtpAudioRecv.
Decode(payload, code) == IF payload = 0 THEN ulaw_to_s16(code) ELSE alaw_to_s16(code)

\* What the far end hears of a sample.
Heard(payload, pcm) == Decode(payload, Encode(payload, pcm))

-----------------------------------------------------------------------------
Magnitude(x) == IF x < 0 THEN -x ELSE x
Most(a, b) == IF a > b THEN a ELSE b

\* What is heard differs from what was said by at most a 32nd of it: of the
\* sample itself for A-law (of 256 when it is quieter), of the sample with its
\* bias for mu-law.
Close(payload, pcm) ==
    Magnitude(Heard(payload, pcm) - pcm) <=
        IF payload = 0 THEN (Magnitude(pcm) + 132) \div 32
                       ELSE Most(8, Magnitude(pcm) \div 32)

\* A second pass changes nothing more, although mu-law has two codes for zero.
Stable(payload, pcm) ==
    Heard(payload, Heard(payload, pcm)) = Heard(payload, pcm)

\* The order of two neighbours is kept.
Ordered(payload, pcm) ==
    pcm < 32767 => Heard(payload, pcm + 1) >= Heard(payload, pcm)
=============================================================================
