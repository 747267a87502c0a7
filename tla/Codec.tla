------------------------------- MODULE Codec -------------------------------
(***************************************************************************)
(* Values of integer nodes between a text, the server and the trace        *)
(* (client.py coerce_text, decode_value, encode_value).  A number is a      *)
(* fraction [n, d], d > 0: a float's 53 bits are not modelled.  The        *)
(* theorems of reading and writing are assumptions, evaluated on bounded   *)
(* numbers by the module that extends this one.                            *)
(***************************************************************************)
EXTENDS Integers

CONSTANTS
    Numbers,    \* numbers a text or a server gives
    Scales,     \* fractions, 0 among them
    Low, High   \* the range of the node's datatype

Whole(i) == [n |-> i, d |-> 1]
IsWhole(q) == q.n % q.d = 0
Abs(i) == IF i < 0 THEN -i ELSE i

\* int(): towards zero.
Trunc(q) == IF q.n < 0 THEN -((-q.n) \div q.d) ELSE q.n \div q.d

Times(p, q) == [n |-> p.n * q.n, d |-> p.d * q.d]
Divided(p, q) == IF q.n < 0 THEN [n |-> -(p.n * q.d), d |-> p.d * (-q.n)]
              ELSE [n |-> p.n * q.d, d |-> p.d * q.n]

\* A text that is not an integer is parsed as a float and truncated.
CoerceText(q) == Trunc(q)

\* The decoded value, or none: a value out of range is refused, not wrapped.
Decode(value, scale) ==
    LET out == IF scale = Whole(1) THEN Trunc(value) ELSE Trunc(Times(value, scale))
    IN  {i \in {out} : Low <= i /\ i <= High}

\* A scale of 0 cannot be divided by: the value is written as it is.
Encode(value, scale) ==
    IF scale.n = 0 \/ scale = Whole(1) THEN value ELSE Trunc(Divided(Whole(value), scale))

\* What is written is what is read back: exactly without a scale, else off by less than one
\* step of the scale and the truncation; with a scale below 1 and no remainder exactly.
ReadsBack(value, scale) ==
    \A back \in Decode(Whole(Encode(value, scale)), scale) :
        /\ scale = Whole(1) => back = value
        /\ scale.n # 0 => Abs(value - back) * scale.d < Abs(scale.n) + scale.d
        /\ scale.n # 0 /\ IsWhole(Divided(Whole(value), scale)) => back = value

\* A read never invents a sign or a size: the decoded value lies between 0 and the scaled one.
ReadsWithin(value, scale) ==
    \A out \in Decode(value, scale) :
        LET exact == Times(value, scale)
        IN  Abs(out) * exact.d <= Abs(exact.n) /\ Abs(out * exact.d - exact.n) < exact.d

\* A range that holds 0, as every integer type does, and fractions.
ASSUME CodecAssumption ==
    /\ Low \in Int /\ High \in Int /\ Low <= 0 /\ 0 <= High
    /\ \A q \in Numbers \cup Scales : q.n \in Int /\ q.d \in Nat \ {0}

ASSUME CodecReadsBack ==
    \A text \in Numbers, scale \in Scales :
        Low <= CoerceText(text) /\ CoerceText(text) <= High => ReadsBack(CoerceText(text), scale)

ASSUME CodecReadsWithin == \A value \in Numbers, scale \in Scales : ReadsWithin(value, scale)
=============================================================================
