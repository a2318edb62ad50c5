----------------------------- MODULE PageCodecs -----------------------------
(***************************************************************************)
(* The number and byte codecs of KV pages: binary32 to binary16 and back   *)
(* (r4kv/src/f16.rs), the packing of signed codes into little-endian bit   *)
(* fields (r4kv/src/quant.rs), and the lossless XOR/run-length codec       *)
(* (har-kv/src/codec.rs).  A behaviour feeds one input after another; the  *)
(* widths are constants so that every input of a narrow format is tried.   *)
(***************************************************************************)
EXTENDS Integers, SequencesExt

CONSTANTS
    HalfExp, HalfFrac,      \* 5 and 10 bits in binary16
    SingleExp, SingleFrac,  \* 8 and 23 bits in binary32
    GroupSize, CodeBits,    \* 32 codes of 3 or 6 bits
    Codes,                  \* codes to try, within +-(2^(CodeBits-1) - 1)
    CodeUnits,              \* least subnormal halves to a unit of a value to quantize
    ByteValues, MaxRun, MaxSource \* byte values and lengths to try; runs: 65535

VARIABLES number, group, source  \* the inputs
cvars == <<number, group, source>>
Half == [sign : {0, 1}, exp : 0..(2^HalfExp - 1), frac : 0..(2^HalfFrac - 1)]

HalfBias == 2^(HalfExp - 1) - 1
SingleBias == 2^(SingleExp - 1) - 1
MaxHalfExp == 2^HalfExp - 1
MaxSingleExp == 2^SingleExp - 1
Drop == SingleFrac - HalfFrac

H(s, e, f) == [sign |-> s, exp |-> e, frac |-> f]

(* m without its low n bits, rounded to nearest, ties to even.              *)
Rounded(m, n) ==
    LET keep == m \div 2^n
        rem == 2 * (m % 2^n)
    IN keep + (IF rem > 2^n \/ (rem = 2^n /\ keep % 2 = 1) THEN 1 ELSE 0)

(***************************************************************************)
(* f32_to_f16: a carry out of the mantissa goes into the exponent, and a   *)
(* subnormal result rounded up to a full mantissa is the least normal.     *)
(* Eight bits beyond the mantissa nothing can round up (31 = 23 + 8).      *)
(***************************************************************************)
ToHalf(x) ==
    LET e == x.exp - SingleBias
        mant == x.frac + 2^SingleFrac
        r == Rounded(mant, Drop)
        shift == SingleFrac - (HalfBias - 1 + HalfFrac) - e
        kept == Rounded(mant, shift)
        carry == r >= 2^(HalfFrac + 1)
        exp == e + HalfBias + (IF carry THEN 1 ELSE 0)
    IN CASE x.exp = MaxSingleExp ->
              H(x.sign, MaxHalfExp, IF x.frac # 0 THEN 2^(HalfFrac - 1) ELSE 0)
         [] x.exp # MaxSingleExp /\ e > HalfBias -> H(x.sign, MaxHalfExp, 0)
         [] x.exp # MaxSingleExp /\ e \in (1 - HalfBias)..HalfBias ->
              IF exp >= MaxHalfExp THEN H(x.sign, MaxHalfExp, 0)
              ELSE H(x.sign, exp, IF carry THEN 0 ELSE r % 2^HalfFrac)
         [] e < 1 - HalfBias ->
              IF (x.exp = 0 /\ x.frac = 0) \/ shift >= SingleFrac + 8
              THEN H(x.sign, 0, 0)
              ELSE IF kept >= 2^HalfFrac THEN H(x.sign, 1, 0)
              ELSE H(x.sign, 0, kept)

(* f16_to_f32: a subnormal half is renormalised from its highest set bit.   *)
ToSingle(h) ==
    LET t == CHOOSE i \in 0..HalfFrac : 2^i <= h.frac /\ h.frac < 2^(i + 1)
    IN IF h.exp = 0 /\ h.frac = 0 THEN H(h.sign, 0, 0)
       ELSE IF h.exp = 0
       THEN H(h.sign, SingleBias + t - (HalfBias - 1 + HalfFrac),
              (h.frac - 2^t) * 2^(SingleFrac - t))
       ELSE IF h.exp = MaxHalfExp THEN H(h.sign, MaxSingleExp, h.frac * 2^Drop)
       ELSE H(h.sign, h.exp + SingleBias - HalfBias, h.frac * 2^Drop)

-----------------------------------------------------------------------------
(* A byte, or the low one of a wider number, as the set of its bits.        *)
BitsOf(n) == {k \in 0..7 : (n \div 2^k) % 2 = 1}
OfBits(S) == MapThenSumSet(LAMBDA k : 2^k, S)

Byte(bytes, i) == IF i + 1 \in DOMAIN bytes THEN bytes[i + 1] ELSE 0

(* pack_bits: the two's complement field of code i at bit i * CodeBits.     *)
Field(q) == q % 2^CodeBits
Pack(codes) ==
    [b \in 1..((GroupSize * CodeBits) \div 8) |->
       LET Part(i) == LET pos == (i - 1) * CodeBits - 8 * (b - 1) IN
                      IF pos >= 8 \/ pos + CodeBits <= 0 THEN 0
                      ELSE IF pos >= 0 THEN (Field(codes[i]) * 2^pos) % 256
                      ELSE Field(codes[i]) \div 2^(-pos)
       IN OfBits(UNION {BitsOf(Part(i)) : i \in 1..GroupSize})]

\* Variant: the field is not sign extended.
SignedNot(field) == field

Signed(field) == IF field >= 2^(CodeBits - 1) THEN field - 2^CodeBits ELSE field

(* unpack_bits: a field lies in one byte or in two.                         *)
Unpack(bytes) ==
    [i \in 1..GroupSize |->
       LET pos == (i - 1) * CodeBits
           off == pos % 8
           low == Byte(bytes, pos \div 8) \div 2^off
           high == IF off + CodeBits > 8
                   THEN Byte(bytes, pos \div 8 + 1) * 2^(8 - off) ELSE 0
       IN Signed(OfBits(BitsOf(low) \cup BitsOf(high)) % 2^CodeBits)]

(***************************************************************************)
(* quantize_group: values become codes of at most maxCode, in steps of the *)
(* largest magnitude over maxCode; round() takes halves away from zero.    *)
(* The codes are taken with the step as it is, an exact fraction here      *)
(* where the code has a binary32; written with them, and decoded with, is  *)
(* the step's nearest half.                                                *)
(***************************************************************************)
MaxCodes == [q8 |-> 127, q6 |-> 31, q4 |-> 7, q3 |-> 3]
Magnitude(v) == IF v < 0 THEN -v ELSE v
Peak(values) == Max({Magnitude(values[i]) : i \in DOMAIN values})

Quantize(values, maxCode) ==
    LET peak == Peak(values)
        Code(v) == Min({maxCode, (2 * Magnitude(v) * maxCode + peak) \div (2 * peak)})
    IN [i \in DOMAIN values |-> IF peak = 0 THEN 0
                                ELSE IF values[i] < 0 THEN -Code(values[i]) ELSE Code(values[i])]

(* The half nearest to n/d least subnormals, in least subnormals, and the   *)
(* distance of two halves there, for n/d below the largest half.            *)
HalfUlp(n, d) == 2^Max({0} \cup {e \in 1..(MaxHalfExp - 2) : n >= d * 2^(HalfFrac + e)})
NearestEven(n, d) ==
    LET rem == 2 * (n % d)
    IN n \div d + (IF rem > d \/ (rem = d /\ (n \div d) % 2 = 1) THEN 1 ELSE 0)
HalfStep(n, d) == HalfUlp(n, d) * NearestEven(n, d * HalfUlp(n, d))

(* Q4: two nibbles to a byte, of two's complement and clamped when read.    *)
PackNibbles(codes) == [j \in 1..(Len(codes) \div 2) |->
                          (codes[2 * j - 1] % 16) + (codes[2 * j] % 16) * 16]
UnpackNibbles(bytes) ==
    LET Nibble(i) == (bytes[(i + 1) \div 2] \div (IF i % 2 = 1 THEN 1 ELSE 16)) % 16
        Code(n) == IF n >= 8 THEN n - 16 ELSE n
    IN [i \in 1..(2 * Len(bytes)) |-> Max({-MaxCodes.q4, Code(Nibble(i))})]

(* Q8: a byte to a code.                                                    *)
PackBytes(codes) == [i \in DOMAIN codes |-> codes[i] % 256]
UnpackBytes(bytes) == [i \in DOMAIN bytes |-> IF bytes[i] >= 128 THEN bytes[i] - 256 ELSE bytes[i]]

-----------------------------------------------------------------------------
Xor(a, b) == OfBits(SymDiff(BitsOf(a), BitsOf(b)))

DeltaEncode(s) == [i \in DOMAIN s |-> Xor(s[i], IF i = 1 THEN 0 ELSE s[i - 1])]

DeltaDecode(d) == LET f[i \in 0..Len(d)] == IF i = 0 THEN 0 ELSE Xor(d[i], f[i - 1])
                  IN [i \in DOMAIN d |-> f[i]]

(* rle_encode at the head of s: a run of zeros, or a literal that ends      *)
(* before the next two zeros in a row; neither is longer than MaxRun.       *)
RunLength(s) ==
    LET InRun(i) == IF s[1] = 0 THEN s[i] = 0
                    ELSE s[i] # 0 \/ i = Len(s) \/ s[i + 1] # 0
    IN Max({n \in 0..Min({Len(s), MaxRun}) : \A i \in 1..n : InRun(i)})

(* A record: the tag, the run length (a 16-bit field), the literal bytes.   *)
RleEncode[s \in Seq(Nat)] ==
    IF s = <<>> THEN <<>>
    ELSE LET n == RunLength(s) IN
         (IF s[1] = 0 THEN <<0, n>> ELSE <<1, n>> \o SubSeq(s, 1, n))
           \o RleEncode[SubSeq(s, n + 1, Len(s))]

RleDecode[r \in Seq(Nat)] ==
    IF r = <<>> THEN <<>>
    ELSE IF r[1] = 0 THEN [i \in 1..r[2] |-> 0] \o RleDecode[SubSeq(r, 3, Len(r))]
    ELSE SubSeq(r, 3, 2 + r[2]) \o RleDecode[SubSeq(r, 3 + r[2], Len(r))]

Encode(s) == RleEncode[DeltaEncode(s)]
Decode(r) == DeltaDecode(RleDecode[r])

-----------------------------------------------------------------------------
CInit == /\ number = [sign |-> 0, exp |-> 0, frac |-> 0]
         /\ group = [i \in 1..GroupSize |-> 0] /\ source = <<>>

NextNumber ==
    /\ \/ /\ number.frac < 2^SingleFrac - 1
          /\ number' = [number EXCEPT !.frac = @ + 1]
       \/ /\ number.frac = 0 /\ number.exp < MaxSingleExp
          /\ number' = [number EXCEPT !.exp = @ + 1]
       \/ /\ number.frac = 0 /\ number.exp = 0
          /\ number' = [number EXCEPT !.sign = 1]
    /\ UNCHANGED <<group, source>>
NextGroup == /\ \E i \in 1..GroupSize, q \in Codes :
                   /\ \A j \in i..GroupSize : group[j] = 0
                   /\ group' = [group EXCEPT ![i] = q]
             /\ UNCHANGED <<number, source>>
NextSource == /\ Len(source) < MaxSource
              /\ \E b \in ByteValues : source' = Append(source, b)
              /\ UNCHANGED <<number, group>>

-----------------------------------------------------------------------------
(* The magnitude of a finite half or single in units of the least subnormal *)
(* half, times 2^Scale: the reference the conversion is measured against.   *)
Scale == SingleFrac + 8
HalfUnits(h) == IF h.exp = 0 THEN h.frac * 2^Scale
                ELSE (2^HalfFrac + h.frac) * 2^(h.exp - 1 + Scale)
SingleUnits(x) ==
    LET exact == x.exp - SingleBias - SingleFrac + (HalfBias - 1 + HalfFrac) + Scale
        up == Min({exact, MaxHalfExp + Scale})  \* far past the largest half
        m == IF x.exp = 0 THEN 2 * x.frac ELSE x.frac + 2^SingleFrac
    IN IF up >= 0 THEN m * 2^up ELSE m \div 2^(-up)

Dist(a, b) == IF a > b THEN a - b ELSE b - a

(***************************************************************************)
(* f32_to_f16 is "round-to-nearest-even": no other finite half is nearer   *)
(* to the number, and of two equally near the one with the even fraction   *)
(* is taken; it overflows to infinity only from half a step past the       *)
(* largest half; every half converted to binary32 comes back unchanged.    *)
(***************************************************************************)
NearestHalf ==
    LET x == number
        h == ToHalf(x)
        Finite == {g \in Half : g.sign = x.sign /\ g.exp < MaxHalfExp}
        u == SingleUnits(x)
        largest == H(x.sign, MaxHalfExp - 1, 2^HalfFrac - 1)
        past == HalfUnits(largest) + 2^(MaxHalfExp - 2 + Scale) \div 2
    IN /\ h \in Half /\ h.sign = x.sign
       /\ x.exp = MaxSingleExp =>
            h.exp = MaxHalfExp /\ (h.frac = 0 <=> x.frac = 0)
       /\ x.exp < MaxSingleExp =>
            /\ h.exp = MaxHalfExp <=> u >= past
            /\ h.exp = MaxHalfExp => h.frac = 0
            /\ h.exp < MaxHalfExp =>
                 \A g \in Finite \ {h} :
                    \/ Dist(HalfUnits(h), u) < Dist(HalfUnits(g), u)
                    \/ /\ Dist(HalfUnits(h), u) = Dist(HalfUnits(g), u)
                       /\ h.frac % 2 = 0
       /\ h.exp < MaxHalfExp \/ h.frac = 0 => ToHalf(ToSingle(h)) = h

(***************************************************************************)
(* What is packed or encoded is what is unpacked or decoded: codes of      *)
(* either sign across byte boundaries, and byte strings whose runs reach   *)
(* the longest length a record can hold.  Quantized in any format a value  *)
(* comes back on its own side of zero and within half a step and, for each *)
(* step of its code, half the distance of two halves at the step: the      *)
(* largest has the largest code but need not come back exactly, and all    *)
(* come back as zero just when the step is at most half a least subnormal. *)
(***************************************************************************)
CodecsRoundTrip ==
    /\ Unpack(Pack(group)) = group
    /\ Decode(Encode(source)) = source
    /\ \A format \in DOMAIN MaxCodes :
         LET m == MaxCodes[format]
             codes == Quantize(group, m)
             read == CASE format = "q8" -> UnpackBytes(PackBytes(codes))
                       [] format = "q4" -> UnpackNibbles(PackNibbles(codes))
                       [] OTHER -> codes  \* packed as Pack packs them
             peak == Peak(group)
         IN \A u \in CodeUnits :
              LET step == HalfStep(peak * u, m)
                  Error(i) == 2 * m * Dist(group[i] * u, read[i] * step)
              IN /\ \A i \in DOMAIN group :
                      /\ Error(i) <= peak * u + Magnitude(read[i]) * m * HalfUlp(peak * u, m)
                      /\ read[i] * group[i] >= 0
                      /\ Magnitude(group[i]) = peak /\ peak > 0 => Magnitude(read[i]) = m
                 /\ step = 0 <=> 2 * peak * u <= m
=============================================================================
