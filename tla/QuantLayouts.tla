---------------------------- MODULE QuantLayouts ----------------------------
(***************************************************************************)
(* Where the kernels find a weight.  The serving reference (q4k.rs, q40.rs,*)
(* attention.rs), the native decoders and the compute shaders each address *)
(* the packed blocks of the quantized formats in their own way: by index,  *)
(* by loops over half blocks, by 32-bit words staged in shared memory.  A  *)
(* weight here is the bits it is made of, each bit a byte address and a    *)
(* position in the byte; what is then computed from them is the same       *)
(* formula everywhere.  Bytes that no lane has staged are Unloaded.        *)
(***************************************************************************)
EXTENDS Integers, SequencesExt

Unloaded == -1

BlockBytes == [Q4_K |-> 144, Q6_K |-> 210, Q8_0 |-> 34, Q4_0 |-> 18]
BlockValues == [Q4_K |-> 256, Q6_K |-> 256, Q8_0 |-> 32, Q4_0 |-> 32]

(* The bits first..last of a byte, lowest first.                            *)
BitRun(byte, first, last) == [i \in 1..(last - first + 1) |-> <<byte, first + i - 1>>]
Nibble(byte, high) == IF high THEN BitRun(byte, 4, 7) ELSE BitRun(byte, 0, 3)
Octet(byte) == BitRun(byte, 0, 7)
Half(byte) == Octet(byte) \o Octet(byte + 1)

-----------------------------------------------------------------------------
(* Q4_K: two halves, twelve bytes of six-bit scales and minima, the codes.  *)
ScaleAt(at, index) ==
    IF index < 4 THEN BitRun(at + 4 + index, 0, 5)
                 ELSE BitRun(at + 4 + index + 4, 0, 3) \o BitRun(at + 4 + index - 4, 6, 7)
MinAt(at, index) ==
    IF index < 4 THEN BitRun(at + 4 + index + 4, 0, 5)
                 ELSE BitRun(at + 4 + index + 4, 4, 7) \o BitRun(at + 4 + index, 6, 7)

(* By index, as the reference and the shaders do.                           *)
Q4kValue(at, index) ==
    LET group == index \div 32
        lane == index % 64
    IN [d |-> Half(at), dmin |-> Half(at + 2),
        scale |-> ScaleAt(at, group), min |-> MinAt(at, group),
        code |-> Nibble(at + 16 + (index \div 64) * 32 + (lane % 32), lane >= 32)]

(* By loops, as the native decoders do: each step of 64 values takes 32     *)
(* bytes of codes and two scales.                                           *)
Q4kLoop(at) ==
    [index \in 0..255 |->
        LET step == index \div 64
            upper == index % 64 >= 32
            s == 2 * step + (IF upper THEN 1 ELSE 0)
        IN [d |-> Half(at), dmin |-> Half(at + 2),
            scale |-> ScaleAt(at, s), min |-> MinAt(at, s),
            code |-> Nibble(at + 16 + 32 * step + (index % 32), upper)]]

(* Q6_K: low nibbles, high pairs, signed scales, one half.                  *)
Q6kLane(at, lane) ==
    LET half == lane \div 128
        group == (lane % 128) \div 32
        l == lane % 32
        low == at + half * 64 + l + (IF group \in {1, 3} THEN 32 ELSE 0)
    IN [d |-> Half(at + 208), dmin |-> <<>>, min |-> <<>>,
        scale |-> Octet(at + 192 + half * 8 + 2 * group + l \div 16),
        code |-> Nibble(low, group >= 2)
                 \o BitRun(at + 128 + half * 32 + l, 2 * group, 2 * group + 1)]

(* The native decoder writes four values per lane of a half, at distance 32.*)
Q6kLoop(at) ==
    LET value(half, lane, k) ==
            [d |-> Half(at + 208), dmin |-> <<>>, min |-> <<>>,
             scale |-> Octet(at + 192 + half * 8 + lane \div 16 + 2 * k),
             code |-> Nibble(at + half * 64 + lane + 32 * (k % 2), k >= 2)
                      \o BitRun(at + 128 + half * 32 + lane, 2 * k, 2 * k + 1)]
        written == {<<half * 128 + 32 * k + lane, half, lane, k>> :
                        half \in 0..1, lane \in 0..31, k \in 0..3}
    IN [index \in 0..255 |-> LET w == CHOOSE w \in written : w[1] = index
                             IN value(w[2], w[3], w[4])]

Simple(d, code) == [d |-> d, dmin |-> <<>>, min |-> <<>>, scale |-> <<>>, code |-> code]
Q80Value(at, index) == Simple(Half(at), Octet(at + 2 + index))
Q40Value(at, index) == Simple(Half(at), Nibble(at + 2 + index \div 2, index % 2 = 1))

-----------------------------------------------------------------------------
(* The shaders' addresses.  A half is cut out of a 32-bit word: the first   *)
(* or the second one.                                                       *)
HalfOfWord(word, second) == Half(4 * word + (IF second THEN 2 ELSE 0))
ShaderHalf(base, offset) == HalfOfWord((base + offset) \div 4, (offset \div 2) % 2 = 1)
FirstHalf(base) == HalfOfWord(base \div 4, FALSE)

Q4kShader(base, index) ==
    [Q4kValue(base, index) EXCEPT !.d = ShaderHalf(base, 0), !.dmin = ShaderHalf(base, 2)]
Q80Shader(base, index) == Simple(FirstHalf(base), Octet(base + 2 + index))

(* The key and value rows of flash_decode_q8 and of its reference: eight    *)
(* blocks to a row of 272 bytes; the half is chosen by the block's place.   *)
KvValue(base, index) ==
    LET block == (index \div 32) * 34
    IN Simple(HalfOfWord(base \div 4 + block \div 4, block % 4 # 0),
              Octet(base + block + 2 + (index % 32)))

(* The batched kernels stage the row in shared memory first: lane w copies  *)
(* word w, so a word beyond the 256 lanes is not loaded.                    *)
LoadLanes == 256
Through(value, f(_)) ==
    [field \in DOMAIN value |->
        [i \in DOMAIN value[field] |-> <<f(value[field][i][1]), value[field][i][2]>>]]
Staged(words, rowByte, byte) == IF byte \div 4 < Min({words, LoadLanes}) THEN rowByte + byte ELSE Unloaded

\* Variant: the blocks are uploaded as they are, without the padding.
GpuStoragePacked(byte) == byte

(* Q4_0 blocks are padded to five words when they are uploaded: the byte of *)
(* the packed weights at a byte of the upload.                              *)
GpuStorage(byte) == IF byte % 20 < 18 THEN (byte \div 20) * 18 + (byte % 20) ELSE Unloaded

Q4kBatched(row, bpr, block, index) ==
    Through(Q4kShader(block * 144, index), LAMBDA byte : Staged(36 * bpr, row * bpr * 144, byte))
Q40Batched(row, bpr, block, index) ==
    Through(Simple(FirstHalf(block * 20), Q40Value(block * 20, index).code),
            LAMBDA byte : GpuStorage(Staged(5 * bpr, row * bpr * 20, byte)))

-----------------------------------------------------------------------------
(* What the kernels read for a value of a block of a row of bpr blocks.     *)
Reference(format, at, index) ==
    CASE format = "Q4_K" -> Q4kValue(at, index)
      [] format = "Q6_K" -> Q6kLane(at, index)
      [] format = "Q8_0" -> Q80Value(at, index)
      [] format = "Q4_0" -> Q40Value(at, index)

Formats == [q4k_native |-> "Q4_K", q4k_gemv |-> "Q4_K", q4k_batched |-> "Q4_K", q6k_native |-> "Q6_K",
            q8_kv |-> "Q8_0", q8_gemv |-> "Q8_0", q40_batched |-> "Q4_0"]
Kernels == DOMAIN Formats

Read(kernel, row, bpr, block, index) ==
    LET at == (row * bpr + block) * BlockBytes[Formats[kernel]]
    IN CASE kernel = "q4k_native"  -> Q4kLoop(at)[index]
         [] kernel = "q4k_gemv"    -> Q4kShader(at, index)
         [] kernel = "q4k_batched" -> Q4kBatched(row, bpr, block, index)
         [] kernel = "q6k_native"  -> Q6kLoop(at)[index]
         [] kernel = "q8_kv"       -> KvValue(row * 272, block * 32 + index)
         [] kernel = "q8_gemv"     -> Q80Shader(at, index)
         [] kernel = "q40_batched" -> Q40Batched(row, bpr, block, index)

(***************************************************************************)
(* Every bit of a block belongs to exactly one part of one value: no two   *)
(* codes share a bit, no scale runs into another, and nothing is left.     *)
(***************************************************************************)
BitsUsedOnce(format) ==
    LET values == [i \in 0..(BlockValues[format] - 1) |-> Reference(format, 0, i)]
        parts == UNION {{values[i][field] : field \in DOMAIN values[i]} : i \in DOMAIN values}
    IN /\ UNION {Range(part) : part \in parts} = (0..(BlockBytes[format] - 1)) \X (0..7)
       /\ Cardinality(UNION {{part} \X Range(part) : part \in parts}) = 8 * BlockBytes[format]
       /\ Cardinality({values[i].code : i \in DOMAIN values}) = BlockValues[format]

(* The kernel reads the bits the format's reference reads, for every value  *)
(* of the row.                                                              *)
ReadsItsRow(kernel, row, bpr) ==
    LET format == Formats[kernel]
    IN \A block \in 0..(bpr - 1), index \in 0..(BlockValues[format] - 1) :
         Read(kernel, row, bpr, block, index)
           = Reference(format, (row * bpr + block) * BlockBytes[format], index)

(***************************************************************************)
(* q4k_batched at eight blocks to a row, the most it admits: 256 lanes     *)
(* load 256 of the row's 288 words, so the codes of the last block are     *)
(* what shared memory happened to hold.  All else is read as it should be. *)
(***************************************************************************)
LeavesLastCodes(row) ==
    \A block \in 0..7, index \in 0..255 :
        LET read == Read("q4k_batched", row, 8, block, index)
            right == Reference("Q4_K", (row * 8 + block) * 144, index)
        IN IF block < 7 THEN read = right
           ELSE /\ \A field \in DOMAIN right \ {"code"} : read[field] = right[field]
                /\ \A part \in Range(read.code) : part[1] = Unloaded
=============================================================================
