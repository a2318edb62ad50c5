------------------------------ MODULE R4kvPages ------------------------------
(***************************************************************************)
(* The KV page as it is stored outside VRAM and restored into a live       *)
(* stream (r4kv/src/page.rs), and the manifest that must come with a       *)
(* captured attention tensor (r4kv/src/capture.rs).                        *)
(*                                                                         *)
(* A stored page is a sequence of cells: one for each field of the header, *)
(* the header's CRC, the bytes of the body, the body's CRC.  A CRC is the  *)
(* cells it is taken of, so damage that leaves a CRC32C unchanged by       *)
(* chance is left out.  The epoch, the sketch offset and the flags are     *)
(* carried like any field and tested by nothing; the reserved zeros are    *)
(* left out with them.                                                     *)
(***************************************************************************)
EXTENDS Integers, SequencesExt

WireFormats == 0..4       \* Fmt::from_u8: F16, Q8, Q6, Q4, Q3
Anything == 99            \* None: any format, any generation
Unreadable == -1          \* what damage puts in a cell: a number no page has
Magic == 52

Num(n) == [num |-> n]
Crc(cells) == [crc |-> cells]

(* to_bytes: magic and version, then the fields.                            *)
HeaderCells(h, length) ==
    <<Num(Magic), Num(1), Num(h.prefix), Num(h.start), Num(h.pos), Num(h.lo), Num(h.hi),
      Num(h.kFmt), Num(h.vFmt), Num(h.generation), Num(length)>>
HeaderLen == 12  \* those and their CRC

(* pack_page, of a header that declares the length of the body.             *)
PackPage(h, body) ==
    LET head == HeaderCells(h, Len(body))
        cells == [i \in DOMAIN body |-> Num(body[i])]
    IN Append(head, Crc(head)) \o Append(cells, Crc(cells))

HeaderOf(buf) ==
    [prefix |-> buf[3], start |-> buf[4], pos |-> buf[5], lo |-> buf[6], hi |-> buf[7],
     kFmt |-> buf[8], vFmt |-> buf[9], generation |-> buf[10], length |-> buf[11]]
BodyOf(buf) == SubSeq(buf, HeaderLen + 1, Len(buf) - 1)

(* The first test that fails names the error.                               *)
FirstError(tests) ==
    LET failed == {i \in DOMAIN tests : tests[i][2]}
    IN IF failed = {} THEN "Ok" ELSE tests[Min(failed)][1]

(* unpack_page with from_bytes.                                             *)
UnpackError(buf) ==
    IF Len(buf) < HeaderLen + 1 THEN "LengthMismatch"
    ELSE FirstError(<<
        <<"BadMagic", buf[1] # Num(Magic)>>,
        <<"BadVersion", buf[2] # Num(1)>>,
        <<"HeaderChecksumMismatch", buf[HeaderLen] # Crc(SubSeq(buf, 1, HeaderLen - 1))>>,
        <<"FormatRefused", ~({buf[8], buf[9]} \subseteq {Num(f) : f \in WireFormats})>>,
        <<"LengthMismatch", Num(Len(BodyOf(buf))) # buf[11]>>,
        <<"PayloadChecksumMismatch", Last(buf) # Crc(BodyOf(buf))>> >>)

(* check_restore, of a header whose checksum is right: the numbers are back.*)
Refused(want, got) == want # Anything /\ want # got
RestoreCheck(h, exp, body) ==
    FirstError(<<
        <<"LengthMismatch", Len(body) # h.length.num>>,
        <<"PrefixMismatch", h.prefix.num # exp.prefix>>,
        <<"TokenRangeMismatch", h.start.num # exp.start>>,
        <<"PosMismatch", h.pos.num # exp.pos>>,
        <<"LayerRangeInsufficient", h.lo.num > exp.lo \/ h.hi.num < exp.hi>>,
        <<"FormatRefused", Refused(exp.kFmt, h.kFmt.num) \/ Refused(exp.vFmt, h.vFmt.num)>>,
        <<"GenerationRejected", Refused(exp.generation, h.generation.num)>> >>)

Restores(buf, exp) == /\ UnpackError(buf) = "Ok"
                      /\ RestoreCheck(HeaderOf(buf), exp, BodyOf(buf)) = "Ok"

-----------------------------------------------------------------------------
(* What may become of a stored page: nothing, a part of it lost at the end, *)
(* one cell damaged, or the first n cells of another written over it.       *)
Truncated(buf) == {SubSeq(buf, 1, n) : n \in 0..(Len(buf) - 1)}
Damaged(buf) == {[buf EXCEPT ![i] = Num(Unreadable)] : i \in DOMAIN buf}
Torn(old, new, n) == SubSeq(new, 1, n) \o SubSeq(old, n + 1, Len(old))

(* What a live stream may attend to: the positions from pos on of these     *)
(* layers of this prefix, in these formats.                                 *)
Serves(h, exp) ==
    /\ h.prefix = exp.prefix /\ h.start = exp.start /\ h.pos = exp.pos
    /\ exp.lo..exp.hi \subseteq h.lo..h.hi
    /\ exp.kFmt \in {h.kFmt, Anything} /\ exp.vFmt \in {h.vFmt, Anything}
    /\ exp.generation \in {h.generation, Anything}

(***************************************************************************)
(* page.rs, "FAIL CLOSED on any mismatch": a page restores into exactly    *)
(* the streams it serves; damaged in a cell or cut short it restores into  *)
(* none; and where one page was partly written over another, what restores *)
(* is a whole header of the two and a whole body of the two.  No checksum  *)
(* spans both, so they need not be of the same page.                       *)
(***************************************************************************)
PageFailsClosed(old, new, exp) ==
    LET a == PackPage(old.header, old.body)
        b == PackPage(new.header, new.body)
        HeadOf(buf) == SubSeq(buf, 1, HeaderLen)
    IN /\ Restores(a, exp) <=> Serves(old.header, exp)
       /\ \A buf \in Truncated(a) \cup Damaged(a) : ~Restores(buf, exp)
       /\ \A n \in 0..Min({Len(a), Len(b)}) :
            LET buf == Torn(a, b, n) IN
            Restores(buf, exp) => /\ HeadOf(buf) \in {HeadOf(a), HeadOf(b)}
                                  /\ BodyOf(buf) \in {BodyOf(a), BodyOf(b)}

-----------------------------------------------------------------------------
(***************************************************************************)
(* CaptureManifest::validate.  m: q, kv heads, the map from query heads    *)
(* (from 0) to key heads, the counts of positions, the origin of each      *)
(* position and whether it has a page, whether post-softmax probabilities  *)
(* are included, the tensors; payloads: the bytes held of each tensor.     *)
(* The tests of documentation fields that are merely present are left out. *)
(***************************************************************************)
ElementBytes == [f32 |-> 4, f16 |-> 2, bf16 |-> 2]

TensorValid(t, payloads) ==
    /\ t.dtype \in DOMAIN ElementBytes
    /\ t.bytes = t.elements * ElementBytes[t.dtype]
    /\ t.name \in DOMAIN payloads /\ payloads[t.name] = t.bytes

Validates(m, payloads) ==
    /\ m.q > 0 /\ m.kv > 0 /\ m.q % m.kv = 0
    /\ Len(m.map) = m.q
    /\ \A i \in 1..m.q : m.map[i] < m.kv /\ m.map[i] = (i - 1) \div (m.q \div m.kv)
    /\ m.total = m.prefix + m.generated /\ Len(m.origins) = m.total
    /\ m.origins # <<>> /\ \E i \in DOMAIN m.origins : m.origins[i] = "prefix"
    /\ m.paged
    /\ \A t \in m.tensors : TensorValid(t, payloads)
    /\ m.probs \/ {"Q", "K", "V"} \subseteq {t.name : t \in m.tensors}

(***************************************************************************)
(* A validated capture can be replayed: every key head serves equally many *)
(* query heads, neighbours of one another, every position has its          *)
(* descriptor, and the bytes of every tensor named are held.               *)
(***************************************************************************)
CaptureReplayable(m, payloads) ==
    LET Served(k) == {i \in DOMAIN m.map : m.map[i] = k}
    IN Validates(m, payloads) =>
         /\ Len(m.map) = m.q
         /\ \A k \in 0..(m.kv - 1) :
              /\ Cardinality(Served(k)) * m.kv = m.q
              /\ \A i, j \in Served(k) : i..j \subseteq Served(k)
         /\ Len(m.origins) = m.prefix + m.generated
         /\ \A t \in m.tensors : payloads[t.name] = t.bytes
=============================================================================
