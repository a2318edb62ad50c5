----------------------------- MODULE Tokenizers -----------------------------
(***************************************************************************)
(* The two byte-pair tokenizers.  The native decoders' splits the text     *)
(* into pieces, spells bytes as printable characters and merges strings;   *)
(* the server's takes the whole text, wants a single-byte token for every  *)
(* byte and merges ids.  Characters are code points, up to two bytes of    *)
(* UTF-8; a vocabulary is a sequence of tokens and a ranked one of merges. *)
(***************************************************************************)
EXTENDS Integers, SequencesExt

Error == <<-1>>
Replacement == 65533

Utf8(c) == IF c < 128 THEN <<c>> ELSE <<192 + c \div 64, 128 + (c % 64)>>
Bytes(text) == FlattenSeq([i \in DOMAIN text |-> Utf8(text[i])])

(* from_utf8_lossy, a byte at a time: a lead byte waits for its             *)
(* continuation, and whatever does not fit becomes a replacement.           *)
Lossy(bytes) ==
    LET take(r, b) ==
            LET cut == IF r.lead = 0 THEN r.text ELSE Append(r.text, Replacement)
                whole == IF r.lead = 0 THEN Replacement ELSE (r.lead - 192) * 64 + b - 128
            IN IF b < 128 THEN [text |-> Append(cut, b), lead |-> 0]
               ELSE IF b < 192 THEN [text |-> Append(r.text, whole), lead |-> 0]
               ELSE [text |-> cut, lead |-> b]
        end == FoldLeft(take, [text |-> <<>>, lead |-> 0], bytes)
    IN end.text \o (IF end.lead = 0 THEN <<>> ELSE <<Replacement>>)

-----------------------------------------------------------------------------
(* Bytes spelled as characters: the printable ones stand for themselves,    *)
(* the k-th other one is 256 + k.                                           *)
\* Variant: the soft hyphen counts as printable.
PrintsLoose(b) == b \in 33..126 \/ b \in 161..255
Prints(b) == b \in 33..126 \/ b \in 161..172 \/ b \in 174..255
ByteEncode(b) == IF Prints(b) THEN b ELSE 256 + Cardinality({c \in 0..(b - 1) : ~Prints(c)})
ByteDecode(code) ==
    IF code \in 33..126 \/ code \in 161..172 \/ code \in 174..255 THEN {code}
    ELSE IF code \notin 256..511 THEN {}
    ELSE {b \in 0..255 : /\ ~(b \in 33..126 \/ b \in 161..172 \/ b \in 174..255)
                         /\ Cardinality({c \in 0..(b - 1) : ~(\/ c \in 33..126
                                                              \/ c \in 161..172
                                                              \/ c \in 174..255)}) = code - 256}

(* A maximal run at the head of the text of characters of some classes.     *)
Class(c) == CASE c \in (65..90) \cup (97..122) \cup (192..511) -> "letter"
              [] c \in 48..57 -> "digit"
              [] c \in {10, 13} -> "newline"
              [] c \in {9, 32} -> "space"
              [] OTHER -> "mark"
Run(text, from, classes) ==
    Max({0} \cup {n \in 1..(Len(text) - from + 1) :
                    \A i \in from..(from + n - 1) : Class(text[i]) \in classes})
Lower(c) == IF c \in 65..90 THEN c + 32 ELSE c
Contraction(text) ==
    LET after(n) == [i \in 1..n |-> Lower(text[i + 1])]
    IN IF Len(text) > 1 /\ text[1] = 39 /\ after(1) \in {<<115>>, <<116>>, <<109>>, <<100>>} THEN 2
       ELSE IF /\ Len(text) > 2 /\ text[1] = 39
               /\ after(2) \in {<<114, 101>>, <<118, 101>>, <<108, 108>>} THEN 3
       ELSE 0

(* The alternatives of qwen2_pieces, the first that matches.                *)
PieceLength(text) ==
    LET head == Class(text[1])
        letters == Run(text, 1, {"letter"})
        prefixed == IF head \in {"space", "mark"} THEN Run(text, 2, {"letter"}) ELSE 0
        space == IF text[1] = 32 THEN 1 ELSE 0
        marks == Run(text, 1 + space, {"mark"})
        white == Run(text, 1, {"space", "newline"})
        lines == {n \in 1..white : Class(text[n]) = "newline"}
    IN CASE Contraction(text) > 0 -> Contraction(text)
         [] prefixed > 0 -> 1 + prefixed
         [] letters > 0 -> letters
         [] head = "digit" -> 1
         [] marks > 0 -> space + marks + Run(text, 1 + space + marks, {"newline"})
         [] lines # {} -> Max(lines)
         [] white > 0 -> white
Pieces(text) ==
    FoldLeft(LAMBDA r, k : IF r.rest = <<>> THEN r
                 ELSE LET n == PieceLength(r.rest)
                      IN [rest |-> SubSeq(r.rest, n + 1, Len(r.rest)),
                          pieces |-> Append(r.pieces, SubSeq(r.rest, 1, n))],
             [rest |-> text, pieces |-> <<>>], text).pieces

-----------------------------------------------------------------------------
(* A later token of the same spelling takes the id, a later merge the rank. *)
Ids(tokens, spelling) == {i \in DOMAIN tokens : tokens[i] = spelling}
Rank(merges, a, b) == {k \in DOMAIN merges : merges[k] = <<a, b>>}

(* The pair to merge: of the lowest rank, of equals the first.              *)
Best(symbols, rank(_, _)) ==
    LET pairs == {i \in 1..(Len(symbols) - 1) : rank(symbols[i], symbols[i + 1]) # {}}
        of(i) == Max(rank(symbols[i], symbols[i + 1]))
    IN {i \in pairs : \A j \in pairs : of(i) < of(j) \/ (of(i) = of(j) /\ i <= j)}
MergeAll(symbols, rank(_, _), join(_, _)) ==
    FoldLeft(LAMBDA s, k : LET best == Best(s, rank)
                           IN IF best = {} THEN s
                              ELSE LET i == CHOOSE i \in best : TRUE
                                   IN SubSeq(s, 1, i - 1) \o <<join(s[i], s[i + 1])>>
                                        \o SubSeq(s, i + 2, Len(s)),
             symbols, symbols)

NativeBpe(v, piece) ==
    LET rank(a, b) == Rank(v.merges, a, b)
        join(a, b) == a \o b
        bytes == Bytes(piece)
    IN MergeAll([i \in DOMAIN bytes |-> <<ByteEncode(bytes[i])>>], rank, join)
NativeEncode(v, text) ==
    LET symbols == FlattenSeq([p \in DOMAIN Pieces(text) |-> NativeBpe(v, Pieces(text)[p])])
    IN IF symbols = <<>> \/ \E i \in DOMAIN symbols : Ids(v.tokens, symbols[i]) = {} THEN Error
       ELSE [i \in DOMAIN symbols |-> Max(Ids(v.tokens, symbols[i]))]

(* A token in angle brackets is printed as it is, the others each on their  *)
(* own as lossy text.                                                       *)
Bracketed(token) == Head(token) = 60 /\ Last(token) = 62
Spelled(token) == [i \in DOMAIN token |-> CHOOSE b \in ByteDecode(token[i]) : TRUE]
DecodeToken(v, id) == IF Bracketed(v.tokens[id]) THEN v.tokens[id]
                      ELSE IF \E i \in DOMAIN v.tokens[id] : ByteDecode(v.tokens[id][i]) = {} THEN Error
                      ELSE Lossy(Spelled(v.tokens[id]))

(* The server's: tokens are what they are in UTF-8, a merge counts only if  *)
(* both parts and the whole are tokens.                                     *)
ServeIds(v, bytes) == {i \in DOMAIN v.tokens : Bytes(v.tokens[i]) = bytes}
ServeMerges(v) ==
    {k \in DOMAIN v.merges : /\ \A side \in 1..2 : ServeIds(v, Bytes(v.merges[k][side])) # {}
                             /\ ServeIds(v, Bytes(v.merges[k][1] \o v.merges[k][2])) # {}}
ServeEncode(v, text) ==
    LET id(bytes) == Max(ServeIds(v, bytes))
        rank(a, b) == {k \in ServeMerges(v) : /\ id(Bytes(v.merges[k][1])) = a
                                              /\ id(Bytes(v.merges[k][2])) = b}
        join(a, b) == LET k == Max(rank(a, b)) IN id(Bytes(v.merges[k][1] \o v.merges[k][2]))
        bytes == Bytes(text)
    IN IF \E i \in DOMAIN bytes : ServeIds(v, <<bytes[i]>>) = {} THEN Error
       ELSE MergeAll([i \in DOMAIN bytes |-> id(<<bytes[i]>>)], rank, join)
ServeDecode(v, ids) == Lossy(FlattenSeq([i \in DOMAIN ids |-> Bytes(v.tokens[ids[i]])]))

-----------------------------------------------------------------------------
(* Every byte has a spelling of its own that decodes to it.                 *)
SpellsBack(b) == ByteDecode(ByteEncode(b)) = {b}

(***************************************************************************)
(* A text that can be encoded comes back: the pieces are the text in       *)
(* order, the tokens' bytes are its bytes, and what is printed is the text *)
(* unless a token is in brackets or ends within a character.  The server's *)
(* decode gives the text back.  Where both tokenizers know the text, it is *)
(* one printable piece and every merge is of tokens, they agree on ids.    *)
(***************************************************************************)
TextReturns(v, text) ==
    LET native == NativeEncode(v, text)
        serve == ServeEncode(v, text)
        bracketed == \E i \in DOMAIN native : Bracketed(v.tokens[native[i]])
        spelled == [i \in DOMAIN native |-> Spelled(v.tokens[native[i]])]
    IN /\ FlattenSeq(Pieces(text)) = text
       /\ native # Error =>
            /\ FlattenSeq(spelled) = Bytes(text)
            /\ \/ bracketed
               \/ \E i \in DOMAIN native : Last(spelled[i]) >= 192
               \/ FlattenSeq([i \in DOMAIN native |-> DecodeToken(v, native[i])]) = text
       /\ serve # Error => ServeDecode(v, serve) = text
       /\ (/\ native # Error /\ serve # Error
           /\ Range(Bytes(text)) \subseteq 33..126
           /\ Len(Pieces(text)) = 1 /\ ServeMerges(v) = DOMAIN v.merges) => native = serve
=============================================================================
