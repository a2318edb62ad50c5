---------------------------- MODULE NativeDecode ----------------------------
(***************************************************************************)
(* The native prompt-to-token decoders: har-native-qwen3 (every layer      *)
(* attends over a cache of fixed capacity) and har-native-qwen35moe        *)
(* (every interval-th layer attends, the others carry a convolution window *)
(* and a recurrent state; every layer ends in routed experts).  Numbers    *)
(* are residues: Mix stands for the products with weights, whose order and *)
(* arguments are the code's.                                               *)
(***************************************************************************)
EXTENDS Integers, SequencesExt

CONSTANTS Decoders, \* [layers, interval, taps, experts, used, bounded]: model files
          Tokens, Eos, MaxPrompt, MaxNew, Modulus

ASSUME DecoderAssumption ==
    /\ Modulus \in Nat \ {0} /\ Tokens = 0..Max(Tokens)
    /\ MaxPrompt \in Nat /\ MaxNew \in Nat \ {0}   \* neither program takes 0 new tokens
    /\ \A d \in Decoders : /\ {d.layers, d.interval, d.taps, d.experts, d.used} \subseteq Nat
                           /\ d.bounded \in BOOLEAN
                           /\ d.bounded => d.interval = 1   \* qwen3 attends in every layer

VARIABLES decoder, prompt,
          fed,       \* number of tokens given to forward so far
          hidden,    \* the residual stream of the running forward
          layer,     \* the layer it is about to execute; 0: no forward is running
          token,     \* the token it was given
          position,  \* and the position
          caches,    \* caches[l]: the rows of a layer that attends
          recurrent, \* recurrent[l]: window and state of a layer that does not
          logits, generated, status
nvars == <<decoder, prompt, fed, hidden, layer, token, position, caches, recurrent, logits,
           generated, status>>

Mix(a, b) == (3 * a + 5 * b * b + a * b + 1) % Modulus
Sum(S, f(_)) == MapThenSumSet(f, S)

-----------------------------------------------------------------------------
(* A row of the cache: the key turned to its position, and the value.       *)
Row(l, h, p) == [key |-> Mix(l, h), turn |-> p, value |-> Mix(h, l + 1)]

(* The softmax over the rows, as a sum: a row weighs by its key and by how  *)
(* far back it was turned.                                                  *)
Attend(l, h, p, rows) ==
    Sum(DOMAIN rows, LAMBDA q : Mix(Mix(h, rows[q].key), p - rows[q].turn) * rows[q].value) % Modulus

(* The convolution over the window, the newest input last, then the gated   *)
(* delta rule: decay, correct towards the value, read by the query.         *)
Convolved(l, window, h) ==
    (Sum(DOMAIN window, LAMBDA t : (t + l) * window[t]) + (Len(window) + 1 + l) * h) % Modulus
Delta(l, state, x) == LET kept == (2 * state) % Modulus
                      IN (kept + Mix(x, l) * (x + Modulus - kept)) % Modulus

(* Routed experts: the most likely ones, of equals the lowest; each weighs  *)
(* its share of what was selected; one expert serves every token.           *)
Likely(l, h, e) == Mix(h + l, e) % 3
Ranked(d, l, h) == SortSeq([i \in 1..d.experts |-> i],
    LAMBDA a, b : \/ Likely(l, h, a) > Likely(l, h, b)
                  \/ Likely(l, h, a) = Likely(l, h, b) /\ a < b)
Route(d, l, h) == SubSeq(Ranked(d, l, h), 1, d.used)
Gate(l, e, h) == Mix(e + l, h)
Compose(l, h, experts, gate) ==
    (FoldLeft(LAMBDA sum, e : sum + (1 + Likely(l, h, e)) * Mix(gate[e], h + e), 0, experts)
        + Mix(h, l)) % Modulus
Gates(l, h, experts) == [e \in Range(experts) |-> Gate(l, e, h)]
Ffn(d, l, h) == (h + Compose(l, h, Route(d, l, h), Gates(l, h, Route(d, l, h)))) % Modulus

Attends(d, l) == l % d.interval = 0
Embedding(t) == Mix(t, 2)
Logits(h) == [t \in Tokens |-> Mix(h, t) % 4]
Argmax(scores) == CHOOSE t \in Tokens : \A u \in Tokens :
                    scores[t] > scores[u] \/ (scores[t] = scores[u] /\ t <= u)

-----------------------------------------------------------------------------
Fresh(d) == /\ caches = [l \in 1..d.layers |-> <<>>]
            /\ recurrent = [l \in 1..d.layers |-> [window |-> [t \in 1..(d.taps - 1) |-> 0], state |-> 0]]

(* What either program accepts of a file.                                   *)
Loads(d) == d.layers > 0
LoadsRouted(d) == /\ d.layers > 0 /\ d.experts > 0 /\ d.used > 0 /\ d.used <= d.experts
                  /\ d.taps >= 2 /\ d.interval > 0

DInit == /\ decoder \in {d \in Decoders : IF d.bounded THEN Loads(d) ELSE LoadsRouted(d)}
         /\ prompt \in UNION {[1..n -> Tokens] : n \in 1..MaxPrompt}
         /\ fed = 0 /\ hidden = 0 /\ layer = 0 /\ token = 0 /\ position = 0
         /\ Fresh(decoder)
         /\ logits = <<>> /\ generated = <<>> /\ status = "prefill"

\* Variant: the prompt's length is counted as of its last token.
PositionShort == IF status = "prefill" THEN fed ELSE Len(prompt) + Len(generated) - 2

(* The prompt's tokens go to their own positions, a generated one to the    *)
(* prompt's length plus its index.                                          *)
Position == IF status = "prefill" THEN fed ELSE Len(prompt) + Len(generated) - 1

Begin ==
    /\ layer = 0
    /\ \/ status = "prefill" /\ fed < Len(prompt) /\ token' = prompt[fed + 1]
       \/ status = "forward" /\ token' = Last(generated)
    /\ position' = Position
    /\ hidden' = Embedding(token') /\ layer' = 1
    /\ UNCHANGED <<decoder, prompt, fed, caches, recurrent, logits, generated, status>>

Running == layer \in 1..decoder.layers /\ status # "failed"

(* The row is cached before the attention, which so sees it; a full cache   *)
(* fails the forward, and the program with it.                              *)
AttendLayer ==
    /\ Running /\ Attends(decoder, layer)
    /\ IF decoder.bounded /\ Len(caches[layer]) = Len(prompt) + MaxNew
       THEN status' = "failed" /\ UNCHANGED <<caches, hidden, layer>>
       ELSE /\ caches' = [caches EXCEPT ![layer] = Append(@, Row(layer, hidden, position))]
            /\ hidden' = Ffn(decoder, layer,
                             (hidden + Attend(layer, hidden, position, caches'[layer])) % Modulus)
            /\ layer' = layer + 1 /\ UNCHANGED status
    /\ UNCHANGED <<decoder, prompt, fed, token, position, recurrent, logits, generated>>

RecurLayer ==
    /\ Running /\ ~Attends(decoder, layer)
    /\ LET r == recurrent[layer]
           x == Convolved(layer, r.window, hidden)
           state == Delta(layer, r.state, x)
       IN /\ recurrent' = [recurrent EXCEPT ![layer] =
                             [window |-> Append(Tail(r.window), hidden), state |-> state]]
          /\ hidden' = Ffn(decoder, layer, (hidden + Mix(state, x)) % Modulus)
    /\ layer' = layer + 1
    /\ UNCHANGED <<decoder, prompt, fed, token, position, caches, logits, generated, status>>

Project ==
    /\ layer = decoder.layers + 1
    /\ logits' = Logits(hidden) /\ layer' = 0 /\ fed' = fed + 1
    /\ status' = IF status = "prefill" /\ fed' < Len(prompt) THEN "prefill" ELSE "choose"
    /\ UNCHANGED <<decoder, prompt, hidden, token, position, caches, recurrent, generated>>

(* One round of the generation loop: the greedy token is kept, and the loop *)
(* ends with it at the end-of-sequence token and at the last index.         *)
ChooseToken ==
    /\ status = "choose"
    /\ generated' = Append(generated, Argmax(logits))
    /\ status' = IF Argmax(logits) = Eos \/ Len(generated') = MaxNew THEN "done" ELSE "forward"
    /\ UNCHANGED <<decoder, prompt, fed, hidden, layer, token, position, caches, recurrent, logits>>

DNextToken == Begin \/ AttendLayer \/ RecurLayer \/ Project \/ ChooseToken

-----------------------------------------------------------------------------
(* The model applied to a whole sequence at once, with nothing cached: the  *)
(* stream of a layer is computed from all of the stream below it.           *)
StateAt(d, l, below, p) ==
    LET input(q) == IF q < 1 THEN 0 ELSE below[q]
        x(q) == Convolved(l, [t \in 1..(d.taps - 1) |-> input(q - d.taps + t)], below[q])
        at[q \in 0..p] == IF q = 0 THEN 0 ELSE Delta(l, at[q - 1], x(q))
    IN Mix(at[p], x(p))
Above(d, l, below) ==
    [p \in DOMAIN below |->
        Ffn(d, l, (below[p] + (IF Attends(d, l)
                               THEN Attend(l, below[p], p - 1, [q \in 1..p |-> Row(l, below[q], q - 1)])
                               ELSE StateAt(d, l, below, p))) % Modulus)]
Streams(d, seq) ==
    LET level[l \in 0..d.layers] == IF l = 0 THEN [p \in DOMAIN seq |-> Embedding(seq[p])]
                                    ELSE Above(d, l, level[l - 1])
    IN level
WholeLogits(d, seq) == Logits(Last(Streams(d, seq)[d.layers]))

(***************************************************************************)
(* Decoding a token at a time says what the whole sequence says.  The      *)
(* logits a token is chosen from are those of the prompt and everything    *)
(* generated since; between forwards every attending layer has one row for *)
(* every token given, at its own position; no cache runs out; and the loop *)
(* stops exactly at the first end-of-sequence token or at its last index.  *)
(***************************************************************************)
DecodingExact ==
    /\ status # "failed"
    /\ status \in {"choose", "done"} =>
         LET seq == SubSeq(prompt \o generated, 1, fed)
         IN /\ logits = WholeLogits(decoder, seq)
            /\ \A l \in 1..decoder.layers : Attends(decoder, l) =>
                 caches[l] = [p \in 1..fed |-> Row(l, Streams(decoder, seq)[l - 1][p], p - 1)]
    /\ status = "done" =>
         /\ fed = Len(prompt) + Len(generated) - 1
         /\ Last(generated) = Eos \/ Len(generated) = MaxNew
         /\ Eos \notin Range(Front(generated))
=============================================================================
