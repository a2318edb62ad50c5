---------------------------- MODULE PipelineProofs ----------------------------
(***************************************************************************)
(* The pipeline for every value of its constants: decoding a token at a    *)
(* time says what the whole sequence says, what the allocator says of an   *)
(* allocation is so, a table is accepted exactly when no operation depends *)
(* on itself, telemetry follows the blocks that were resolved, a slice     *)
(* that verifies is the rows its source had, and no damaged or torn page   *)
(* is served.                                                              *)
(***************************************************************************)
EXTENDS MCPipeline, DataLemmas, SequenceTheorems

-----------------------------------------------------------------------------
(* The streams of a whole sequence, layer by layer                          *)

\* The streams of the layers up to k.
Levels(d, seq, k, h) ==
    h = [l \in 0..k |-> IF l = 0 THEN [p \in DOMAIN seq |-> Embedding(seq[p])]
                        ELSE Above(d, l, h[l - 1])]

LEMMA LevelsExist ==
    ASSUME NEW d, NEW seq, NEW k \in Nat
    PROVE  \E h : Levels(d, seq, k, h)
  <1> DEFINE S == {m \in 0..k : \E h : Levels(d, seq, m, h)}
             first == [p \in DOMAIN seq |-> Embedding(seq[p])]
  <1> HIDE DEF first
  <1>1. 0 \in S
    <2> DEFINE h == [l \in 0..0 |-> first]
    <2>1. \A l \in 0..0 : l = 0
      OBVIOUS
    <2>2. Levels(d, seq, 0, h)
      BY <2>1 DEF Levels, first
    <2> QED
      BY <2>2
  <1>2. ASSUME NEW m \in 0..(k - 1), m \in S PROVE m + 1 \in S
    <2>1. PICK g : Levels(d, seq, m, g)
      BY <1>2
    <2> DEFINE h == [l \in 0..(m + 1) |-> IF l = m + 1 THEN Above(d, l, g[m]) ELSE g[l]]
    <2>2. /\ m + 1 \in 0..k /\ m \in 0..m /\ m + 1 # 0 /\ (m + 1) - 1 = m
          /\ m \in 0..(m + 1) /\ m # m + 1
          /\ \A l \in 0..(m + 1) : l # m + 1 => /\ l \in 0..m
                                                /\ l # 0 => l - 1 \in 0..(m + 1) /\ l - 1 # m + 1
      OBVIOUS
    <2>3. \A l \in 0..m : g[l] = IF l = 0 THEN first ELSE Above(d, l, g[l - 1])
      BY <2>1, Zenon DEF Levels, first
    <2>4. ASSUME NEW l \in 0..(m + 1)
          PROVE  h[l] = IF l = 0 THEN first ELSE Above(d, l, h[l - 1])
      <3>1. CASE l = m + 1
        <4>1. h[l] = Above(d, l, g[m]) /\ h[m] = g[m]
          BY <2>2, <3>1
        <4> QED
          BY <2>2, <3>1, <4>1
      <3>2. CASE l # m + 1
        <4>1. l # 0 => h[l - 1] = g[l - 1]
          BY <2>2, <3>2
        <4>2. h[l] = g[l]
          BY <3>2
        <4> QED
          BY <2>2, <2>3, <3>2, <4>1, <4>2
      <3> QED
        BY <3>1, <3>2
    <2>5. h = [l \in 0..(m + 1) |-> h[l]]
      OBVIOUS
    <2> HIDE DEF h
    <2>6. Levels(d, seq, m + 1, h)
      BY <2>4, <2>5 DEF Levels, first
    <2> QED
      BY <2>2, <2>6
  <1> HIDE DEF S
  <1>3. k \in S
    BY <1>1, <1>2, Reaches
  <1> QED
    BY <1>3 DEF S

LEMMA StreamsAre ==
    ASSUME NEW d, NEW seq, d.layers \in Nat
    PROVE  \A l \in 0..d.layers :
             Streams(d, seq)[l] = IF l = 0 THEN [p \in DOMAIN seq |-> Embedding(seq[p])]
                                  ELSE Above(d, l, Streams(d, seq)[l - 1])
  <1>1. Streams(d, seq) = CHOOSE h : Levels(d, seq, d.layers, h)
    BY Zenon DEF Streams, Levels
  <1>2. Levels(d, seq, d.layers, Streams(d, seq))
    BY <1>1, LevelsExist, Zenon
  <1> QED
    BY <1>2, Zenon DEF Levels

LEMMA StreamsFirst ==
    ASSUME NEW d, NEW seq, d.layers \in Nat
    PROVE  Streams(d, seq)[0] = [p \in DOMAIN seq |-> Embedding(seq[p])]
  <1> DEFINE h == Streams(d, seq)
             first == [p \in DOMAIN seq |-> Embedding(seq[p])]
  <1>1. 0 \in 0..d.layers
    OBVIOUS
  <1>2. \A l \in 0..d.layers : h[l] = IF l = 0 THEN first ELSE Above(d, l, h[l - 1])
    BY StreamsAre, Zenon
  <1> HIDE DEF h, first
  <1>3. h[0] = first
    BY <1>1, <1>2
  <1> QED
    BY <1>3 DEF h, first

LEMMA StreamsStep ==
    ASSUME NEW d, NEW seq, d.layers \in Nat
    PROVE  \A l \in 1..d.layers : Streams(d, seq)[l] = Above(d, l, Streams(d, seq)[l - 1])
  <1> DEFINE h == Streams(d, seq)
             first == [p \in DOMAIN seq |-> Embedding(seq[p])]
  <1>1. \A l \in 1..d.layers : l \in 0..d.layers /\ l # 0
    OBVIOUS
  <1>2. \A l \in 0..d.layers : h[l] = IF l = 0 THEN first ELSE Above(d, l, h[l - 1])
    BY StreamsAre, Zenon
  <1> HIDE DEF h, first
  <1>3. \A l \in 1..d.layers : h[l] = Above(d, l, h[l - 1])
    BY <1>1, <1>2
  <1> QED
    BY <1>3 DEF h

LEMMA StreamsDomain ==
    ASSUME NEW d, NEW seq, d.layers \in Nat
    PROVE  \A l \in 0..d.layers : DOMAIN Streams(d, seq)[l] = DOMAIN seq
  <1> DEFINE h == Streams(d, seq)
             S == {l \in 0..d.layers : DOMAIN h[l] = DOMAIN seq}
  <1>1. /\ h[0] = [p \in DOMAIN seq |-> Embedding(seq[p])]
        /\ \A l \in 1..d.layers : h[l] = Above(d, l, h[l - 1])
    BY StreamsFirst, StreamsStep
  <1> HIDE DEF h
  <1>2. 0 \in S
    BY <1>1
  <1>3. ASSUME NEW l \in 0..(d.layers - 1), l \in S PROVE l + 1 \in S
    <2>1. l + 1 \in 1..d.layers /\ l + 1 \in 0..d.layers /\ (l + 1) - 1 = l
      OBVIOUS
    <2>2. h[l + 1] = Above(d, l + 1, h[l])
      BY <1>1, <2>1
    <2>3. DOMAIN h[l] = DOMAIN seq
      BY <1>3
    <2>4. DOMAIN h[l + 1] = DOMAIN seq
      BY <2>2, <2>3 DEF Above
    <2> QED
      BY <2>1, <2>4
  <1> HIDE DEF S
  <1>4. \A l \in 0..d.layers : l \in S
    BY <1>2, <1>3, Reaches
  <1>5. \A l \in 0..d.layers : DOMAIN h[l] = DOMAIN seq
    BY <1>4 DEF S
  <1> QED
    BY <1>5 DEF h

-----------------------------------------------------------------------------
(* The state of a layer that does not attend                                *)

InputAt(b, q) == IF q < 1 THEN 0 ELSE b[q]
Window(d, b, q) == [t \in 1..(d.taps - 1) |-> InputAt(b, q - d.taps + t)]
Filtered(d, l, b, q) == Convolved(l, Window(d, b, q), b[q])
Carries(d, l, b, p, g) ==
    g = [q \in 0..p |-> IF q = 0 THEN 0 ELSE Delta(l, g[q - 1], Filtered(d, l, b, q))]
Carried(d, l, b, p) == (CHOOSE g : Carries(d, l, b, p, g))[p]

LEMMA StateIs ==
    ASSUME NEW d, NEW l, NEW b, NEW p
    PROVE  StateAt(d, l, b, p) = Mix(Carried(d, l, b, p), Filtered(d, l, b, p))
  BY Zenon DEF StateAt, Carried, Carries, Filtered, Window, InputAt

LEMMA CarriesExists ==
    ASSUME NEW d, NEW l, NEW b, NEW p \in Nat
    PROVE  \E g : Carries(d, l, b, p, g)
  <1> DEFINE S == {m \in 0..p : \E g : Carries(d, l, b, m, g)}
             D(q, x) == Delta(l, x, Filtered(d, l, b, q))
  <1> HIDE DEF D
  <1>1. 0 \in S
    <2> DEFINE g == [q \in 0..0 |-> 0]
    <2>1. \A q \in 0..0 : q = 0
      OBVIOUS
    <2>2. Carries(d, l, b, 0, g)
      BY <2>1 DEF Carries, D
    <2> QED
      BY <2>2
  <1>2. ASSUME NEW m \in 0..(p - 1), m \in S PROVE m + 1 \in S
    <2>1. PICK g : Carries(d, l, b, m, g)
      BY <1>2
    <2> DEFINE h == [q \in 0..(m + 1) |-> IF q = m + 1 THEN D(q, g[m]) ELSE g[q]]
    <2>2. /\ m + 1 \in 0..p /\ m \in 0..m /\ m + 1 # 0 /\ (m + 1) - 1 = m
          /\ m \in 0..(m + 1) /\ m # m + 1
          /\ \A q \in 0..(m + 1) : q # m + 1 => /\ q \in 0..m
                                                /\ q # 0 => q - 1 \in 0..(m + 1) /\ q - 1 # m + 1
      OBVIOUS
    <2>3. \A q \in 0..m : g[q] = IF q = 0 THEN 0 ELSE D(q, g[q - 1])
      BY <2>1, Zenon DEF Carries, D
    <2>4. ASSUME NEW q \in 0..(m + 1) PROVE h[q] = IF q = 0 THEN 0 ELSE D(q, h[q - 1])
      <3>1. CASE q = m + 1
        <4>1. h[q] = D(q, g[m]) /\ h[m] = g[m]
          BY <2>2, <3>1
        <4> QED
          BY <2>2, <3>1, <4>1
      <3>2. CASE q # m + 1
        <4>1. q # 0 => h[q - 1] = g[q - 1]
          BY <2>2, <3>2
        <4>2. h[q] = g[q]
          BY <3>2
        <4> QED
          BY <2>2, <2>3, <3>2, <4>1, <4>2
      <3> QED
        BY <3>1, <3>2
    <2>5. h = [q \in 0..(m + 1) |-> h[q]]
      OBVIOUS
    <2> HIDE DEF h
    <2>6. Carries(d, l, b, m + 1, h)
      BY <2>4, <2>5 DEF Carries, D
    <2> QED
      BY <2>2, <2>6
  <1> HIDE DEF S
  <1>3. p \in S
    BY <1>1, <1>2, Reaches
  <1> QED
    BY <1>3 DEF S

Starts(g) == g[0] = 0
Goes(d, l, b, p, g) == \A q \in 1..p : g[q] = Delta(l, g[q - 1], Filtered(d, l, b, q))

LEMMA CarriesIs ==
    ASSUME NEW d, NEW l, NEW b, NEW p \in Nat, NEW g, Carries(d, l, b, p, g)
    PROVE  Starts(g) /\ Goes(d, l, b, p, g)
  <1>1. \A q \in 0..p : g[q] = IF q = 0 THEN 0 ELSE Delta(l, g[q - 1], Filtered(d, l, b, q))
    BY Zenon DEF Carries
  <1>2. 0 \in 0..p /\ \A q \in 1..p : q \in 0..p /\ q # 0
    OBVIOUS
  <1> QED
    BY <1>1, <1>2 DEF Starts, Goes

\* The state depends on the stream up to its position.
LEMMA CarriesAgree ==
    ASSUME NEW d, NEW l, NEW b, NEW c, NEW p \in Nat, NEW r \in Nat, NEW m \in Nat,
           m <= p, m <= r, \A q \in 1..m : Filtered(d, l, b, q) = Filtered(d, l, c, q),
           NEW g, NEW h, Carries(d, l, b, p, g), Carries(d, l, c, r, h)
    PROVE  g[m] = h[m]
  <1> DEFINE S == {q \in 0..m : g[q] = h[q]}
  <1>a. Starts(g) /\ Goes(d, l, b, p, g)
    BY CarriesIs, Zenon
  <1>b. Starts(h) /\ Goes(d, l, c, r, h)
    BY CarriesIs, Zenon
  <1>1. g[0] = 0 /\ \A q \in 1..p : g[q] = Delta(l, g[q - 1], Filtered(d, l, b, q))
    BY <1>a DEF Starts, Goes
  <1>2. h[0] = 0 /\ \A q \in 1..r : h[q] = Delta(l, h[q - 1], Filtered(d, l, c, q))
    BY <1>b DEF Starts, Goes
  <1>3. 0 \in S
    BY <1>1, <1>2
  <1>4. ASSUME NEW q \in 0..(m - 1), q \in S PROVE q + 1 \in S
    <2>1. q + 1 \in 1..p /\ q + 1 \in 1..r /\ q + 1 \in 1..m /\ q + 1 \in 0..m /\ (q + 1) - 1 = q
      OBVIOUS
    <2>2. g[q + 1] = Delta(l, g[q], Filtered(d, l, b, q + 1))
      BY <1>1, <2>1
    <2>3. h[q + 1] = Delta(l, h[q], Filtered(d, l, c, q + 1))
      BY <1>2, <2>1
    <2>4. g[q] = h[q]
      BY <1>4
    <2>5. g[q + 1] = h[q + 1]
      BY <2>1, <2>2, <2>3, <2>4
    <2> QED
      BY <2>1, <2>5
  <1> HIDE DEF S
  <1>5. m \in S
    BY <1>3, <1>4, Reaches
  <1> QED
    BY <1>5 DEF S

LEMMA CarriedIs ==
    ASSUME NEW d, NEW l, NEW b, NEW p \in Nat
    PROVE  /\ Carried(d, l, b, 0) = 0
           /\ Carried(d, l, b, p + 1) = Delta(l, Carried(d, l, b, p), Filtered(d, l, b, p + 1))
  <1> DEFINE g == CHOOSE x : Carries(d, l, b, p + 1, x)
             h == CHOOSE x : Carries(d, l, b, p, x)
             z == CHOOSE x : Carries(d, l, b, 0, x)
  <1>1. p + 1 \in Nat /\ 0 \in Nat /\ (p + 1) - 1 = p /\ p + 1 \in 1..(p + 1) /\ p <= p + 1 /\ p <= p
    OBVIOUS
  <1>2. Carries(d, l, b, p + 1, g)
    BY <1>1, CarriesExists, Zenon
  <1>3. Carries(d, l, b, p, h)
    BY CarriesExists, Zenon
  <1>4. Carries(d, l, b, 0, z)
    BY <1>1, CarriesExists, Zenon
  <1>5. Carried(d, l, b, p + 1) = g[p + 1] /\ Carried(d, l, b, p) = h[p] /\ Carried(d, l, b, 0) = z[0]
    BY Zenon DEF Carried
  <1> HIDE DEF g, h, z
  <1>6. g[p + 1] = Delta(l, g[(p + 1) - 1], Filtered(d, l, b, p + 1))
    <2>1. Goes(d, l, b, p + 1, g)
      BY <1>1, <1>2, CarriesIs, Zenon
    <2> QED
      BY <1>1, <2>1 DEF Goes
  <1>7. g[p] = h[p]
    BY <1>1, <1>2, <1>3, CarriesAgree
  <1>8. z[0] = 0
    <2>1. Starts(z)
      BY <1>1, <1>4, CarriesIs, Zenon
    <2> QED
      BY <2>1 DEF Starts
  <1> QED
    BY <1>1, <1>5, <1>6, <1>7, <1>8

LEMMA FilteredAgree ==
    ASSUME NEW d, NEW l, NEW b, NEW c, NEW p \in Nat, d.taps \in Nat,
           \A q \in 1..p : b[q] = c[q]
    PROVE  /\ \A q \in 0..(p + 1) : Window(d, b, q) = Window(d, c, q)
           /\ \A q \in 1..p : Filtered(d, l, b, q) = Filtered(d, l, c, q)
  <1>1. \A q \in 0..(p + 1) : \A t \in 1..(d.taps - 1) :
            InputAt(b, q - d.taps + t) = InputAt(c, q - d.taps + t)
    BY DEF InputAt
  <1>2. \A q \in 0..(p + 1) : Window(d, b, q) = Window(d, c, q)
    BY <1>1 DEF Window
  <1> QED
    BY <1>2 DEF Filtered

LEMMA CarriedAgree ==
    ASSUME NEW d, NEW l, NEW b, NEW c, NEW p \in Nat, d.taps \in Nat,
           \A q \in 1..p : b[q] = c[q]
    PROVE  Carried(d, l, b, p) = Carried(d, l, c, p)
  <1> DEFINE g == CHOOSE x : Carries(d, l, b, p, x)
             h == CHOOSE x : Carries(d, l, c, p, x)
  <1>1. Carries(d, l, b, p, g)
    BY CarriesExists, Zenon
  <1>2. Carries(d, l, c, p, h)
    BY CarriesExists, Zenon
  <1>3. Carried(d, l, b, p) = g[p] /\ Carried(d, l, c, p) = h[p]
    BY Zenon DEF Carried
  <1> HIDE DEF g, h
  <1>4. \A q \in 1..p : Filtered(d, l, b, q) = Filtered(d, l, c, q)
    BY FilteredAgree
  <1>5. g[p] = h[p]
    BY <1>1, <1>2, <1>4, CarriesAgree
  <1> QED
    BY <1>3, <1>5

-----------------------------------------------------------------------------
(* A stream does not depend on the tokens after its position                *)

LEMMA AboveAgree ==
    ASSUME NEW d, NEW l, NEW b, NEW c, NEW n \in Nat, d.taps \in Nat,
           1..n \subseteq DOMAIN b, 1..n \subseteq DOMAIN c,
           \A q \in 1..n : b[q] = c[q]
    PROVE  \A p \in 1..n : Above(d, l, b)[p] = Above(d, l, c)[p]
  <1> SUFFICES ASSUME NEW p \in 1..n PROVE Above(d, l, b)[p] = Above(d, l, c)[p]
    OBVIOUS
  <1> DEFINE rows(s) == [q \in 1..p |-> Row(l, s[q], q - 1)]
             below(s) == IF Attends(d, l) THEN Attend(l, s[p], p - 1, rows(s)) ELSE StateAt(d, l, s, p)
  <1>1. p \in Nat /\ p \in 1..p /\ \A q \in 1..p : b[q] = c[q]
    OBVIOUS
  <1>2. rows(b) = rows(c) /\ b[p] = c[p]
    BY <1>1
  <1>3. StateAt(d, l, b, p) = StateAt(d, l, c, p)
    BY <1>1, StateIs, CarriedAgree, FilteredAgree
  <1>4. below(b) = below(c)
    <2> HIDE DEF rows
    <2> QED
      BY <1>2, <1>3
  <1>5. Above(d, l, b)[p] = Ffn(d, l, (b[p] + below(b)) % Modulus)
    BY DEF Above
  <1>6. Above(d, l, c)[p] = Ffn(d, l, (c[p] + below(c)) % Modulus)
    BY DEF Above
  <1> HIDE DEF below, rows
  <1> QED
    BY <1>2, <1>4, <1>5, <1>6

StreamsEqual(d, s, t, n) ==
    \A l \in 0..d.layers : \A p \in 1..n : Streams(d, s)[l][p] = Streams(d, t)[l][p]

LEMMA StreamsAgree ==
    ASSUME NEW d, d.layers \in Nat, d.taps \in Nat, NEW s, NEW t, NEW n \in Nat,
           1..n \subseteq DOMAIN s, 1..n \subseteq DOMAIN t, \A q \in 1..n : s[q] = t[q]
    PROVE  StreamsEqual(d, s, t, n)
  <1> DEFINE g == Streams(d, s)
             h == Streams(d, t)
             S == {l \in 0..d.layers : \A p \in 1..n : g[l][p] = h[l][p]}
  <1>1. /\ g[0] = [p \in DOMAIN s |-> Embedding(s[p])]
        /\ \A l \in 1..d.layers : g[l] = Above(d, l, g[l - 1])
    BY StreamsFirst, StreamsStep
  <1>2. /\ h[0] = [p \in DOMAIN t |-> Embedding(t[p])]
        /\ \A l \in 1..d.layers : h[l] = Above(d, l, h[l - 1])
    BY StreamsFirst, StreamsStep
  <1>3. \A l \in 0..d.layers : DOMAIN g[l] = DOMAIN s /\ DOMAIN h[l] = DOMAIN t
    <2>1. \A l \in 0..d.layers : DOMAIN g[l] = DOMAIN s
      BY StreamsDomain, Zenon
    <2>2. \A l \in 0..d.layers : DOMAIN h[l] = DOMAIN t
      BY StreamsDomain, Zenon
    <2> QED
      BY <2>1, <2>2
  <1> HIDE DEF g, h
  <1>4. 0 \in S
    BY <1>1, <1>2
  <1>5. ASSUME NEW l \in 0..(d.layers - 1), l \in S PROVE l + 1 \in S
    <2>1. l + 1 \in 1..d.layers /\ l + 1 \in 0..d.layers /\ (l + 1) - 1 = l /\ l \in 0..d.layers
      OBVIOUS
    <2>2. g[l + 1] = Above(d, l + 1, g[l]) /\ h[l + 1] = Above(d, l + 1, h[l])
      BY <1>1, <1>2, <2>1
    <2>3. 1..n \subseteq DOMAIN g[l] /\ 1..n \subseteq DOMAIN h[l] /\ \A q \in 1..n : g[l][q] = h[l][q]
      BY <1>3, <1>5, <2>1
    <2>4. \A p \in 1..n : Above(d, l + 1, g[l])[p] = Above(d, l + 1, h[l])[p]
      BY <2>3, AboveAgree
    <2> QED
      BY <2>1, <2>2, <2>4
  <1> HIDE DEF S
  <1>6. \A l \in 0..d.layers : l \in S
    BY <1>4, <1>5, Reaches
  <1>7. \A l \in 0..d.layers : \A p \in 1..n : g[l][p] = h[l][p]
    BY <1>6 DEF S
  <1> QED
    BY <1>7 DEF g, h, StreamsEqual

-----------------------------------------------------------------------------
(* Decoding a token at a time                                               *)

\* Every token there is, given to the decoder or not yet, and its streams.
Spoken == prompt \o generated
Stream(l) == Streams(decoder, Spoken)[l]

\* How many tokens layer l has seen.
Seen(l) == IF layer > l THEN fed + 1 ELSE fed

\* What a layer carries of the first n positions of a stream.
RowsSeen(l, b, n) == [p \in 1..n |-> Row(l, b[p], p - 1)]
Carry(d, l, b, n) == [window |-> Window(d, b, n + 1), state |-> Carried(d, l, b, n)]

CachesExact ==
    /\ DOMAIN caches = 1..decoder.layers /\ DOMAIN recurrent = 1..decoder.layers
    /\ \A l \in 1..decoder.layers :
         IF Attends(decoder, l) THEN caches[l] = RowsSeen(l, Stream(l - 1), Seen(l))
                                ELSE recurrent[l] = Carry(decoder, l, Stream(l - 1), Seen(l))

\* Where the generation loop is.
Turn ==
    \/ status = "prefill" /\ generated = <<>> /\ fed < Len(prompt)
    \/ /\ status = "choose" /\ layer = 0 /\ Len(generated) < MaxNew
       /\ fed = Len(prompt) + Len(generated) /\ logits = Logits(Stream(decoder.layers)[fed])
    \/ /\ status = "forward" /\ generated # <<>> /\ Len(generated) < MaxNew
       /\ fed = Len(prompt) + Len(generated) - 1
    \/ /\ status = "done" /\ layer = 0 /\ generated # <<>>
       /\ fed = Len(prompt) + Len(generated) - 1 /\ logits = Logits(Stream(decoder.layers)[fed])
       /\ Last(generated) = Eos \/ Len(generated) = MaxNew

DecodeTyped ==
    /\ decoder \in Decoders /\ (IF decoder.bounded THEN Loads(decoder) ELSE LoadsRouted(decoder))
    /\ \E S : prompt \in Seq(S) /\ generated \in Seq(S)
    /\ prompt # <<>> /\ fed \in Nat /\ layer \in 0..(decoder.layers + 1)

EosLast == \A i \in 1..Len(generated) : i < Len(generated) \/ status # "done" => generated[i] # Eos

Underway ==
    layer # 0 => /\ position = fed /\ fed < Len(prompt) + Len(generated)
                 /\ hidden = Stream(layer - 1)[fed + 1]

\* What holds between the steps of a decoder: each layer carries what its stream, computed
\* for the whole sequence at once, says of the tokens it has seen.
DecodeExact == DecodeTyped /\ CachesExact /\ Turn /\ EosLast /\ Underway

LEMMA ConcatIs ==
    ASSUME NEW S, NEW a \in Seq(S), NEW c \in Seq(S)
    PROVE  /\ Len(a \o c) = Len(a) + Len(c) /\ DOMAIN (a \o c) = 1..(Len(a) + Len(c))
           /\ \A i \in 1..Len(a) : (a \o c)[i] = a[i]
           /\ \A i \in 1..Len(c) : (a \o c)[Len(a) + i] = c[i]
  OBVIOUS

LEMMA DecoderIs ==
    ASSUME DecodeTyped
    PROVE  /\ decoder.layers \in Nat \ {0} /\ decoder.interval \in Nat \ {0} /\ decoder.taps \in Nat
           /\ \A l \in 1..decoder.layers : Attends(decoder, l) \/ decoder.taps >= 2
  <1>1. /\ {decoder.layers, decoder.interval, decoder.taps} \subseteq Nat
        /\ decoder.bounded \in BOOLEAN
        /\ decoder.bounded => decoder.interval = 1
    BY DecoderAssumption DEF DecodeTyped
  <1>2. CASE decoder.bounded
    <2>1. \A l \in 1..decoder.layers : l % decoder.interval = 0
      BY <1>1, <1>2
    <2> QED
      BY <1>1, <1>2, <2>1 DEF DecodeTyped, Loads, Attends
  <1>3. CASE ~decoder.bounded
    BY <1>1, <1>3 DEF DecodeTyped, LoadsRouted
  <1> QED
    BY <1>2, <1>3

LEMMA SpokenIs ==
    ASSUME DecodeTyped
    PROVE  /\ Len(prompt) \in Nat \ {0} /\ Len(generated) \in Nat
           /\ Len(Spoken) = Len(prompt) + Len(generated) /\ DOMAIN Spoken = 1..Len(Spoken)
           /\ \A i \in 1..Len(prompt) : Spoken[i] = prompt[i]
           /\ \A i \in 1..Len(generated) : Spoken[Len(prompt) + i] = generated[i]
  <1>1. PICK S : prompt \in Seq(S) /\ generated \in Seq(S)
    BY DEF DecodeTyped
  <1>2. prompt # <<>>
    BY DEF DecodeTyped
  <1> QED
    BY <1>1, <1>2 DEF Spoken

\* Layer l + 1 over the stream of layer l.
LEMMA StreamIs ==
    ASSUME DecodeTyped
    PROVE  /\ \A l \in 0..decoder.layers : DOMAIN Stream(l) = 1..(Len(prompt) + Len(generated))
           /\ \A p \in 1..(Len(prompt) + Len(generated)) : Stream(0)[p] = Embedding(Spoken[p])
           /\ \A l \in 1..decoder.layers : Stream(l) = Above(decoder, l, Stream(l - 1))
  <1>1. decoder.layers \in Nat
    BY DecoderIs
  <1>2. DOMAIN Spoken = 1..(Len(prompt) + Len(generated))
    BY SpokenIs
  <1>3. \A l \in 0..decoder.layers : DOMAIN Stream(l) = 1..(Len(prompt) + Len(generated))
    BY <1>1, <1>2, StreamsDomain, Zenon DEF Stream
  <1>4. Stream(0) = [p \in DOMAIN Spoken |-> Embedding(Spoken[p])]
    BY <1>1, StreamsFirst DEF Stream
  <1>5. \A l \in 1..decoder.layers : Stream(l) = Above(decoder, l, Stream(l - 1))
    <2> DEFINE h == Streams(decoder, Spoken)
    <2>1. \A l \in 1..decoder.layers : h[l] = Above(decoder, l, h[l - 1])
      BY <1>1, StreamsStep, Zenon
    <2> HIDE DEF h
    <2>2. \A l : Stream(l) = h[l]
      BY Zenon DEF Stream, h
    <2> QED
      BY <2>1, <2>2
  <1> QED
    BY <1>2, <1>3, <1>4, <1>5

LEMMA DecodeInit == DInit => DecodeExact
  <1> SUFFICES ASSUME DInit PROVE DecodeExact
    OBVIOUS
  <1>1. decoder \in Decoders /\ (IF decoder.bounded THEN Loads(decoder) ELSE LoadsRouted(decoder))
    BY DEF DInit
  <1>2. PICK n \in 1..MaxPrompt : prompt \in [1..n -> Tokens]
    BY DEF DInit
  <1>3. prompt \in Seq(Tokens) /\ Len(prompt) = n /\ n \in Nat \ {0}
    BY <1>2, DecoderAssumption
  <1>4. fed = 0 /\ layer = 0 /\ generated = <<>> /\ status = "prefill" /\ Fresh(decoder)
    BY DEF DInit
  <1>5. {decoder.layers} \subseteq Nat
    BY <1>1, DecoderAssumption
  <1>6. DecodeTyped
    <2>1. generated \in Seq(Tokens) /\ prompt # <<>>
      BY <1>3, <1>4
    <2>2. \E S : prompt \in Seq(S) /\ generated \in Seq(S)
      BY <1>3, <2>1
    <2> QED
      BY <1>1, <1>4, <1>5, <2>1, <2>2 DEF DecodeTyped
  <1>7. CachesExact
    <2>1. \A l \in 1..decoder.layers : Seen(l) = 0
      BY <1>4, <1>5 DEF Seen
    <2>2. ASSUME NEW l \in 1..decoder.layers, Attends(decoder, l)
          PROVE  caches[l] = RowsSeen(l, Stream(l - 1), Seen(l))
      BY <1>4, <2>1, <2>2 DEF Fresh, RowsSeen
    <2>3. ASSUME NEW l \in 1..decoder.layers
          PROVE  recurrent[l] = Carry(decoder, l, Stream(l - 1), Seen(l))
      <3> DEFINE b == Stream(l - 1)
      <3>1. Carried(decoder, l, b, 0) = 0
        BY CarriedIs
      <3>2. decoder.taps \in Nat
        BY <1>1, DecoderAssumption
      <3> HIDE DEF b
      <3>3. \A t \in 1..(decoder.taps - 1) : InputAt(b, (0 + 1) - decoder.taps + t) = 0
        BY <3>2 DEF InputAt
      <3>4. Window(decoder, b, 0 + 1) = [t \in 1..(decoder.taps - 1) |-> 0]
        <4>1. Window(decoder, b, 0 + 1)
                = [t \in 1..(decoder.taps - 1) |-> InputAt(b, (0 + 1) - decoder.taps + t)]
          BY Zenon DEF Window
        <4>2. [t \in 1..(decoder.taps - 1) |-> InputAt(b, (0 + 1) - decoder.taps + t)]
                = [t \in 1..(decoder.taps - 1) |-> 0]
          BY <3>3
        <4> QED
          BY <4>1, <4>2, Zenon
      <3>5. recurrent[l] = [window |-> [t \in 1..(decoder.taps - 1) |-> 0], state |-> 0]
        BY <1>4 DEF Fresh
      <3> QED
        BY <2>1, <3>1, <3>4, <3>5 DEF b, Carry
    <2> QED
      BY <1>4, <2>2, <2>3 DEF CachesExact, Fresh
  <1> QED
    BY <1>3, <1>4, <1>6, <1>7 DEF DecodeExact, Turn, EosLast, Underway

-----------------------------------------------------------------------------
(* What a layer carries grows by the position it passes                     *)

LEMMA AppendIs ==
    ASSUME NEW n \in Nat, NEW g, NEW x
    PROVE  /\ Len([p \in 1..n |-> g[p]]) = n
           /\ Append([p \in 1..n |-> g[p]], x) = [p \in 1..(n + 1) |-> IF p = n + 1 THEN x ELSE g[p]]
  <1> DEFINE s == [p \in 1..n |-> g[p]]
             S == {g[p] : p \in 1..n} \cup {x}
             t == [p \in 1..(n + 1) |-> IF p = n + 1 THEN x ELSE g[p]]
  <1>1. s \in Seq(S) /\ Len(s) = n /\ x \in S
    <2>1. s \in [1..n -> S]
      OBVIOUS
    <2> HIDE DEF s, S
    <2>2. s \in Seq(S) /\ Len(s) = n
      BY <2>1
    <2> QED
      BY <2>2 DEF S
  <1>2. Append(s, x) \in Seq(S) /\ Len(Append(s, x)) = n + 1
        /\ \A p \in 1..(n + 1) : Append(s, x)[p] = IF p = n + 1 THEN x ELSE s[p]
    <2> HIDE DEF s, S
    <2> QED
      BY <1>1
  <1>3. \A p \in 1..(n + 1) : p # n + 1 => s[p] = g[p]
    OBVIOUS
  <1>4. Append(s, x) = t
    <2> HIDE DEF s, S
    <2>1. Append(s, x) = [p \in 1..(n + 1) |-> Append(s, x)[p]]
      <3> DEFINE y == Append(s, x)
      <3>1. y \in Seq(S) /\ Len(y) = n + 1
        BY <1>2
      <3> HIDE DEF y
      <3>2. y \in [1..(n + 1) -> S]
        BY <3>1, LenProperties
      <3>3. y = [p \in 1..(n + 1) |-> y[p]]
        BY <3>2
      <3> QED
        BY <3>3 DEF y
    <2>2. \A p \in 1..(n + 1) : Append(s, x)[p] = t[p]
      BY <1>2, <1>3
    <2> QED
      BY <2>1, <2>2
  <1> QED
    BY <1>1, <1>4

LEMMA RowsGrow ==
    ASSUME NEW l, NEW b, NEW n \in Nat
    PROVE  /\ Len(RowsSeen(l, b, n)) = n
           /\ Append(RowsSeen(l, b, n), Row(l, b[n + 1], n)) = RowsSeen(l, b, n + 1)
  <1> DEFINE g == [p \in 1..n |-> Row(l, b[p], p - 1)]
             x == Row(l, b[n + 1], n)
  <1>1. RowsSeen(l, b, n) = [p \in 1..n |-> g[p]]
    BY DEF RowsSeen
  <1>2. RowsSeen(l, b, n + 1) = [p \in 1..(n + 1) |-> IF p = n + 1 THEN x ELSE g[p]]
    <2>1. \A p \in 1..(n + 1) : Row(l, b[p], p - 1) = IF p = n + 1 THEN x ELSE g[p]
      <3>1. ASSUME NEW p \in 1..(n + 1), p = n + 1 PROVE Row(l, b[p], p - 1) = x
        <4>1. p - 1 = n
          BY <3>1
        <4> QED
          BY <3>1, <4>1
      <3>2. ASSUME NEW p \in 1..(n + 1), p # n + 1 PROVE Row(l, b[p], p - 1) = g[p]
        BY <3>2
      <3> HIDE DEF g, x
      <3> QED
        BY <3>1, <3>2
    <2> HIDE DEF g, x
    <2> QED
      BY <2>1 DEF RowsSeen
  <1> HIDE DEF g, x
  <1>3. Len(RowsSeen(l, b, n)) = n /\ Append(RowsSeen(l, b, n), x) = RowsSeen(l, b, n + 1)
    BY <1>1, <1>2, AppendIs
  <1> QED
    BY <1>3 DEF x

LEMMA WindowShifts ==
    ASSUME NEW d, NEW b, NEW n \in Nat, d.taps \in Nat, d.taps >= 2
    PROVE  Append(Tail(Window(d, b, n + 1)), b[n + 1]) = Window(d, b, (n + 1) + 1)
  <1> DEFINE w == Window(d, b, n + 1)
             k == d.taps - 2
             g == [t \in 1..k |-> InputAt(b, ((n + 1) + 1) - d.taps + t)]
             S == {InputAt(b, (n + 1) - d.taps + t) : t \in 1..(k + 1)}
  <1>1. k \in Nat /\ k + 1 = d.taps - 1
    OBVIOUS
  <1>2. w \in [1..(k + 1) -> S]
    BY <1>1 DEF Window
  <1>3. w \in Seq(S) /\ Len(w) = k + 1
    <2> HIDE DEF w, k, S
    <2> QED
      BY <1>1, <1>2
  <1>4. Tail(w) = [t \in 1..k |-> w[t + 1]]
    <2> HIDE DEF w, k, S
    <2>1. w # <<>>
      BY <1>1, <1>3
    <2>2. Tail(w) \in Seq(S) /\ Len(Tail(w)) = k
      BY <1>1, <1>3, <2>1
    <2>3. \A t \in 1..k : Tail(w)[t] = w[t + 1]
      BY <1>1, <1>3, <2>1
    <2>4. Tail(w) = [t \in 1..k |-> Tail(w)[t]]
      <3> DEFINE y == Tail(w)
      <3>1. y \in Seq(S) /\ Len(y) = k
        BY <2>2
      <3> HIDE DEF y
      <3>2. y \in [1..k -> S]
        BY <3>1, LenProperties
      <3>3. y = [t \in 1..k |-> y[t]]
        BY <3>2
      <3> QED
        BY <3>3 DEF y
    <2> QED
      BY <2>3, <2>4
  <1>5. \A t \in 1..k : w[t + 1] = g[t]
    <2> SUFFICES ASSUME NEW t \in 1..k PROVE w[t + 1] = g[t]
      OBVIOUS
    <2>1. t + 1 \in 1..(d.taps - 1) /\ (n + 1) - d.taps + (t + 1) = ((n + 1) + 1) - d.taps + t
      BY <1>1
    <2>2. w[t + 1] = InputAt(b, (n + 1) - d.taps + (t + 1))
      BY <2>1 DEF Window
    <2>3. g[t] = InputAt(b, ((n + 1) + 1) - d.taps + t)
      OBVIOUS
    <2> QED
      BY <2>1, <2>2, <2>3
  <1>6. Tail(w) = [t \in 1..k |-> g[t]]
    <2> HIDE DEF w, k, g
    <2> QED
      BY <1>4, <1>5
  <1>7. Append(Tail(w), b[n + 1]) = [t \in 1..(k + 1) |-> IF t = k + 1 THEN b[n + 1] ELSE g[t]]
    <2> HIDE DEF w, k, g
    <2> DEFINE x == b[n + 1]
               y == Tail(w)
    <2>1. k \in Nat /\ y = [t \in 1..k |-> g[t]]
      BY <1>1, <1>6
    <2> HIDE DEF x, y
    <2>2. Append(y, x) = [t \in 1..(k + 1) |-> IF t = k + 1 THEN x ELSE g[t]]
      BY <2>1, AppendIs
    <2> QED
      BY <2>2 DEF x, y
  <1>8. \A t \in 1..(k + 1) : (IF t = k + 1 THEN b[n + 1] ELSE g[t])
                                = InputAt(b, ((n + 1) + 1) - d.taps + t)
    <2>1. ASSUME NEW t \in 1..(k + 1), t = k + 1
          PROVE  b[n + 1] = InputAt(b, ((n + 1) + 1) - d.taps + t)
      <3>1. ((n + 1) + 1) - d.taps + t = n + 1 /\ ~ (n + 1 < 1)
        BY <2>1
      <3> QED
        BY <3>1 DEF InputAt
    <2>2. ASSUME NEW t \in 1..(k + 1), t # k + 1
          PROVE  g[t] = InputAt(b, ((n + 1) + 1) - d.taps + t)
      BY <1>1, <2>2
    <2> HIDE DEF k, g
    <2> QED
      BY <2>1, <2>2
  <1>9. Window(d, b, (n + 1) + 1) = [t \in 1..(k + 1) |-> InputAt(b, ((n + 1) + 1) - d.taps + t)]
    BY <1>1 DEF Window
  <1> HIDE DEF w, k, g
  <1>a. Append(Tail(w), b[n + 1]) = Window(d, b, (n + 1) + 1)
    BY <1>7, <1>8, <1>9
  <1> QED
    BY <1>a DEF w

LEMMA CarryAgrees ==
    ASSUME NEW d, NEW l, NEW b, NEW c, NEW n \in Nat, d.taps \in Nat, \A q \in 1..n : b[q] = c[q]
    PROVE  RowsSeen(l, b, n) = RowsSeen(l, c, n) /\ Carry(d, l, b, n) = Carry(d, l, c, n)
  <1>1. n + 1 \in 0..(n + 1)
    OBVIOUS
  <1>2. Window(d, b, n + 1) = Window(d, c, n + 1)
    BY <1>1, FilteredAgree
  <1>3. Carried(d, l, b, n) = Carried(d, l, c, n)
    BY CarriedAgree
  <1> QED
    BY <1>2, <1>3 DEF RowsSeen, Carry

-----------------------------------------------------------------------------
(* Each step of the decoder                                                 *)

LEMMA SameStreams ==
    ASSUME UNCHANGED <<decoder, prompt, generated>>
    PROVE  Spoken' = Spoken /\ \A l : Stream(l)' = Stream(l)
  BY DEF Spoken, Stream

LEMMA SameTyped ==
    ASSUME DecodeTyped, UNCHANGED <<decoder, prompt, generated>>,
           fed' \in Nat, layer' \in 0..(decoder.layers + 1)
    PROVE  DecodeTyped'
  <1>1. \E S : prompt \in Seq(S) /\ generated \in Seq(S)
    BY DEF DecodeTyped
  <1>2. \E S : prompt' \in Seq(S) /\ generated' \in Seq(S)
    BY <1>1
  <1>3. /\ decoder \in Decoders /\ (IF decoder.bounded THEN Loads(decoder) ELSE LoadsRouted(decoder))
        /\ prompt # <<>>
    BY DEF DecodeTyped
  <1>4. /\ decoder' \in Decoders /\ (IF decoder.bounded THEN Loads(decoder) ELSE LoadsRouted(decoder))'
        /\ prompt' # <<>>
    BY <1>3 DEF Loads, LoadsRouted
  <1> QED
    BY <1>2, <1>4 DEF DecodeTyped

LEMMA BeginExact == ASSUME DecodeExact, Begin PROVE DecodeExact'
  <1>1. /\ layer = 0 /\ layer' = 1 /\ position' = Position /\ hidden' = Embedding(token')
        /\ decoder' = decoder /\ prompt' = prompt /\ fed' = fed /\ caches' = caches
        /\ recurrent' = recurrent /\ logits' = logits /\ generated' = generated /\ status' = status
    BY DEF Begin
  <1>2. \/ status = "prefill" /\ fed < Len(prompt) /\ token' = prompt[fed + 1]
        \/ status = "forward" /\ token' = generated[Len(generated)]
    BY DEF Begin, Last
  <1>3. DecodeTyped /\ CachesExact /\ Turn /\ EosLast
    BY DEF DecodeExact
  <1>4. decoder.layers \in Nat \ {0} /\ fed \in Nat
    BY <1>3, DecoderIs DEF DecodeTyped
  <1>5. Spoken' = Spoken /\ \A l : Stream(l)' = Stream(l)
    BY <1>1, SameStreams
  <1>6. DecodeTyped'
    BY <1>1, <1>3, <1>4, SameTyped
  <1>7. CachesExact'
    <2>1. \A l \in 1..decoder.layers : Seen(l) = fed /\ Seen(l)' = fed
      BY <1>1, <1>4 DEF Seen
    <2> QED
      BY <1>1, <1>3, <1>5, <2>1 DEF CachesExact
  <1>8. Turn' /\ EosLast'
    BY <1>1, <1>2, <1>3, <1>5 DEF Turn, EosLast
  <1>9. Underway'
    <2> DEFINE n == Len(prompt)
               m == Len(generated)
    <2>1. /\ n \in Nat \ {0} /\ m \in Nat
          /\ \A i \in 1..n : Spoken[i] = prompt[i]
          /\ \A i \in 1..m : Spoken[n + i] = generated[i]
      BY <1>3, SpokenIs
    <2>2. \A p \in 1..(n + m) : Stream(0)[p] = Embedding(Spoken[p])
      BY <1>3, StreamIs
    <2>3. \/ status = "prefill" /\ m = 0 /\ fed < n
          \/ status = "forward" /\ m # 0 /\ fed = n + m - 1
      <3>1. status = "prefill" => generated = <<>> /\ fed < Len(prompt)
        BY <1>3 DEF Turn
      <3>2. status = "forward" => generated # <<>> /\ fed = Len(prompt) + Len(generated) - 1
        BY <1>3 DEF Turn
      <3>3. PICK S : generated \in Seq(S)
        BY <1>3 DEF DecodeTyped
      <3>4. m = 0 <=> generated = <<>>
        BY <3>3
      <3> QED
        BY <1>2, <3>1, <3>2, <3>4
    <2>4. position' = fed
      BY <1>1, <2>3 DEF Position
    <2> HIDE DEF n, m
    <2>5. fed + 1 \in 1..(n + m) /\ fed < n + m
      BY <1>4, <2>1, <2>3
    <2>6. token' = Spoken[fed + 1]
      <3>1. CASE status = "prefill"
        <4>1. fed + 1 \in 1..n /\ token' = prompt[fed + 1]
          BY <1>2, <1>4, <2>1, <2>3, <3>1
        <4> QED
          BY <2>1, <4>1
      <3>2. CASE status = "forward"
        <4>1. m \in 1..m /\ fed + 1 = n + m /\ token' = generated[m]
          BY <1>2, <2>1, <2>3, <3>2 DEF m
        <4> QED
          BY <2>1, <4>1
      <3> QED
        BY <1>2, <3>1, <3>2
    <2>7. hidden' = Stream(0)[fed + 1]
      BY <1>1, <2>2, <2>5, <2>6
    <2>8. layer' - 1 = 0 /\ hidden' = Stream(layer' - 1)[fed' + 1]
      BY <1>1, <2>7
    <2> QED
      BY <1>1, <1>5, <2>4, <2>5, <2>8 DEF Underway, n, m
  <1> QED
    BY <1>6, <1>7, <1>8, <1>9 DEF DecodeExact

\* A layer that passes what its stream holds there, to the next layer.
LEMMA LayerPassed ==
    ASSUME DecodeExact, layer \in 1..decoder.layers, layer' = layer + 1,
           UNCHANGED <<decoder, prompt, fed, position, logits, generated, status>>,
           DOMAIN caches' = DOMAIN caches, DOMAIN recurrent' = DOMAIN recurrent,
           \A l \in 1..decoder.layers : l # layer => caches'[l] = caches[l] /\ recurrent'[l] = recurrent[l],
           IF Attends(decoder, layer)
           THEN caches'[layer] = RowsSeen(layer, Stream(layer - 1), fed + 1)
           ELSE recurrent'[layer] = Carry(decoder, layer, Stream(layer - 1), fed + 1),
           hidden' = Stream(layer)[fed + 1]
    PROVE  DecodeExact'
  <1>1. DecodeTyped /\ CachesExact /\ Turn /\ EosLast /\ Underway
    BY DEF DecodeExact
  <1>2. decoder.layers \in Nat \ {0} /\ fed \in Nat
    BY <1>1, DecoderIs DEF DecodeTyped
  <1>3. Spoken' = Spoken /\ \A l : Stream(l)' = Stream(l)
    BY SameStreams
  <1>4. DecodeTyped'
    BY <1>1, <1>2, SameTyped
  <1>5. CachesExact'
    <2>1. \A l \in 1..decoder.layers :
            /\ l # layer => Seen(l)' = Seen(l)
            /\ l = layer => Seen(l)' = fed + 1
      BY <1>2 DEF Seen
    <2>2. ASSUME NEW l \in 1..decoder.layers
          PROVE  IF Attends(decoder, l)
                 THEN caches'[l] = RowsSeen(l, Stream(l - 1), Seen(l)')
                 ELSE recurrent'[l] = Carry(decoder, l, Stream(l - 1), Seen(l)')
      <3>1. CASE l = layer
        BY <2>1, <3>1
      <3>2. CASE l # layer
        BY <1>1, <2>1, <3>2 DEF CachesExact
      <3> QED
        BY <3>1, <3>2
    <2>3. DOMAIN caches' = 1..decoder.layers /\ DOMAIN recurrent' = 1..decoder.layers
      BY <1>1 DEF CachesExact
    <2> QED
      BY <1>3, <2>2, <2>3 DEF CachesExact
  <1>6. Turn' /\ EosLast'
    <2>1. status # "choose" /\ status # "done"
      BY <1>1, <1>2 DEF Turn
    <2> QED
      BY <1>1, <2>1 DEF Turn, EosLast
  <1>7. Underway'
    <2>1. (layer + 1) - 1 = layer /\ position = fed /\ fed < Len(prompt) + Len(generated)
      BY <1>1, <1>2 DEF Underway
    <2> QED
      BY <1>3, <2>1 DEF Underway
  <1> QED
    BY <1>4, <1>5, <1>6, <1>7 DEF DecodeExact

LEMMA AttendExact == ASSUME DecodeExact, AttendLayer PROVE DecodeExact'
  <1> DEFINE b == Stream(layer - 1)
  <1>1. DecodeTyped /\ CachesExact /\ Turn /\ Underway
    BY DEF DecodeExact
  <1>2. layer \in 1..decoder.layers /\ Attends(decoder, layer)
    BY DEF AttendLayer, Running
  <1>3. decoder.layers \in Nat \ {0} /\ fed \in Nat
    BY <1>1, DecoderIs DEF DecodeTyped
  <1>4. caches[layer] = RowsSeen(layer, b, fed)
    <2>1. Seen(layer) = fed
      BY <1>2, <1>3 DEF Seen
    <2> QED
      BY <1>1, <1>2, <2>1 DEF CachesExact
  <1>5. position = fed /\ hidden = b[fed + 1] /\ fed < Len(prompt) + Len(generated)
    BY <1>1, <1>2, <1>3 DEF Underway
  <1>6. Len(prompt) \in Nat /\ Len(generated) \in Nat
    BY <1>1, SpokenIs
  <1>7. Len(generated) < MaxNew
    <2>1. status # "choose" /\ status # "done"
      BY <1>1, <1>2, <1>3 DEF Turn
    <2>2. CASE status = "prefill"
      BY <1>1, <2>2, DecoderAssumption DEF Turn
    <2> QED
      BY <1>1, <2>1, <2>2 DEF Turn
  <1>8. Len(caches[layer]) # Len(prompt) + MaxNew
    <2>1. Len(caches[layer]) = fed
      BY <1>3, <1>4, RowsGrow
    <2> QED
      BY <1>3, <1>5, <1>6, <1>7, <2>1, DecoderAssumption
  <1>9. /\ caches' = [caches EXCEPT ![layer] = Append(@, Row(layer, hidden, position))]
        /\ hidden' = Ffn(decoder, layer,
                         (hidden + Attend(layer, hidden, position, caches'[layer])) % Modulus)
        /\ layer' = layer + 1 /\ status' = status
        /\ UNCHANGED <<decoder, prompt, fed, token, position, recurrent, logits, generated>>
    BY <1>8, Zenon DEF AttendLayer
  <1>10. caches'[layer] = RowsSeen(layer, b, fed + 1)
    <2>1. layer \in DOMAIN caches
      BY <1>1, <1>2 DEF CachesExact
    <2>2. caches'[layer] = Append(caches[layer], Row(layer, hidden, position))
      BY <1>9, <2>1
    <2>3. Append(RowsSeen(layer, b, fed), Row(layer, b[fed + 1], fed)) = RowsSeen(layer, b, fed + 1)
      BY <1>3, RowsGrow
    <2> HIDE DEF b
    <2> QED
      BY <1>4, <1>5, <2>2, <2>3
  <1>11. hidden' = Stream(layer)[fed + 1]
    <2> DEFINE p == fed + 1
    <2>1. Stream(layer) = Above(decoder, layer, b) /\ DOMAIN b = 1..(Len(prompt) + Len(generated))
      BY <1>1, <1>2, <1>3, StreamIs
    <2>2. p \in 1..(Len(prompt) + Len(generated)) /\ p - 1 = fed
      BY <1>3, <1>5, <1>6
    <2> HIDE DEF b, p
    <2>3. Above(decoder, layer, b)[p]
            = Ffn(decoder, layer, (b[p] + Attend(layer, b[p], p - 1, RowsSeen(layer, b, p))) % Modulus)
      BY <1>2, <2>1, <2>2 DEF Above, RowsSeen
    <2> QED
      BY <1>5, <1>9, <1>10, <2>1, <2>2, <2>3 DEF p
  <1>12. \A l \in 1..decoder.layers : l # layer => caches'[l] = caches[l] /\ recurrent'[l] = recurrent[l]
    BY <1>1, <1>9 DEF CachesExact
  <1>13. DOMAIN caches' = DOMAIN caches /\ DOMAIN recurrent' = DOMAIN recurrent
    BY <1>9
  <1> HIDE DEF b
  <1>14. UNCHANGED <<decoder, prompt, fed, position, logits, generated, status>> /\ layer' = layer + 1
    BY <1>9
  <1>15. caches'[layer] = RowsSeen(layer, Stream(layer - 1), fed + 1)
    BY <1>10 DEF b
  <1> QED
    BY <1>2, <1>11, <1>12, <1>13, <1>14, <1>15, LayerPassed

LEMMA RecurExact == ASSUME DecodeExact, RecurLayer PROVE DecodeExact'
  <1> DEFINE b == Stream(layer - 1)
             r == recurrent[layer]
             x == Convolved(layer, r.window, hidden)
             state == Delta(layer, r.state, x)
             n == fed + 1
  <1>1. DecodeTyped /\ CachesExact /\ Underway
    BY DEF DecodeExact
  <1>2. layer \in 1..decoder.layers /\ ~Attends(decoder, layer)
    BY DEF RecurLayer, Running
  <1>3. /\ decoder.layers \in Nat \ {0} /\ fed \in Nat
        /\ decoder.taps \in Nat /\ decoder.taps >= 2
    BY <1>1, <1>2, DecoderIs DEF DecodeTyped
  <1>4. r = Carry(decoder, layer, b, fed)
    <2>1. Seen(layer) = fed
      BY <1>2, <1>3 DEF Seen
    <2> QED
      BY <1>1, <1>2, <2>1 DEF CachesExact
  <1>5. position = fed /\ hidden = b[n] /\ fed < Len(prompt) + Len(generated)
    BY <1>1, <1>2, <1>3 DEF Underway
  <1>6. Len(prompt) \in Nat /\ Len(generated) \in Nat
    BY <1>1, SpokenIs
  <1>7. /\ recurrent' = [recurrent EXCEPT ![layer] =
                           [window |-> Append(Tail(r.window), hidden), state |-> state]]
        /\ hidden' = Ffn(decoder, layer, (hidden + Mix(state, x)) % Modulus)
        /\ layer' = layer + 1
        /\ UNCHANGED <<decoder, prompt, fed, token, position, caches, logits, generated, status>>
    BY Zenon DEF RecurLayer
  <1>8. r.window = Window(decoder, b, n) /\ r.state = Carried(decoder, layer, b, fed)
    BY <1>4 DEF Carry
  <1>9. x = Filtered(decoder, layer, b, n)
    BY <1>5, <1>8 DEF Filtered
  <1>10. state = Carried(decoder, layer, b, n)
    <2>1. Carried(decoder, layer, b, n)
            = Delta(layer, Carried(decoder, layer, b, fed), Filtered(decoder, layer, b, n))
      BY <1>3, CarriedIs
    <2> QED
      BY <1>8, <1>9, <2>1
  <1>11. Append(Tail(r.window), hidden) = Window(decoder, b, n + 1)
    <2>1. Append(Tail(Window(decoder, b, n)), b[n]) = Window(decoder, b, n + 1)
      BY <1>3, WindowShifts
    <2> QED
      BY <1>5, <1>8, <2>1
  <1>12. recurrent'[layer] = Carry(decoder, layer, b, n)
    <2>1. layer \in DOMAIN recurrent
      BY <1>1, <1>2 DEF CachesExact
    <2> HIDE DEF b, r, x, state, n
    <2>2. recurrent'[layer] = [window |-> Append(Tail(r.window), hidden), state |-> state]
      BY <1>7, <2>1
    <2> QED
      BY <1>10, <1>11, <2>2 DEF Carry
  <1>13. hidden' = Stream(layer)[n]
    <2>1. Stream(layer) = Above(decoder, layer, b) /\ DOMAIN b = 1..(Len(prompt) + Len(generated))
      BY <1>1, <1>2, <1>3, StreamIs
    <2>2. n \in 1..(Len(prompt) + Len(generated))
      BY <1>3, <1>5, <1>6
    <2> HIDE DEF b, n, x, state
    <2>3. Above(decoder, layer, b)[n]
            = Ffn(decoder, layer, (b[n] + StateAt(decoder, layer, b, n)) % Modulus)
      BY <1>2, <2>1, <2>2 DEF Above
    <2>4. StateAt(decoder, layer, b, n) = Mix(state, x)
      BY <1>9, <1>10, StateIs
    <2> QED
      BY <1>5, <1>7, <2>1, <2>3, <2>4
  <1>14. \A l \in 1..decoder.layers : l # layer => caches'[l] = caches[l] /\ recurrent'[l] = recurrent[l]
    <2> HIDE DEF r, state, x
    <2> QED
      BY <1>1, <1>7 DEF CachesExact
  <1>15. DOMAIN caches' = DOMAIN caches /\ DOMAIN recurrent' = DOMAIN recurrent
    BY <1>7
  <1>16. UNCHANGED <<decoder, prompt, fed, position, logits, generated, status>> /\ layer' = layer + 1
    BY <1>7
  <1> HIDE DEF r, state, x, b
  <1>17. recurrent'[layer] = Carry(decoder, layer, Stream(layer - 1), n)
    BY <1>12 DEF b
  <1> QED
    BY <1>2, <1>13, <1>14, <1>15, <1>16, <1>17, LayerPassed DEF n

LEMMA ProjectExact == ASSUME DecodeExact, Project PROVE DecodeExact'
  <1>1. DecodeTyped /\ CachesExact /\ Turn /\ EosLast /\ Underway
    BY DEF DecodeExact
  <1>2. /\ layer = decoder.layers + 1 /\ logits' = Logits(hidden) /\ layer' = 0 /\ fed' = fed + 1
        /\ status' = IF status = "prefill" /\ fed' < Len(prompt) THEN "prefill" ELSE "choose"
        /\ UNCHANGED <<decoder, prompt, hidden, token, position, caches, recurrent, generated>>
    BY DEF Project
  <1>3. decoder.layers \in Nat \ {0} /\ fed \in Nat
    BY <1>1, DecoderIs DEF DecodeTyped
  <1>4. Spoken' = Spoken /\ \A l : Stream(l)' = Stream(l)
    BY <1>2, SameStreams
  <1>5. DecodeTyped'
    BY <1>1, <1>2, <1>3, SameTyped
  <1>6. CachesExact'
    <2>1. \A l \in 1..decoder.layers : Seen(l) = fed + 1 /\ Seen(l)' = fed + 1
      BY <1>2, <1>3 DEF Seen
    <2> QED
      BY <1>1, <1>2, <1>4, <2>1 DEF CachesExact
  <1>7. logits' = Logits(Stream(decoder.layers)[fed + 1])
    <2>1. (decoder.layers + 1) - 1 = decoder.layers
      BY <1>3
    <2> QED
      BY <1>1, <1>2, <1>3, <2>1 DEF Underway
  <1>8. Turn' /\ EosLast'
    <2> DEFINE n == Len(prompt)
               m == Len(generated)
    <2>1. /\ n \in Nat \ {0} /\ m \in Nat /\ MaxNew \in Nat \ {0} /\ fed < n + m
          /\ generated = <<>> => m = 0
      BY <1>1, <1>2, <1>3, SpokenIs, DecoderAssumption DEF Underway
    <2>2. status # "choose" /\ status # "done"
      BY <1>1, <1>2, <1>3 DEF Turn
    <2>3. \/ status = "prefill" /\ generated = <<>> /\ fed < n
          \/ status = "forward" /\ m < MaxNew /\ fed = n + m - 1
      BY <1>1, <2>2 DEF Turn
    <2>4. EosLast'
      BY <1>1, <1>2, <2>2 DEF EosLast
    <2> HIDE DEF n, m
    <2>5. CASE status' = "prefill"
      <3>1. generated = <<>> /\ fed + 1 < n
        BY <1>2, <2>3, <2>5 DEF n
      <3> QED
        BY <1>2, <2>4, <2>5, <3>1 DEF Turn, n
    <2>6. CASE status' # "prefill"
      <3>1. status' = "choose" /\ (status = "prefill" => ~ (fed + 1 < n))
        BY <1>2, <2>6 DEF n
      <3>2. m < MaxNew /\ fed + 1 = n + m
        BY <1>3, <2>1, <2>3, <3>1
      <3> QED
        BY <1>2, <1>4, <1>7, <2>4, <3>1, <3>2 DEF Turn, n, m
    <2> QED
      BY <2>5, <2>6
  <1>9. Underway'
    BY <1>2 DEF Underway
  <1> QED
    BY <1>5, <1>6, <1>8, <1>9 DEF DecodeExact

LEMMA ChooseExact == ASSUME DecodeExact, ChooseToken PROVE DecodeExact'
  <1> DEFINE x == Argmax(logits)
             n == Len(prompt)
             m == Len(generated)
  <1>1. DecodeTyped /\ CachesExact /\ Turn /\ EosLast
    BY DEF DecodeExact
  <1>2. /\ status = "choose" /\ generated' = Append(generated, x)
        /\ status' = IF x = Eos \/ Len(generated') = MaxNew THEN "done" ELSE "forward"
        /\ decoder' = decoder /\ prompt' = prompt /\ fed' = fed /\ layer' = layer
        /\ caches' = caches /\ recurrent' = recurrent /\ logits' = logits
    BY DEF ChooseToken
  <1>3. layer = 0 /\ m < MaxNew /\ fed = n + m /\ logits = Logits(Stream(decoder.layers)[fed])
    BY <1>1, <1>2 DEF Turn
  <1>4. decoder.layers \in Nat \ {0} /\ decoder.taps \in Nat /\ fed \in Nat
    BY <1>1, DecoderIs DEF DecodeTyped
  <1>5. PICK S : prompt \in Seq(S) /\ generated \in Seq(S)
    BY <1>1 DEF DecodeTyped
  <1>6. /\ n \in Nat \ {0} /\ m \in Nat /\ MaxNew \in Nat
        /\ \A i \in 1..n : Spoken[i] = prompt[i]
        /\ \A i \in 1..m : Spoken[n + i] = generated[i]
    BY <1>1, SpokenIs, DecoderAssumption
  <1> HIDE DEF x, n, m
  <1>7. /\ generated' \in Seq(S \cup {x}) /\ prompt' \in Seq(S \cup {x}) /\ Len(generated') = m + 1
        /\ generated' # <<>> /\ generated'[m + 1] = x
        /\ \A i \in 1..m : generated'[i] = generated[i]
    BY <1>2, <1>5 DEF m
  <1>8. DecodeTyped'
    <2>1. \E T : prompt' \in Seq(T) /\ generated' \in Seq(T)
      BY <1>7
    <2>2. /\ decoder \in Decoders /\ (IF decoder.bounded THEN Loads(decoder) ELSE LoadsRouted(decoder))
          /\ prompt # <<>> /\ fed \in Nat /\ layer \in 0..(decoder.layers + 1)
      BY <1>1 DEF DecodeTyped
    <2>3. /\ decoder' \in Decoders /\ (IF decoder.bounded THEN Loads(decoder) ELSE LoadsRouted(decoder))'
          /\ prompt' # <<>> /\ fed' \in Nat /\ layer' \in 0..(decoder'.layers + 1)
      BY <1>2, <2>2 DEF Loads, LoadsRouted
    <2> QED
      BY <2>1, <2>3 DEF DecodeTyped
  <1>9. /\ Len(Spoken) = n + m /\ DOMAIN Spoken = 1..(n + m)
        /\ DOMAIN Spoken' = 1..(n + m + 1)
        /\ \A p \in 1..(n + m) : Spoken'[p] = Spoken[p]
    <2>1. prompt \in Seq(S \cup {x}) /\ generated \in Seq(S \cup {x}) /\ Len(prompt) = n /\ Len(generated) = m
      BY <1>5 DEF n, m
    <2>2. Spoken = prompt \o generated /\ Spoken' = prompt \o generated'
      BY <1>2 DEF Spoken
    <2>3. Len(Spoken) = n + m /\ DOMAIN Spoken = 1..(n + m)
      BY <2>1, <2>2, ConcatIs
    <2>4. /\ DOMAIN Spoken' = 1..(n + (m + 1))
          /\ \A i \in 1..n : Spoken'[i] = prompt[i]
          /\ \A i \in 1..(m + 1) : Spoken'[n + i] = generated'[i]
      <3> DEFINE g == generated'
      <3>1. g \in Seq(S \cup {x}) /\ Len(g) = m + 1 /\ Spoken' = prompt \o g
        BY <1>7, <2>2
      <3> HIDE DEF g
      <3>2. /\ DOMAIN (prompt \o g) = 1..(n + (m + 1))
            /\ \A i \in 1..n : (prompt \o g)[i] = prompt[i]
            /\ \A i \in 1..(m + 1) : (prompt \o g)[n + i] = g[i]
        BY <2>1, <3>1, ConcatIs
      <3> QED
        BY <3>1, <3>2 DEF g
    <2>5. ASSUME NEW p \in 1..(n + m) PROVE Spoken'[p] = Spoken[p]
      <3>1. CASE p <= n
        <4>1. p \in 1..n
          BY <1>6, <3>1
        <4> QED
          BY <1>6, <2>4, <4>1
      <3>2. CASE ~ p <= n
        <4>1. p - n \in 1..m /\ p - n \in 1..(m + 1) /\ n + (p - n) = p
          BY <1>6, <3>2
        <4>2. Spoken'[n + (p - n)] = generated'[p - n] /\ Spoken[n + (p - n)] = generated[p - n]
          BY <1>6, <2>4, <4>1
        <4> QED
          BY <1>7, <4>1, <4>2
      <3> QED
        BY <3>1, <3>2
    <2>6. n + (m + 1) = n + m + 1
      BY <1>6
    <2> QED
      BY <2>3, <2>4, <2>5, <2>6
  <1>10. \A l \in 0..decoder.layers : \A p \in 1..fed : Stream(l)'[p] = Stream(l)[p]
    <2> DEFINE s == Spoken
               t == Spoken'
    <2>1. 1..fed \subseteq DOMAIN s /\ 1..fed \subseteq DOMAIN t /\ \A q \in 1..fed : s[q] = t[q]
      BY <1>3, <1>6, <1>9
    <2> HIDE DEF s, t
    <2>2. \A l \in 0..decoder.layers : \A p \in 1..fed : Streams(decoder, s)[l][p] = Streams(decoder, t)[l][p]
      <3>1. decoder.layers \in Nat /\ decoder.taps \in Nat /\ fed \in Nat
        BY <1>4
      <3>2. StreamsEqual(decoder, s, t, fed)
        BY <2>1, <3>1, StreamsAgree, Zenon
      <3> QED
        BY <3>2, Zenon DEF StreamsEqual
    <2>3. \A l : Stream(l) = Streams(decoder, s)[l] /\ Stream(l)' = Streams(decoder, t)[l]
      BY <1>2, Zenon DEF Stream, s, t
    <2> QED
      BY <2>2, <2>3
  <1>11. CachesExact'
    <2>1. \A l \in 1..decoder.layers : Seen(l) = fed /\ Seen(l)' = fed
      BY <1>2, <1>3, <1>4 DEF Seen
    <2>2. ASSUME NEW l \in 1..decoder.layers
          PROVE  /\ RowsSeen(l, Stream(l - 1), fed) = RowsSeen(l, Stream(l - 1)', fed)
                 /\ Carry(decoder, l, Stream(l - 1), fed) = Carry(decoder, l, Stream(l - 1)', fed)
      <3> DEFINE b == Stream(l - 1)
                 c == Stream(l - 1)'
      <3>1. l - 1 \in 0..decoder.layers
        BY <1>4
      <3>2. \A q \in 1..fed : b[q] = c[q]
        BY <1>10, <3>1
      <3> HIDE DEF b, c
      <3>3. RowsSeen(l, b, fed) = RowsSeen(l, c, fed) /\ Carry(decoder, l, b, fed) = Carry(decoder, l, c, fed)
        BY <1>4, <3>2, CarryAgrees
      <3> QED
        BY <3>3 DEF b, c
    <2> QED
      BY <1>1, <1>2, <2>1, <2>2 DEF CachesExact
  <1>12. Turn'
    <2>1. logits' = Logits(Stream(decoder.layers)'[fed])
      <3>1. decoder.layers \in 0..decoder.layers /\ fed \in 1..fed
        BY <1>3, <1>4, <1>6
      <3> QED
        BY <1>2, <1>3, <1>10, <3>1
    <2>2. fed' = Len(prompt') + Len(generated') - 1
      BY <1>2, <1>3, <1>6, <1>7 DEF n
    <2>3. generated'[Len(generated')] = x /\ Last(generated') = generated'[Len(generated')]
      BY <1>7, <1>6 DEF Last
    <2>4. CASE status' = "done"
      BY <1>2, <1>3, <1>7, <2>1, <2>2, <2>3, <2>4 DEF Turn
    <2>5. CASE status' # "done"
      <3>1. status' = "forward" /\ Len(generated') # MaxNew /\ Len(generated') < MaxNew
        BY <1>2, <1>3, <1>6, <1>7, <2>5
      <3> QED
        BY <1>2, <1>7, <2>2, <3>1 DEF Turn
    <2> QED
      BY <2>4, <2>5
  <1>13. EosLast'
    <2>1. \A i \in 1..m : generated[i] # Eos
      BY <1>1, <1>2 DEF EosLast, m
    <2>2. \A i \in 1..(m + 1) : i < m + 1 \/ status' # "done" => generated'[i] # Eos
      <3> SUFFICES ASSUME NEW i \in 1..(m + 1), i < m + 1 \/ status' # "done"
                   PROVE  generated'[i] # Eos
        OBVIOUS
      <3>1. CASE i = m + 1
        BY <1>2, <1>6, <1>7, <3>1
      <3>2. CASE i # m + 1
        <4>1. i \in 1..m
          BY <1>6, <3>2
        <4> QED
          BY <1>7, <2>1, <4>1
      <3> QED
        BY <3>1, <3>2
    <2> QED
      BY <1>7, <2>2 DEF EosLast
  <1>14. Underway'
    BY <1>2, <1>3 DEF Underway
  <1> QED
    BY <1>8, <1>11, <1>12, <1>13, <1>14 DEF DecodeExact

\* What holds between the steps says what is checked.
LEMMA ExactDecodes == ASSUME DecodeExact PROVE DecodingExact
  <1> DEFINE n == Len(prompt)
             m == Len(generated)
             seq == SubSeq(prompt \o generated, 1, fed)
  <1>1. DecodeTyped /\ CachesExact /\ Turn /\ EosLast
    BY DEF DecodeExact
  <1>2. decoder.layers \in Nat \ {0} /\ decoder.taps \in Nat /\ fed \in Nat
    BY <1>1, DecoderIs DEF DecodeTyped
  <1>3. n \in Nat \ {0} /\ m \in Nat /\ Len(Spoken) = n + m /\ DOMAIN Spoken = 1..(n + m)
    BY <1>1, SpokenIs
  <1>4. PICK S : prompt \in Seq(S) /\ generated \in Seq(S)
    BY <1>1 DEF DecodeTyped
  <1>5. status # "failed"
    BY <1>1 DEF Turn
  <1>6. ASSUME status \in {"choose", "done"}
        PROVE  /\ logits = WholeLogits(decoder, seq)
               /\ \A l \in 1..decoder.layers : Attends(decoder, l) =>
                    caches[l] = [p \in 1..fed |-> Row(l, Streams(decoder, seq)[l - 1][p], p - 1)]
    <2>1. layer = 0 /\ logits = Logits(Stream(decoder.layers)[fed])
      BY <1>1, <1>6 DEF Turn
    <2>2. fed \in 1..(n + m)
      <3>1. status = "done" => m # 0
        BY <1>1, <1>4 DEF Turn
      <3>2. fed = n + m \/ (m # 0 /\ fed = n + m - 1)
        BY <1>1, <1>6, <3>1 DEF Turn
      <3> HIDE DEF n, m
      <3> QED
        BY <1>3, <3>2
    <2>3. DOMAIN seq = 1..fed /\ \A q \in 1..fed : Spoken[q] = seq[q]
      <3>1. Spoken \in Seq(S) /\ seq = SubSeq(Spoken, 1, fed)
        BY <1>4 DEF Spoken
      <3> HIDE DEF seq, n, m
      <3>2. Len(seq) = fed /\ seq \in Seq(S) /\ \A q \in 1..fed : seq[q] = Spoken[q]
        BY <1>3, <2>2, <3>1
      <3> QED
        BY <3>2
    <2>4. \A l \in 0..decoder.layers : \A p \in 1..fed :
            Streams(decoder, Spoken)[l][p] = Streams(decoder, seq)[l][p]
      <3>1. 1..fed \subseteq DOMAIN Spoken /\ 1..fed \subseteq DOMAIN seq
        BY <1>3, <2>2, <2>3
      <3>2. decoder.layers \in Nat /\ decoder.taps \in Nat /\ fed \in Nat
        BY <1>2
      <3> HIDE DEF seq
      <3>3. StreamsEqual(decoder, Spoken, seq, fed)
        BY <2>3, <3>1, <3>2, StreamsAgree, Zenon
      <3> QED
        BY <3>3, Zenon DEF StreamsEqual
    <2>5. DOMAIN Streams(decoder, seq)[decoder.layers] = 1..fed
      <3>1. decoder.layers \in 0..decoder.layers
        BY <1>2
      <3> HIDE DEF seq
      <3>2. DOMAIN Streams(decoder, seq)[decoder.layers] = DOMAIN seq
        BY <1>2, <3>1, StreamsDomain, Zenon
      <3> QED
        BY <2>3, <3>2
    <2> HIDE DEF seq, n, m
    <2>6. logits = WholeLogits(decoder, seq)
      <3> DEFINE top == Streams(decoder, seq)[decoder.layers]
      <3>1. top[fed] = Stream(decoder.layers)[fed]
        <4>1. decoder.layers \in 0..decoder.layers /\ fed \in 1..fed
          BY <1>2, <2>2
        <4> QED
          BY <2>4, <4>1 DEF Stream
      <3>2. Len(top) = fed
        BY <1>2, <2>5
      <3>3. WholeLogits(decoder, seq) = Logits(Last(top)) /\ Last(top) = top[Len(top)]
        BY Zenon DEF WholeLogits, Last
      <3> HIDE DEF top
      <3> QED
        BY <2>1, <3>1, <3>2, <3>3
    <2>7. ASSUME NEW l \in 1..decoder.layers, Attends(decoder, l)
          PROVE  caches[l] = [p \in 1..fed |-> Row(l, Streams(decoder, seq)[l - 1][p], p - 1)]
      <3>1. Seen(l) = fed /\ l - 1 \in 0..decoder.layers
        BY <1>2, <2>1 DEF Seen
      <3>2. caches[l] = RowsSeen(l, Stream(l - 1), fed)
        BY <1>1, <2>7, <3>1 DEF CachesExact
      <3>3. \A p \in 1..fed : Stream(l - 1)[p] = Streams(decoder, seq)[l - 1][p]
        BY <2>4, <3>1 DEF Stream
      <3> QED
        BY <3>2, <3>3 DEF RowsSeen
    <2> QED
      BY <2>6, <2>7
  <1>7. ASSUME status = "done"
        PROVE  /\ fed = Len(prompt) + Len(generated) - 1
               /\ Last(generated) = Eos \/ Len(generated) = MaxNew
               /\ Eos \notin Range(Front(generated))
    <2>1. generated # <<>> /\ \A i \in 1..m : i < m => generated[i] # Eos
      BY <1>1, <1>7 DEF Turn, EosLast
    <2>2. Front(generated) \in Seq(S) /\ Len(Front(generated)) = m - 1
          /\ \A i \in 1..(m - 1) : Front(generated)[i] = generated[i]
      <3>1. m # 0
        BY <1>4, <2>1
      <3>2. Front(generated) = SubSeq(generated, 1, m - 1)
        BY Zenon DEF Front, m
      <3> DEFINE g == generated
      <3>3. g \in Seq(S) /\ Len(g) = m /\ m \in Nat
        BY <1>3, <1>4
      <3> HIDE DEF g, m
      <3>4. /\ SubSeq(g, 1, m - 1) \in Seq(S) /\ Len(SubSeq(g, 1, m - 1)) = m - 1
            /\ \A i \in 1..(m - 1) : SubSeq(g, 1, m - 1)[i] = g[i]
        BY <3>1, <3>3
      <3> QED
        BY <3>2, <3>4 DEF g
    <2>3. \A i \in 1..(m - 1) : Front(generated)[i] # Eos
      BY <1>3, <2>1, <2>2
    <2>4. DOMAIN Front(generated) = 1..(m - 1)
      BY <2>2
    <2>5. Eos \notin Range(Front(generated))
      BY <2>3, <2>4 DEF Range
    <2> QED
      BY <1>1, <1>7, <2>5 DEF Turn
  <1> QED
    BY <1>5, <1>6, <1>7 DEF DecodingExact

-----------------------------------------------------------------------------
(* MCPipeline!TokensExact, har-native-qwen3 and har-native-qwen35moe: the   *)
(* logits every token is chosen from are those of the whole sequence before *)
(* it, computed with nothing cached; between forwards every attending layer *)
(* has one row for every token given; no cache runs out; and the loop stops *)
(* exactly at the first end-of-sequence token or at its last index.  For    *)
(* every decoder file either program accepts, every prompt and every length.*)
THEOREM TokensStayExact == MCSpec => []TokensExact
  <1> DEFINE Inv == part = "decode" => DecodeExact
  <1>1. MCInit => Inv
    BY DecodeInit DEF MCInit
  <1>2. Inv /\ [MCNext]_mvars => Inv'
    <2> SUFFICES ASSUME part = "decode" => DecodeExact, [MCNext]_mvars, part' = "decode"
                 PROVE  DecodeExact'
      OBVIOUS
    <2>1. part = "decode" /\ DecodeExact
      BY DEF MCNext, mvars
    <2>2. (DNextToken \/ UNCHANGED nvars)
      BY <2>1 DEF MCNext, mvars
    <2>3. CASE Begin
      BY <2>1, <2>3, BeginExact
    <2>4. CASE AttendLayer
      BY <2>1, <2>4, AttendExact
    <2>5. CASE RecurLayer
      BY <2>1, <2>5, RecurExact
    <2>6. CASE Project
      BY <2>1, <2>6, ProjectExact
    <2>7. CASE ChooseToken
      BY <2>1, <2>7, ChooseExact
    <2>8. CASE UNCHANGED nvars
      <3>1. Spoken' = Spoken /\ \A l : Stream(l)' = Stream(l)
        BY <2>8, SameStreams DEF nvars
      <3>2. \A l : Seen(l)' = Seen(l)
        BY <2>8 DEF nvars, Seen
      <3>3. DecodeTyped' /\ Turn' /\ EosLast' /\ Underway'
        BY <2>1, <2>8, <3>1 DEF nvars, DecodeExact, DecodeTyped, Turn, EosLast, Underway,
                                Loads, LoadsRouted
      <3>4. CachesExact'
        BY <2>1, <2>8, <3>1, <3>2 DEF nvars, DecodeExact, CachesExact
      <3> QED
        BY <3>3, <3>4 DEF DecodeExact
    <2> QED
      BY <2>2, <2>3, <2>4, <2>5, <2>6, <2>7, <2>8 DEF DNextToken
  <1>3. Inv => TokensExact
    BY ExactDecodes DEF TokensExact
  <1> QED
    BY <1>1, <1>2, <1>3, PTL DEF MCSpec

-----------------------------------------------------------------------------
(* Formats under a budget                                                   *)

\* A finite set has an element that beats all others of it, when of two each beats the
\* other or is beaten, and what beats a winner beats the loser.
LEMMA BestExists ==
    ASSUME NEW U, IsFiniteSet(U), U # {}, NEW B \in SUBSET (U \X U),
           \A u \in U : <<u, u>> \notin B,
           \A u, w \in U : u # w => <<u, w>> \in B \/ <<w, u>> \in B,
           \A u, v, w \in U : <<u, v>> \in B /\ <<v, w>> \in B => <<u, w>> \in B
    PROVE  \E u \in U : \A w \in U \ {u} : <<u, w>> \in B
  <1> DEFINE Beating(u) == {w \in U : <<w, u>> \in B}
             C == {Beating(u) : u \in U}
  <1>0. C # {}
    <2>1. PICK u : u \in U
      OBVIOUS
    <2>2. Beating(u) \in C
      BY <2>1
    <2> QED
      BY <2>2
  <1>1. C \in SUBSET (SUBSET U)
    OBVIOUS
  <1>2. PICK T \in C : \A V \in C : V \subseteq T => V = T
    <2> HIDE DEF C
    <2> QED
      BY <1>0, <1>1, MinimalSubset
  <1>3. PICK u \in U : T = Beating(u)
    OBVIOUS
  <1>4. ASSUME NEW w \in U, <<w, u>> \in B PROVE FALSE
    <2>1. Beating(w) \subseteq Beating(u) /\ Beating(w) \in C
      BY <1>4
    <2>2. Beating(w) = Beating(u)
      <3> HIDE DEF C, Beating
      <3> QED
        BY <1>2, <1>3, <2>1
    <2>3. w \in Beating(u) /\ w \notin Beating(w)
      BY <1>4
    <2> HIDE DEF C, Beating
    <2> QED
      BY <2>2, <2>3
  <1> QED
    BY <1>4

\* a/b > c/d > e/f, in products.
LEMMA Quotients ==
    ASSUME NEW a \in Nat, NEW b \in Nat \ {0}, NEW c \in Nat, NEW d \in Nat \ {0},
           NEW e \in Nat, NEW f \in Nat \ {0}, a * d >= c * b, c * f >= e * d
    PROVE  /\ a * f >= e * b
           /\ (a * d > c * b \/ c * f > e * d) => a * f > e * b
  <1>1. ASSUME NEW x \in Nat, NEW y \in Nat, NEW k \in Nat \ {0}, x >= y
        PROVE  k * x >= k * y /\ (x > y => k * x > k * y)
    <2>1. PICK z \in Nat : x = y + z
      <3>1. x - y \in Nat /\ x = y + (x - y)
        BY <1>1
      <3> QED
        BY <3>1
    <2>2. k * x = k * y + k * z /\ k * z \in Nat /\ k * y \in Nat
      BY <2>1
    <2>3. z # 0 => k * z > 0
      BY <2>1
    <2> QED
      BY <2>1, <2>2, <2>3
  <1>2. ASSUME NEW x \in Nat, NEW y \in Nat, NEW k \in Nat \ {0}
        PROVE  /\ k * x >= k * y => x >= y
               /\ k * x > k * y => x > y
    BY <1>1
  <1>3. a * d \in Nat /\ c * b \in Nat /\ c * f \in Nat /\ e * d \in Nat /\ a * f \in Nat /\ e * b \in Nat
    OBVIOUS
  <1>4. f * (a * d) >= f * (c * b) /\ (a * d > c * b => f * (a * d) > f * (c * b))
    BY <1>1, <1>3
  <1>5. b * (c * f) >= b * (e * d) /\ (c * f > e * d => b * (c * f) > b * (e * d))
    BY <1>1, <1>3
  <1>6. f * (a * d) = d * (a * f) /\ f * (c * b) = b * (c * f) /\ b * (e * d) = d * (e * b)
    OBVIOUS
  <1>7. d * (a * f) \in Nat /\ d * (e * b) \in Nat /\ b * (c * f) \in Nat
    BY <1>3
  <1>8. d * (a * f) >= d * (e * b) /\ ((a * d > c * b \/ c * f > e * d) => d * (a * f) > d * (e * b))
    <2> DEFINE p == d * (a * f)
               q == b * (c * f)
               r == d * (e * b)
    <2>1. p >= q /\ (a * d > c * b => p > q)
      BY <1>4, <1>6
    <2>2. q >= r /\ (c * f > e * d => q > r)
      BY <1>5, <1>6
    <2>3. p \in Nat /\ q \in Nat /\ r \in Nat
      BY <1>7
    <2> HIDE DEF p, q, r
    <2>4. p >= r /\ ((a * d > c * b \/ c * f > e * d) => p > r)
      BY <2>1, <2>2, <2>3
    <2> QED
      BY <2>4 DEF p, r
  <1> QED
    BY <1>2, <1>3, <1>8

LEMMA FormatIs ==
    /\ DOMAIN FormatSpec = {"Q3_K_S", "Q4_K_S", "Q4_K_M", "Q5_K_M", "Q6_K", "Q8_K_XL"}
    /\ \A f \in DOMAIN FormatSpec :
         /\ Bits(f) \in Nat /\ FormatSpec[f][2] \in Nat \ {0}
         /\ Bits(f) >= Bits("Q8_K_XL") => f = "Q8_K_XL"
         /\ \A g \in DOMAIN FormatSpec : Bits(f) < Bits(g) => FormatSpec[f][2] < FormatSpec[g][2]
  BY DEF FormatSpec, Bits

First(i) == CHOOSE f \in Options(i) : \A g \in Options(i) : Bits(f) <= Bits(g)

LEMMA FirstIs ==
    ASSUME NEW i, Options(i) # {}
    PROVE  First(i) \in Options(i) /\ \A g \in Options(i) : Bits(First(i)) <= Bits(g)
  <1> DEFINE S == Options(i)
             D == DOMAIN FormatSpec
             T == {Bits(f) : f \in S}
  <1>1. S \subseteq D
    BY CandidateAssumption DEF Options, Range
  <1>2. IsFiniteSet(D)
    <2>1. \A V, x : IsFiniteSet(V) => IsFiniteSet(V \cup {x})
      BY FS_AddElement
    <2>2. IsFiniteSet({} \cup {"Q3_K_S"} \cup {"Q4_K_S"} \cup {"Q4_K_M"} \cup {"Q5_K_M"})
      BY <2>1, FS_EmptySet
    <2>3. IsFiniteSet({} \cup {"Q3_K_S"} \cup {"Q4_K_S"} \cup {"Q4_K_M"} \cup {"Q5_K_M"}
                         \cup {"Q6_K"} \cup {"Q8_K_XL"})
      BY <2>1, <2>2
    <2>4. D = {} \cup {"Q3_K_S"} \cup {"Q4_K_S"} \cup {"Q4_K_M"} \cup {"Q5_K_M"}
                 \cup {"Q6_K"} \cup {"Q8_K_XL"}
      BY FormatIs
    <2> QED
      BY <2>3, <2>4
  <1>3. IsFiniteSet(S) /\ S # {}
    <2> HIDE DEF S, D
    <2> QED
      BY <1>1, <1>2, FS_Subset DEF S
  <1>4. IsFiniteSet(T) /\ T # {} /\ \A x \in T : x \in Int
    <2> DEFINE b == [f \in S |-> Bits(f)]
    <2>1. b = [f \in S |-> b[f]] /\ T = {b[f] : f \in S}
      OBVIOUS
    <2>2. \A f \in S : Bits(f) \in Int
      BY <1>1, FormatIs
    <2> HIDE DEF b, S
    <2>3. IsFiniteSet({b[f] : f \in S})
      BY <1>3, <2>1, ImageIsFinite
    <2> QED
      BY <1>3, <2>1, <2>2, <2>3
  <1>5. Min(T) \in T /\ \A y \in T : Min(T) <= y
    <2> HIDE DEF T
    <2> QED
      BY <1>4, MinExists
  <1>6. \E f \in Options(i) : \A g \in Options(i) : Bits(f) <= Bits(g)
    BY <1>5
  <1> QED
    BY <1>6 DEF First

AllocTyped ==
    /\ \E n \in Nat : DOMAIN tensors = 1..n
    /\ \A i \in DOMAIN tensors : tensors[i].blocks \in Nat \ {0}
    /\ budget \in Nat /\ measured \in [DOMAIN tensors -> [Range(Candidates) -> Losses]]

\* Every tensor that has an option has the first of them or a measured upgrade of it, and
\* upgrades only spend what the budget has.
ChoicesHonest ==
    /\ DOMAIN choices = DOMAIN tensors
    /\ \A i \in DOMAIN tensors :
         IF Options(i) = {} THEN choices[i] = Absent
         ELSE /\ choices[i] \in Range(Candidates) /\ Bits(First(i)) <= Bits(choices[i])
              /\ choices[i] = First(i) \/ measured[i][choices[i]] # Absent
    /\ TotalBytes <= budget \/ \A i \in Chosen : choices[i] = First(i)

AllocExact ==
    /\ AllocTyped /\ phase \in {"choose", "upgrade", "done"}
    /\ phase # "choose" => ChoicesHonest
    /\ phase = "done" => Upgrades = {}

LEMMA ChosenIs ==
    ASSUME AllocTyped, ChoicesHonest
    PROVE  /\ IsFiniteSet(Chosen) /\ Chosen \subseteq DOMAIN tensors
           /\ \A i \in Chosen : /\ Options(i) # {} /\ choices[i] \in Range(Candidates)
                                /\ choices[i] \in DOMAIN FormatSpec
           /\ \A i \in DOMAIN tensors, f \in DOMAIN FormatSpec :
                FormatBytes(i, f) \in Nat \ {0}
           /\ \A i \in DOMAIN tensors, f, g \in DOMAIN FormatSpec :
                Bits(f) < Bits(g) => FormatBytes(i, f) < FormatBytes(i, g)
           /\ TotalBytes \in Nat
  <1>1. Range(Candidates) \subseteq DOMAIN FormatSpec /\ Absent \notin DOMAIN FormatSpec
    BY CandidateAssumption DEF Range
  <1>2. PICK n \in Nat : DOMAIN tensors = 1..n
    BY DEF AllocTyped
  <1>3. IsFiniteSet(Chosen) /\ Chosen \subseteq DOMAIN tensors
    <2>1. IsFiniteSet(DOMAIN tensors)
      BY <1>2, FS_Interval
    <2>2. Chosen \subseteq DOMAIN tensors
      BY DEF Chosen
    <2> QED
      BY <2>1, <2>2, FS_Subset
  <1>4. \A i \in Chosen : Options(i) # {} /\ choices[i] \in Range(Candidates)
    BY <1>3 DEF ChoicesHonest, Chosen
  <1>5. \A i \in DOMAIN tensors, f \in DOMAIN FormatSpec :
          FormatBytes(i, f) \in Nat \ {0}
    <2> SUFFICES ASSUME NEW i \in DOMAIN tensors, NEW f \in DOMAIN FormatSpec
                 PROVE  FormatBytes(i, f) \in Nat \ {0}
      OBVIOUS
    <2> DEFINE b == tensors[i].blocks
               s == FormatSpec[f][2]
    <2>1. b \in Nat \ {0} /\ s \in Nat \ {0}
      BY FormatIs DEF AllocTyped
    <2> HIDE DEF b, s
    <2>2. b * s \in Nat \ {0}
      BY <2>1
    <2> QED
      BY <2>2 DEF b, s, FormatBytes
  <1>6. \A i \in DOMAIN tensors, f, g \in DOMAIN FormatSpec :
          Bits(f) < Bits(g) => FormatBytes(i, f) < FormatBytes(i, g)
    <2> SUFFICES ASSUME NEW i \in DOMAIN tensors, NEW f \in DOMAIN FormatSpec,
                        NEW g \in DOMAIN FormatSpec, Bits(f) < Bits(g)
                 PROVE  FormatBytes(i, f) < FormatBytes(i, g)
      OBVIOUS
    <2> DEFINE b == tensors[i].blocks
               s == FormatSpec[f][2]
               t == FormatSpec[g][2]
    <2>1. b \in Nat \ {0} /\ s \in Nat \ {0} /\ t \in Nat \ {0} /\ s < t
      BY FormatIs DEF AllocTyped
    <2> HIDE DEF b, s, t
    <2>2. b * s < b * t
      <3>1. PICK z \in Nat \ {0} : t = s + z
        <4>1. t - s \in Nat \ {0} /\ t = s + (t - s)
          BY <2>1
        <4> QED
          BY <4>1
      <3>2. b * t = b * s + b * z /\ b * z > 0 /\ b * s \in Nat /\ b * z \in Nat
        BY <2>1, <3>1
      <3> QED
        BY <3>2
    <2> QED
      BY <2>2 DEF b, s, t, FormatBytes
  <1>7. TotalBytes \in Nat
    <2> DEFINE w == [i \in Chosen |-> FormatBytes(i, choices[i])]
    <2>1. \A i \in Chosen : w[i] \in Nat
      BY <1>1, <1>3, <1>4, <1>5
    <2> HIDE DEF w
    <2>2. SumFunctionOnSet(w, Chosen) \in Nat
      BY <1>3, <2>1, SumType DEF Counts
    <2> QED
      BY <2>2 DEF w, TotalBytes
  <1> QED
    BY <1>1, <1>3, <1>4, <1>5, <1>6, <1>7

LEMMA ChooseFormatsExact == ASSUME AllocExact, ChooseFormats PROVE AllocExact'
  <1>1. AllocTyped /\ UNCHANGED <<tensors, measured, budget>> /\ phase' = "upgrade"
    BY DEF AllocExact, ChooseFormats
  <1>2. choices' = [i \in DOMAIN tensors |->
                      IF Options(i) = {} THEN Absent ELSE First(i)]
    BY DEF ChooseFormats, First
  <1>3. AllocTyped'
    BY <1>1 DEF AllocTyped
  <1>4. \A i : Options(i)' = Options(i)
    BY <1>1 DEF Options, Protected
  <1>5. \A i : First(i)' = First(i)
    BY <1>4 DEF First
  <1>6. DOMAIN choices' = DOMAIN tensors'
    BY <1>1, <1>2
  <1>7. ASSUME NEW i \in DOMAIN tensors'
        PROVE  IF Options(i)' = {} THEN choices'[i] = Absent
               ELSE /\ choices'[i] \in Range(Candidates) /\ Bits(First(i)') <= Bits(choices'[i])
                    /\ choices'[i] = First(i)' \/ measured'[i][choices'[i]] # Absent
    <2>1. i \in DOMAIN tensors
      BY <1>1
    <2>2. CASE Options(i) = {}
      BY <1>2, <1>4, <2>1, <2>2
    <2>3. CASE Options(i) # {}
      <3>1. choices'[i] = First(i)
        BY <1>2, <2>1, <2>3
      <3>2. First(i) \in Options(i) /\ Bits(First(i)) <= Bits(First(i))
        BY <2>3, FirstIs
      <3>3. First(i) \in Range(Candidates)
        BY <3>2 DEF Options
      <3> QED
        BY <1>4, <1>5, <2>3, <3>1, <3>2, <3>3
    <2> QED
      BY <2>2, <2>3
  <1>8. \A i \in Chosen' : choices'[i] = First(i)'
    BY <1>1, <1>2, <1>5 DEF Chosen
  <1>9. ChoicesHonest'
    BY <1>6, <1>7, <1>8 DEF ChoicesHonest
  <1> QED
    BY <1>1, <1>3, <1>9 DEF AllocExact

LEMMA UpgradesAre ==
    ASSUME AllocTyped, ChoicesHonest, NEW u \in Upgrades
    PROVE  /\ u[1] \in Chosen /\ u[2] \in DOMAIN Candidates /\ u = <<u[1], u[2]>>
           /\ u[1] \in Nat /\ u[2] \in Nat
           /\ Candidates[u[2]] \in Range(Candidates) /\ Candidates[u[2]] \in DOMAIN FormatSpec
           /\ Bits(Candidates[u[2]]) > Bits(choices[u[1]]) /\ measured[u[1]][Candidates[u[2]]] # Absent
           /\ Extra(u) \in Nat \ {0} /\ Extra(u) <= Remaining /\ Gain(u) \in Nat \ {0}
  <1> DEFINE i == u[1]
             f == Candidates[u[2]]
  <1>1. /\ u \in Chosen \X DOMAIN Candidates
        /\ Bits(f) > Bits(choices[i]) /\ measured[i][f] # Absent
        /\ Extra(u) > 0 /\ Extra(u) <= Remaining /\ Gain(u) > 0
    BY DEF Upgrades
  <1>2. i \in Chosen /\ u[2] \in DOMAIN Candidates /\ u = <<u[1], u[2]>>
    BY <1>1
  <1>3. i \in DOMAIN tensors /\ choices[i] \in Range(Candidates) /\ choices[i] \in DOMAIN FormatSpec
    BY <1>2, ChosenIs
  <1>4. f \in Range(Candidates) /\ f \in DOMAIN FormatSpec /\ u[2] \in Nat
    BY <1>2, CandidateAssumption DEF Range
  <1>5. i \in Nat
    BY <1>3 DEF AllocTyped
  <1>6. FormatBytes(i, f) \in Nat /\ FormatBytes(i, choices[i]) \in Nat
    BY <1>3, <1>4, ChosenIs
  <1>7. Extra(u) \in Nat \ {0}
    <2>1. Extra(u) = FormatBytes(i, f) - FormatBytes(i, choices[i])
      BY DEF Extra
    <2> HIDE DEF i, f
    <2> QED
      BY <1>1, <1>6, <2>1
  <1>8. measured[i][f] \in Losses /\ measured[i][choices[i]] \in Losses
    BY <1>3, <1>4 DEF AllocTyped
  <1>9. measured[i][f] \in 0..100
    BY <1>1, <1>8, AllocationAssumption
  <1>10. Current(i) \in 0..100
    <2>1. CASE measured[i][choices[i]] = Absent
      BY <2>1 DEF Current
    <2>2. CASE measured[i][choices[i]] # Absent
      BY <1>8, <2>2, AllocationAssumption DEF Current
    <2> QED
      BY <2>1, <2>2
  <1>11. Gain(u) \in Nat \ {0}
    <2> DEFINE x == Current(i)
               y == measured[i][f]
    <2>1. Gain(u) = x - y /\ Gain(u) > 0
      BY <1>1 DEF Gain
    <2>2. x \in Nat /\ y \in Nat
      BY <1>9, <1>10
    <2> HIDE DEF x, y
    <2> QED
      BY <2>1, <2>2
  <1> QED
    BY <1>1, <1>2, <1>4, <1>5, <1>7, <1>11

LEMMA BestUpgrade ==
    ASSUME AllocTyped, ChoicesHonest, Upgrades # {}
    PROVE  \E u \in Upgrades : \A w \in Upgrades \ {u} : Better(u, w)
  <1> DEFINE B == {p \in Upgrades \X Upgrades : Better(p[1], p[2])}
  <1>1. IsFiniteSet(Upgrades)
    <2>1. IsFiniteSet(Chosen)
      BY ChosenIs
    <2>2. IsFiniteSet(DOMAIN Candidates)
      <3>1. Len(Candidates) \in Nat /\ DOMAIN Candidates = 1..Len(Candidates)
        BY CandidateAssumption
      <3> QED
        BY <3>1, FS_Interval
    <2>3. IsFiniteSet(Chosen \X DOMAIN Candidates)
      BY <2>1, <2>2, FS_Product
    <2>4. Upgrades \subseteq Chosen \X DOMAIN Candidates
      BY DEF Upgrades
    <2> QED
      BY <2>3, <2>4, FS_Subset
  <1>2. \A u \in Upgrades : /\ Gain(u) \in Nat \ {0} /\ Extra(u) \in Nat \ {0}
                            /\ u[1] \in Nat /\ u[2] \in Nat /\ u = <<u[1], u[2]>>
    BY UpgradesAre
  <1>3. \A u, w \in Upgrades : Gain(u) * Extra(w) \in Nat
    <2> SUFFICES ASSUME NEW u \in Upgrades, NEW w \in Upgrades PROVE Gain(u) * Extra(w) \in Nat
      OBVIOUS
    <2> DEFINE g == Gain(u)
               e == Extra(w)
    <2>1. g \in Nat /\ e \in Nat
      BY <1>2
    <2> HIDE DEF g, e
    <2>2. g * e \in Nat
      BY <2>1
    <2> QED
      BY <2>2 DEF g, e
  <1>4. \A u, w \in Upgrades : <<u, w>> \in B <=> Better(u, w)
    OBVIOUS
  <1>5. \A u \in Upgrades : ~ Better(u, u)
    BY <1>2, <1>3 DEF Better
  <1>6. ASSUME NEW u \in Upgrades, NEW w \in Upgrades, u # w PROVE Better(u, w) \/ Better(w, u)
    <2> DEFINE x == Gain(u) * Extra(w)
               y == Gain(w) * Extra(u)
    <2>1. x \in Nat /\ y \in Nat
      BY <1>3
    <2>2. u[1] # w[1] \/ u[2] # w[2]
      BY <1>2, <1>6
    <2>3. u[1] \in Nat /\ u[2] \in Nat /\ w[1] \in Nat /\ w[2] \in Nat
      BY <1>2
    <2>4. /\ Better(u, w) <=> (x > y \/ (x = y /\ (u[1] < w[1] \/ (u[1] = w[1] /\ u[2] < w[2]))))
          /\ Better(w, u) <=> (y > x \/ (y = x /\ (w[1] < u[1] \/ (w[1] = u[1] /\ w[2] < u[2]))))
      BY DEF Better
    <2> HIDE DEF x, y
    <2> QED
      BY <2>1, <2>2, <2>3, <2>4
  <1>7. ASSUME NEW u \in Upgrades, NEW v \in Upgrades, NEW w \in Upgrades,
               Better(u, v), Better(v, w)
        PROVE  Better(u, w)
    <2> DEFINE a == Gain(u)
               b == Extra(u)
               c == Gain(v)
               d == Extra(v)
               e == Gain(w)
               f == Extra(w)
    <2>1. /\ a \in Nat /\ b \in Nat \ {0} /\ c \in Nat /\ d \in Nat \ {0}
          /\ e \in Nat /\ f \in Nat \ {0}
      BY <1>2
    <2>2. /\ u[1] \in Nat /\ u[2] \in Nat /\ v[1] \in Nat /\ v[2] \in Nat
          /\ w[1] \in Nat /\ w[2] \in Nat
      BY <1>2
    <2>3. a * d > c * b \/ (a * d = c * b /\ (u[1] < v[1] \/ (u[1] = v[1] /\ u[2] < v[2])))
      BY <1>7 DEF Better
    <2>4. c * f > e * d \/ (c * f = e * d /\ (v[1] < w[1] \/ (v[1] = w[1] /\ v[2] < w[2])))
      BY <1>7 DEF Better
    <2>5. /\ a * d \in Nat /\ c * b \in Nat /\ c * f \in Nat /\ e * d \in Nat
          /\ a * f \in Nat /\ e * b \in Nat
      BY <1>3
    <2>6. Better(u, w) <=>
            (a * f > e * b \/ (a * f = e * b /\ (u[1] < w[1] \/ (u[1] = w[1] /\ u[2] < w[2]))))
      BY DEF Better
    <2> HIDE DEF a, b, c, d, e, f
    <2>7. a * d >= c * b /\ c * f >= e * d
      BY <2>3, <2>4, <2>5
    <2>8. /\ a * f >= e * b
          /\ (a * d > c * b \/ c * f > e * d) => a * f > e * b
      BY <2>1, <2>7, Quotients
    <2>9. CASE a * d > c * b \/ c * f > e * d
      BY <2>6, <2>8, <2>9
    <2>10. CASE ~ (a * d > c * b \/ c * f > e * d)
      <3>1. u[1] < w[1] \/ (u[1] = w[1] /\ u[2] < w[2])
        BY <2>2, <2>3, <2>4, <2>10
      <3>2. a * f > e * b \/ a * f = e * b
        BY <2>5, <2>8
      <3> QED
        BY <2>6, <3>1, <3>2
    <2> QED
      BY <2>9, <2>10
  <1>8. B \in SUBSET (Upgrades \X Upgrades)
    OBVIOUS
  <1> HIDE DEF B
  <1>9. \A u \in Upgrades : <<u, u>> \notin B
    BY <1>4, <1>5
  <1>10. \A u, w \in Upgrades : u # w => <<u, w>> \in B \/ <<w, u>> \in B
    BY <1>4, <1>6
  <1>11. \A u, v, w \in Upgrades : <<u, v>> \in B /\ <<v, w>> \in B => <<u, w>> \in B
    BY <1>4, <1>7
  <1>12. PICK u \in Upgrades : \A w \in Upgrades \ {u} : <<u, w>> \in B
    BY <1>1, <1>8, <1>9, <1>10, <1>11, BestExists
  <1> QED
    BY <1>4, <1>12

LEMMA UpgradeExact == ASSUME AllocExact, Upgrade PROVE AllocExact'
  <1> DEFINE best == CHOOSE u \in Upgrades : \A w \in Upgrades \ {u} : Better(u, w)
             i == best[1]
             f == Candidates[best[2]]
  <1>1. /\ phase = "upgrade" /\ Upgrades # {} /\ choices' = [choices EXCEPT ![i] = f]
        /\ UNCHANGED <<tensors, measured, budget, phase>>
    BY DEF Upgrade
  <1>2. AllocTyped /\ ChoicesHonest
    BY <1>1 DEF AllocExact
  <1>3. best \in Upgrades
    BY <1>1, <1>2, BestUpgrade
  <1> HIDE DEF best
  <1>4. /\ i \in Chosen /\ f \in Range(Candidates) /\ f \in DOMAIN FormatSpec
        /\ Bits(f) > Bits(choices[i]) /\ measured[i][f] # Absent
        /\ Extra(best) \in Nat \ {0} /\ Extra(best) <= Remaining
    BY <1>2, <1>3, UpgradesAre
  <1>5. /\ IsFiniteSet(Chosen) /\ Chosen \subseteq DOMAIN tensors
        /\ \A j \in Chosen : /\ Options(j) # {} /\ choices[j] \in Range(Candidates)
                             /\ choices[j] \in DOMAIN FormatSpec
        /\ \A j \in DOMAIN tensors, g \in DOMAIN FormatSpec : FormatBytes(j, g) \in Nat \ {0}
        /\ TotalBytes \in Nat /\ budget \in Nat
    BY <1>2, ChosenIs DEF AllocTyped
  <1>6. AllocTyped'
    BY <1>1, <1>2 DEF AllocTyped
  <1>7. (\A j : Options(j)' = Options(j)) /\ (\A j : First(j)' = First(j))
    <2>1. \A j : Options(j)' = Options(j)
      BY <1>1 DEF Options, Protected
    <2> QED
      BY <2>1 DEF First
  <1>8. /\ DOMAIN choices' = DOMAIN tensors
        /\ choices'[i] = f /\ \A j \in DOMAIN tensors : j # i => choices'[j] = choices[j]
    <2>1. DOMAIN choices = DOMAIN tensors /\ i \in DOMAIN tensors
      BY <1>2, <1>4, <1>5 DEF ChoicesHonest
    <2> HIDE DEF i, f
    <2> QED
      BY <1>1, <2>1
  <1>9. Chosen' = Chosen
    <2>1. f # Absent
      BY <1>4, CandidateAssumption
    <2> HIDE DEF i, f
    <2>2. \A j \in DOMAIN tensors : choices'[j] # Absent <=> choices[j] # Absent
      BY <1>4, <1>8, <2>1 DEF Chosen
    <2> QED
      BY <1>1, <2>2 DEF Chosen
  <1>10. TotalBytes' = TotalBytes + Extra(best)
    <2> DEFINE C == Chosen
               w == [j \in C |-> FormatBytes(j, choices[j])]
               x == [j \in C |-> FormatBytes(j, choices'[j])]
    <2>1. TotalBytes = SumFunctionOnSet(w, C)
      BY DEF TotalBytes
    <2>2. TotalBytes' = SumFunctionOnSet(x, C)
      <3>1. \A j, g : FormatBytes(j, g)' = FormatBytes(j, g)
        BY <1>1 DEF FormatBytes
      <3>2. [j \in Chosen' |-> FormatBytes(j, choices[j])'] = x
        BY <1>1, <1>9 DEF FormatBytes
      <3> QED
        BY <1>9, <3>2 DEF TotalBytes
    <2>3. \A j \in C : w[j] \in Nat
      BY <1>5
    <2>4. \A j \in C : j # i => x[j] = w[j]
      BY <1>5, <1>8
    <2>5. w[i] = FormatBytes(i, choices[i]) /\ x[i] = FormatBytes(i, f)
      BY <1>4, <1>8
    <2>6. w[i] \in Nat /\ x[i] \in Nat
      BY <1>4, <1>5, <2>5
    <2>7. \A j \in C : x[j] \in Nat
      BY <2>3, <2>4, <2>6
    <2>8. Extra(best) = x[i] - w[i]
      BY <2>5 DEF Extra
    <2>9. i \in C /\ IsFiniteSet(C) /\ IsFiniteSet(C \ {i})
      BY <1>4, <1>5, FS_Subset
    <2> HIDE DEF w, x, i, f, C
    <2>10. SumFunctionOnSet(w, C) = w[i] + SumFunctionOnSet(w, C \ {i})
      BY <2>3, <2>9, SumSplit DEF Counts
    <2>11. SumFunctionOnSet(x, C) = x[i] + SumFunctionOnSet(x, C \ {i})
      BY <2>7, <2>9, SumSplit DEF Counts
    <2>12. SumFunctionOnSet(x, C \ {i}) = SumFunctionOnSet(w, C \ {i})
      BY <2>4, <2>9, SumSame
    <2>13. SumFunctionOnSet(w, C \ {i}) \in Nat
      BY <2>3, <2>9, SumType DEF Counts
    <2> QED
      BY <2>1, <2>2, <2>6, <2>8, <2>10, <2>11, <2>12, <2>13
  <1>11. TotalBytes' <= budget'
    BY <1>1, <1>4, <1>5, <1>10 DEF Remaining
  <1>12. ASSUME NEW j \in DOMAIN tensors'
         PROVE  IF Options(j)' = {} THEN choices'[j] = Absent
                ELSE /\ choices'[j] \in Range(Candidates) /\ Bits(First(j)') <= Bits(choices'[j])
                     /\ choices'[j] = First(j)' \/ measured'[j][choices'[j]] # Absent
    <2>1. j \in DOMAIN tensors
      BY <1>1
    <2>2. CASE j # i
      <3>1. choices'[j] = choices[j]
        BY <1>8, <2>1, <2>2
      <3> QED
        BY <1>1, <1>2, <1>7, <2>1, <3>1 DEF ChoicesHonest
    <2>3. CASE j = i
      <3>1. Options(i) # {} /\ Bits(First(i)) <= Bits(choices[i])
        BY <1>2, <1>4, <1>5 DEF ChoicesHonest
      <3>2. Bits(First(i)) \in Nat /\ Bits(choices[i]) \in Nat /\ Bits(f) \in Nat
        <4>1. First(i) \in DOMAIN FormatSpec
          BY <3>1, FirstIs, CandidateAssumption DEF Options, Range
        <4> QED
          BY <1>4, <1>5, <4>1, FormatIs
      <3>3. Bits(First(i)) <= Bits(f)
        BY <1>4, <3>1, <3>2
      <3> QED
        BY <1>1, <1>4, <1>7, <1>8, <2>3, <3>1, <3>3
    <2> QED
      BY <2>2, <2>3
  <1>13. ChoicesHonest'
    BY <1>1, <1>8, <1>11, <1>12 DEF ChoicesHonest
  <1> QED
    BY <1>1, <1>6, <1>13 DEF AllocExact

LEMMA ConcludeExact == ASSUME AllocExact, Conclude PROVE AllocExact'
  <1>1. /\ phase = "upgrade" /\ Upgrades = {} /\ phase' = "done"
        /\ UNCHANGED <<tensors, measured, budget, choices>>
    BY DEF Conclude
  <1>2. (\A i : Options(i)' = Options(i)) /\ (\A i : First(i)' = First(i))
    <2>1. \A i : Options(i)' = Options(i)
      BY <1>1 DEF Options, Protected
    <2> QED
      BY <2>1 DEF First
  <1>3. Chosen' = Chosen /\ TotalBytes' = TotalBytes
    BY <1>1 DEF Chosen, TotalBytes, FormatBytes
  <1>4. AllocTyped' /\ ChoicesHonest'
    BY <1>1, <1>2, <1>3 DEF AllocExact, AllocTyped, ChoicesHonest
  <1>5. Upgrades' = Upgrades
    BY <1>1, <1>3 DEF Upgrades, Gain, Extra, Remaining, Current, FormatBytes
  <1> QED
    BY <1>1, <1>4, <1>5 DEF AllocExact

LEMMA AllocInit == AInit => AllocExact
  <1> SUFFICES ASSUME AInit PROVE AllocExact
    OBVIOUS
  <1>1. PICK m \in Models :
          tensors = [i \in DOMAIN m |-> [role |-> Role(m[i].name), blocks |-> m[i].blocks]]
    BY DEF AInit
  <1>2. Len(m) \in Nat /\ DOMAIN m = 1..Len(m) /\ \A i \in DOMAIN m : m[i].blocks \in Nat \ {0}
    BY AllocationAssumption
  <1>3. DOMAIN tensors = DOMAIN m /\ \A i \in DOMAIN tensors : tensors[i].blocks \in Nat \ {0}
    <2>1. \A i \in DOMAIN m : tensors[i].blocks = m[i].blocks
      BY <1>1
    <2> QED
      BY <1>1, <1>2, <2>1
  <1>4. /\ budget \in Nat /\ phase = "choose"
        /\ measured \in [DOMAIN tensors -> [Range(Candidates) -> Losses]]
    BY AllocationAssumption DEF AInit
  <1> QED
    BY <1>2, <1>3, <1>4 DEF AllocExact, AllocTyped

LEMMA ExactAllocates == ASSUME AllocExact PROVE AllocationHonest
  <1> SUFFICES ASSUME phase = "done" PROVE AllocationHonest
    BY DEF AllocationHonest
  <1>1. AllocTyped /\ ChoicesHonest /\ Upgrades = {}
    BY DEF AllocExact
  <1>2. /\ Chosen \subseteq DOMAIN tensors
        /\ \A i \in Chosen : /\ Options(i) # {} /\ choices[i] \in Range(Candidates)
                             /\ choices[i] \in DOMAIN FormatSpec
        /\ \A i \in DOMAIN tensors, f \in DOMAIN FormatSpec : FormatBytes(i, f) \in Nat \ {0}
        /\ \A i \in DOMAIN tensors, f, g \in DOMAIN FormatSpec :
             Bits(f) < Bits(g) => FormatBytes(i, f) < FormatBytes(i, g)
        /\ TotalBytes \in Nat /\ budget \in Nat
    BY <1>1, ChosenIs DEF AllocTyped
  <1>3. Range(Candidates) \subseteq DOMAIN FormatSpec
    BY CandidateAssumption DEF Range
  <1>4. \A i \in Chosen : /\ First(i) \in Options(i) /\ First(i) \in DOMAIN FormatSpec
                          /\ \A f \in Options(i) : Bits(First(i)) <= Bits(f)
                          /\ Bits(First(i)) <= Bits(choices[i])
                          /\ choices[i] = First(i) \/ measured[i][choices[i]] # Absent
    BY <1>1, <1>2, <1>3, FirstIs DEF ChoicesHonest, Options
  <1>5. Feasible => /\ \A i \in DOMAIN tensors : choices[i] \in Range(Candidates)
                    /\ TotalBytes <= budget
    BY <1>2 DEF Feasible
  <1>6. TotalBytes > budget => \A i \in Chosen : \A f \in Options(i) : Bits(choices[i]) <= Bits(f)
    <2> SUFFICES ASSUME TotalBytes > budget, NEW i \in Chosen, NEW f \in Options(i)
                 PROVE  Bits(choices[i]) <= Bits(f)
      OBVIOUS
    <2>1. ~ (TotalBytes <= budget)
      BY <1>2
    <2>2. choices[i] = First(i)
      BY <1>1, <2>1 DEF ChoicesHonest
    <2>3. Bits(First(i)) <= Bits(f)
      BY <1>4
    <2> QED
      BY <2>2, <2>3
  <1>7. ASSUME NEW i \in Chosen, Protected(i) PROVE choices[i] = "Q8_K_XL"
    <2>1. Bits(First(i)) >= Bits("Q8_K_XL")
      BY <1>4, <1>7 DEF Options
    <2> DEFINE x == Bits(First(i))
               y == Bits(choices[i])
               z == Bits("Q8_K_XL")
    <2>2. x \in Nat /\ y \in Nat /\ z \in Nat
      BY <1>2, <1>4, FormatIs
    <2>3. y >= z
      <3>1. x >= z
        BY <2>1
      <3>2. x <= y
        BY <1>4
      <3> HIDE DEF x, y, z
      <3> QED
        BY <2>2, <3>1, <3>2
    <2> QED
      BY <1>2, <2>3, FormatIs
  <1>8. ClaimsAllowed => \A i \in Chosen : measured[i][choices[i]] # Absent
    <2> SUFFICES ASSUME ClaimsAllowed, NEW i \in Chosen PROVE measured[i][choices[i]] # Absent
      OBVIOUS
    <2>1. measured[i][First(i)] # Absent
      BY DEF ClaimsAllowed, Unmeasured, First
    <2> QED
      BY <1>4, <2>1
  <1>9. ASSUME NEW i \in Chosen, NEW f \in Range(Candidates),
               measured[i][f] # Absent, measured[i][f] < Current(i), Bits(f) > Bits(choices[i])
        PROVE  TotalBytes - FormatBytes(i, choices[i]) + FormatBytes(i, f) > budget
    <2>1. PICK k \in DOMAIN Candidates : f = Candidates[k]
      BY DEF Range
    <2> DEFINE u == <<i, k>>
               x == FormatBytes(i, choices[i])
               y == FormatBytes(i, f)
               loss == measured[i][f]
               now == Current(i)
    <2>2. x \in Nat /\ y \in Nat /\ x < y
      BY <1>2, <1>3, <1>9
    <2>3. loss \in Nat /\ now \in Nat
      <3>1. measured[i][f] \in Losses /\ measured[i][choices[i]] \in Losses
        BY <1>1, <1>2 DEF AllocTyped
      <3>2. \A v \in Losses : v # Absent => v \in 0..100
        BY AllocationAssumption
      <3>3. measured[i][f] \in 0..100
        BY <1>9, <3>1, <3>2
      <3>4. Current(i) \in 0..100
        BY <3>1, <3>2 DEF Current
      <3> QED
        BY <3>3, <3>4
    <2>4. u \in Chosen \X DOMAIN Candidates /\ u[1] = i /\ Candidates[u[2]] = f
      BY <2>1
    <2>5. Gain(u) = now - loss /\ Extra(u) = y - x
      BY <2>4 DEF Gain, Extra
    <2>6. u \notin Upgrades
      BY <1>1
    <2> HIDE DEF u
    <2>7. ~ (Extra(u) > 0 /\ Extra(u) <= Remaining /\ Gain(u) > 0)
      BY <1>9, <2>4, <2>6 DEF Upgrades
    <2>8. now > loss
      BY <1>9
    <2> HIDE DEF x, y, loss, now
    <2>9. ~ (y - x <= Remaining)
      BY <2>2, <2>3, <2>5, <2>7, <2>8
    <2>10. TotalBytes - x + y > budget
      BY <1>2, <2>2, <2>9 DEF Remaining
    <2> QED
      BY <2>10 DEF x, y
  <1> QED
    BY <1>5, <1>6, <1>7, <1>8, <1>9 DEF AllocationHonest

(* MCPipeline!FormatsHonest, har-model-compiler/src/lib.rs:797: a feasible  *)
(* allocation has a format for every tensor and fits the budget, upgrades   *)
(* are never what makes one infeasible, a protected tensor keeps its floor, *)
(* a quality claim rests on measurements, and no measured improvement that  *)
(* still fits is left out.  For every model, policy, measurement, budget.   *)
THEOREM AllocationsStayHonest == MCSpec => []FormatsHonest
  <1> DEFINE Inv == part = "format" => AllocExact
  <1>1. MCInit => Inv
    BY AllocInit DEF MCInit
  <1>2. Inv /\ [MCNext]_mvars => Inv'
    <2> SUFFICES ASSUME part = "format" => AllocExact, [MCNext]_mvars, part' = "format"
                 PROVE  AllocExact'
      OBVIOUS
    <2>1. part = "format" /\ AllocExact
      BY DEF MCNext, mvars
    <2>2. ANext \/ UNCHANGED avars
      BY <2>1 DEF MCNext, mvars
    <2>3. CASE ChooseFormats
      BY <2>1, <2>3, ChooseFormatsExact
    <2>4. CASE Upgrade
      BY <2>1, <2>4, UpgradeExact
    <2>5. CASE Conclude
      BY <2>1, <2>5, ConcludeExact
    <2>6. CASE UNCHANGED avars
      <3>1. UNCHANGED <<tensors, measured, budget, choices, phase>>
        BY <2>6 DEF avars
      <3>2. (\A i : Options(i)' = Options(i)) /\ (\A i : First(i)' = First(i))
        <4>1. \A i : Options(i)' = Options(i)
          BY <3>1 DEF Options, Protected
        <4> QED
          BY <4>1 DEF First
      <3>3. Chosen' = Chosen /\ TotalBytes' = TotalBytes
        BY <3>1 DEF Chosen, TotalBytes, FormatBytes
      <3>4. Upgrades' = Upgrades
        BY <3>1, <3>3 DEF Upgrades, Gain, Extra, Remaining, Current, FormatBytes
      <3> QED
        BY <2>1, <3>1, <3>2, <3>3, <3>4 DEF AllocExact, AllocTyped, ChoicesHonest
    <2> QED
      BY <2>2, <2>3, <2>4, <2>5, <2>6 DEF ANext
  <1>3. Inv => FormatsHonest
    BY ExactAllocates DEF FormatsHonest
  <1> QED
    BY <1>1, <1>2, <1>3, PTL DEF MCSpec

-----------------------------------------------------------------------------
(* The walk over a table of operations                                      *)

\* A table of which the first two checks of validate are made.
Dense(ops) == /\ Len(ops) \in Nat /\ DOMAIN ops = 1..Len(ops)
              /\ \A n \in DOMAIN ops : ops[n].dependencies \subseteq DOMAIN ops

Marked(ops, w, c) == {n \in DOMAIN ops : w.color[n] = c}

\* What is black depends on what is black, and not on itself.
Sound(ops, w) ==
    /\ w \in Walks(ops) /\ w.ok
    /\ \A n \in Marked(ops, w, "black") :
         /\ ops[n].dependencies \subseteq Marked(ops, w, "black")
         /\ n \notin Closure(ops, ops[n].dependencies)

\* Node n is reached from every node on the path.
OnPath(ops, w, n) == \A g \in Marked(ops, w, "grey") : n \in Closure(ops, ops[g].dependencies)

Cyclic(ops) == \E n \in DOMAIN ops : n \in Closure(ops, ops[n].dependencies)

\* The walk came back with nothing but more black nodes, or there is a cycle.
Passed(ops, w, v) ==
    IF v.ok THEN /\ Sound(ops, v) /\ Marked(ops, v, "grey") = Marked(ops, w, "grey")
                 /\ Marked(ops, w, "black") \subseteq Marked(ops, v, "black")
            ELSE Cyclic(ops)

\* A visit of depth d: what it makes of any walk on the way to n.
Visiting(ops, f, d, n, w) ==
    Sound(ops, w) /\ OnPath(ops, w, n) /\ Cardinality(Marked(ops, w, "grey")) + d >= Len(ops)
      => /\ Passed(ops, w, f[n][w])
         /\ f[n][w].ok => n \in Marked(ops, f[n][w], "black")

Correct(ops, f, d) ==
    /\ f \in [DOMAIN ops -> [Walks(ops) -> Walks(ops)]]
    /\ \A n \in DOMAIN ops, w \in Walks(ops) :
         /\ ~ w.ok => f[n][w] = w
         /\ Visiting(ops, f, d, n, w)

LEMMA ClosureIs ==
    ASSUME NEW ops, Dense(ops), NEW S \in SUBSET DOMAIN ops
    PROVE  /\ S \subseteq Closure(ops, S) /\ Closure(ops, S) \subseteq DOMAIN ops
           /\ \A n \in Closure(ops, S) : ops[n].dependencies \subseteq Closure(ops, S)
           /\ \A T \in SUBSET DOMAIN ops :
                S \subseteq T /\ (\A n \in T : ops[n].dependencies \subseteq T)
                  => Closure(ops, S) \subseteq T
  <1> DEFINE Closed(T) == S \subseteq T /\ \A n \in T : ops[n].dependencies \subseteq T
             C == Closure(ops, S)
  <1>1. C = {n \in DOMAIN ops : \A T \in SUBSET DOMAIN ops : Closed(T) => n \in T}
    BY DEF Closure
  <1>2. \A n \in DOMAIN ops : ops[n].dependencies \subseteq DOMAIN ops
    BY DEF Dense
  <1> HIDE DEF C
  <1>3. S \subseteq C /\ C \subseteq DOMAIN ops
    BY <1>1
  <1>4. ASSUME NEW n \in C PROVE ops[n].dependencies \subseteq C
    <2> SUFFICES ASSUME NEW m \in ops[n].dependencies PROVE m \in C
      OBVIOUS
    <2>1. m \in DOMAIN ops
      BY <1>2, <1>3
    <2>2. ASSUME NEW T \in SUBSET DOMAIN ops, Closed(T) PROVE m \in T
      <3>1. n \in T
        BY <1>1, <2>2
      <3> QED
        BY <2>2, <3>1
    <2> QED
      BY <1>1, <2>1, <2>2
  <1>5. \A T \in SUBSET DOMAIN ops : Closed(T) => C \subseteq T
    BY <1>1
  <1> QED
    BY <1>3, <1>4, <1>5 DEF C

\* SetToSeq lists a finite set.
LEMMA SetListed ==
    ASSUME NEW S, IsFiniteSet(S)
    PROVE  /\ Cardinality(S) \in Nat /\ SetToSeq(S) \in [1..Cardinality(S) -> S]
           /\ Len(SetToSeq(S)) = Cardinality(S)
           /\ \A x \in S : \E j \in 1..Cardinality(S) : SetToSeq(S)[j] = x
  <1> DEFINE k == Cardinality(S)
             I == 1..k
             s == SetToSeq(S)
  <1>1. k \in Nat /\ ExistsBijection(I, S)
    BY FS_CardinalityType
  <1>2. \E f \in [I -> S] : IsInjective(f)
    BY <1>1 DEF ExistsBijection, Bijection, Injection
  <1>3. s \in [I -> S] /\ IsInjective(s)
    BY <1>2 DEF SetToSeq
  <1>4. IsFiniteSet(I) /\ Cardinality(I) = k
    <2> HIDE DEF k
    <2> QED
      BY <1>1, FS_Interval
  <1>5. s \in Injection(I, S)
    BY <1>3 DEF Injection
  <1>6. s \in Surjection(I, S)
    <2> HIDE DEF s, I
    <2> QED
      BY <1>4, <1>5, FS_Injection
  <1>7. \A x \in S : \E j \in I : s[j] = x
    <2> HIDE DEF s, I
    <2> QED
      BY <1>6 DEF Surjection
  <1>8. Len(s) = k
    <2> HIDE DEF s, k
    <2>1. s \in Seq(S)
      BY <1>1, <1>3
    <2> QED
      BY <1>1, <1>3, <2>1
  <1> QED
    BY <1>1, <1>3, <1>7, <1>8

\* The walk after each dependency of n.
Passing(ops, below, n, w, h) ==
    LET next == SetToSeq(ops[n].dependencies)
    IN h = [j \in 0..Len(next) |->
              IF j = 0 THEN [w EXCEPT !.color[n] = "grey"] ELSE below[next[j]][h[j - 1]]]

LEMMA WalkIs ==
    ASSUME NEW ops, NEW w \in Walks(ops), NEW n \in DOMAIN ops, NEW c \in {"white", "grey", "black"}
    PROVE  /\ [w EXCEPT !.color[n] = c] \in Walks(ops)
           /\ [w EXCEPT !.color[n] = c].ok = w.ok
           /\ [w EXCEPT !.color[n] = c].color[n] = c
           /\ \A m \in DOMAIN ops : m # n => [w EXCEPT !.color[n] = c].color[m] = w.color[m]
           /\ w.color[n] \in {"white", "grey", "black"} /\ w.ok \in BOOLEAN
           /\ [w EXCEPT !.ok = FALSE] \in Walks(ops) /\ ~ [w EXCEPT !.ok = FALSE].ok
  BY DEF Walks

Enters(ops, below, n, w, h) ==
    LET next == SetToSeq(ops[n].dependencies)
    IN /\ h \in [0..Len(next) -> Walks(ops)]
       /\ h[0] = [w EXCEPT !.color[n] = "grey"]
       /\ \A j \in 1..Len(next) : h[j] = below[next[j]][h[j - 1]]
       /\ Enter(ops, below, n, w) =
            IF h[Len(next)].ok THEN [h[Len(next)] EXCEPT !.color[n] = "black"] ELSE h[Len(next)]

LEMMA EnterIs ==
    ASSUME NEW ops, Dense(ops), NEW below \in [DOMAIN ops -> [Walks(ops) -> Walks(ops)]],
           NEW n \in DOMAIN ops, NEW w \in Walks(ops)
    PROVE  \E h : Enters(ops, below, n, w, h)
  <1> DEFINE S == ops[n].dependencies
             next == SetToSeq(S)
             k == Len(next)
             W == Walks(ops)
             a == [w EXCEPT !.color[n] = "grey"]
             G == [x \in Nat \X W |-> IF x[1] \in 1..k THEN below[next[x[1]]][x[2]] ELSE x[2]]
  <1>1. S \subseteq DOMAIN ops /\ IsFiniteSet(S)
    <2> DEFINE I == 1..Len(ops)
    <2>1. DOMAIN ops = I /\ S \subseteq I /\ Len(ops) \in Nat
      BY DEF Dense
    <2>2. IsFiniteSet(I)
      BY <2>1, FS_Interval
    <2> HIDE DEF I, S
    <2> QED
      BY <2>1, <2>2, FS_Subset
  <1>2. k \in Nat /\ next \in [1..k -> S]
    <2> HIDE DEF S
    <2> QED
      BY <1>1, SetListed
  <1>3. a \in W
    BY WalkIs
  <1>4. G \in [Nat \X W -> W]
    <2>1. ASSUME NEW x \in Nat \X W PROVE (IF x[1] \in 1..k THEN below[next[x[1]]][x[2]] ELSE x[2]) \in W
      <3> HIDE DEF S, next, k, W
      <3>1. x[2] \in W
        OBVIOUS
      <3>2. ASSUME x[1] \in 1..k PROVE below[next[x[1]]][x[2]] \in W
        <4>1. next[x[1]] \in DOMAIN ops
          BY <1>1, <1>2, <3>2
        <4>2. below[next[x[1]]] \in [W -> W]
          BY <4>1 DEF W
        <4> QED
          BY <3>1, <4>2
      <3> QED
        BY <3>1, <3>2
    <2> HIDE DEF S, next, k, W
    <2> QED
      BY <2>1
  <1>5. PICK g \in [0..k -> W] : Iterated(g, a, G, k)
    <2> HIDE DEF G, W, a, k
    <2> QED
      BY <1>2, <1>3, <1>4, Iterates
  <1>6. g[0] = a /\ \A j \in 1..k : g[j] = below[next[j]][g[j - 1]]
    <2>1. g[0] = a
      BY <1>5 DEF Iterated
    <2>2. ASSUME NEW j \in 1..k PROVE g[j] = below[next[j]][g[j - 1]]
      <3>1. j \in Nat /\ j - 1 \in 0..k
        BY <1>2
      <3>2. g[j - 1] \in W
        BY <1>5, <3>1
      <3>3. g[j] = G[<<j, g[j - 1]>>]
        BY <1>5 DEF Iterated
      <3>4. <<j, g[j - 1]>> \in Nat \X W
        BY <3>1, <3>2
      <3>5. G[<<j, g[j - 1]>>] = below[next[j]][g[j - 1]]
        <4> HIDE DEF W, next, k
        <4> QED
          BY <3>4
      <3> QED
        BY <3>3, <3>5
    <2> QED
      BY <2>1, <2>2
  <1>7. g = [j \in 0..k |-> IF j = 0 THEN a ELSE below[next[j]][g[j - 1]]]
    <2> HIDE DEF W, a, next, k
    <2>1. \A j \in 0..k : g[j] = IF j = 0 THEN a ELSE below[next[j]][g[j - 1]]
      BY <1>2, <1>6
    <2> QED
      BY <1>5, <2>1
  <1> DEFINE h == CHOOSE h : Passing(ops, below, n, w, h)
  <1>8. Passing(ops, below, n, w, g)
    BY <1>7 DEF Passing
  <1>9. Passing(ops, below, n, w, h)
    <2> HIDE DEF h, S, next, k, a
    <2> QED
      BY <1>8, Zenon DEF h
  <1>10. h = [j \in 0..k |-> IF j = 0 THEN a ELSE below[next[j]][h[j - 1]]]
    BY <1>9, Zenon DEF Passing
  <1>11. \A j \in 0..k : h[j] = g[j]
    <2> DEFINE P == {j \in 0..k : h[j] = g[j]}
    <2>0. 0 \in 0..k
      BY <1>2
    <2>1. 0 \in P
      <3> HIDE DEF h, a, k, next
      <3> QED
        BY <1>6, <1>10, <2>0
    <2>2. ASSUME NEW j \in 0..(k - 1), j \in P PROVE j + 1 \in P
      <3>1. j + 1 \in 0..k /\ j + 1 # 0 /\ (j + 1) - 1 = j /\ j + 1 \in 1..k
        BY <1>2
      <3>2. h[j] = g[j]
        BY <2>2
      <3>3. h[j + 1] = below[next[j + 1]][h[j]]
        <4> HIDE DEF h, a, k, next
        <4> QED
          BY <1>10, <3>1
      <3>4. g[j + 1] = below[next[j + 1]][g[j]]
        <4> HIDE DEF h, a, k, next
        <4> QED
          BY <1>6, <3>1
      <3> QED
        BY <3>1, <3>2, <3>3, <3>4
    <2> HIDE DEF P
    <2>3. \A j \in 0..k : j \in P
      <3> HIDE DEF k
      <3> QED
        BY <1>2, <2>1, <2>2, Reaches
    <2> QED
      BY <2>3 DEF P
  <1>12. Enter(ops, below, n, w) =
           IF h[k].ok THEN [h[k] EXCEPT !.color[n] = "black"] ELSE h[k]
    BY Zenon DEF Enter, Passing
  <1>13. h[k] = g[k]
    BY <1>2, <1>11
  <1>14. Enters(ops, below, n, w, g)
    <2> HIDE DEF h, k, next, a, W
    <2> QED
      BY <1>5, <1>6, <1>12, <1>13 DEF k, next, a, W, S, Enters
  <1> QED
    BY <1>14

\* Greying a node puts it on the path, blackening it takes it off.
LEMMA MarkedIs ==
    ASSUME NEW ops, NEW w \in Walks(ops), NEW n \in DOMAIN ops
    PROVE  LET grey == [w EXCEPT !.color[n] = "grey"]
               black == [w EXCEPT !.color[n] = "black"]
           IN /\ w.color[n] # "black" =>
                    /\ Marked(ops, grey, "grey") = Marked(ops, w, "grey") \cup {n}
                    /\ Marked(ops, grey, "black") = Marked(ops, w, "black")
              /\ Marked(ops, black, "grey") = Marked(ops, w, "grey") \ {n}
              /\ Marked(ops, black, "black") = Marked(ops, w, "black") \cup {n}
              /\ Marked(ops, w, "grey") \cap Marked(ops, w, "black") = {}
  <1> DEFINE grey == [w EXCEPT !.color[n] = "grey"]
             black == [w EXCEPT !.color[n] = "black"]
  <1>1. /\ grey.color[n] = "grey" /\ black.color[n] = "black"
        /\ \A m \in DOMAIN ops : m # n => grey.color[m] = w.color[m] /\ black.color[m] = w.color[m]
    BY DEF Walks
  <1> HIDE DEF grey, black
  <1>2. w.color[n] # "black" =>
          /\ Marked(ops, grey, "grey") = Marked(ops, w, "grey") \cup {n}
          /\ Marked(ops, grey, "black") = Marked(ops, w, "black")
    BY <1>1 DEF Marked
  <1>3. /\ Marked(ops, black, "grey") = Marked(ops, w, "grey") \ {n}
        /\ Marked(ops, black, "black") = Marked(ops, w, "black") \cup {n}
    BY <1>1 DEF Marked
  <1>4. Marked(ops, w, "grey") \cap Marked(ops, w, "black") = {}
    BY DEF Marked
  <1> QED
    BY <1>2, <1>3, <1>4 DEF grey, black

LEMMA BlackenedIs ==
    ASSUME NEW ops, NEW w \in Walks(ops), NEW n \in DOMAIN ops, NEW v,
           v = [w EXCEPT !.color[n] = "black"]
    PROVE  /\ Marked(ops, v, "grey") = Marked(ops, w, "grey") \ {n}
           /\ Marked(ops, v, "black") = Marked(ops, w, "black") \cup {n}
  <1>1. v.color[n] = "black" /\ \A m \in DOMAIN ops : m # n => v.color[m] = w.color[m]
    BY DEF Walks
  <1> QED
    BY <1>1 DEF Marked

\* A node whose dependencies are all black may become black.
LEMMA MayBlacken ==
    ASSUME NEW ops, Dense(ops), NEW w, Sound(ops, w), NEW n \in DOMAIN ops,
           w.color[n] # "black", ops[n].dependencies \subseteq Marked(ops, w, "black")
    PROVE  Sound(ops, [w EXCEPT !.color[n] = "black"])
  <1> DEFINE v == [w EXCEPT !.color[n] = "black"]
             B == Marked(ops, w, "black")
             C == Marked(ops, v, "black")
             S == ops[n].dependencies
  <1>1. w \in Walks(ops) /\ w.ok
    BY DEF Sound
  <1>2. v \in Walks(ops) /\ v.ok
    BY <1>1 DEF Walks
  <1>3. C = B \cup {n} /\ n \notin B /\ B \subseteq DOMAIN ops
    BY <1>1, MarkedIs DEF Marked
  <1>4. \A m \in B : ops[m].dependencies \subseteq B /\ m \notin Closure(ops, ops[m].dependencies)
    BY DEF Sound
  <1>5. n \notin Closure(ops, S)
    <2>1. S \in SUBSET DOMAIN ops /\ B \in SUBSET DOMAIN ops /\ S \subseteq B
      BY <1>3
    <2>2. Closure(ops, S) \subseteq B
      <3> HIDE DEF S, B
      <3> QED
        BY <1>4, <2>1, ClosureIs
    <2> QED
      BY <1>3, <2>2
  <1> HIDE DEF v, B
  <1> QED
    BY <1>2, <1>3, <1>4, <1>5 DEF Sound, v, B

\* The dependencies of n are visited one level down: each is reached from all of the
\* path, n included, and there is room for one level less.
LEMMA EnterPasses ==
    ASSUME NEW ops, Dense(ops), NEW d \in Nat, NEW below, Correct(ops, below, d),
           NEW n \in DOMAIN ops, NEW w, Sound(ops, w), OnPath(ops, w, n),
           w.color[n] = "white", Cardinality(Marked(ops, w, "grey")) + d + 1 >= Len(ops)
    PROVE  /\ Enter(ops, below, n, w) \in Walks(ops)
           /\ Passed(ops, w, Enter(ops, below, n, w))
           /\ Enter(ops, below, n, w).ok => n \in Marked(ops, Enter(ops, below, n, w), "black")
  <1> DEFINE S == ops[n].dependencies
             next == SetToSeq(S)
             k == Len(next)
             a == [w EXCEPT !.color[n] = "grey"]
             W == Walks(ops)
             Grey(v) == Marked(ops, v, "grey")
             Black(v) == Marked(ops, v, "black")
  <1>1. w \in W /\ w.ok
    BY DEF Sound
  <1>2. below \in [DOMAIN ops -> [W -> W]]
    BY DEF Correct
  <1>0. PICK h : Enters(ops, below, n, w, h)
    BY <1>1, <1>2, EnterIs
  <1>3. /\ h \in [0..k -> W] /\ h[0] = a
        /\ \A j \in 1..k : h[j] = below[next[j]][h[j - 1]]
        /\ Enter(ops, below, n, w) =
             IF h[k].ok THEN [h[k] EXCEPT !.color[n] = "black"] ELSE h[k]
    BY <1>0 DEF Enters
  <1>4. S \subseteq DOMAIN ops /\ IsFiniteSet(S) /\ IsFiniteSet(DOMAIN ops)
    <2> DEFINE I == 1..Len(ops)
    <2>1. DOMAIN ops = I /\ S \subseteq I /\ Len(ops) \in Nat
      BY DEF Dense
    <2>2. IsFiniteSet(I)
      BY <2>1, FS_Interval
    <2> HIDE DEF I, S
    <2> QED
      BY <2>1, <2>2, FS_Subset
  <1>5. k \in Nat /\ next \in [1..k -> S] /\ \A x \in S : \E j \in 1..k : next[j] = x
    <2> HIDE DEF S
    <2> QED
      BY <1>4, SetListed
  <1>6. a \in W /\ a.ok /\ Grey(a) = Grey(w) \cup {n} /\ Black(a) = Black(w) /\ n \notin Grey(w)
    <2>1. w.color[n] # "black" /\ w.color[n] # "grey"
      OBVIOUS
    <2>2. a \in W /\ a.ok
      BY <1>1 DEF Walks
    <2>3. Grey(a) = Grey(w) \cup {n} /\ Black(a) = Black(w)
      BY <1>1, <2>1, MarkedIs
    <2> QED
      BY <2>1, <2>2, <2>3 DEF Marked
  <1>7. Sound(ops, a)
    <2> HIDE DEF a
    <2> QED
      BY <1>6 DEF Sound
  <1>8. Cardinality(Grey(a)) + d >= Len(ops)
    <2> DEFINE g == Grey(w)
    <2>1. IsFiniteSet(g)
      <3>1. g \subseteq DOMAIN ops
        BY DEF Marked
      <3> HIDE DEF g
      <3> QED
        BY <1>4, <3>1, FS_Subset
    <2>2. n \notin g /\ Grey(a) = g \cup {n} /\ Cardinality(g) + d + 1 >= Len(ops) /\ Len(ops) \in Nat
      BY <1>6 DEF Dense
    <2> DEFINE b == Grey(a)
    <2> HIDE DEF a, g, b
    <2>3. Cardinality(b) = Cardinality(g) + 1 /\ Cardinality(g) \in Nat
      BY <2>1, <2>2, FS_AddElement, FS_CardinalityType DEF b
    <2>4. Cardinality(b) + d >= Len(ops)
      BY <2>2, <2>3
    <2> QED
      BY <2>4 DEF b
  <1>9. \A x \in S : \A g \in Grey(a) : x \in Closure(ops, ops[g].dependencies)
    <2> SUFFICES ASSUME NEW x \in S, NEW g \in Grey(a)
                 PROVE  x \in Closure(ops, ops[g].dependencies)
      OBVIOUS
    <2>1. ops[g].dependencies \in SUBSET DOMAIN ops /\ g \in DOMAIN ops
      BY DEF Dense, Marked
    <2>2. CASE g = n
      BY <1>4, <2>1, <2>2, ClosureIs
    <2>3. CASE g \in Grey(w)
      <3>1. n \in Closure(ops, ops[g].dependencies)
        BY <2>3 DEF OnPath
      <3> QED
        BY <2>1, <3>1, ClosureIs
    <2> QED
      BY <1>6, <2>2, <2>3
  <1> DEFINE Good(j) == IF h[j].ok
                        THEN /\ Sound(ops, h[j]) /\ Grey(h[j]) = Grey(a) /\ Black(w) \subseteq Black(h[j])
                             /\ \A i \in 1..j : next[i] \in Black(h[j])
                        ELSE Cyclic(ops)
             P == {j \in 0..k : Good(j)}
  <1>10. 0 \in P
    <2>1. 0 \in 0..k /\ 1..0 = {} /\ h[0] = a
      BY <1>3, <1>5
    <2> HIDE DEF a, k, next
    <2> QED
      BY <1>6, <1>7, <2>1
  <1>11. ASSUME NEW j \in 0..(k - 1), j \in P PROVE j + 1 \in P
    <2>1. j + 1 \in 0..k /\ j + 1 \in 1..k /\ (j + 1) - 1 = j /\ j \in 0..k
          /\ \A i \in 1..(j + 1) : i = j + 1 \/ i \in 1..j
      BY <1>5
    <2> DEFINE x == next[j + 1]
               u == h[j]
               v == h[j + 1]
    <2>2. x \in S /\ x \in DOMAIN ops
      BY <1>4, <1>5, <2>1
    <2>3. u \in W /\ v = below[x][u]
      <3> HIDE DEF next, k
      <3> QED
        BY <1>3, <2>1
    <2>4. CASE ~ u.ok
      <3>1. v = u
        BY <2>2, <2>3, <2>4 DEF Correct
      <3>2. Cyclic(ops)
        BY <1>11, <2>4
      <3> QED
        BY <2>1, <2>4, <3>1, <3>2
    <2>5. CASE u.ok
      <3>1. /\ Sound(ops, u) /\ Grey(u) = Grey(a) /\ Black(w) \subseteq Black(u)
            /\ \A i \in 1..j : next[i] \in Black(u)
        BY <1>11, <2>5
      <3>2. OnPath(ops, u, x)
        BY <1>9, <2>2, <3>1 DEF OnPath
      <3>3. Cardinality(Grey(u)) + d >= Len(ops)
        BY <1>8, <3>1
      <3>4. Passed(ops, u, v) /\ (v.ok => x \in Black(v))
        <4>1. Visiting(ops, below, d, x, u)
          BY <2>2, <2>3 DEF Correct
        <4> HIDE DEF u, x, v
        <4> QED
          BY <2>3, <3>1, <3>2, <3>3, <4>1 DEF Visiting
      <3>5. CASE v.ok
        <4>1. Sound(ops, v) /\ Grey(v) = Grey(u) /\ Black(u) \subseteq Black(v) /\ x \in Black(v)
          BY <3>4, <3>5 DEF Passed
        <4>2. \A i \in 1..(j + 1) : next[i] \in Black(v)
          <5> HIDE DEF next, k, a, v, u
          <5> QED
            BY <2>1, <3>1, <4>1
        <4>3. Good(j + 1)
          <5> HIDE DEF next, k, a
          <5> QED
            BY <3>1, <3>5, <4>1, <4>2
        <4> QED
          BY <2>1, <4>3
      <3>6. CASE ~ v.ok
        <4>1. Cyclic(ops)
          BY <3>4, <3>6 DEF Passed
        <4> QED
          BY <2>1, <3>6, <4>1
      <3> QED
        BY <3>5, <3>6
    <2> QED
      BY <2>4, <2>5
  <1>12. Good(k)
    <2> HIDE DEF P, k
    <2>1. \A j \in 0..k : j \in P
      BY <1>5, <1>10, <1>11, Reaches
    <2>2. k \in 0..k
      BY <1>5
    <2> QED
      BY <2>1, <2>2 DEF P
  <1> DEFINE done == h[k]
             v == [done EXCEPT !.color[n] = "black"]
  <1>13. done \in W
    <2> HIDE DEF k
    <2> QED
      BY <1>3, <1>5
  <1>14. CASE ~ done.ok
    <2>1. Enter(ops, below, n, w) = done /\ Cyclic(ops)
      BY <1>3, <1>12, <1>14
    <2> QED
      BY <1>13, <1>14, <2>1 DEF Passed
  <1>15. CASE done.ok
    <2>1. Enter(ops, below, n, w) = v
      BY <1>3, <1>15
    <2>2. /\ Sound(ops, done) /\ Grey(done) = Grey(a) /\ Black(w) \subseteq Black(done)
          /\ \A i \in 1..k : next[i] \in Black(done)
      BY <1>12, <1>15
    <2>3. S \subseteq Black(done)
      BY <1>5, <2>2
    <2>4. n \in Grey(done)
      BY <1>6, <2>2
    <2>5. done.color[n] # "black"
      BY <2>4 DEF Marked
    <2> HIDE DEF done
    <2>6. Sound(ops, v)
      BY <2>2, <2>3, <2>5, MayBlacken
    <2>7. Grey(v) = Grey(done) \ {n} /\ Black(v) = Black(done) \cup {n}
      <3>1. done \in Walks(ops) /\ v = [done EXCEPT !.color[n] = "black"]
        BY <1>13
      <3> HIDE DEF v
      <3> QED
        BY <3>1, BlackenedIs
    <2> HIDE DEF v
    <2>8. Grey(v) = Grey(w) /\ Black(w) \subseteq Black(v) /\ n \in Black(v)
      BY <1>6, <2>2, <2>7
    <2>9. v \in W /\ v.ok
      BY <2>6 DEF Sound
    <2> QED
      BY <2>1, <2>6, <2>8, <2>9 DEF Passed
  <1> QED
    BY <1>14, <1>15

-----------------------------------------------------------------------------
(* All depths, all nodes                                                     *)

Level(ops, below, d) ==
    [n \in DOMAIN ops |-> [walk \in Walks(ops) |->
       IF walk.color[n] = "black" \/ ~walk.ok THEN walk
       ELSE IF walk.color[n] = "grey" \/ d = 0 THEN [walk EXCEPT !.ok = FALSE]
       ELSE Enter(ops, below, n, walk)]]

LEMMA LevelCorrect ==
    ASSUME NEW ops, Dense(ops), NEW d \in Nat, NEW below, d # 0 => Correct(ops, below, d - 1)
    PROVE  Correct(ops, Level(ops, below, d), d)
  <1> DEFINE W == Walks(ops)
             D == DOMAIN ops
             f == Level(ops, below, d)
             Grey(v) == Marked(ops, v, "grey")
             Black(v) == Marked(ops, v, "black")
  <1>1. ASSUME NEW n \in D, NEW w \in W
        PROVE  f[n][w] = IF w.color[n] = "black" \/ ~ w.ok THEN w
                         ELSE IF w.color[n] = "grey" \/ d = 0 THEN [w EXCEPT !.ok = FALSE]
                         ELSE Enter(ops, below, n, w)
    BY DEF Level
  <1>2. f = [n \in D |-> [w \in W |-> f[n][w]]]
    BY DEF Level
  <1> HIDE DEF f
  <1>3. ASSUME NEW n \in D, NEW w \in W
        PROVE  f[n][w] \in W /\ (~ w.ok => f[n][w] = w) /\ Visiting(ops, f, d, n, w)
    <2> DEFINE v == f[n][w]
    <2>1. w.ok \in BOOLEAN /\ w.color[n] \in {"white", "grey", "black"} /\ [w EXCEPT !.ok = FALSE] \in W
          /\ ~ [w EXCEPT !.ok = FALSE].ok
      BY DEF Walks
    <2>2. CASE ~ w.ok
      <3>1. v = w
        BY <1>1, <2>2
      <3> QED
        BY <2>2, <3>1 DEF Visiting, Sound
    <2>3. CASE w.ok /\ w.color[n] = "black"
      <3>1. v = w
        BY <1>1, <2>3
      <3>2. n \in Black(w)
        BY <2>3 DEF Marked
      <3> QED
        BY <2>3, <3>1, <3>2 DEF Visiting, Passed
    <2>4. CASE w.ok /\ w.color[n] # "black" /\ (w.color[n] = "grey" \/ d = 0)
      <3>1. v = [w EXCEPT !.ok = FALSE]
        BY <1>1, <2>4
      <3>2. v \in W /\ ~ v.ok
        BY <2>1, <3>1
      <3>3. ASSUME OnPath(ops, w, n), Cardinality(Grey(w)) + d >= Len(ops) PROVE Cyclic(ops)
        <4>1. n \in Grey(w)
          <5>1. CASE w.color[n] = "grey"
            BY <5>1 DEF Marked
          <5>2. CASE d = 0
            <6> DEFINE g == Grey(w)
            <6>1. D = 1..Len(ops) /\ Len(ops) \in Nat /\ g \subseteq D
              BY DEF Dense, Marked
            <6>2. IsFiniteSet(D) /\ Cardinality(D) = Len(ops)
              <7> DEFINE k == Len(ops)
              <7> HIDE DEF k, D
              <7>1. D = 1..k /\ k \in Nat
                BY <6>1 DEF k
              <7>2. IsFiniteSet(1..k) /\ Cardinality(1..k) = k
                BY <7>1, FS_Interval
              <7> QED
                BY <7>1, <7>2 DEF k
            <6> HIDE DEF g, D
            <6>3. Cardinality(g) <= Cardinality(D) /\ Cardinality(g) \in Nat
                  /\ (Cardinality(g) = Cardinality(D) => g = D)
              BY <6>1, <6>2, FS_Subset, FS_CardinalityType
            <6>4. Cardinality(g) >= Len(ops)
              BY <3>3, <5>2, <6>3 DEF g
            <6>5. g = D
              BY <6>1, <6>2, <6>3, <6>4
            <6> QED
              BY <6>5 DEF g
          <5> QED
            BY <2>4, <5>1, <5>2
        <4>2. n \in Closure(ops, ops[n].dependencies)
          BY <3>3, <4>1 DEF OnPath
        <4> QED
          BY <4>2 DEF Cyclic
      <3> HIDE DEF v
      <3>4. Visiting(ops, f, d, n, w)
        BY <3>2, <3>3 DEF Visiting, Passed, v
      <3> QED
        BY <2>4, <3>2, <3>4 DEF v
    <2>5. CASE w.ok /\ w.color[n] = "white" /\ d # 0
      <3>1. v = Enter(ops, below, n, w)
        BY <1>1, <2>5
      <3>2. d - 1 \in Nat /\ Correct(ops, below, d - 1)
        BY <2>5
      <3>3. v \in W
        <4>1. below \in [D -> [W -> W]]
          BY <3>2 DEF Correct
        <4>2. PICK h : Enters(ops, below, n, w, h)
          BY <4>1, EnterIs
        <4> DEFINE k == Len(SetToSeq(ops[n].dependencies))
        <4>3. h \in [0..k -> W] /\ v = IF h[k].ok THEN [h[k] EXCEPT !.color[n] = "black"] ELSE h[k]
          BY <3>1, <4>2 DEF Enters
        <4>4. k \in Nat
          <5> DEFINE S == ops[n].dependencies
                     I == 1..Len(ops)
          <5>1. DOMAIN ops = I /\ S \subseteq I /\ Len(ops) \in Nat
            BY DEF Dense
          <5>2. IsFiniteSet(I)
            BY <5>1, FS_Interval
          <5>3. IsFiniteSet(S)
            <6> HIDE DEF I, S
            <6> QED
              BY <5>1, <5>2, FS_Subset
          <5> HIDE DEF S
          <5>4. Len(SetToSeq(S)) \in Nat
            BY <5>3, SetListed
          <5> QED
            BY <5>4 DEF S
        <4> HIDE DEF k
        <4>5. h[k] \in W
          BY <4>3, <4>4
        <4>6. [h[k] EXCEPT !.color[n] = "black"] \in W
          BY <4>5 DEF Walks
        <4> QED
          BY <4>3, <4>5, <4>6
      <3>4. ASSUME Sound(ops, w), OnPath(ops, w, n), Cardinality(Grey(w)) + d >= Len(ops)
            PROVE  Passed(ops, w, v) /\ (v.ok => n \in Black(v))
        <4>1. Cardinality(Grey(w)) + (d - 1) + 1 >= Len(ops)
          <5>1. Cardinality(Grey(w)) \in Nat
            <6> DEFINE g == Grey(w)
            <6>1. D = 1..Len(ops) /\ Len(ops) \in Nat /\ g \subseteq D
              BY DEF Dense, Marked
            <6>2. IsFiniteSet(D)
              BY <6>1, FS_Interval
            <6> HIDE DEF g, D
            <6>3. Cardinality(g) \in Nat
              BY <6>1, <6>2, FS_Subset, FS_CardinalityType
            <6> QED
              BY <6>3 DEF g
          <5> DEFINE c == Cardinality(Grey(w))
          <5> HIDE DEF c
          <5>2. c + d >= Len(ops) /\ c \in Nat
            BY <3>4, <5>1 DEF c
          <5>3. c + (d - 1) + 1 = c + d
            BY <5>2
          <5> QED
            BY <5>2, <5>3 DEF c
        <4> HIDE DEF v
        <4> QED
          BY <2>5, <3>1, <3>2, <3>4, <4>1, EnterPasses
      <3> HIDE DEF v
      <3>5. Visiting(ops, f, d, n, w)
        BY <3>4 DEF Visiting, v
      <3> QED
        BY <2>5, <3>3, <3>5 DEF v
    <2> QED
      BY <2>1, <2>2, <2>3, <2>4, <2>5
  <1>4. f \in [D -> [W -> W]]
    <2> HIDE DEF W, D
    <2> QED
      BY <1>2, <1>3
  <1> QED
    BY <1>3, <1>4 DEF Correct, f

\* At depth 0 nothing is entered.
LEMMA LevelZero == ASSUME NEW ops, NEW x, NEW y PROVE Level(ops, x, 0) = Level(ops, y, 0)
  <1>1. \A n, w : (IF w.color[n] = "black" \/ ~ w.ok THEN w
                  ELSE IF w.color[n] = "grey" \/ 0 = 0 THEN [w EXCEPT !.ok = FALSE]
                  ELSE Enter(ops, x, n, w))
               = (IF w.color[n] = "black" \/ ~ w.ok THEN w
                  ELSE IF w.color[n] = "grey" \/ 0 = 0 THEN [w EXCEPT !.ok = FALSE]
                  ELSE Enter(ops, y, n, w))
    OBVIOUS
  <1> QED
    BY <1>1 DEF Level

Visits(ops, k, h) == h = [d \in 0..k |-> Level(ops, h[d - 1], d)]

LEMMA VisitsExist ==
    ASSUME NEW ops, NEW k \in Nat
    PROVE  \E h : Visits(ops, k, h)
  <1> DEFINE S == {m \in 0..k : \E h : Visits(ops, m, h)}
  <1>1. 0 \in S
    <2> DEFINE h == [d \in 0..0 |-> Level(ops, 0, d)]
    <2>1. h = [d \in 0..0 |-> Level(ops, h[d - 1], d)]
      <3>1. \A d \in 0..0 : Level(ops, h[d - 1], d) = Level(ops, 0, d)
        <4>1. \A d \in 0..0 : d = 0
          OBVIOUS
        <4> HIDE DEF h
        <4> QED
          BY <4>1, LevelZero
      <3> QED
        BY <3>1
    <2> HIDE DEF h
    <2>2. Visits(ops, 0, h) /\ 0 \in 0..k
      BY <2>1 DEF Visits
    <2> QED
      BY <2>2
  <1>2. ASSUME NEW m \in 0..(k - 1), m \in S PROVE m + 1 \in S
    <2>1. PICK g : Visits(ops, m, g)
      BY <1>2
    <2> DEFINE h == [d \in 0..(m + 1) |-> IF d = m + 1 THEN Level(ops, g[m], m + 1) ELSE g[d]]
    <2>2. /\ m + 1 \in 0..k /\ m \in 0..m /\ m + 1 # 0 /\ (m + 1) - 1 = m /\ m \in 0..(m + 1) /\ m # m + 1
          /\ \A d \in 0..(m + 1) : d # m + 1 => d \in 0..m
          /\ \A d \in 0..m : d # 0 => d - 1 \in 0..(m + 1) /\ d - 1 # m + 1
      OBVIOUS
    <2>3. \A d \in 0..m : g[d] = Level(ops, g[d - 1], d)
      BY <2>1, Zenon DEF Visits
    <2>4. ASSUME NEW d \in 0..(m + 1) PROVE h[d] = Level(ops, h[d - 1], d)
      <3>1. CASE d = m + 1
        <4>1. h[d] = Level(ops, g[m], d) /\ h[m] = g[m] /\ d - 1 = m
          BY <2>2, <3>1
        <4> HIDE DEF h
        <4> QED
          BY <4>1
      <3>2. CASE d # m + 1 /\ d # 0
        <4>1. d \in 0..m /\ d - 1 \in 0..(m + 1) /\ d - 1 # m + 1
          BY <2>2, <3>2
        <4>2. h[d] = g[d] /\ h[d - 1] = g[d - 1]
          BY <3>2, <4>1
        <4> HIDE DEF h
        <4> QED
          BY <2>3, <4>1, <4>2
      <3>3. CASE d = 0
        <4>1. d # m + 1 /\ d \in 0..m
          BY <2>2, <3>3
        <4>2. h[d] = g[d]
          BY <4>1
        <4>3. g[d] = Level(ops, g[d - 1], d)
          BY <2>3, <4>1
        <4>4. Level(ops, g[d - 1], 0) = Level(ops, h[d - 1], 0)
          <5> HIDE DEF h
          <5> QED
            BY LevelZero
        <4> HIDE DEF h
        <4> QED
          BY <3>3, <4>2, <4>3, <4>4
      <3> QED
        BY <3>1, <3>2, <3>3
    <2>5. h = [d \in 0..(m + 1) |-> Level(ops, h[d - 1], d)]
      BY <2>4, Zenon
    <2> HIDE DEF h
    <2>6. Visits(ops, m + 1, h)
      BY <2>5 DEF Visits
    <2> QED
      BY <2>2, <2>6
  <1> HIDE DEF S
  <1>3. k \in S
    BY <1>1, <1>2, Reaches
  <1> QED
    BY <1>3 DEF S

LEMMA VisitCorrect ==
    ASSUME NEW ops, Dense(ops)
    PROVE  Correct(ops, Visit(ops), Len(ops))
  <1> DEFINE k == Len(ops)
             h == CHOOSE h : Visits(ops, k, h)
  <1>1. k \in Nat
    BY DEF Dense
  <1>2. Visits(ops, k, h)
    <2> HIDE DEF k
    <2> QED
      BY <1>1, VisitsExist, Zenon
  <1>3. Visit(ops) = h[k]
    BY Zenon DEF Visit, Visits, Level
  <1> HIDE DEF h, k
  <1>4. \A d \in 0..k : h[d] = Level(ops, h[d - 1], d)
    BY <1>2, Zenon DEF Visits
  <1> DEFINE S == {d \in 0..k : Correct(ops, h[d], d)}
  <1>5. 0 \in S
    <2>1. 0 \in 0..k /\ 0 \in Nat
      BY <1>1
    <2>2. Correct(ops, Level(ops, h[0 - 1], 0), 0)
      BY <2>1, LevelCorrect
    <2>3. h[0] = Level(ops, h[0 - 1], 0)
      BY <1>4, <2>1
    <2> QED
      BY <2>1, <2>2, <2>3
  <1>6. ASSUME NEW d \in 0..(k - 1), d \in S PROVE d + 1 \in S
    <2>1. d + 1 \in 0..k /\ d + 1 \in Nat /\ (d + 1) - 1 = d
      BY <1>1
    <2>2. h[d + 1] = Level(ops, h[d], d + 1)
      BY <1>4, <2>1
    <2>3. Correct(ops, h[d], d)
      BY <1>6
    <2>4. Correct(ops, Level(ops, h[d], d + 1), d + 1)
      BY <2>1, <2>3, LevelCorrect
    <2> QED
      BY <2>1, <2>2, <2>4
  <1>7. k \in S
    <2> HIDE DEF S
    <2>1. \A d \in 0..k : d \in S
      BY <1>1, <1>5, <1>6, Reaches
    <2> QED
      BY <1>1, <2>1
  <1> QED
    BY <1>3, <1>7 DEF k

WalkSteps(ops, h) ==
    h = [n \in 0..Len(ops) |-> IF n = 0 THEN [color |-> [i \in DOMAIN ops |-> "white"], ok |-> TRUE]
                               ELSE Visit(ops)[n][h[n - 1]]]

\* The walk goes through exactly when no operation depends on itself.
LEMMA WalkMeans ==
    ASSUME NEW ops, Dense(ops)
    PROVE  Walk(ops).ok <=> ~ Cyclic(ops)
  <1> DEFINE k == Len(ops)
             W == Walks(ops)
             f == Visit(ops)
             a == [color |-> [i \in DOMAIN ops |-> "white"], ok |-> TRUE]
             G == [x \in Nat \X W |-> IF x[1] \in 1..k THEN f[x[1]][x[2]] ELSE x[2]]
             Grey(v) == Marked(ops, v, "grey")
             Black(v) == Marked(ops, v, "black")
  <1>1. k \in Nat /\ DOMAIN ops = 1..k
    BY DEF Dense
  <1>2. Correct(ops, f, k)
    BY VisitCorrect
  <1>3. f \in [DOMAIN ops -> [W -> W]]
    BY <1>2 DEF Correct
  <1>4. a \in W /\ Sound(ops, a) /\ Grey(a) = {}
    BY DEF Walks, Sound, Marked
  <1>5. G \in [Nat \X W -> W]
    <2>1. ASSUME NEW x \in Nat \X W PROVE (IF x[1] \in 1..k THEN f[x[1]][x[2]] ELSE x[2]) \in W
      <3> HIDE DEF k, W, f
      <3>1. x[2] \in W
        OBVIOUS
      <3>2. ASSUME x[1] \in 1..k PROVE f[x[1]][x[2]] \in W
        <4>1. f[x[1]] \in [W -> W]
          BY <1>1, <1>3, <3>2
        <4> QED
          BY <3>1, <4>1
      <3> QED
        BY <3>1, <3>2
    <2> HIDE DEF k, W, f
    <2> QED
      BY <2>1
  <1>6. PICK g \in [0..k -> W] : Iterated(g, a, G, k)
    <2> HIDE DEF G, W, a, k
    <2> QED
      BY <1>1, <1>4, <1>5, Iterates
  <1>7. g[0] = a /\ \A j \in 1..k : g[j] = f[j][g[j - 1]]
    <2>1. g[0] = a
      BY <1>6 DEF Iterated
    <2>2. ASSUME NEW j \in 1..k PROVE g[j] = f[j][g[j - 1]]
      <3>1. j \in Nat /\ j - 1 \in 0..k
        BY <1>1
      <3>2. g[j - 1] \in W
        BY <1>6, <3>1
      <3>3. g[j] = G[<<j, g[j - 1]>>]
        BY <1>6 DEF Iterated
      <3>4. G[<<j, g[j - 1]>>] = f[j][g[j - 1]]
        <4> HIDE DEF W, f, k
        <4> QED
          BY <3>1, <3>2
      <3> QED
        BY <3>3, <3>4
    <2> QED
      BY <2>1, <2>2
  <1>8. WalkSteps(ops, g)
    <2> HIDE DEF W, a, f, k
    <2>1. \A j \in 0..k : g[j] = IF j = 0 THEN a ELSE f[j][g[j - 1]]
      BY <1>1, <1>7
    <2>2. g = [j \in 0..k |-> IF j = 0 THEN a ELSE f[j][g[j - 1]]]
      BY <1>6, <2>1
    <2> QED
      BY <2>2 DEF WalkSteps, a, f, k
  <1> DEFINE h == CHOOSE h : WalkSteps(ops, h)
  <1>9. WalkSteps(ops, h)
    BY <1>8, Zenon
  <1>10. h = [j \in 0..k |-> IF j = 0 THEN a ELSE f[j][h[j - 1]]]
    BY <1>9, Zenon DEF WalkSteps
  <1>11. Walk(ops) = h[k]
    BY Zenon DEF Walk, WalkSteps
  <1> HIDE DEF h
  <1> DEFINE Good(j) == /\ h[j] \in W
                        /\ IF h[j].ok THEN Sound(ops, h[j]) /\ Grey(h[j]) = {} /\ 1..j \subseteq Black(h[j])
                           ELSE Cyclic(ops)
             S == {j \in 0..k : Good(j)}
  <1>12. 0 \in S
    <2>1. 0 \in 0..k /\ 1..0 = {}
      BY <1>1
    <2>2. h[0] = a
      <3> HIDE DEF a, f, k
      <3> QED
        BY <1>10, <2>1
    <2>3. a.ok
      OBVIOUS
    <2> HIDE DEF a, k, W
    <2> QED
      BY <1>4, <2>1, <2>2, <2>3 DEF W
  <1>13. ASSUME NEW j \in 0..(k - 1), j \in S PROVE j + 1 \in S
    <2>1. /\ j + 1 \in 0..k /\ j + 1 \in 1..k /\ (j + 1) - 1 = j /\ j + 1 # 0
          /\ \A i \in 1..(j + 1) : i = j + 1 \/ i \in 1..j
      BY <1>1
    <2> DEFINE n == j + 1
               u == h[j]
               v == h[j + 1]
    <2>2. v = f[n][u] /\ n \in DOMAIN ops
      <3> HIDE DEF a, f, k
      <3> QED
        BY <1>1, <1>10, <2>1
    <2>3. u \in W
      BY <1>13
    <2>4. v \in W
      <3>1. f[n] \in [W -> W]
        BY <1>3, <2>2
      <3> HIDE DEF W, f, u, v, n
      <3> QED
        BY <2>2, <2>3, <3>1
    <2>5. CASE ~ u.ok
      <3>1. v = u
        BY <1>2, <2>2, <2>3, <2>5 DEF Correct
      <3> QED
        BY <1>13, <2>1, <2>4, <2>5, <3>1
    <2>6. CASE u.ok
      <3>1. Sound(ops, u) /\ Grey(u) = {} /\ 1..j \subseteq Black(u)
        BY <1>13, <2>6
      <3>2. OnPath(ops, u, n)
        BY <3>1 DEF OnPath
      <3>3. Cardinality(Grey(u)) + k >= Len(ops)
        <4>1. Cardinality(Grey(u)) = 0
          <5>1. Grey(u) = {}
            BY <3>1
          <5> HIDE DEF Grey, u, k
          <5> QED
            BY <5>1, FS_EmptySet
        <4>2. k \in Nat /\ k = Len(ops)
          BY <1>1
        <4> DEFINE z == Cardinality(Grey(u))
        <4> HIDE DEF z, k
        <4>3. z = 0
          BY <4>1 DEF z
        <4>4. z + k >= Len(ops)
          BY <4>2, <4>3
        <4> QED
          BY <4>4 DEF z
      <3>4. Passed(ops, u, v) /\ (v.ok => n \in Black(v))
        <4>1. Visiting(ops, f, k, n, u)
          BY <1>2, <2>2, <2>3 DEF Correct
        <4> HIDE DEF f, k, u, v, n
        <4> QED
          BY <2>2, <3>1, <3>2, <3>3, <4>1 DEF Visiting
      <3>5. CASE v.ok
        <4>1. Sound(ops, v) /\ Grey(v) = Grey(u) /\ Black(u) \subseteq Black(v) /\ n \in Black(v)
          BY <3>4, <3>5 DEF Passed
        <4>2. 1..(j + 1) \subseteq Black(v)
          BY <2>1, <3>1, <4>1
        <4> QED
          BY <2>1, <2>4, <3>1, <3>5, <4>1, <4>2
      <3>6. CASE ~ v.ok
        <4>1. Cyclic(ops)
          BY <3>4, <3>6 DEF Passed
        <4> QED
          BY <2>1, <2>4, <3>6, <4>1
      <3> QED
        BY <3>5, <3>6
    <2> QED
      BY <2>5, <2>6
  <1>14. Good(k)
    <2> HIDE DEF S, k
    <2>1. \A j \in 0..k : j \in S
      BY <1>1, <1>12, <1>13, Reaches
    <2>2. k \in 0..k
      BY <1>1
    <2> QED
      BY <2>1, <2>2 DEF S
  <1>15. h[k].ok \in BOOLEAN
    BY <1>14 DEF Walks
  <1>16. ASSUME h[k].ok PROVE ~ Cyclic(ops)
    <2>1. Sound(ops, h[k]) /\ DOMAIN ops \subseteq Black(h[k])
      BY <1>1, <1>14, <1>16
    <2> QED
      BY <2>1 DEF Sound, Cyclic
  <1>17. ASSUME ~ h[k].ok PROVE Cyclic(ops)
    BY <1>14, <1>17
  <1> QED
    BY <1>11, <1>15, <1>16, <1>17

-----------------------------------------------------------------------------
(* Blocks, and what telemetry says of them                                  *)

Count == [horizon : Nat, accepted : Nat]
Stamp == [sequence : Nat, accepted : Nat]
Resolution == [block : Blocks, accepted : Seq(BOOLEAN)]

BlockTyped ==
    /\ resolved \in Seq(Resolution)
    /\ collector \in [records : Seq(Count), accepted : Nat, rejected : Nat, events : Seq(Stamp)]

\* Every candidate before the next one has its verdict.
Resolving ==
    \/ block = NoBlock /\ at = 0 /\ outcome = <<>>
    \/ /\ block \in Blocks /\ block # NoBlock /\ Len(block.candidates) = block.horizon
       /\ at \in 1..(block.horizon + 1)
       /\ outcome \in Seq(BOOLEAN) /\ Len(outcome) = at - 1

BlockExact == BlockTyped /\ Resolving /\ BlocksCounted

LEMMA AcceptedIs ==
    ASSUME NEW s \in Seq(BOOLEAN)
    PROVE  Accepted(s) \in Nat /\ Accepted(s) <= Len(s) /\ Len(s) \in Nat
  <1> DEFINE n == Len(s)
             I == 1..n
             T == {i \in DOMAIN s : s[i]}
  <1>1. n \in Nat /\ DOMAIN s = I
    OBVIOUS
  <1>2. IsFiniteSet(I) /\ Cardinality(I) = n
    <2> HIDE DEF n
    <2> QED
      BY <1>1, FS_Interval
  <1>3. T \subseteq I
    BY <1>1
  <1>4. IsFiniteSet(T) /\ Cardinality(T) <= Cardinality(I) /\ Cardinality(T) \in Nat
    <2> HIDE DEF T, I
    <2> QED
      BY <1>2, <1>3, FS_Subset, FS_CardinalityType
  <1> QED
    BY <1>1, <1>2, <1>4 DEF Accepted

LEMMA BlockIs ==
    ASSUME NEW b \in Blocks
    PROVE  b.horizon \in Nat /\ b.telemetry \in BOOLEAN /\ DOMAIN b.candidates = 1..Len(b.candidates)
           /\ Len(b.candidates) \in Nat
  <1>1. b.horizon \in 0..MaxHorizon /\ b.telemetry \in BOOLEAN /\ b.candidates \in Rows(Candidate, MaxHorizon)
    BY DEF Blocks
  <1>2. MaxHorizon \in Nat
    BY ExecutionAssumption
  <1>3. PICK k \in 0..MaxHorizon : b.candidates \in [1..k -> Candidate]
    BY <1>1 DEF Rows
  <1>4. k \in Nat
    BY <1>2
  <1> DEFINE s == b.candidates
  <1>5. s \in Seq(Candidate) /\ Len(s) = k /\ DOMAIN s = 1..k
    <2>1. s \in [1..k -> Candidate]
      BY <1>3
    <2> HIDE DEF s
    <2> QED
      BY <1>4, <2>1
  <1> QED
    BY <1>1, <1>2, <1>4, <1>5

LEMMA BlockInit == EInit => BlockExact
  <1> SUFFICES ASSUME EInit PROVE BlockExact
    OBVIOUS
  <1>1. /\ block = NoBlock /\ at = 0 /\ outcome = <<>> /\ resolved = <<>>
        /\ collector = [records |-> <<>>, accepted |-> 0, rejected |-> 0, events |-> <<>>]
    BY DEF EInit
  <1>2. BlockTyped /\ Resolving
    BY <1>1 DEF BlockTyped, Resolving
  <1>3. Told = {}
    BY <1>1 DEF Told
  <1>4. Cardinality(Told) = 0
    BY <1>3, FS_EmptySet
  <1>5. SumFunctionOnSet([i \in Told |-> Accepted(resolved[i].accepted)], Told) = 0
    BY <1>3, SumEmpty
  <1>6. SumFunctionOnSet([i \in Told |-> resolved[i].block.horizon], Told) = 0
    BY <1>3, SumEmpty
  <1>7. EventRoom \in Nat
    BY ExecutionAssumption
  <1>8. Len(collector.records) = 0 /\ Len(collector.events) = 0 /\ DOMAIN collector.events = {}
        /\ collector.accepted = 0 /\ collector.rejected = 0
    BY <1>1
  <1>9. BlocksCounted
    BY <1>3, <1>4, <1>5, <1>6, <1>7, <1>8 DEF BlocksCounted
  <1> QED
    BY <1>2, <1>9 DEF BlockExact

\* What is told of the resolutions depends on them and on the collector only.
LEMMA CountedStays ==
    ASSUME BlocksCounted, UNCHANGED <<resolved, collector>>
    PROVE  BlocksCounted'
  <1>1. Told' = Told
    BY DEF Told
  <1>2. \A i : Place(i)' = Place(i)
    BY <1>1 DEF Place
  <1> QED
    BY <1>1, <1>2 DEF BlocksCounted

LEMMA ResolveKeeps ==
    ASSUME BlockExact, NEW b \in Blocks, Resolve(b)
    PROVE  BlockExact'
  <1>1. /\ block' = b /\ at' = 1 /\ outcome' = <<>> /\ Len(b.candidates) = b.horizon /\ b.horizon > 0
        /\ UNCHANGED <<resolved, collector>>
    BY DEF Resolve, BlockAccepted
  <1>2. b # NoBlock
    BY <1>1 DEF NoBlock
  <1>3. b.horizon \in Nat
    BY BlockIs
  <1>4. 1 \in 1..(b.horizon + 1) /\ <<>> \in Seq(BOOLEAN) /\ Len(<<>>) = 1 - 1
    BY <1>3
  <1>5. Resolving'
    BY <1>1, <1>2, <1>4 DEF Resolving
  <1>6. BlockTyped'
    BY <1>1 DEF BlockExact, BlockTyped
  <1>7. BlocksCounted'
    BY <1>1, CountedStays DEF BlockExact
  <1> QED
    BY <1>5, <1>6, <1>7 DEF BlockExact

LEMMA DispatchKeeps ==
    ASSUME BlockExact, NEW verdict, Dispatch(verdict)
    PROVE  BlockExact'
  <1>1. /\ at \in DOMAIN block.candidates /\ UNCHANGED <<resolved, collector>>
        /\ \/ block' = NoBlock /\ at' = 0 /\ outcome' = <<>>
           \/ /\ outcome' = Append(outcome, verdict \in {"Exact", "Tolerated"})
              /\ at' = at + 1 /\ block' = block
    BY DEF Dispatch
  <1>2. block # NoBlock
    BY <1>1 DEF NoBlock, BlockExact, Resolving
  <1>3. /\ block \in Blocks /\ Len(block.candidates) = block.horizon
        /\ at \in 1..(block.horizon + 1)
        /\ outcome \in Seq(BOOLEAN) /\ Len(outcome) = at - 1
    BY <1>2 DEF BlockExact, Resolving
  <1>4. block.horizon \in Nat /\ DOMAIN block.candidates = 1..block.horizon
    BY <1>3, BlockIs
  <1>5. at \in 1..block.horizon
    BY <1>1, <1>4
  <1>6. Resolving'
    <2>1. CASE block' = NoBlock /\ at' = 0 /\ outcome' = <<>>
      BY <2>1 DEF Resolving
    <2>2. CASE /\ outcome' = Append(outcome, verdict \in {"Exact", "Tolerated"})
               /\ at' = at + 1 /\ block' = block
      <3> DEFINE v == verdict \in {"Exact", "Tolerated"}
      <3>1. v \in BOOLEAN
        OBVIOUS
      <3> HIDE DEF v
      <3>2. Append(outcome, v) \in Seq(BOOLEAN) /\ Len(Append(outcome, v)) = at
        BY <1>3, <1>4, <1>5, <3>1
      <3>3. at + 1 \in 1..(block.horizon + 1) /\ at = (at + 1) - 1
        BY <1>4, <1>5
      <3>4. outcome' = Append(outcome, v) /\ at' = at + 1 /\ block' = block
        BY <2>2 DEF v
      <3> QED
        BY <1>2, <1>3, <3>2, <3>3, <3>4 DEF Resolving
    <2> QED
      BY <1>1, <2>1, <2>2
  <1>7. BlockTyped'
    BY <1>1 DEF BlockExact, BlockTyped
  <1>8. BlocksCounted'
    BY <1>1, CountedStays DEF BlockExact
  <1> QED
    BY <1>6, <1>7, <1>8 DEF BlockExact

\* The resolutions told of, after one more.
LEMMA ToldGrows ==
    ASSUME BlockTyped, NEW r \in Resolution, resolved' = Append(resolved, r)
    PROVE  /\ Len(resolved) \in Nat /\ Told \subseteq 1..Len(resolved) /\ IsFiniteSet(Told)
           /\ Told' = IF r.block.telemetry THEN Told \cup {Len(resolved) + 1} ELSE Told
           /\ \A i \in Told : resolved'[i] = resolved[i]
           /\ resolved'[Len(resolved) + 1] = r
           /\ \A i \in Told : Place(i)' = Place(i) /\ Place(i) \in 1..Cardinality(Told)
           /\ r.block.telemetry => Cardinality(Told') = Cardinality(Told) + 1
           /\ \A k : r.block.telemetry /\ k = Len(resolved) + 1 =>
                     Place(k)' = Cardinality(Told) + 1
           /\ Len(resolved) + 1 \notin Told
  <1> DEFINE n == Len(resolved)
             T == Told
  <1>1. n \in Nat /\ DOMAIN resolved = 1..n /\ resolved \in Seq(Resolution)
    BY DEF BlockTyped
  <1>2. /\ DOMAIN resolved' = 1..(n + 1) /\ \A i \in 1..n : resolved'[i] = resolved[i]
        /\ resolved'[n + 1] = r
    BY <1>1
  <1>3. \A i \in DOMAIN resolved : resolved[i].block.telemetry \in BOOLEAN
    <2>1. \A i \in DOMAIN resolved : resolved[i].block \in Blocks
      <3>1. \A i \in DOMAIN resolved : resolved[i] \in Resolution
        BY <1>1
      <3> QED
        BY <3>1 DEF Resolution
    <2> QED
      BY <2>1, BlockIs
  <1>4. r.block.telemetry \in BOOLEAN
    <2>1. r.block \in Blocks
      BY DEF Resolution
    <2> QED
      BY <2>1, BlockIs
  <1>5. T \subseteq 1..n /\ n + 1 \notin T
    BY <1>1 DEF Told
  <1>6. IsFiniteSet(T)
    <2> DEFINE I == 1..n
    <2>1. IsFiniteSet(I) /\ T \subseteq I
      BY <1>1, <1>5, FS_Interval
    <2> HIDE DEF I, T
    <2> QED
      BY <2>1, FS_Subset
  <1>7. T' = IF r.block.telemetry THEN T \cup {n + 1} ELSE T
    <2>1. T' = {i \in 1..(n + 1) : resolved'[i].block.telemetry}
      BY <1>2 DEF Told
    <2>2. T = {i \in 1..n : resolved[i].block.telemetry}
      BY <1>1 DEF Told
    <2> HIDE DEF n, T
    <2>3. \A i \in 1..(n + 1) : i = n + 1 \/ i \in 1..n
      BY <1>1 DEF n
    <2>4. 1..n \subseteq 1..(n + 1) /\ n + 1 \in 1..(n + 1) /\ n + 1 \notin 1..n
      BY <1>1 DEF n
    <2>5. CASE r.block.telemetry
      BY <1>2, <2>1, <2>2, <2>3, <2>4, <2>5, Zenon
    <2>6. CASE ~ r.block.telemetry
      BY <1>2, <2>1, <2>2, <2>3, <2>4, <2>6, Zenon
    <2> QED
      BY <2>5, <2>6
  <1>8. ASSUME NEW i \in T PROVE Place(i)' = Place(i) /\ Place(i) \in 1..Cardinality(T)
    <2>1. i \in 1..n /\ n + 1 \notin 1..i
      BY <1>1, <1>5
    <2>2. T' \cap 1..i = T \cap 1..i
      <3> HIDE DEF T, n
      <3> QED
        BY <1>7, <2>1
    <2>3. Place(i)' = Place(i)
      BY <2>2 DEF Place
    <2> DEFINE P == T \cap 1..i
    <2>4. P \subseteq T /\ i \in P
      BY <2>1
    <2>5. IsFiniteSet(P) /\ Cardinality(P) <= Cardinality(T) /\ Cardinality(P) # 0
          /\ Cardinality(P) \in Nat /\ Cardinality(T) \in Nat
      <3> HIDE DEF T, P
      <3> QED
        BY <1>6, <2>4, FS_Subset, FS_EmptySet, FS_CardinalityType
    <2>6. Place(i) = Cardinality(P)
      BY DEF Place
    <2> HIDE DEF P, T
    <2> QED
      BY <2>3, <2>5, <2>6
  <1>9. ASSUME r.block.telemetry
        PROVE  /\ Cardinality(T') = Cardinality(T) + 1
               /\ \A k : k = n + 1 => Place(k)' = Cardinality(T) + 1
    <2>1. T' = T \cup {n + 1}
      BY <1>7, <1>9
    <2>2. Cardinality(T') = Cardinality(T) + 1
      <3> HIDE DEF T, n
      <3> QED
        BY <1>5, <1>6, <2>1, FS_AddElement
    <2>3. ASSUME NEW k, k = n + 1 PROVE Place(k)' = Cardinality(T')
      <3>1. 1..n \subseteq 1..k /\ k \in 1..k
        BY <1>1, <2>3
      <3>2. T' \cap 1..k = T'
        <4> HIDE DEF T, n
        <4> QED
          BY <1>5, <2>1, <2>3, <3>1
      <3> QED
        BY <3>2 DEF Place
    <2> QED
      BY <2>2, <2>3
  <1>10. \A i \in T : resolved'[i] = resolved[i]
    BY <1>2, <1>5
  <1> QED
    BY <1>1, <1>2, <1>5, <1>6, <1>7, <1>8, <1>9, <1>10

LEMMA FinishKeeps == ASSUME BlockExact, Finish PROVE BlockExact'
  <1> DEFINE n == Len(resolved)
             r == [block |-> block, accepted |-> outcome]
             T == Told
             h == block.horizon
             a == Accepted(outcome)
             m == Cardinality(T)
  <1>1. /\ at = Len(block.candidates) + 1 /\ block # NoBlock /\ resolved' = Append(resolved, r)
        /\ collector' = IF block.telemetry THEN Recorded(block, outcome) ELSE collector
        /\ block' = NoBlock /\ at' = 0 /\ outcome' = <<>>
    BY DEF Finish
  <1>2. block \in Blocks /\ outcome \in Seq(BOOLEAN) /\ Len(outcome) = h
        /\ h \in Nat /\ block.telemetry \in BOOLEAN
    <2>1. /\ block \in Blocks /\ Len(block.candidates) = h
          /\ outcome \in Seq(BOOLEAN) /\ Len(outcome) = at - 1
      BY <1>1 DEF BlockExact, Resolving
    <2>2. h \in Nat /\ block.telemetry \in BOOLEAN
      BY <2>1, BlockIs
    <2> QED
      BY <1>1, <2>1, <2>2
  <1>3. r \in Resolution /\ r.block = block /\ r.accepted = outcome
    BY <1>2 DEF Resolution
  <1>4. a \in Nat /\ a <= h
    BY <1>2, AcceptedIs
  <1>5. BlockTyped /\ BlocksCounted
    BY DEF BlockExact
  <1>6. /\ n \in Nat /\ T \subseteq 1..n /\ IsFiniteSet(T)
        /\ T' = IF block.telemetry THEN T \cup {n + 1} ELSE T
        /\ \A i \in T : resolved'[i] = resolved[i]
        /\ resolved'[n + 1] = r
        /\ \A i \in T : Place(i)' = Place(i) /\ Place(i) \in 1..m
        /\ block.telemetry => m' = m + 1
        /\ \A k : block.telemetry /\ k = n + 1 => Place(k)' = m + 1
        /\ n + 1 \notin T
    BY <1>1, <1>3, <1>5, ToldGrows
  <1>7. /\ collector \in [records : Seq(Count), accepted : Nat, rejected : Nat, events : Seq(Stamp)]
        /\ resolved \in Seq(Resolution)
    BY <1>5 DEF BlockTyped
  <1>8. resolved' \in Seq(Resolution)
    BY <1>1, <1>3, <1>7
  <1>9. Resolving'
    BY <1>1 DEF Resolving
  <1>10. m \in Nat
    BY <1>6, FS_CardinalityType
  <1>11. /\ Len(collector.records) = m
         /\ \A i \in T : /\ Len(resolved[i].accepted) = resolved[i].block.horizon
                         /\ collector.records[Place(i)] = [horizon |-> resolved[i].block.horizon,
                                                          accepted |-> Accepted(resolved[i].accepted)]
         /\ Len(collector.events) = IF m < EventRoom THEN m ELSE EventRoom
         /\ \A i \in DOMAIN collector.events :
              collector.events[i] = [sequence |-> i - 1, accepted |-> collector.records[i].accepted]
    BY <1>5 DEF BlocksCounted
  <1> DEFINE A == [i \in T |-> Accepted(resolved[i].accepted)]
             H == [i \in T |-> resolved[i].block.horizon]
  <1>12. collector.accepted = SumFunctionOnSet(A, T)
         /\ collector.accepted + collector.rejected = SumFunctionOnSet(H, T)
    BY <1>5 DEF BlocksCounted
  <1>13. CASE ~ block.telemetry
    <2>1. T' = T /\ collector' = collector
      BY <1>1, <1>6, <1>13
    <2>2. BlockTyped'
      BY <1>7, <1>8, <2>1 DEF BlockTyped
    <2>3. A' = A /\ H' = H
      BY <1>6, <2>1
    <2>4. SumFunctionOnSet(A', T') = SumFunctionOnSet(A, T)
          /\ SumFunctionOnSet(H', T') = SumFunctionOnSet(H, T)
      BY <2>1, <2>3
    <2>5. \A i \in T' : /\ Len(resolved'[i].accepted) = resolved'[i].block.horizon
                        /\ collector'.records[Place(i)'] =
                             [horizon |-> resolved'[i].block.horizon,
                              accepted |-> Accepted(resolved'[i].accepted)]
      BY <1>6, <1>11, <2>1
    <2>6. BlocksCounted'
      <3> HIDE DEF n, r, h, a
      <3> QED
        BY <1>11, <1>12, <2>1, <2>4, <2>5 DEF BlocksCounted
    <2> QED
      BY <1>9, <2>2, <2>6 DEF BlockExact
  <1>14. CASE block.telemetry
    <2> DEFINE old == collector.records
               events == collector.events
               mark == [sequence |-> Len(events), accepted |-> a]
    <2>1. /\ T' = T \cup {n + 1} /\ collector' = Recorded(block, outcome)
          /\ m' = m + 1 /\ \A k : k = n + 1 => Place(k)' = m + 1
      BY <1>1, <1>6, <1>14
    <2>2. /\ collector'.records = Append(old, [horizon |-> h, accepted |-> a])
          /\ collector'.accepted = collector.accepted + a
          /\ collector'.rejected = collector.rejected + h - a
          /\ collector'.events = IF Len(events) < EventRoom THEN Append(events, mark) ELSE events
          /\ collector' = [records |-> collector'.records, accepted |-> collector'.accepted,
                           rejected |-> collector'.rejected, events |-> collector'.events]
      BY <1>2, <2>1 DEF Recorded
    <2>3. old \in Seq(Count) /\ Len(old) = m /\ DOMAIN old = 1..m /\ events \in Seq(Stamp)
          /\ collector.accepted \in Nat /\ collector.rejected \in Nat /\ Len(events) \in Nat
      BY <1>7, <1>11
    <2>4. /\ collector'.records \in Seq(Count) /\ Len(collector'.records) = m + 1
          /\ \A k \in 1..m : collector'.records[k] = old[k]
          /\ collector'.records[m + 1] = [horizon |-> h, accepted |-> a]
      <3> DEFINE x == [horizon |-> h, accepted |-> a]
      <3>1. x \in Count
        BY <1>2, <1>4 DEF Count
      <3> HIDE DEF x, old, m
      <3>2. /\ Append(old, x) \in Seq(Count) /\ Len(Append(old, x)) = m + 1
            /\ \A k \in 1..m : Append(old, x)[k] = old[k]
            /\ Append(old, x)[m + 1] = x
        BY <1>10, <2>3, <3>1
      <3>3. collector'.records = Append(old, x)
        BY <2>2 DEF x
      <3> QED
        BY <3>2, <3>3 DEF x
    <2>5. /\ collector'.events \in Seq(Stamp)
          /\ Len(events) < EventRoom => /\ Len(collector'.events) = Len(events) + 1
                                        /\ \A k \in 1..Len(events) : collector'.events[k] = events[k]
                                        /\ collector'.events[Len(events) + 1] = mark
          /\ ~ (Len(events) < EventRoom) => collector'.events = events
      <3>1. mark \in Stamp
        BY <1>4, <2>3 DEF Stamp
      <3> HIDE DEF mark, events
      <3>2. /\ Append(events, mark) \in Seq(Stamp) /\ Len(Append(events, mark)) = Len(events) + 1
            /\ \A k \in 1..Len(events) : Append(events, mark)[k] = events[k]
            /\ Append(events, mark)[Len(events) + 1] = mark
        BY <2>3, <3>1
      <3> QED
        BY <2>2, <2>3, <3>2
    <2>6. BlockTyped'
      <3>1. collector'.accepted \in Nat /\ collector'.rejected \in Nat
        BY <1>2, <1>4, <2>2, <2>3
      <3> QED
        BY <1>8, <2>2, <2>4, <2>5, <3>1 DEF BlockTyped
    <2>7. \A i \in T' : /\ Len(resolved'[i].accepted) = resolved'[i].block.horizon
                        /\ collector'.records[Place(i)'] =
                             [horizon |-> resolved'[i].block.horizon,
                              accepted |-> Accepted(resolved'[i].accepted)]
      <3>1. ASSUME NEW i \in T
            PROVE  /\ Len(resolved'[i].accepted) = resolved'[i].block.horizon
                   /\ collector'.records[Place(i)'] =
                        [horizon |-> resolved'[i].block.horizon,
                         accepted |-> Accepted(resolved'[i].accepted)]
        <4>1. resolved'[i] = resolved[i] /\ Place(i)' = Place(i) /\ Place(i) \in 1..m
          BY <1>6
        <4>2. collector'.records[Place(i)'] = old[Place(i)]
          BY <2>4, <4>1
        <4> QED
          BY <1>11, <4>1, <4>2
      <3>2. ASSUME NEW i, i = n + 1
            PROVE  /\ Len(resolved'[i].accepted) = resolved'[i].block.horizon
                   /\ collector'.records[Place(i)'] =
                        [horizon |-> resolved'[i].block.horizon,
                         accepted |-> Accepted(resolved'[i].accepted)]
        <4>1. resolved'[i] = r /\ Place(i)' = m + 1
          BY <1>6, <2>1, <3>2
        <4> QED
          BY <1>2, <1>3, <2>4, <4>1
      <3> QED
        BY <2>1, <3>1, <3>2
    <2>8. /\ SumFunctionOnSet(A', T') = SumFunctionOnSet(A, T) + a
          /\ SumFunctionOnSet(H', T') = SumFunctionOnSet(H, T) + h
      <3> DEFINE z == n + 1
                 B == A'
                 K == H'
                 U == T'
      <3>1. ASSUME NEW i \in T PROVE B[i] = A[i] /\ K[i] = H[i] /\ A[i] \in Nat /\ H[i] \in Nat
        <4>1. resolved'[i] = resolved[i] /\ i \in T'
          BY <1>6, <2>1
        <4>2. resolved[i] \in Resolution
          BY <1>6, <1>7
        <4>3. resolved[i].block \in Blocks /\ resolved[i].accepted \in Seq(BOOLEAN)
          BY <4>2 DEF Resolution
        <4>4. Accepted(resolved[i].accepted) \in Nat /\ resolved[i].block.horizon \in Nat
          BY <4>3, AcceptedIs, BlockIs
        <4> QED
          BY <4>1, <4>4
      <3>2. B[z] = a /\ K[z] = h
        <4>1. z \in T' /\ resolved'[z] = r
          BY <1>6, <2>1
        <4> QED
          BY <1>3, <4>1
      <3>3. U = T \cup {z} /\ z \notin T
        BY <1>6, <2>1
      <3>4. Counts(B, T \cup {z}) /\ Counts(K, T \cup {z})
        <4>1. a \in Nat /\ h \in Nat
          BY <1>2, <1>4
        <4> HIDE DEF A, H, B, K, U, T, z, a, h
        <4> QED
          BY <3>1, <3>2, <4>1 DEF Counts
      <3> HIDE DEF A, H, B, K, U, T, z, a, h
      <3>5. SumFunctionOnSet(B, U) = SumFunctionOnSet(B, T) + B[z]
            /\ SumFunctionOnSet(K, U) = SumFunctionOnSet(K, T) + K[z]
        BY <1>6, <3>3, <3>4, SumAdd
      <3>6. SumFunctionOnSet(B, T) = SumFunctionOnSet(A, T)
            /\ SumFunctionOnSet(K, T) = SumFunctionOnSet(H, T)
        BY <1>6, <3>1, SumSame
      <3> QED
        BY <3>2, <3>5, <3>6 DEF B, K, U
    <2>9. /\ collector'.accepted = SumFunctionOnSet(A', T')
          /\ collector'.accepted + collector'.rejected = SumFunctionOnSet(H', T')
      <3> DEFINE x == SumFunctionOnSet(A, T)
                 y == SumFunctionOnSet(H, T)
                 p == collector.accepted
                 q == collector.rejected
      <3>1. p = x /\ p + q = y /\ p \in Nat /\ q \in Nat
        BY <1>12, <2>3
      <3>2. collector'.accepted = p + a /\ collector'.rejected = q + h - a
        BY <2>2
      <3>3. a \in Nat /\ h \in Nat
        BY <1>2, <1>4
      <3>4. SumFunctionOnSet(A', T') = x + a /\ SumFunctionOnSet(H', T') = y + h
        BY <2>8
      <3>5. p + a = x + a /\ (p + a) + (q + h - a) = y + h
        <4> HIDE DEF x, y, p, q, a, h
        <4> QED
          BY <3>1, <3>3
      <3> QED
        BY <3>2, <3>4, <3>5
    <2>10. /\ Len(collector'.events) = IF m' < EventRoom THEN m' ELSE EventRoom
           /\ \A i \in DOMAIN collector'.events :
                collector'.events[i] = [sequence |-> i - 1, accepted |-> collector'.records[i].accepted]
      <3> DEFINE e == Len(events)
                 later == collector'.events
      <3>1. EventRoom \in Nat /\ m' = m + 1 /\ m \in Nat /\ e = IF m < EventRoom THEN m ELSE EventRoom
        BY <1>10, <1>11, <2>1, ExecutionAssumption
      <3>2. CASE m < EventRoom
        <4>1. /\ e = m /\ Len(later) = m + 1 /\ DOMAIN later = 1..(m + 1)
              /\ \A k \in 1..m : later[k] = events[k]
              /\ later[m + 1] = mark
          BY <2>5, <3>1, <3>2
        <4>2. ASSUME NEW i \in 1..m
              PROVE  later[i] = [sequence |-> i - 1, accepted |-> collector'.records[i].accepted]
          <5>1. i \in DOMAIN events
            BY <2>3, <4>1
          <5> QED
            BY <1>11, <2>4, <4>1, <5>1
        <4>3. later[m + 1] = [sequence |-> (m + 1) - 1,
                             accepted |-> collector'.records[m + 1].accepted]
          <5>1. (m + 1) - 1 = m /\ Len(events) = m
            BY <3>1, <4>1
          <5>2. collector'.records[m + 1].accepted = a
            BY <2>4
          <5>3. mark = [sequence |-> m, accepted |-> a]
            BY <5>1
          <5> HIDE DEF mark, later, m, a, e
          <5>4. later[m + 1] = mark
            BY <4>1
          <5> QED
            BY <5>1, <5>2, <5>3, <5>4, Zenon
        <4>4. \A i \in 1..(m + 1) : i \in 1..m \/ i = m + 1
          BY <3>1
        <4>5. Len(later) = IF m' < EventRoom THEN m' ELSE EventRoom
          BY <3>1, <3>2, <4>1
        <4> QED
          BY <4>1, <4>2, <4>3, <4>4, <4>5
      <3>3. CASE ~ (m < EventRoom)
        <4>1. e = EventRoom /\ later = events
          BY <2>5, <3>1, <3>3
        <4>2. ASSUME NEW i \in DOMAIN events
              PROVE  later[i] = [sequence |-> i - 1, accepted |-> collector'.records[i].accepted]
          <5>1. i \in 1..m
            BY <2>3, <3>1, <3>3, <4>1
          <5> QED
            BY <1>11, <2>4, <4>1, <5>1
        <4>3. Len(later) = IF m' < EventRoom THEN m' ELSE EventRoom
          BY <3>1, <3>3, <4>1
        <4> QED
          BY <4>1, <4>2, <4>3
      <3> QED
        BY <3>2, <3>3
    <2>11. BlocksCounted'
      <3>1. Len(collector'.records) = m'
        BY <2>1, <2>4
      <3> HIDE DEF n, r, h, a
      <3> QED
        BY <2>7, <2>9, <2>10, <3>1 DEF BlocksCounted
    <2> QED
      BY <1>9, <2>6, <2>11 DEF BlockExact
  <1> QED
    BY <1>2, <1>13, <1>14

-----------------------------------------------------------------------------
(* Plans, and the engine                                                    *)

\* What validate says of a table is what a table has to be.
LEMMA TableMeans ==
    ASSUME NEW ops, Len(ops) \in Nat, DOMAIN ops = 1..Len(ops)
    PROVE  TableValid(ops) <=>
             /\ \A i \in DOMAIN ops : ops[i].index = i
             /\ \A i \in DOMAIN ops : ops[i].dependencies \subseteq DOMAIN ops
             /\ \A n \in DOMAIN ops : n \notin Closure(ops, ops[n].dependencies)
  <1>1. CASE \A i \in DOMAIN ops : ops[i].dependencies \subseteq DOMAIN ops
    <2>1. Dense(ops)
      BY <1>1 DEF Dense
    <2>2. Walk(ops).ok <=> ~ Cyclic(ops)
      BY <2>1, WalkMeans
    <2>3. Cyclic(ops) <=> \E n \in DOMAIN ops : n \in Closure(ops, ops[n].dependencies)
      BY DEF Cyclic
    <2> QED
      BY <1>1, <2>2, <2>3 DEF TableValid
  <1>2. CASE ~ \A i \in DOMAIN ops : ops[i].dependencies \subseteq DOMAIN ops
    BY <1>2 DEF TableValid
  <1> QED
    BY <1>1, <1>2

\* In a chain no operation depends on itself.
LEMMA ChainSound ==
    ASSUME NEW ops, NEW k \in Nat, Len(ops) = k, DOMAIN ops = 1..k,
           \A i \in 1..k : ops[i].index = i /\ ops[i].dependencies = IF i = 1 THEN {} ELSE {i - 1}
    PROVE  TableValid(ops)
  <1>1. \A i \in DOMAIN ops : ops[i].dependencies \subseteq DOMAIN ops
    <2> SUFFICES ASSUME NEW i \in 1..k PROVE ops[i].dependencies \subseteq 1..k
      OBVIOUS
    <2>1. CASE i = 1
      BY <2>1
    <2>2. CASE i # 1
      <3>1. i - 1 \in 1..k
        BY <2>2
      <3>2. ops[i].dependencies = {i - 1}
        BY <2>2, Zenon
      <3> QED
        BY <3>1, <3>2
    <2> QED
      BY <2>1, <2>2
  <1>2. Dense(ops)
    BY <1>1 DEF Dense
  <1>3. ASSUME NEW n \in DOMAIN ops PROVE n \notin Closure(ops, ops[n].dependencies)
    <2> DEFINE T == 1..(n - 1)
    <2>0. n \in 1..k /\ T \subseteq 1..k
      OBVIOUS
    <2>1. \A m \in 1..n : ops[m].dependencies \subseteq T
      <3> SUFFICES ASSUME NEW m \in 1..n PROVE ops[m].dependencies \subseteq T
        OBVIOUS
      <3>1. m \in 1..k
        BY <2>0
      <3>2. CASE m = 1
        BY <3>1, <3>2
      <3>3. CASE m # 1
        <4>1. m - 1 \in T
          BY <2>0, <3>1, <3>3
        <4>2. ops[m].dependencies = {m - 1}
          BY <3>1, <3>3, Zenon
        <4> QED
          BY <4>1, <4>2
      <3> QED
        BY <3>2, <3>3
    <2>a. n \in 1..n /\ \A m \in T : m \in 1..n
      BY <2>0
    <2>b. T \in SUBSET DOMAIN ops /\ ops[n].dependencies \subseteq T
          /\ \A m \in T : ops[m].dependencies \subseteq T
      BY <2>0, <2>1, <2>a
    <2>2. Closure(ops, ops[n].dependencies) \subseteq T
      <3> HIDE DEF T
      <3> QED
        BY <1>1, <1>2, <2>b, ClosureIs
    <2>3. n \notin T
      OBVIOUS
    <2> QED
      BY <2>2, <2>3
  <1> QED
    BY <1>1, <1>3, TableMeans

VramCharges == [i \in DOMAIN model |-> IF model[i].hot THEN model[i].bytes ELSE 0]
PlacedIds(p) == [i \in DOMAIN p.placements |-> p.placements[i].id]

\* The plan of a model: a chain of its tensors that charges those in VRAM.
LEMMA CompiledIs ==
    ASSUME model \in Rows(Tensor, MaxTensors)
    PROVE  /\ Len(model) \in Nat /\ DOMAIN model = 1..Len(model)
           /\ TableValid(CompileModel(model).operations)
           /\ Len(CompileModel(model).operations) = Len(model)
           /\ DOMAIN CompileModel(model).operations = DOMAIN model
           /\ \A i \in DOMAIN model : CompileModel(model).operations[i].kernel # "Unknown"
           /\ PlacedIds(CompileModel(model)) = [i \in DOMAIN model |-> model[i].name]
           /\ CompileModel(model).assigned = Total(VramCharges)
           /\ Total(VramCharges) \in Nat
  <1>1. MaxTensors \in Nat /\ TensorBytes \subseteq Nat
    BY ExecutionAssumption
  <1>2. PICK k \in 0..MaxTensors : model \in [1..k -> Tensor]
    BY DEF Rows
  <1>3. k \in Nat /\ DOMAIN model = 1..k
    BY <1>1, <1>2
  <1>4. Len(model) = k
    <2>1. model \in Seq(Tensor)
      BY <1>2, <1>3
    <2> QED
      BY <1>3, <2>1
  <1> DEFINE ops == CompileModel(model).operations
  <1>5. ops = [i \in 1..k |-> [index |-> i, kernel |-> model[i].kernel, tier |-> Tier(model[i]),
                               dependencies |-> IF i = 1 THEN {} ELSE {i - 1}]]
    BY <1>3 DEF CompileModel
  <1>6. CompileModel(model).assigned = Total(VramCharges)
    BY DEF CompileModel, VramCharges
  <1>7. PlacedIds(CompileModel(model)) = [i \in DOMAIN model |-> model[i].name]
    BY DEF CompileModel, PlacedIds
  <1> HIDE DEF ops
  <1>8. DOMAIN ops = 1..k
        /\ \A i \in 1..k : ops[i].index = i /\ ops[i].dependencies = IF i = 1 THEN {} ELSE {i - 1}
    BY <1>5
  <1>9. \A i \in 1..k : ops[i].kernel # "Unknown"
    <2> SUFFICES ASSUME NEW i \in 1..k PROVE ops[i].kernel # "Unknown"
      OBVIOUS
    <2>1. model[i] \in Tensor
      BY <1>2
    <2>2. model[i].kernel \in {"dense", "quantized"}
      BY <2>1 DEF Tensor
    <2>3. ops[i].kernel = model[i].kernel
      BY <1>5
    <2> QED
      BY <2>2, <2>3
  <1>10. Len(ops) = k
    <2> DEFINE R == {ops[i] : i \in 1..k}
    <2>1. ops \in [1..k -> R]
      BY <1>5, <1>8
    <2>2. ops \in Seq(R)
      <3> HIDE DEF R
      <3> QED
        BY <1>3, <2>1
    <2> HIDE DEF R
    <2> QED
      BY <1>3, <1>8, <2>2
  <1>11. TableValid(ops)
    BY <1>3, <1>8, <1>10, ChainSound
  <1>12. Total(VramCharges) \in Nat
    <2>1. DOMAIN VramCharges = 1..k /\ IsFiniteSet(1..k)
      BY <1>3, FS_Interval DEF VramCharges
    <2>2. ASSUME NEW i \in 1..k PROVE VramCharges[i] \in Nat
      <3>1. model[i] \in Tensor
        BY <1>2
      <3>2. model[i].bytes \in Nat
        BY <1>1, <3>1 DEF Tensor
      <3> QED
        BY <1>3, <3>2 DEF VramCharges
    <2>3. Counts(VramCharges, 1..k)
      BY <2>2 DEF Counts
    <2> QED
      BY <2>1, <2>3, SumType DEF Total
  <1> QED
    BY <1>3, <1>4, <1>6, <1>7, <1>8, <1>9, <1>10, <1>11, <1>12 DEF ops

\* A table read back has as many rows as its length says.
LEMMA TableIs ==
    ASSUME NEW t \in Tables
    PROVE  Len(t) \in Nat /\ DOMAIN t = 1..Len(t)
  <1> DEFINE R == [index : 1..2, kernel : {"dense", "Unknown"}, tier : {"RamMapped"},
                   dependencies : SUBSET (1..2)]
             Q == [index : 1..3, kernel : {"dense"}, tier : {"RamMapped"},
                   dependencies : SUBSET (1..4)]
  <1>1. t \in Rows(R, 2) \/ t \in [1..3 -> Q]
    BY DEF Tables
  <1> HIDE DEF R, Q
  <1>2. CASE t \in Rows(R, 2)
    <2>1. PICK k \in 0..2 : t \in [1..k -> R]
      BY <1>2 DEF Rows
    <2>2. t \in Seq(R)
      BY <2>1
    <2> QED
      BY <2>2
  <1>3. CASE t \in [1..3 -> Q]
    <2>1. PICK k \in Nat : t \in [1..k -> Q]
      BY <1>3
    <2>2. t \in Seq(Q)
      BY <2>1
    <2> QED
      BY <2>2
  <1> QED
    BY <1>1, <1>2, <1>3

LEMMA PlanInit == EInit => PlanSound
  <1> SUFFICES ASSUME EInit PROVE PlanSound
    OBVIOUS
  <1> DEFINE ops == plan.operations
             c == CompileModel(model)
             distinct == \A i, j \in DOMAIN model : model[i].name = model[j].name => i = j
             vram == Total([i \in DOMAIN model |-> IF model[i].hot THEN model[i].bytes ELSE 0])
  <1>1. model \in Rows(Tensor, MaxTensors)
        /\ plan \in {c, ImportModel(model)}
                      \cup (IF model = <<>> THEN {[NoPlan EXCEPT !.operations = t] : t \in Tables} ELSE {})
    BY DEF EInit
  <1>2. ImportModel(model).operations = c.operations /\ ImportModel(model).placements = c.placements
        /\ ImportModel(model).assigned = 0
    BY DEF ImportModel, CompileModel
  <1>3. Len(ops) \in Nat /\ DOMAIN ops = 1..Len(ops)
    <2>1. CASE plan \in {c, ImportModel(model)}
      <3>1. ops = c.operations
        BY <1>2, <2>1
      <3> QED
        BY <1>1, <3>1, CompiledIs
    <2>2. CASE plan \in {[NoPlan EXCEPT !.operations = t] : t \in Tables}
      <3>1. PICK t \in Tables : plan = [NoPlan EXCEPT !.operations = t]
        BY <2>2
      <3>2. ops = t
        BY <3>1 DEF NoPlan
      <3> QED
        BY <3>2, TableIs
    <2> HIDE DEF ops, c
    <2> QED
      BY <1>1, <2>1, <2>2
  <1>4. TableValid(ops) <=>
          /\ \A i \in DOMAIN ops : ops[i].index = i
          /\ \A i \in DOMAIN ops : ops[i].dependencies \subseteq DOMAIN ops
          /\ \A n \in DOMAIN ops : n \notin Closure(ops, ops[n].dependencies)
    <2> HIDE DEF ops
    <2> QED
      BY <1>3, TableMeans
  <1>5. ASSUME model # <<>>
        PROVE  PlanValid(plan) <=> (distinct /\ ((plan = c /\ plan.assigned > 0) => vram <= VramBytes))
    <2>1. plan = c \/ plan = ImportModel(model)
      BY <1>1, <1>5
    <2>2. ops = c.operations /\ PlacedIds(plan) = PlacedIds(c)
      BY <1>2, <2>1 DEF PlacedIds
    <2>3. TableValid(ops) /\ \A i \in DOMAIN ops : ops[i].kernel # "Unknown"
      BY <1>1, <2>2, CompiledIs
    <2>4. IsInjective(PlacedIds(plan)) <=> distinct
      <3>1. PlacedIds(plan) = [i \in DOMAIN model |-> model[i].name]
        BY <1>1, <2>2, CompiledIs
      <3>2. IsInjective(PlacedIds(plan)) <=>
              \A i, j \in DOMAIN model : PlacedIds(plan)[i] = PlacedIds(plan)[j] => i = j
        BY <3>1 DEF IsInjective
      <3>3. \A i \in DOMAIN model : PlacedIds(plan)[i] = model[i].name
        BY <3>1
      <3> QED
        BY <3>2, <3>3
    <2>5. PlanValid(plan) <=> (distinct /\ plan.assigned <= VramBytes)
      BY <2>3, <2>4 DEF PlanValid, PlacedIds
    <2>6. vram \in Nat /\ c.assigned = vram /\ VramBytes \in Nat
      BY <1>1, CompiledIs, ExecutionAssumption DEF VramCharges
    <2> HIDE DEF c, vram, distinct
    <2>7. CASE plan = c
      <3>1. plan.assigned = vram
        BY <2>6, <2>7
      <3>2. plan.assigned <= VramBytes <=> (plan.assigned > 0 => vram <= VramBytes)
        BY <2>6, <3>1
      <3> QED
        BY <2>5, <2>7, <3>2
    <2>8. CASE plan = ImportModel(model)
      <3>1. plan.assigned = 0
        BY <1>2, <2>8
      <3>2. plan.assigned <= VramBytes /\ ~ (plan.assigned > 0)
        BY <2>6, <3>1
      <3> QED
        BY <2>5, <3>2
    <2> QED
      BY <2>1, <2>7, <2>8
  <1> QED
    BY <1>4, <1>5 DEF PlanSound

LEMMA BlockSteps ==
    ASSUME BlockExact, ENext \/ UNCHANGED evars
    PROVE  BlockExact'
  <1>1. ASSUME NEW b \in Blocks, Resolve(b) PROVE BlockExact'
    BY <1>1, ResolveKeeps
  <1>2. ASSUME NEW v, Dispatch(v) PROVE BlockExact'
    BY <1>2, DispatchKeeps
  <1>3. CASE Finish
    BY <1>3, FinishKeeps
  <1>4. CASE UNCHANGED evars
    <2>1. BlockTyped' /\ Resolving'
      BY <1>4 DEF evars, BlockExact, BlockTyped, Resolving
    <2>2. UNCHANGED <<resolved, collector>> /\ BlocksCounted
      BY <1>4 DEF evars, BlockExact
    <2>3. BlocksCounted'
      BY <2>2, CountedStays
    <2> QED
      BY <2>1, <2>3 DEF BlockExact
  <1>5. (\E b \in Blocks : Resolve(b)) \/ (\E v : Dispatch(v)) \/ Finish \/ UNCHANGED evars
    BY DEF ENext
  <1> QED
    BY <1>1, <1>2, <1>3, <1>4, <1>5

\* EngineSound: validation of a table agrees with its meaning, a plan of a model is accepted
\* exactly when its names differ and what it charges to the VRAM budget fits, and the
\* telemetry follows the blocks resolved (resolve_speculative_block, OperationTable::validate).
THEOREM EnginesStaySound == MCSpec => []EngineSound
  <1> DEFINE Inv == /\ part = "plan" => PlanSound
                    /\ part = "block" => BlockExact
  <1>1. MCInit => Inv
    BY PlanInit, BlockInit DEF MCInit
  <1>2. Inv /\ [MCNext]_mvars => Inv'
    <2> SUFFICES ASSUME Inv, [MCNext]_mvars PROVE Inv'
      OBVIOUS
    <2>1. part' = part
      BY DEF MCNext, mvars
    <2>2. CASE part = "plan"
      <3>1. UNCHANGED <<model, plan>>
        BY <2>2 DEF MCNext, mvars, evars, CodecNext
      <3>2. PlanSound'
        BY <2>2, <3>1 DEF PlanSound
      <3> QED
        BY <2>1, <2>2, <3>2
    <2>3. CASE part = "block"
      <3>1. BlockExact /\ (ENext \/ UNCHANGED evars)
        BY <2>3 DEF MCNext, mvars, CodecNext
      <3>7. BlockExact'
        BY <3>1, BlockSteps
      <3> QED
        BY <2>1, <2>3, <3>7
    <2> QED
      BY <2>1, <2>2, <2>3
  <1>3. Inv => EngineSound
    BY DEF EngineSound, BlockExact
  <1> QED
    BY <1>1, <1>2, <1>3, PTL DEF MCSpec

-----------------------------------------------------------------------------
(* Slices and packages                                                      *)

Version == 1..Len(Spans)
SliceManifest == [root : Version, pin : Pins, sum : STRING]
SliceWritten == [manifest : SliceManifest, payload : STRING]

\* An extraction writes the rows it took the checksum of.
Extracting ==
    \/ extract = Idle
    \/ extract \in [at : {"inspected"}, root : Version, pin : Pins]
    \/ /\ extract \in [at : {"write"}, parts : 0..4, manifest : SliceManifest, payload : STRING]
       /\ extract.payload = extract.manifest.sum

\* A slice that is all there is one that was written to its end.
SliceExact ==
    \/ slice = NoFile
    \/ /\ slice \in [manifest : SliceManifest, payload : STRING, parts : 0..4]
       /\ slice.parts = 4 => \E w \in Range(written) : w.payload = slice.payload

\* A reader has a manifest once it has read the header.
Reading(reader, steps) ==
    \/ reader = Idle
    \/ reader = [at |-> "sized"]
    \/ reader \in [at : {"header", "manifest", "open"} \cup steps, manifest : SliceManifest, payload : STRING]

OpenSound(reader) ==
    reader.at = "open" => /\ reader.payload = reader.manifest.sum
                       /\ \E w \in Range(written) : w.payload = reader.payload

VerifyExact ==
    /\ Reading(verify, {"read", "inspected", "pass"}) /\ OpenSound(verify)
    /\ verify.at \in {"inspected", "pass"} => source >= verify.manifest.root
    /\ verify.at = "pass" /\ source = verify.manifest.root => verify.payload = Spans[source]

\* While the model file is the slice's, what was checked is what is written.
RebuildExact ==
    /\ Reading(rebuild, {"inspected", "checked", "write", "built"}) /\ OpenSound(rebuild)
    /\ rebuild.at \in {"inspected", "checked", "write", "built"} => source >= rebuild.manifest.root
    /\ rebuild.at = "checked" /\ source = rebuild.manifest.root => Spans[source] = rebuild.manifest.sum
    /\ rebuild.at \in {"write", "built"} /\ source = rebuild.manifest.root =>
         package.payload = rebuild.manifest.sum
    /\ rebuild.at \in {"write", "built"} =>
         package \in [manifest : SliceManifest, payload : STRING, parts : 0..4]
    /\ rebuild.at = "built" =>
         package.parts = 4 /\ rebuild.manifest.pin \in {Unpinned, package.payload}

ContainersExact ==
    /\ source \in Version /\ written \in Seq(SliceWritten)
    /\ Extracting /\ SliceExact /\ VerifyExact /\ RebuildExact

LEMMA WrittenGrows ==
    ASSUME written \in Seq(SliceWritten), NEW x
    PROVE  Range(written) \subseteq Range(Append(written, x)) /\ x \in Range(Append(written, x))
  <1> DEFINE t == Append(written, x)
             n == Len(written)
  <1>1. n \in Nat /\ DOMAIN written = 1..n
    OBVIOUS
  <1>2. DOMAIN t = 1..(n + 1) /\ t[n + 1] = x /\ \A i \in 1..n : t[i] = written[i]
    OBVIOUS
  <1> HIDE DEF t, n
  <1>3. n + 1 \in DOMAIN t /\ \A i \in 1..n : i \in DOMAIN t
    BY <1>1, <1>2
  <1>4. x \in Range(t)
    BY <1>2, <1>3 DEF Range
  <1>5. ASSUME NEW w \in Range(written) PROVE w \in Range(t)
    <2>1. PICK i \in 1..n : w = written[i]
      BY <1>1 DEF Range
    <2> QED
      BY <1>2, <1>3, <2>1 DEF Range
  <1> QED
    BY <1>4, <1>5 DEF t

LEMMA SpansAre ==
    /\ Len(Spans) \in Nat /\ 1 \in Version
    /\ \A v \in Version : Spans[v] \in STRING
  <1>1. Spans \in Seq(STRING) /\ Spans # <<>>
    BY ContainerAssumption
  <1>2. Len(Spans) \in Nat /\ Len(Spans) # 0
    BY <1>1
  <1>3. \A v \in Version : Spans[v] \in STRING
    BY <1>1 DEF Version
  <1> QED
    BY <1>2, <1>3 DEF Version

\* What opens has the payload of its checksum, and a slice that was all there.
LEMMA OpenKeeps ==
    ASSUME SliceExact, NEW steps, NEW reader, Reading(reader, steps), Opening(reader)
    PROVE  /\ Reading(OpenStep(reader), steps) /\ OpenSound(OpenStep(reader))
           /\ OpenStep(reader).at \in {"idle", "sized", "header", "manifest", "open"}
  <1> DEFINE next == OpenStep(reader)
             J == [at : {"header", "manifest", "open"} \cup steps, manifest : SliceManifest, payload : STRING]
  <1>1. Idle.at = "idle" /\ Reading(Idle, steps) /\ OpenSound(Idle)
    BY DEF Idle, Reading, OpenSound
  <1>2. reader.at \in {"idle", "sized", "header", "manifest"}
    BY DEF Opening
  <1>3. CASE next = Idle
    BY <1>1, <1>3
  <1>4. CASE reader.at = "idle" /\ next # Idle
    <2>1. next = [at |-> "sized"]
      BY <1>4 DEF OpenStep
    <2> HIDE DEF next
    <2> QED
      BY <2>1 DEF Reading, OpenSound, next
  <1>5. CASE reader.at = "sized" /\ next # Idle
    <2>1. slice.parts >= 1 /\ next = [at |-> "header", manifest |-> slice.manifest, payload |-> slice.payload]
      BY <1>5 DEF OpenStep
    <2>2. slice.manifest \in SliceManifest /\ slice.payload \in STRING
      BY <2>1 DEF SliceExact, NoFile
    <2> HIDE DEF next
    <2>3. next \in J /\ next.at = "header"
      BY <2>1, <2>2
    <2> QED
      BY <2>3 DEF Reading, OpenSound, next
  <1>6. ASSUME reader.at \in {"header", "manifest"} PROVE reader \in J
    BY <1>6 DEF Reading, Idle
  <1>7. CASE reader.at = "header" /\ next # Idle
    <2>1. next = [reader EXCEPT !.at = "manifest"]
      BY <1>7 DEF OpenStep
    <2> HIDE DEF next
    <2>2. next \in J /\ next.at = "manifest"
      BY <1>6, <1>7, <2>1
    <2> QED
      BY <2>2 DEF Reading, OpenSound, next
  <1>8. CASE reader.at = "manifest" /\ next # Idle
    <2>1. slice.parts = 4 /\ slice.payload = reader.payload /\ slice.payload = reader.manifest.sum
          /\ next = [reader EXCEPT !.at = "open"]
      BY <1>8 DEF OpenStep
    <2> HIDE DEF next
    <2>2. next \in J /\ next.at = "open" /\ next.payload = reader.payload /\ next.manifest = reader.manifest
      BY <1>6, <1>8, <2>1
    <2>3. \E w \in Range(written) : w.payload = slice.payload
      BY <2>1 DEF SliceExact, NoFile
    <2>4. OpenSound(next)
      BY <2>1, <2>2, <2>3 DEF OpenSound
    <2> QED
      BY <2>2, <2>4 DEF Reading, next
  <1> QED
    BY <1>2, <1>3, <1>4, <1>5, <1>7, <1>8

LEMMA ContainersInit == CInit => ContainersExact
  <1> SUFFICES ASSUME CInit PROVE ContainersExact
    OBVIOUS
  <1>1. source \in Version /\ written \in Seq(SliceWritten)
    BY SpansAre DEF CInit
  <1>2. Extracting /\ SliceExact
    BY DEF CInit, Extracting, SliceExact
  <1>3. VerifyExact /\ RebuildExact
    BY DEF CInit, VerifyExact, RebuildExact, Reading, OpenSound, Idle
  <1> QED
    BY <1>1, <1>2, <1>3 DEF ContainersExact

\* A newer model file leaves what was concluded about the older ones.
LEMMA ReplaceKeeps == ASSUME ContainersExact, ReplaceSource PROVE ContainersExact'
  <1>1. source' = source + 1 /\ source < Len(Spans) /\ source \in Version
        /\ UNCHANGED <<slice, package, extract, verify, rebuild, written>>
    BY DEF ReplaceSource, ContainersExact
  <1>2. source' \in Version /\ \A r \in Version : source >= r => source' >= r /\ source' # r
    BY <1>1, SpansAre DEF Version
  <1>3. ASSUME NEW reader, NEW steps, Reading(reader, steps),
               reader.at \notin {"idle", "sized"}
        PROVE  reader.manifest.root \in Version
    BY <1>3 DEF Reading, Idle, SliceManifest
  <1>4. VerifyExact'
    <2>1. VerifyExact
      BY DEF ContainersExact
    <2>2. (Reading(verify, {"read", "inspected", "pass"}) /\ OpenSound(verify))'
      BY <1>1, <2>1 DEF VerifyExact, Reading, OpenSound
    <2>3. verify.at \in {"inspected", "pass"} => source' >= verify.manifest.root
                                               /\ source' # verify.manifest.root
      BY <1>2, <1>3, <2>1 DEF VerifyExact
    <2> QED
      BY <1>1, <2>2, <2>3 DEF VerifyExact
  <1>5. RebuildExact'
    <2>1. RebuildExact
      BY DEF ContainersExact
    <2>2. (Reading(rebuild, {"inspected", "checked", "write", "built"}) /\ OpenSound(rebuild))'
      BY <1>1, <2>1 DEF RebuildExact, Reading, OpenSound
    <2>3. rebuild.at \in {"inspected", "checked", "write", "built"} =>
            source' >= rebuild.manifest.root /\ source' # rebuild.manifest.root
      BY <1>2, <1>3, <2>1 DEF RebuildExact
    <2> QED
      BY <1>1, <2>1, <2>2, <2>3 DEF RebuildExact
  <1>6. Extracting' /\ SliceExact' /\ written' \in Seq(SliceWritten)
    BY <1>1 DEF ContainersExact, Extracting, SliceExact
  <1> QED
    BY <1>2, <1>4, <1>5, <1>6 DEF ContainersExact

\* What the readers know is not changed by an extraction, which only adds to what is written.
LEMMA ReadersKeep ==
    ASSUME VerifyExact, RebuildExact, UNCHANGED <<source, package, verify, rebuild>>,
           Range(written) \subseteq Range(written')
    PROVE  VerifyExact' /\ RebuildExact'
  <1>1. OpenSound(verify)' /\ OpenSound(rebuild)'
    BY DEF VerifyExact, RebuildExact, OpenSound
  <1>2. VerifyExact'
    BY <1>1 DEF VerifyExact, Reading
  <1>3. RebuildExact'
    BY <1>1 DEF RebuildExact, Reading
  <1> QED
    BY <1>2, <1>3

LEMMA ExtractKeeps ==
    ASSUME ContainersExact, Inspect \/ ReadRows \/ WritePart \/ StopWriter
    PROVE  ContainersExact'
  <1>1. source \in Version /\ written \in Seq(SliceWritten) /\ Extracting /\ SliceExact
        /\ VerifyExact /\ RebuildExact /\ UNCHANGED <<source, package, verify, rebuild>>
    BY DEF ContainersExact, Inspect, ReadRows, WritePart, StopWriter
  <1>2. CASE Inspect
    <2>1. PICK pin \in Pins : extract' = [at |-> "inspected", root |-> source, pin |-> pin]
      BY <1>2 DEF Inspect
    <2>2. Extracting'
      BY <1>1, <2>1 DEF Extracting
    <2>3. UNCHANGED <<slice, written>>
      BY <1>2 DEF Inspect
    <2>4. VerifyExact' /\ RebuildExact'
      BY <1>1, <2>3, ReadersKeep
    <2> QED
      BY <1>1, <2>2, <2>3, <2>4 DEF ContainersExact, SliceExact
  <1>3. CASE ReadRows
    <2>1. extract \in [at : {"inspected"}, root : Version, pin : Pins]
      BY <1>1, <1>3 DEF ReadRows, Extracting, Idle
    <2>2. Spans[source] \in STRING
      BY <1>1, SpansAre
    <2> DEFINE m == [root |-> extract.root, pin |-> extract.pin, sum |-> Spans[source]]
    <2>3. extract' = [at |-> "write", parts |-> 0, manifest |-> m, payload |-> Spans[source]]
          /\ UNCHANGED <<slice, written>>
      BY <1>3 DEF ReadRows
    <2>4. m \in SliceManifest /\ m.sum = Spans[source]
      BY <2>1, <2>2 DEF SliceManifest
    <2> HIDE DEF m
    <2>5. Extracting'
      BY <2>2, <2>3, <2>4 DEF Extracting
    <2>6. VerifyExact' /\ RebuildExact'
      BY <1>1, <2>3, ReadersKeep
    <2> QED
      BY <1>1, <2>3, <2>5, <2>6 DEF ContainersExact, SliceExact
  <1>4. CASE WritePart
    <2>1. extract \in [at : {"write"}, parts : 0..4, manifest : SliceManifest, payload : STRING]
          /\ extract.payload = extract.manifest.sum
      BY <1>1, <1>4 DEF WritePart, Extracting, Idle
    <2> DEFINE w == [manifest |-> extract.manifest, payload |-> extract.payload]
    <2>2. w \in SliceWritten /\ w.payload = extract.payload
      BY <2>1 DEF SliceWritten
    <2>3. slice' = [manifest |-> extract.manifest, payload |-> extract.payload, parts |-> extract.parts]
          /\ IF extract.parts = 4 THEN written' = Append(written, w) /\ extract' = Idle
             ELSE extract' = [extract EXCEPT !.parts = @ + 1] /\ written' = written
      BY <1>4 DEF WritePart
    <2> HIDE DEF w
    <2>4. written' \in Seq(SliceWritten) /\ Range(written) \subseteq Range(written')
          /\ (extract.parts = 4 => w \in Range(written'))
      <3>1. CASE extract.parts = 4
        <4>1. written' = Append(written, w)
          BY <2>3, <3>1
        <4>2. Append(written, w) \in Seq(SliceWritten)
          BY <1>1, <2>2
        <4> QED
          BY <1>1, <4>1, <4>2, WrittenGrows
      <3>2. CASE extract.parts # 4
        BY <1>1, <2>3, <3>2
      <3> QED
        BY <3>1, <3>2
    <2>5. SliceExact'
      BY <2>1, <2>2, <2>3, <2>4 DEF SliceExact
    <2>6. Extracting'
      <3>1. CASE extract.parts = 4
        BY <2>3, <3>1 DEF Extracting
      <3>2. CASE extract.parts # 4
        <4>1. extract.parts + 1 \in 0..4
          BY <2>1, <3>2
        <4>2. extract' = [extract EXCEPT !.parts = @ + 1]
          BY <2>3, <3>2
        <4> QED
          BY <2>1, <4>1, <4>2 DEF Extracting
      <3> QED
        BY <3>1, <3>2
    <2>7. VerifyExact' /\ RebuildExact'
      BY <1>1, <2>4, ReadersKeep
    <2> QED
      BY <1>1, <2>4, <2>5, <2>6, <2>7 DEF ContainersExact
  <1>5. CASE StopWriter
    <2>1. extract' = Idle /\ UNCHANGED <<slice, written>>
      BY <1>5 DEF StopWriter
    <2>2. VerifyExact' /\ RebuildExact'
      BY <1>1, <2>1, ReadersKeep
    <2> QED
      BY <1>1, <2>1, <2>2 DEF ContainersExact, SliceExact, Extracting
  <1> QED
    BY <1>2, <1>3, <1>4, <1>5

LEMMA VerifyKeeps == ASSUME ContainersExact, VerifyStep PROVE ContainersExact'
  <1> DEFINE steps == {"read", "inspected", "pass"}
             J == [at : {"header", "manifest", "open"} \cup steps, manifest : SliceManifest, payload : STRING]
  <1>1. source \in Version /\ SliceExact /\ VerifyExact /\ Reading(verify, steps)
        /\ UNCHANGED <<source, slice, package, extract, rebuild, written>>
    BY DEF ContainersExact, VerifyExact, VerifyStep
  <1>5. SUFFICES VerifyExact'
    BY <1>1 DEF ContainersExact, Extracting, SliceExact, RebuildExact, Reading, OpenSound
  <1>2. ASSUME verify' = Idle PROVE VerifyExact'
    BY <1>2 DEF VerifyExact, Reading, OpenSound, Idle
  <1>a. ASSUME verify' \in J, verify'.at \in steps,
               verify'.at \in {"inspected", "pass"} => source' >= verify'.manifest.root,
               verify'.at = "pass" /\ source' = verify'.manifest.root => verify'.payload = Spans[source']
        PROVE  VerifyExact'
    <2>1. Reading(verify, steps)'
      BY <1>a DEF Reading
    <2>2. OpenSound(verify)'
      BY <1>a DEF OpenSound
    <2> QED
      BY <1>a, <2>1, <2>2 DEF VerifyExact
  <1>3. CASE Opening(verify)
    <2>1. verify' = OpenStep(verify)
      BY <1>3 DEF VerifyStep, Opening
    <2>2. /\ Reading(OpenStep(verify), steps) /\ OpenSound(OpenStep(verify))
          /\ OpenStep(verify).at \in {"idle", "sized", "header", "manifest", "open"}
      <3> HIDE DEF steps
      <3> QED
        BY <1>1, <1>3, OpenKeeps
    <2> DEFINE next == OpenStep(verify)
    <2> HIDE DEF next
    <2>3. Reading(next, steps) /\ OpenSound(next) /\ verify' = next
          /\ next.at \in {"idle", "sized", "header", "manifest", "open"}
      BY <2>1, <2>2 DEF next
    <2>4. Reading(verify, steps)' /\ OpenSound(verify)'
      BY <1>1, <2>3 DEF Reading, OpenSound
    <2> QED
      BY <2>3, <2>4 DEF VerifyExact
  <1>4. CASE ~ Opening(verify)
    <2>1. verify \in J /\ verify.at \in {"open"} \cup steps
      BY <1>1, <1>4 DEF Reading, Opening, Idle
    <2>2. verify.manifest \in SliceManifest /\ verify.manifest.root \in Version
      BY <2>1 DEF SliceManifest
    <2>3. CASE verify.at = "open" /\ verify' # Idle
      <3>1. slice.parts = 4 /\ verify' = [at |-> "read", manifest |-> verify.manifest, payload |-> slice.payload]
        BY <1>4, <2>3 DEF VerifyStep
      <3>2. slice.payload \in STRING
        BY <1>1, <3>1 DEF SliceExact, NoFile
      <3>3. verify' \in J /\ verify'.at = "read"
        BY <2>2, <3>1, <3>2
      <3> QED
        BY <3>3, <1>a
    <2>4. CASE verify.at = "read" /\ verify' # Idle
      <3>1. source = verify.manifest.root /\ verify' = [verify EXCEPT !.at = "inspected"]
        BY <1>4, <2>4 DEF VerifyStep
      <3>2. verify' \in J /\ verify'.at = "inspected" /\ verify'.manifest = verify.manifest
        BY <2>1, <3>1
      <3>3. source' >= verify'.manifest.root
        BY <1>1, <3>1, <3>2 DEF Version
      <3> QED
        BY <3>2, <3>3, <1>a
    <2>5. CASE verify.at = "inspected" /\ verify' # Idle
      <3>1. Spans[source] = verify.payload /\ verify' = [verify EXCEPT !.at = "pass"]
        BY <1>4, <2>5 DEF VerifyStep
      <3>2. verify' \in J /\ verify'.at = "pass" /\ verify'.manifest = verify.manifest
            /\ verify'.payload = verify.payload
        BY <2>1, <3>1
      <3>3. source' >= verify'.manifest.root /\ verify'.payload = Spans[source']
        BY <1>1, <2>5, <3>1, <3>2 DEF VerifyExact
      <3> QED
        BY <3>2, <3>3, <1>a
    <2>6. CASE verify.at = "pass"
      <3>1. verify' = Idle
        BY <1>4, <2>6 DEF VerifyStep
      <3> QED
        BY <1>2, <3>1
    <2> QED
      BY <1>2, <2>1, <2>3, <2>4, <2>5, <2>6
  <1> QED
    BY <1>3, <1>4

LEMMA RebuildKeeps == ASSUME ContainersExact, RebuildStep PROVE ContainersExact'
  <1> DEFINE steps == {"inspected", "checked", "write", "built"}
             J == [at : {"header", "manifest", "open"} \cup steps, manifest : SliceManifest, payload : STRING]
             Q == [manifest : SliceManifest, payload : STRING, parts : 0..4]
  <1>1. source \in Version /\ SliceExact /\ RebuildExact /\ Reading(rebuild, steps)
        /\ UNCHANGED <<source, slice, extract, verify, written>>
    BY DEF ContainersExact, RebuildExact, RebuildStep
  <1>5. SUFFICES RebuildExact'
    BY <1>1 DEF ContainersExact, Extracting, SliceExact, VerifyExact, Reading, OpenSound
  <1>2. ASSUME rebuild' = Idle PROVE RebuildExact'
    BY <1>2 DEF RebuildExact, Reading, OpenSound, Idle
  <1>a. ASSUME rebuild' \in J, rebuild'.at \in steps, source' >= rebuild'.manifest.root,
               rebuild'.at = "checked" /\ source' = rebuild'.manifest.root =>
                 Spans[source'] = rebuild'.manifest.sum,
               rebuild'.at \in {"write", "built"} =>
                 /\ package' \in Q
                 /\ source' = rebuild'.manifest.root => package'.payload = rebuild'.manifest.sum,
               rebuild'.at = "built" =>
                 package'.parts = 4 /\ rebuild'.manifest.pin \in {Unpinned, package'.payload}
        PROVE  RebuildExact'
    <2>1. Reading(rebuild, steps)'
      BY <1>a DEF Reading
    <2>2. OpenSound(rebuild)'
      BY <1>a DEF OpenSound
    <2> QED
      BY <1>a, <2>1, <2>2 DEF RebuildExact
  <1>3. CASE Opening(rebuild)
    <2>1. rebuild' = OpenStep(rebuild)
      BY <1>3 DEF RebuildStep, Opening
    <2>2. /\ Reading(OpenStep(rebuild), steps) /\ OpenSound(OpenStep(rebuild))
          /\ OpenStep(rebuild).at \in {"idle", "sized", "header", "manifest", "open"}
      <3> HIDE DEF steps
      <3> QED
        BY <1>1, <1>3, OpenKeeps
    <2> DEFINE next == OpenStep(rebuild)
    <2> HIDE DEF next
    <2>3. Reading(next, steps) /\ OpenSound(next) /\ rebuild' = next
          /\ next.at \in {"idle", "sized", "header", "manifest", "open"}
      BY <2>1, <2>2 DEF next
    <2>4. Reading(rebuild, steps)' /\ OpenSound(rebuild)'
      BY <1>1, <2>3 DEF Reading, OpenSound
    <2> QED
      BY <2>3, <2>4 DEF RebuildExact
  <1>4. CASE ~ Opening(rebuild)
    <2>1. rebuild \in J /\ rebuild.at \in {"open"} \cup steps
      BY <1>1, <1>4 DEF Reading, Opening, Idle
    <2>2. rebuild.manifest \in SliceManifest /\ rebuild.manifest.root \in Version
      BY <2>1 DEF SliceManifest
    <2>3. CASE rebuild.at = "open" /\ rebuild' # Idle
      <3>1. source = rebuild.manifest.root /\ rebuild' = [rebuild EXCEPT !.at = "inspected"]
        BY <1>4, <2>3 DEF RebuildStep
      <3>2. rebuild' \in J /\ rebuild'.at = "inspected" /\ rebuild'.manifest = rebuild.manifest
        BY <2>1, <3>1
      <3>3. source' >= rebuild'.manifest.root
        BY <1>1, <3>1, <3>2 DEF Version
      <3> QED
        BY <3>2, <3>3, <1>a
    <2>4. CASE rebuild.at = "inspected" /\ rebuild' # Idle
      <3>1. Spans[source] = rebuild.manifest.sum /\ rebuild' = [rebuild EXCEPT !.at = "checked"]
        BY <1>4, <2>4 DEF RebuildStep
      <3>2. rebuild' \in J /\ rebuild'.at = "checked" /\ rebuild'.manifest = rebuild.manifest
        BY <2>1, <3>1
      <3>3. source' >= rebuild'.manifest.root /\ Spans[source'] = rebuild'.manifest.sum
        BY <1>1, <2>4, <3>1, <3>2 DEF RebuildExact
      <3> QED
        BY <3>2, <3>3, <1>a
    <2>5. CASE rebuild.at = "checked"
      <3> DEFINE rows == Spans[source]
      <3>1. rebuild' = [rebuild EXCEPT !.at = "write", !.payload = rows]
            /\ package' = [manifest |-> rebuild.manifest, payload |-> rows, parts |-> 0]
        BY <1>4, <2>5 DEF RebuildStep
      <3>2. rows \in STRING
        BY <1>1, SpansAre
      <3>3. source >= rebuild.manifest.root /\ (source = rebuild.manifest.root => rows = rebuild.manifest.sum)
        BY <1>1, <2>5 DEF RebuildExact
      <3> HIDE DEF rows
      <3>4. rebuild' \in J /\ rebuild'.at = "write" /\ rebuild'.manifest = rebuild.manifest
        BY <2>1, <3>1, <3>2
      <3>5. package' \in Q /\ package'.payload = rows
        BY <2>2, <3>1, <3>2
      <3> QED
        BY <1>1, <3>3, <3>4, <3>5, <1>a
    <2>6. CASE rebuild.at = "write" /\ rebuild' # Idle
      <3>1. /\ package \in Q /\ source >= rebuild.manifest.root
            /\ source = rebuild.manifest.root => package.payload = rebuild.manifest.sum
        BY <1>1, <2>6 DEF RebuildExact
      <3>2. CASE package.parts = 4
        <4>1. rebuild.manifest.pin \in {Unpinned, package.payload} /\ package' = package
              /\ rebuild' = [rebuild EXCEPT !.at = "built"]
          BY <1>4, <2>6, <3>2 DEF RebuildStep
        <4>2. rebuild' \in J /\ rebuild'.at = "built" /\ rebuild'.manifest = rebuild.manifest
          BY <2>1, <4>1
        <4> QED
          BY <1>1, <3>1, <3>2, <4>1, <4>2, <1>a
      <3>3. CASE package.parts # 4
        <4>1. package.parts \in 0..4 /\ package.parts < 4 /\ package.parts + 1 \in 0..4
          BY <3>1, <3>3
        <4>2. rebuild' = rebuild /\ package' = [package EXCEPT !.parts = @ + 1]
          BY <1>4, <2>6, <3>3, <4>1 DEF RebuildStep
        <4>3. package' \in Q /\ package'.payload = package.payload
          BY <3>1, <4>1, <4>2
        <4> QED
          BY <1>1, <2>1, <2>6, <3>1, <4>2, <4>3, <1>a
      <3> QED
        BY <3>2, <3>3
    <2>7. CASE rebuild.at = "built"
      <3>1. rebuild' = Idle
        BY <1>4, <2>7 DEF RebuildStep
      <3> QED
        BY <1>2, <3>1
    <2> QED
      BY <1>2, <2>1, <2>3, <2>4, <2>5, <2>6, <2>7
  <1> QED
    BY <1>3, <1>4

LEMMA ContainersStep ==
    ASSUME ContainersExact, CNext \/ UNCHANGED cvars
    PROVE  ContainersExact'
  <1>1. CASE UNCHANGED cvars
    BY <1>1 DEF cvars, ContainersExact, Extracting, SliceExact, VerifyExact, RebuildExact, Reading,
                OpenSound
  <1>2. CASE CNext
    BY <1>2, ReplaceKeeps, ExtractKeeps, VerifyKeeps, RebuildKeeps DEF CNext
  <1> QED
    BY <1>1, <1>2

\* ContainersSound: what extract, verify and reconstruct conclude of a slice is true of its
\* bytes (SliceReader::open, cmd_verify, cmd_reconstruct), wherever a writer stops and
\* whenever the model file is replaced.
THEOREM ContainersStaySound == MCSpec => [](part = "container" => ContainersSound)
  <1> DEFINE Inv == part = "container" => ContainersExact
  <1>1. MCInit => Inv
    BY ContainersInit DEF MCInit
  <1>2. Inv /\ [MCNext]_mvars => Inv'
    <2> SUFFICES ASSUME Inv, [MCNext]_mvars, part' = "container" PROVE ContainersExact'
      OBVIOUS
    <2>1. part = "container" /\ ContainersExact
      BY DEF MCNext, mvars
    <2>2. CNext \/ UNCHANGED cvars
      BY <2>1 DEF MCNext, mvars, CodecNext
    <2> QED
      BY <2>1, <2>2, ContainersStep
  <1>3. Inv => (part = "container" => ContainersSound)
    <2> SUFFICES ASSUME ContainersExact PROVE ContainersSound
      OBVIOUS
    <2>1. VerifyExact /\ RebuildExact
      BY DEF ContainersExact
    <2>2. OpenSound(verify) /\ OpenSound(rebuild)
      BY <2>1 DEF VerifyExact, RebuildExact
    <2> QED
      BY <2>1, <2>2 DEF ContainersSound, VerifyExact, RebuildExact, PackageAccepted, OpenSound
  <1> QED
    BY <1>1, <1>2, <1>3, PTL DEF MCSpec

-----------------------------------------------------------------------------
(* Stored pages                                                             *)

PageHeader == [prefix : Nat, start : Nat, pos : Nat, lo : Nat, hi : Nat,
               kFmt : WireFormats, vFmt : WireFormats, generation : Nat]
StoredPage == [header : PageHeader, body : Seq(Nat)]
LiveStream == {e \in [prefix : Nat, start : Nat, pos : Nat, lo : Nat, hi : Nat,
                   kFmt : Nat, vFmt : Nat, generation : Nat] : e.lo <= e.hi}
Cell == [num : Int] \cup [crc : Seq([num : Nat])]

LEMMA CellsDiffer ==
    /\ \A n \in Int, m \in Int : Num(n) = Num(m) => n = m
    /\ \A s, t : Crc(s) = Crc(t) => s = t
    /\ \A n, s : Num(n) # Crc(s)
    /\ \A n \in Int : Num(n) \in Cell
    /\ \A s \in Seq([num : Nat]) : Crc(s) \in Cell
  <1>1. \A n \in Int, m \in Int : Num(n) = Num(m) => n = m
    <2> SUFFICES ASSUME NEW n \in Int, NEW m \in Int, Num(n) = Num(m) PROVE n = m
      OBVIOUS
    <2>1. Num(n).num = n /\ Num(m).num = m
      BY DEF Num
    <2> QED
      BY <2>1
  <1>2. \A s, t : Crc(s) = Crc(t) => s = t
    <2> SUFFICES ASSUME NEW s, NEW t, Crc(s) = Crc(t) PROVE s = t
      OBVIOUS
    <2>1. Crc(s).crc = s /\ Crc(t).crc = t
      BY DEF Crc
    <2> QED
      BY <2>1
  <1>3. \A n, s : Num(n) # Crc(s)
    <2> SUFFICES ASSUME NEW n, NEW s, Num(n) = Crc(s) PROVE FALSE
      OBVIOUS
    <2>1. DOMAIN Num(n) = {"num"} /\ DOMAIN Crc(s) = {"crc"}
      BY DEF Num, Crc
    <2> QED
      BY <2>1
  <1>4. \A n \in Int : Num(n) \in Cell
    BY DEF Num, Cell
  <1>5. \A s \in Seq([num : Nat]) : Crc(s) \in Cell
    BY DEF Crc, Cell
  <1> QED
    BY <1>1, <1>2, <1>3, <1>4, <1>5

\* The first test that fails names the error, so there is none when none fails.
LEMMA FirstOk ==
    ASSUME NEW tests, NEW n \in Nat, DOMAIN tests = 1..n, \A i \in 1..n : tests[i][1] # "Ok"
    PROVE  FirstError(tests) = "Ok" <=> \A i \in 1..n : ~ tests[i][2]
  <1> DEFINE failed == {i \in DOMAIN tests : tests[i][2]}
  <1>1. FirstError(tests) = IF failed = {} THEN "Ok" ELSE tests[Min(failed)][1]
    BY DEF FirstError
  <1>2. failed = {} <=> \A i \in 1..n : ~ tests[i][2]
    OBVIOUS
  <1>3. ASSUME failed # {} PROVE FirstError(tests) # "Ok"
    <2>1. failed \subseteq 1..n /\ IsFiniteSet(1..n)
      BY FS_Interval
    <2>2. IsFiniteSet(failed) /\ \A x \in failed : x \in Int
      BY <2>1, FS_Subset
    <2> HIDE DEF failed
    <2>3. Min(failed) \in 1..n
      BY <1>3, <2>1, <2>2, MinExists
    <2> QED
      BY <1>1, <1>3, <2>3
  <1> HIDE DEF failed
  <1> QED
    BY <1>1, <1>2, <1>3

LEMMA UnpackMeans ==
    ASSUME NEW buf
    PROVE  UnpackError(buf) = "Ok" <=>
             /\ ~ (Len(buf) < HeaderLen + 1)
             /\ buf[1] = Num(Magic) /\ buf[2] = Num(1)
             /\ buf[HeaderLen] = Crc(SubSeq(buf, 1, HeaderLen - 1))
             /\ {buf[8], buf[9]} \subseteq {Num(f) : f \in WireFormats}
             /\ Num(Len(BodyOf(buf))) = buf[11]
             /\ Last(buf) = Crc(BodyOf(buf))
  <1> DEFINE p1 == buf[1] # Num(Magic)
             p2 == buf[2] # Num(1)
             p3 == buf[HeaderLen] # Crc(SubSeq(buf, 1, HeaderLen - 1))
             p4 == ~({buf[8], buf[9]} \subseteq {Num(f) : f \in WireFormats})
             p5 == Num(Len(BodyOf(buf))) # buf[11]
             p6 == Last(buf) # Crc(BodyOf(buf))
             tests == << <<"BadMagic", p1>>, <<"BadVersion", p2>>, <<"HeaderChecksumMismatch", p3>>,
                         <<"FormatRefused", p4>>, <<"LengthMismatch", p5>>,
                         <<"PayloadChecksumMismatch", p6>> >>
             short == Len(buf) < HeaderLen + 1
  <1>1. UnpackError(buf) = IF short THEN "LengthMismatch" ELSE FirstError(tests)
    BY DEF UnpackError
  <1>2. FirstError(tests) = "Ok" <=> ~ (p1 \/ p2 \/ p3 \/ p4 \/ p5 \/ p6)
    <2> HIDE DEF p1, p2, p3, p4, p5, p6
    <2>1. DOMAIN tests = 1..6 /\ 6 \in Nat
      OBVIOUS
    <2>2. \A i \in 1..6 : tests[i][1] # "Ok"
      OBVIOUS
    <2>3. /\ tests[1][2] = p1 /\ tests[2][2] = p2 /\ tests[3][2] = p3
          /\ tests[4][2] = p4 /\ tests[5][2] = p5 /\ tests[6][2] = p6
      OBVIOUS
    <2> HIDE DEF tests
    <2>4. FirstError(tests) = "Ok" <=> \A i \in 1..6 : ~ tests[i][2]
      BY <2>1, <2>2, FirstOk
    <2>5. \A i \in 1..6 : i = 1 \/ i = 2 \/ i = 3 \/ i = 4 \/ i = 5 \/ i = 6
      OBVIOUS
    <2> QED
      BY <2>3, <2>4, <2>5
  <1> HIDE DEF tests, short
  <1>3. UnpackError(buf) = "Ok" <=> ~ short /\ FirstError(tests) = "Ok"
    BY <1>1
  <1> QED
    BY <1>2, <1>3 DEF short

LEMMA RestoreMeans ==
    ASSUME NEW h, NEW exp, NEW body
    PROVE  RestoreCheck(h, exp, body) = "Ok" <=>
             /\ Len(body) = h.length.num
             /\ h.prefix.num = exp.prefix /\ h.start.num = exp.start /\ h.pos.num = exp.pos
             /\ ~ (h.lo.num > exp.lo \/ h.hi.num < exp.hi)
             /\ ~ Refused(exp.kFmt, h.kFmt.num) /\ ~ Refused(exp.vFmt, h.vFmt.num)
             /\ ~ Refused(exp.generation, h.generation.num)
  <1> DEFINE p1 == Len(body) # h.length.num
             p2 == h.prefix.num # exp.prefix
             p3 == h.start.num # exp.start
             p4 == h.pos.num # exp.pos
             p5 == h.lo.num > exp.lo \/ h.hi.num < exp.hi
             p6 == Refused(exp.kFmt, h.kFmt.num) \/ Refused(exp.vFmt, h.vFmt.num)
             p7 == Refused(exp.generation, h.generation.num)
             tests == << <<"LengthMismatch", p1>>, <<"PrefixMismatch", p2>>, <<"TokenRangeMismatch", p3>>,
                         <<"PosMismatch", p4>>, <<"LayerRangeInsufficient", p5>>,
                         <<"FormatRefused", p6>>, <<"GenerationRejected", p7>> >>
  <1>1. RestoreCheck(h, exp, body) = FirstError(tests)
    BY DEF RestoreCheck
  <1>2. FirstError(tests) = "Ok" <=> ~ (p1 \/ p2 \/ p3 \/ p4 \/ p5 \/ p6 \/ p7)
    <2> HIDE DEF p1, p2, p3, p4, p5, p6, p7
    <2>1. DOMAIN tests = 1..7 /\ 7 \in Nat
      OBVIOUS
    <2>2. \A i \in 1..7 : tests[i][1] # "Ok"
      OBVIOUS
    <2>3. /\ tests[1][2] = p1 /\ tests[2][2] = p2 /\ tests[3][2] = p3 /\ tests[4][2] = p4
          /\ tests[5][2] = p5 /\ tests[6][2] = p6 /\ tests[7][2] = p7
      OBVIOUS
    <2> HIDE DEF tests
    <2>4. FirstError(tests) = "Ok" <=> \A i \in 1..7 : ~ tests[i][2]
      BY <2>1, <2>2, FirstOk
    <2>5. \A i \in 1..7 : i = 1 \/ i = 2 \/ i = 3 \/ i = 4 \/ i = 5 \/ i = 6 \/ i = 7
      OBVIOUS
    <2> QED
      BY <2>3, <2>4, <2>5
  <1> HIDE DEF tests
  <1> QED
    BY <1>1, <1>2

\* What pack_page stores of a page, cell by cell.
Packed(a, head, cells) ==
    /\ a \in Seq(Cell) /\ head \in Seq([num : Nat]) /\ Len(head) = 11 /\ cells \in Seq([num : Nat])
    /\ Len(a) = Len(cells) + 13
    /\ \A i \in 1..11 : a[i] = head[i]
    /\ a[12] = Crc(head)
    /\ \A i \in 1..Len(cells) : a[i + 12] = cells[i]
    /\ a[Len(a)] = Crc(cells)
    /\ head[1] = Num(Magic) /\ head[2] = Num(1) /\ head[11] = Num(Len(cells))
    /\ {head[8], head[9]} \subseteq {Num(f) : f \in WireFormats}

BodyCells(body) == [i \in DOMAIN body |-> Num(body[i])]

LEMMA PackIs ==
    ASSUME NEW p \in StoredPage
    PROVE  /\ Packed(PackPage(p.header, p.body), HeaderCells(p.header, Len(p.body)), BodyCells(p.body))
           /\ Len(BodyCells(p.body)) = Len(p.body) /\ Len(p.body) \in Nat
  <1> DEFINE h == p.header
             n == Len(p.body)
             head == HeaderCells(h, n)
             cells == BodyCells(p.body)
             x == Append(head, Crc(head))
             y == Append(cells, Crc(cells))
             a == PackPage(p.header, p.body)
             W == [num : Nat]
  <1>1. h \in PageHeader /\ p.body \in Seq(Nat) /\ n \in Nat /\ DOMAIN p.body = 1..n
    BY DEF StoredPage
  <1>2. \A m \in Nat : Num(m) \in W
    BY DEF Num
  <1>3. cells \in Seq(W) /\ Len(cells) = n
    <2>1. cells \in [1..n -> W]
      <3> HIDE DEF W, n
      <3>1. \A i \in 1..n : Num(p.body[i]) \in W
        BY <1>1, <1>2
      <3> QED
        BY <1>1, <3>1 DEF BodyCells
    <2> HIDE DEF cells, W, n
    <2> QED
      BY <1>1, <2>1
  <1>4. head \in Seq(W) /\ Len(head) = 11
        /\ head[1] = Num(Magic) /\ head[2] = Num(1) /\ head[8] = Num(h.kFmt) /\ head[9] = Num(h.vFmt)
        /\ head[11] = Num(n)
    <2>1. /\ Num(Magic) \in W /\ Num(1) \in W /\ Num(h.prefix) \in W /\ Num(h.start) \in W
          /\ Num(h.pos) \in W /\ Num(h.lo) \in W /\ Num(h.hi) \in W /\ Num(h.kFmt) \in W
          /\ Num(h.vFmt) \in W /\ Num(h.generation) \in W /\ Num(n) \in W
      <3>1. /\ Magic \in Nat /\ 1 \in Nat /\ h.prefix \in Nat /\ h.start \in Nat /\ h.pos \in Nat
            /\ h.lo \in Nat /\ h.hi \in Nat /\ h.kFmt \in Nat /\ h.vFmt \in Nat /\ h.generation \in Nat
        BY <1>1 DEF PageHeader, Magic, WireFormats
      <3> HIDE DEF W, h, n
      <3> QED
        BY <1>1, <1>2, <3>1
    <2> HIDE DEF W, h, n
    <2> QED
      BY <2>1 DEF HeaderCells
  <1>5. {head[8], head[9]} \subseteq {Num(f) : f \in WireFormats}
    BY <1>1, <1>4 DEF PageHeader
  <1>6. Crc(head) \in Cell /\ Crc(cells) \in Cell /\ W \subseteq Cell
    <2>1. W \subseteq Cell
      BY DEF Cell
    <2> HIDE DEF head, cells
    <2> QED
      BY <1>3, <1>4, <2>1, CellsDiffer
  <1>7. a = x \o y
    BY DEF PackPage, BodyCells
  <1> HIDE DEF head, cells, a, h, n, W
  <1>8. head \in Seq(Cell) /\ cells \in Seq(Cell)
    BY <1>3, <1>4, <1>6
  <1>9. /\ x \in Seq(Cell) /\ Len(x) = 12 /\ x[12] = Crc(head) /\ \A i \in 1..11 : x[i] = head[i]
        /\ y \in Seq(Cell) /\ Len(y) = n + 1 /\ y[n + 1] = Crc(cells) /\ \A i \in 1..n : y[i] = cells[i]
    <2>1. x \in Seq(Cell) /\ Len(x) = 12 /\ x[12] = Crc(head) /\ \A i \in 1..11 : x[i] = head[i]
      <3>1. /\ x \in Seq(Cell) /\ Len(x) = Len(head) + 1 /\ x[Len(head) + 1] = Crc(head)
            /\ \A i \in 1..Len(head) : x[i] = head[i]
        BY <1>6, <1>8, AppendProperties
      <3>2. Len(head) + 1 = 12
        BY <1>4
      <3> HIDE DEF x
      <3> QED
        BY <1>4, <3>1, <3>2
    <2>2. y \in Seq(Cell) /\ Len(y) = n + 1
      BY <1>1, <1>3, <1>6, <1>8
    <2>3. y[n + 1] = Crc(cells)
      BY <1>1, <1>3, <1>6, <1>8
    <2>4. \A i \in 1..n : y[i] = cells[i]
      BY <1>1, <1>3, <1>6, <1>8
    <2> QED
      BY <2>1, <2>2, <2>3, <2>4
  <1> HIDE DEF x, y
  <1>10. /\ a \in Seq(Cell) /\ Len(a) = n + 13
         /\ \A i \in 1..12 : a[i] = x[i]
         /\ \A i \in 1..(n + 1) : a[i + 12] = y[i]
    <2>1. Len(x) = 12 /\ Len(y) = n + 1 /\ x \in Seq(Cell) /\ y \in Seq(Cell)
      BY <1>9
    <2>0. /\ x \o y \in Seq(Cell) /\ Len(x \o y) = Len(x) + Len(y)
          /\ \A i \in 1..(Len(x) + Len(y)) : (x \o y)[i] = IF i <= Len(x) THEN x[i] ELSE y[i - Len(x)]
      BY <2>1, ConcatProperties
    <2>2. a \in Seq(Cell) /\ Len(a) = n + 13
      BY <1>1, <1>7, <2>0, <2>1
    <2>3. ASSUME NEW i \in 1..12 PROVE a[i] = x[i]
      <3>1. i \in 1..(12 + (n + 1)) /\ i <= 12
        BY <1>1
      <3> QED
        BY <1>7, <2>0, <2>1, <3>1
    <2>4. ASSUME NEW i \in 1..(n + 1) PROVE a[i + 12] = y[i]
      <3>1. i + 12 \in 13..(n + 13) /\ (i + 12) - 12 = i
        BY <1>1
      <3>2. (x \o y)[i + 12] = y[(i + 12) - 12]
        <4>1. i + 12 \in 1..(12 + (n + 1)) /\ ~ (i + 12 <= 12)
          BY <1>1
        <4> QED
          BY <2>0, <2>1, <4>1
      <3> QED
        BY <1>7, <3>1, <3>2
    <2> QED
      BY <2>2, <2>3, <2>4
  <1>11. a[Len(a)] = Crc(cells) /\ (\A i \in 1..n : a[i + 12] = cells[i])
         /\ a[12] = Crc(head) /\ \A i \in 1..11 : a[i] = head[i]
    <2>1. n + 1 \in 1..(n + 1) /\ (n + 1) + 12 = n + 13 /\ \A i \in 1..n : i \in 1..(n + 1)
      BY <1>1
    <2>2. a[n + 13] = Crc(cells)
      BY <1>9, <1>10, <2>1
    <2> QED
      BY <1>9, <1>10, <2>1, <2>2
  <1>12. Packed(a, head, cells)
    BY <1>3, <1>4, <1>5, <1>10, <1>11 DEF Packed, W
  <1> QED
    BY <1>1, <1>3, <1>12 DEF a, head, cells, h, n

\* The parts of a stored page are found again.
LEMMA PartsAre ==
    ASSUME NEW a, NEW head, NEW cells, Packed(a, head, cells)
    PROVE  /\ SubSeq(a, 1, 11) = head /\ BodyOf(a) = cells /\ Last(a) = Crc(cells)
           /\ UnpackError(a) = "Ok"
  <1>1. /\ Len(cells) \in Nat /\ Len(a) = Len(cells) + 13 /\ a \in Seq(Cell) /\ Len(head) = 11
        /\ head \in Seq([num : Nat]) /\ cells \in Seq([num : Nat])
    BY DEF Packed
  <1>2. SubSeq(a, 1, 11) = head
    <2>1. \A i \in 1..11 : a[i] = head[i]
      BY DEF Packed
    <2>2. SubSeq(a, 1, 11) \in Seq(Cell) /\ Len(SubSeq(a, 1, 11)) = 11
          /\ \A i \in 1..11 : SubSeq(a, 1, 11)[i] = a[i]
      BY <1>1
    <2> DEFINE s == SubSeq(a, 1, 11)
    <2> HIDE DEF s
    <2>3. s = head
      BY <1>1, <2>1, <2>2 DEF s
    <2> QED
      BY <2>3 DEF s
  <1>3. BodyOf(a) = cells
    <2>1. \A i \in 1..Len(cells) : a[i + 12] = cells[i]
      BY DEF Packed
    <2> DEFINE s == SubSeq(a, 13, Len(a) - 1)
    <2>2. s \in Seq(Cell) /\ Len(s) = Len(cells) /\ \A i \in 1..Len(cells) : s[i] = a[i + 12]
      <3> DEFINE n == Len(cells)
                 m == Len(a) - 1
      <3>1. n \in Nat /\ m \in Int /\ m = n + 12 /\ (m - 13) + 1 = n
        BY <1>1
      <3>2. s \in Seq(Cell) /\ Len(s) = n
        BY <1>1, <3>1
      <3>3. ASSUME NEW i \in 1..n PROVE s[i] = a[i + 12]
        <4>1. i \in 1..((m - 13) + 1) /\ (13 + i) - 1 = i + 12
          BY <3>1
        <4>2. s[i] = a[(13 + i) - 1]
          BY <1>1, <3>1, <4>1
        <4> QED
          BY <4>1, <4>2
      <3> QED
        BY <3>2, <3>3
    <2>3. BodyOf(a) = s
      <3>1. HeaderLen + 1 = 13
        BY DEF HeaderLen
      <3> QED
        BY <3>1, Zenon DEF BodyOf
    <2>4. cells \in Seq(Cell)
      <3> DEFINE W == [num : Nat]
      <3>1. W \subseteq Cell /\ cells \in Seq(W)
        BY <1>1 DEF Cell
      <3> HIDE DEF W
      <3> QED
        BY <3>1
    <2> HIDE DEF s
    <2>5. s = cells
      BY <1>1, <2>1, <2>2, <2>4, SeqEqual
    <2> QED
      BY <2>3, <2>5
  <1>4. Last(a) = Crc(cells)
    BY DEF Last, Packed
  <1>5. a[1] = Num(Magic) /\ a[2] = Num(1) /\ a[12] = Crc(head) /\ a[11] = Num(Len(cells))
        /\ {a[8], a[9]} \subseteq {Num(f) : f \in WireFormats}
    BY DEF Packed
  <1>6. ~ (Len(a) < HeaderLen + 1)
    BY <1>1 DEF HeaderLen
  <1>7. a[HeaderLen] = Crc(SubSeq(a, 1, HeaderLen - 1))
    <2>1. HeaderLen = 12 /\ HeaderLen - 1 = 11
      BY DEF HeaderLen
    <2> QED
      BY <1>2, <1>5, <2>1
  <1> QED
    BY <1>2, <1>3, <1>4, <1>5, <1>6, <1>7, UnpackMeans

\* A whole page restores into the streams it serves, and into no other.
LEMMA WholeRestores ==
    ASSUME NEW p \in StoredPage, NEW exp \in LiveStream
    PROVE  Restores(PackPage(p.header, p.body), exp) <=> Serves(p.header, exp)
  <1> DEFINE h == p.header
             n == Len(p.body)
             head == HeaderCells(h, n)
             cells == BodyCells(p.body)
             a == PackPage(p.header, p.body)
             g == HeaderOf(a)
  <1>1. Packed(a, head, cells) /\ Len(cells) = n /\ n \in Nat
    BY PackIs
  <1>2. UnpackError(a) = "Ok" /\ BodyOf(a) = cells
    <2> HIDE DEF a, head, cells
    <2> QED
      BY <1>1, PartsAre
  <1>3. /\ a[3] = head[3] /\ a[4] = head[4] /\ a[5] = head[5] /\ a[6] = head[6] /\ a[7] = head[7]
        /\ a[8] = head[8] /\ a[9] = head[9] /\ a[10] = head[10] /\ a[11] = head[11]
    <2> HIDE DEF a, head, cells
    <2> QED
      BY <1>1 DEF Packed
  <1>4. /\ head[3] = Num(h.prefix) /\ head[4] = Num(h.start) /\ head[5] = Num(h.pos)
        /\ head[6] = Num(h.lo) /\ head[7] = Num(h.hi) /\ head[8] = Num(h.kFmt)
        /\ head[9] = Num(h.vFmt) /\ head[10] = Num(h.generation) /\ head[11] = Num(n)
    <2> HIDE DEF h, n
    <2> QED
      BY DEF HeaderCells
  <1> HIDE DEF a, head, cells
  <1>5. /\ g.prefix = Num(h.prefix) /\ g.start = Num(h.start) /\ g.pos = Num(h.pos)
        /\ g.lo = Num(h.lo) /\ g.hi = Num(h.hi) /\ g.kFmt = Num(h.kFmt) /\ g.vFmt = Num(h.vFmt)
        /\ g.generation = Num(h.generation) /\ g.length = Num(n)
    <2> HIDE DEF h, n
    <2> QED
      BY <1>3, <1>4 DEF HeaderOf
  <1> HIDE DEF g, n
  <1>6. \A v : Num(v).num = v
    BY DEF Num
  <1>7. h \in PageHeader
    BY DEF StoredPage
  <1> HIDE DEF h
  <1>8. RestoreCheck(g, exp, cells) = "Ok" <=>
          /\ h.prefix = exp.prefix /\ h.start = exp.start /\ h.pos = exp.pos
          /\ ~ (h.lo > exp.lo \/ h.hi < exp.hi)
          /\ ~ Refused(exp.kFmt, h.kFmt) /\ ~ Refused(exp.vFmt, h.vFmt)
          /\ ~ Refused(exp.generation, h.generation)
    BY <1>1, <1>5, <1>6, RestoreMeans
  <1>9. exp.lo..exp.hi \subseteq h.lo..h.hi <=> ~ (h.lo > exp.lo \/ h.hi < exp.hi)
    <2>1. /\ h.lo \in Nat /\ h.hi \in Nat /\ exp.lo \in Nat /\ exp.hi \in Nat /\ exp.lo <= exp.hi
      BY <1>7 DEF PageHeader, LiveStream
    <2>2. ASSUME exp.lo..exp.hi \subseteq h.lo..h.hi PROVE ~ (h.lo > exp.lo \/ h.hi < exp.hi)
      <3>1. exp.lo \in exp.lo..exp.hi /\ exp.hi \in exp.lo..exp.hi
        BY <2>1
      <3>2. exp.lo \in h.lo..h.hi /\ exp.hi \in h.lo..h.hi
        BY <2>2, <3>1
      <3> QED
        BY <2>1, <3>2
    <2>3. ASSUME ~ (h.lo > exp.lo \/ h.hi < exp.hi) PROVE exp.lo..exp.hi \subseteq h.lo..h.hi
      BY <2>1, <2>3
    <2> QED
      BY <2>2, <2>3
  <1>10. \A want, got : ~ Refused(want, got) <=> want \in {got, Anything}
    BY DEF Refused
  <1>11. Serves(h, exp) <=>
           /\ h.prefix = exp.prefix /\ h.start = exp.start /\ h.pos = exp.pos
           /\ exp.lo..exp.hi \subseteq h.lo..h.hi
           /\ exp.kFmt \in {h.kFmt, Anything} /\ exp.vFmt \in {h.vFmt, Anything}
           /\ exp.generation \in {h.generation, Anything}
    BY DEF Serves
  <1>12. Restores(a, exp) <=> RestoreCheck(g, exp, cells) = "Ok"
    BY <1>2 DEF Restores, g
  <1>13. RestoreCheck(g, exp, cells) = "Ok" <=> Serves(h, exp)
    BY <1>8, <1>9, <1>10, <1>11
  <1> QED
    BY <1>12, <1>13 DEF a, h

\* A page that was cut short has not the length its header declares.
LEMMA CutRefused ==
    ASSUME NEW a, NEW head, NEW cells, Packed(a, head, cells), NEW buf \in Truncated(a)
    PROVE  UnpackError(buf) # "Ok"
  <1>1. /\ Len(cells) \in Nat /\ Len(a) = Len(cells) + 13 /\ a \in Seq(Cell)
        /\ a[11] = Num(Len(cells))
    BY DEF Packed
  <1>2. PICK n \in 0..(Len(a) - 1) : buf = SubSeq(a, 1, n)
    BY DEF Truncated
  <1>3. n \in Nat /\ n <= Len(a) /\ n < Len(cells) + 13
    BY <1>1, <1>2
  <1>4. buf \in Seq(Cell) /\ Len(buf) = n /\ \A i \in 1..n : buf[i] = a[i]
    BY <1>1, <1>2, <1>3, Prefixing
  <1>5. SUFFICES ASSUME UnpackError(buf) = "Ok" PROVE FALSE
    OBVIOUS
  <1>6. n >= 13 /\ Num(Len(BodyOf(buf))) = buf[11]
    BY <1>3, <1>4, <1>5, UnpackMeans DEF HeaderLen
  <1>7. Len(BodyOf(buf)) = n - 13
    <2> DEFINE m == Len(buf) - 1
    <2>1. BodyOf(buf) = SubSeq(buf, 13, m)
      <3>1. HeaderLen + 1 = 13
        BY DEF HeaderLen
      <3> QED
        BY <3>1, Zenon DEF BodyOf
    <2>2. m \in Int /\ m = n - 1 /\ \A i \in 13..m : buf[i] \in Cell
      BY <1>3, <1>4, <1>6
    <2> HIDE DEF m
    <2>3. Len(SubSeq(buf, 13, m)) = IF 13 <= m THEN m - 13 + 1 ELSE 0
      BY <2>2, SubSeqProperties
    <2> QED
      BY <1>3, <1>6, <2>1, <2>2, <2>3
  <1>8. buf[11] = Num(Len(cells))
    BY <1>1, <1>3, <1>4, <1>6
  <1>9. n - 13 = Len(cells)
    <2>1. Num(n - 13) = Num(Len(cells)) /\ n - 13 \in Int /\ Len(cells) \in Int
      BY <1>1, <1>3, <1>6, <1>7, <1>8
    <2> QED
      BY <2>1, CellsDiffer
  <1> QED
    BY <1>1, <1>3, <1>9

\* The head and the body of a file long enough to be a page.
LEMMA PiecesAre ==
    ASSUME NEW n \in Nat, NEW buf \in Seq(Cell), Len(buf) = n + 13
    PROVE  /\ BodyOf(buf) \in Seq(Cell) /\ Len(BodyOf(buf)) = n
           /\ \A i \in 1..n : BodyOf(buf)[i] = buf[i + 12]
           /\ \A k \in {11, 12} : /\ SubSeq(buf, 1, k) \in Seq(Cell) /\ Len(SubSeq(buf, 1, k)) = k
                                  /\ \A i \in 1..k : SubSeq(buf, 1, k)[i] = buf[i]
           /\ Last(buf) = buf[n + 13]
  <1> DEFINE m == Len(buf) - 1
             s == SubSeq(buf, 13, m)
  <1>1. m \in Int /\ m = n + 12 /\ \A i \in 13..m : buf[i] \in Cell
    OBVIOUS
  <1>2. BodyOf(buf) = s
    <2>1. HeaderLen + 1 = 13
      BY DEF HeaderLen
    <2> QED
      BY <2>1, Zenon DEF BodyOf
  <1> HIDE DEF m
  <1>3. /\ s \in Seq(Cell) /\ Len(s) = (IF 13 <= m THEN m - 13 + 1 ELSE 0)
        /\ \A i \in 1..(m - 13 + 1) : s[i] = buf[13 + i - 1]
    BY <1>1, SubSeqProperties
  <1> HIDE DEF s
  <1>4. s \in Seq(Cell) /\ Len(s) = n /\ \A i \in 1..n : s[i] = buf[i + 12]
    BY <1>1, <1>3
  <1>5. ASSUME NEW k \in {11, 12}
        PROVE  /\ SubSeq(buf, 1, k) \in Seq(Cell) /\ Len(SubSeq(buf, 1, k)) = k
               /\ \A i \in 1..k : SubSeq(buf, 1, k)[i] = buf[i]
    <2>1. k \in 0..Len(buf)
      OBVIOUS
    <2> QED
      BY <2>1, Prefixing
  <1>6. Last(buf) = buf[n + 13]
    BY DEF Last
  <1> QED
    BY <1>2, <1>4, <1>5, <1>6

\* A damaged cell is a field that has not its checksum, or a checksum that is none.
LEMMA DamageRefused ==
    ASSUME NEW a, NEW head, NEW cells, Packed(a, head, cells), NEW buf \in Damaged(a)
    PROVE  UnpackError(buf) # "Ok"
  <1> DEFINE n == Len(cells)
             bad == Num(Unreadable)
             W == [num : Nat]
  <1>1. /\ n \in Nat /\ Len(a) = n + 13 /\ a \in Seq(Cell) /\ head \in Seq(W) /\ Len(head) = 11
        /\ cells \in Seq(W) /\ a[12] = Crc(head) /\ a[n + 13] = Crc(cells)
    BY DEF Packed
  <1>2. bad \in Cell /\ (\A x \in W : bad # x) /\ \A x : bad # Crc(x)
    <2>1. Unreadable \in Int /\ Unreadable \notin Nat
      BY DEF Unreadable
    <2>2. bad.num = Unreadable
      BY DEF Num
    <2> HIDE DEF bad
    <2>3. \A x \in W : bad # x
      BY <2>1, <2>2
    <2> QED
      BY <2>1, <2>3, CellsDiffer DEF bad
  <1>3. PICK i \in DOMAIN a : buf = [a EXCEPT ![i] = bad]
    BY DEF Damaged
  <1> HIDE DEF n, bad, W
  <1>4. i \in 1..(n + 13)
    BY <1>1
  <1>5. buf \in Seq(Cell) /\ Len(buf) = n + 13 /\ buf[i] = bad
        /\ \A j \in 1..(n + 13) : j # i => buf[j] = a[j]
    BY <1>1, <1>2, <1>3, <1>4, ExceptSeq
  <1> DEFINE h == SubSeq(buf, 1, 11)
             c == BodyOf(buf)
  <1>6. SUFFICES ASSUME UnpackError(buf) = "Ok" PROVE FALSE
    OBVIOUS
  <1>7. buf[12] = Crc(h) /\ Last(buf) = Crc(c)
    <2>1. HeaderLen = 12 /\ HeaderLen - 1 = 11
      BY DEF HeaderLen
    <2>2. buf[HeaderLen] = Crc(SubSeq(buf, 1, HeaderLen - 1)) /\ Last(buf) = Crc(BodyOf(buf))
      BY <1>6, UnpackMeans
    <2> QED
      BY <2>1, <2>2
  <1>8. /\ Len(h) = 11 /\ \A j \in 1..11 : h[j] = buf[j]
        /\ Len(c) = n /\ \A j \in 1..n : c[j] = buf[j + 12]
        /\ Last(buf) = buf[n + 13]
    BY <1>1, <1>5, PiecesAre
  <1> HIDE DEF h, c
  <1>9. CASE i \in 1..11
    <2>1. buf[12] = Crc(head)
      BY <1>1, <1>5, <1>9
    <2>2. h = head
      BY <1>7, <2>1, CellsDiffer
    <2>3. h[i] = buf[i] /\ buf[i] = bad
      BY <1>5, <1>8, <1>9
    <2>4. head[i] = bad
      BY <2>2, <2>3
    <2>5. head[i] \in W
      BY <1>1, <1>9, ElementOfSeq
    <2> QED
      BY <1>2, <2>4, <2>5
  <1>10. CASE i = 12
    BY <1>2, <1>5, <1>7, <1>10
  <1>11. CASE i \in 13..(n + 12)
    <2>1. buf[n + 13] = Crc(cells)
      BY <1>1, <1>5, <1>11
    <2>2. c = cells
      BY <1>7, <1>8, <2>1, CellsDiffer
    <2>3. i - 12 \in 1..n /\ (i - 12) + 12 = i
      BY <1>1, <1>11
    <2>4. c[i - 12] = buf[i] /\ buf[i] = bad
      BY <1>5, <1>8, <2>3
    <2>5. cells[i - 12] = bad
      BY <2>2, <2>4
    <2>6. cells[i - 12] \in W
      BY <1>1, <2>3, ElementOfSeq DEF n
    <2> QED
      BY <1>2, <2>5, <2>6
  <1>12. CASE i = n + 13
    BY <1>2, <1>5, <1>7, <1>8, <1>12
  <1>13. i \in 1..11 \/ i = 12 \/ i \in 13..(n + 12) \/ i = n + 13
    BY <1>1, <1>4
  <1> QED
    BY <1>9, <1>10, <1>11, <1>12, <1>13

\* Where a page was partly written over another, each of the two checksums that hold is of one.
LEMMA TornIsWhole ==
    ASSUME NEW a, NEW ha, NEW ca, Packed(a, ha, ca), NEW b, NEW hb, NEW cb, Packed(b, hb, cb),
           NEW n \in 0..Min({Len(a), Len(b)}), UnpackError(Torn(a, b, n)) = "Ok"
    PROVE  /\ SubSeq(Torn(a, b, n), 1, 12) \in {SubSeq(a, 1, 12), SubSeq(b, 1, 12)}
           /\ BodyOf(Torn(a, b, n)) \in {BodyOf(a), BodyOf(b)}
  <1> DEFINE k == Len(ca)
             l == Len(cb)
             buf == Torn(a, b, n)
             h == SubSeq(buf, 1, 11)
             c == BodyOf(buf)
  <1>1. /\ k \in Nat /\ Len(a) = k + 13 /\ a \in Seq(Cell) /\ Len(ha) = 11 /\ a[12] = Crc(ha)
        /\ \A i \in 1..11 : a[i] = ha[i]
        /\ a[k + 13] = Crc(ca)
    BY DEF Packed
  <1>2. /\ l \in Nat /\ Len(b) = l + 13 /\ b \in Seq(Cell) /\ b[11] = Num(l)
    BY DEF Packed
  <1>3. n \in Nat /\ n <= k + 13 /\ n <= l + 13
    <2>1. Min({Len(a), Len(b)}) \in Int /\ Min({Len(a), Len(b)}) <= Len(a) /\ Min({Len(a), Len(b)}) <= Len(b)
      BY <1>1, <1>2, MinOfTwo
    <2> HIDE DEF k, l
    <2> QED
      BY <1>1, <1>2, <2>1
  <1> HIDE DEF k, l
  <1>4. /\ buf \in Seq(Cell) /\ Len(buf) = k + 13
        /\ \A i \in 1..n : buf[i] = b[i]
        /\ \A i \in (n + 1)..(k + 13) : buf[i] = a[i]
    <2> DEFINE s == SubSeq(b, 1, n)
               t == SubSeq(a, n + 1, k + 13)
    <2>1. s \in Seq(Cell) /\ Len(s) = n /\ \A i \in 1..n : s[i] = b[i]
      BY <1>2, <1>3, Prefixing
    <2>2. n + 1 \in Int /\ k + 13 \in Int /\ \A i \in (n + 1)..(k + 13) : a[i] \in Cell
      BY <1>1, <1>3
    <2>3. /\ t \in Seq(Cell) /\ Len(t) = (IF n + 1 <= k + 13 THEN (k + 13) - (n + 1) + 1 ELSE 0)
          /\ \A i \in 1..((k + 13) - (n + 1) + 1) : t[i] = a[(n + 1) + i - 1]
      BY <2>2, SubSeqProperties
    <2>4. buf = s \o t
      BY <1>1 DEF Torn
    <2> HIDE DEF s, t, buf
    <2>5. Len(t) = k + 13 - n
      BY <1>1, <1>3, <2>3
    <2>6. /\ s \o t \in Seq(Cell) /\ Len(s \o t) = Len(s) + Len(t)
          /\ \A i \in 1..(Len(s) + Len(t)) : (s \o t)[i] = IF i <= Len(s) THEN s[i] ELSE t[i - Len(s)]
      BY <2>1, <2>3, ConcatProperties
    <2>7. Len(s) + Len(t) = k + 13
      BY <1>1, <1>3, <2>1, <2>5
    <2>8. ASSUME NEW i \in 1..n PROVE buf[i] = b[i]
      <3>1. i \in 1..(k + 13) /\ i <= n
        BY <1>1, <1>3
      <3> QED
        BY <2>1, <2>4, <2>6, <2>7, <3>1
    <2>9. ASSUME NEW i \in (n + 1)..(k + 13) PROVE buf[i] = a[i]
      <3>1. i \in 1..(k + 13) /\ ~ (i <= n) /\ i - n \in 1..((k + 13) - (n + 1) + 1)
            /\ (n + 1) + (i - n) - 1 = i
        BY <1>1, <1>3
      <3>2. buf[i] = t[i - n]
        BY <2>1, <2>4, <2>6, <2>7, <3>1
      <3>3. t[i - n] = a[(n + 1) + (i - n) - 1]
        BY <2>3, <3>1
      <3> QED
        BY <3>1, <3>2, <3>3
    <2> QED
      BY <2>4, <2>6, <2>7, <2>8, <2>9
  <1> HIDE DEF buf
  <1>5. buf[12] = Crc(h) /\ Last(buf) = Crc(c) /\ Num(Len(c)) = buf[11]
    <2>1. HeaderLen = 12 /\ HeaderLen - 1 = 11
      BY DEF HeaderLen
    <2>2. UnpackError(buf) = "Ok"
      BY DEF buf
    <2>3. buf[HeaderLen] = Crc(SubSeq(buf, 1, HeaderLen - 1)) /\ Last(buf) = Crc(BodyOf(buf))
          /\ Num(Len(BodyOf(buf))) = buf[11]
      BY <2>2, UnpackMeans
    <2> QED
      BY <2>1, <2>3
  <1> DEFINE h12 == SubSeq(buf, 1, 12)
             a12 == SubSeq(a, 1, 12)
             b12 == SubSeq(b, 1, 12)
  <1>6. /\ Len(h) = 11 /\ \A i \in 1..11 : h[i] = buf[i]
        /\ h12 \in Seq(Cell) /\ Len(h12) = 12 /\ \A i \in 1..12 : h12[i] = buf[i]
        /\ c \in Seq(Cell) /\ Len(c) = k /\ \A i \in 1..k : c[i] = buf[i + 12]
        /\ Last(buf) = buf[k + 13]
    BY <1>1, <1>4, PiecesAre
  <1>7. /\ a12 \in Seq(Cell) /\ Len(a12) = 12 /\ \A i \in 1..12 : a12[i] = a[i]
    BY <1>1, PiecesAre
  <1>8. /\ b12 \in Seq(Cell) /\ Len(b12) = 12 /\ \A i \in 1..12 : b12[i] = b[i]
        /\ BodyOf(b) \in Seq(Cell) /\ Len(BodyOf(b)) = l /\ \A i \in 1..l : BodyOf(b)[i] = b[i + 12]
    BY <1>2, PiecesAre
  <1>9. BodyOf(a) = ca
    BY PartsAre
  <1> HIDE DEF h, c, h12, a12, b12
  <1>10. h12 \in {a12, b12}
    <2>1. CASE n >= 12
      <3>1. ASSUME NEW i \in 1..12 PROVE h12[i] = b12[i]
        <4>1. i \in 1..n
          BY <1>3, <2>1
        <4>2. buf[i] = b[i]
          BY <1>3, <1>4, <4>1
        <4> QED
          BY <1>6, <1>8, <4>2
      <3> QED
        BY <1>6, <1>8, <3>1, SeqEqual
    <2>2. CASE n < 12
      <3>1. buf[12] = Crc(ha)
        BY <1>1, <1>3, <1>4, <2>2
      <3>2. h = ha
        BY <1>5, <3>1, CellsDiffer
      <3>3. \A i \in 1..11 : buf[i] = a[i]
        BY <1>1, <1>6, <3>2
      <3>4. buf[12] = a[12] /\ \A i \in 1..12 : i \in 1..11 \/ i = 12
        BY <1>1, <3>1
      <3>5. \A i \in 1..12 : h12[i] = a12[i]
        BY <1>6, <1>7, <3>3, <3>4
      <3> QED
        BY <1>6, <1>7, <3>5, SeqEqual
    <2> QED
      BY <1>3, <2>1, <2>2
  <1>11. c \in {BodyOf(a), BodyOf(b)}
    <2>1. CASE n < k + 13
      <3>1. buf[k + 13] = Crc(ca)
        BY <1>1, <1>3, <1>4, <2>1
      <3>2. c = ca
        BY <1>5, <1>6, <3>1, CellsDiffer
      <3> QED
        BY <1>9, <3>2
    <2>2. CASE n = k + 13
      <3>1. buf[11] = b[11]
        BY <1>1, <1>4, <2>2
      <3>2. k = l
        <4>1. Num(k) = Num(l) /\ k \in Int /\ l \in Int
          BY <1>1, <1>2, <1>5, <1>6, <3>1
        <4> QED
          BY <4>1, CellsDiffer
      <3>3. ASSUME NEW i \in 1..k PROVE c[i] = BodyOf(b)[i]
        <4>1. i + 12 \in 1..n
          BY <1>1, <2>2
        <4>2. c[i] = buf[i + 12] /\ buf[i + 12] = b[i + 12]
          BY <1>4, <1>6, <4>1
        <4>3. BodyOf(b)[i] = b[i + 12]
          BY <1>8, <3>2
        <4> QED
          BY <4>2, <4>3
      <3>4. c = BodyOf(b)
        BY <1>6, <1>8, <3>2, <3>3, SeqEqual
      <3> QED
        BY <3>4
    <2> QED
      BY <1>1, <1>3, <2>1, <2>2
  <1> QED
    BY <1>10, <1>11 DEF h12, a12, b12, c, buf

\* PageFailsClosed for pages of every length (PageHeader::check_restore, pack_page,
\* unpack_page): a page restores into exactly the streams it serves, cut short or damaged in
\* a cell into none, and of a torn one head and body are each of one of the two pages. The
\* streams are those that need a layer at all.
THEOREM PagesFailClosed ==
    \A old, new \in StoredPage, exp \in LiveStream : PageFailsClosed(old, new, exp)
  <1> SUFFICES ASSUME NEW old \in StoredPage, NEW new \in StoredPage, NEW exp \in LiveStream
               PROVE  PageFailsClosed(old, new, exp)
    OBVIOUS
  <1> DEFINE a == PackPage(old.header, old.body)
             ha == HeaderCells(old.header, Len(old.body))
             ca == BodyCells(old.body)
             b == PackPage(new.header, new.body)
             hb == HeaderCells(new.header, Len(new.body))
             cb == BodyCells(new.body)
  <1>1. Packed(a, ha, ca) /\ Packed(b, hb, cb)
    BY PackIs
  <1>2. Restores(a, exp) <=> Serves(old.header, exp)
    BY WholeRestores
  <1> HIDE DEF a, ha, ca, b, hb, cb
  <1>3. ASSUME NEW buf \in Truncated(a) \cup Damaged(a) PROVE ~ Restores(buf, exp)
    BY <1>1, CutRefused, DamageRefused DEF Restores
  <1>4. ASSUME NEW n \in 0..Min({Len(a), Len(b)}), Restores(Torn(a, b, n), exp)
        PROVE  /\ SubSeq(Torn(a, b, n), 1, 12) \in {SubSeq(a, 1, 12), SubSeq(b, 1, 12)}
               /\ BodyOf(Torn(a, b, n)) \in {BodyOf(a), BodyOf(b)}
    <2>1. UnpackError(Torn(a, b, n)) = "Ok"
      BY <1>4 DEF Restores
    <2> QED
      BY <1>1, <2>1, TornIsWhole
  <1>5. HeaderLen = 12
    BY DEF HeaderLen
  <1> QED
    BY <1>2, <1>3, <1>4, <1>5 DEF PageFailsClosed, a, b

=============================================================================
