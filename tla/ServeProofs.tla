------------------------------ MODULE ServeProofs ------------------------------
(***************************************************************************)
(* The serve scheduler and the front end over it, for any vocabulary,      *)
(* model, prompts, batch, chunk and budgets: what a step does to one       *)
(* sequence, what it caches, what it pins and evicts.  Reuse of cached     *)
(* states is exact, live paths stay pinned, the byte counter counts what   *)
(* is held, and without speculation answers are those of a solo run.       *)
(***************************************************************************)
EXTENDS MCServeScheduler, HttpFrontEnd, DataLemmas

-----------------------------------------------------------------------------
(* Strings                                                                  *)

Alphabet == Tokens \cup {EOS}
Strings  == Seq(Alphabet)
Logits   == (Strings \ {<<>>}) \cup {NoLogits}
Chooses  == greedy \in [Alphabet -> Alphabet]

\* t goes on where s ends.
Continues(s, t) == Len(s) <= Len(t) /\ Upto(t, Len(s)) = s

LEMMA Extending ==
    ASSUME NEW s \in Strings, NEW t \in Strings, Continues(s, t)
    PROVE  \A d \in 0..Len(s) : Upto(t, d) = Upto(s, d)
  BY DEF Continues, Upto, Strings

LEMMA ContinuesAgain ==
    ASSUME NEW s \in Strings, NEW t \in Strings, NEW u \in Strings,
           Continues(s, t), Continues(t, u)
    PROVE  Continues(s, u)
  <1>1. Len(s) \in 0..Len(t) /\ Len(s) \in Nat /\ Len(t) \in Nat /\ Len(u) \in Nat
    BY DEF Continues, Strings
  <1>2. Upto(u, Len(s)) = Upto(t, Len(s))
    BY <1>1, Extending
  <1> QED
    BY <1>1, <1>2 DEF Continues

LEMMA ContinuesItself == ASSUME NEW s \in Strings PROVE Continues(s, s)
  BY DEF Continues, Upto, Strings

LEMMA Appended ==
    ASSUME NEW s \in Strings, NEW x \in Alphabet
    PROVE  /\ Append(s, x) \in Strings /\ Len(Append(s, x)) = Len(s) + 1 /\ Len(s) \in Nat
           /\ Continues(s, Append(s, x)) /\ Append(s, x) # <<>>
  BY DEF Continues, Upto, Strings

LEMMA Joined ==
    ASSUME NEW s \in Strings, NEW t \in Strings
    PROVE  /\ s \o t \in Strings /\ Len(s \o t) = Len(s) + Len(t)
           /\ Len(s) \in Nat /\ Len(t) \in Nat
           /\ Continues(s, s \o t)
           /\ s # <<>> => s \o t # <<>>
           /\ \A d \in 0..Len(t) : Upto(s \o t, Len(s) + d) = s \o Upto(t, d)
  BY DEF Continues, Upto, Strings

LEMMA Cutting ==
    ASSUME NEW s \in Strings, NEW d \in 0..Len(s)
    PROVE  /\ Upto(s, d) \in Strings /\ Len(Upto(s, d)) = d /\ Len(s) \in Nat
           /\ Continues(Upto(s, d), s)
           /\ \A e \in 0..d : Upto(Upto(s, d), e) = Upto(s, e)
           /\ \A e \in d..Len(s) : Upto(s, d) \o SubSeq(s, d + 1, e) = Upto(s, e)
           /\ Upto(s, Len(s)) = s
           /\ d # 0 => Upto(s, d) # <<>>
  BY DEF Continues, Upto, Strings

LEMMA LastIsIn == ASSUME NEW s \in Strings, s # <<>> PROVE Last(s) \in Alphabet
  BY DEF Last, Strings

LEMMA ArgmaxType ==
    ASSUME Chooses, NEW s \in Strings, s # <<>>
    PROVE  Argmax(s) \in Alphabet
  BY LastIsIn DEF Argmax, Chooses

-----------------------------------------------------------------------------
(* What a request is answered alone                                         *)

Texts == Strings \ {<<>>}

\* Token j of an answer: none once one of them was the end of the stream.
More(p, j, d) == IF Len(d) < Len(p) + j - 1 \/ Argmax(d) = EOS THEN d
                 ELSE Append(d, Argmax(d))

LEMMA MoreIs ==
    ASSUME Chooses, NEW p \in Texts, NEW d \in Texts, NEW j \in Nat
    PROVE  More(p, j, d) \in Texts
  <1>1. d \in Strings /\ d # <<>>
    BY DEF Texts
  <1>2. Append(d, Argmax(d)) \in Strings /\ Append(d, Argmax(d)) # <<>>
    BY <1>1, ArgmaxType, Appended
  <1> QED
    BY <1>2 DEF More, Texts

LEMMA SoloBy ==
    ASSUME Chooses, NEW p \in Texts, NEW k \in Nat
    PROVE  LET G == [x \in Nat \X Texts |-> More(p, x[1], x[2])]
           IN  \E g \in [0..k -> Texts] : Iterated(g, p, G, k) /\ Solo(p, k) = g[k]
  <1> DEFINE G == [x \in Nat \X Texts |-> More(p, x[1], x[2])]
             Saying(g) == g = [j \in 0..k |-> IF j = 0 THEN p ELSE More(p, j, g[j-1])]
             said == CHOOSE g : Saying(g)
  <1>1. G \in [Nat \X Texts -> Texts] /\ \A j \in Nat, d \in Texts : G[<<j, d>>] = More(p, j, d)
    BY MoreIs
  <1> HIDE DEF G
  <1>2. PICK h \in [0..k -> Texts] : Iterated(h, p, G, k)
    BY <1>1, Iterates
  <1>3. Saying(h)
    <2>1. \A j \in 0..k : h[j] = IF j = 0 THEN p ELSE More(p, j, h[j-1])
      <3> SUFFICES ASSUME NEW j \in 0..k, j # 0 PROVE h[j] = More(p, j, h[j-1])
        BY <1>2 DEF Iterated
      <3>1. j \in 1..k /\ j - 1 \in 0..k /\ j \in Nat
        OBVIOUS
      <3>2. h[j - 1] \in Texts
        BY <1>2, <3>1
      <3> QED
        BY <1>1, <1>2, <3>1, <3>2 DEF Iterated
    <2> QED
      BY <1>2, <2>1
  <1>4. Saying(said)
    BY <1>3, Zenon
  <1>5. Solo(p, k) = said[k]
    BY Zenon DEF Solo, More
  <1> HIDE DEF said
  <1>6. \A j \in 0..k : said[j] = IF j = 0 THEN p ELSE More(p, j, said[j-1])
    BY <1>4, Zenon
  <1> DEFINE S == {j \in 0..k : said[j] \in Texts}
  <1>7. 0 \in S
    BY <1>6
  <1>8. ASSUME NEW j \in 0..(k - 1), j \in S PROVE j + 1 \in S
    <2>1. j + 1 \in 0..k /\ j + 1 # 0 /\ (j + 1) - 1 = j /\ j + 1 \in Nat
      OBVIOUS
    <2>2. said[j + 1] = More(p, j + 1, said[j])
      BY <1>6, <2>1
    <2> QED
      BY <1>8, <2>1, <2>2, MoreIs
  <1> HIDE DEF S
  <1>9. \A j \in 0..k : j \in S
    BY <1>7, <1>8, Reaches
  <1>10. said \in [0..k -> Texts]
    <2>1. said = [j \in 0..k |-> IF j = 0 THEN p ELSE More(p, j, said[j-1])]
      BY <1>4, Zenon
    <2>2. \A j \in 0..k : said[j] \in Texts
      BY <1>9 DEF S
    <2> QED
      BY <1>6, <2>1, <2>2
  <1>11. Iterated(said, p, G, k)
    <2>1. said[0] = p
      BY <1>6
    <2>2. ASSUME NEW j \in 1..k PROVE said[j] = G[<<j, said[j - 1]>>]
      <3>1. j \in 0..k /\ j # 0 /\ j - 1 \in 0..k /\ j \in Nat
        OBVIOUS
      <3> QED
        BY <1>1, <1>6, <1>10, <3>1
    <2> QED
      BY <2>1, <2>2 DEF Iterated
  <1> QED
    BY <1>5, <1>10, <1>11 DEF G

\* A solo answer token by token.
LEMMA SoloIs ==
    ASSUME Chooses, NEW p \in Texts, NEW n \in Nat
    PROVE  /\ Solo(p, n) \in Texts /\ Solo(p, 0) = p
           /\ Solo(p, n + 1) = More(p, n + 1, Solo(p, n))
  <1> DEFINE G == [x \in Nat \X Texts |-> More(p, x[1], x[2])]
  <1>1. \A j \in Nat, d \in Texts : G[<<j, d>>] = More(p, j, d)
    OBVIOUS
  <1>2. PICK g \in [0..n -> Texts] : Iterated(g, p, G, n) /\ Solo(p, n) = g[n]
    BY SoloBy
  <1>3. PICK h \in [0..(n + 1) -> Texts] : Iterated(h, p, G, n + 1) /\ Solo(p, n + 1) = h[n + 1]
    <2>1. n + 1 \in Nat
      OBVIOUS
    <2> HIDE DEF G
    <2> QED
      BY <2>1, SoloBy DEF G
  <1>4. PICK z \in [0..0 -> Texts] : Iterated(z, p, G, 0) /\ Solo(p, 0) = z[0]
    BY SoloBy
  <1> HIDE DEF G
  <1>5. \A j \in 0..n : g[j] = h[j]
    BY <1>2, <1>3, IteratesAgree
  <1>6. n + 1 \in 1..(n + 1) /\ (n + 1) - 1 = n /\ n \in 0..n /\ n + 1 \in Nat
    OBVIOUS
  <1>7. h[n + 1] = G[<<n + 1, h[n]>>] /\ g[n] = h[n] /\ g[n] \in Texts
    BY <1>2, <1>3, <1>5, <1>6 DEF Iterated
  <1>8. Solo(p, 0) = p
    BY <1>4 DEF Iterated
  <1> QED
    BY <1>1, <1>2, <1>3, <1>6, <1>7, <1>8

\* A longer answer goes on where a shorter one ends, and does not go on when that one
\* ended early.
LEMMA SoloGoesOn ==
    ASSUME Chooses, NEW p \in Texts, NEW n \in Nat, NEW m \in Nat, n <= m
    PROVE  /\ Continues(Solo(p, n), Solo(p, m))
           /\ Len(Solo(p, n)) < Len(p) + n => Solo(p, m) = Solo(p, n)
  <1> DEFINE s == Solo(p, n)
             S == {j \in 0..(m - n) : /\ Continues(s, Solo(p, n + j))
                                      /\ Len(s) < Len(p) + n => Solo(p, n + j) = s}
  <1>1. s \in Strings /\ Len(s) \in Nat /\ Len(p) \in Nat
    <2>1. s \in Texts
      BY SoloIs
    <2> HIDE DEF s
    <2> QED
      BY <2>1 DEF Texts, Strings
  <1>2. 0 \in S
    BY <1>1, ContinuesItself
  <1>3. ASSUME NEW j \in 0..((m - n) - 1), j \in S PROVE j + 1 \in S
    <2> DEFINE d == Solo(p, n + j)
               e == Solo(p, n + (j + 1))
    <2>1. n + j \in Nat /\ n + (j + 1) = (n + j) + 1 /\ j + 1 \in 0..(m - n) /\ j \in Nat
      OBVIOUS
    <2>2. d \in Texts /\ e = More(p, (n + j) + 1, d)
      BY <2>1, SoloIs
    <2>3. Continues(s, d) /\ (Len(s) < Len(p) + n => d = s)
      BY <1>3
    <2> HIDE DEF s, d, e, S
    <2>4. d \in Strings /\ d # <<>> /\ Argmax(d) \in Alphabet
      BY <2>2, ArgmaxType DEF Texts
    <2>5. Continues(d, Append(d, Argmax(d))) /\ Append(d, Argmax(d)) \in Strings
          /\ Continues(d, d)
      BY <2>4, Appended, ContinuesItself
    <2>6. e \in {d, Append(d, Argmax(d))}
          /\ (Len(d) < Len(p) + ((n + j) + 1) - 1 => e = d)
      BY <2>2 DEF More
    <2>7. Continues(s, e)
      BY <1>1, <2>3, <2>4, <2>5, <2>6, ContinuesAgain
    <2>8. Len(s) < Len(p) + n => e = s
      BY <1>1, <2>1, <2>3, <2>6
    <2> QED
      BY <2>1, <2>7, <2>8 DEF S, e
  <1> HIDE DEF S
  <1>4. m - n \in Nat /\ m - n \in 0..(m - n) /\ n + (m - n) = m
    OBVIOUS
  <1>5. m - n \in S
    BY <1>2, <1>3, <1>4, Reaches
  <1> QED
    BY <1>4, <1>5 DEF S

-----------------------------------------------------------------------------
(* One sequence                                                             *)

SeqRecord ==
    [request : Strings, stream : Strings, max_new : Nat, generated : Nat,
     state : {"Running", "Finished"}, consumed : Nat, pending : Logits, hidden : Strings]

\* A sequence at any moment of a step: it has consumed a part of its stream, and
\* while it runs its hidden state is that part's.  It is in its prompt, or has
\* sampled one token more than it consumed.
Placed(s) ==
    /\ s \in SeqRecord /\ s.consumed <= Len(s.stream) /\ s.generated <= s.max_new
    /\ Running(s) =>
         /\ s.hidden = Path(s)
         /\ \/ s.generated = 0 /\ s.stream # <<>>
            \/ s.generated > 0 /\ Len(s.stream) = s.consumed + 1

\* Logits wait to be sampled only where the whole prompt was resident.
Entering(s) == Placed(s) /\ (Running(s) /\ s.pending # NoLogits
                                => s.generated = 0 /\ s.consumed = Len(s.stream))
Ready(s)    == Placed(s) /\ (Running(s) => s.pending = NoLogits)
Settled(s)  == Ready(s) /\ (Running(s) /\ s.generated = 0 => s.consumed < Len(s.stream))

\* What a sampled token does.
LEMMA Sampling ==
    ASSUME Chooses, NEW s \in SeqRecord, NEW l \in Strings, l # <<>>
    PROVE  LET u == Sample(s, l) IN
           /\ u \in SeqRecord /\ Argmax(l) \in Alphabet
           /\ u.generated = s.generated + 1 /\ u.consumed = s.consumed
           /\ u.hidden = s.hidden /\ u.pending = s.pending
           /\ u.max_new = s.max_new /\ u.request = s.request
           /\ Argmax(l) = EOS => u.stream = s.stream /\ ~Running(u)
           /\ Argmax(l) # EOS => u.stream = Append(s.stream, Argmax(l)) /\ u.state = s.state
           /\ Continues(s.stream, u.stream)
  <1> DEFINE t == Argmax(l)
             told == [s EXCEPT !.generated = @ + 1]
  <1>1. t \in Alphabet
    BY ArgmaxType
  <1>2. s.stream \in Strings /\ s.generated \in Nat
    BY DEF SeqRecord
  <1>3. /\ Append(s.stream, t) \in Strings /\ Continues(s.stream, Append(s.stream, t))
        /\ Continues(s.stream, s.stream)
    BY <1>1, <1>2, Appended, ContinuesItself
  <1>4. /\ told \in SeqRecord /\ told.stream = s.stream /\ told.generated = s.generated + 1
        /\ told.consumed = s.consumed /\ told.hidden = s.hidden /\ told.pending = s.pending
        /\ told.max_new = s.max_new /\ told.request = s.request /\ told.state = s.state
    BY DEF SeqRecord
  <1> HIDE DEF told, t
  <1>5. Sample(s, l) = IF t = EOS THEN [told EXCEPT !.state = "Finished"]
                       ELSE [told EXCEPT !.stream = Append(told.stream, t)]
    BY DEF Sample, Finish, told, t
  <1>6. CASE t = EOS
    <2>1. Sample(s, l) = [told EXCEPT !.state = "Finished"]
      BY <1>5, <1>6
    <2> QED
      BY <1>1, <1>3, <1>4, <1>6, <2>1 DEF t, SeqRecord, Running
  <1>7. CASE t # EOS
    <2>1. Sample(s, l) = [told EXCEPT !.stream = Append(s.stream, t)]
      BY <1>4, <1>5, <1>7
    <2> QED
      BY <1>1, <1>3, <1>4, <1>7, <2>1 DEF t, SeqRecord
  <1> QED
    BY <1>6, <1>7

\* The seed sample of a sequence whose prompt was resident.
LEMMA Seeding ==
    ASSUME Chooses, NEW s, Entering(s)
    PROVE  LET t == Seed(s) IN
           /\ Ready(t) /\ t.consumed = s.consumed /\ Continues(s.stream, t.stream)
           /\ Path(t) = Path(s) /\ t.request = s.request /\ t.max_new = s.max_new
           /\ Running(t) => Running(s)
           /\ ~Seeded(s) => t = s
           /\ Seeded(s) => /\ Running(s) /\ (s.max_new = 0 => ~Running(t))
                           /\ Running(t) => t.generated = 1
           /\ ~Running(t) => t.stream = s.stream
  <1>1. /\ s \in SeqRecord /\ s.consumed <= Len(s.stream) /\ s.consumed \in Nat
        /\ s.stream \in Strings /\ Len(s.stream) \in Nat /\ s.generated <= s.max_new
        /\ s.generated \in Nat /\ s.max_new \in Nat
    BY DEF Entering, Placed, SeqRecord, Strings
  <1>2. CASE ~Seeded(s)
    <2>1. Seed(s) = s
      BY <1>2 DEF Seed
    <2>2. Running(s) => s.pending = NoLogits
      BY <1>1, <1>2 DEF Entering, Seeded, PromptLen
    <2> QED
      BY <1>1, <1>2, <2>1, <2>2, ContinuesItself DEF Entering, Ready
  <1>3. CASE Seeded(s)
    <2>1. /\ Running(s) /\ s.generated = 0 /\ s.consumed = Len(s.stream)
          /\ s.pending \in Strings /\ s.pending # <<>> /\ s.hidden = Path(s)
      BY <1>1, <1>3 DEF Seeded, Entering, Placed, SeqRecord, Logits
    <2>2. CASE s.max_new > 0
      <3> DEFINE u == Sample(s, s.pending)
                 t == [u EXCEPT !.pending = NoLogits]
      <3>1. Seed(s) = t
        BY <1>3, <2>2 DEF Seed
      <3>2. /\ u \in SeqRecord /\ u.generated = 1 /\ u.consumed = s.consumed
            /\ u.hidden = s.hidden /\ u.max_new = s.max_new /\ u.request = s.request
            /\ Continues(s.stream, u.stream)
            /\ ~Running(u) \/ Len(u.stream) = Len(s.stream) + 1
            /\ ~Running(u) => u.stream = s.stream
        <4>1. /\ u \in SeqRecord /\ Argmax(s.pending) \in Alphabet
              /\ u.generated = s.generated + 1 /\ u.consumed = s.consumed
              /\ u.hidden = s.hidden /\ u.max_new = s.max_new /\ u.request = s.request
              /\ Continues(s.stream, u.stream)
              /\ ~Running(u) \/ u.stream = Append(s.stream, Argmax(s.pending))
              /\ ~Running(u) => u.stream = s.stream
          <5>1. Argmax(s.pending) # EOS => u.state = s.state
            BY <1>1, <2>1, Sampling
          <5>2. Running(s)
            BY <2>1
          <5> QED
            BY <1>1, <2>1, <5>1, <5>2, Sampling DEF Running
        <4> HIDE DEF u
        <4>2. Len(Append(s.stream, Argmax(s.pending))) = Len(s.stream) + 1
          BY <1>1, <4>1, Appended
        <4> QED
          BY <1>1, <2>1, <4>1, <4>2
      <3> HIDE DEF u
      <3>3. /\ t \in SeqRecord /\ t.generated = 1 /\ t.consumed = s.consumed
            /\ t.hidden = s.hidden /\ t.max_new = s.max_new /\ t.request = s.request
            /\ t.stream = u.stream /\ t.state = u.state /\ t.pending = NoLogits
        BY <3>2 DEF SeqRecord, Logits
      <3> HIDE DEF t
      <3>4. t.stream \in Strings /\ Upto(t.stream, s.consumed) = Upto(s.stream, s.consumed)
        BY <1>1, <3>2, <3>3, Extending DEF SeqRecord
      <3>5. Path(t) = Path(s)
        BY <3>3, <3>4 DEF Path
      <3>6. Placed(t) /\ Ready(t)
        BY <1>1, <2>1, <2>2, <3>2, <3>3, <3>5 DEF Placed, Ready, Running, Continues
      <3>7. ~Running(t) => t.stream = s.stream
        BY <3>2, <3>3 DEF Running
      <3> QED
        BY <1>3, <2>1, <2>2, <3>1, <3>2, <3>3, <3>5, <3>6, <3>7
    <2>3. CASE ~ (s.max_new > 0)
      <3>1. Seed(s) = [s EXCEPT !.state = "Finished"]
        BY <1>3, <2>3 DEF Seed, Finish
      <3> DEFINE t == [s EXCEPT !.state = "Finished"]
      <3>2. /\ t \in SeqRecord /\ t.stream = s.stream /\ t.consumed = s.consumed
            /\ t.generated = s.generated /\ t.max_new = s.max_new /\ t.request = s.request
            /\ t.state = "Finished"
        BY <1>1 DEF SeqRecord
      <3> HIDE DEF t
      <3>3. Ready(t) /\ Path(t) = Path(s)
        BY <1>1, <3>2 DEF Ready, Placed, Path, Running
      <3> QED
        BY <1>1, <1>3, <2>1, <3>1, <3>2, <3>3, ContinuesItself DEF Running, t
    <2> QED
      BY <2>2, <2>3
  <1> QED
    BY <1>2, <1>3

\* A sequence that ends where it is.
LEMMA Ending ==
    ASSUME NEW m \in SeqRecord, m.consumed <= Len(m.stream), m.generated <= m.max_new,
           m.pending = NoLogits
    PROVE  LET u == Finish(m) IN
           /\ Settled(u) /\ ~Running(u) /\ u.consumed = m.consumed /\ u.stream = m.stream
           /\ u.request = m.request /\ u.max_new = m.max_new /\ u.generated = m.generated
  <1> DEFINE u == Finish(m)
  <1>1. /\ u \in SeqRecord /\ u.state = "Finished" /\ u.consumed = m.consumed
        /\ u.stream = m.stream /\ u.request = m.request /\ u.max_new = m.max_new
        /\ u.generated = m.generated /\ u.pending = m.pending
    BY DEF Finish, SeqRecord
  <1> HIDE DEF u
  <1>2. ~Running(u)
    BY <1>1 DEF Running
  <1>3. Settled(u)
    BY <1>1, <1>2 DEF Settled, Ready, Placed
  <1> QED
    BY <1>1, <1>2, <1>3 DEF u

\* A sequence that has consumed its whole stream and samples from its own state.
LEMMA Telling ==
    ASSUME Chooses, NEW m \in SeqRecord, m.consumed = Len(m.stream), m.hidden = m.stream,
           m.stream # <<>>, m.generated < m.max_new, m.pending = NoLogits
    PROVE  LET u == Sample(m, m.stream) IN
           /\ Settled(u) /\ u.consumed = m.consumed /\ Continues(m.stream, u.stream)
           /\ u.request = m.request /\ u.max_new = m.max_new
           /\ u.generated = m.generated + 1
  <1> DEFINE u == Sample(m, m.stream)
  <1>1. m.stream \in Strings /\ Len(m.stream) \in Nat /\ m.generated \in Nat /\ m.max_new \in Nat
    BY DEF SeqRecord, Strings
  <1>2. /\ u \in SeqRecord /\ Argmax(m.stream) \in Alphabet
        /\ u.generated = m.generated + 1 /\ u.consumed = m.consumed
        /\ u.hidden = m.hidden /\ u.pending = m.pending
        /\ u.max_new = m.max_new /\ u.request = m.request
        /\ Continues(m.stream, u.stream)
        /\ ~Running(u) \/ u.stream = Append(m.stream, Argmax(m.stream))
        /\ ~Running(u) => u.stream = m.stream \/ u.stream = Append(m.stream, Argmax(m.stream))
    BY <1>1, Sampling
  <1> HIDE DEF u
  <1>3. /\ Len(Append(m.stream, Argmax(m.stream))) = Len(m.stream) + 1
        /\ u.stream \in Strings
    BY <1>1, <1>2, Appended DEF SeqRecord
  <1>4. Path(u) = m.stream
    BY <1>1, <1>2 DEF Path, Continues
  <1>5. Settled(u)
    BY <1>1, <1>2, <1>3, <1>4 DEF Settled, Ready, Placed, Continues
  <1> QED
    BY <1>2, <1>5 DEF u

\* A sequence says what its request is answered alone, as far as it got.
Faithful(s) ==
    /\ s.request \in Texts
    /\ Running(s) => /\ s.stream = Solo(s.request, s.generated)
                     /\ Len(s.stream) = Len(s.request) + s.generated
    /\ ~Running(s) => s.stream = Solo(s.request, s.max_new)

LEMMA TellingFaithfully ==
    ASSUME Chooses, NEW m \in SeqRecord, Running(m), Faithful(m), m.generated < m.max_new
    PROVE  Faithful(Sample(m, m.stream))
  <1> DEFINE u == Sample(m, m.stream)
             p == m.request
             n == m.generated
             t == Argmax(m.stream)
  <1>1. /\ p \in Texts /\ n \in Nat /\ m.max_new \in Nat /\ m.stream = Solo(p, n)
        /\ Len(m.stream) = Len(p) + n /\ n < m.max_new
    BY DEF SeqRecord, Faithful
  <1>2. m.stream \in Texts
    BY <1>1, SoloIs
  <1>3. /\ u.generated = n + 1 /\ u.max_new = m.max_new /\ u.request = p
        /\ t = EOS => u.stream = m.stream /\ ~Running(u)
        /\ t # EOS => u.stream = Append(m.stream, t) /\ u.state = m.state
        /\ t \in Alphabet
    BY <1>2, Sampling DEF Texts
  <1>4. Solo(p, n + 1) = More(p, n + 1, m.stream)
    BY <1>1, SoloIs
  <1>5. Len(m.stream) \in Nat /\ Len(p) \in Nat
    BY <1>1, <1>2 DEF Texts, Strings
  <1> HIDE DEF u, p, n, t
  <1>6. CASE t = EOS
    <2>1. Solo(p, n + 1) = m.stream
      BY <1>4, <1>6 DEF More, t
    <2>2. n + 1 \in Nat /\ n + 1 <= m.max_new /\ Len(m.stream) < Len(p) + (n + 1)
      BY <1>1, <1>5
    <2>3. Solo(p, m.max_new) = m.stream
      BY <1>1, <2>1, <2>2, SoloGoesOn
    <2> QED
      BY <1>1, <1>3, <1>6, <2>3 DEF Faithful, u
  <1>7. CASE t # EOS
    <2>1. ~ (Len(m.stream) < Len(p) + (n + 1) - 1)
      BY <1>1, <1>5
    <2>2. Solo(p, n + 1) = Append(m.stream, t)
      BY <1>4, <1>7, <2>1 DEF More, t
    <2>3. Len(Append(m.stream, t)) = Len(p) + (n + 1)
      BY <1>1, <1>2, <1>3, <1>5, Appended, SMTT(30) DEF Texts
    <2>4. Running(u)
      BY <1>3, <1>7 DEF Running
    <2> QED
      BY <1>1, <1>3, <1>7, <2>2, <2>3, <2>4 DEF Faithful, u
  <1> QED
    BY <1>6, <1>7

LEMMA EndingFaithfully ==
    ASSUME NEW m \in SeqRecord, Running(m), Faithful(m), m.generated = m.max_new
    PROVE  Faithful(Finish(m))
  <1> DEFINE u == Finish(m)
  <1>1. /\ u.state = "Finished" /\ u.stream = m.stream /\ u.request = m.request
        /\ u.max_new = m.max_new
    BY DEF Finish, SeqRecord
  <1> HIDE DEF u
  <1>2. ~Running(u)
    BY <1>1 DEF Running
  <1>3. /\ m.request \in Texts /\ m.stream = Solo(m.request, m.max_new)
    BY DEF Faithful
  <1>4. Faithful(u)
    BY <1>1, <1>2, <1>3 DEF Faithful
  <1> QED
    BY <1>4 DEF u

LEMMA SeedingFaithfully ==
    ASSUME Chooses, NEW s, Entering(s), Faithful(s), Seeded(s) => s.pending = s.stream
    PROVE  Faithful(Seed(s))
  <1>1. s \in SeqRecord /\ s.generated <= s.max_new /\ s.generated \in Nat /\ s.max_new \in Nat
    BY DEF Entering, Placed, SeqRecord
  <1>2. CASE ~Seeded(s)
    BY <1>2 DEF Seed
  <1>3. CASE Seeded(s)
    <2>1. Running(s) /\ s.generated = 0
      BY <1>3 DEF Seeded, Entering
    <2>2. CASE s.max_new > 0
      <3> DEFINE u == Sample(s, s.stream)
                 t == [u EXCEPT !.pending = NoLogits]
      <3>1. Seed(s) = t
        BY <1>3, <2>2 DEF Seed
      <3>2. Faithful(u)
        BY <1>1, <2>1, <2>2, TellingFaithfully
      <3>3. u \in SeqRecord
        <4>1. s.stream \in Strings /\ s.stream # <<>>
          <5>1. s.request \in Texts /\ s.stream = Solo(s.request, s.generated)
            BY <2>1 DEF Faithful
          <5>2. s.stream \in Texts
            BY <1>1, <5>1, SoloIs
          <5> QED
            BY <5>2 DEF Texts
        <4> QED
          BY <1>1, <4>1, Sampling
      <3> HIDE DEF u
      <3>4. /\ t.request = u.request /\ t.stream = u.stream /\ t.generated = u.generated
            /\ t.max_new = u.max_new /\ t.state = u.state
        BY <3>3 DEF SeqRecord
      <3> HIDE DEF t
      <3>5. Faithful(t)
        BY <3>2, <3>4 DEF Faithful, Running
      <3> QED
        BY <3>1, <3>5
    <2>3. CASE ~ (s.max_new > 0)
      <3>1. Seed(s) = Finish(s)
        BY <1>3, <2>3 DEF Seed
      <3>2. s.generated = s.max_new
        BY <1>1, <2>1, <2>3
      <3> QED
        BY <1>1, <2>1, <3>1, <3>2, EndingFaithfully
    <2> QED
      BY <2>2, <2>3
  <1> QED
    BY <1>2, <1>3

\* The logits kept with a state are those of that state; the variant of the lemmas
\* where none is kept without them.
Labelled(r) == \A d \in DOMAIN r.states : r.states[d].logits \in {NoLogits, r.states[d].hidden}
Complete(r) == \A d \in DOMAIN r.states : r.states[d].logits = r.states[d].hidden

\* What a step makes of a running sequence: its tokens go on, and every state it
\* computes is that of the prefix it stands for.
Advances(s, r) ==
    /\ Settled(r.seq) /\ r.seq.request = s.request /\ r.seq.max_new = s.max_new
    /\ r.seq.consumed > s.consumed
    /\ Continues(s.stream, r.seq.stream)
    /\ DOMAIN r.states = (s.consumed + 1)..r.seq.consumed
    /\ \A d \in DOMAIN r.states : /\ r.states[d].hidden = Upto(r.seq.stream, d)
                                  /\ r.states[d].logits \in Logits
    /\ r.releases => ~Running(r.seq)

LEMMA Prefilled ==
    ASSUME Chooses, NEW s, Ready(s), Running(s), Prefills(s)
    PROVE  /\ Advances(s, Prefill(s))
           /\ Faithful(s) => Faithful(Prefill(s).seq)
           /\ Labelled(Prefill(s))
           /\ PrefillChunk = 1 => Complete(Prefill(s))
  <1> DEFINE end == Min({s.consumed + PrefillChunk, PromptLen(s)})
             after(d) == s.hidden \o SubSeq(s.stream, s.consumed + 1, d)
             states == [d \in s.consumed + 1 .. end |->
                          State(after(d), IF d = end THEN after(d) ELSE NoLogits)]
             moved == [s EXCEPT !.hidden = after(end), !.consumed = end]
  <1>1. /\ s \in SeqRecord /\ s.consumed <= Len(s.stream) /\ s.consumed \in Nat
        /\ s.stream \in Strings /\ Len(s.stream) \in Nat /\ s.generated <= s.max_new
        /\ s.generated \in Nat /\ s.max_new \in Nat /\ s.pending = NoLogits
        /\ s.hidden = Upto(s.stream, s.consumed)
        /\ \/ s.generated = 0 /\ s.stream # <<>>
           \/ s.generated > 0 /\ Len(s.stream) = s.consumed + 1
    BY DEF Ready, Placed, SeqRecord, Strings, Path
  <1>2. s.generated = 0 /\ PromptLen(s) = Len(s.stream) /\ s.consumed < Len(s.stream)
    BY <1>1 DEF Prefills, PromptLen
  <1>3. /\ end \in Nat /\ s.consumed < end /\ end <= Len(s.stream)
        /\ PrefillChunk = 1 => end = s.consumed + 1
    <2>1. PrefillChunk \in Nat \ {0}
      BY ServeAssumption
    <2>2. end = IF s.consumed + PrefillChunk <= Len(s.stream)
                THEN s.consumed + PrefillChunk ELSE Len(s.stream)
      <3>1. end = Min({s.consumed + PrefillChunk, Len(s.stream)})
        BY <1>2, Zenon
      <3>2. s.consumed + PrefillChunk \in Int /\ Len(s.stream) \in Int
        BY <1>1, <2>1
      <3> QED
        BY <3>1, <3>2, MinOfTwo, Zenon
    <2> HIDE DEF end
    <2>3. s.consumed \in Nat /\ Len(s.stream) \in Nat
      BY <1>1
    <2> QED
      BY <1>2, <2>1, <2>2, <2>3
  <1>p. Prefill(s) = IF end < Len(s.stream) THEN Result(moved, states, FALSE)
                     ELSE IF s.generated < s.max_new
                          THEN Result(Sample(moved, after(end)), states, FALSE)
                          ELSE Result(Finish(moved), states, TRUE)
    BY Zenon DEF Prefill
  <1> HIDE DEF end
  <1>4. \A d \in (s.consumed + 1)..end :
            after(d) = Upto(s.stream, d) /\ after(d) \in Strings /\ after(d) # <<>>
    <2> SUFFICES ASSUME NEW e \in (s.consumed + 1)..end
                 PROVE  after(e) = Upto(s.stream, e) /\ after(e) \in Strings
                        /\ after(e) # <<>>
      BY Zenon
    <2>1. s.consumed \in 0..Len(s.stream) /\ e \in s.consumed..Len(s.stream)
          /\ e \in 0..Len(s.stream) /\ e # 0
      BY <1>1, <1>3
    <2>2. Upto(s.stream, s.consumed) \o SubSeq(s.stream, s.consumed + 1, e) = Upto(s.stream, e)
          /\ Upto(s.stream, e) \in Strings /\ Upto(s.stream, e) # <<>>
      <3>1. s.stream \in Strings
        BY <1>1
      <3>2. Upto(s.stream, e) \in Strings /\ Upto(s.stream, e) # <<>>
        BY <2>1, <3>1, Cutting
      <3>3. \A j \in s.consumed..Len(s.stream) :
               Upto(s.stream, s.consumed) \o SubSeq(s.stream, s.consumed + 1, j) = Upto(s.stream, j)
        BY <2>1, <3>1, Cutting, Zenon
      <3> QED
        BY <2>1, <3>2, <3>3, Zenon
    <2> QED
      BY <1>1, <2>2, Zenon
  <1>5. after(end) = Upto(s.stream, end) /\ after(end) \in Strings /\ after(end) # <<>>
    <2>1. end \in (s.consumed + 1)..end
      BY <1>1, <1>3
    <2> QED
      BY <1>4, <2>1
  <1> DEFINE w == after(end)
  <1>6. /\ DOMAIN states = (s.consumed + 1)..end
        /\ \A d \in DOMAIN states : /\ states[d].hidden = Upto(s.stream, d)
                                    /\ states[d].logits \in Logits
                                    /\ states[d].logits \in {NoLogits, states[d].hidden}
                                    /\ d = end => states[d].logits = states[d].hidden
    <2> HIDE DEF after
    <2> QED
      BY <1>4 DEF State, Logits
  <1>c. PrefillChunk = 1 => \A d \in DOMAIN states : states[d].logits = states[d].hidden
    <2>1. PrefillChunk = 1 => \A d \in (s.consumed + 1)..end : d = end
      BY <1>1, <1>3
    <2> QED
      BY <1>6, <2>1
  <1> HIDE DEF states
  <1>7. /\ moved \in SeqRecord /\ moved.consumed = end /\ moved.hidden = w
        /\ moved.stream = s.stream /\ moved.generated = s.generated
        /\ moved.max_new = s.max_new /\ moved.request = s.request
        /\ moved.state = s.state /\ moved.pending = s.pending
    <2> HIDE DEF after
    <2> QED
      BY <1>1, <1>3, <1>5 DEF SeqRecord
  <1>8. w = Upto(s.stream, end) /\ w \in Strings /\ w # <<>>
    BY <1>5
  <1> HIDE DEF w, moved
  <1>9. Prefill(s) = IF end < Len(s.stream) THEN Result(moved, states, FALSE)
                     ELSE IF s.generated < s.max_new
                          THEN Result(Sample(moved, w), states, FALSE)
                          ELSE Result(Finish(moved), states, TRUE)
    BY <1>p DEF w, moved
  <1> HIDE DEF after
  <1>m. Running(s) /\ (Faithful(s) => Faithful(moved)) /\ Running(moved)
    BY <1>7 DEF Faithful, Running
  <1>r. \A u, z : /\ Result(u, states, z).seq = u /\ Result(u, states, z).states = states
                  /\ Result(u, states, z).releases = z
    BY DEF Result
  <1>10. ASSUME NEW u, NEW z, Prefill(s) = Result(u, states, z), Settled(u),
                u.consumed = end, Continues(s.stream, u.stream),
                u.request = s.request, u.max_new = s.max_new,
                z => ~Running(u), Faithful(s) => Faithful(u),
                \A d \in DOMAIN states : Upto(u.stream, d) = Upto(s.stream, d)
         PROVE  /\ Advances(s, Prefill(s))
                /\ Faithful(s) => Faithful(Prefill(s).seq)
                /\ Labelled(Prefill(s))
                /\ PrefillChunk = 1 => Complete(Prefill(s))
    <2> DEFINE x == Prefill(s)
    <2>1. x.seq = u /\ x.states = states /\ (x.releases => ~Running(u))
      BY <1>10, <1>r
    <2> HIDE DEF x
    <2>2. Labelled(x)
      BY <1>6, <2>1 DEF Labelled
    <2>3. PrefillChunk = 1 => Complete(x)
      BY <1>c, <2>1 DEF Complete
    <2>4. Advances(s, x)
      BY <1>3, <1>6, <1>10, <2>1 DEF Advances
    <2> QED
      BY <1>10, <2>1, <2>2, <2>3, <2>4 DEF x
  <1>11. CASE end < Len(s.stream)
    <2>1. Settled(moved)
      BY <1>1, <1>2, <1>3, <1>7, <1>8, <1>11 DEF Settled, Ready, Placed, Path, Running
    <2>2. Prefill(s) = Result(moved, states, FALSE)
      BY <1>9, <1>11
    <2>3. /\ Continues(s.stream, moved.stream)
          /\ \A d \in DOMAIN states : Upto(moved.stream, d) = Upto(s.stream, d)
      BY <1>1, <1>7, ContinuesItself
    <2> QED
      BY <1>7, <1>10, <1>m, <2>1, <2>2, <2>3
  <1>12. CASE ~ (end < Len(s.stream))
    <2>1. end = Len(s.stream) /\ w = s.stream
      BY <1>1, <1>3, <1>8, <1>12, Cutting
    <2>2. CASE s.generated < s.max_new
      <3> DEFINE u == Sample(moved, w)
      <3>1. /\ Settled(u) /\ u.consumed = end /\ Continues(s.stream, u.stream)
            /\ u.request = s.request /\ u.max_new = s.max_new
        BY <1>1, <1>7, <1>8, <2>1, <2>2, Telling
      <3>2. Prefill(s) = Result(u, states, FALSE)
        BY <1>9, <1>12, <2>2
      <3>f. Faithful(s) => Faithful(u)
        BY <1>7, <1>m, <2>1, <2>2, TellingFaithfully
      <3> HIDE DEF u
      <3>3. u.stream \in Strings
        BY <3>1 DEF Settled, Ready, Placed, SeqRecord
      <3>4. \A d \in DOMAIN states : Upto(u.stream, d) = Upto(s.stream, d)
        <4>1. \A d \in DOMAIN states : d \in 0..Len(s.stream)
          BY <1>1, <1>3, <1>6
        <4> QED
          BY <1>1, <3>1, <3>3, <4>1, Extending
      <3> QED
        BY <1>10, <3>1, <3>2, <3>4, <3>f
    <2>3. CASE ~ (s.generated < s.max_new)
      <3> DEFINE u == Finish(moved)
      <3>1. /\ Settled(u) /\ ~Running(u) /\ u.consumed = end /\ u.stream = s.stream
            /\ u.request = s.request /\ u.max_new = s.max_new
        BY <1>1, <1>3, <1>7, Ending
      <3>2. Prefill(s) = Result(u, states, TRUE)
        BY <1>9, <1>12, <2>3
      <3>f. Faithful(s) => Faithful(u)
        <4>1. moved.generated = moved.max_new
          BY <1>1, <1>7, <2>3
        <4> QED
          BY <1>7, <1>m, <4>1, EndingFaithfully
      <3> HIDE DEF u
      <3> QED
        BY <1>1, <1>10, <3>1, <3>2, <3>f, ContinuesItself
    <2> QED
      BY <2>2, <2>3
  <1> QED
    BY <1>11, <1>12

\* What speculation accepts is a string of the vocabulary, and nothing without it.
LEMMA AcceptedType ==
    ASSUME Chooses, NEW before \in Strings, before # <<>>, NEW k \in Nat
    PROVE  /\ Accepted(before, k) \in Strings
           /\ k = 0 => Accepted(before, k) = <<>>
  <1> DEFINE more(d) == IF d # <<>> /\ Last(d) = EOS THEN d
                        ELSE Append(d, Argmax(before \o d))
             G == [x \in Nat \X Strings |-> more(x[2])]
             Saying(g) == g = [j \in 0..k |-> IF j = 0 THEN <<>> ELSE more(g[j-1])]
             said == CHOOSE g : Saying(g)
  <1>1. \A d \in Strings : more(d) \in Strings
    <2> SUFFICES ASSUME NEW d \in Strings PROVE Append(d, Argmax(before \o d)) \in Strings
      BY Zenon
    <2>1. before \o d \in Strings /\ before \o d # <<>>
      BY Joined
    <2> QED
      BY <2>1, ArgmaxType, Appended
  <1> HIDE DEF more
  <1>2. G \in [Nat \X Strings -> Strings] /\ <<>> \in Strings
    BY <1>1 DEF Strings
  <1> HIDE DEF G
  <1>3. PICK h \in [0..k -> Strings] :
           h[0] = <<>> /\ \A j \in 1..k : h[j] = G[<<j, h[j - 1]>>]
    <2> DEFINE none == <<>>
    <2>1. none \in Strings /\ G \in [Nat \X Strings -> Strings] /\ k \in Nat
      BY <1>2
    <2> HIDE DEF none
    <2>2. \E h \in [0..k -> Strings] : Iterated(h, none, G, k)
      BY <2>1, Iterates
    <2> QED
      BY <2>2, Zenon DEF none, Iterated
  <1>4. Saying(h)
    <2>1. \A j \in 0..k : h[j] = IF j = 0 THEN <<>> ELSE more(h[j-1])
      <3> SUFFICES ASSUME NEW j \in 0..k, j # 0 PROVE h[j] = more(h[j-1])
        BY <1>3
      <3>1. j \in 1..k /\ j - 1 \in 0..k /\ j \in Nat
        OBVIOUS
      <3>2. h[j - 1] \in Strings
        BY <1>3, <3>1
      <3>3. h[j] = G[<<j, h[j - 1]>>]
        BY <1>3, <3>1
      <3>4. G[<<j, h[j - 1]>>] = more(h[j - 1])
        BY <3>1, <3>2 DEF G
      <3> QED
        BY <3>3, <3>4
    <2> QED
      BY <1>3, <2>1
  <1>5. Saying(said)
    BY <1>4, Zenon
  <1>6. Accepted(before, k) = said[k]
    BY Zenon DEF Accepted, more
  <1> HIDE DEF said
  <1>7. \A j \in 0..k : said[j] = IF j = 0 THEN <<>> ELSE more(said[j-1])
    BY <1>5, Zenon
  <1> DEFINE S == {j \in 0..k : said[j] \in Strings}
  <1>8. 0 \in S
    BY <1>2, <1>7
  <1>9. ASSUME NEW j \in 0..(k - 1), j \in S PROVE j + 1 \in S
    <2>1. j + 1 \in 0..k /\ j + 1 # 0 /\ (j + 1) - 1 = j
      OBVIOUS
    <2>2. said[j + 1] = more(said[j])
      BY <1>7, <2>1
    <2> QED
      BY <1>1, <1>9, <2>1, <2>2
  <1> HIDE DEF S
  <1>10. \A j \in 0..k : j \in S
    BY <1>8, <1>9, Reaches
  <1>11. Accepted(before, k) \in Strings
    BY <1>6, <1>10 DEF S
  <1>12. said[0] = <<>>
    BY <1>7
  <1> QED
    BY <1>6, <1>11, <1>12

\* A decode step of a sequence that holds the token it sampled last.
LEMMA Decoded ==
    ASSUME Chooses, NEW s, Ready(s), Running(s), ~Prefills(s),
           ~OutOfStream(s), NEW k \in Nat
    PROVE  /\ Advances(s, Decode(s, k))
           /\ k = 0 => /\ Faithful(s) => Faithful(Decode(s, k).seq)
                       /\ Complete(Decode(s, k))
  <1> DEFINE before == Append(s.hidden, Last(s.stream))
             drafts == Accepted(before, k)
             spoken == Cardinality({j \in DOMAIN drafts : drafts[j] # EOS})
             kept   == Min({spoken, s.max_new - s.generated})
             after  == before \o drafts
             first  == s.consumed + 1
             states == [d \in first .. first + kept |->
                          State(DraftState(before, drafts, d - first),
                                IF d = first THEN after ELSE NoLogits)]
             moved  == [s EXCEPT !.stream = @ \o Upto(drafts, kept), !.generated = @ + kept,
                                 !.consumed = first + kept, !.hidden = after]
             told   == IF kept < Len(drafts) \/ Exhausted(moved) THEN Finish(moved)
                       ELSE Sample(moved, after)
  <1>d. Decode(s, k) = Result(told, states, ~Running(told))
    BY Zenon DEF Decode
  <1>1. /\ s \in SeqRecord /\ s.consumed <= Len(s.stream) /\ s.consumed \in Nat
        /\ s.stream \in Strings /\ Len(s.stream) \in Nat /\ s.generated <= s.max_new
        /\ s.generated \in Nat /\ s.max_new \in Nat /\ s.pending = NoLogits
        /\ s.hidden = Upto(s.stream, s.consumed)
        /\ \/ s.generated = 0 /\ s.stream # <<>>
           \/ s.generated > 0 /\ Len(s.stream) = s.consumed + 1
    BY DEF Ready, Placed, SeqRecord, Strings, Path
  <1>2. s.generated > 0 /\ Len(s.stream) = first
    BY <1>1 DEF Prefills, OutOfStream, PromptLen
  <1>3. before = s.stream /\ s.stream # <<>>
    <2>1. s.stream # <<>>
      BY <1>1, <1>2
    <2>2. s.stream \in Seq(Alphabet) /\ Len(s.stream) = s.consumed + 1 /\ s.consumed \in Nat
      BY <1>1, <1>2 DEF Strings
    <2>3. s.stream = Append(SubSeq(s.stream, 1, s.consumed), s.stream[s.consumed + 1])
      <3>1. s.consumed + 1 \in 0..Len(s.stream) /\ s.consumed + 1 # 0
            /\ (s.consumed + 1) - 1 = s.consumed
        BY <2>2
      <3> QED
        BY <2>2, <3>1, Prefixing
    <2>4. before = Append(SubSeq(s.stream, 1, s.consumed), s.stream[s.consumed + 1])
      BY <1>1, <2>2 DEF Last, Upto
    <2> QED
      BY <2>1, <2>3, <2>4
  <1>n. /\ s.consumed \in Nat /\ s.generated \in Nat /\ s.max_new \in Nat
        /\ s.generated <= s.max_new /\ Len(s.stream) = s.consumed + 1
    BY <1>1, <1>2
  <1> HIDE DEF before
  <1>4. drafts \in Strings /\ (k = 0 => drafts = <<>>)
    BY <1>1, <1>3, AcceptedType
  <1> HIDE DEF drafts
  <1>5. Len(drafts) \in Nat
    BY <1>4 DEF Strings
  <1>e. DOMAIN drafts = 1..Len(drafts)
    BY <1>4 DEF Strings
  <1>6. spoken \in 0..Len(drafts)
    <2> DEFINE D == {j \in DOMAIN drafts : drafts[j] # EOS}
    <2>1. IsFiniteSet(1..Len(drafts)) /\ Cardinality(1..Len(drafts)) = Len(drafts)
      BY <1>5, FS_Interval, SMTT(30)
    <2>2. D \subseteq 1..Len(drafts)
      BY <1>e
    <2> HIDE DEF D
    <2>3. IsFiniteSet(D) /\ Cardinality(D) <= Len(drafts)
      BY <2>1, <2>2, FS_Subset
    <2>4. Cardinality(D) \in Nat
      BY <2>3, FS_CardinalityType
    <2> QED
      BY <1>5, <2>3, <2>4 DEF D
  <1> HIDE DEF spoken
  <1>7. kept \in 0..Len(drafts) /\ kept <= s.max_new - s.generated
    <2>1. kept = IF spoken <= s.max_new - s.generated THEN spoken ELSE s.max_new - s.generated
      <3>1. spoken \in Int /\ s.max_new - s.generated \in Int
        BY <1>n, <1>5, <1>6
      <3> QED
        BY <3>1, MinOfTwo, Zenon
    <2> HIDE DEF kept
    <2> QED
      BY <1>n, <1>5, <1>6, <2>1
  <1> HIDE DEF kept
  <1> DEFINE w == s.stream \o Upto(drafts, kept)
  <1>8. /\ Upto(drafts, kept) \in Strings /\ Len(Upto(drafts, kept)) = kept
        /\ \A j \in 0..kept : Upto(Upto(drafts, kept), j) = Upto(drafts, j)
        /\ kept = Len(drafts) => Upto(drafts, kept) = drafts
    BY <1>4, <1>5, <1>7, Cutting
  <1>9. /\ w \in Strings /\ Len(w) = first + kept /\ Continues(s.stream, w) /\ w # <<>>
        /\ \A j \in 0..kept : Upto(w, first + j) = s.stream \o Upto(drafts, j)
    <2>1. s.stream \in Strings /\ s.stream # <<>>
      BY <1>1, <1>3
    <2> DEFINE t == Upto(drafts, kept)
    <2>2. t \in Strings /\ Len(t) = kept /\ \A j \in 0..kept : Upto(t, j) = Upto(drafts, j)
      BY <1>8
    <2> HIDE DEF t
    <2>3. /\ s.stream \o t \in Strings /\ Len(s.stream \o t) = Len(s.stream) + Len(t)
          /\ Continues(s.stream, s.stream \o t) /\ s.stream \o t # <<>>
      BY <2>1, <2>2, Joined
    <2>4. \A j \in 0..Len(t) : Upto(s.stream \o t, Len(s.stream) + j) = s.stream \o Upto(t, j)
      BY <2>1, <2>2, Joined, Zenon
    <2>5. w = s.stream \o t
      BY DEF t
    <2> HIDE DEF w
    <2> QED
      BY <1>n, <2>2, <2>3, <2>4, <2>5
  <1>10. after \in Strings /\ after # <<>> /\ (kept = Len(drafts) => after = w)
    BY <1>1, <1>3, <1>4, <1>8, Joined
  <1>z. k = 0 => kept = 0 /\ Len(drafts) = 0 /\ w = s.stream /\ after = s.stream
    <2> SUFFICES ASSUME k = 0
                 PROVE  kept = 0 /\ Len(drafts) = 0 /\ w = s.stream /\ after = s.stream
      OBVIOUS
    <2>1. Len(drafts) = 0
      BY <1>4
    <2>2. kept = 0
      BY <1>5, <1>7, <2>1
    <2>3. \A t \in Strings : Len(t) = 0 => s.stream \o t = s.stream
      BY <1>1 DEF Strings
    <2>4. w = s.stream
      BY <1>8, <2>2, <2>3
    <2> QED
      BY <1>10, <2>1, <2>2, <2>4
  <1> HIDE DEF after
  <1>11. /\ DOMAIN states = (s.consumed + 1)..(first + kept)
         /\ \A d \in DOMAIN states : /\ states[d].hidden = Upto(w, d)
                                     /\ states[d].logits \in Logits
                                     /\ d = first => states[d].logits = after
    <2>1. DOMAIN states = (s.consumed + 1)..(first + kept)
      OBVIOUS
    <2> SUFFICES ASSUME NEW e \in first .. first + kept
                 PROVE  /\ states[e].hidden = Upto(w, e) /\ states[e].logits \in Logits
                        /\ e = first => states[e].logits = after
      BY <2>1, Zenon
    <2>2. states[e] = State(DraftState(before, drafts, e - first),
                            IF e = first THEN after ELSE NoLogits)
      BY Zenon
    <2>3. /\ states[e].hidden = DraftState(before, drafts, e - first)
          /\ states[e].logits \in {after, NoLogits}
          /\ e = first => states[e].logits = after
      BY <2>2 DEF State
    <2> HIDE DEF states, w
    <2>4. e - first \in 0..kept /\ first + (e - first) = e
      BY <1>n, <1>5, <1>7
    <2>5. Upto(w, e) = s.stream \o Upto(drafts, e - first)
      BY <1>9, <2>4
    <2>6. states[e].hidden = Upto(w, e)
      BY <1>3, <2>3, <2>5 DEF DraftState
    <2>7. states[e].logits \in Logits
      BY <1>10, <2>3 DEF Logits
    <2> QED
      BY <2>3, <2>6, <2>7
  <1> HIDE DEF states
  <1>12. /\ moved \in SeqRecord /\ moved.stream = w /\ moved.generated = s.generated + kept
         /\ moved.consumed = first + kept /\ moved.hidden = after
         /\ moved.max_new = s.max_new /\ moved.request = s.request
         /\ moved.state = s.state /\ moved.pending = s.pending
    <2>1. first + kept \in Nat /\ s.generated + kept \in Nat
      BY <1>n, <1>5, <1>7
    <2> QED
      BY <1>1, <1>9, <1>10, <2>1 DEF SeqRecord
  <1> HIDE DEF moved, w
  <1>13. /\ Settled(told) /\ told.consumed = first + kept /\ Continues(w, told.stream)
         /\ told.request = s.request /\ told.max_new = s.max_new
    <2>1. CASE kept < Len(drafts) \/ Exhausted(moved)
      <3>1. told = Finish(moved)
        BY <2>1
      <3>2. moved.consumed <= Len(moved.stream) /\ moved.generated <= moved.max_new
        BY <1>n, <1>5, <1>7, <1>9, <1>12
      <3> QED
        BY <1>1, <1>9, <1>12, <3>1, <3>2, Ending, ContinuesItself
    <2>2. CASE ~ (kept < Len(drafts) \/ Exhausted(moved))
      <3>1. told = Sample(moved, after)
        BY <2>2
      <3>2. kept = Len(drafts) /\ moved.generated < moved.max_new
        BY <1>n, <1>5, <1>7, <1>12, <2>2 DEF Exhausted
      <3>3. /\ moved.consumed = Len(moved.stream) /\ moved.hidden = moved.stream
            /\ moved.stream # <<>> /\ moved.pending = NoLogits /\ after = moved.stream
        BY <1>1, <1>9, <1>10, <1>12, <3>2
      <3> QED
        BY <1>12, <3>1, <3>2, <3>3, Telling
    <2> QED
      BY <2>1, <2>2
  <1>f. k = 0 /\ Faithful(s) => Faithful(told)
    <2> SUFFICES ASSUME k = 0, Faithful(s) PROVE Faithful(told)
      OBVIOUS
    <2>1. Running(moved) /\ Faithful(moved)
      <3>1. moved.generated = s.generated /\ moved.stream = s.stream
        BY <1>n, <1>12, <1>z
      <3> QED
        BY <1>12, <3>1 DEF Faithful, Running
    <2>2. ~ (kept < Len(drafts)) /\ after = moved.stream
      BY <1>12, <1>z
    <2>3. CASE Exhausted(moved)
      <3>1. told = Finish(moved)
        BY <2>3
      <3>2. moved.generated = moved.max_new
        BY <1>n, <1>12, <1>z, <2>3 DEF Exhausted
      <3> QED
        BY <1>12, <2>1, <3>1, <3>2, EndingFaithfully
    <2>4. CASE ~Exhausted(moved)
      <3>1. told = Sample(moved, moved.stream)
        BY <2>2, <2>4
      <3>2. moved.generated < moved.max_new
        BY <1>n, <1>12, <1>z, <2>4 DEF Exhausted
      <3> QED
        BY <1>12, <2>1, <3>1, <3>2, TellingFaithfully
    <2> QED
      BY <2>3, <2>4
  <1>g. k = 0 => \A d \in DOMAIN states : states[d].logits = states[d].hidden
    <2> SUFFICES ASSUME k = 0, NEW d \in DOMAIN states
                 PROVE  states[d].logits = states[d].hidden
      OBVIOUS
    <2>1. d = first
      BY <1>n, <1>11, <1>z
    <2>2. states[d].logits = s.stream /\ states[d].hidden = Upto(s.stream, d)
      BY <1>11, <1>z, <2>1
    <2>3. d = Len(s.stream) /\ Len(s.stream) \in 0..Len(s.stream)
      BY <1>n, <2>1
    <2> QED
      BY <1>1, <2>2, <2>3, Cutting
  <1> HIDE DEF told
  <1>14. told.stream \in Strings
    BY <1>13 DEF Settled, Ready, Placed, SeqRecord
  <1>15. Continues(s.stream, told.stream)
    BY <1>1, <1>9, <1>13, <1>14, ContinuesAgain
  <1>16. \A d \in DOMAIN states : states[d].hidden = Upto(told.stream, d)
    <2>1. \A d \in 0..Len(w) : Upto(told.stream, d) = Upto(w, d)
      BY <1>9, <1>13, <1>14, Extending
    <2>2. \A d \in DOMAIN states : d \in 0..Len(w)
      BY <1>n, <1>5, <1>7, <1>9, <1>11
    <2> QED
      BY <1>11, <2>1, <2>2
  <1>17. told.consumed > s.consumed
    BY <1>n, <1>5, <1>7, <1>13
  <1> DEFINE r == Decode(s, k)
  <1>18. r.seq = told /\ r.states = states /\ (r.releases => ~Running(told))
    <2>1. r = [seq |-> told, states |-> states, releases |-> ~Running(told)]
      BY <1>d, Zenon DEF Result
    <2> HIDE DEF r
    <2>2. r.seq = told /\ r.states = states
      BY <2>1
    <2>3. r.releases = ~Running(told)
      BY <2>1
    <2> QED
      BY <2>2, <2>3, Zenon
  <1> HIDE DEF r
  <1>19. Advances(s, r)
    BY <1>11, <1>13, <1>15, <1>16, <1>17, <1>18 DEF Advances
  <1>20. k = 0 => (Faithful(s) => Faithful(r.seq)) /\ Complete(r)
    BY <1>18, <1>f, <1>g DEF Complete
  <1> QED
    BY <1>19, <1>20 DEF r

-----------------------------------------------------------------------------
(* The pool                                                                 *)

Cached == [hidden : Strings, logits : Logits, last : Nat, pinned : Nat]

\* A pool of states, each the state of its node.
Pool(c) ==
    /\ IsFiniteSet(DOMAIN c) /\ DOMAIN c \subseteq Strings
    /\ \A n \in DOMAIN c : c[n] \in Cached /\ c[n].hidden = n

\* The path of a running sequence is in the graph.
Rooted(s) == Running(s) => \A d \in 0..s.consumed : Upto(s.stream, d) \in graph

Queued == [stream : Strings \ {<<>>}, max_new : Nat]

\* The inductive invariant of reuse: every cached state is its node's, every running
\* sequence carries the state of its path, and no running sequence waits with
\* unsampled logits or outside of the graph.
ReuseExact ==
    /\ Chooses /\ stepIndex \in Nat
    /\ graph \subseteq Strings /\ <<>> \in graph
    /\ Pool(cache) /\ DOMAIN cache \subseteq graph
    /\ queue \in Seq(Queued)
    /\ sequences \in Seq(SeqRecord)
    /\ \A i \in DOMAIN sequences : Settled(sequences[i]) /\ Rooted(sequences[i])

\* A request resumed from the longest resident prefix of its prompt.
LEMMA Resuming ==
    ASSUME <<>> \in graph, Pool(cache), NEW q \in Queued
    PROVE  LET t == Resumed(q) IN
           /\ Entering(t) /\ Running(t) /\ Rooted(t)
           /\ t.stream = q.stream /\ t.request = q.stream /\ t.max_new = q.max_new
           /\ t.generated = 0
           /\ t.consumed = Len(t.stream) =>
                 t.stream \in DOMAIN cache /\ t.pending = cache[t.stream].logits
  <1> DEFINE p == q.stream
             D == {d \in 0..Len(p) : \A j \in 1..d : Resident(Upto(p, j))}
             d == Matched(p)
             t == Resumed(q)
  <1>1. p \in Strings /\ Len(p) \in Nat /\ p # <<>> /\ q.max_new \in Nat
    BY DEF Queued, Strings
  <1>2. d \in 0..Len(p) /\ \A j \in 1..d : Resident(Upto(p, j))
    <2>1. 0 \in D /\ \A x \in D : x \in Int
      BY <1>1
    <2>2. D \subseteq 0..Len(p)
      OBVIOUS
    <2>3. d = Max(D)
      BY Zenon DEF Matched
    <2> HIDE DEF D, d
    <2>4. IsFiniteSet(D)
      <3>1. IsFiniteSet(0..Len(p))
        <4> HIDE DEF p
        <4> QED
          BY <1>1, FS_Interval
      <3> QED
        BY <2>2, <3>1, FS_Subset
    <2>5. d \in D
      BY <2>1, <2>3, <2>4, MaxExists
    <2> QED
      BY <2>5 DEF D
  <1> HIDE DEF D
  <1>3. Upto(p, d) \in Strings /\ Upto(p, Len(p)) = p
    BY <1>1, <1>2, Cutting
  <1>4. d # 0 => Upto(p, d) \in DOMAIN cache
    <2>1. d # 0 => d \in 1..d
      BY <1>1, <1>2
    <2> QED
      BY <1>2, <2>1 DEF Resident
  <1>5. Hidden(p, d) = Upto(p, d)
    <2>1. CASE d = 0
      <3>1. Upto(p, 0) = <<>>
        BY <1>1, Prefixing DEF Upto, Strings
      <3> QED
        BY <2>1, <3>1 DEF Hidden
    <2>2. CASE d # 0
      BY <1>4, <2>2 DEF Hidden, Pool
    <2> QED
      BY <2>1, <2>2
  <1>6. /\ Pending(p, d) \in Logits /\ (Pending(p, d) # NoLogits => d = Len(p))
        /\ d = Len(p) => p \in DOMAIN cache /\ Pending(p, d) = cache[p].logits
    <2>1. CASE d = Len(p)
      <3>1. d # 0
        BY <1>1, <2>1 DEF Strings
      <3>2. p \in DOMAIN cache
        BY <1>3, <1>4, <2>1, <3>1
      <3> QED
        BY <2>1, <3>2 DEF Pending, Pool, Cached
    <2>2. CASE d # Len(p)
      BY <2>2 DEF Pending, Logits
    <2> QED
      BY <2>1, <2>2
  <1> HIDE DEF d
  <1>7. t = [request |-> p, stream |-> p, max_new |-> q.max_new, generated |-> 0,
             state |-> "Running", consumed |-> d, pending |-> Pending(p, d),
             hidden |-> Hidden(p, d)]
    BY DEF Resumed, d
  <1> HIDE DEF p, t
  <1>8. /\ t \in SeqRecord /\ t.stream = p /\ t.request = p /\ t.max_new = q.max_new
        /\ t.generated = 0 /\ t.state = "Running" /\ t.consumed = d
        /\ t.pending = Pending(p, d) /\ t.hidden = Upto(p, d)
    BY <1>1, <1>2, <1>3, <1>5, <1>6, <1>7 DEF SeqRecord
  <1>9. Running(t) /\ Path(t) = Upto(p, d)
    BY <1>8 DEF Running, Path
  <1>10. Entering(t)
    BY <1>1, <1>2, <1>6, <1>8, <1>9 DEF Entering, Placed
  <1>11. Rooted(t)
    <2>1. \A e \in 0..d : e = 0 \/ e \in 1..d
      BY <1>1, <1>2
    <2>2. Upto(p, 0) = <<>>
      BY <1>1, Prefixing DEF Upto, Strings
    <2> QED
      BY <1>2, <1>8, <2>1, <2>2 DEF Rooted, Resident
  <1>12. t.consumed = Len(t.stream) =>
            t.stream \in DOMAIN cache /\ t.pending = cache[t.stream].logits
    BY <1>6, <1>8
  <1> QED
    BY <1>8, <1>9, <1>10, <1>11, <1>12 DEF t, p

-----------------------------------------------------------------------------
(* A step                                                                   *)

LEMMA MonusIs == ASSUME NEW a \in Int, NEW b \in Int
                 PROVE  Monus(a, b) \in Nat /\ Monus(a, b) = IF a >= b THEN a - b ELSE 0
  <1>1. Max({0, a - b}) = IF 0 >= a - b THEN 0 ELSE a - b
    BY MaxOfTwo
  <1> QED
    BY <1>1 DEF Monus

\* There is room for a number of requests.
LEMMA RoomIs == ASSUME IsFiniteSet(Live) PROVE Room \in Nat
  <1>1. MaxBatch \in Nat /\ LiveStateBudget \in Nat /\ HiddenBytes \in Nat /\ HiddenBytes > 0
    BY ServeAssumption
  <1>2. LiveStateBudget \div HiddenBytes \in Int
    BY <1>1
  <1>3. Min({MaxBatch, LiveStateBudget \div HiddenBytes}) \in Int
    BY <1>1, <1>2, MinOfTwo
  <1>4. Cardinality(Live) \in Nat
    BY FS_CardinalityType
  <1> QED
    BY <1>3, <1>4, MonusIs DEF Room, MaxLive

\* s0 are the sequences and behind them those admitted.
Behind(new, s0) ==
    /\ DOMAIN new = 1..Len(new) /\ Len(new) \in Nat /\ Len(sequences) \in Nat
    /\ DOMAIN sequences = 1..Len(sequences)
    /\ DOMAIN s0 = 1..(Len(sequences) + Len(new))
    /\ \A i \in DOMAIN sequences : i \in DOMAIN s0 /\ s0[i] = sequences[i]
    /\ \A j \in DOMAIN new : s0[Len(sequences) + j] = new[j]

LEMMA Admission ==
    ASSUME ReuseExact
    PROVE  LET new == Admitted
               s0  == sequences \o new
           IN  /\ Behind(new, s0)
               /\ Len(new) <= Len(queue)
               /\ \A j \in DOMAIN new : Running(new[j]) /\ \E q \in Queued : new[j] = Resumed(q)
               /\ \A i \in DOMAIN s0 : Entering(s0[i]) /\ Rooted(s0[i])
               /\ SubSeq(queue, Len(new) + 1, Len(queue)) \in Seq(Queued)
  <1> DEFINE new == Admitted
             s0 == sequences \o new
             m == Min({Len(queue), Room})
  <1>1. /\ sequences \in Seq(SeqRecord) /\ Len(sequences) \in Nat
        /\ DOMAIN sequences = 1..Len(sequences)
    BY DEF ReuseExact
  <1>2. queue \in Seq(Queued) /\ Len(queue) \in Nat
    BY DEF ReuseExact
  <1>3. m \in 0..Len(queue)
    <2>1. IsFiniteSet(1..Len(sequences)) /\ Live \subseteq 1..Len(sequences)
      BY <1>1, FS_Interval DEF Live
    <2>2. Room \in Nat
      BY <2>1, FS_Subset, RoomIs
    <2>3. m = IF Len(queue) <= Room THEN Len(queue) ELSE Room
      BY <1>2, <2>2, MinOfTwo
    <2> HIDE DEF m
    <2> QED
      BY <1>2, <2>2, <2>3
  <1>4. new = [j \in 1..m |-> Resumed(queue[j])]
    BY Zenon DEF Admitted
  <1> HIDE DEF m
  <1>5. \A j \in 1..m : /\ Entering(Resumed(queue[j])) /\ Running(Resumed(queue[j]))
                        /\ Rooted(Resumed(queue[j]))
    <2> SUFFICES ASSUME NEW j \in 1..m
                 PROVE  LET t == Resumed(queue[j]) IN Entering(t) /\ Running(t) /\ Rooted(t)
      BY Zenon
    <2>1. queue[j] \in Queued
      BY <1>2, <1>3
    <2> QED
      BY <2>1, Resuming DEF ReuseExact
  <1>6. \A j \in 1..m : Resumed(queue[j]) \in SeqRecord
    BY <1>5 DEF Entering, Placed
  <1>7. new \in Seq(SeqRecord) /\ Len(new) = m /\ DOMAIN new = 1..m
    <2>1. m \in Nat
      BY <1>2, <1>3
    <2> HIDE DEF new
    <2> QED
      BY <1>4, <1>6, <2>1
  <1>8. \A j \in DOMAIN new : Entering(new[j]) /\ Running(new[j]) /\ Rooted(new[j])
    BY <1>4, <1>5, <1>7
  <1>q. \A j \in DOMAIN new : \E q \in Queued : new[j] = Resumed(q)
    <2>1. \A j \in 1..m : queue[j] \in Queued
      BY <1>2, <1>3
    <2> HIDE DEF new
    <2> QED
      BY <1>4, <1>7, <2>1, SMTT(30)
  <1> HIDE DEF new
  <1>9. Behind(new, s0)
    BY <1>1, <1>2, <1>3, <1>7 DEF Behind
  <1>10. ASSUME NEW i \in DOMAIN s0 PROVE Entering(s0[i]) /\ Rooted(s0[i])
    <2>1. CASE i \in DOMAIN sequences
      <3>1. s0[i] = sequences[i] /\ Settled(sequences[i]) /\ Rooted(sequences[i])
        BY <1>9, <2>1 DEF Behind, ReuseExact
      <3> HIDE DEF s0
      <3>2. Running(s0[i]) => s0[i].pending = NoLogits
        BY <3>1 DEF Settled, Ready
      <3> QED
        BY <3>1, <3>2 DEF Settled, Ready, Entering
    <2>2. CASE i \notin DOMAIN sequences
      <3>1. i - Len(sequences) \in DOMAIN new /\ i = Len(sequences) + (i - Len(sequences))
        BY <1>9, <2>2 DEF Behind
      <3>2. s0[i] = new[i - Len(sequences)]
        BY <1>9, <3>1 DEF Behind
      <3> HIDE DEF s0
      <3> QED
        BY <1>8, <3>1, <3>2
    <2> QED
      BY <2>1, <2>2
  <1>11. SubSeq(queue, Len(new) + 1, Len(queue)) \in Seq(Queued)
    BY <1>2, <1>3, <1>7
  <1>12. Len(new) <= Len(queue)
    BY <1>2, <1>3, <1>7
  <1> QED
    BY <1>8, <1>9, <1>10, <1>11, <1>12, <1>q DEF new

\* A step by its parts: the sequences and behind them those admitted, seeded; what
\* the step does to those that run; the pool as stored and pinned, unpinned, evicted.
All      == sequences \o Admitted
Seeds    == [i \in DOMAIN All |-> Seed(All[i])]
Freed(r) == {i \in DOMAIN All : Seeded(All[i]) /\ All[i].max_new = 0}
                \cup {i \in DOMAIN r : r[i].releases}
Outcome(block, s, x) ==
    \/ Prefills(s) /\ x = Prefill(s)
    \/ ~Prefills(s) /\ ~OutOfStream(s) /\ \E k \in 0..block : x = Decode(s, k)
Filled(r) == Stored(Seeds, r, AfterAdmission(Admitted))
Freeing(r) == Unpinned(sequences', Freed(r), Filled(r))
Moved(block, r, bytes, V) ==
    /\ DOMAIN r = Runs(Seeds) /\ \A i \in DOMAIN r : Outcome(block, Seeds[i], r[i])
    /\ sequences' = [i \in DOMAIN Seeds |-> IF i \in DOMAIN r THEN r[i].seq ELSE Seeds[i]]
    /\ graph' = graph \cup UNION {Visited(r[i]) : i \in DOMAIN r}
    /\ bytes = cacheBytes + BytesOf(Filled(r), DOMAIN Filled(r) \ DOMAIN cache)
    /\ V \in Victims(Freeing(r), bytes)
    /\ cache' = Restrict(Freeing(r), DOMAIN Freeing(r) \ V)
    /\ cacheBytes' = Monus(bytes, BytesOf(Freeing(r), V))
    /\ queue' = SubSeq(queue, Len(Admitted) + 1, Len(queue))
    /\ stepIndex' = Now
    /\ greedy' = greedy /\ panicked' = panicked
    /\ report' = "Idle" => DOMAIN r = {}

\* The body of StepUpTo.
Body(block, new, s0, s1) ==
    LET go      == Runs(s1)
        decodes == {i \in go : ~Prefills(s1[i])}
    IN  IF \E i \in decodes : OutOfStream(s1[i])
        THEN /\ panicked' = TRUE
             /\ UNCHANGED <<greedy, graph, cache, cacheBytes, sequences, queue,
                            stepIndex, report>>
        ELSE /\ \E k \in [decodes -> 0..block] :
                \E r \in {[i \in go |-> IF i \in decodes THEN Decode(s1[i], k[i])
                                        ELSE Prefill(s1[i])]} :
                \E released \in {{i \in DOMAIN s0 : Seeded(s0[i]) /\ s0[i].max_new = 0}
                                 \cup {i \in go : r[i].releases}} :
                /\ sequences' = [i \in DOMAIN s1 |-> IF i \in go THEN r[i].seq
                                                     ELSE s1[i]]
                /\ graph' = graph \cup UNION {Visited(r[i]) : i \in go}
                /\ \E c1 \in {Stored(s1, r, AfterAdmission(new))} :
                   \E c2 \in {Unpinned(sequences', released, c1)} :
                   \E bytes \in {cacheBytes + BytesOf(c1, DOMAIN c1 \ DOMAIN cache)} :
                   \E V \in Victims(c2, bytes) :
                   /\ cache' = Restrict(c2, DOMAIN c2 \ V)
                   /\ cacheBytes' = Monus(bytes, BytesOf(c2, V))
             /\ queue' = SubSeq(queue, Len(new) + 1, Len(queue))
             /\ stepIndex' = Now
             /\ report' = IF go = {} THEN "Idle"
                          ELSE IF decodes # go THEN "Prefill" ELSE "Decode"
             /\ UNCHANGED <<greedy, panicked>>

LEMMA Unfolding ==
    ASSUME NEW block \in Nat, StepUpTo(block)
    PROVE  \/ \E r, bytes, V : Moved(block, r, bytes, V)
           \/ /\ UNCHANGED <<greedy, graph, cache, cacheBytes, sequences, queue, stepIndex>>
              /\ panicked'
              /\ \E i \in Runs(Seeds) : ~Prefills(Seeds[i]) /\ OutOfStream(Seeds[i])
  <1> DEFINE go == Runs(Seeds)
             decodes == {i \in go : ~Prefills(Seeds[i])}
  <1>0. Body(block, Admitted, All, Seeds)
    <2>1. \E new \in {Admitted} : \E s0 \in {sequences \o new} :
          \E s1 \in {[i \in DOMAIN s0 |-> Seed(s0[i])]} : Body(block, new, s0, s1)
      BY Zenon DEF StepUpTo, Body
    <2> QED
      BY <2>1, Zenon DEF All, Seeds
  <1>1. CASE \E i \in decodes : OutOfStream(Seeds[i])
    <2>1. \E i \in go : ~Prefills(Seeds[i]) /\ OutOfStream(Seeds[i])
      BY <1>1, Zenon
    <2>2. /\ UNCHANGED <<greedy, graph, cache, cacheBytes, sequences, queue, stepIndex>>
          /\ panicked' = TRUE
      BY <1>0, <1>1, Zenon DEF Body
    <2> QED
      BY <2>1, <2>2
  <1>2. CASE ~ \E i \in decodes : OutOfStream(Seeds[i])
    <2>1. /\ \E k \in [decodes -> 0..block] :
             \E r \in {[i \in go |-> IF i \in decodes THEN Decode(Seeds[i], k[i])
                                     ELSE Prefill(Seeds[i])]} :
             \E released \in {{i \in DOMAIN All : Seeded(All[i]) /\ All[i].max_new = 0}
                              \cup {i \in go : r[i].releases}} :
             /\ sequences' = [i \in DOMAIN Seeds |-> IF i \in go THEN r[i].seq ELSE Seeds[i]]
             /\ graph' = graph \cup UNION {Visited(r[i]) : i \in go}
             /\ \E c1 \in {Stored(Seeds, r, AfterAdmission(Admitted))} :
                \E c2 \in {Unpinned(sequences', released, c1)} :
                \E bytes \in {cacheBytes + BytesOf(c1, DOMAIN c1 \ DOMAIN cache)} :
                \E V \in Victims(c2, bytes) :
                /\ cache' = Restrict(c2, DOMAIN c2 \ V)
                /\ cacheBytes' = Monus(bytes, BytesOf(c2, V))
          /\ queue' = SubSeq(queue, Len(Admitted) + 1, Len(queue))
          /\ stepIndex' = Now
          /\ greedy' = greedy /\ panicked' = panicked
          /\ report' = IF go = {} THEN "Idle"
                       ELSE IF decodes # go THEN "Prefill" ELSE "Decode"
      BY <1>0, <1>2, Zenon DEF Body
    <2>2. PICK k \in [decodes -> 0..block] :
             \E r \in {[i \in go |-> IF i \in decodes THEN Decode(Seeds[i], k[i])
                                     ELSE Prefill(Seeds[i])]} :
             \E released \in {{i \in DOMAIN All : Seeded(All[i]) /\ All[i].max_new = 0}
                              \cup {i \in go : r[i].releases}} :
             /\ sequences' = [i \in DOMAIN Seeds |-> IF i \in go THEN r[i].seq ELSE Seeds[i]]
             /\ graph' = graph \cup UNION {Visited(r[i]) : i \in go}
             /\ \E c1 \in {Stored(Seeds, r, AfterAdmission(Admitted))} :
                \E c2 \in {Unpinned(sequences', released, c1)} :
                \E bytes \in {cacheBytes + BytesOf(c1, DOMAIN c1 \ DOMAIN cache)} :
                \E V \in Victims(c2, bytes) :
                /\ cache' = Restrict(c2, DOMAIN c2 \ V)
                /\ cacheBytes' = Monus(bytes, BytesOf(c2, V))
      BY <2>1, Zenon
    <2> DEFINE r == [i \in go |-> IF i \in decodes THEN Decode(Seeds[i], k[i])
                                  ELSE Prefill(Seeds[i])]
    <2>3. DOMAIN r = go
      OBVIOUS
    <2>4. ASSUME NEW i \in go PROVE Outcome(block, Seeds[i], r[i])
      <3>1. CASE Prefills(Seeds[i])
        <4>1. r[i] = Prefill(Seeds[i])
          BY <2>4, <3>1, Zenon
        <4> QED
          BY <3>1, <4>1 DEF Outcome
      <3>2. CASE ~ Prefills(Seeds[i])
        <4>1. i \in decodes /\ r[i] = Decode(Seeds[i], k[i])
          BY <2>4, <3>2, Zenon
        <4>2. k[i] \in 0..block
          BY <4>1, Zenon
        <4>3. ~ OutOfStream(Seeds[i])
          BY <1>2, <4>1, Zenon
        <4> HIDE DEF r
        <4>4. \E x \in 0..block : r[i] = Decode(Seeds[i], x)
          BY <4>1, <4>2, Zenon
        <4> QED
          BY <3>2, <4>3, <4>4 DEF Outcome
      <3> QED
        BY <3>1, <3>2
    <2>5. Freed(r) = {i \in DOMAIN All : Seeded(All[i]) /\ All[i].max_new = 0}
                         \cup {i \in go : r[i].releases}
      BY <2>3, Zenon DEF Freed
    <2>6. /\ sequences' = [i \in DOMAIN Seeds |-> IF i \in go THEN r[i].seq ELSE Seeds[i]]
          /\ graph' = graph \cup UNION {Visited(r[i]) : i \in go}
          /\ \E bytes \in {cacheBytes + BytesOf(Filled(r), DOMAIN Filled(r) \ DOMAIN cache)} :
             \E V \in Victims(Freeing(r), bytes) :
                /\ cache' = Restrict(Freeing(r), DOMAIN Freeing(r) \ V)
                /\ cacheBytes' = Monus(bytes, BytesOf(Freeing(r), V))
      <3>1. \E released \in {Freed(r)} :
             /\ sequences' = [i \in DOMAIN Seeds |-> IF i \in go THEN r[i].seq ELSE Seeds[i]]
             /\ graph' = graph \cup UNION {Visited(r[i]) : i \in go}
             /\ \E c1 \in {Stored(Seeds, r, AfterAdmission(Admitted))} :
                \E c2 \in {Unpinned(sequences', released, c1)} :
                \E bytes \in {cacheBytes + BytesOf(c1, DOMAIN c1 \ DOMAIN cache)} :
                \E V \in Victims(c2, bytes) :
                /\ cache' = Restrict(c2, DOMAIN c2 \ V)
                /\ cacheBytes' = Monus(bytes, BytesOf(c2, V))
        BY <2>2, <2>5, Zenon
      <3> HIDE DEF r, go, decodes
      <3> QED
        BY <3>1, Zenon DEF Filled, Freeing
    <2>7. report' = "Idle" => DOMAIN r = {}
      <3> HIDE DEF r, go, decodes
      <3> QED
        BY <2>1, <2>3
    <2> HIDE DEF r, decodes
    <2> QED
      BY <2>1, <2>3, <2>4, <2>6, <2>7, Zenon DEF Moved
  <1> QED
    BY <1>1, <1>2

LEMMA PrefixIs ==
    ASSUME NEW s \in Strings, NEW t \in Strings
    PROVE  IsPrefix(s, t) <=> Continues(s, t)
  <1>1. Upto(s, Len(s)) = s /\ Len(s) \in Nat
    <2>1. Len(s) \in 0..Len(s)
      BY DEF Strings
    <2> QED
      BY <2>1, Cutting
  <1> QED
    BY <1>1 DEF IsPrefix, Continues, Upto

LEMMA OutcomeAdvances ==
    ASSUME Chooses, NEW s, Ready(s), Running(s), NEW block \in Nat, NEW x, Outcome(block, s, x)
    PROVE  /\ Advances(s, x)
           /\ block = 0 => /\ Faithful(s) => Faithful(x.seq)
                           /\ Labelled(x)
                           /\ PrefillChunk = 1 => Complete(x)
  <1>1. CASE Prefills(s)
    <2>1. x = Prefill(s)
      BY <1>1 DEF Outcome
    <2> QED
      BY <1>1, <2>1, Prefilled
  <1>2. CASE ~Prefills(s)
    <2>1. PICK k \in 0..block : x = Decode(s, k) /\ ~OutOfStream(s)
      BY <1>2 DEF Outcome
    <2>2. k \in Nat /\ (block = 0 => k = 0)
      OBVIOUS
    <2>3. Complete(x) => Labelled(x)
      BY DEF Complete, Labelled
    <2> QED
      BY <1>2, <2>1, <2>2, <2>3, Decoded
  <1> QED
    BY <1>1, <1>2

\* What the sequences are when the step begins to run them, and what became of them.
Entered ==
    /\ Behind(Admitted, All)
    /\ \A j \in DOMAIN Admitted :
         Running(Admitted[j]) /\ \E q \in Queued : Admitted[j] = Resumed(q)
    /\ DOMAIN Seeds = DOMAIN All
    /\ \A i \in DOMAIN All :
         /\ Entering(All[i]) /\ Rooted(All[i]) /\ Ready(Seeds[i]) /\ Rooted(Seeds[i])
         /\ Path(Seeds[i]) = Path(All[i])
         /\ Running(Seeds[i]) => Running(All[i])
         /\ ~Seeded(All[i]) => Seeds[i] = All[i]
         /\ Seeds[i] = Seed(All[i])
         /\ Seeded(All[i]) => /\ Running(All[i]) /\ (All[i].max_new = 0 => ~Running(Seeds[i]))
                              /\ Running(Seeds[i]) => Seeds[i].generated = 1
Went(r) ==
    /\ Entered
    /\ DOMAIN sequences' = DOMAIN All
    /\ DOMAIN r = {i \in DOMAIN All : Running(Seeds[i])}
    /\ \A i \in DOMAIN r :
         Advances(Seeds[i], r[i]) /\ sequences'[i] = r[i].seq
    /\ \A i \in DOMAIN All \ DOMAIN r : sequences'[i] = Seeds[i]

LEMMA Entry == ASSUME ReuseExact PROVE Entered
  <1>1. /\ Behind(Admitted, All)
        /\ \A j \in DOMAIN Admitted :
             Running(Admitted[j]) /\ \E q \in Queued : Admitted[j] = Resumed(q)
        /\ \A i \in DOMAIN All : Entering(All[i]) /\ Rooted(All[i])
    BY Admission DEF All
  <1>2. /\ DOMAIN Seeds = DOMAIN All /\ \A i \in DOMAIN All : Seeds[i] = Seed(All[i])
    BY DEF Seeds
  <1>3. ASSUME NEW i \in DOMAIN All
        PROVE  /\ Ready(Seeds[i]) /\ Rooted(Seeds[i]) /\ Path(Seeds[i]) = Path(All[i])
               /\ Running(Seeds[i]) => Running(All[i])
               /\ ~Seeded(All[i]) => Seeds[i] = All[i]
               /\ Seeded(All[i]) => /\ Running(All[i]) /\ (All[i].max_new = 0 => ~Running(Seeds[i]))
                                    /\ Running(Seeds[i]) => Seeds[i].generated = 1
    <2> DEFINE s == All[i]
               t == Seeds[i]
    <2>1. /\ Ready(t) /\ t.consumed = s.consumed /\ Continues(s.stream, t.stream)
          /\ Path(t) = Path(s)
          /\ Running(t) => Running(s)
          /\ ~Seeded(s) => t = s
          /\ Seeded(s) => /\ Running(s) /\ (s.max_new = 0 => ~Running(t))
                          /\ Running(t) => t.generated = 1
      BY <1>1, <1>2, Seeding DEF ReuseExact
    <2>2. Entering(s) /\ Rooted(s)
      BY <1>1
    <2> HIDE DEF s, t
    <2>3. Rooted(t)
      <3>1. /\ s.stream \in Strings /\ t.stream \in Strings /\ s.consumed \in Nat
            /\ s.consumed <= Len(s.stream) /\ Len(s.stream) \in Nat
        BY <2>1, <2>2 DEF Entering, Ready, Placed, SeqRecord, Strings
      <3>2. \A d \in 0..Len(s.stream) : Upto(t.stream, d) = Upto(s.stream, d)
        BY <2>1, <3>1, Extending
      <3>3. \A d \in 0..s.consumed : d \in 0..Len(s.stream)
        BY <3>1
      <3> QED
        BY <2>1, <2>2, <3>2, <3>3 DEF Rooted
    <2> QED
      BY <2>1, <2>3 DEF s, t
  <1> QED
    BY <1>1, <1>2, <1>3 DEF Entered

LEMMA Sequencing ==
    ASSUME ReuseExact, NEW block \in Nat, NEW r, NEW bytes, NEW V, Moved(block, r, bytes, V)
    PROVE  Went(r)
  <1>1. Entered
    BY Entry
  <1>2. DOMAIN Seeds = DOMAIN All /\ \A i \in DOMAIN All : Ready(Seeds[i])
    BY <1>1 DEF Entered
  <1>4. DOMAIN r = {i \in DOMAIN All : Running(Seeds[i])}
    BY <1>2 DEF Moved, Runs
  <1>5. ASSUME NEW i \in DOMAIN r
        PROVE  Advances(Seeds[i], r[i]) /\ sequences'[i] = r[i].seq
    <2>1. i \in DOMAIN All /\ Running(Seeds[i]) /\ Ready(Seeds[i])
      BY <1>2, <1>4
    <2>2. Outcome(block, Seeds[i], r[i])
      BY DEF Moved
    <2>3. sequences'[i] = r[i].seq
      BY <1>2, <2>1 DEF Moved
    <2> QED
      BY <2>1, <2>2, <2>3, OutcomeAdvances DEF ReuseExact
  <1>6. DOMAIN sequences' = DOMAIN All
        /\ \A i \in DOMAIN All \ DOMAIN r : sequences'[i] = Seeds[i]
    BY <1>2 DEF Moved
  <1> QED
    BY <1>1, <1>4, <1>5, <1>6 DEF Went

\* The sequences after the step are settled again, and their paths in the graph.
LEMMA SequencesSettle ==
    ASSUME ReuseExact, NEW block \in Nat, NEW r, NEW bytes, NEW V, Moved(block, r, bytes, V)
    PROVE  /\ sequences' \in Seq(SeqRecord)
           /\ \A i \in DOMAIN sequences' : Settled(sequences'[i]) /\ Rooted(sequences[i])'
  <1>1. Went(r)
    BY Sequencing
  <1>2. ASSUME NEW i \in DOMAIN All
        PROVE  Settled(sequences'[i]) /\ Rooted(sequences[i])'
    <2>1. CASE i \in DOMAIN r
      <3> DEFINE s == Seeds[i]
                 t == r[i].seq
                 st == r[i].states
      <3>1. /\ Settled(t) /\ Continues(s.stream, t.stream) /\ t.consumed > s.consumed
            /\ DOMAIN st = (s.consumed + 1)..t.consumed
            /\ sequences'[i] = t /\ Ready(s) /\ Rooted(s) /\ Running(s)
        BY <1>1, <2>1 DEF Went, Entered, Advances
      <3>2. graph \cup Visited(r[i]) \subseteq graph'
        BY <2>1 DEF Moved
      <3>3. \A d \in DOMAIN st : Upto(t.stream, d) \in graph'
        BY <3>2 DEF Visited
      <3> HIDE DEF s, t, st
      <3>4. /\ s.stream \in Strings /\ t.stream \in Strings /\ s.consumed \in Nat
            /\ s.consumed <= Len(s.stream) /\ Len(s.stream) \in Nat /\ t.consumed \in Nat
        BY <3>1 DEF Settled, Ready, Placed, SeqRecord, Strings
      <3>5. \A d \in 0..Len(s.stream) : Upto(t.stream, d) = Upto(s.stream, d)
        BY <3>1, <3>4, Extending
      <3>6. \A d \in 0..t.consumed : Upto(t.stream, d) \in graph'
        <4> SUFFICES ASSUME NEW d \in 0..t.consumed PROVE Upto(t.stream, d) \in graph'
          OBVIOUS
        <4>1. CASE d <= s.consumed
          <5>1. d \in 0..s.consumed /\ d \in 0..Len(s.stream)
            BY <3>4, <4>1
          <5>2. Upto(s.stream, d) \in graph
            BY <3>1, <5>1 DEF Rooted
          <5> QED
            BY <3>2, <3>5, <5>1, <5>2
        <4>2. CASE ~ (d <= s.consumed)
          <5>1. d \in DOMAIN st
            BY <3>1, <3>4, <4>2
          <5> QED
            BY <3>3, <5>1
        <4> QED
          BY <4>1, <4>2
      <3> QED
        BY <3>1, <3>6 DEF Rooted, Running
    <2>2. CASE i \notin DOMAIN r
      <3>1. sequences'[i] = Seeds[i] /\ Ready(Seeds[i]) /\ ~Running(Seeds[i])
        BY <1>1, <2>2 DEF Went, Entered
      <3> QED
        BY <3>1 DEF Settled, Rooted, Running
    <2> QED
      BY <2>1, <2>2
  <1>3. DOMAIN sequences' = DOMAIN All /\ DOMAIN Seeds = DOMAIN All
    BY <1>1 DEF Went, Entered
  <1>4. sequences' \in Seq(SeqRecord)
    <2> DEFINE m == Len(sequences) + Len(Admitted)
    <2>1. m \in Nat /\ DOMAIN All = 1..m
      BY <1>1 DEF Went, Entered, Behind
    <2>2. \A i \in 1..m : sequences'[i] \in SeqRecord
      BY <1>2, <2>1 DEF Settled, Ready, Placed
    <2>3. sequences' = [i \in 1..m |-> IF i \in DOMAIN r THEN r[i].seq ELSE Seeds[i]]
      BY <1>3, <2>1 DEF Moved
    <2> HIDE DEF m
    <2> QED
      BY <2>1, <2>2, <2>3
  <1> QED
    BY <1>2, <1>3, <1>4

\* Pins are counted only where the configuration asks for them.
Times(k)   == IF PinLiveNodes THEN k ELSE 0
By(r, n)   == {i \in DOMAIN r : Consumes(r[i], n)}
Created(r) == (UNION {Visited(r[i]) : i \in DOMAIN r}) \ graph
Started(r, n) == IF n \in Created(r) THEN 0
                 ELSE cache[n].pinned + Times(Holders(Admitted, DOMAIN Admitted, n))

LEMMA PinTimesIs ==
    ASSUME NEW e \in Cached, NEW k \in Nat, stepIndex \in Nat
    PROVE  /\ PinTimes(e, k) \in Cached
           /\ PinTimes(e, k).hidden = e.hidden /\ PinTimes(e, k).logits = e.logits
           /\ PinTimes(e, k).pinned = e.pinned + Times(k)
  <1>1. CASE PinLiveNodes /\ k > 0
    <2>1. PinTimes(e, k) = [e EXCEPT !.pinned = @ + k, !.last = Now]
      BY <1>1 DEF PinTimes
    <2>2. Times(k) = k
      BY <1>1, Zenon DEF Times
    <2> DEFINE f == [e EXCEPT !.pinned = @ + k, !.last = Now]
    <2>3. /\ f \in Cached /\ f.hidden = e.hidden /\ f.logits = e.logits
          /\ f.pinned = e.pinned + k
      <3> DEFINE m == e.pinned + k
      <3>1. m \in Nat /\ Now \in Nat
        BY DEF Cached, Now
      <3>2. f = [e EXCEPT !.pinned = m, !.last = Now]
        OBVIOUS
      <3> HIDE DEF m, f
      <3>3. /\ f \in Cached /\ f.hidden = e.hidden /\ f.logits = e.logits
            /\ f.pinned = m
        BY <3>1, <3>2 DEF Cached
      <3> QED
        BY <3>3 DEF m
    <2> QED
      BY <2>1, <2>2, <2>3
  <1>2. CASE ~ (PinLiveNodes /\ k > 0)
    <2>1. PinTimes(e, k) = e
      BY <1>2 DEF PinTimes
    <2>2. Times(k) = 0
      BY <1>2 DEF Times
    <2> QED
      BY <2>1, <2>2 DEF Cached
  <1> QED
    BY <1>1, <1>2

LEMMA Matching ==
    ASSUME ReuseExact, Behind(Admitted, All)
    PROVE  LET c == AfterAdmission(Admitted) IN
           /\ DOMAIN c = DOMAIN cache
           /\ \A n \in DOMAIN cache :
                /\ c[n] \in Cached /\ c[n].hidden = n /\ c[n].logits = cache[n].logits
                /\ c[n].pinned = cache[n].pinned + Times(Holders(Admitted, DOMAIN Admitted, n))
  <1> DEFINE c == AfterAdmission(Admitted)
             hit(n) == \E i \in DOMAIN Admitted : n = Path(Admitted[i])
             e(n) == [cache[n] EXCEPT !.last = IF hit(n) THEN Now ELSE cache[n].last]
             h(n) == Holders(Admitted, DOMAIN Admitted, n)
  <1>1. DOMAIN c = DOMAIN cache /\ \A n \in DOMAIN cache : c[n] = PinTimes(e(n), h(n))
    BY Zenon DEF AfterAdmission
  <1> HIDE DEF c, hit
  <1>2. ASSUME NEW n \in DOMAIN cache
        PROVE  /\ e(n) \in Cached /\ e(n).hidden = n /\ e(n).logits = cache[n].logits
               /\ e(n).pinned = cache[n].pinned
    <2>1. cache[n] \in Cached /\ cache[n].hidden = n /\ Now \in Nat
      BY DEF ReuseExact, Pool, Now
    <2> QED
      BY <2>1 DEF Cached
  <1>3. ASSUME NEW n \in DOMAIN cache PROVE h(n) \in Nat
    <2>1. IsFiniteSet(DOMAIN Admitted)
      BY FS_Interval DEF Behind
    <2>2. IsFiniteSet({i \in DOMAIN Admitted : IsPrefix(n, Path(Admitted[i]))})
      BY <2>1, FS_Subset
    <2> QED
      BY <2>2, FS_CardinalityType DEF Holders
  <1> HIDE DEF e, h
  <1>4. ASSUME NEW n \in DOMAIN cache
        PROVE  /\ c[n] \in Cached /\ c[n].hidden = n /\ c[n].logits = cache[n].logits
               /\ c[n].pinned = cache[n].pinned + Times(h(n))
    <2>1. stepIndex \in Nat
      BY DEF ReuseExact
    <2>2. c[n] = PinTimes(e(n), h(n)) /\ e(n) \in Cached /\ h(n) \in Nat
      BY <1>1, <1>2, <1>3
    <2>3. /\ PinTimes(e(n), h(n)) \in Cached
          /\ PinTimes(e(n), h(n)).hidden = e(n).hidden
          /\ PinTimes(e(n), h(n)).logits = e(n).logits
          /\ PinTimes(e(n), h(n)).pinned = e(n).pinned + Times(h(n))
      BY <2>1, <2>2, PinTimesIs
    <2> QED
      BY <1>2, <2>2, <2>3
  <1> QED
    BY <1>1, <1>4 DEF c, h

\* The pool as a step leaves it before anything is released: what was cached, and the
\* nodes the step created, each with the state computed there first.
LEMMA Storing ==
    ASSUME ReuseExact, NEW r, Went(r)
    PROVE  /\ DOMAIN Filled(r) = DOMAIN cache \cup Created(r)
           /\ Created(r) \subseteq Strings
           /\ Pool(Filled(r))
           /\ \A n \in DOMAIN cache : Filled(r)[n].logits = cache[n].logits
           /\ \A n \in Created(r) : \E i \in DOMAIN r : \E d \in DOMAIN r[i].states :
                r[i].states[d].hidden = n /\ Filled(r)[n].logits = r[i].states[d].logits
           /\ \A n \in DOMAIN Filled(r) :
                /\ IsFiniteSet(By(r, n)) /\ Started(r, n) \in Nat
                /\ Filled(r)[n].pinned = Started(r, n) + Times(Cardinality(By(r, n)))
  <1> DEFINE c == AfterAdmission(Admitted)
             First(n) == LET P == {i \in By(r, n) : Prefills(Seeds[i])}
                         IN  Min(IF P # {} THEN P ELSE By(r, n))
             x(n) == r[First(n)].states[Len(n)]
             New(n) == [hidden |-> x(n).hidden, logits |-> x(n).logits, last |-> Now,
                        pinned |-> 0]
             base(n) == IF n \in Created(r) THEN New(n) ELSE c[n]
             b(n) == Cardinality(By(r, n))
             F == Filled(r)
  <1>1. /\ DOMAIN F = DOMAIN c \cup Created(r)
        /\ \A n \in DOMAIN F : F[n] = PinTimes(base(n), b(n))
    BY Zenon DEF Filled, Stored, By, Created
  <1>2. /\ DOMAIN c = DOMAIN cache
        /\ \A n \in DOMAIN cache :
             /\ c[n] \in Cached /\ c[n].hidden = n /\ c[n].logits = cache[n].logits
             /\ c[n].pinned = cache[n].pinned + Times(Holders(Admitted, DOMAIN Admitted, n))
    BY Matching DEF Went, Entered
  <1>3. IsFiniteSet(DOMAIN r) /\ \A i \in DOMAIN r : i \in Int
    <2>1. DOMAIN r \subseteq 1..(Len(sequences) + Len(Admitted))
          /\ Len(sequences) + Len(Admitted) \in Nat
      BY DEF Went, Entered, Behind
    <2>2. IsFiniteSet(1..(Len(sequences) + Len(Admitted)))
      BY <2>1, FS_Interval
    <2> QED
      BY <2>1, <2>2, FS_Subset
  <1>4. \A n : IsFiniteSet(By(r, n)) /\ b(n) \in Nat /\ By(r, n) \subseteq DOMAIN r
    BY <1>3, FS_Subset, FS_CardinalityType DEF By
  <1>s. ASSUME NEW i \in DOMAIN r
        PROVE  /\ r[i].seq.stream \in Strings
               /\ \A d \in DOMAIN r[i].states :
                     /\ d \in Nat /\ d <= Len(r[i].seq.stream)
                     /\ r[i].states[d].hidden = Upto(r[i].seq.stream, d)
                     /\ r[i].states[d].logits \in Logits
               /\ DOMAIN r[i].states = (Seeds[i].consumed + 1)..r[i].seq.consumed
    <2> DEFINE s == Seeds[i]
               t == r[i].seq
               st == r[i].states
    <2>1. /\ Settled(t) /\ Ready(s) /\ t.consumed > s.consumed
          /\ DOMAIN st = (s.consumed + 1)..t.consumed
          /\ \A d \in DOMAIN st : st[d].hidden = Upto(t.stream, d) /\ st[d].logits \in Logits
      BY DEF Went, Entered, Advances
    <2> HIDE DEF s, t, st
    <2>2. /\ t.stream \in Strings /\ s.consumed \in Nat /\ t.consumed \in Nat
          /\ t.consumed <= Len(t.stream) /\ Len(t.stream) \in Nat
      BY <2>1 DEF Settled, Ready, Placed, SeqRecord, Strings
    <2>3. \A d \in DOMAIN st : d \in Nat /\ d <= Len(t.stream)
      BY <2>1, <2>2
    <2> QED
      BY <2>1, <2>2, <2>3 DEF s, t, st
  <1>5. ASSUME NEW n \in Created(r)
        PROVE  n \in Strings /\ By(r, n) # {}
    <2>1. PICK i \in DOMAIN r : n \in Visited(r[i])
      BY DEF Created
    <2>2. PICK d \in DOMAIN r[i].states : n = Upto(r[i].seq.stream, d)
      BY <2>1 DEF Visited
    <2>3. /\ r[i].seq.stream \in Strings /\ d \in 0..Len(r[i].seq.stream)
      BY <1>s
    <2>4. n \in Strings /\ Len(n) = d /\ Continues(n, r[i].seq.stream)
      BY <2>2, <2>3, Cutting
    <2>5. i \in By(r, n)
      BY <2>2, <2>3, <2>4, PrefixIs DEF By, Consumes
    <2> QED
      BY <2>4, <2>5
  <1>6. ASSUME NEW n \in Created(r)
        PROVE  /\ New(n) \in Cached /\ New(n).hidden = n /\ New(n).pinned = 0
               /\ \E j \in DOMAIN r : \E d \in DOMAIN r[j].states :
                    r[j].states[d].hidden = n /\ New(n).logits = r[j].states[d].logits
    <2>1. First(n) \in By(r, n)
      <3> DEFINE P == {i \in By(r, n) : Prefills(Seeds[i])}
                 Q == IF P # {} THEN P ELSE By(r, n)
      <3>1. Q # {} /\ Q \subseteq By(r, n)
        BY <1>5
      <3>2. First(n) = Min(Q)
        BY Zenon
      <3> HIDE DEF Q, First
      <3>3. IsFiniteSet(Q) /\ \A i \in Q : i \in Int
        BY <1>3, <1>4, <3>1, FS_Subset
      <3>4. Min(Q) \in Q
        BY <3>1, <3>3, MinExists
      <3> QED
        BY <3>1, <3>2, <3>4
    <2> DEFINE i == First(n)
    <2> HIDE DEF First, i
    <2>2. i \in DOMAIN r /\ Len(n) \in DOMAIN r[i].states /\ IsPrefix(n, r[i].seq.stream)
      BY <2>1 DEF By, Consumes, i
    <2>3. /\ r[i].seq.stream \in Strings
          /\ r[i].states[Len(n)].hidden = Upto(r[i].seq.stream, Len(n))
          /\ r[i].states[Len(n)].logits \in Logits
      BY <1>s, <2>2
    <2>4. Continues(n, r[i].seq.stream) /\ n \in Strings
      BY <1>5, <2>2, <2>3, PrefixIs
    <2>5. x(n).hidden = n /\ x(n).logits \in Logits
      BY <2>3, <2>4 DEF Continues, i
    <2>6. Now \in Nat
      BY DEF Now, ReuseExact
    <2>7. x(n) = r[i].states[Len(n)]
      BY DEF i
    <2> HIDE DEF x
    <2>8. New(n) \in Cached /\ New(n).hidden = n /\ New(n).pinned = 0 /\ New(n).logits = x(n).logits
      BY <2>4, <2>5, <2>6 DEF Cached
    <2> HIDE DEF New
    <2> QED
      BY <2>2, <2>5, <2>7, <2>8
  <1> HIDE DEF First, x, New, c, F
  <1>7. ASSUME NEW n \in DOMAIN F
        PROVE  /\ base(n) \in Cached /\ base(n).hidden = n
               /\ base(n).pinned = Started(r, n)
               /\ n \in DOMAIN cache => base(n).logits = cache[n].logits
    <2>1. CASE n \in Created(r)
      <3>1. n \notin DOMAIN cache
        <4>1. DOMAIN cache \subseteq graph
          BY DEF ReuseExact
        <4> QED
          BY <2>1, <4>1 DEF Created
      <3> QED
        BY <1>6, <2>1, <3>1 DEF Started
    <2>2. CASE n \notin Created(r)
      <3>1. n \in DOMAIN cache
        BY <1>1, <1>2, <2>2
      <3> QED
        BY <1>2, <2>2, <3>1 DEF Started
    <2> QED
      BY <2>1, <2>2
  <1>b. \A n \in Created(r) : base(n) = New(n)
    OBVIOUS
  <1> HIDE DEF base, b
  <1>8. ASSUME NEW n \in DOMAIN F
        PROVE  /\ F[n] \in Cached /\ F[n].hidden = n
               /\ F[n].pinned = Started(r, n) + Times(b(n))
               /\ n \in DOMAIN cache => F[n].logits = cache[n].logits
               /\ F[n].logits = base(n).logits
    <2>1. F[n] = PinTimes(base(n), b(n)) /\ b(n) \in Nat /\ base(n) \in Cached
      BY <1>1, <1>4, <1>7
    <2>2. stepIndex \in Nat
      BY DEF ReuseExact
    <2>3. /\ PinTimes(base(n), b(n)) \in Cached
          /\ PinTimes(base(n), b(n)).hidden = base(n).hidden
          /\ PinTimes(base(n), b(n)).logits = base(n).logits
          /\ PinTimes(base(n), b(n)).pinned = base(n).pinned + Times(b(n))
      BY <2>1, <2>2, PinTimesIs
    <2> QED
      BY <1>7, <2>1, <2>3
  <1>9. \A n \in DOMAIN F : Started(r, n) \in Nat
    BY <1>7 DEF Cached
  <1>l. \A n \in Created(r) : \E j \in DOMAIN r : \E d \in DOMAIN r[j].states :
            r[j].states[d].hidden = n /\ F[n].logits = r[j].states[d].logits
    BY <1>1, <1>6, <1>8, <1>b
  <1>10. IsFiniteSet(DOMAIN F)
    <2>1. IsFiniteSet(UNION {Visited(r[i]) : i \in DOMAIN r})
      <3>1. ASSUME NEW i \in DOMAIN r PROVE IsFiniteSet(Visited(r[i]))
        <4>1. DOMAIN r[i].states = (Seeds[i].consumed + 1)..r[i].seq.consumed
          BY <1>s
        <4>2. Seeds[i].consumed + 1 \in Int /\ r[i].seq.consumed \in Int
          BY DEF Went, Entered, Ready, Advances, Settled, Placed, SeqRecord
        <4>3. IsFiniteSet(DOMAIN r[i].states)
          BY <4>1, <4>2, FS_Interval
        <4> DEFINE f == [d \in DOMAIN r[i].states |-> Upto(r[i].seq.stream, d)]
        <4>4. f = [d \in DOMAIN r[i].states |-> f[d]]
              /\ Visited(r[i]) = {f[d] : d \in DOMAIN r[i].states}
          BY DEF Visited
        <4> HIDE DEF f
        <4> QED
          BY <4>3, <4>4, ImageIsFinite
      <3> DEFINE v == [i \in DOMAIN r |-> Visited(r[i])]
      <3>2. v = [i \in DOMAIN r |-> v[i]] /\ \A i \in DOMAIN r : v[i] = Visited(r[i])
        OBVIOUS
      <3>3. {v[i] : i \in DOMAIN r} = {Visited(r[i]) : i \in DOMAIN r}
        BY <3>2
      <3> HIDE DEF v
      <3>4. IsFiniteSet({v[i] : i \in DOMAIN r})
        BY <1>3, <3>2, ImageIsFinite
      <3>5. \A T \in {v[i] : i \in DOMAIN r} : IsFiniteSet(T)
        BY <3>1, <3>2
      <3> QED
        BY <3>3, <3>4, <3>5, FS_UNION
    <2>2. IsFiniteSet(Created(r))
      BY <2>1, FS_Subset DEF Created
    <2>3. IsFiniteSet(DOMAIN cache)
      BY DEF ReuseExact, Pool
    <2> QED
      BY <1>1, <1>2, <2>2, <2>3, FS_Union
  <1>11. Created(r) \subseteq Strings
    BY <1>5
  <1>12. Pool(F)
    BY <1>1, <1>2, <1>8, <1>10, <1>11 DEF Pool, ReuseExact
  <1>13. \A n \in DOMAIN cache : n \in DOMAIN F
    BY <1>1, <1>2
  <1> QED
    BY <1>1, <1>2, <1>4, <1>8, <1>9, <1>11, <1>12, <1>13, <1>l DEF F, b

\* What holders there are on a node is a number.
LEMMA HoldersAre ==
    ASSUME NEW f, NEW I, IsFiniteSet(I), NEW n
    PROVE  /\ IsFiniteSet({i \in I : IsPrefix(n, Path(f[i]))})
           /\ Holders(f, I, n) \in Nat
  <1>1. IsFiniteSet({i \in I : IsPrefix(n, Path(f[i]))})
    BY FS_Subset
  <1> QED
    BY <1>1, FS_CardinalityType DEF Holders

LEMMA AllAreFinite ==
    ASSUME NEW r, Went(r)
    PROVE  IsFiniteSet(DOMAIN All) /\ Freed(r) \subseteq DOMAIN All /\ IsFiniteSet(Freed(r))
  <1>1. IsFiniteSet(DOMAIN All)
    <2>1. DOMAIN All = 1..(Len(sequences) + Len(Admitted))
          /\ Len(sequences) + Len(Admitted) \in Nat
      BY DEF Went, Entered, Behind
    <2> QED
      BY <2>1, FS_Interval
  <1>2. Freed(r) \subseteq DOMAIN All
    BY DEF Went, Entered, Freed
  <1> QED
    BY <1>1, <1>2, FS_Subset

\* Releasing pins changes the counts alone.
LEMMA Releasing ==
    ASSUME ReuseExact, NEW r, Went(r)
    PROVE  /\ DOMAIN Freeing(r) = DOMAIN Filled(r) /\ Pool(Freeing(r))
           /\ \A n \in DOMAIN Filled(r) :
                /\ Freeing(r)[n].logits = Filled(r)[n].logits
                /\ Freeing(r)[n].pinned
                      = Monus(Filled(r)[n].pinned, Holders(sequences', Freed(r), n))
  <1> DEFINE F == Filled(r)
             G == Freeing(r)
             h(n) == Holders(sequences', Freed(r), n)
             m(n) == Monus(F[n].pinned, h(n))
  <1>1. DOMAIN G = DOMAIN F /\ \A n \in DOMAIN F : G[n] = [F[n] EXCEPT !.pinned = m(n)]
    BY Zenon DEF Freeing, Unpinned
  <1>2. Pool(F)
    BY Storing
  <1> HIDE DEF F, G
  <1>3. ASSUME NEW n \in DOMAIN F
        PROVE  /\ G[n] \in Cached /\ G[n].hidden = n /\ G[n].logits = F[n].logits
               /\ G[n].pinned = m(n)
    <2>1. F[n] \in Cached /\ F[n].hidden = n
      BY <1>2 DEF Pool
    <2>2. h(n) \in Nat
      <3>1. IsFiniteSet(Freed(r))
        BY AllAreFinite
      <3> QED
        BY <3>1, HoldersAre
    <2>3. F[n].pinned \in Int
      BY <2>1 DEF Cached
    <2> HIDE DEF h
    <2>4. m(n) \in Nat
      <3>1. \A x \in Int, y \in Nat : Monus(x, y) \in Nat
        BY MonusIs
      <3> QED
        BY <2>2, <2>3, <3>1, Zenon
    <2>5. G[n] = [F[n] EXCEPT !.pinned = m(n)]
      BY <1>1
    <2> HIDE DEF m
    <2> QED
      BY <2>1, <2>4, <2>5 DEF Cached
  <1> HIDE DEF m
  <1>4. Pool(G)
    BY <1>1, <1>2, <1>3 DEF Pool
  <1> QED
    BY <1>1, <1>3, <1>4 DEF F, G, m, h

\* Eviction takes whole states, and only those that no one pins.
LEMMA Evicting ==
    ASSUME ReuseExact, NEW block \in Nat, NEW r, NEW bytes, NEW V, Moved(block, r, bytes, V)
    PROVE  /\ V \subseteq Evictable(Freeing(r))
           /\ DOMAIN cache' = DOMAIN Filled(r) \ V
           /\ \A n \in DOMAIN cache' : cache'[n] = Freeing(r)[n]
           /\ Pool(cache)'
  <1>1. Went(r)
    BY Sequencing
  <1>2. DOMAIN Freeing(r) = DOMAIN Filled(r) /\ Pool(Freeing(r))
    BY <1>1, Releasing
  <1>3. V \subseteq Evictable(Freeing(r))
    BY DEF Moved, Victims
  <1>4. cache' = Restrict(Freeing(r), DOMAIN Freeing(r) \ V)
    BY DEF Moved
  <1>5. /\ DOMAIN cache' = DOMAIN Filled(r) \ V
        /\ \A n \in DOMAIN cache' : cache'[n] = Freeing(r)[n]
    BY <1>2, <1>4 DEF Restrict
  <1>6. Pool(cache')
    <2>1. IsFiniteSet(DOMAIN cache')
      BY <1>2, <1>5, FS_Subset DEF Pool
    <2> QED
      BY <1>2, <1>5, <2>1 DEF Pool
  <1> QED
    BY <1>3, <1>5, <1>6 DEF Pool

-----------------------------------------------------------------------------
(* The invariant                                                            *)

LEMMA ReuseInit == Init => ReuseExact
  <1> SUFFICES ASSUME Init PROVE ReuseExact
    OBVIOUS
  <1>1. Chooses
    BY ServeAssumption DEF Init, Chooses, Alphabet
  <1>2. DOMAIN cache = {}
    BY DEF Init
  <1>3. Pool(cache)
    BY <1>2, FS_EmptySet DEF Pool
  <1>4. graph \subseteq Strings /\ <<>> \in graph
    BY DEF Init, Strings
  <1>5. sequences \in Seq(SeqRecord) /\ DOMAIN sequences = {} /\ queue \in Seq(Queued)
    BY DEF Init
  <1> QED
    BY <1>1, <1>2, <1>3, <1>4, <1>5 DEF ReuseExact, Init

LEMMA ReuseSubmit ==
    ASSUME ReuseExact, NEW p \in Prompts, NEW n \in MaxNews, Submit(p, n)
    PROVE  ReuseExact'
  <1>1. p \in Strings \ {<<>>} /\ n \in Nat
    <2>1. p \in Seq(Tokens) \ {<<>>} /\ n \in Nat
      BY ServeAssumption
    <2>2. Tokens \subseteq Alphabet
      BY DEF Alphabet
    <2> QED
      BY <2>1, <2>2 DEF Strings
  <1>2. [stream |-> p, max_new |-> n] \in Queued
    BY <1>1 DEF Queued
  <1>3. queue' \in Seq(Queued)
    BY <1>2 DEF Submit, ReuseExact
  <1>4. UNCHANGED <<greedy, graph, cache, sequences, stepIndex>>
    BY DEF Submit
  <1> QED
    BY <1>3, <1>4 DEF ReuseExact, Chooses, Pool, Rooted, Settled, Ready, Placed, Running, Path

LEMMA ReuseStep ==
    ASSUME ReuseExact, NEW block \in Nat, NEW r, NEW bytes, NEW V, Moved(block, r, bytes, V)
    PROVE  ReuseExact'
  <1>1. Went(r)
    BY Sequencing
  <1>2. Chooses' /\ stepIndex' \in Nat
    BY DEF Moved, ReuseExact, Chooses, Now
  <1>3. graph' \subseteq Strings /\ graph \subseteq graph' /\ <<>> \in graph'
        /\ Created(r) \subseteq graph'
    <2>1. graph' = graph \cup UNION {Visited(r[i]) : i \in DOMAIN r}
      BY DEF Moved
    <2>2. graph' = graph \cup Created(r)
      BY <2>1 DEF Created
    <2>3. Created(r) \subseteq Strings
      BY <1>1, Storing
    <2>4. graph \subseteq Strings /\ <<>> \in graph
      BY DEF ReuseExact
    <2> QED
      BY <2>2, <2>3, <2>4
  <1>4. Pool(cache)' /\ DOMAIN cache' \subseteq graph'
    <2>e. DOMAIN cache' = DOMAIN Filled(r) \ V /\ Pool(cache)'
      BY Evicting, Zenon
    <2>1. DOMAIN cache' \subseteq DOMAIN Filled(r) /\ Pool(cache)'
      BY <2>e
    <2>2. DOMAIN Filled(r) = DOMAIN cache \cup Created(r)
      BY <1>1, Storing
    <2>3. DOMAIN cache \subseteq graph
      BY DEF ReuseExact
    <2> QED
      BY <1>3, <2>1, <2>2, <2>3
  <1>5. queue' \in Seq(Queued)
    BY Admission DEF Moved
  <1>6. /\ sequences' \in Seq(SeqRecord)
        /\ \A i \in DOMAIN sequences' : Settled(sequences'[i]) /\ Rooted(sequences[i])'
    BY SequencesSettle
  <1> QED
    BY <1>2, <1>3, <1>4, <1>5, <1>6 DEF ReuseExact, Settled, Ready, Placed, Running, Path

LEMMA ReuseKept ==
    ASSUME ReuseExact,
           UNCHANGED <<greedy, graph, cache, cacheBytes, sequences, queue, stepIndex>>
    PROVE  ReuseExact'
  BY DEF ReuseExact, Chooses, Pool, Rooted, Settled, Ready, Placed, Running, Path

LEMMA ReuseUpTo == ASSUME ReuseExact, NEW block \in Nat, StepUpTo(block) PROVE ReuseExact'
  BY Unfolding, ReuseStep, ReuseKept

LEMMA StepIs == Step => Block \in Nat /\ StepUpTo(Block)
  BY ServeAssumption DEF Step

LEMMA ReuseNext == ReuseExact /\ [Next]_vars => ReuseExact'
  <1> SUFFICES ASSUME ReuseExact, [Next]_vars PROVE ReuseExact'
    OBVIOUS
  <1>1. ASSUME NEW p \in Prompts, NEW n \in MaxNews, Submit(p, n) PROVE ReuseExact'
    BY <1>1, ReuseSubmit
  <1>2. CASE UNCHANGED <<greedy, graph, cache, cacheBytes, sequences, queue, stepIndex>>
    BY <1>2, ReuseKept
  <1>3. ASSUME Step PROVE ReuseExact'
    BY <1>3, StepIs, ReuseUpTo
  <1>4. CASE UNCHANGED vars
    BY <1>2, <1>4 DEF vars
  <1> QED
    BY <1>1, <1>3, <1>4 DEF Next

LEMMA ReuseInvariant == Spec => []ReuseExact
  BY ReuseInit, ReuseNext, PTL DEF Spec

\* What is cached at a node, and what a running sequence carries, was computed from
\* exactly the tokens of its path, wherever it resumed and whatever was evicted.
THEOREM ReuseStaysExact == Spec => []HiddenStatesExact
  <1>1. ReuseExact => HiddenStatesExact
    BY DEF ReuseExact, HiddenStatesExact, Pool, Live, Settled, Ready, Placed
  <1> QED
    BY <1>1, ReuseInvariant, PTL

-----------------------------------------------------------------------------
(* Pins                                                                     *)

\* The nodes on a path are the prefixes of what was consumed.
LEMMA OnPath ==
    ASSUME NEW s, s.stream \in Strings, s.consumed \in Nat, s.consumed <= Len(s.stream),
           NEW n \in Strings
    PROVE  IsPrefix(n, Path(s)) <=> Len(n) <= s.consumed /\ n = Upto(s.stream, Len(n))
  <1>1. s.consumed \in 0..Len(s.stream) /\ Len(n) \in Nat /\ Len(s.stream) \in Nat
    BY DEF Strings
  <1>2. /\ Path(s) \in Strings /\ Len(Path(s)) = s.consumed
        /\ \A e \in 0..s.consumed : Upto(Path(s), e) = Upto(s.stream, e)
    BY <1>1, Cutting DEF Path
  <1>3. IsPrefix(n, Path(s)) <=> Continues(n, Path(s))
    BY <1>2, PrefixIs
  <1>4. Len(n) <= s.consumed => Upto(Path(s), Len(n)) = Upto(s.stream, Len(n))
    BY <1>1, <1>2
  <1> QED
    BY <1>2, <1>3, <1>4 DEF Continues

\* Who runs on a node as a step begins.
Before(n)  == {i \in DOMAIN All : Running(All[i]) /\ IsPrefix(n, Path(All[i]))}
\* Who is on it once the step is done, of those in I.
On(I, n)   == {i \in I : IsPrefix(n, Path(sequences'[i]))}

LEMMA PathFacts ==
    ASSUME NEW r, Went(r), NEW i \in DOMAIN All
    PROVE  /\ All[i].stream \in Strings /\ All[i].consumed \in Nat
           /\ All[i].consumed <= Len(All[i].stream)
           /\ Seeds[i].stream \in Strings /\ Seeds[i].consumed \in Nat
           /\ Seeds[i].consumed <= Len(Seeds[i].stream) /\ Len(Seeds[i].stream) \in Nat
           /\ i \in DOMAIN r => /\ r[i].seq.stream \in Strings /\ r[i].seq.consumed \in Nat
                                /\ r[i].seq.consumed <= Len(r[i].seq.stream)
                                /\ r[i].seq.consumed > Seeds[i].consumed
                                /\ Continues(Seeds[i].stream, r[i].seq.stream)
                                /\ DOMAIN r[i].states
                                     = (Seeds[i].consumed + 1)..r[i].seq.consumed
  <1>1. Entering(All[i]) /\ Ready(Seeds[i]) /\ (i \in DOMAIN r => Advances(Seeds[i], r[i]))
    BY DEF Went, Entered
  <1>2. /\ All[i].stream \in Strings /\ All[i].consumed \in Nat
        /\ All[i].consumed <= Len(All[i].stream)
    BY <1>1 DEF Entering, Placed, SeqRecord
  <1>3. /\ Seeds[i].stream \in Strings /\ Seeds[i].consumed \in Nat
        /\ Seeds[i].consumed <= Len(Seeds[i].stream) /\ Len(Seeds[i].stream) \in Nat
    BY <1>1 DEF Ready, Placed, SeqRecord, Strings
  <1>4. ASSUME i \in DOMAIN r
        PROVE  /\ r[i].seq.stream \in Strings /\ r[i].seq.consumed \in Nat
               /\ r[i].seq.consumed <= Len(r[i].seq.stream)
               /\ r[i].seq.consumed > Seeds[i].consumed
               /\ Continues(Seeds[i].stream, r[i].seq.stream)
               /\ DOMAIN r[i].states = (Seeds[i].consumed + 1)..r[i].seq.consumed
    BY <1>1, <1>4 DEF Advances, Settled, Ready, Placed, SeqRecord
  <1> QED
    BY <1>2, <1>3, <1>4

\* Who is on a node after the step was on it before, or consumed its last token.
LEMMA WhoIsOn ==
    ASSUME NEW r, Went(r), NEW n \in Strings,
           NEW i \in DOMAIN All, i \in Freed(r) \/ Running(sequences'[i]),
           IsPrefix(n, Path(sequences'[i]))
    PROVE  i \in Before(n) \cup By(r, n)
  <1>1. CASE i \in DOMAIN r
    <2> DEFINE s == Seeds[i]
               t == r[i].seq
    <2>1. /\ s.stream \in Strings /\ s.consumed \in Nat /\ s.consumed <= Len(s.stream)
          /\ Len(s.stream) \in Nat
          /\ t.stream \in Strings /\ t.consumed \in Nat /\ t.consumed <= Len(t.stream)
          /\ Continues(s.stream, t.stream)
          /\ DOMAIN r[i].states = (s.consumed + 1)..t.consumed
      BY <1>1, PathFacts
    <2>2. sequences'[i] = t /\ Running(All[i]) /\ Path(s) = Path(All[i])
      BY <1>1 DEF Went, Entered
    <2> HIDE DEF s, t
    <2>3. Len(n) \in Nat /\ Len(n) <= t.consumed /\ n = Upto(t.stream, Len(n))
      <3>1. Len(n) \in Nat
        BY DEF Strings
      <3> QED
        BY <2>1, <2>2, <3>1, OnPath
    <2>4. CASE Len(n) <= s.consumed
      <3>1. Len(n) \in 0..Len(s.stream)
        BY <2>1, <2>3, <2>4
      <3>2. n = Upto(s.stream, Len(n))
        BY <2>1, <2>3, <3>1, Extending
      <3>3. IsPrefix(n, Path(s))
        BY <2>1, <2>4, <3>2, OnPath
      <3> QED
        BY <2>2, <3>3 DEF Before
    <2>5. CASE ~ (Len(n) <= s.consumed)
      <3>1. Len(n) \in DOMAIN r[i].states
        BY <2>1, <2>3, <2>5
      <3>2. Len(t.stream) \in Nat
        BY <2>1 DEF Strings
      <3>3. Continues(n, t.stream)
        BY <2>1, <2>3, <3>2 DEF Continues
      <3>4. IsPrefix(n, t.stream)
        BY <2>1, <3>3, PrefixIs
      <3> QED
        BY <1>1, <3>1, <3>4 DEF By, Consumes, t
    <2> QED
      BY <2>4, <2>5
  <1>2. CASE i \notin DOMAIN r
    <2>1. sequences'[i] = Seeds[i] /\ ~Running(Seeds[i]) /\ Path(Seeds[i]) = Path(All[i])
      BY <1>2 DEF Went, Entered
    <2>2. Seeded(All[i]) /\ Running(All[i])
      BY <1>2, <2>1 DEF Freed, Went, Entered
    <2> QED
      BY <2>1, <2>2 DEF Before
  <1> QED
    BY <1>1, <1>2

\* What is released has finished.
LEMMA FreedHaveFinished ==
    ASSUME NEW r, Went(r), NEW i \in Freed(r)
    PROVE  i \in DOMAIN All /\ ~Running(sequences'[i])
  <1>1. i \in DOMAIN All
    BY AllAreFinite
  <1>2. CASE i \in DOMAIN r /\ r[i].releases
    BY <1>2 DEF Went, Entered, Advances
  <1>3. CASE Seeded(All[i]) /\ All[i].max_new = 0
    <2>1. ~Running(Seeds[i])
      BY <1>1, <1>3 DEF Went, Entered
    <2> QED
      BY <1>1, <2>1 DEF Went, Entered
  <1> QED
    BY <1>1, <1>2, <1>3 DEF Freed

\* A node pinned before the step is pinned for everyone who ran on it and for those
\* admitted to it; no one was on a node the step created.
LEMMA BeforeIsPinned ==
    ASSUME ReuseExact, LivePathsPinned, PinLiveNodes, NEW r, Went(r),
           NEW n \in DOMAIN Filled(r)
    PROVE  /\ IsFiniteSet(Before(n)) /\ Cardinality(Before(n)) \in Nat
           /\ Cardinality(Before(n)) <= Started(r, n)
  <1>1. IsFiniteSet(Before(n)) /\ Cardinality(Before(n)) \in Nat
    BY AllAreFinite, FS_Subset, FS_CardinalityType DEF Before
  <1>2. n \in Strings /\ DOMAIN Filled(r) = DOMAIN cache \cup Created(r)
    BY Storing DEF Pool
  <1>3. CASE n \in Created(r)
    <2>1. ASSUME NEW i \in Before(n) PROVE FALSE
      <3> DEFINE s == All[i]
      <3>1. i \in DOMAIN All /\ Running(s) /\ IsPrefix(n, Path(s)) /\ Rooted(s)
        BY <2>1 DEF Before, Went, Entered
      <3>2. s.stream \in Strings /\ s.consumed \in Nat /\ s.consumed <= Len(s.stream)
        BY <3>1, PathFacts
      <3> HIDE DEF s
      <3>3. Len(n) \in 0..s.consumed /\ n = Upto(s.stream, Len(n))
        <4>1. Len(n) \in Nat
          BY <1>2 DEF Strings
        <4> QED
          BY <1>2, <3>1, <3>2, <4>1, OnPath
      <3>4. n \in graph
        BY <3>1, <3>3 DEF Rooted
      <3> QED
        BY <1>3, <3>4 DEF Created
    <2>2. Before(n) = {}
      BY <2>1
    <2>3. Cardinality(Before(n)) = 0
      BY <2>2, FS_EmptySet
    <2>4. Started(r, n) = 0
      BY <1>3 DEF Started
    <2> QED
      BY <1>1, <2>3, <2>4
  <1>4. CASE n \notin Created(r)
    <2> DEFINE N == Len(sequences)
               O == {i \in Live : IsPrefix(n, Path(sequences[i]))}
               J == {j \in DOMAIN Admitted : IsPrefix(n, Path(Admitted[j]))}
               K == {i \in Before(n) : i \notin DOMAIN sequences}
               f == [i \in K |-> i - N]
    <2>1. /\ N \in Nat /\ DOMAIN sequences = 1..N /\ Len(Admitted) \in Nat
          /\ DOMAIN Admitted = 1..Len(Admitted) /\ DOMAIN All = 1..(N + Len(Admitted))
          /\ \A i \in DOMAIN sequences : All[i] = sequences[i]
          /\ \A j \in DOMAIN Admitted : All[N + j] = Admitted[j]
      BY DEF Went, Entered, Behind
    <2> HIDE DEF N
    <2>2. IsFiniteSet(O) /\ IsFiniteSet(J)
      <3>1. IsFiniteSet(1..N) /\ IsFiniteSet(1..Len(Admitted))
        BY <2>1, FS_Interval
      <3>2. O \subseteq 1..N /\ J \subseteq 1..Len(Admitted)
        BY <2>1 DEF Live
      <3> HIDE DEF O, J
      <3> QED
        BY <3>1, <3>2, FS_Subset
    <2>3. \A i \in K : /\ i \in Int /\ i - N \in DOMAIN Admitted /\ N + (i - N) = i
                       /\ IsPrefix(n, Path(All[i]))
      BY <2>1 DEF Before
    <2>4. \A i \in K : i - N \in J /\ i \in Int
      BY <2>1, <2>3
    <2>5. IsFiniteSet(K) /\ Cardinality(K) <= Cardinality(J)
      <3> HIDE DEF K, J
      <3>1. f \in [K -> J]
        BY <2>4
      <3>2. \A a \in K, b \in K : f[a] = f[b] => a = b
        BY <2>1, <2>4
      <3> HIDE DEF f
      <3>3. f \in Injection(K, J)
        BY <3>1, <3>2 DEF Injection, IsInjective
      <3> QED
        BY <2>2, <3>3, FS_Injection
    <2>6. Before(n) \subseteq O \cup K
      <3> SUFFICES ASSUME NEW i \in Before(n), i \in DOMAIN sequences PROVE i \in O
        OBVIOUS
      <3>1. All[i] = sequences[i]
        BY <2>1
      <3> QED
        BY <3>1 DEF Before, Live
    <2>7. Cardinality(Before(n)) <= Cardinality(O) + Cardinality(K)
          /\ Cardinality(O) \in Nat /\ Cardinality(K) \in Nat /\ Cardinality(J) \in Nat
      <3> HIDE DEF O, K, J
      <3>1. Cardinality(O) \in Nat /\ Cardinality(K) \in Nat /\ Cardinality(J) \in Nat
        BY <2>2, <2>5, FS_CardinalityType
      <3>2. /\ IsFiniteSet(O \cup K)
            /\ Cardinality(O \cup K)
                 = Cardinality(O) + Cardinality(K) - Cardinality(O \cap K)
        BY <2>2, <2>5, FS_Union
      <3>3. IsFiniteSet(O \cap K)
        BY <2>2, FS_Subset
      <3>4. Cardinality(O \cap K) \in Nat
        BY <3>3, FS_CardinalityType
      <3>5. Cardinality(Before(n)) <= Cardinality(O \cup K)
        BY <2>6, <3>2, FS_Subset
      <3> QED
        BY <1>1, <3>1, <3>2, <3>4, <3>5
    <2>8. n \in DOMAIN cache
      BY <1>2, <1>4
    <2>9. cache[n].pinned >= Cardinality(O) /\ cache[n].pinned \in Nat
      BY <2>8 DEF LivePathsPinned, Holders, ReuseExact, Pool, Cached
    <2>10. Started(r, n) = cache[n].pinned + Cardinality(J)
      BY <1>4, Zenon DEF Started, Times, Holders
    <2> HIDE DEF O, K, J
    <2> QED
      BY <1>1, <2>5, <2>7, <2>9, <2>10
  <1> QED
    BY <1>1, <1>3, <1>4

\* After the release, and before the eviction, every node is pinned once for each
\* sequence that goes on running on it.
LEMMA PinsHold ==
    ASSUME ReuseExact, LivePathsPinned, PinLiveNodes, NEW r, Went(r),
           NEW n \in DOMAIN Filled(r)
    PROVE  /\ Freeing(r)[n].pinned \in Nat /\ Holders(sequences', Live', n) \in Nat
           /\ Freeing(r)[n].pinned >= Holders(sequences', Live', n)
  <1> DEFINE A == On(Live', n)
             B == On(Freed(r), n)
             U == Before(n)
             W == By(r, n)
             F == Filled(r)[n].pinned
             G == Freeing(r)[n].pinned
  <1>1. n \in Strings
    BY Storing DEF Pool
  <1>2. Live' \subseteq DOMAIN All /\ \A i \in Live' : Running(sequences'[i])
    BY DEF Live, Went, Entered, Running
  <1>3. /\ IsFiniteSet(A) /\ IsFiniteSet(B) /\ A \subseteq DOMAIN All /\ B \subseteq DOMAIN All
    <2>1. IsFiniteSet(DOMAIN All) /\ Freed(r) \subseteq DOMAIN All
      BY AllAreFinite
    <2>2. A \subseteq DOMAIN All /\ B \subseteq DOMAIN All
      BY <1>2, <2>1 DEF On
    <2> HIDE DEF A, B
    <2> QED
      BY <2>1, <2>2, FS_Subset
  <1>4. A \cap B = {}
    <2> SUFFICES ASSUME NEW i \in A, i \in B PROVE FALSE
      OBVIOUS
    <2>1. i \in Live' /\ i \in Freed(r)
      BY DEF On
    <2> QED
      BY <1>2, <2>1, FreedHaveFinished
  <1>5. A \cup B \subseteq U \cup W
    <2> SUFFICES ASSUME NEW i \in A \cup B PROVE i \in U \cup W
      OBVIOUS
    <2>1. /\ i \in DOMAIN All /\ (i \in Freed(r) \/ Running(sequences'[i]))
          /\ IsPrefix(n, Path(sequences'[i]))
      BY <1>2, <1>3 DEF On
    <2> QED
      BY <1>1, <2>1, WhoIsOn
  <1>6. /\ IsFiniteSet(U) /\ Cardinality(U) \in Nat /\ Cardinality(U) <= Started(r, n)
    BY BeforeIsPinned
  <1>7. /\ IsFiniteSet(W) /\ Started(r, n) \in Nat /\ F = Started(r, n) + Times(Cardinality(W))
    BY Storing
  <1>8. Times(Cardinality(W)) = Cardinality(W)
    BY Zenon DEF Times
  <1>9. G = Monus(F, Holders(sequences', Freed(r), n))
    BY Releasing
  <1>10. Holders(sequences', Freed(r), n) = Cardinality(B)
         /\ Holders(sequences', Live', n) = Cardinality(A)
    BY Zenon DEF Holders, On
  <1> HIDE DEF A, B, U, W, F, G
  <1>11. /\ Cardinality(A) \in Nat /\ Cardinality(B) \in Nat /\ Cardinality(W) \in Nat
    BY <1>3, <1>7, FS_CardinalityType
  <1>12. Cardinality(A) + Cardinality(B) <= Cardinality(U) + Cardinality(W)
    <2>1. /\ IsFiniteSet(A \cup B)
          /\ Cardinality(A \cup B) = Cardinality(A) + Cardinality(B) - Cardinality(A \cap B)
      BY <1>3, FS_Union
    <2>2. Cardinality(A \cap B) = 0
      BY <1>4, FS_EmptySet
    <2>3. /\ IsFiniteSet(U \cup W)
          /\ Cardinality(U \cup W) = Cardinality(U) + Cardinality(W) - Cardinality(U \cap W)
      BY <1>6, <1>7, FS_Union
    <2>4. Cardinality(U \cap W) \in Nat
      <3>1. IsFiniteSet(U \cap W)
        BY <1>6, FS_Subset
      <3> QED
        BY <3>1, FS_CardinalityType
    <2>5. Cardinality(A \cup B) <= Cardinality(U \cup W)
      BY <1>5, <2>3, FS_Subset
    <2> QED
      BY <1>6, <1>11, <2>1, <2>2, <2>3, <2>4, <2>5
  <1>13. Cardinality(A) + Cardinality(B) <= F /\ F \in Nat
    BY <1>6, <1>7, <1>8, <1>11, <1>12
  <1>14. G \in Nat /\ G >= Cardinality(A)
    <2>1. G \in Nat /\ G = IF F >= Cardinality(B) THEN F - Cardinality(B) ELSE 0
      <3>1. F \in Int /\ Cardinality(B) \in Int /\ G = Monus(F, Cardinality(B))
        BY <1>9, <1>10, <1>11, <1>13
      <3> QED
        BY <3>1, MonusIs
    <2> QED
      BY <1>11, <1>13, <2>1
  <1> QED
    BY <1>10, <1>11, <1>14 DEF G

LEMMA PinsStep ==
    ASSUME ReuseExact, LivePathsPinned,
           NEW block \in Nat, NEW r, NEW bytes, NEW V, Moved(block, r, bytes, V)
    PROVE  LivePathsPinned'
  <1> SUFFICES ASSUME PinLiveNodes, NEW n \in DOMAIN cache'
               PROVE  cache'[n].pinned >= Holders(sequences', Live', n)
    BY Zenon DEF LivePathsPinned
  <1>1. Went(r)
    BY Sequencing
  <1>e. /\ DOMAIN cache' = DOMAIN Filled(r) \ V
        /\ \A m \in DOMAIN cache' : cache'[m] = Freeing(r)[m]
    BY Evicting, Zenon
  <1>2. n \in DOMAIN Filled(r) /\ cache'[n] = Freeing(r)[n]
    BY <1>e
  <1> QED
    BY <1>1, <1>2, PinsHold

-----------------------------------------------------------------------------
(* Bytes                                                                    *)

LEMMA BytesAre ==
    ASSUME NEW c, NEW N, IsFiniteSet(N)
    PROVE  /\ BytesOf(c, N) \in Nat
           /\ \A T \in SUBSET N : BytesOf(c, N) = BytesOf(c, T) + BytesOf(c, N \ T)
  <1> DEFINE f(S) == [n \in S |-> Bytes(c, n)]
  <1>1. \A n : Bytes(c, n) \in Nat
    <2>1. HiddenBytes \in Nat /\ LogitsBytes \in Nat
      BY ServeAssumption
    <2> QED
      BY <2>1 DEF Bytes
  <1>2. \A S : BytesOf(c, S) = SumFunctionOnSet(f(S), S)
    BY Zenon DEF BytesOf
  <1>3. \A S : \A n \in S : f(S)[n] = Bytes(c, n)
    OBVIOUS
  <1> HIDE DEF f
  <1>4. Counts(f(N), N)
    BY <1>1, <1>3 DEF Counts
  <1>5. ASSUME NEW T \in SUBSET N PROVE BytesOf(c, T) = SumFunctionOnSet(f(N), T)
    <2>1. IsFiniteSet(T) /\ \A n \in T : f(T)[n] = f(N)[n]
      BY <1>3, FS_Subset
    <2>2. SumFunctionOnSet(f(T), T) = SumFunctionOnSet(f(N), T)
      BY <2>1, SumSame
    <2> QED
      BY <1>2, <2>2
  <1>6. ASSUME NEW T \in SUBSET N
        PROVE  BytesOf(c, N) = BytesOf(c, T) + BytesOf(c, N \ T)
    <2>1. SumFunctionOnSet(f(N), N)
            = SumFunctionOnSet(f(N), T) + SumFunctionOnSet(f(N), N \ T)
      BY <1>4, SumUnion
    <2>2. N \ T \in SUBSET N
      OBVIOUS
    <2> QED
      BY <1>2, <1>5, <2>1, <2>2
  <1>7. SumFunctionOnSet(f(N), N) \in Nat
    BY <1>4, SumType
  <1> QED
    BY <1>2, <1>6, <1>7

LEMMA BytesSame ==
    ASSUME NEW c, NEW d, NEW N, IsFiniteSet(N), \A n \in N : c[n].logits = d[n].logits
    PROVE  BytesOf(c, N) = BytesOf(d, N)
  <1> DEFINE f == [n \in N |-> Bytes(c, n)]
             g == [n \in N |-> Bytes(d, n)]
  <1>1. \A n \in N : f[n] = g[n]
    BY DEF Bytes
  <1>2. BytesOf(c, N) = SumFunctionOnSet(f, N) /\ BytesOf(d, N) = SumFunctionOnSet(g, N)
    BY Zenon DEF BytesOf
  <1> HIDE DEF f, g
  <1> QED
    BY <1>1, <1>2, SumSame

\* The byte counter follows the pool, and eviction stops only within the budget or with
\* nothing left that is not pinned.
LEMMA BytesStep ==
    ASSUME ReuseExact, cacheBytes = BytesOf(cache, DOMAIN cache),
           NEW block \in Nat, NEW r, NEW bytes, NEW V, Moved(block, r, bytes, V)
    PROVE  PoolWithinBudget'
  <1> DEFINE F == Filled(r)
             G == Freeing(r)
             C == DOMAIN cache
             D == DOMAIN F
  <1>1. Went(r)
    BY Sequencing
  <1>2. /\ C \subseteq D /\ Pool(F) /\ IsFiniteSet(D)
        /\ \A n \in C : F[n].logits = cache[n].logits
    BY <1>1, Storing DEF Pool
  <1>3. /\ DOMAIN G = D /\ \A n \in D : G[n].logits = F[n].logits
    BY <1>1, Releasing
  <1>4. /\ V \subseteq Evictable(G) /\ DOMAIN cache' = D \ V
        /\ \A n \in DOMAIN cache' : cache'[n] = G[n]
    BY Evicting, Zenon
  <1>5. V \subseteq D
    BY <1>3, <1>4 DEF Evictable
  <1>6. bytes = cacheBytes + BytesOf(F, D \ C) /\ cacheBytes' = Monus(bytes, BytesOf(G, V))
    BY DEF Moved
  <1>7. Monus(bytes, BytesOf(G, V)) > CacheBudget => V = Evictable(G)
    BY DEF Moved, Victims
  <1> HIDE DEF F, G, C, D
  <1>f. IsFiniteSet(C) /\ IsFiniteSet(D \ V) /\ IsFiniteSet(V)
    BY <1>2, <1>5, FS_Subset
  <1>8. bytes = BytesOf(F, D)
    <2>1. BytesOf(cache, C) = BytesOf(F, C)
      BY <1>2, <1>f, BytesSame
    <2>2. BytesOf(F, D) = BytesOf(F, C) + BytesOf(F, D \ C)
      BY <1>2, BytesAre
    <2> QED
      BY <1>6, <2>1, <2>2 DEF C
  <1>9. bytes = BytesOf(G, D)
    BY <1>2, <1>3, <1>8, BytesSame
  <1>10. /\ BytesOf(G, D) = BytesOf(G, V) + BytesOf(G, D \ V)
         /\ BytesOf(G, V) \in Nat /\ BytesOf(G, D \ V) \in Nat
    BY <1>2, <1>5, <1>f, BytesAre
  <1>11. cacheBytes' = BytesOf(G, D \ V)
    <2>1. cacheBytes' = IF bytes >= BytesOf(G, V) THEN bytes - BytesOf(G, V) ELSE 0
      BY <1>6, <1>9, <1>10, MonusIs
    <2> QED
      BY <1>9, <1>10, <2>1
  <1>12. cacheBytes' = BytesOf(cache', DOMAIN cache')
    <2>1. \A n \in D \ V : G[n].logits = cache'[n].logits
      BY <1>4
    <2>2. BytesOf(G, D \ V) = BytesOf(cache', D \ V)
      BY <1>f, <2>1, BytesSame
    <2> QED
      BY <1>4, <1>11, <2>2
  <1>13. ASSUME cacheBytes' > CacheBudget PROVE Evictable(cache') = {}
    <2>1. V = Evictable(G)
      BY <1>6, <1>7, <1>13
    <2>2. \A n \in DOMAIN cache' : n \in D /\ n \notin V /\ cache'[n] = G[n]
      BY <1>4
    <2> QED
      BY <1>3, <2>1, <2>2 DEF Evictable
  <1> QED
    BY <1>12, <1>13 DEF PoolWithinBudget, BytesOf, Bytes, Evictable

-----------------------------------------------------------------------------
(* The pool stays sound                                                     *)

PoolExact == ReuseExact /\ PoolSound

LEMMA PoolInit == Init => PoolExact
  <1> SUFFICES ASSUME Init PROVE PoolSound
    BY ReuseInit DEF PoolExact
  <1>1. DOMAIN cache = {} /\ cacheBytes = 0
    BY DEF Init
  <1>2. BytesOf(cache, DOMAIN cache) = 0
    BY <1>1, SumEmpty DEF BytesOf
  <1>3. CacheBudget \in Nat
    BY ServeAssumption
  <1> QED
    BY <1>1, <1>2, <1>3 DEF PoolSound, LivePathsPinned, PoolWithinBudget

\* What a step that leaves the pool and the sequences alone keeps.
LEMMA PoolKept ==
    ASSUME PoolExact, ReuseExact', UNCHANGED <<cache, cacheBytes, sequences>>
    PROVE  PoolExact'
  BY DEF PoolExact, PoolSound, LivePathsPinned, PoolWithinBudget, Holders, Live, Evictable,
         BytesOf, Bytes, Running, Path

LEMMA PoolNext == PoolExact /\ [Next]_vars => PoolExact'
  <1> SUFFICES ASSUME PoolExact, [Next]_vars PROVE PoolExact'
    OBVIOUS
  <1>0. ReuseExact'
    BY ReuseNext DEF PoolExact
  <1>1. ASSUME NEW p \in Prompts, NEW n \in MaxNews, Submit(p, n) PROVE PoolExact'
    <2>1. UNCHANGED <<cache, cacheBytes, sequences>>
      BY <1>1 DEF Submit
    <2> QED
      BY <1>0, <2>1, PoolKept
  <1>2. CASE UNCHANGED <<greedy, graph, cache, cacheBytes, sequences, queue, stepIndex>>
    BY <1>0, <1>2, PoolKept
  <1>3. ASSUME NEW block \in Nat, NEW r, NEW bytes, NEW V, Moved(block, r, bytes, V) PROVE PoolExact'
    <2>1. LivePathsPinned'
      BY <1>3, PinsStep DEF PoolExact, PoolSound
    <2>2. PoolWithinBudget'
      BY <1>3, BytesStep DEF PoolExact, PoolSound, PoolWithinBudget
    <2> QED
      BY <1>0, <2>1, <2>2 DEF PoolExact, PoolSound
  <1>4. ASSUME Step PROVE PoolExact'
    BY <1>2, <1>3, <1>4, StepIs, Unfolding
  <1>5. CASE UNCHANGED vars
    BY <1>2, <1>5 DEF vars
  <1> QED
    BY <1>1, <1>4, <1>5 DEF Next

LEMMA PoolInvariant == Spec => []PoolExact
  BY PoolInit, PoolNext, PTL DEF Spec

\* A cached state on the path of a live sequence is pinned for each sequence it is on
\* the path of; the byte counter is what the pool holds, and only pinned states exceed
\* its budget.
THEOREM PoolStaysSound == Spec => []PoolSound
  <1>1. PoolExact => PoolSound
    BY DEF PoolExact
  <1> QED
    BY <1>1, PoolInvariant, PTL

\* What a step does to a sequence that was live before it.
LEMMA LiveAdvance ==
    ASSUME ReuseExact, NEW r, Went(r), NEW i \in Live
    PROVE  /\ i \in DOMAIN r /\ Seeds[i] = sequences[i]
           /\ sequences'[i].consumed > sequences[i].consumed
  <1>1. /\ i \in DOMAIN sequences /\ Running(sequences[i]) /\ Settled(sequences[i])
        /\ i \in DOMAIN All /\ All[i] = sequences[i]
    BY DEF Live, ReuseExact, Went, Entered, Behind
  <1>2. ~Seeded(All[i])
    BY <1>1 DEF Settled, Ready, Seeded
  <1>3. Seeds[i] = sequences[i] /\ i \in DOMAIN r
    BY <1>1, <1>2 DEF Went, Entered
  <1>4. sequences'[i].consumed > Seeds[i].consumed
    BY <1>3 DEF Went, Entered, Advances
  <1> QED
    BY <1>3, <1>4

LEMMA LiveNodesKept ==
    ASSUME PoolExact,
           NEW block \in Nat, NEW r, NEW bytes, NEW V, Moved(block, r, bytes, V), PinLiveNodes,
           NEW n \in DOMAIN cache, NEW i \in Live, Running(sequences'[i]),
           IsPrefix(n, Path(sequences[i]))
    PROVE  n \in DOMAIN cache'
  <1>1. Went(r) /\ ReuseExact /\ LivePathsPinned
    BY Sequencing DEF PoolExact, PoolSound
  <1>2. n \in DOMAIN Filled(r) /\ n \in Strings /\ DOMAIN Freeing(r) = DOMAIN Filled(r)
    BY <1>1, Storing, Releasing DEF ReuseExact, Pool
  <1> DEFINE s == sequences[i]
             t == sequences'[i]
             A == {j \in Live' : IsPrefix(n, Path(sequences'[j]))}
  <1>3. i \in DOMAIN r /\ Seeds[i] = s /\ t = r[i].seq /\ i \in DOMAIN All
    BY <1>1, LiveAdvance DEF Went, Entered
  <1>4. /\ s.stream \in Strings /\ s.consumed \in Nat /\ s.consumed <= Len(s.stream)
        /\ Len(s.stream) \in Nat
        /\ t.stream \in Strings /\ t.consumed \in Nat /\ t.consumed <= Len(t.stream)
        /\ t.consumed > s.consumed /\ Continues(s.stream, t.stream)
    BY <1>1, <1>3, PathFacts
  <1> HIDE DEF s, t
  <1>5. Len(n) \in Nat /\ Len(n) <= s.consumed /\ n = Upto(s.stream, Len(n))
    <2>1. Len(n) \in Nat
      BY <1>2 DEF Strings
    <2> QED
      BY <1>2, <1>4, <2>1, OnPath DEF s
  <1>6. IsPrefix(n, Path(t))
    <2>1. Len(n) \in 0..Len(s.stream)
      BY <1>4, <1>5
    <2>2. n = Upto(t.stream, Len(n))
      BY <1>4, <1>5, <2>1, Extending
    <2> QED
      BY <1>2, <1>4, <1>5, <2>2, OnPath
  <1>7. i \in A
    BY <1>1, <1>3, <1>6 DEF Live, Went, Entered, Running, t
  <1>8. IsFiniteSet(A)
    <2>1. Live' \subseteq DOMAIN All
      BY <1>1 DEF Live, Went, Entered
    <2>2. IsFiniteSet(DOMAIN All)
      BY <1>1, AllAreFinite
    <2>3. A \subseteq DOMAIN All
      BY <2>1
    <2> HIDE DEF A
    <2> QED
      BY <2>2, <2>3, FS_Subset
  <1>9. Holders(sequences', Live', n) = Cardinality(A)
    BY Zenon DEF Holders
  <1> HIDE DEF A
  <1>10. Cardinality(A) \in Nat /\ Cardinality(A) # 0
    BY <1>7, <1>8, FS_CardinalityType, FS_EmptySet
  <1>11. Freeing(r)[n].pinned # 0
    BY <1>1, <1>2, <1>9, <1>10, PinsHold
  <1>12. n \notin V
    <2>1. V \subseteq Evictable(Freeing(r))
      BY <1>1, Evicting
    <2> QED
      BY <1>11, <2>1 DEF Evictable
  <1>13. DOMAIN cache' = DOMAIN Filled(r) \ V
    BY <1>1, Evicting
  <1> QED
    BY <1>2, <1>12, <1>13

\* Eviction and batching cost a running sequence neither its states nor a step.
THEOREM SequencesStayUndisturbed == Spec => SequencesUndisturbed
  <1> DEFINE Stay == PinLiveNodes =>
                        \A n \in DOMAIN cache :
                            (\E i \in Live : Running(sequences'[i]) /\ IsPrefix(n, Path(sequences[i])))
                                => n \in DOMAIN cache'
             Advance == stepIndex' # stepIndex =>
                           \A i \in Live : sequences'[i].consumed > sequences[i].consumed
  <1>1. PoolExact /\ [Next]_vars => Stay /\ Advance
    <2> SUFFICES ASSUME PoolExact, [Next]_vars PROVE Stay /\ Advance
      OBVIOUS
    <2>1. ASSUME NEW p \in Prompts, NEW n \in MaxNews, Submit(p, n) PROVE Stay /\ Advance
      BY <2>1 DEF Submit
    <2>2. CASE UNCHANGED <<greedy, graph, cache, cacheBytes, sequences, queue, stepIndex>>
      BY <2>2
    <2>3. ASSUME NEW block \in Nat, NEW r, NEW bytes, NEW V, Moved(block, r, bytes, V) PROVE Stay /\ Advance
      <3>1. Stay
        BY <2>3, LiveNodesKept
      <3>2. Advance
        BY <2>3, Sequencing, LiveAdvance DEF PoolExact
      <3> QED
        BY <3>1, <3>2
    <2>4. ASSUME Step PROVE Stay /\ Advance
      <3> HIDE DEF Stay, Advance
      <3> QED
        BY <2>2, <2>3, <2>4, StepIs, Unfolding
    <2>5. CASE UNCHANGED vars
      BY <2>2, <2>5 DEF vars
    <2> HIDE DEF Stay, Advance
    <2> QED
      BY <2>1, <2>4, <2>5 DEF Next
  <1> QED
    BY <1>1, PoolInvariant, PTL DEF Spec, SequencesUndisturbed, LiveNodesStay,
       LiveSequencesAdvance
-----------------------------------------------------------------------------
(* Without speculation every answer is the solo one                         *)

\* What is kept as the logits of a node is that node's row, or nothing.
Labels == \A n \in DOMAIN cache : cache[n].logits \in {NoLogits, n}

\* Solo and Faithful with the model as a parameter: a step leaves the model alone.
SoloOf(g, prompt, n) ==
    LET said[j \in 0..n] ==
            IF j = 0 THEN prompt
            ELSE LET p == said[j-1]
                     t == g[Last(p)]
                 IN  IF Len(p) < Len(prompt) + j - 1 \/ t = EOS THEN p ELSE Append(p, t)
    IN  said[n]
FaithfulTo(g, s) ==
    /\ s.request \in Texts
    /\ Running(s) => /\ s.stream = SoloOf(g, s.request, s.generated)
                     /\ Len(s.stream) = Len(s.request) + s.generated
    /\ ~Running(s) => s.stream = SoloOf(g, s.request, s.max_new)

LEMMA SoloOfIs == \A q, n : Solo(q, n) = SoloOf(greedy, q, n)
  BY Zenon DEF Solo, SoloOf, Argmax

LEMMA FaithfulIs == ASSUME NEW s PROVE Faithful(s) <=> FaithfulTo(greedy, s)
  BY SoloOfIs, Zenon DEF Faithful, FaithfulTo

AnswersExact ==
    /\ ReuseExact /\ Labels
    /\ \A i \in DOMAIN sequences : FaithfulTo(greedy, sequences[i])

\* Logits that seed a sample are those of the whole prompt.
LEMMA AllAreFaithful ==
    ASSUME AnswersExact, Entered
    PROVE  \A i \in DOMAIN All : Faithful(All[i]) /\ Faithful(Seeds[i])
  <1> SUFFICES ASSUME NEW i \in DOMAIN All PROVE Faithful(All[i]) /\ Faithful(Seeds[i])
    OBVIOUS
  <1> DEFINE s == All[i]
  <1>1. Entering(s) /\ Seeds[i] = Seed(s) /\ Chooses
    BY DEF Entered, AnswersExact, ReuseExact
  <1>2. Faithful(s) /\ (Seeded(s) => s.pending = s.stream)
    <2>1. CASE i \in DOMAIN sequences
      <3>1. s = sequences[i] /\ Settled(s) /\ Faithful(s)
        BY <2>1, FaithfulIs DEF Entered, Behind, AnswersExact, ReuseExact
      <3> HIDE DEF s
      <3>2. ~Seeded(s)
        BY <3>1 DEF Settled, Ready, Seeded
      <3> QED
        BY <3>1, <3>2
    <2>2. CASE i \notin DOMAIN sequences
      <3>1. i - Len(sequences) \in DOMAIN Admitted
            /\ i = Len(sequences) + (i - Len(sequences))
        BY <2>2 DEF Entered, Behind
      <3>2. s = Admitted[i - Len(sequences)]
        BY <3>1 DEF Entered, Behind
      <3>3. PICK q \in Queued : s = Resumed(q)
        BY <3>1, <3>2 DEF Entered
      <3> HIDE DEF s
      <3>4. /\ Running(s) /\ s.stream = q.stream /\ s.request = q.stream /\ s.generated = 0
            /\ s.consumed = Len(s.stream) =>
                  s.stream \in DOMAIN cache /\ s.pending = cache[s.stream].logits
        BY <3>3, Resuming DEF AnswersExact, ReuseExact
      <3>5. q.stream \in Texts /\ Len(q.stream) \in Nat
        BY DEF Queued, Texts, Strings
      <3>6. Faithful(s)
        <4>1. Solo(q.stream, 0) = q.stream
          BY <1>1, <3>5, SoloIs
        <4> QED
          BY <3>4, <3>5, <4>1 DEF Faithful
      <3>7. ASSUME Seeded(s) PROVE s.pending = s.stream
        <4>1. s.pending # NoLogits /\ s.consumed = Len(s.stream)
          BY <3>4, <3>7, <1>1 DEF Seeded, Entering
        <4>2. s.stream \in DOMAIN cache /\ s.pending = cache[s.stream].logits
          BY <3>4, <4>1
        <4>3. s.pending \in {NoLogits, s.stream}
          BY <4>2 DEF AnswersExact, Labels
        <4> QED
          BY <4>1, <4>3
      <3> QED
        BY <3>6, <3>7
    <2> QED
      BY <2>1, <2>2
  <1> HIDE DEF s
  <1>3. Faithful(Seed(s))
    BY <1>1, <1>2, SeedingFaithfully
  <1> QED
    BY <1>1, <1>2, <1>3 DEF s

\* Where the logits of the cached nodes come from.
LEMMA LogitsOf ==
    ASSUME ReuseExact,
           NEW block \in Nat, NEW r, NEW bytes, NEW V, Moved(block, r, bytes, V), NEW n \in DOMAIN cache'
    PROVE  \/ n \in DOMAIN cache /\ cache'[n].logits = cache[n].logits
           \/ \E i \in DOMAIN r : \E d \in DOMAIN r[i].states :
                r[i].states[d].hidden = n /\ cache'[n].logits = r[i].states[d].logits
  <1>1. Went(r)
    BY Sequencing
  <1>e. /\ DOMAIN cache' = DOMAIN Filled(r) \ V
        /\ \A m \in DOMAIN cache' : cache'[m] = Freeing(r)[m]
    BY Evicting, Zenon
  <1>2. n \in DOMAIN Filled(r) /\ cache'[n] = Freeing(r)[n]
    BY <1>e
  <1>3. Freeing(r)[n].logits = Filled(r)[n].logits
    BY <1>1, <1>2, Releasing
  <1>4. n \in DOMAIN cache \/ n \in Created(r)
    BY <1>1, <1>2, Storing
  <1>5. n \in DOMAIN cache => cache'[n].logits = cache[n].logits
    BY <1>1, <1>2, <1>3, Storing
  <1>6. n \in Created(r) => \E i \in DOMAIN r : \E d \in DOMAIN r[i].states :
           r[i].states[d].hidden = n /\ cache'[n].logits = r[i].states[d].logits
    <2>1. n \in Created(r) => \E i \in DOMAIN r : \E d \in DOMAIN r[i].states :
             r[i].states[d].hidden = n /\ Filled(r)[n].logits = r[i].states[d].logits
      BY <1>1, Storing
    <2> QED
      BY <1>2, <1>3, <2>1
  <1> QED
    BY <1>4, <1>5, <1>6

LEMMA AnswersStep ==
    ASSUME AnswersExact,
           NEW block \in Nat, block = 0, NEW r, NEW bytes, NEW V, Moved(block, r, bytes, V)
    PROVE  AnswersExact'
  <1>1. ReuseExact /\ Entered /\ Went(r) /\ Chooses
    BY Sequencing DEF AnswersExact, Went, ReuseExact
  <1>2. ReuseExact'
    BY <1>1, ReuseStep
  <1>3. \A i \in DOMAIN All : Faithful(Seeds[i])
    BY <1>1, AllAreFaithful
  <1>4. ASSUME NEW i \in DOMAIN r PROVE Labelled(r[i]) /\ Faithful(r[i].seq)
    <2>1. /\ i \in DOMAIN All /\ Running(Seeds[i]) /\ Ready(Seeds[i])
          /\ Outcome(block, Seeds[i], r[i])
      BY <1>1 DEF Went, Entered, Moved
    <2> QED
      BY <1>1, <1>3, <2>1, OutcomeAdvances
  <1>5. ASSUME NEW n \in DOMAIN cache' PROVE cache'[n].logits \in {NoLogits, n}
    <2>1. CASE n \in DOMAIN cache /\ cache'[n].logits = cache[n].logits
      BY <2>1 DEF AnswersExact, Labels
    <2>2. ASSUME NEW i \in DOMAIN r, NEW d \in DOMAIN r[i].states,
                 r[i].states[d].hidden = n, cache'[n].logits = r[i].states[d].logits
          PROVE  cache'[n].logits \in {NoLogits, n}
      BY <1>4, <2>2 DEF Labelled
    <2> QED
      BY <1>1, <2>1, <2>2, LogitsOf
  <1>6. ASSUME NEW i \in DOMAIN sequences' PROVE FaithfulTo(greedy, sequences'[i])
    <2>1. CASE i \in DOMAIN r
      BY <1>1, <1>4, <2>1, FaithfulIs DEF Went
    <2>2. CASE i \notin DOMAIN r
      BY <1>1, <1>3, <2>2, FaithfulIs DEF Went
    <2> QED
      BY <2>1, <2>2
  <1>7. greedy' = greedy
    BY DEF Moved
  <1> QED
    BY <1>2, <1>5, <1>6, <1>7 DEF AnswersExact, Labels

LEMMA AnswersUpTo == ASSUME AnswersExact, StepUpTo(0) PROVE AnswersExact'
  <1>1. CASE UNCHANGED <<greedy, graph, cache, cacheBytes, sequences, queue, stepIndex>>
    <2>1. ReuseExact'
      BY <1>1, ReuseKept DEF AnswersExact
    <2> QED
      BY <1>1, <2>1 DEF AnswersExact, Labels
  <1>2. 0 \in Nat
    OBVIOUS
  <1> QED
    BY <1>1, <1>2, Unfolding, AnswersStep

LEMMA AnswersInvariant == ASSUME Block = 0 PROVE Spec => []AnswersExact
  <1>1. Init => AnswersExact
    <2> SUFFICES ASSUME Init PROVE AnswersExact
      OBVIOUS
    <2>1. DOMAIN cache = {} /\ DOMAIN sequences = {}
      BY DEF Init
    <2> QED
      BY <2>1, ReuseInit DEF AnswersExact, Labels
  <1>2. AnswersExact /\ [Next]_vars => AnswersExact'
    <2> SUFFICES ASSUME AnswersExact, [Next]_vars PROVE AnswersExact'
      OBVIOUS
    <2>0. ReuseExact'
      BY ReuseNext DEF AnswersExact
    <2>1. CASE UNCHANGED <<greedy, cache, sequences>>
      BY <2>0, <2>1 DEF AnswersExact, Labels
    <2>2. ASSUME NEW p \in Prompts, NEW n \in MaxNews, Submit(p, n) PROVE AnswersExact'
      BY <2>1, <2>2 DEF Submit
    <2>3. ASSUME Step PROVE AnswersExact'
      BY <2>3, StepIs, AnswersUpTo
    <2>4. CASE UNCHANGED vars
      BY <2>1, <2>4 DEF vars
    <2> QED
      BY <2>2, <2>3, <2>4 DEF Next
  <1> QED
    BY <1>1, <1>2, PTL DEF Spec

LEMMA StreamsFollow == AnswersExact => StreamsMatchSolo
  <1> SUFFICES ASSUME AnswersExact, NEW i \in DOMAIN sequences
               PROVE  LET s == sequences[i]
                          t == Solo(s.request, s.max_new)
                      IN  IsPrefix(s.stream, t) /\ (~Running(s) => s.stream = t)
    BY Zenon DEF StreamsMatchSolo
  <1> DEFINE s == sequences[i]
             t == Solo(s.request, s.max_new)
  <1>1. Faithful(s) /\ Placed(s) /\ Chooses
    BY FaithfulIs DEF AnswersExact, ReuseExact, Settled, Ready
  <1> HIDE DEF s
  <1>2. /\ s.request \in Texts /\ s.stream \in Strings /\ s.generated \in Nat
        /\ s.max_new \in Nat /\ s.generated <= s.max_new
    BY <1>1 DEF Faithful, Placed, SeqRecord
  <1>3. t \in Strings
    <2>1. t \in Texts
      BY <1>1, <1>2, SoloIs
    <2> QED
      BY <2>1 DEF Texts
  <1>4. ~Running(s) => s.stream = t
    BY <1>1 DEF Faithful
  <1>5. Continues(s.stream, t)
    <2>1. CASE Running(s)
      <3>1. s.stream = Solo(s.request, s.generated)
        BY <1>1, <2>1 DEF Faithful
      <3> QED
        BY <1>1, <1>2, <3>1, SoloGoesOn
    <2>2. CASE ~Running(s)
      BY <1>3, <1>4, <2>2, ContinuesItself
    <2> QED
      BY <2>1, <2>2
  <1>6. IsPrefix(s.stream, t)
    BY <1>2, <1>3, <1>5, PrefixIs
  <1> QED
    BY <1>4, <1>6 DEF s

\* Without speculation the tokens of a sequence are those it would have alone and cold,
\* whatever ran beside it and wherever it resumed from; speculation breaks this.
THEOREM AnswersStaySolo == ASSUME Block = 0 PROVE Spec => []StreamsMatchSolo
  BY StreamsFollow, AnswersInvariant, PTL

-----------------------------------------------------------------------------
(* With every logits row kept, no step panics                               *)

Rows == \A n \in DOMAIN cache : cache[n].logits = n

RowsExact == ReuseExact /\ Rows /\ NeverPanics

\* A sequence at the end of its prompt finds the logits it samples from.
LEMMA NobodyIsOut ==
    ASSUME ReuseExact, Rows, NEW i \in Runs(Seeds), ~Prefills(Seeds[i])
    PROVE  ~OutOfStream(Seeds[i])
  <1> DEFINE s == All[i]
             t == Seeds[i]
  <1>1. Entered
    BY Entry
  <1>2. /\ i \in DOMAIN All /\ Running(t) /\ Ready(t) /\ Entering(s)
        /\ ~Seeded(s) => t = s
        /\ Seeded(s) /\ Running(t) => t.generated = 1
    BY <1>1 DEF Entered, Runs
  <1>3. /\ t.stream \in Strings /\ Len(t.stream) \in Nat /\ t.consumed \in Nat
        /\ t.generated \in Nat /\ t.consumed <= Len(t.stream)
        /\ t.generated = 0 \/ Len(t.stream) = t.consumed + 1
    <2> HIDE DEF t
    <2> QED
      BY <1>2 DEF Ready, Placed, SeqRecord, Strings
  <1>4. t.generated = 0 => t.consumed < Len(t.stream)
    <2>1. CASE Seeded(s)
      BY <1>2, <2>1
    <2>2. CASE ~Seeded(s) /\ i \in DOMAIN sequences
      <3>1. t = sequences[i] /\ Settled(t)
        BY <1>1, <1>2, <2>2 DEF Entered, Behind, ReuseExact
      <3> HIDE DEF t
      <3> QED
        BY <1>2, <3>1 DEF Settled
    <2>3. CASE ~Seeded(s) /\ i \notin DOMAIN sequences
      <3>1. i - Len(sequences) \in DOMAIN Admitted
            /\ i = Len(sequences) + (i - Len(sequences))
        BY <1>1, <1>2, <2>3 DEF Entered, Behind
      <3>2. s = Admitted[i - Len(sequences)]
        BY <1>1, <3>1 DEF Entered, Behind
      <3>3. PICK q \in Queued : s = Resumed(q)
        BY <1>1, <3>1, <3>2 DEF Entered
      <3>4. t = s
        BY <1>2, <2>3
      <3> HIDE DEF s, t
      <3>5. /\ Running(s) /\ s.generated = 0
            /\ s.consumed = Len(s.stream) =>
                  s.stream \in DOMAIN cache /\ s.pending = cache[s.stream].logits
        BY <3>3, Resuming DEF ReuseExact
      <3>6. s.consumed # Len(s.stream)
        <4> SUFFICES ASSUME s.consumed = Len(s.stream) PROVE FALSE
          OBVIOUS
        <4>1. s.pending = s.stream
          BY <3>5 DEF Rows
        <4>2. s.pending # NoLogits
          BY <1>3, <3>4, <4>1, NoLogitsAssumption DEF Strings, Alphabet
        <4>3. s.consumed = PromptLen(s)
          BY <1>3, <3>4, <3>5 DEF PromptLen
        <4> QED
          BY <2>3, <3>5, <4>2, <4>3 DEF Seeded
      <3> QED
        BY <1>3, <3>4, <3>6
    <2> QED
      BY <2>1, <2>2, <2>3
  <1> HIDE DEF t
  <1>5. t.consumed + 1 <= Len(t.stream)
    BY <1>3, <1>4
  <1>6. ~OutOfStream(t)
    BY <1>3, <1>5 DEF OutOfStream
  <1> QED
    BY <1>6 DEF t

LEMMA RowsStep ==
    ASSUME PrefillChunk = 1, RowsExact,
           NEW block \in Nat, block = 0, NEW r, NEW bytes, NEW V, Moved(block, r, bytes, V)
    PROVE  RowsExact'
  <1>1. ReuseExact /\ Entered /\ Went(r) /\ Chooses
    BY Sequencing DEF RowsExact, Went, ReuseExact
  <1>2. ReuseExact'
    BY <1>1, ReuseStep
  <1>3. ASSUME NEW i \in DOMAIN r PROVE Complete(r[i])
    <2>1. /\ i \in DOMAIN All /\ Running(Seeds[i]) /\ Ready(Seeds[i])
          /\ Outcome(block, Seeds[i], r[i])
      BY <1>1 DEF Went, Entered, Moved
    <2> QED
      BY <1>1, <2>1, OutcomeAdvances
  <1>4. ASSUME NEW n \in DOMAIN cache' PROVE cache'[n].logits = n
    <2>1. CASE n \in DOMAIN cache /\ cache'[n].logits = cache[n].logits
      BY <2>1 DEF RowsExact, Rows
    <2>2. ASSUME NEW i \in DOMAIN r, NEW d \in DOMAIN r[i].states,
                 r[i].states[d].hidden = n, cache'[n].logits = r[i].states[d].logits
          PROVE  cache'[n].logits = n
      BY <1>3, <2>2 DEF Complete
    <2> QED
      BY <1>1, <2>1, <2>2, LogitsOf
  <1>5. panicked' = panicked
    BY DEF Moved
  <1> QED
    BY <1>2, <1>4, <1>5 DEF RowsExact, Rows, NeverPanics

\* Without speculation and with chunks of one token every cached state keeps its logits,
\* a prompt that is wholly resident is sampled at once, and step never slices a stream
\* past its end; longer chunks and speculation break this.
THEOREM NobodyPanics == ASSUME Block = 0, PrefillChunk = 1 PROVE Spec => []NeverPanics
  <1>1. Init => RowsExact
    <2> SUFFICES ASSUME Init PROVE RowsExact
      OBVIOUS
    <2>1. DOMAIN cache = {} /\ ~panicked
      BY DEF Init
    <2> QED
      BY <2>1, ReuseInit DEF RowsExact, Rows, NeverPanics
  <1>2. RowsExact /\ [Next]_vars => RowsExact'
    <2> SUFFICES ASSUME RowsExact, [Next]_vars PROVE RowsExact'
      OBVIOUS
    <2>0. ReuseExact'
      BY ReuseNext DEF RowsExact
    <2>1. CASE UNCHANGED <<cache, panicked>>
      BY <2>0, <2>1 DEF RowsExact, Rows, NeverPanics
    <2>2. ASSUME NEW p \in Prompts, NEW n \in MaxNews, Submit(p, n) PROVE RowsExact'
      BY <2>1, <2>2 DEF Submit
    <2>3. ASSUME Step PROVE RowsExact'
      <3>1. ~ \E i \in Runs(Seeds) : ~Prefills(Seeds[i]) /\ OutOfStream(Seeds[i])
        BY NobodyIsOut DEF RowsExact
      <3> QED
        BY <2>3, <3>1, StepIs, Unfolding, RowsStep
    <2>4. CASE UNCHANGED vars
      BY <2>1, <2>4 DEF vars
    <2> QED
      BY <2>2, <2>3, <2>4 DEF Next
  <1>3. RowsExact => NeverPanics
    BY DEF RowsExact
  <1> QED
    BY <1>1, <1>2, <1>3, PTL DEF Spec

-----------------------------------------------------------------------------
(* The HTTP front end                                                       *)

Kinds   == {"refused", "plain", "draft", "probe", "calibrated"}
Replies == [kind : Kinds, request : Request \cup {NoRequest}, tokens : Strings]

\* What a reply of the plain scheduler says.
Solos(g) == \A i \in DOMAIN answers :
                answers[i].kind = "plain" =>
                    answers[i].request.prompt \o answers[i].tokens
                      = SoloOf(g, answers[i].request.prompt, answers[i].request.max_new)

\* The request of the connection is queued, or is the last sequence, and what was sent
\* is what that has said so far; nobody else runs.
Waits == /\ queue = <<[stream |-> connection.prompt, max_new |-> connection.max_new]>>
         /\ Live = {} /\ sent = <<>>
Served ==
    LET l == Len(sequences) IN
    /\ queue = <<>> /\ l \in DOMAIN sequences /\ \A i \in Live : i = l
    /\ sequences[l].request = connection.prompt
    /\ sequences[l].max_new = connection.max_new
    /\ connection.streaming => connection.prompt \o sent = sequences[l].stream
    /\ ~connection.streaming => sent = <<>>

HttpExact ==
    /\ ReuseExact
    /\ policy \in Kinds /\ (policy = "plain" => AnswersExact)
    /\ sent \in Strings
    /\ ~Serving => queue = <<>> /\ Live = {} /\ sent = <<>>
    /\ Serving => connection \in Request /\ (Waits \/ Served)
    /\ answers \in Seq(Replies) /\ Solos(greedy)

LEMMA RequestIs ==
    ASSUME NEW q \in Request
    PROVE  /\ q.prompt \in Texts /\ q.max_new \in Nat /\ q.streaming \in BOOLEAN
           /\ q # NoRequest
  <1>1. q.prompt \in Seq(Tokens) \ {<<>>} /\ q.max_new \in Nat /\ q.streaming \in BOOLEAN
    BY ServeAssumption DEF Request
  <1>2. q.prompt \in Texts
    BY <1>1 DEF Texts, Strings, Alphabet
  <1>3. q # NoRequest
    BY <1>1 DEF NoRequest
  <1> QED
    BY <1>1, <1>2, <1>3

\* There is room for the only request there is.
LEMMA OneAtATime ==
    ASSUME ReuseExact, MaxBatch > 0, LiveStateBudget >= HiddenBytes
    PROVE  /\ queue = <<>> => Len(Admitted) = 0
           /\ Live = {} /\ Len(queue) = 1 => Len(Admitted) = 1 /\ Admitted[1] = Resumed(queue[1])
  <1>1. MaxBatch \in Nat /\ LiveStateBudget \in Nat /\ HiddenBytes \in Nat /\ HiddenBytes > 0
    BY ServeAssumption
  <1> DEFINE m == Min({Len(queue), Room})
  <1>2. Admitted = [i \in 1..m |-> Resumed(queue[i])]
    BY Zenon DEF Admitted
  <1>3. Len(Admitted) \in Nat /\ DOMAIN Admitted = 1..Len(Admitted) /\ Len(Admitted) <= Len(queue)
    BY Admission DEF Behind
  <1>4. ASSUME Live = {}, Len(queue) = 1
        PROVE  Len(Admitted) = 1 /\ Admitted[1] = Resumed(queue[1])
    <2>1. Cardinality(Live) = 0
      BY <1>4, FS_EmptySet
    <2> DEFINE k == LiveStateBudget \div HiddenBytes
    <2>2. k \in Int /\ k >= 1
      BY <1>1
    <2> HIDE DEF k
    <2>3. Min({MaxBatch, k}) \in Int /\ Min({MaxBatch, k}) >= 1
      BY <1>1, <2>2, MinOfTwo
    <2>4. Room \in Int /\ Room >= 1
      <3> DEFINE a == Min({MaxBatch, k})
      <3>1. Room = Monus(a, 0)
        BY <2>1, Zenon DEF Room, MaxLive, k
      <3>2. a \in Int /\ a >= 1
        BY <2>3
      <3> HIDE DEF a
      <3>3. Monus(a, 0) = IF a >= 0 THEN a - 0 ELSE 0
        BY <3>2, MonusIs
      <3> QED
        BY <3>1, <3>2, <3>3
    <2>5. m = 1
      <3>1. m = IF 1 <= Room THEN 1 ELSE Room
        BY <1>4, <2>4, MinOfTwo
      <3> QED
        BY <2>4, <3>1
    <2> HIDE DEF m
    <2>6. DOMAIN Admitted = 1..1 /\ Admitted[1] = Resumed(queue[1])
      BY <1>2, <2>5
    <2>7. Len(Admitted) = 1
      <3> DEFINE n == Len(Admitted)
      <3>1. n <= 1 /\ n \in Nat
        BY <1>3, <1>4
      <3>2. 1 \in 1..n
        BY <1>3, <2>6
      <3> HIDE DEF n
      <3>3. n = 1
        BY <3>1, <3>2
      <3> QED
        BY <3>3 DEF n
    <2> QED
      BY <2>6, <2>7
  <1>5. queue = <<>> => Len(Admitted) = 0
    BY <1>3
  <1> QED
    BY <1>4, <1>5

\* What a step makes of one sequence, between its admission and the end of the step.
LEMMA Follows ==
    ASSUME ReuseExact, NEW r, Went(r), NEW i \in DOMAIN All
    PROVE  LET s == All[i]
               t == sequences'[i]
           IN  /\ s.stream \in Strings /\ t.stream \in Strings
               /\ t.request = s.request /\ t.max_new = s.max_new
               /\ Continues(s.stream, t.stream)
               /\ Running(t) => Running(s)
               /\ DOMAIN r = {} => t.stream = s.stream /\ ~Running(t)
  <1> DEFINE s == All[i]
             t == sequences'[i]
             d == Seeds[i]
  <1>1. Entering(s) /\ d = Seed(s) /\ (Running(d) => Running(s)) /\ Chooses
    BY DEF Went, Entered, ReuseExact
  <1>2. /\ Ready(d) /\ d.request = s.request /\ d.max_new = s.max_new
        /\ Continues(s.stream, d.stream)
        /\ ~Running(d) => d.stream = s.stream
    BY <1>1, Seeding
  <1>3. i \in DOMAIN r <=> Running(d)
    BY DEF Went
  <1>4. i \in DOMAIN r => Advances(d, r[i]) /\ t = r[i].seq
    BY DEF Went
  <1>5. i \notin DOMAIN r => t = d
    BY DEF Went
  <1> HIDE DEF s, t, d
  <1>6. s.stream \in Strings /\ d.stream \in Strings
    BY <1>1, <1>2 DEF Entering, Ready, Placed, SeqRecord
  <1>7. CASE i \in DOMAIN r
    <2>1. /\ Settled(t) /\ t.request = d.request /\ t.max_new = d.max_new
          /\ Continues(d.stream, t.stream)
      BY <1>4, <1>7 DEF Advances
    <2>2. t.stream \in Strings
      BY <2>1 DEF Settled, Ready, Placed, SeqRecord
    <2>3. Continues(s.stream, t.stream)
      BY <1>2, <1>6, <2>1, <2>2, ContinuesAgain
    <2> QED
      BY <1>1, <1>2, <1>3, <1>6, <1>7, <2>1, <2>2, <2>3 DEF s, t
  <1>8. CASE i \notin DOMAIN r
    BY <1>1, <1>2, <1>3, <1>5, <1>6, <1>8 DEF s, t
  <1> QED
    BY <1>7, <1>8

\* The sequence of the connection when a turn of the loop begins: no other one runs.
LEMMA ItsOwn ==
    ASSUME HttpExact, Serving, MaxBatch > 0, LiveStateBudget >= HiddenBytes
    PROVE  LET l == Len(sequences) + Len(Admitted) IN
           /\ l \in DOMAIN All /\ \A i \in DOMAIN All : Running(All[i]) => i = l
           /\ All[l].request = connection.prompt /\ All[l].max_new = connection.max_new
           /\ connection.streaming => connection.prompt \o sent = All[l].stream
           /\ ~connection.streaming => sent = <<>>
           /\ SubSeq(queue, Len(Admitted) + 1, Len(queue)) = <<>>
  <1> DEFINE l == Len(sequences) + Len(Admitted)
  <1>1. ReuseExact /\ connection \in Request /\ Behind(Admitted, All)
    BY Entry DEF HttpExact, Entered
  <1>2. /\ DOMAIN All = 1..l /\ Len(sequences) \in Nat /\ Len(Admitted) \in Nat
        /\ DOMAIN sequences = 1..Len(sequences) /\ DOMAIN Admitted = 1..Len(Admitted)
        /\ \A i \in DOMAIN sequences : All[i] = sequences[i]
        /\ \A j \in DOMAIN Admitted : All[Len(sequences) + j] = Admitted[j]
    BY <1>1 DEF Behind
  <1>3. \A i \in DOMAIN sequences : Running(All[i]) => i \in Live
    BY <1>2 DEF Live
  <1>4. CASE Waits
    <2> DEFINE q == [stream |-> connection.prompt, max_new |-> connection.max_new]
    <2>1. queue = <<q>> /\ Live = {} /\ sent = <<>>
      BY <1>4 DEF Waits
    <2>2. Len(queue) = 1 /\ queue[1] = q
      BY <2>1
    <2>3. Len(Admitted) = 1 /\ Admitted[1] = Resumed(q)
      BY <1>1, <2>1, <2>2, OneAtATime
    <2>4. q \in Queued /\ q.stream = connection.prompt /\ q.max_new = connection.max_new
          /\ connection.prompt \in Strings
      BY <1>1, RequestIs DEF Queued, Texts
    <2> HIDE DEF q
    <2>5. LET t == Resumed(q) IN
          t.stream = q.stream /\ t.request = q.stream /\ t.max_new = q.max_new
      BY <1>1, <2>4, Resuming DEF ReuseExact
    <2>6. All[l] = Resumed(q) /\ l \in DOMAIN All /\ l = Len(sequences) + 1
      BY <1>2, <2>3
    <2>7. \A i \in DOMAIN All : Running(All[i]) => i = l
      BY <1>2, <1>3, <2>1, <2>6
    <2>8. connection.prompt \o sent = connection.prompt
      BY <2>1, <2>4 DEF Strings
    <2>9. SubSeq(queue, Len(Admitted) + 1, Len(queue)) = <<>>
      BY <2>1, <2>2, <2>3
    <2> HIDE DEF l
    <2> QED
      BY <2>1, <2>4, <2>5, <2>6, <2>7, <2>8, <2>9 DEF l
  <1>5. CASE Served
    <2>1. /\ queue = <<>> /\ Len(sequences) \in DOMAIN sequences
          /\ \A i \in Live : i = Len(sequences)
          /\ sequences[Len(sequences)].request = connection.prompt
          /\ sequences[Len(sequences)].max_new = connection.max_new
          /\ connection.streaming =>
                connection.prompt \o sent = sequences[Len(sequences)].stream
          /\ ~connection.streaming => sent = <<>>
      BY <1>5 DEF Served
    <2>2. Len(Admitted) = 0
      BY <1>1, <2>1, OneAtATime
    <2>3. l = Len(sequences)
      BY <1>2, <2>2
    <2>4. SubSeq(queue, Len(Admitted) + 1, Len(queue)) = <<>>
      BY <2>1, <2>2
    <2>5. DOMAIN All = DOMAIN sequences
      BY <1>2, <2>3
    <2> HIDE DEF l
    <2> QED
      BY <1>2, <1>3, <2>1, <2>3, <2>4, <2>5 DEF l
  <1> QED
    BY <1>4, <1>5 DEF HttpExact

\* What a turn leaves of the connection's request.
LEMMA Turning ==
    ASSUME HttpExact, Serving, MaxBatch > 0, LiveStateBudget >= HiddenBytes,
           NEW block \in Nat, NEW r, NEW bytes, NEW V, Moved(block, r, bytes, V)
    PROVE  LET l == Len(sequences')
               t == sequences'[l]
           IN  /\ queue' = <<>> /\ l \in DOMAIN sequences' /\ \A i \in Live' : i = l
               /\ Last(sequences') = t
               /\ t.request = connection.prompt /\ t.max_new = connection.max_new
               /\ t.stream \in Strings
               /\ ~connection.streaming => sent = <<>>
               /\ connection.streaming =>
                     /\ Continues(connection.prompt \o sent, t.stream)
                     /\ DOMAIN r = {} => t.stream = connection.prompt \o sent
               /\ DOMAIN r = {} => Live' = {} /\ ~Running(t)
  <1> DEFINE l == Len(sequences')
             t == sequences'[l]
             k == Len(sequences) + Len(Admitted)
  <1>1. ReuseExact /\ Went(r)
    BY Sequencing DEF HttpExact
  <1>2. sequences' \in Seq(SeqRecord)
    BY <1>1, SequencesSettle
  <1>3. /\ DOMAIN sequences' = DOMAIN All /\ DOMAIN All = 1..k /\ k \in Nat
    BY <1>1 DEF Went, Entered, Behind
  <1>4. l = k
    BY <1>2, <1>3
  <1>5. /\ k \in DOMAIN All /\ \A i \in DOMAIN All : Running(All[i]) => i = k
        /\ All[k].request = connection.prompt /\ All[k].max_new = connection.max_new
        /\ connection.streaming => connection.prompt \o sent = All[k].stream
        /\ ~connection.streaming => sent = <<>>
        /\ SubSeq(queue, Len(Admitted) + 1, Len(queue)) = <<>>
    BY ItsOwn
  <1>6. queue' = <<>>
    BY <1>5 DEF Moved
  <1> HIDE DEF k, l
  <1>7. /\ All[k].stream \in Strings /\ t.stream \in Strings
        /\ t.request = All[k].request /\ t.max_new = All[k].max_new
        /\ Continues(All[k].stream, t.stream)
        /\ DOMAIN r = {} => t.stream = All[k].stream /\ ~Running(t)
    BY <1>1, <1>4, <1>5, Follows
  <1>8. \A i \in Live' : i \in DOMAIN All /\ Running(sequences'[i])
    BY <1>3 DEF Live, Running
  <1>9. \A i \in Live' : i = l
    BY <1>1, <1>4, <1>5, <1>8, Follows
  <1>10. DOMAIN r = {} => Live' = {}
    BY <1>1, <1>8, Follows
  <1>11. Last(sequences') = t
    BY DEF Last, l
  <1>12. l \in DOMAIN sequences'
    BY <1>3, <1>4, <1>5
  <1> HIDE DEF t
  <1> QED
    BY <1>5, <1>6, <1>7, <1>9, <1>10, <1>11, <1>12 DEF t, l

LEMMA Rest ==
    ASSUME NEW s \in Strings, NEW t \in Strings, Continues(s, t)
    PROVE  /\ SubSeq(t, Len(s) + 1, Len(t)) \in Strings
           /\ s \o SubSeq(t, Len(s) + 1, Len(t)) = t
  <1>1. Len(s) \in 0..Len(t) /\ Len(t) \in Len(s)..Len(t) /\ Upto(t, Len(s)) = s
    BY DEF Continues, Strings
  <1>2. Upto(t, Len(s)) \o SubSeq(t, Len(s) + 1, Len(t)) = Upto(t, Len(t)) /\ Upto(t, Len(t)) = t
    BY <1>1, Cutting
  <1>3. SubSeq(t, Len(s) + 1, Len(t)) \in Strings
    BY <1>1 DEF Strings
  <1> QED
    BY <1>1, <1>2, <1>3

LEMMA Regrouped ==
    ASSUME NEW s \in Strings, NEW t \in Strings, NEW u \in Strings
    PROVE  s \o (t \o u) = (s \o t) \o u /\ t \o u \in Strings
  BY DEF Strings

\* One more event: the tokens the stream has grown by.
LEMMA Sending ==
    ASSUME NEW a \in Strings, NEW b \in Strings, NEW t \in Strings, Continues(a \o b, t)
    PROVE  LET e == b \o SubSeq(t, Len(a) + Len(b) + 1, Len(t))
           IN  e \in Strings /\ a \o e = t
  <1> DEFINE u == SubSeq(t, Len(a) + Len(b) + 1, Len(t))
  <1>1. a \o b \in Strings /\ Len(a \o b) = Len(a) + Len(b)
    BY Joined
  <1>2. u \in Strings /\ (a \o b) \o u = t
    BY <1>1, Rest
  <1> HIDE DEF u
  <1>4. u \in Strings
    BY <1>2
  <1>3. a \o (b \o u) = (a \o b) \o u /\ b \o u \in Strings
    BY <1>4, Regrouped
  <1> QED
    BY <1>2, <1>3 DEF u

LEMMA Kinded == policy \in Kinds => Horizon \in Nat /\ (policy = "plain" => Horizon = 0)
  BY ServeAssumption DEF Horizon

LEMMA HttpPanics ==
    ASSUME HttpExact, ServeStep, panicked',
           UNCHANGED <<greedy, graph, cache, cacheBytes, sequences, queue, stepIndex>>
    PROVE  HttpExact'
  <1>1. ReuseExact' /\ (policy' = "plain" => AnswersExact') /\ policy' = policy
    BY ReuseKept DEF HttpExact, ServeStep, AnswersExact, Labels
  <1>2. UNCHANGED <<connection, answers, sent>>
    BY DEF ServeStep
  <1> QED
    BY <1>1, <1>2
       DEF HttpExact, Serving, Waits, Served, Solos, Live, Running

\* A turn that leaves the request running, or has to look again.
LEMMA HttpGoesOn ==
    ASSUME HttpExact, ServeStep, MaxBatch > 0, LiveStateBudget >= HiddenBytes, ~LoopEnds,
           ReuseExact', policy' = "plain" => AnswersExact',
           NEW block \in Nat, NEW r, NEW bytes, NEW V, Moved(block, r, bytes, V)
    PROVE  HttpExact'
  <1> DEFINE l == Len(sequences')
             t == sequences'[l]
             p == connection.prompt
  <1>1. Serving /\ connection \in Request /\ p \in Strings /\ connection.streaming \in BOOLEAN
    BY RequestIs DEF ServeStep, HttpExact, Texts
  <1>2. ~panicked'
    BY DEF ServeStep, StepUpTo, Moved
  <1>3. /\ queue' = <<>> /\ l \in DOMAIN sequences' /\ \A i \in Live' : i = l
        /\ Last(sequences') = t
        /\ t.request = p /\ t.max_new = connection.max_new
        /\ t.stream \in Strings
        /\ ~connection.streaming => sent = <<>>
        /\ connection.streaming => Continues(p \o sent, t.stream)
    BY <1>1, Turning
  <1>4. UNCHANGED <<connection, answers, policy>>
        /\ sent' = IF connection.streaming THEN sent \o Events(sequences') ELSE sent
    BY <1>2 DEF ServeStep
  <1>5. Events(sequences') = SubSeq(t.stream, Len(p) + Len(sent) + 1, Len(t.stream))
    BY <1>3 DEF Events, TokensSince
  <1>6. sent \in Strings /\ greedy' = greedy
    BY DEF HttpExact, Moved
  <1> HIDE DEF l, t, p
  <1>7. CASE connection.streaming
    <2>1. sent' = sent \o SubSeq(t.stream, Len(p) + Len(sent) + 1, Len(t.stream))
      BY <1>4, <1>5, <1>7
    <2>2. sent' \in Strings /\ p \o sent' = t.stream
      BY <1>1, <1>3, <1>6, <1>7, <2>1, Sending
    <2>3. Served'
      BY <1>3, <1>4, <1>7, <2>2 DEF Served, l, t, p
    <2> QED
      BY <1>1, <1>4, <1>6, <2>2, <2>3 DEF HttpExact, Serving, Solos
  <1>8. CASE ~connection.streaming
    <2>1. sent' = <<>> /\ sent' = sent
      BY <1>3, <1>4, <1>8
    <2>2. Served'
      BY <1>3, <1>4, <1>8, <2>1 DEF Served, l, t, p
    <2> QED
      BY <1>1, <1>4, <1>6, <2>1, <2>2 DEF HttpExact, Serving, Solos
  <1> QED
    BY <1>7, <1>8

\* What the request is answered when the loop ends.
LEMMA Answered ==
    ASSUME HttpExact, Serving, policy = "plain", MaxBatch > 0, LiveStateBudget >= HiddenBytes,
           AnswersExact', NEW block \in Nat, NEW r, NEW bytes, NEW V, Moved(block, r, bytes, V),
           DOMAIN r = {}
    PROVE  LET p == connection.prompt
               e == IF connection.streaming THEN sent ELSE TokensSince(sequences', 0)
           IN  p \o e = SoloOf(greedy, p, connection.max_new)
  <1> DEFINE l == Len(sequences')
             t == sequences'[l]
             p == connection.prompt
             m == connection.max_new
  <1>1. /\ p \in Texts /\ m \in Nat /\ connection.streaming \in BOOLEAN /\ Chooses
        /\ greedy' = greedy
    BY RequestIs DEF HttpExact, ReuseExact, Moved
  <1>2. /\ l \in DOMAIN sequences' /\ Last(sequences') = t /\ ~Running(t)
        /\ t.request = p /\ t.max_new = m /\ t.stream \in Strings
        /\ connection.streaming => t.stream = p \o sent
    BY Turning
  <1>3. FaithfulTo(greedy, t)
    BY <1>1, <1>2 DEF AnswersExact
  <1> HIDE DEF t, l, p, m
  <1>4. t.stream = SoloOf(greedy, p, m)
    BY <1>2, <1>3 DEF FaithfulTo
  <1>5. CASE connection.streaming
    BY <1>2, <1>4, <1>5 DEF p, m
  <1>6. CASE ~connection.streaming
    <2>1. t.stream = Solo(p, m)
      BY <1>4, SoloOfIs
    <2>2. Continues(Solo(p, 0), Solo(p, m)) /\ Solo(p, 0) = p
      <3>1. 0 \in Nat /\ 0 <= m
        BY <1>1
      <3> QED
        BY <1>1, <3>1, SoloGoesOn, SoloIs
    <2>3. Continues(p, t.stream) /\ p \in Strings /\ Len(p) \in Nat
      BY <1>1, <2>1, <2>2 DEF Texts, Strings
    <2>4. p \o SubSeq(t.stream, Len(p) + 1, Len(t.stream)) = t.stream
      BY <1>2, <2>3, Rest
    <2>5. TokensSince(sequences', 0) = SubSeq(t.stream, Len(p) + 1, Len(t.stream))
      <3>1. Len(p) + 0 + 1 = Len(p) + 1
        BY <2>3
      <3> QED
        BY <1>2, <3>1 DEF TokensSince, p
    <2> QED
      BY <1>4, <1>6, <2>4, <2>5 DEF p, m
  <1> QED
    BY <1>5, <1>6

LEMMA HttpEnds ==
    ASSUME HttpExact, ServeStep, MaxBatch > 0, LiveStateBudget >= HiddenBytes, LoopEnds,
           ReuseExact', policy' = "plain" => AnswersExact',
           NEW block \in Nat, NEW r, NEW bytes, NEW V, Moved(block, r, bytes, V)
    PROVE  HttpExact'
  <1> DEFINE e == IF connection.streaming THEN sent ELSE TokensSince(sequences', 0)
             x == Answer(policy, e)
  <1>1. /\ Serving /\ connection \in Request /\ connection.prompt \in Strings
        /\ connection.streaming \in BOOLEAN /\ policy' = policy /\ policy \in Kinds
        /\ greedy' = greedy /\ sent \in Strings /\ answers \in Seq(Replies) /\ Solos(greedy)
    BY RequestIs DEF ServeStep, HttpExact, Texts, Moved
  <1>2. ~panicked' /\ DOMAIN r = {}
    BY DEF ServeStep, StepUpTo, Moved, LoopEnds
  <1>3. answers' = Append(answers, x) /\ connection' = NoRequest /\ sent' = <<>>
    BY <1>2 DEF ServeStep
  <1>4. /\ queue' = <<>> /\ Live' = {}
        /\ Last(sequences') = sequences'[Len(sequences')]
        /\ sequences'[Len(sequences')].stream \in Strings
    BY <1>1, <1>2, Turning
  <1>5. e \in Strings
    <2> DEFINE w == sequences'[Len(sequences')].stream
    <2>1. TokensSince(sequences', 0) = SubSeq(w, Len(connection.prompt) + 0 + 1, Len(w))
      BY <1>4 DEF TokensSince
    <2>2. w \in Strings /\ Len(connection.prompt) \in Nat
      BY <1>1, <1>4 DEF Strings
    <2> HIDE DEF w
    <2>3. SubSeq(w, Len(connection.prompt) + 0 + 1, Len(w)) \in Strings
      BY <2>2 DEF Strings
    <2> QED
      BY <1>1, <2>1, <2>3
  <1>6. policy = "plain" =>
            connection.prompt \o e = SoloOf(greedy, connection.prompt, connection.max_new)
    BY <1>1, <1>2, Answered
  <1> HIDE DEF e
  <1>7. x \in Replies /\ x.kind = policy /\ x.request = connection /\ x.tokens = e
    BY <1>1, <1>5 DEF Answer, Replies
  <1> HIDE DEF x
  <1>8. /\ answers' \in Seq(Replies) /\ Len(answers) \in Nat
        /\ DOMAIN answers' = 1..(Len(answers) + 1) /\ DOMAIN answers = 1..Len(answers)
        /\ answers'[Len(answers) + 1] = x
        /\ \A i \in DOMAIN answers : answers'[i] = answers[i]
    BY <1>1, <1>3, <1>7
  <1>9. Solos(greedy)'
    <2> SUFFICES ASSUME NEW i \in DOMAIN answers', answers'[i].kind = "plain"
                 PROVE  answers'[i].request.prompt \o answers'[i].tokens
                          = SoloOf(greedy, answers'[i].request.prompt, answers'[i].request.max_new)
      BY <1>1 DEF Solos
    <2>1. CASE i \in DOMAIN answers
      BY <1>1, <1>8, <2>1 DEF Solos
    <2>2. CASE i = Len(answers) + 1
      <3>1. answers'[i] = x
        BY <1>8, <2>2
      <3>2. policy = "plain"
        BY <1>7, <3>1
      <3>3. connection.prompt \o e = SoloOf(greedy, connection.prompt, connection.max_new)
        BY <1>6, <3>2
      <3> QED
        BY <1>7, <3>1, <3>3, Zenon
    <2>3. i \in DOMAIN answers \/ i = Len(answers) + 1
      BY <1>8
    <2> QED
      BY <2>1, <2>2, <2>3, Zenon
  <1>10. ~Serving' /\ sent' \in Strings
    BY <1>3 DEF Serving, Strings
  <1> QED
    BY <1>1, <1>3, <1>4, <1>8, <1>9, <1>10 DEF HttpExact

LEMMA HttpServe ==
    ASSUME HttpExact, ServeStep, MaxBatch > 0, LiveStateBudget >= HiddenBytes
    PROVE  HttpExact'
  <1>1. /\ Horizon \in Nat /\ StepUpTo(Horizon) /\ policy' = policy
        /\ policy = "plain" => Horizon = 0 /\ AnswersExact
    BY Kinded DEF HttpExact, ServeStep
  <1>2. ReuseExact'
    BY <1>1, ReuseUpTo DEF HttpExact
  <1>3. policy' = "plain" => AnswersExact'
    BY <1>1, AnswersUpTo
  <1>4. ASSUME NEW r, NEW bytes, NEW V, Moved(Horizon, r, bytes, V) PROVE HttpExact'
    BY <1>1, <1>2, <1>3, <1>4, HttpGoesOn, HttpEnds
  <1> QED
    BY <1>1, <1>4, Unfolding, HttpPanics

\* Calibration leaves the scheduler alone, or starts it again with nothing in it.
LEMMA HttpCalibrates ==
    ASSUME HttpExact, Calibrate
    PROVE  HttpExact'
  <1>1. ~Serving /\ UNCHANGED <<connection, sent, answers>>
    BY DEF Calibrate, CalibrationDue
  <1>2. CASE UNCHANGED vars /\ policy' = "calibrated"
    <2>1. ReuseExact'
      BY <1>2, ReuseKept DEF HttpExact, vars
    <2> QED
      BY <1>1, <1>2, <2>1 DEF HttpExact, vars, Serving, Live, Running, Solos, Kinds
  <1>3. CASE /\ policy' = "plain" /\ StartAgain /\ queue' = <<>> /\ stepIndex' = 0
             /\ greedy' = greedy
    <2>1. /\ sequences' = <<>> /\ graph' = {<<>>} /\ cache' = <<>> /\ DOMAIN cache' = {}
          /\ DOMAIN sequences' = {} /\ Chooses'
      BY <1>3 DEF StartAgain, HttpExact, ReuseExact, Chooses
    <2>2. Pool(cache)'
      <3>1. IsFiniteSet(DOMAIN cache')
        BY <2>1, FS_EmptySet
      <3> QED
        BY <2>1, <3>1 DEF Pool
    <2>3. ReuseExact'
      <3>1. queue' \in Seq(Queued) /\ sequences' \in Seq(SeqRecord) /\ graph' \subseteq Strings
        BY <1>3, <2>1 DEF Strings
      <3>2. stepIndex' \in Nat /\ <<>> \in graph' /\ DOMAIN cache' \subseteq graph'
        BY <1>3, <2>1
      <3> QED
        BY <2>1, <2>2, <3>1, <3>2 DEF ReuseExact
    <2>4. AnswersExact'
      BY <2>1, <2>3 DEF AnswersExact, Labels
    <2>5. Live' = {}
      BY <2>1 DEF Live
    <2> QED
      BY <1>1, <1>3, <2>3, <2>4, <2>5 DEF HttpExact, Serving, Solos, Kinds
  <1> QED
    BY <1>2, <1>3 DEF Calibrate

LEMMA HttpAccepts ==
    ASSUME HttpExact, NEW q \in Request, Accept(q)
    PROVE  HttpExact'
  <1>1. ~Serving /\ queue = <<>> /\ Live = {} /\ sent = <<>>
    BY DEF Accept, Accepts, HttpExact
  <1>2. /\ Submit(q.prompt, q.max_new) /\ connection' = q
        /\ UNCHANGED <<policy, sent, answers>>
    BY DEF Accept
  <1>3. q.prompt \in Prompts /\ q.max_new \in MaxNews
    BY DEF Request
  <1>4. ReuseExact'
    BY <1>2, <1>3, ReuseSubmit DEF HttpExact
  <1>5. /\ queue' = Append(queue, [stream |-> q.prompt, max_new |-> q.max_new])
        /\ UNCHANGED <<greedy, cache, sequences>>
    BY <1>2 DEF Submit
  <1>6. policy' = "plain" => AnswersExact'
    BY <1>2, <1>4, <1>5 DEF HttpExact, AnswersExact, Labels
  <1>7. queue' = <<[stream |-> connection'.prompt, max_new |-> connection'.max_new]>>
    BY <1>1, <1>2, <1>5
  <1>8. Live' = {}
    BY <1>1, <1>5 DEF Live, Running
  <1>9. Waits'
    BY <1>1, <1>2, <1>7, <1>8 DEF Waits
  <1>10. Serving'
    BY <1>2, RequestIs DEF Serving
  <1> QED
    BY <1>2, <1>4, <1>5, <1>6, <1>9, <1>10 DEF HttpExact, Solos

LEMMA HttpInit == HInit => HttpExact
  <1> SUFFICES ASSUME HInit PROVE HttpExact
    OBVIOUS
  <1>1. /\ Init /\ connection = NoRequest /\ sent = <<>> /\ answers = <<>>
        /\ policy \in {CASE t = "none" -> "plain" [] t = "draft" -> "draft"
                         [] t = "auto" -> "probe" : t \in SpecTypes}
    BY DEF HInit
  <1>2. policy \in Kinds
    <2>1. SpecTypes \subseteq {"none", "draft", "auto"}
      BY HttpAssumption
    <2> QED
      BY <1>1, <2>1 DEF Kinds
  <1>3. /\ DOMAIN cache = {} /\ DOMAIN sequences = {} /\ queue = <<>>
    BY <1>1 DEF Init
  <1>4. ReuseExact /\ AnswersExact
    BY <1>1, <1>3, ReuseInit DEF AnswersExact, Labels
  <1>5. Live = {} /\ ~Serving /\ sent \in Strings
    BY <1>1, <1>3 DEF Live, Serving, Strings
  <1>6. answers \in Seq(Replies) /\ Solos(greedy)
    BY <1>1 DEF Solos
  <1> QED
    BY <1>1, <1>2, <1>3, <1>4, <1>5, <1>6 DEF HttpExact

LEMMA HttpNext ==
    ASSUME MaxBatch > 0, LiveStateBudget >= HiddenBytes
    PROVE  HttpExact /\ [HNext]_hvars => HttpExact'
  <1> SUFFICES ASSUME HttpExact, [HNext]_hvars PROVE HttpExact'
    OBVIOUS
  <1>1. CASE Refuse
    <2> DEFINE x == Answer("refused", <<>>)
    <2>1. /\ ~Serving /\ answers' = Append(answers, x)
          /\ UNCHANGED <<vars, policy, connection, sent>>
      BY <1>1 DEF Refuse, Accepts
    <2>2. ReuseExact'
      BY <2>1, ReuseKept DEF HttpExact, vars
    <2>3. policy' = "plain" => AnswersExact'
      BY <2>1, <2>2 DEF HttpExact, AnswersExact, Labels, vars
    <2>4. x \in Replies /\ x.kind = "refused"
      BY <2>1 DEF Answer, Replies, Kinds, Serving, Strings
    <2> HIDE DEF x
    <2>5. /\ answers' \in Seq(Replies) /\ Len(answers) \in Nat
          /\ DOMAIN answers' = 1..(Len(answers) + 1) /\ DOMAIN answers = 1..Len(answers)
          /\ answers'[Len(answers) + 1] = x
          /\ \A i \in DOMAIN answers : answers'[i] = answers[i]
      BY <2>1, <2>4 DEF HttpExact
    <2>6. \A i \in DOMAIN answers' : i \in DOMAIN answers \/ i = Len(answers) + 1
      BY <2>5
    <2>7. Solos(greedy)'
      BY <2>1, <2>4, <2>5, <2>6 DEF HttpExact, Solos, vars
    <2> QED
      BY <2>1, <2>2, <2>3, <2>5, <2>7 DEF HttpExact, Serving, Live, Running, vars
  <1>2. ASSUME NEW q \in Request, Accept(q) PROVE HttpExact'
    BY <1>2, HttpAccepts
  <1>3. CASE ServeStep
    BY <1>3, HttpServe
  <1>4. CASE Calibrate
    BY <1>4, HttpCalibrates
  <1>5. CASE UNCHANGED hvars
    <2>1. UNCHANGED <<vars, policy, connection, sent, answers>>
      BY <1>5 DEF hvars
    <2>2. ReuseExact'
      BY <2>1, ReuseKept DEF HttpExact, vars
    <2>3. policy' = "plain" => AnswersExact'
      BY <2>1, <2>2 DEF HttpExact, AnswersExact, Labels, vars
    <2> QED
      BY <2>1, <2>2, <2>3
         DEF HttpExact, Serving, Waits, Served, Solos, Live, Running, vars
  <1> QED
    BY <1>1, <1>2, <1>3, <1>4, <1>5 DEF HNext

LEMMA SoloNothing == Solo(<<>>, 0) = <<>>
  <1> DEFINE none == <<>>
             More0(x, j) == IF Len(x) < Len(none) + j - 1 \/ Argmax(x) = EOS THEN x
                            ELSE Append(x, Argmax(x))
             Saying(g) == g = [j \in 0..0 |-> IF j = 0 THEN none ELSE More0(g[j-1], j)]
             said == CHOOSE g : Saying(g)
  <1>1. Solo(none, 0) = said[0]
    BY Zenon DEF Solo
  <1> HIDE DEF none, More0
  <1>2. Saying([j \in 0..0 |-> none])
    OBVIOUS
  <1>3. Saying(said)
    BY <1>2, Zenon
  <1> HIDE DEF said
  <1>4. said[0] = none
    BY <1>3
  <1> QED
    BY <1>1, <1>4 DEF none

\* Every completion of the plain scheduler, streamed or not, is what the prompt gives
\* alone and cold, whatever was served or probed before it, provided one request fits.
THEOREM AnswersAreSolo ==
    ASSUME MaxBatch > 0, LiveStateBudget >= HiddenBytes
    PROVE  HSpec => []AnswersMatchSolo
  <1>1. HttpExact => AnswersMatchSolo
    <2> SUFFICES ASSUME HttpExact PROVE AnswersMatchSolo
      OBVIOUS
    <2> DEFINE p == connection.prompt
               m == connection.max_new
    <2>1. ASSUME NEW i \in DOMAIN answers, answers[i].kind = "plain"
          PROVE  answers[i].request.prompt \o answers[i].tokens
                   = Solo(answers[i].request.prompt, answers[i].request.max_new)
      BY <2>1, SoloOfIs DEF HttpExact, Solos
    <2>2. ASSUME policy = "plain", Serving PROVE IsPrefix(p \o sent, Solo(p, m))
      <3>1. p \in Texts /\ m \in Nat /\ connection.streaming \in BOOLEAN
            /\ AnswersExact /\ Chooses /\ sent \in Strings
        BY <2>2, RequestIs DEF HttpExact, ReuseExact
      <3>2. Solo(p, m) \in Strings /\ p \in Strings /\ Len(p) \in Nat
            /\ Continues(p, Solo(p, m))
        <4>1. 0 \in Nat /\ 0 <= m
          BY <3>1
        <4>2. Continues(Solo(p, 0), Solo(p, m)) /\ Solo(p, 0) = p /\ Solo(p, m) \in Texts
          BY <3>1, <4>1, SoloGoesOn, SoloIs
        <4> QED
          BY <3>1, <4>2 DEF Texts, Strings
      <3>3. CASE sent = <<>>
        <4>1. p \o sent = p
          BY <3>2, <3>3 DEF Strings
        <4> QED
          BY <3>2, <4>1, PrefixIs
      <3>4. CASE sent # <<>>
        <4>1. Served /\ connection.streaming
          BY <2>2, <3>4, <3>1 DEF HttpExact, Waits, Served
        <4> DEFINE s == sequences[Len(sequences)]
        <4>2. /\ Len(sequences) \in DOMAIN sequences /\ s.request = p /\ s.max_new = m
              /\ p \o sent = s.stream
          BY <4>1 DEF Served
        <4>3. StreamsMatchSolo
          BY <3>1, StreamsFollow
        <4> QED
          BY <4>2, <4>3 DEF StreamsMatchSolo
      <3> QED
        BY <3>3, <3>4
    <2>3. ASSUME ~Serving PROVE IsPrefix(p \o sent, Solo(p, m))
      <3>1. p = <<>> /\ m = 0 /\ sent = <<>>
        BY <2>3 DEF HttpExact, Serving, NoRequest
      <3>2. p \o sent = <<>> /\ Solo(p, m) = <<>>
        BY <3>1, SoloNothing
      <3>3. IsPrefix(<<>>, <<>>)
        <4>1. <<>> \in Strings
          BY DEF Strings
        <4> QED
          BY <4>1, PrefixIs, ContinuesItself
      <3> QED
        BY <3>2, <3>3
    <2> HIDE DEF p, m
    <2> QED
      BY <2>1, <2>2, <2>3 DEF AnswersMatchSolo, p, m
  <1>2. HttpExact /\ [HNext]_hvars => HttpExact'
    BY HttpNext
  <1> QED
    BY <1>1, <1>2, HttpInit, PTL DEF HSpec
=============================================================================
