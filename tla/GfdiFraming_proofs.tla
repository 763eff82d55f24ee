-------------------------- MODULE GfdiFraming_proofs --------------------------
(***************************************************************************)
(* Proofs about GfdiFraming and the codecs it is built from, for messages  *)
(* of any length and any bytes, and blocks of any length.                  *)
(***************************************************************************)
EXTENDS GfdiFraming, SequenceTheorems, NaturalsInduction, WellFoundedInduction, TLAPS

(* Induction over the natural numbers, for a set. *)
LEMMA AllNaturals ==
  ASSUME NEW T \in SUBSET Nat, 0 \in T, \A n \in T : n + 1 \in T
  PROVE  \A n \in Nat : n \in T
<1> DEFINE Rest == Nat \ T
           Less == {pair \in Nat \X Nat : pair[1] < pair[2]}
<1> SUFFICES ASSUME Rest # {} PROVE FALSE
  OBVIOUS
<1>1. PICK m \in Rest : \A k \in Rest : ~(<<k, m>> \in Less)
  <2>1. IsWellFoundedOn(Less, Nat)
    BY NatLessThanWellFounded, Zenon DEF OpToRel
  <2>2. Rest \subseteq Nat
    OBVIOUS
  <2> HIDE DEF Rest, Less
  <2> QED BY <2>1, <2>2, WFMin
<1>2. m \in Nat /\ m # 0 /\ m - 1 \in T
  <2>1. m \in Nat /\ m # 0 /\ m - 1 \in Nat
    OBVIOUS
  <2>2. <<m - 1, m>> \in Less
    BY <2>1
  <2> QED BY <1>1, <2>1, <2>2
<1>3. m - 1 + 1 = m
  BY <1>2
<1> QED BY <1>1, <1>2, <1>3

(* Induction from the end of a sequence to its beginning. *)
LEMMA Backwards ==
  ASSUME NEW n \in Nat, NEW T, n + 1 \in T,
         \A i \in 1 .. n : (\A j \in i + 1 .. n + 1 : j \in T) => i \in T
  PROVE  \A i \in 1 .. n + 1 : i \in T
<1> DEFINE Done == {m \in Nat : \A j \in 1 .. n + 1 : j >= n + 1 - m => j \in T}
<1>1. 0 \in Done
  OBVIOUS
<1>2. ASSUME NEW m \in Done PROVE m + 1 \in Done
  <2> SUFFICES ASSUME NEW j \in 1 .. n + 1, j = n + 1 - (m + 1) PROVE j \in T
    OBVIOUS
  <2>1. j \in 1 .. n /\ \A k \in j + 1 .. n + 1 : k \in T
    OBVIOUS
  <2> QED BY <2>1
<1>3. n \in Done
  <2>1. Done \in SUBSET Nat
    OBVIOUS
  <2> HIDE DEF Done
  <2> QED BY <1>1, <1>2, <2>1, AllNaturals
<1> QED BY <1>3

(* Functions defined by recursion along the positions of a sequence, from a *)
(* position to a later one, exist; and so do those that go back by one.     *)
Onward(n, next) ==
  next \in [1 .. n -> 1 .. n + 1] /\ \A i \in 1 .. n : next[i] > i
Solves(f, n, V, last, next, g) ==
  /\ f \in [1 .. n + 1 -> V]
  /\ f[n + 1] = last /\ \A i \in 1 .. n : f[i] = g[i][f[next[i]]]

LEMMA RecursionExists ==
  ASSUME NEW n \in Nat, NEW V, NEW last \in V, NEW next, Onward(n, next),
         NEW g \in [1 .. n -> [V -> V]]
  PROVE  \E f : Solves(f, n, V, last, next, g)
<1> DEFINE Upto(f, m) == /\ f \in [1 .. n + 1 -> V] /\ f[n + 1] = last
                         /\ \A i \in 1 .. n : i >= n + 1 - m => f[i] = g[i][f[next[i]]]
           Done == {m \in Nat : m <= n => \E f : Upto(f, m)}
<1> next \in [1 .. n -> 1 .. n + 1] /\ \A i \in 1 .. n : next[i] > i
  BY DEF Onward
<1>1. 0 \in Done
  <2>1. Upto([i \in 1 .. n + 1 |-> last], 0)
    OBVIOUS
  <2> QED BY <2>1
<1>2. ASSUME NEW m \in Done PROVE m + 1 \in Done
  <2> SUFFICES ASSUME m + 1 <= n PROVE \E f : Upto(f, m + 1)
    OBVIOUS
  <2>1. PICK f : Upto(f, m)
    OBVIOUS
  <2> DEFINE k == n - m
             h == [f EXCEPT ![k] = g[k][f[next[k]]]]
  <2>2. k \in 1 .. n /\ m \in Nat
    OBVIOUS
  <2>3. next[k] \in 1 .. n + 1 /\ next[k] > k /\ f[next[k]] \in V
    BY <2>1, <2>2
  <2>4. g[k][f[next[k]]] \in V
    BY <2>2, <2>3
  <2>5. h \in [1 .. n + 1 -> V] /\ h[n + 1] = last
    BY <2>1, <2>2, <2>4
  <2>6. ASSUME NEW i \in 1 .. n, i >= n + 1 - (m + 1) PROVE h[i] = g[i][h[next[i]]]
    <3>1. next[i] \in 1 .. n + 1 /\ next[i] > i /\ next[i] # k
      BY <2>2, <2>6
    <3>2. h[next[i]] = f[next[i]]
      BY <2>1, <3>1
    <3>3. CASE i = k
      <4>1. h[k] = g[k][f[next[k]]]
        BY <2>1, <2>2
      <4> HIDE DEF h, k
      <4> QED BY <3>2, <3>3, <4>1
    <3>4. CASE i # k
      <4>1. i >= n + 1 - m
        BY <2>6, <3>4
      <4> QED BY <2>1, <3>2, <3>4, <4>1
    <3> QED BY <3>3, <3>4
  <2>7. Upto(h, m + 1)
    BY <2>5, <2>6
  <2> QED BY <2>7
<1>3. n \in Done
  <2>1. Done \in SUBSET Nat
    OBVIOUS
  <2> HIDE DEF Done
  <2> QED BY <1>1, <1>2, <2>1, AllNaturals
<1>4. PICK f : Upto(f, n)
  BY <1>3
<1>5. \A i \in 1 .. n : i >= n + 1 - n
  OBVIOUS
<1> QED BY <1>4, <1>5 DEF Solves

Counts(f, n, V, first, g) ==
  /\ f \in [0 .. n -> V]
  /\ f[0] = first /\ \A i \in 1 .. n : f[i] = g[i][f[i - 1]]

LEMMA CountingExists ==
  ASSUME NEW n \in Nat, NEW V, NEW first \in V, NEW g \in [1 .. n -> [V -> V]]
  PROVE  \E f : Counts(f, n, V, first, g)
<1> DEFINE Upto(f, m) == /\ f \in [0 .. n -> V] /\ f[0] = first
                         /\ \A i \in 1 .. m : f[i] = g[i][f[i - 1]]
           Done == {m \in Nat : m <= n => \E f : Upto(f, m)}
<1>1. 0 \in Done
  <2>1. Upto([i \in 0 .. n |-> first], 0)
    OBVIOUS
  <2> QED BY <2>1
<1>2. ASSUME NEW m \in Done PROVE m + 1 \in Done
  <2> SUFFICES ASSUME m + 1 <= n PROVE \E f : Upto(f, m + 1)
    OBVIOUS
  <2>1. PICK f : Upto(f, m)
    OBVIOUS
  <2> DEFINE h == [f EXCEPT ![m + 1] = g[m + 1][f[m]]]
  <2>2. m \in 0 .. n /\ m + 1 \in 1 .. n /\ f[m] \in V
    BY <2>1
  <2>3. h \in [0 .. n -> V] /\ h[0] = first
    BY <2>1, <2>2
  <2>4. ASSUME NEW i \in 1 .. m + 1 PROVE h[i] = g[i][h[i - 1]]
    <3>1. i - 1 \in 0 .. n /\ i - 1 # m + 1 /\ h[i - 1] = f[i - 1]
      BY <2>1, <2>2
    <3>2. CASE i = m + 1
      BY <2>1, <2>2, <3>1, <3>2
    <3>3. CASE i \in 1 .. m
      BY <2>1, <2>2, <3>1, <3>3
    <3> QED BY <3>2, <3>3
  <2>5. Upto(h, m + 1)
    BY <2>3, <2>4
  <2> QED BY <2>5
<1>3. n \in Done
  <2>1. Done \in SUBSET Nat
    OBVIOUS
  <2> HIDE DEF Done
  <2> QED BY <1>1, <1>2, <2>1, AllNaturals
<1> QED BY <1>3 DEF Counts

-----------------------------------------------------------------------------
(* Parts of sequences of numbers. *)

LEMMA Regrouped ==
  ASSUME NEW r \in Seq(Nat), NEW s \in Seq(Nat), NEW t \in Seq(Nat)
  PROVE  (r \o s) \o t = r \o (s \o t)
BY ConcatAssociative


LEMMA ConcatFacts ==
  ASSUME NEW s \in Seq(Nat), NEW t \in Seq(Nat)
  PROVE  /\ s \o t \in Seq(Nat) /\ Len(s \o t) = Len(s) + Len(t)
         /\ \A k \in 1 .. Len(s) : (s \o t)[k] = s[k]
         /\ \A k \in 1 .. Len(t) : (s \o t)[Len(s) + k] = t[k]
<1> DEFINE u == s \o t
<1>1. Len(s) \in Nat /\ Len(t) \in Nat
  OBVIOUS
<1>2. /\ u \in Seq(Nat) /\ Len(u) = Len(s) + Len(t)
      /\ \A k \in 1 .. Len(s) + Len(t) : u[k] = IF k <= Len(s) THEN s[k] ELSE t[k - Len(s)]
  BY ConcatProperties
<1> HIDE DEF u
<1>3. \A k \in 1 .. Len(s) : u[k] = s[k]
  BY <1>1, <1>2
<1>4. ASSUME NEW k \in 1 .. Len(t) PROVE u[Len(s) + k] = t[k]
  <2>1. /\ Len(s) + k \in 1 .. Len(s) + Len(t) /\ ~(Len(s) + k <= Len(s))
        /\ (Len(s) + k) - Len(s) = k
    BY <1>1
  <2> QED BY <1>2, <2>1
<1> QED BY <1>2, <1>3, <1>4 DEF u

LEMMA PartFacts ==
  ASSUME NEW s \in Seq(Nat), NEW m \in Nat, NEW n \in Nat, m + n <= Len(s)
  PROVE  /\ SubSeq(s, m + 1, m + n) \in Seq(Nat) /\ Len(SubSeq(s, m + 1, m + n)) = n
         /\ \A k \in 1 .. n : SubSeq(s, m + 1, m + n)[k] = s[m + k]
<1> DEFINE u == SubSeq(s, m + 1, m + n)
<1>1. \A k \in m + 1 .. m + n : s[k] \in Nat
  OBVIOUS
<1>2. /\ u \in Seq(Nat)
      /\ Len(u) = IF m + 1 <= m + n THEN (m + n) - (m + 1) + 1 ELSE 0
      /\ \A k \in 1 .. (m + n) - (m + 1) + 1 : u[k] = s[m + 1 + k - 1]
  <2> DEFINE p == m + 1
             q == m + n
  <2>1. p \in Int /\ q \in Int
    OBVIOUS
  <2> HIDE DEF p, q
  <2>2. /\ SubSeq(s, p, q) \in Seq(Nat)
        /\ Len(SubSeq(s, p, q)) = IF p <= q THEN q - p + 1 ELSE 0
        /\ \A k \in 1 .. q - p + 1 : SubSeq(s, p, q)[k] = s[p + k - 1]
    <3>1. \A k \in p .. q : s[k] \in Nat
      BY <1>1 DEF p, q
    <3> QED BY <2>1, <3>1, SubSeqProperties
  <2> QED BY <2>2 DEF p, q
<1>3. (m + n) - (m + 1) + 1 = n /\ \A k \in 1 .. n : m + 1 + k - 1 = m + k
  OBVIOUS
<1> HIDE DEF u
<1>4. u \in Seq(Nat) /\ Len(u) = n /\ \A k \in 1 .. n : u[k] = s[m + k]
  BY <1>2, <1>3
<1> QED BY <1>4 DEF u

(* What lies between two others is cut out again. *)
LEMMA Middle ==
  ASSUME NEW r \in Seq(Nat), NEW s \in Seq(Nat), NEW t \in Seq(Nat)
  PROVE  SubSeq((r \o s) \o t, Len(r) + 1, Len(r) + Len(s)) = s
<1> DEFINE v == r \o s
           w == v \o t
           u == SubSeq(w, Len(r) + 1, Len(r) + Len(s))
<1>1. Len(r) \in Nat /\ Len(s) \in Nat /\ Len(t) \in Nat
  OBVIOUS
<1>2. /\ v \in Seq(Nat) /\ Len(v) = Len(r) + Len(s)
      /\ \A k \in 1 .. Len(s) : v[Len(r) + k] = s[k]
  BY ConcatFacts
<1> HIDE DEF v
<1>3. /\ w \in Seq(Nat) /\ Len(w) = Len(v) + Len(t)
      /\ \A k \in 1 .. Len(v) : w[k] = v[k]
  BY <1>2, ConcatFacts, Zenon
<1> HIDE DEF w
<1>4. Len(r) + Len(s) <= Len(w)
  BY <1>1, <1>2, <1>3
<1>5. u \in Seq(Nat) /\ Len(u) = Len(s) /\ \A k \in 1 .. Len(s) : u[k] = w[Len(r) + k]
  BY <1>1, <1>3, <1>4, PartFacts
<1>6. \A k \in 1 .. Len(s) : Len(r) + k \in 1 .. Len(v)
  BY <1>1, <1>2
<1>7. \A k \in 1 .. Len(s) : u[k] = s[k]
  BY <1>2, <1>3, <1>5, <1>6
<1> HIDE DEF u
<1>8. u = s
  BY <1>5, <1>7, SeqEqual
<1> QED BY <1>8 DEF u, w, v

LEMMA Beginning ==
  ASSUME NEW s \in Seq(Nat), NEW t \in Seq(Nat)
  PROVE  SubSeq(s \o t, 1, Len(s)) = s
<1>1. <<>> \in Seq(Nat) /\ Len(<<>>) = 0 /\ <<>> \o s = s
  BY EmptySeq, ConcatEmptySeq
<1>2. SubSeq((<<>> \o s) \o t, Len(<<>>) + 1, Len(<<>>) + Len(s)) = s
  BY <1>1, Middle, Zenon
<1>3. Len(<<>>) + 1 = 1 /\ Len(<<>>) + Len(s) = Len(s)
  BY <1>1
<1> QED BY <1>1, <1>2, <1>3, Zenon

-----------------------------------------------------------------------------
(* The blocks of the COBS codec. *)

LEMMA MinIn ==
  ASSUME NEW S \in SUBSET Nat, S # {}
  PROVE  Min(S) \in S /\ \A y \in S : Min(S) <= y
<1> DEFINE Less == {pair \in Nat \X Nat : pair[1] < pair[2]}
<1>1. PICK m \in S : \A y \in S : ~(<<y, m>> \in Less)
  <2>1. IsWellFoundedOn(Less, Nat)
    BY NatLessThanWellFounded, Zenon DEF OpToRel
  <2> HIDE DEF Less
  <2> QED BY <2>1, WFMin
<1>2. \A y \in S : m <= y
  <2> SUFFICES ASSUME NEW y \in S, ~(m <= y) PROVE FALSE
    OBVIOUS
  <2>1. <<y, m>> \in Less
    OBVIOUS
  <2> QED BY <1>1, <2>1
<1> HIDE DEF Less
<1>3. \E x \in S : \A y \in S : x <= y
  BY <1>2
<1> QED BY <1>3, Zenon DEF Min

(* A block ends before a zero, at its bound, or at the end. *)
LEMMA RunFacts ==
  ASSUME NEW d \in Seq(Nat), NEW i \in 1 .. Len(d)
  PROVE  /\ Run(d, i) \in 0 .. MaxRun /\ i + Run(d, i) <= Len(d) + 1
         /\ \A k \in i .. i + Run(d, i) - 1 : d[k] # 0
         /\ \/ Run(d, i) = MaxRun
            \/ i + Run(d, i) = Len(d) + 1
            \/ i + Run(d, i) <= Len(d) /\ d[i + Run(d, i)] = 0
<1> DEFINE Zeros == {j - i : j \in {k \in i .. Len(d) : d[k] = 0}}
           Ends == {MaxRun, Len(d) - i + 1} \cup Zeros
<1>1. MaxRun \in Nat \ {0} /\ Len(d) \in Nat
  BY CobsAssumption
<1>2. Ends \in SUBSET Nat /\ Ends # {}
  BY <1>1
<1>3. Run(d, i) = Min(Ends)
  BY DEF Run
<1>4. Run(d, i) \in Ends /\ \A y \in Ends : Run(d, i) <= y
  <2> HIDE DEF Ends
  <2> QED BY <1>2, <1>3, MinIn
<1>5. Run(d, i) \in Nat /\ Run(d, i) <= MaxRun /\ Run(d, i) <= Len(d) - i + 1
  BY <1>2, <1>4
<1>6. ASSUME NEW k \in i .. i + Run(d, i) - 1 PROVE d[k] # 0
  <2> SUFFICES ASSUME d[k] = 0 PROVE FALSE
    OBVIOUS
  <2>1. k \in i .. Len(d)
    BY <1>1, <1>5
  <2>2. k - i \in Ends
    BY <2>1
  <2>3. Run(d, i) <= k - i
    BY <1>4, <2>2
  <2> QED BY <1>5, <2>1, <2>3
<1>7. \/ Run(d, i) = MaxRun
      \/ i + Run(d, i) = Len(d) + 1
      \/ i + Run(d, i) <= Len(d) /\ d[i + Run(d, i)] = 0
  <2>1. CASE Run(d, i) \in Zeros
    <3>1. PICK j \in i .. Len(d) : d[j] = 0 /\ Run(d, i) = j - i
      BY <2>1
    <3> QED BY <3>1
  <2>2. CASE Run(d, i) \notin Zeros
    BY <1>1, <1>4, <2>2
  <2> QED BY <2>1, <2>2
<1> QED BY <1>1, <1>5, <1>6, <1>7

Block(d, i) == <<BlockCode(d, i)>> \o SubSeq(d, i, i + Run(d, i) - 1)

LEMMA BlockFacts ==
  ASSUME NEW d \in Seq(Nat), NEW i \in 1 .. Len(d)
  PROVE  /\ SubSeq(d, i, i + Run(d, i) - 1) \in Seq(Nat \ {0})
         /\ Len(SubSeq(d, i, i + Run(d, i) - 1)) = Run(d, i)
         /\ BlockCode(d, i) \in Nat \ {0}
         /\ Block(d, i) \in Seq(Nat \ {0})
<1>1. /\ Run(d, i) \in Nat /\ i + Run(d, i) <= Len(d) + 1 /\ Len(d) \in Nat
      /\ \A k \in i .. i + Run(d, i) - 1 : d[k] # 0
  BY RunFacts, CobsAssumption
<1>2. \A k \in i .. i + Run(d, i) - 1 : d[k] \in Nat \ {0}
  BY <1>1
<1>3. /\ SubSeq(d, i, i + Run(d, i) - 1) \in Seq(Nat \ {0})
      /\ Len(SubSeq(d, i, i + Run(d, i) - 1)) = Run(d, i)
  BY <1>1, <1>2, SubSeqProperties
<1>4. BlockCode(d, i) \in Nat \ {0} /\ <<BlockCode(d, i)>> \in Seq(Nat \ {0})
  BY <1>1 DEF BlockCode
<1> QED BY <1>3, <1>4, ConcatProperties DEF Block

LEMMA NextFacts ==
  ASSUME NEW d \in Seq(Nat), NEW i \in 1 .. Len(d)
  PROVE  NextBlock(d, i) \in i + 1 .. Len(d) + 1
<1>1. Run(d, i) \in Nat /\ i + Run(d, i) <= Len(d) + 1 /\ Len(d) \in Nat
  BY RunFacts, CobsAssumption
<1>2. Run(d, i) = 0 => d[i] = 0
  BY <1>1, RunFacts, CobsAssumption
<1> QED BY <1>1, <1>2 DEF NextBlock

(* What encode makes of the data from each block on. *)
LEMMA EncodeSteps ==
  ASSUME NEW d \in Seq(Nat)
  PROVE  \E f : /\ Encode(d) = f[1] /\ f[Len(d) + 1] = <<>>
                /\ \A i \in 1 .. Len(d) : f[i] = Block(d, i) \o f[NextBlock(d, i)]
<1> DEFINE n == Len(d)
           V == Seq(Nat)
           Steps(f) == f = [i \in 1 .. Len(d) + 1 |->
                              IF i > Len(d) THEN <<>>
                              ELSE <<BlockCode(d, i)>> \o SubSeq(d, i, i + Run(d, i) - 1)
                                     \o f[NextBlock(d, i)]]
           next == [i \in 1 .. n |-> NextBlock(d, i)]
           g == [i \in 1 .. n |-> [t \in V |-> Block(d, i) \o t]]
<1>1. n \in Nat /\ <<>> \in V
  BY EmptySeq
<1>2. Onward(n, next) /\ next \in [1 .. n -> 1 .. n + 1]
  BY NextFacts DEF Onward
<1>3. g \in [1 .. n -> [V -> V]]
  <2> SUFFICES ASSUME NEW i \in 1 .. n, NEW t \in V PROVE Block(d, i) \o t \in V
    OBVIOUS
  <2>1. Block(d, i) \in Seq(Nat)
    BY BlockFacts, SeqMonotonic
  <2> QED BY <2>1, ConcatProperties
<1>4. PICK f : Solves(f, n, V, <<>>, next, g)
  <2> HIDE DEF n, V, next, g
  <2> QED BY <1>1, <1>2, <1>3, RecursionExists, Zenon
<1>5. ASSUME NEW i \in 1 .. n PROVE f[i] = Block(d, i) \o f[NextBlock(d, i)]
  <2>1. next[i] = NextBlock(d, i) /\ f[next[i]] \in V
    BY <1>2, <1>4 DEF Solves
  <2>2. g[i][f[next[i]]] = Block(d, i) \o f[next[i]]
    BY <2>1
  <2> QED BY <1>4, <2>1, <2>2 DEF Solves
<1>6. Steps(f)
  <2>1. ASSUME NEW i \in 1 .. n + 1
        PROVE  f[i] = IF i > n THEN <<>> ELSE Block(d, i) \o f[NextBlock(d, i)]
    BY <1>1, <1>4, <1>5 DEF Solves
  <2> HIDE DEF V
  <2> QED BY <1>4, <2>1 DEF Block, Solves
<1> HIDE DEF Steps
<1>7. Steps(CHOOSE h : Steps(h))
  BY <1>6, Zenon
<1>8. Encode(d) = (CHOOSE h : Steps(h))[1]
  BY DEF Encode, Steps
<1>9. ASSUME NEW h, Steps(h)
      PROVE  h[n + 1] = <<>> /\ \A i \in 1 .. n : h[i] = Block(d, i) \o h[NextBlock(d, i)]
  <2>1. \A i \in 1 .. n + 1 :
          h[i] = IF i > n THEN <<>> ELSE Block(d, i) \o h[NextBlock(d, i)]
    BY <1>9, Zenon DEF Steps, Block
  <2>2. n + 1 \in 1 .. n + 1 /\ n + 1 > n /\ \A i \in 1 .. n : i \in 1 .. n + 1 /\ ~(i > n)
    BY <1>1
  <2> HIDE DEF n
  <2> QED BY <2>1, <2>2, Zenon
<1> QED BY <1>7, <1>8, <1>9

-----------------------------------------------------------------------------
(* What decode makes of the bytes from each code on. *)

Data(e, i) ==
  SubSeq(e, i + 1, i + e[i] - 1) \o (IF ImpliesZero(e, i) THEN <<0>> ELSE <<>>)
Out == [ok : BOOLEAN, out : Seq(Nat)]
Nothing == [ok |-> TRUE, out |-> <<>>]
CutOff == [ok |-> FALSE, out |-> <<>>]
Before(s, rest) == [ok |-> rest.ok, out |-> s \o rest.out]

LEMMA DataType ==
  ASSUME NEW e \in Seq(Nat), NEW i \in 1 .. Len(e), BlockFits(e, i)
  PROVE  Data(e, i) \in Seq(Nat)
<1>1. Len(e) \in Nat /\ e[i] \in Nat /\ i + e[i] - 1 <= Len(e)
  BY DEF BlockFits
<1>2. \A k \in i + 1 .. i + e[i] - 1 : e[k] \in Nat
  BY <1>1
<1>3. SubSeq(e, i + 1, i + e[i] - 1) \in Seq(Nat)
  BY <1>1, <1>2, SubSeqProperties
<1>4. (IF ImpliesZero(e, i) THEN <<0>> ELSE <<>>) \in Seq(Nat)
  OBVIOUS
<1> QED BY <1>3, <1>4, ConcatProperties DEF Data

LEMMA UnstuffSteps ==
  ASSUME NEW e \in Seq(Nat)
  PROVE  \E f : /\ Unstuffed(e) = f[1] /\ f[Len(e) + 1] = Nothing
                /\ \A i \in 1 .. Len(e) :
                     e[i] # 0 /\ BlockFits(e, i) => f[i] = Before(Data(e, i), f[i + e[i]])
<1> DEFINE n == Len(e)
           Steps(f) == f = [i \in 1 .. Len(e) + 1 |->
                              IF i > Len(e) \/ e[i] = 0 THEN [ok |-> TRUE, out |-> <<>>]
                              ELSE IF ~BlockFits(e, i) THEN [ok |-> FALSE, out |-> <<>>]
                              ELSE [ok  |-> f[i + e[i]].ok,
                                    out |-> SubSeq(e, i + 1, i + e[i] - 1)
                                              \o (IF ImpliesZero(e, i) THEN <<0>> ELSE <<>>)
                                              \o f[i + e[i]].out]]
           Goes(i) == e[i] # 0 /\ BlockFits(e, i)
           next == [i \in 1 .. n |-> IF Goes(i) THEN i + e[i] ELSE n + 1]
           g == [i \in 1 .. n |-> [rest \in Out |->
                  IF e[i] = 0 THEN Nothing
                  ELSE IF ~BlockFits(e, i) THEN CutOff ELSE Before(Data(e, i), rest)]]
<1>1. n \in Nat /\ Nothing \in Out /\ CutOff \in Out
  BY EmptySeq DEF Out, Nothing, CutOff
<1>2. \A i \in 1 .. n : e[i] \in Nat
  OBVIOUS
<1>3. Onward(n, next) /\ next \in [1 .. n -> 1 .. n + 1]
  BY <1>1, <1>2 DEF Onward, BlockFits
<1>4. g \in [1 .. n -> [Out -> Out]]
  <2> SUFFICES ASSUME NEW i \in 1 .. n, NEW rest \in Out, BlockFits(e, i)
               PROVE  Before(Data(e, i), rest) \in Out
    BY <1>1
  <2>1. Data(e, i) \in Seq(Nat) /\ rest.out \in Seq(Nat) /\ rest.ok \in BOOLEAN
    BY DataType DEF Out
  <2>2. Data(e, i) \o rest.out \in Seq(Nat)
    BY <2>1, ConcatProperties
  <2> QED BY <2>1, <2>2 DEF Out, Before
<1>5. PICK f : Solves(f, n, Out, Nothing, next, g)
  <2> HIDE DEF n, next, g
  <2> QED BY <1>1, <1>3, <1>4, RecursionExists, Zenon
<1>6. ASSUME NEW i \in 1 .. n
      PROVE  f[i] = IF e[i] = 0 THEN Nothing
                    ELSE IF ~BlockFits(e, i) THEN CutOff ELSE Before(Data(e, i), f[i + e[i]])
  <2>1. next[i] \in 1 .. n + 1 /\ f[next[i]] \in Out /\ (Goes(i) => next[i] = i + e[i])
    BY <1>3, <1>5 DEF Solves
  <2>2. f[i] = g[i][f[next[i]]]
    BY <1>5 DEF Solves
  <2>3. g[i][f[next[i]]] = IF e[i] = 0 THEN Nothing
                           ELSE IF ~BlockFits(e, i) THEN CutOff
                           ELSE Before(Data(e, i), f[next[i]])
    BY <2>1
  <2> QED BY <2>1, <2>2, <2>3
<1>7. Steps(f)
  <2>1. ASSUME NEW i \in 1 .. n + 1
        PROVE  f[i] = IF i > n \/ e[i] = 0 THEN Nothing
                      ELSE IF ~BlockFits(e, i) THEN CutOff ELSE Before(Data(e, i), f[i + e[i]])
    <3>1. CASE i = n + 1
      BY <1>1, <1>5, <3>1 DEF Solves
    <3>2. CASE i \in 1 .. n
      BY <1>1, <1>6, <3>2
    <3> QED BY <1>1, <3>1, <3>2
  <2>2. f \in [1 .. n + 1 -> Out]
    BY <1>5 DEF Solves
  <2> HIDE DEF next, g
  <2> QED BY <2>1, <2>2 DEF Nothing, CutOff, Before, Data
<1> HIDE DEF Steps
<1>8. Steps(CHOOSE h : Steps(h))
  BY <1>7, Zenon
<1>9. Unstuffed(e) = (CHOOSE h : Steps(h))[1]
  BY DEF Unstuffed, Steps
<1>10. ASSUME NEW h, Steps(h)
       PROVE  /\ h[n + 1] = Nothing
              /\ \A i \in 1 .. n : Goes(i) => h[i] = Before(Data(e, i), h[i + e[i]])
  <2>1. \A i \in 1 .. n + 1 :
          h[i] = IF i > n \/ e[i] = 0 THEN Nothing
                 ELSE IF ~BlockFits(e, i) THEN CutOff ELSE Before(Data(e, i), h[i + e[i]])
    BY <1>10, Zenon DEF Steps, Nothing, CutOff, Before, Data
  <2>2. n + 1 \in 1 .. n + 1 /\ n + 1 > n /\ \A i \in 1 .. n : i \in 1 .. n + 1 /\ ~(i > n)
    BY <1>1
  <2> HIDE DEF n
  <2> QED BY <2>1, <2>2, Zenon
<1> QED BY <1>8, <1>9, <1>10

(* A block of s at e[i] that is followed by t is decoded to s, and a zero if *)
(* its code is no full one and t is not empty.                               *)
BlockAt(e, i, a, s, t) == e = a \o ((<<Len(s) + 1>> \o s) \o t) /\ i = Len(a) + 1

BlockIn(e, i, a, s, t) ==
  /\ e \in Seq(Nat) /\ i \in 1 .. Len(e) /\ e[i] = Len(s) + 1 /\ BlockFits(e, i)
  /\ Data(e, i) = s \o (IF Len(s) < MaxRun /\ t # <<>> THEN <<0>> ELSE <<>>)
  /\ e = (a \o (<<Len(s) + 1>> \o s)) \o t
  /\ a \o (<<Len(s) + 1>> \o s) \in Seq(Nat)
  /\ i + e[i] = Len(a \o (<<Len(s) + 1>> \o s)) + 1

LEMMA BlockDecoded ==
  ASSUME NEW a \in Seq(Nat), NEW s \in Seq(Nat), NEW t \in Seq(Nat),
         NEW e, NEW i, BlockAt(e, i, a, s, t)
  PROVE  BlockIn(e, i, a, s, t)
<1> DEFINE c == <<Len(s) + 1>>
           x == a \o c
<1> e = a \o ((<<Len(s) + 1>> \o s) \o t) /\ i = Len(a) + 1
  BY DEF BlockAt
<1>1. /\ Len(a) \in Nat /\ Len(s) \in Nat /\ Len(t) \in Nat /\ MaxRun \in Nat
      /\ c \in Seq(Nat) /\ Len(c) = 1 /\ c[1] = Len(s) + 1
  BY CobsAssumption
<1> HIDE DEF c
<1>2. /\ x \in Seq(Nat) /\ Len(x) = Len(a) + 1 /\ x[Len(a) + 1] = Len(s) + 1
      /\ c \o s \in Seq(Nat)
  <2>1. x \in Seq(Nat) /\ Len(x) = Len(a) + Len(c) /\ \A k \in 1 .. Len(c) : x[Len(a) + k] = c[k]
    BY <1>1, ConcatFacts, Zenon
  <2>2. c \o s \in Seq(Nat)
    BY <1>1, ConcatFacts, Zenon
  <2>3. 1 \in 1 .. Len(c)
    BY <1>1
  <2> QED BY <1>1, <2>1, <2>2, <2>3
<1>3. x \o s = a \o (c \o s) /\ (a \o (c \o s)) \o t = a \o ((c \o s) \o t)
  <2>1. x \o s = a \o (c \o s)
    BY <1>1, Regrouped, Zenon
  <2>2. (a \o (c \o s)) \o t = a \o ((c \o s) \o t)
    BY <1>2, Regrouped, Zenon
  <2> QED BY <2>1, <2>2, Zenon
<1>4. e = (x \o s) \o t
  BY <1>3, Zenon DEF c
<1> HIDE DEF x
<1>5. x \o s \in Seq(Nat) /\ Len(x \o s) = Len(x) + Len(s) /\ \A k \in 1 .. Len(x) : (x \o s)[k] = x[k]
  BY <1>2, ConcatFacts
<1>6. /\ (x \o s) \o t \in Seq(Nat) /\ Len((x \o s) \o t) = Len(x \o s) + Len(t)
      /\ \A k \in 1 .. Len(x \o s) : ((x \o s) \o t)[k] = (x \o s)[k]
  BY <1>5, ConcatFacts, Zenon
<1>7. e \in Seq(Nat) /\ Len(e) = Len(a) + 1 + Len(s) + Len(t)
  BY <1>1, <1>2, <1>4, <1>5, <1>6
<1>8. i \in 1 .. Len(e) /\ e[i] = Len(s) + 1 /\ BlockFits(e, i)
  <2>1. i \in 1 .. Len(x) /\ i \in 1 .. Len(x \o s) /\ i \in 1 .. Len(e) /\ x[i] = Len(s) + 1
    BY <1>1, <1>2, <1>5, <1>7
  <2>2. e[i] = Len(s) + 1
    BY <1>4, <1>5, <1>6, <2>1, Zenon
  <2>3. i + (Len(s) + 1) <= Len(e) + 1
    BY <1>1, <1>7
  <2> QED BY <2>1, <2>2, <2>3, Zenon DEF BlockFits
<1>9. ImpliesZero(e, i) <=> Len(s) < MaxRun /\ t # <<>>
  <2>1. t # <<>> <=> Len(t) > 0
    OBVIOUS
  <2>2. i + (Len(s) + 1) <= Len(e) <=> Len(t) > 0
    BY <1>1, <1>7
  <2>3. Len(s) + 1 < FullCode <=> Len(s) < MaxRun
    BY <1>1 DEF FullCode
  <2> QED BY <1>8, <2>1, <2>2, <2>3, Zenon DEF ImpliesZero
<1>10. SubSeq(e, i + 1, i + e[i] - 1) = s
  <2>1. i + 1 = Len(x) + 1 /\ i + (Len(s) + 1) - 1 = Len(x) + Len(s)
    BY <1>1, <1>2
  <2>2. SubSeq((x \o s) \o t, Len(x) + 1, Len(x) + Len(s)) = s
    BY <1>2, Middle, Zenon
  <2> QED BY <1>4, <1>8, <2>1, <2>2, Zenon
<1>11. Data(e, i) = s \o (IF Len(s) < MaxRun /\ t # <<>> THEN <<0>> ELSE <<>>)
  BY <1>9, <1>10, Zenon DEF Data
<1>12. i + (Len(s) + 1) = Len(x \o s) + 1
  BY <1>1, <1>2, <1>5
<1> QED BY <1>3, <1>4, <1>5, <1>7, <1>8, <1>11, <1>12, Zenon DEF c, BlockIn

-----------------------------------------------------------------------------
(* Both encoders write a chain of blocks: f[i] is what they make of the     *)
(* data from d[i] on, where a block begins, and next[i] where the next one  *)
(* does.                                                                    *)
Chain(d, f, next) ==
  /\ f[Len(d) + 1] = <<>>
  /\ \A i \in 1 .. Len(d) :
       next[i] \in i + 1 .. Len(d) + 1 /\ f[i] = Block(d, i) \o f[next[i]]

LEMMA ChainWritten ==
  ASSUME NEW d \in Seq(Nat), NEW f, NEW next, Chain(d, f, next)
  PROVE  \A i \in 1 .. Len(d) + 1 :
           /\ f[i] \in Seq(Nat \ {0}) /\ f[i] \in Seq(Nat)
           /\ i <= Len(d) => f[i] # <<>>
<1> DEFINE T == {i \in 1 .. Len(d) + 1 :
                   f[i] \in Seq(Nat \ {0}) /\ (i <= Len(d) => f[i] # <<>>)}
<1>1. Len(d) \in Nat
  OBVIOUS
<1>2. Len(d) + 1 \in T
  <2>1. f[Len(d) + 1] = <<>> /\ <<>> \in Seq(Nat \ {0})
    BY EmptySeq DEF Chain
  <2>2. Len(d) + 1 \in 1 .. Len(d) + 1 /\ ~(Len(d) + 1 <= Len(d))
    BY <1>1
  <2> QED BY <2>1, <2>2, Zenon
<1>3. ASSUME NEW i \in 1 .. Len(d), \A j \in i + 1 .. Len(d) + 1 : j \in T PROVE i \in T
  <2>1. next[i] \in T /\ f[i] = Block(d, i) \o f[next[i]]
    BY <1>3 DEF Chain
  <2>2. f[next[i]] \in Seq(Nat \ {0}) /\ Block(d, i) \in Seq(Nat \ {0})
    BY <2>1, BlockFacts
  <2>3. Len(Block(d, i)) > 0
    BY BlockFacts, RunFacts, CobsAssumption, SMTT(30) DEF Block
  <2>4. f[i] \in Seq(Nat \ {0}) /\ Len(f[i]) > 0
    <3>1. /\ Block(d, i) \o f[next[i]] \in Seq(Nat \ {0})
          /\ Len(Block(d, i) \o f[next[i]]) = Len(Block(d, i)) + Len(f[next[i]])
      BY <2>2, ConcatProperties
    <3>2. Len(f[next[i]]) \in Nat /\ Len(Block(d, i)) \in Nat
      BY <2>2
    <3> QED BY <2>1, <2>3, <3>1, <3>2
  <2> QED BY <1>1, <2>4
<1>4. \A i \in 1 .. Len(d) + 1 : i \in T
  <2> HIDE DEF T
  <2> QED BY <1>1, <1>2, <1>3, Backwards
<1>5. ASSUME NEW i \in 1 .. Len(d) + 1 PROVE f[i] \in Seq(Nat)
  <2>1. f[i] \in Seq(Nat \ {0})
    BY <1>4
  <2> QED BY <2>1, SeqMonotonic
<1> QED BY <1>4, <1>5

(* What a block that is followed by t is decoded to, and when the chain of  *)
(* blocks from each of the positions Good on is decoded to d up to m.       *)
Contents(d, i, t) ==
  SubSeq(d, i, i + Run(d, i) - 1) \o (IF Run(d, i) < MaxRun /\ t # <<>> THEN <<0>> ELSE <<>>)
Keeps(d, m, f, next, Good) ==
  \A i \in 1 .. Len(d) : i \in Good =>
    /\ next[i] \in Good
    /\ Contents(d, i, f[next[i]]) \o SubSeq(d, next[i], m) = SubSeq(d, i, m)

LEMMA ChainDecoded ==
  ASSUME NEW d \in Seq(Nat), NEW m \in 0 .. Len(d), NEW f, NEW next, NEW Good,
         Chain(d, f, next), Keeps(d, m, f, next, Good), 1 \in Good
  PROVE  Unstuffed(f[1]) = [ok |-> TRUE, out |-> SubSeq(d, 1, m)]
<1> DEFINE e == f[1]
           Kept(i) == [ok |-> TRUE, out |-> SubSeq(d, i, m)]
<1>1. Len(d) \in Nat /\ 1 \in 1 .. Len(d) + 1 /\ m \in Nat
  OBVIOUS
<1>2. \A i \in 1 .. Len(d) + 1 : f[i] \in Seq(Nat) /\ (i <= Len(d) => f[i] # <<>>)
  BY ChainWritten
<1>3. e \in Seq(Nat)
  BY <1>1, <1>2
<1> HIDE DEF e
<1>4. PICK u : /\ Unstuffed(e) = u[1] /\ u[Len(e) + 1] = Nothing
               /\ \A i \in 1 .. Len(e) :
                    e[i] # 0 /\ BlockFits(e, i) => u[i] = Before(Data(e, i), u[i + e[i]])
  BY <1>3, UnstuffSteps
<1> DEFINE T == {i \in 1 .. Len(d) + 1 : i \in Good =>
                   \A a \in Seq(Nat) : e = a \o f[i] => u[Len(a) + 1] = Kept(i)}
<1> HIDE DEF Kept
<1>5. Len(d) + 1 \in T
  <2> SUFFICES ASSUME NEW a \in Seq(Nat), e = a \o f[Len(d) + 1]
               PROVE  u[Len(a) + 1] = Kept(Len(d) + 1)
    <3>1. Len(d) + 1 \in 1 .. Len(d) + 1
      BY <1>1
    <3> QED BY <3>1, Zenon
  <2>1. f[Len(d) + 1] = <<>> /\ a \o <<>> = a
    BY ConcatEmptySeq DEF Chain
  <2>2. e = a
    BY <2>1
  <2>3. SubSeq(d, Len(d) + 1, m) = <<>>
    BY <1>1, SubSeqEmpty
  <2> QED BY <1>4, <2>2, <2>3 DEF Kept, Nothing
<1>6. ASSUME NEW i \in 1 .. Len(d), \A j \in i + 1 .. Len(d) + 1 : j \in T PROVE i \in T
  <2> SUFFICES ASSUME i \in Good, NEW a \in Seq(Nat), e = a \o f[i] PROVE u[Len(a) + 1] = Kept(i)
    BY <1>1
  <2> DEFINE s == SubSeq(d, i, i + Run(d, i) - 1)
             t == f[next[i]]
             b == <<Len(s) + 1>> \o s
             at == Len(a) + 1
  <2>1. /\ s \in Seq(Nat) /\ Len(s) = Run(d, i) /\ Len(s) \in Nat
        /\ Block(d, i) = b
    <3>1. s \in Seq(Nat \ {0}) /\ Len(s) = Run(d, i)
      BY BlockFacts, Zenon
    <3>2. s \in Seq(Nat)
      BY <3>1, SeqMonotonic
    <3>3. Block(d, i) = b
      BY <3>1, Zenon DEF Block, BlockCode
    <3> HIDE DEF s
    <3> QED BY <3>1, <3>2, <3>3
  <2>2. next[i] \in i + 1 .. Len(d) + 1 /\ f[i] = Block(d, i) \o t
    BY DEF Chain
  <2>3. t \in Seq(Nat) /\ next[i] \in T
    BY <1>1, <1>2, <1>6, <2>2
  <2>4. e = a \o (b \o t)
    BY <2>1, <2>2
  <2>5. at = Len(a) + 1 /\ BlockAt(e, at, a, s, t)
    BY <2>4, Zenon DEF BlockAt
  <2> HIDE DEF s, t, at, T
  <2>6. /\ at \in 1 .. Len(e) /\ e[at] = Len(s) + 1 /\ BlockFits(e, at)
        /\ Data(e, at) = s \o (IF Len(s) < MaxRun /\ t # <<>> THEN <<0>> ELSE <<>>)
        /\ e = (a \o b) \o t /\ a \o b \in Seq(Nat)
        /\ at + e[at] = Len(a \o b) + 1
    <3>1. BlockIn(e, at, a, s, t)
      BY <2>1, <2>3, <2>5, BlockDecoded, Zenon
    <3> QED BY <3>1, Zenon DEF BlockIn
  <2> HIDE DEF b
  <2>7. u[at] = Before(Data(e, at), u[at + e[at]])
    <3>1. e[at] # 0
      BY <2>1, <2>6
    <3> QED BY <1>4, <2>6, <3>1, Zenon
  <2>8. next[i] \in Good
    BY DEF Keeps
  <2>9. u[at + e[at]] = Kept(next[i])
    <3>1. u[Len(a \o b) + 1] = Kept(next[i])
      BY <2>3, <2>6, <2>8, Zenon DEF T, t
    <3> QED BY <2>6, <3>1, Zenon
  <2>10. Data(e, at) \o SubSeq(d, next[i], m) = SubSeq(d, i, m)
    <3>1. Data(e, at) = Contents(d, i, f[next[i]])
      BY <2>1, <2>6, Zenon DEF Contents, s, t
    <3>2. Contents(d, i, f[next[i]]) \o SubSeq(d, next[i], m) = SubSeq(d, i, m)
      BY DEF Keeps
    <3> QED BY <3>1, <3>2, Zenon
  <2>11. Before(Data(e, at), Kept(next[i])) = Kept(i)
    <3>1. Kept(next[i]).ok = TRUE /\ Kept(next[i]).out = SubSeq(d, next[i], m)
      BY DEF Kept
    <3> QED BY <2>10, <3>1, Zenon DEF Before, Kept
  <2> QED BY <2>5, <2>7, <2>9, <2>11, Zenon
<1>7. 1 \in T
  <2> HIDE DEF T
  <2>1. \A i \in 1 .. Len(d) + 1 : i \in T
    BY <1>1, <1>5, <1>6, Backwards
  <2> QED BY <1>1, <2>1
<1>8. u[1] = Kept(1)
  <2>1. <<>> \in Seq(Nat) /\ Len(<<>>) = 0 /\ e = <<>> \o f[1] /\ Len(<<>>) + 1 = 1
    BY <1>3, EmptySeq, ConcatEmptySeq DEF e
  <2>2. u[Len(<<>>) + 1] = Kept(1)
    BY <1>7, <2>1, Zenon
  <2> QED BY <2>1, <2>2, Zenon
<1> QED BY <1>4, <1>8, Zenon DEF e, Kept

-----------------------------------------------------------------------------
(* The round trip through encode and decode. *)

(* The ways in which a block and what follows it make the data up to m. *)
LEMMA WithZero ==
  ASSUME NEW d \in Seq(Nat), NEW i \in 1 .. Len(d), NEW m \in 0 .. Len(d), NEW t,
         Run(d, i) < MaxRun, t # <<>>, i + Run(d, i) <= m, d[i + Run(d, i)] = 0
  PROVE  Contents(d, i, t) \o SubSeq(d, i + Run(d, i) + 1, m) = SubSeq(d, i, m)
<1> DEFINE k == i + Run(d, i)
<1>1. k \in i .. Len(d) /\ k - 1 = i + Run(d, i) - 1 /\ m \in k .. Len(d)
  <2>1. Run(d, i) \in Nat
    BY RunFacts, CobsAssumption
  <2> QED BY <2>1
<1>2. Contents(d, i, t) = SubSeq(d, i, k - 1) \o <<0>>
  BY <1>1, Zenon DEF Contents
<1> HIDE DEF k
<1>3. SubSeq(d, i, k) = SubSeq(d, i, k - 1) \o <<d[k]>>
  BY <1>1, SubSeqRecursiveSecond
<1>4. i \in 1 .. Len(d) + 1 /\ k \in i - 1 .. Len(d)
  BY <1>1
<1>5. SubSeq(d, i, k) \o SubSeq(d, k + 1, m) = SubSeq(d, i, m)
  BY <1>1, <1>4, ConcatAdjacentSubSeq
<1>6. d[k] = 0
  BY DEF k
<1> QED BY <1>2, <1>3, <1>5, <1>6, Zenon DEF k

LEMMA WithoutZero ==
  ASSUME NEW d \in Seq(Nat), NEW i \in 1 .. Len(d), NEW m \in 0 .. Len(d), NEW t,
         Run(d, i) = MaxRun \/ t = <<>>, i + Run(d, i) - 1 <= m
  PROVE  Contents(d, i, t) \o SubSeq(d, i + Run(d, i), m) = SubSeq(d, i, m)
<1> DEFINE k == i + Run(d, i) - 1
<1>1. /\ k \in i - 1 .. Len(d) /\ k + 1 = i + Run(d, i) /\ m \in k .. Len(d)
      /\ i \in 1 .. Len(d) + 1 /\ ~(Run(d, i) < MaxRun /\ t # <<>>)
  BY RunFacts, CobsAssumption
<1>2. SubSeq(d, i, k) \in Seq(Nat)
  BY BlockFacts, SeqMonotonic
<1>3. Contents(d, i, t) = SubSeq(d, i, k) \o <<>>
  BY <1>1, Zenon DEF Contents
<1> HIDE DEF k
<1>4. SubSeq(d, i, k) \o <<>> = SubSeq(d, i, k)
  BY <1>2, ConcatEmptySeq
<1>5. SubSeq(d, i, k) \o SubSeq(d, k + 1, m) = SubSeq(d, i, m)
  BY <1>1, ConcatAdjacentSubSeq
<1> QED BY <1>1, <1>3, <1>4, <1>5, Zenon

LEMMA LastBlock ==
  ASSUME NEW d \in Seq(Nat), NEW i \in 1 .. Len(d), NEW m \in 0 .. Len(d), NEW t,
         t = <<>>, i + Run(d, i) - 1 = m
  PROVE  Contents(d, i, t) \o SubSeq(d, i + Run(d, i) + 1, m) = SubSeq(d, i, m)
<1>1. Run(d, i) \in Nat /\ i + Run(d, i) - 1 <= m
  BY RunFacts, CobsAssumption
<1>2. Contents(d, i, t) \o SubSeq(d, i + Run(d, i), m) = SubSeq(d, i, m)
  BY <1>1, WithoutZero
<1>3. SubSeq(d, i + Run(d, i), m) = <<>> /\ SubSeq(d, i + Run(d, i) + 1, m) = <<>>
  BY <1>1, SubSeqEmpty
<1> QED BY <1>2, <1>3, Zenon

(* Where a full block is followed by a zero. *)
BadBlock(d, i) == Run(d, i) = MaxRun /\ NextBlock(d, i) = i + MaxRun + 1

LEMMA ZeroAfterFullSteps ==
  ASSUME NEW d \in Seq(Nat)
  PROVE  \E z : /\ z \in [1 .. Len(d) + 1 -> BOOLEAN] /\ (ZeroAfterFull(d) <=> z[1])
                /\ \A i \in 1 .. Len(d) : z[i] <=> BadBlock(d, i) \/ z[NextBlock(d, i)]
<1> DEFINE n == Len(d)
           Steps(f) == f = [i \in 1 .. Len(d) + 1 |->
                              /\ i <= Len(d)
                              /\ \/ Run(d, i) = MaxRun /\ NextBlock(d, i) = i + MaxRun + 1
                                 \/ f[NextBlock(d, i)]]
           next == [i \in 1 .. n |-> NextBlock(d, i)]
           g == [i \in 1 .. n |-> [b \in BOOLEAN |-> BadBlock(d, i) \/ b]]
<1>1. n \in Nat /\ FALSE \in BOOLEAN
  OBVIOUS
<1>2. Onward(n, next) /\ next \in [1 .. n -> 1 .. n + 1]
  BY NextFacts DEF Onward
<1>3. g \in [1 .. n -> [BOOLEAN -> BOOLEAN]]
  BY Zenon DEF BadBlock
<1>4. PICK f : Solves(f, n, BOOLEAN, FALSE, next, g)
  <2> HIDE DEF n, next, g
  <2> QED BY <1>1, <1>2, <1>3, RecursionExists, Zenon
<1>5. ASSUME NEW i \in 1 .. n PROVE f[i] = (BadBlock(d, i) \/ f[NextBlock(d, i)])
  <2>1. next[i] = NextBlock(d, i) /\ next[i] \in 1 .. n + 1
    BY <1>2
  <2>2. f[next[i]] \in BOOLEAN /\ f[i] = g[i][f[next[i]]]
    BY <1>4, <2>1, Zenon DEF Solves
  <2>3. g[i][f[next[i]]] = (BadBlock(d, i) \/ f[next[i]])
    BY <2>2, Zenon
  <2> QED BY <2>1, <2>2, <2>3, Zenon
<1>6. Steps(f)
  <2>1. f \in [1 .. n + 1 -> BOOLEAN] /\ f[n + 1] = FALSE
    BY <1>4, Zenon DEF Solves
  <2>2. ASSUME NEW i \in 1 .. n + 1
        PROVE  f[i] = (i <= n /\ (BadBlock(d, i) \/ f[NextBlock(d, i)]))
    <3>1. CASE i = n + 1
      <4>1. ~(i <= n)
        BY <1>1, <3>1
      <4> QED BY <2>1, <3>1, <4>1, Zenon
    <3>2. CASE i \in 1 .. n
      <4>1. i <= n
        BY <1>1, <3>2
      <4> QED BY <1>5, <3>2, <4>1, Zenon
    <3>3. i = n + 1 \/ i \in 1 .. n
      BY <1>1
    <3> QED BY <3>1, <3>2, <3>3
  <2>3. f = [i \in 1 .. n + 1 |-> i <= n /\ (BadBlock(d, i) \/ f[NextBlock(d, i)])]
    <3> HIDE DEF n
    <3> QED BY <2>1, <2>2, Zenon
  <2> QED BY <2>3, Zenon DEF BadBlock
<1> HIDE DEF Steps
<1>7. Steps(CHOOSE h : Steps(h))
  BY <1>6, Zenon
<1>8. ZeroAfterFull(d) = (CHOOSE h : Steps(h))[1]
  BY Zenon DEF ZeroAfterFull, Steps
<1>9. ASSUME NEW h, Steps(h)
      PROVE  /\ h \in [1 .. n + 1 -> BOOLEAN]
             /\ \A i \in 1 .. n : h[i] <=> BadBlock(d, i) \/ h[NextBlock(d, i)]
  <2>1. h = [i \in 1 .. n + 1 |-> i <= n /\ (BadBlock(d, i) \/ h[NextBlock(d, i)])]
    BY <1>9, Zenon DEF Steps, BadBlock
  <2>2. \A i \in 1 .. n : i \in 1 .. n + 1 /\ i <= n
    BY <1>1
  <2> HIDE DEF n
  <2>3. h \in [1 .. n + 1 -> BOOLEAN]
    BY <2>1, Zenon
  <2>4. ASSUME NEW i \in 1 .. n PROVE h[i] <=> BadBlock(d, i) \/ h[NextBlock(d, i)]
    <3>1. h[i] = (i <= n /\ (BadBlock(d, i) \/ h[NextBlock(d, i)]))
      BY <2>1, <2>2, Zenon
    <3> QED BY <2>2, <3>1, Zenon
  <2> QED BY <2>3, <2>4
<1> QED BY <1>7, <1>8, <1>9, Zenon

-----------------------------------------------------------------------------
(* What encode writes is the data again, once decoded. *)

LEMMA EncodeKeeps ==
  ASSUME NEW d \in Seq(Nat), NEW i \in 1 .. Len(d), ~EndsInZero(d), ~BadBlock(d, i),
         NEW t, t = <<>> <=> NextBlock(d, i) = Len(d) + 1
  PROVE  Contents(d, i, t) \o SubSeq(d, NextBlock(d, i), Len(d)) = SubSeq(d, i, Len(d))
<1> DEFINE k == i + Run(d, i)
<1>1. /\ Run(d, i) \in Nat /\ Run(d, i) <= MaxRun /\ k \in i .. Len(d) + 1
      /\ Len(d) \in 0 .. Len(d) /\ Len(d) \in Nat /\ MaxRun \in Nat
  BY RunFacts, CobsAssumption
<1>2. CASE k = Len(d) + 1
  <2>1. NextBlock(d, i) = k
    BY <1>1, <1>2 DEF NextBlock
  <2>2. t = <<>> /\ i + Run(d, i) - 1 <= Len(d)
    BY <1>1, <1>2, <2>1
  <2>3. Contents(d, i, t) \o SubSeq(d, k, Len(d)) = SubSeq(d, i, Len(d))
    BY <1>1, <2>2, WithoutZero
  <2> QED BY <2>1, <2>3, Zenon
<1>3. CASE k <= Len(d) /\ d[k] = 0
  <2>1. NextBlock(d, i) = k + 1
    BY <1>3 DEF NextBlock
  <2>2. Run(d, i) < MaxRun
    BY <1>1, <2>1 DEF BadBlock
  <2>3. d # <<>> /\ d[Len(d)] # 0
    BY DEF EndsInZero
  <2>4. k + 1 # Len(d) + 1
    BY <1>1, <1>3, <2>3
  <2>5. t # <<>>
    BY <2>1, <2>4
  <2>6. Contents(d, i, t) \o SubSeq(d, k + 1, Len(d)) = SubSeq(d, i, Len(d))
    BY <1>1, <1>3, <2>2, <2>5, WithZero
  <2> QED BY <2>1, <2>6, Zenon
<1>4. CASE k <= Len(d) /\ d[k] # 0
  <2>1. NextBlock(d, i) = k
    BY <1>4 DEF NextBlock
  <2>2. Run(d, i) = MaxRun
    BY <1>1, <1>4, RunFacts
  <2>3. i + Run(d, i) - 1 <= Len(d)
    BY <1>1
  <2>4. Contents(d, i, t) \o SubSeq(d, k, Len(d)) = SubSeq(d, i, Len(d))
    BY <1>1, <2>2, <2>3, WithoutZero
  <2> QED BY <2>1, <2>4, Zenon
<1>5. k = Len(d) + 1 \/ k <= Len(d)
  BY <1>1
<1> QED BY <1>2, <1>3, <1>4, <1>5, Zenon

LEMMA EncodeChain ==
  ASSUME NEW d \in Seq(Nat)
  PROVE  \E f : /\ Encode(d) = f[1]
                /\ Chain(d, f, [i \in 1 .. Len(d) |-> NextBlock(d, i)])
<1>1. PICK f : /\ Encode(d) = f[1] /\ f[Len(d) + 1] = <<>>
               /\ \A i \in 1 .. Len(d) : f[i] = Block(d, i) \o f[NextBlock(d, i)]
  BY EncodeSteps
<1>2. Chain(d, f, [i \in 1 .. Len(d) |-> NextBlock(d, i)])
  BY <1>1, NextFacts DEF Chain
<1> QED BY <1>1, <1>2

LEMMA EncodedWithoutZero ==
  ASSUME NEW d \in Seq(Nat)
  PROVE  Encode(d) \in Seq(Nat \ {0})
<1>1. PICK f : /\ Encode(d) = f[1]
               /\ Chain(d, f, [i \in 1 .. Len(d) |-> NextBlock(d, i)])
  BY EncodeChain
<1>2. 1 \in 1 .. Len(d) + 1
  OBVIOUS
<1>3. f[1] \in Seq(Nat \ {0})
  BY <1>1, <1>2, ChainWritten
<1> QED BY <1>1, <1>3

LEMMA EncodeDecoded ==
  ASSUME NEW d \in Seq(Nat), ~EndsInZero(d), ~ZeroAfterFull(d)
  PROVE  Decode(Encode(d)) = [ok |-> TRUE, out |-> d]
<1> DEFINE next == [i \in 1 .. Len(d) |-> NextBlock(d, i)]
<1>1. PICK f : Encode(d) = f[1] /\ Chain(d, f, next)
  BY EncodeChain
<1>2. PICK z : /\ z \in [1 .. Len(d) + 1 -> BOOLEAN] /\ (ZeroAfterFull(d) <=> z[1])
               /\ \A i \in 1 .. Len(d) : z[i] <=> BadBlock(d, i) \/ z[NextBlock(d, i)]
  BY ZeroAfterFullSteps
<1> DEFINE Good == {i \in 1 .. Len(d) + 1 : ~z[i]}
<1>3. 1 \in Good /\ Len(d) \in 0 .. Len(d)
  BY <1>2
<1>4. ASSUME NEW i \in 1 .. Len(d), i \in Good
      PROVE  /\ next[i] \in Good
             /\ Contents(d, i, f[next[i]]) \o SubSeq(d, next[i], Len(d)) = SubSeq(d, i, Len(d))
  <2>1. ~BadBlock(d, i) /\ ~z[NextBlock(d, i)]
    BY <1>2, <1>4
  <2>2. NextBlock(d, i) \in 1 .. Len(d) + 1 /\ next[i] = NextBlock(d, i)
    BY NextFacts
  <2>3. f[NextBlock(d, i)] = <<>> <=> NextBlock(d, i) = Len(d) + 1
    <3>1. \A j \in 1 .. Len(d) + 1 : j <= Len(d) => f[j] # <<>>
      BY <1>1, ChainWritten
    <3>2. f[Len(d) + 1] = <<>>
      BY <1>1 DEF Chain
    <3>3. NextBlock(d, i) = Len(d) + 1 \/ NextBlock(d, i) <= Len(d)
      BY <2>2
    <3> QED BY <2>2, <3>1, <3>2, <3>3
  <2>4. Contents(d, i, f[NextBlock(d, i)]) \o SubSeq(d, NextBlock(d, i), Len(d)) = SubSeq(d, i, Len(d))
    BY <2>1, <2>3, EncodeKeeps
  <2> QED BY <2>1, <2>2, <2>4
<1>5. Keeps(d, Len(d), f, next, Good)
  BY <1>4, Zenon DEF Keeps
<1>6. Unstuffed(Encode(d)) = [ok |-> TRUE, out |-> SubSeq(d, 1, Len(d))]
  <2> HIDE DEF Good, next
  <2> QED BY <1>1, <1>3, <1>5, ChainDecoded
<1>7. SubSeq(d, 1, Len(d)) = d
  BY SubSeqFull
<1>8. Unstuffed(Encode(d)).ok = TRUE /\ Unstuffed(Encode(d)).out = d
  BY <1>6, <1>7
<1>9. Stripped(d) = d
  BY Zenon DEF Stripped
<1> QED BY <1>8, <1>9, Zenon DEF Decode

-----------------------------------------------------------------------------
(* What the standard algorithm writes is decoded to the data, of which      *)
(* decode strips a last zero.                                               *)
StandardNext(d, i) == IF Run(d, i) = MaxRun THEN i + Run(d, i) ELSE i + Run(d, i) + 1

LEMMA StandardNextFacts ==
  ASSUME NEW d \in Seq(Nat), EndsInZero(d), NEW i \in 1 .. Len(d)
  PROVE  /\ StandardNext(d, i) \in i + 1 .. Len(d) + 1
         /\ i + Run(d, i) <= Len(d) /\ Run(d, i) \in 0 .. MaxRun
         /\ Run(d, i) # MaxRun => d[i + Run(d, i)] = 0
<1>1. /\ Run(d, i) \in Nat /\ Run(d, i) <= MaxRun /\ i + Run(d, i) <= Len(d) + 1
      /\ Len(d) \in Nat /\ MaxRun \in Nat \ {0}
  BY RunFacts, CobsAssumption
<1>2. d[Len(d)] = 0
  BY DEF EndsInZero
<1>3. i + Run(d, i) # Len(d) + 1
  <2> SUFFICES ASSUME i + Run(d, i) = Len(d) + 1 PROVE FALSE
    OBVIOUS
  <2>1. Len(d) \in i .. i + Run(d, i) - 1
    BY <1>1
  <2> QED BY <1>2, <2>1, RunFacts
<1>4. i + Run(d, i) <= Len(d)
  BY <1>1, <1>3
<1>5. Run(d, i) # MaxRun => d[i + Run(d, i)] = 0
  BY <1>3, RunFacts
<1> QED BY <1>1, <1>4, <1>5 DEF StandardNext

LEMMA StandardSteps ==
  ASSUME NEW data \in Seq(Nat)
  PROVE  \E f : /\ StandardEncode(data) = f[1]
                /\ Chain(Append(data, 0), f,
                         [i \in 1 .. Len(data) + 1 |-> StandardNext(Append(data, 0), i)])
<1> DEFINE d == Append(data, 0)
           n == Len(d)
           V == Seq(Nat)
           Steps(f) == f = [i \in 1 .. Len(Append(data, 0)) + 1 |->
                              IF i > Len(Append(data, 0)) THEN <<>>
                              ELSE <<Run(Append(data, 0), i) + 1>>
                                     \o SubSeq(Append(data, 0), i, i + Run(Append(data, 0), i) - 1)
                                     \o f[StandardNext(Append(data, 0), i)]]
           next == [i \in 1 .. n |-> StandardNext(d, i)]
           g == [i \in 1 .. n |-> [t \in V |-> Block(d, i) \o t]]
<1>1. d \in Seq(Nat) /\ n = Len(data) + 1 /\ EndsInZero(d)
  BY AppendProperties DEF EndsInZero
<1>2. n \in Nat /\ <<>> \in V
  BY <1>1, EmptySeq
<1>3. StandardEncode(data) = (CHOOSE h : Steps(h))[1]
  BY Zenon DEF StandardEncode, StandardNext
<1>4. ASSUME NEW h PROVE Steps(h) <=> h = [i \in 1 .. n + 1 |->
                            IF i > n THEN <<>> ELSE Block(d, i) \o h[StandardNext(d, i)]]
  BY Zenon DEF Block, BlockCode
<1> HIDE DEF d, Steps
<1>5. \A i \in 1 .. n : StandardNext(d, i) \in i + 1 .. n + 1
  BY <1>1, StandardNextFacts
<1>6. Onward(n, next) /\ next \in [1 .. n -> 1 .. n + 1]
  BY <1>2, <1>5 DEF Onward
<1>7. g \in [1 .. n -> [V -> V]]
  <2> SUFFICES ASSUME NEW i \in 1 .. n, NEW t \in V PROVE Block(d, i) \o t \in V
    OBVIOUS
  <2>1. Block(d, i) \in Seq(Nat)
    BY <1>1, BlockFacts, SeqMonotonic
  <2> QED BY <2>1, ConcatProperties
<1>8. PICK f : Solves(f, n, V, <<>>, next, g)
  <2> HIDE DEF n, V, next, g
  <2> QED BY <1>2, <1>6, <1>7, RecursionExists, Zenon
<1>9. ASSUME NEW i \in 1 .. n PROVE f[i] = Block(d, i) \o f[StandardNext(d, i)]
  <2>1. next[i] = StandardNext(d, i) /\ f[next[i]] \in V
    BY <1>6, <1>8 DEF Solves
  <2>2. g[i][f[next[i]]] = Block(d, i) \o f[next[i]]
    BY <2>1
  <2> QED BY <1>8, <2>1, <2>2 DEF Solves
<1>10. Steps(f)
  <2>1. ASSUME NEW i \in 1 .. n + 1
        PROVE  f[i] = IF i > n THEN <<>> ELSE Block(d, i) \o f[StandardNext(d, i)]
    BY <1>2, <1>8, <1>9 DEF Solves
  <2> HIDE DEF V, n
  <2>2. f = [i \in 1 .. n + 1 |-> IF i > n THEN <<>> ELSE Block(d, i) \o f[StandardNext(d, i)]]
    BY <1>8, <2>1, Zenon DEF Solves
  <2> QED BY <1>4, <2>2 DEF n
<1>11. Steps(CHOOSE h : Steps(h))
  BY <1>10, Zenon
<1>12. ASSUME NEW h, Steps(h) PROVE Chain(d, h, next)
  <2>1. \A i \in 1 .. n + 1 :
          h[i] = IF i > n THEN <<>> ELSE Block(d, i) \o h[StandardNext(d, i)]
    BY <1>4, <1>12, Zenon
  <2>2. n + 1 \in 1 .. n + 1 /\ n + 1 > n /\ \A i \in 1 .. n : i \in 1 .. n + 1 /\ ~(i > n)
    BY <1>2
  <2>3. h[n + 1] = <<>> /\ \A i \in 1 .. n : h[i] = Block(d, i) \o h[StandardNext(d, i)]
    <3> HIDE DEF n
    <3> QED BY <2>1, <2>2, Zenon
  <2> QED BY <1>5, <2>3 DEF Chain
<1> QED BY <1>1, <1>3, <1>11, <1>12, Zenon DEF d

LEMMA StandardKeeps ==
  ASSUME NEW d \in Seq(Nat), EndsInZero(d), NEW i \in 1 .. Len(d),
         NEW t, t = <<>> <=> StandardNext(d, i) = Len(d) + 1
  PROVE  Contents(d, i, t) \o SubSeq(d, StandardNext(d, i), Len(d) - 1) = SubSeq(d, i, Len(d) - 1)
<1> DEFINE k == i + Run(d, i)
           m == Len(d) - 1
<1>1. /\ Run(d, i) \in Nat /\ Run(d, i) <= MaxRun /\ k \in i .. Len(d)
      /\ m \in 0 .. Len(d) /\ Len(d) \in Nat /\ MaxRun \in Nat
      /\ (Run(d, i) # MaxRun => d[k] = 0)
  <2>1. /\ Run(d, i) \in 0 .. MaxRun /\ i + Run(d, i) <= Len(d)
        /\ (Run(d, i) # MaxRun => d[i + Run(d, i)] = 0)
    BY StandardNextFacts, Zenon
  <2> QED BY <2>1, CobsAssumption
<1>2. CASE Run(d, i) = MaxRun
  <2>1. StandardNext(d, i) = k /\ i + Run(d, i) - 1 <= m
    BY <1>1, <1>2 DEF StandardNext
  <2>2. Contents(d, i, t) \o SubSeq(d, k, m) = SubSeq(d, i, m)
    BY <1>1, <1>2, <2>1, WithoutZero
  <2> QED BY <2>1, <2>2, Zenon
<1>3. CASE Run(d, i) < MaxRun /\ k = Len(d)
  <2>1. StandardNext(d, i) = k + 1 /\ i + Run(d, i) - 1 = m
    BY <1>1, <1>3 DEF StandardNext
  <2>2. t = <<>>
    BY <1>3, <2>1
  <2>3. Contents(d, i, t) \o SubSeq(d, k + 1, m) = SubSeq(d, i, m)
    BY <1>1, <2>1, <2>2, LastBlock
  <2> QED BY <2>1, <2>3, Zenon
<1>4. CASE Run(d, i) < MaxRun /\ k < Len(d)
  <2>1. StandardNext(d, i) = k + 1 /\ k <= m /\ d[k] = 0
    BY <1>1, <1>4 DEF StandardNext
  <2>2. t # <<>>
    BY <1>1, <1>4, <2>1
  <2>3. Contents(d, i, t) \o SubSeq(d, k + 1, m) = SubSeq(d, i, m)
    BY <1>1, <1>4, <2>1, <2>2, WithZero
  <2> QED BY <2>1, <2>3, Zenon
<1>5. Run(d, i) = MaxRun \/ Run(d, i) < MaxRun
  BY <1>1
<1>6. k = Len(d) \/ k < Len(d)
  BY <1>1
<1> QED BY <1>2, <1>3, <1>4, <1>5, <1>6, Zenon

LEMMA StandardDecoded ==
  ASSUME NEW data \in Seq(Nat)
  PROVE  Decode(StandardEncode(data)) = [ok |-> TRUE, out |-> Stripped(data)]
<1> DEFINE d == Append(data, 0)
           next == [i \in 1 .. Len(d) |-> StandardNext(d, i)]
           Good == 1 .. Len(d) + 1
<1>1. d \in Seq(Nat) /\ Len(d) = Len(data) + 1 /\ EndsInZero(d) /\ Len(data) \in Nat
  BY AppendProperties DEF EndsInZero
<1>2. PICK f : StandardEncode(data) = f[1] /\ Chain(d, f, next)
  BY <1>1, StandardSteps, Zenon
<1>3. SubSeq(d, 1, Len(data)) = data
  <2>1. \A k \in 1 .. Len(data) : data[k] = d[k]
    BY AppendProperties
  <2>2. \A k \in 1 .. Len(data) : d[k] \in Nat
    BY <2>1
  <2>3. SubSeq(d, 1, Len(data)) \in Seq(Nat) /\ Len(SubSeq(d, 1, Len(data))) = Len(data)
        /\ \A k \in 1 .. Len(data) : SubSeq(d, 1, Len(data))[k] = d[k]
    BY <1>1, <2>2, SubSeqProperties
  <2> QED BY <2>1, <2>3, SeqEqual
<1> HIDE DEF d
<1>4. ASSUME NEW i \in 1 .. Len(d)
      PROVE  /\ next[i] \in Good
             /\ Contents(d, i, f[next[i]]) \o SubSeq(d, next[i], Len(data)) = SubSeq(d, i, Len(data))
  <2>1. StandardNext(d, i) \in 1 .. Len(d) + 1 /\ next[i] = StandardNext(d, i)
    BY <1>1, StandardNextFacts
  <2>2. f[StandardNext(d, i)] = <<>> <=> StandardNext(d, i) = Len(d) + 1
    <3>1. \A j \in 1 .. Len(d) + 1 : j <= Len(d) => f[j] # <<>>
      BY <1>1, <1>2, ChainWritten
    <3>2. f[Len(d) + 1] = <<>>
      BY <1>2 DEF Chain
    <3>3. StandardNext(d, i) = Len(d) + 1 \/ StandardNext(d, i) <= Len(d)
      BY <2>1
    <3> QED BY <2>1, <3>1, <3>2, <3>3
  <2>3. Contents(d, i, f[StandardNext(d, i)]) \o SubSeq(d, StandardNext(d, i), Len(d) - 1)
          = SubSeq(d, i, Len(d) - 1)
    BY <1>1, <2>2, StandardKeeps, Zenon
  <2>4. Len(d) - 1 = Len(data)
    BY <1>1
  <2> QED BY <2>1, <2>3, <2>4
<1>5. Keeps(d, Len(data), f, next, Good)
  BY <1>4, Zenon DEF Keeps
<1>6. Unstuffed(StandardEncode(data)) = [ok |-> TRUE, out |-> SubSeq(d, 1, Len(data))]
  <2>1. 1 \in Good /\ Len(data) \in 0 .. Len(d)
    BY <1>1
  <2> HIDE DEF Good, next
  <2> QED BY <1>1, <1>2, <1>5, <2>1, ChainDecoded
<1>7. Unstuffed(StandardEncode(data)).ok = TRUE /\ Unstuffed(StandardEncode(data)).out = data
  BY <1>3, <1>6
<1> QED BY <1>7, Zenon DEF Decode

-----------------------------------------------------------------------------
(* The checksum. *)
Bytes == {byte \in Nat : byte < 256}
Nibbles == 0 .. 15
Words == {word \in Nat : word < 65536}

LEMMA WordsAreNumbers == Words \subseteq Nat
BY DEF Words

LEMMA XorNibbleFacts ==
  ASSUME NEW a \in Nibbles, NEW b \in Nibbles
  PROVE  /\ XorNibble[a, b] \in Nibbles
         /\ XorNibble[a, b] = 0 => a = b
         /\ XorNibble[0, b] = b
         /\ XorNibble[XorNibble[a, b], b] = a
<1> DEFINE bits(x, y) == ((x + y) % 2) + 2 * ((x \div 2 + y \div 2) % 2)
                           + 4 * ((x \div 4 + y \div 4) % 2) + 8 * ((x \div 8 + y \div 8) % 2)
<1>1. ASSUME NEW x \in Nibbles, NEW y \in Nibbles PROVE XorNibble[x, y] = bits(x, y)
  <2>1. 2^0 = 1 /\ 2^1 = 2 /\ 2^2 = 4 /\ 2^3 = 8
    OBVIOUS
  <2>2. x \div 1 = x /\ y \div 1 = y
    BY DEF Nibbles
  <2>3. XorNibble[x, y] = XorBit(x, y, 0) + 2 * XorBit(x, y, 1)
                            + 4 * XorBit(x, y, 2) + 8 * XorBit(x, y, 3)
    BY DEF XorNibble, Nibbles
  <2> QED BY <2>1, <2>2, <2>3, Zenon DEF XorBit
<1>2. bits(a, b) \in Nibbles
  BY DEF Nibbles
<1>3. bits(a, b) = 0 => a = b
  BY DEF Nibbles
<1>4. bits(0, b) = b
  BY DEF Nibbles
<1>5. bits(bits(a, b), b) = a
  BY SMTT(30) DEF Nibbles
<1>6. 0 \in Nibbles
  BY DEF Nibbles
<1> HIDE DEF bits
<1> QED BY <1>1, <1>2, <1>3, <1>4, <1>5, <1>6, Zenon

(* A number of 16 bits, from its nibbles. *)
Nibble0(a) == a % 16
Nibble1(a) == (a \div 16) % 16
Nibble2(a) == (a \div 256) % 16
Nibble3(a) == (a \div 4096) % 16

LEMMA NibblesType ==
  ASSUME NEW a \in Nat
  PROVE  /\ Nibble0(a) \in Nibbles /\ Nibble1(a) \in Nibbles
         /\ Nibble2(a) \in Nibbles /\ Nibble3(a) \in Nibbles
BY DEF Nibbles, Nibble0, Nibble1, Nibble2, Nibble3

LEMMA Shifted ==
  ASSUME NEW p \in Nat, NEW r \in Nibbles
  PROVE  (r + 16 * p) % 16 = r /\ (r + 16 * p) \div 16 = p /\ r + 16 * p \in Nat
BY DEF Nibbles

LEMMA ShiftedTwice ==
  ASSUME NEW a \in Nat
  PROVE  a \div 256 = (a \div 16) \div 16 /\ a \div 4096 = ((a \div 16) \div 16) \div 16
OBVIOUS

Word(s0, s1, s2, s3) == s0 + 16 * (s1 + 16 * (s2 + 16 * s3))

MadeOf(x, s0, s1, s2, s3) ==
  /\ x \in Words
  /\ Nibble0(x) = s0 /\ Nibble1(x) = s1 /\ Nibble2(x) = s2 /\ Nibble3(x) = s3

LEMMA WordNibbles ==
  ASSUME NEW s0 \in Nibbles, NEW s1 \in Nibbles, NEW s2 \in Nibbles, NEW s3 \in Nibbles
  PROVE  MadeOf(Word(s0, s1, s2, s3), s0, s1, s2, s3)
<1> DEFINE p2 == s2 + 16 * s3
           p1 == s1 + 16 * p2
           x == s0 + 16 * p1
<1>1. s3 \in Nat /\ s3 % 16 = s3
  BY DEF Nibbles
<1>2. p2 % 16 = s2 /\ p2 \div 16 = s3 /\ p2 \in Nat
  BY <1>1, Shifted
<1>3. p2 <= 255
  BY DEF Nibbles
<1>4. Word(s0, s1, s2, s3) = x
  BY Zenon DEF Word
<1> HIDE DEF p2
<1>5. p1 % 16 = s1 /\ p1 \div 16 = p2 /\ p1 \in Nat
  BY <1>2, Shifted
<1>6. p1 <= 4095
  BY <1>2, <1>3 DEF Nibbles
<1> HIDE DEF p1
<1>7. x % 16 = s0 /\ x \div 16 = p1 /\ x \in Nat
  BY <1>5, Shifted
<1>8. x \in Words
  BY <1>5, <1>6 DEF Nibbles, Words
<1> HIDE DEF x
<1>9. x \div 256 = p1 \div 16 /\ x \div 4096 = (p1 \div 16) \div 16
  <2>1. x \div 256 = (x \div 16) \div 16 /\ x \div 4096 = ((x \div 16) \div 16) \div 16
    BY <1>7, ShiftedTwice
  <2> QED BY <1>5, <1>7, <2>1
<1>10. Nibble0(x) = s0 /\ Nibble1(x) = s1 /\ Nibble2(x) = s2 /\ Nibble3(x) = s3
  <2>1. Nibble0(x) = s0
    BY <1>7 DEF Nibble0
  <2>2. Nibble1(x) = s1
    BY <1>5, <1>7 DEF Nibble1
  <2>3. Nibble2(x) = s2
    BY <1>2, <1>5, <1>9 DEF Nibble2
  <2>4. Nibble3(x) = s3
    BY <1>1, <1>2, <1>5, <1>9 DEF Nibble3
  <2> QED BY <2>1, <2>2, <2>3, <2>4
<1> QED BY <1>4, <1>8, <1>10, Zenon DEF MadeOf

SumOfNibbles(s0, s1, s2, s3) == s0 * 16^0 + s1 * 16^1 + s2 * 16^2 + s3 * 16^3

LEMMA SumIsWord ==
  ASSUME NEW s0 \in Nibbles, NEW s1 \in Nibbles, NEW s2 \in Nibbles, NEW s3 \in Nibbles
  PROVE  SumOfNibbles(s0, s1, s2, s3) = Word(s0, s1, s2, s3)
<1>1. 16^0 = 1 /\ 16^1 = 16 /\ 16^2 = 256 /\ 16^3 = 4096
  OBVIOUS
<1> QED BY <1>1 DEF SumOfNibbles, Word, Nibbles

LEMMA NibbleAt ==
  ASSUME NEW c \in Nat
  PROVE  /\ (c \div 16^0) % 16 = Nibble0(c) /\ (c \div 16^1) % 16 = Nibble1(c)
         /\ (c \div 16^2) % 16 = Nibble2(c) /\ (c \div 16^3) % 16 = Nibble3(c)
<1>1. 16^0 = 1 /\ 16^1 = 16 /\ 16^2 = 256 /\ 16^3 = 4096
  OBVIOUS
<1>2. (c \div 16^0) % 16 = Nibble0(c)
  BY <1>1 DEF Nibble0
<1>3. (c \div 16^1) % 16 = Nibble1(c)
  BY <1>1 DEF Nibble1
<1>4. (c \div 16^2) % 16 = Nibble2(c)
  BY <1>1 DEF Nibble2
<1>5. (c \div 16^3) % 16 = Nibble3(c)
  BY <1>1 DEF Nibble3
<1> QED BY <1>2, <1>3, <1>4, <1>5, Zenon

LEMMA Xor16Nibbles ==
  ASSUME NEW a \in Nat, NEW b \in Nat
  PROVE  MadeOf(Xor16(a, b), XorNibble[Nibble0(a), Nibble0(b)], XorNibble[Nibble1(a), Nibble1(b)],
                             XorNibble[Nibble2(a), Nibble2(b)], XorNibble[Nibble3(a), Nibble3(b)])
<1>1. /\ XorNibble[Nibble0(a), Nibble0(b)] \in Nibbles
      /\ XorNibble[Nibble1(a), Nibble1(b)] \in Nibbles
      /\ XorNibble[Nibble2(a), Nibble2(b)] \in Nibbles
      /\ XorNibble[Nibble3(a), Nibble3(b)] \in Nibbles
  BY NibblesType, XorNibbleFacts, Zenon
<1>2. Xor16(a, b) = SumOfNibbles(XorNibble[Nibble0(a), Nibble0(b)], XorNibble[Nibble1(a), Nibble1(b)],
                                 XorNibble[Nibble2(a), Nibble2(b)], XorNibble[Nibble3(a), Nibble3(b)])
  BY NibbleAt, Zenon DEF Xor16, SumOfNibbles
<1>3. Xor16(a, b) = Word(XorNibble[Nibble0(a), Nibble0(b)], XorNibble[Nibble1(a), Nibble1(b)],
                         XorNibble[Nibble2(a), Nibble2(b)], XorNibble[Nibble3(a), Nibble3(b)])
  BY <1>1, <1>2, SumIsWord
<1> QED BY <1>1, <1>3, WordNibbles, Zenon

Low(word) == word < 4096

LEMMA WordShifted ==
  ASSUME NEW c \in Words
  PROVE  /\ c \in Nat /\ c \div 16 \in Nat /\ Low(c \div 16)
         /\ c \div 16 \in Words /\ c % 16 \in Nibbles
<1>1. c \in Nat /\ c <= 65535
BY DEF Words
<1>2. c \div 16 \in Nat /\ c % 16 \in Nibbles /\ c = 16 * (c \div 16) + (c % 16)
  BY <1>1 DEF Nibbles
<1> DEFINE q == c \div 16
           r == c % 16
<1> HIDE DEF q, r
<1>3. q \in Nat /\ r \in Nat /\ c = 16 * q + r
  BY <1>2 DEF q, r, Nibbles
<1>4. q <= 4095
  BY <1>1, <1>3
<1>5. q \in Words
  BY <1>3, <1>4 DEF Words
<1>6. Low(q)
  BY <1>3, <1>4 DEF Low
<1>7. c \in Nat
  BY <1>1
<1> QED BY <1>2, <1>5, <1>6, <1>7, Zenon DEF q

LEMMA WordOfNibbles ==
  ASSUME NEW c \in Words
  PROVE  c = Word(Nibble0(c), Nibble1(c), Nibble2(c), Nibble3(c))
<1> DEFINE p1 == c \div 16
           p2 == p1 \div 16
           p3 == p2 \div 16
<1>1. c \in Nat /\ p1 \in 0 .. 4095
  BY WordShifted, SMTT(30) DEF Low
<1>2. c = (c % 16) + 16 * p1
  BY <1>1
<1>3. c \div 256 = p2 /\ c \div 4096 = p3
  BY <1>1, ShiftedTwice
<1> HIDE DEF p1
<1>4. p2 \in 0 .. 255 /\ p1 = (p1 % 16) + 16 * p2
  BY <1>1
<1> HIDE DEF p2
<1>5. p3 \in 0 .. 15 /\ p2 = (p2 % 16) + 16 * p3
  BY <1>4
<1> HIDE DEF p3
<1>6. p3 % 16 = p3
  BY <1>5
<1>7. Nibble0(c) = c % 16
  BY DEF Nibble0
<1>8. Nibble1(c) = p1 % 16
  BY DEF Nibble1, p1
<1>9. Nibble2(c) = p2 % 16
  BY <1>3 DEF Nibble2
<1>10. Nibble3(c) = p3
  BY <1>3, <1>6 DEF Nibble3
<1> QED BY <1>2, <1>4, <1>5, <1>7, <1>8, <1>9, <1>10, Zenon DEF Word

LEMMA SameNibbles ==
  ASSUME NEW a \in Words, NEW b \in Words,
         Nibble0(a) = Nibble0(b), Nibble1(a) = Nibble1(b),
         Nibble2(a) = Nibble2(b), Nibble3(a) = Nibble3(b)
  PROVE  a = b
BY WordOfNibbles, Zenon

LEMMA TableFacts ==
  ASSUME NEW a \in Nibbles, NEW b \in Nibbles
  PROVE  /\ Table[a + 1] \in Words
         /\ (Nibble3(Table[a + 1]) = Nibble3(Table[b + 1]) => a = b)
<1> DEFINE T(k) == Table[k + 1]
           top(k) == Nibble3(T(k))
<1>1. /\ T(0) = 0 /\ T(1) = 52225 /\ T(2) = 55297 /\ T(3) = 5120
      /\ T(4) = 61441 /\ T(5) = 15360 /\ T(6) = 10240 /\ T(7) = 58369
      /\ T(8) = 40961 /\ T(9) = 27648 /\ T(10) = 30720 /\ T(11) = 46081
      /\ T(12) = 20480 /\ T(13) = 39937 /\ T(14) = 34817 /\ T(15) = 17408
  BY DEF Table
<1> HIDE DEF T
<1>2. /\ top(0) = 0 /\ top(1) = 12 /\ top(2) = 13 /\ top(3) = 1
      /\ top(4) = 15 /\ top(5) = 3 /\ top(6) = 2 /\ top(7) = 14
      /\ top(8) = 10 /\ top(9) = 6 /\ top(10) = 7 /\ top(11) = 11
      /\ top(12) = 5 /\ top(13) = 9 /\ top(14) = 8 /\ top(15) = 4
  BY <1>1 DEF Nibble3
<1>3. T(a) \in Words
  BY <1>1 DEF Nibbles, Words
<1> HIDE DEF top
<1>4. top(a) = top(b) => a = b
  BY <1>2 DEF Nibbles
<1> QED BY <1>3, <1>4, Zenon DEF T, top

LEMMA XorType ==
  ASSUME NEW a \in Words, NEW b \in Words
  PROVE  /\ Xor16(a, b) \in Words
         /\ Nibble0(Xor16(a, b)) = XorNibble[Nibble0(a), Nibble0(b)]
         /\ Nibble1(Xor16(a, b)) = XorNibble[Nibble1(a), Nibble1(b)]
         /\ Nibble2(Xor16(a, b)) = XorNibble[Nibble2(a), Nibble2(b)]
         /\ Nibble3(Xor16(a, b)) = XorNibble[Nibble3(a), Nibble3(b)]
<1>1. a \in Nat /\ b \in Nat
  BY WordShifted, Zenon
<1> QED BY <1>1, Xor16Nibbles, Zenon DEF MadeOf

Twice(i, j, k, m) ==
  i \in Nibbles /\ j \in Nibbles /\ k = XorNibble[i, j] /\ m = XorNibble[k, j]

LEMMA NibbleTwice ==
  ASSUME NEW i, NEW j, NEW k, NEW m, Twice(i, j, k, m)
  PROVE  m = i
<1>1. i \in Nibbles /\ j \in Nibbles /\ m = XorNibble[XorNibble[i, j], j]
  BY DEF Twice
<1> QED BY <1>1, XorNibbleFacts

LEMMA XorTwice ==
  ASSUME NEW a \in Words, NEW b \in Words
  PROVE  Xor16(Xor16(a, b), b) = a
<1> DEFINE x == Xor16(a, b)
           y == Xor16(x, b)
<1>1. /\ x \in Words
      /\ Nibble0(x) = XorNibble[Nibble0(a), Nibble0(b)]
      /\ Nibble1(x) = XorNibble[Nibble1(a), Nibble1(b)]
      /\ Nibble2(x) = XorNibble[Nibble2(a), Nibble2(b)]
      /\ Nibble3(x) = XorNibble[Nibble3(a), Nibble3(b)]
  BY XorType, Zenon
<1> HIDE DEF x
<1>2. /\ y \in Words
      /\ Nibble0(y) = XorNibble[Nibble0(x), Nibble0(b)]
      /\ Nibble1(y) = XorNibble[Nibble1(x), Nibble1(b)]
      /\ Nibble2(y) = XorNibble[Nibble2(x), Nibble2(b)]
      /\ Nibble3(y) = XorNibble[Nibble3(x), Nibble3(b)]
  BY <1>1, XorType, Zenon
<1> HIDE DEF y
<1>3. /\ Nibble0(a) \in Nibbles /\ Nibble1(a) \in Nibbles
      /\ Nibble2(a) \in Nibbles /\ Nibble3(a) \in Nibbles
      /\ Nibble0(b) \in Nibbles /\ Nibble1(b) \in Nibbles
      /\ Nibble2(b) \in Nibbles /\ Nibble3(b) \in Nibbles
  BY WordShifted, NibblesType, Zenon
<1>4. Nibble0(y) = Nibble0(a)
  <2>1. Twice(Nibble0(a), Nibble0(b), Nibble0(x), Nibble0(y))
    BY <1>1, <1>2, <1>3, Zenon DEF Twice
  <2> QED BY <2>1, NibbleTwice, Zenon
<1>5. Nibble1(y) = Nibble1(a)
  <2>1. Twice(Nibble1(a), Nibble1(b), Nibble1(x), Nibble1(y))
    BY <1>1, <1>2, <1>3, Zenon DEF Twice
  <2> QED BY <2>1, NibbleTwice, Zenon
<1>6. Nibble2(y) = Nibble2(a)
  <2>1. Twice(Nibble2(a), Nibble2(b), Nibble2(x), Nibble2(y))
    BY <1>1, <1>2, <1>3, Zenon DEF Twice
  <2> QED BY <2>1, NibbleTwice, Zenon
<1>7. Nibble3(y) = Nibble3(a)
  <2>1. Twice(Nibble3(a), Nibble3(b), Nibble3(x), Nibble3(y))
    BY <1>1, <1>2, <1>3, Zenon DEF Twice
  <2> QED BY <2>1, NibbleTwice, Zenon
<1>8. y = a
  BY <1>2, <1>4, <1>5, <1>6, <1>7, SameNibbles, Zenon
<1> QED BY <1>8, Zenon DEF x, y

(* A nibble that leaves the high one of the checksum 0 was its low one, and *)
(* has only pushed it out.                                                  *)
LEMMA HighNibble ==
  ASSUME NEW a \in Words, Nibble3(a) = 0, NEW i \in Nibbles, NEW j \in Nibbles,
         Nibble3(Xor16(Xor16(a, Table[i + 1]), Table[j + 1])) = 0
  PROVE  i = j
<1> DEFINE u == Table[i + 1]
           v == Table[j + 1]
           w == Xor16(a, u)
<1>1. u \in Words /\ v \in Words /\ (Nibble3(u) = Nibble3(v) => i = j)
  BY TableFacts, Zenon
<1> HIDE DEF u, v
<1>2. w \in Words /\ Nibble3(w) = XorNibble[0, Nibble3(u)]
  BY <1>1, XorType, Zenon
<1>3. Nibble3(Xor16(w, v)) = XorNibble[Nibble3(w), Nibble3(v)]
  BY <1>1, <1>2, XorType, Zenon
<1>4. Nibble3(u) \in Nibbles /\ Nibble3(v) \in Nibbles
  BY <1>1, WordShifted, NibblesType, Zenon
<1>5. Nibble3(w) = Nibble3(u)
  BY <1>2, <1>4, XorNibbleFacts, Zenon
<1>6. XorNibble[Nibble3(u), Nibble3(v)] = 0
  BY <1>3, <1>5, Zenon DEF u, v
<1>7. Nibble3(u) = Nibble3(v)
  BY <1>4, <1>6, XorNibbleFacts, Zenon
<1> QED BY <1>1, <1>7, Zenon

LEMMA LowWord ==
  ASSUME NEW a \in Words
  PROVE  /\ Low(a) => Nibble3(a) = 0
         /\ Nibble3(a \div 16) = 0
<1>1. ASSUME NEW b \in Words PROVE Low(b) => Nibble3(b) = 0
  <2> SUFFICES ASSUME b < 4096 PROVE Nibble3(b) = 0
    BY DEF Low
  <2>1. b \in Nat
    BY WordShifted
  <2>2. b \div 4096 = 0
    BY <2>1
  <2> QED BY <2>2 DEF Nibble3
<1> QED BY <1>1, WordShifted, Zenon

LEMMA AddNibbleFacts ==
  ASSUME NEW crc \in Words, NEW nibble \in Nibbles
  PROVE  /\ AddNibble(crc, nibble) \in Words
         /\ Low(AddNibble(crc, nibble)) =>
              crc % 16 = nibble /\ AddNibble(crc, nibble) = crc \div 16
<1> DEFINE q == crc \div 16
           r == crc % 16
<1>1. q \in Words /\ r \in Nibbles /\ Nibble3(q) = 0
  BY WordShifted, LowWord, Zenon
<1>2. AddNibble(crc, nibble) = Xor16(Xor16(q, Table[r + 1]), Table[nibble + 1])
  BY Zenon DEF AddNibble
<1> HIDE DEF q, r
<1>3. Table[r + 1] \in Words /\ Table[nibble + 1] \in Words
  BY <1>1, TableFacts, Zenon
<1>4. Xor16(q, Table[r + 1]) \in Words
  BY <1>1, <1>3, XorType, Zenon
<1>5. Xor16(Xor16(q, Table[r + 1]), Table[nibble + 1]) \in Words
  BY <1>3, <1>4, XorType, Zenon
<1>6. ASSUME Low(AddNibble(crc, nibble)) PROVE r = nibble /\ AddNibble(crc, nibble) = q
  <2>1. Nibble3(Xor16(Xor16(q, Table[r + 1]), Table[nibble + 1])) = 0
    BY <1>2, <1>5, <1>6, LowWord, Zenon
  <2>2. r = nibble
    BY <1>1, <2>1, HighNibble, Zenon
  <2>3. Xor16(Xor16(q, Table[r + 1]), Table[r + 1]) = q
    BY <1>1, <1>3, XorTwice, Zenon
  <2> QED BY <1>2, <2>2, <2>3, Zenon
<1> QED BY <1>2, <1>5, <1>6, Zenon DEF q, r

(* A checksum with a high byte 0 tells the last byte and the one before.    *)
LEMMA AddByteFacts ==
  ASSUME NEW crc \in Words, NEW byte \in Bytes
  PROVE  /\ AddByte(crc, byte) \in Words
         /\ AddByte(crc, byte) \in Bytes => crc = byte + 256 * AddByte(crc, byte)
<1> DEFINE lo == byte % 16
           hi == byte \div 16
           y == AddNibble(crc, lo)
           z == AddNibble(y, hi)
<1>1. lo \in Nibbles /\ hi \in Nibbles /\ byte = lo + 16 * hi
  BY DEF Bytes, Nibbles
<1> HIDE DEF lo, hi
<1>2. y \in Words /\ (Low(y) => crc % 16 = lo /\ y = crc \div 16)
  BY <1>1, AddNibbleFacts, Zenon
<1> HIDE DEF y
<1>3. z \in Words /\ (Low(z) => y % 16 = hi /\ z = y \div 16)
  BY <1>1, <1>2, AddNibbleFacts, Zenon
<1>4. AddByte(crc, byte) = z
  BY Zenon DEF AddByte, y, lo, hi
<1> HIDE DEF z
<1>5. ASSUME z \in Bytes PROVE crc = byte + 256 * z
  <2>1. z \in Nat /\ z < 256 /\ Low(z)
    BY <1>5 DEF Bytes, Low
  <2>2. y \in Nat /\ y = 16 * z + hi
    BY <1>2, <1>3, <2>1, WordShifted
  <2>3. Low(y)
    BY <1>1, <2>1, <2>2 DEF Low, Nibbles
  <2>4. crc \in Nat /\ crc = 16 * y + lo
    BY <1>2, <2>3, WordShifted
  <2> QED BY <1>1, <2>1, <2>2, <2>4 DEF Nibbles
<1> QED BY <1>3, <1>4, <1>5, Zenon

LEMMA CrcSteps ==
  ASSUME NEW data \in Seq(Bytes)
  PROVE  \E f : /\ f \in [0 .. Len(data) -> Words] /\ Crc(data) = f[Len(data)]
                /\ f[0] = 0 /\ \A i \in 1 .. Len(data) : f[i] = AddByte(f[i - 1], data[i])
<1> DEFINE n == Len(data)
           V == Words
           Steps(f) == f = [i \in 0 .. Len(data) |->
                              IF i = 0 THEN 0 ELSE AddByte(f[i - 1], data[i])]
           g == [i \in 1 .. n |-> [crc \in V |-> AddByte(crc, data[i])]]
<1>1. n \in Nat /\ 0 \in V
BY DEF Words
<1>2. g \in [1 .. n -> [V -> V]]
  <2> SUFFICES ASSUME NEW i \in 1 .. n, NEW crc \in V PROVE AddByte(crc, data[i]) \in V
    OBVIOUS
  <2>1. data[i] \in Bytes
    OBVIOUS
  <2> QED BY <2>1, AddByteFacts
<1>3. PICK f : Counts(f, n, V, 0, g)
  <2> HIDE DEF n, V, g
  <2> QED BY <1>1, <1>2, CountingExists, Zenon
<1>4. f \in [0 .. n -> V] /\ f[0] = 0 /\ \A i \in 1 .. n : f[i] = AddByte(f[i - 1], data[i])
  <2>1. f \in [0 .. n -> V] /\ f[0] = 0
    BY <1>3, Zenon DEF Counts
  <2>2. ASSUME NEW i \in 1 .. n PROVE f[i] = AddByte(f[i - 1], data[i])
    <3>1. i - 1 \in 0 .. n
      OBVIOUS
    <3>2. f[i - 1] \in V
      BY <2>1, <3>1, Zenon
    <3>3. f[i] = g[i][f[i - 1]]
      BY <1>3, Zenon DEF Counts
    <3> QED BY <3>2, <3>3, Zenon
  <2> QED BY <2>1, <2>2
<1>5. Steps(f)
  <2>1. ASSUME NEW i \in 0 .. n PROVE f[i] = IF i = 0 THEN 0 ELSE AddByte(f[i - 1], data[i])
    <3>1. i = 0 \/ (i \in 1 .. n /\ i # 0)
      BY <1>1
    <3> QED BY <1>4, <3>1, Zenon
  <2> HIDE DEF n, V
  <2>2. f = [i \in 0 .. n |-> IF i = 0 THEN 0 ELSE AddByte(f[i - 1], data[i])]
    BY <1>4, <2>1, Zenon
  <2> QED BY <2>2 DEF n
<1> HIDE DEF Steps
<1>6. Steps(CHOOSE h : Steps(h))
  BY <1>5, Zenon
<1>7. Crc(data) = (CHOOSE h : Steps(h))[Len(data)]
  BY Zenon DEF Crc, Steps
<1>8. ASSUME NEW h, Steps(h) PROVE h[n] = f[n]
  <2>1. h = [i \in 0 .. n |-> IF i = 0 THEN 0 ELSE AddByte(h[i - 1], data[i])]
    BY <1>8, Zenon DEF Steps
  <2> DEFINE T == {i \in Nat : i <= n => h[i] = f[i]}
  <2>2. 0 \in T
    BY <1>1, <1>4, <2>1
  <2>3. ASSUME NEW i \in T PROVE i + 1 \in T
    <3> SUFFICES ASSUME i + 1 <= n PROVE h[i + 1] = f[i + 1]
      OBVIOUS
    <3>1. i + 1 \in 1 .. n /\ i + 1 \in 0 .. n /\ i + 1 # 0 /\ (i + 1) - 1 = i /\ h[i] = f[i]
      BY <1>1
    <3>2. h[i + 1] = AddByte(h[(i + 1) - 1], data[i + 1])
      BY <2>1, <3>1, Zenon
    <3>3. f[i + 1] = AddByte(f[(i + 1) - 1], data[i + 1])
      BY <1>4, <3>1, Zenon
    <3> QED BY <3>1, <3>2, <3>3, Zenon
  <2>4. \A i \in Nat : i \in T
    <3>1. T \in SUBSET Nat
      OBVIOUS
    <3> HIDE DEF T
    <3> QED BY <2>2, <2>3, <3>1, AllNaturals
  <2> QED BY <1>1, <2>4
<1> QED BY <1>4, <1>6, <1>7, <1>8, Zenon

LEMMA CrcType ==
  ASSUME NEW data \in Seq(Bytes)
  PROVE  Crc(data) \in Words
<1>1. PICK f : /\ f \in [0 .. Len(data) -> Words] /\ Crc(data) = f[Len(data)]
               /\ f[0] = 0 /\ \A i \in 1 .. Len(data) : f[i] = AddByte(f[i - 1], data[i])
  BY CrcSteps
<1>2. Len(data) \in 0 .. Len(data)
  OBVIOUS
<1> QED BY <1>1, <1>2

LEMMA CrcAppend ==
  ASSUME NEW data \in Seq(Bytes), NEW byte \in Bytes
  PROVE  Crc(Append(data, byte)) = AddByte(Crc(data), byte)
<1> DEFINE n == Len(data)
           more == Append(data, byte)
<1>1. /\ n \in Nat /\ more \in Seq(Bytes) /\ Len(more) = n + 1 /\ more[n + 1] = byte
      /\ \A i \in 1 .. n : more[i] = data[i]
  BY AppendProperties
<1> HIDE DEF more
<1>2. PICK f : /\ f \in [0 .. Len(more) -> Words] /\ Crc(more) = f[Len(more)]
               /\ f[0] = 0 /\ \A i \in 1 .. Len(more) : f[i] = AddByte(f[i - 1], more[i])
  BY <1>1, CrcSteps
<1>3. PICK h : /\ h \in [0 .. Len(data) -> Words] /\ Crc(data) = h[Len(data)]
               /\ h[0] = 0 /\ \A i \in 1 .. Len(data) : h[i] = AddByte(h[i - 1], data[i])
  BY CrcSteps
<1> DEFINE T == {i \in Nat : i <= n => f[i] = h[i]}
<1>4. 0 \in T
  BY <1>2, <1>3
<1>5. ASSUME NEW i \in T PROVE i + 1 \in T
  <2> SUFFICES ASSUME i + 1 <= n PROVE f[i + 1] = h[i + 1]
    OBVIOUS
  <2>1. /\ i + 1 \in 1 .. n /\ i + 1 \in 1 .. n + 1 /\ (i + 1) - 1 = i /\ f[i] = h[i]
    BY <1>1
  <2>2. f[i + 1] = AddByte(f[(i + 1) - 1], more[i + 1])
    BY <1>1, <1>2, <2>1
  <2>3. h[i + 1] = AddByte(h[(i + 1) - 1], data[i + 1])
    BY <1>3, <2>1
  <2> QED BY <1>1, <2>1, <2>2, <2>3, Zenon
<1>6. f[n] = h[n]
  <2>1. T \in SUBSET Nat
    OBVIOUS
  <2> HIDE DEF T
  <2>2. n \in T
    BY <1>1, <1>4, <1>5, <2>1, AllNaturals
  <2> QED BY <1>1, <2>2 DEF T
<1>7. f[n + 1] = AddByte(f[(n + 1) - 1], more[n + 1])
  BY <1>1, <1>2
<1>8. (n + 1) - 1 = n
  BY <1>1
<1> QED BY <1>1, <1>2, <1>3, <1>6, <1>7, <1>8, Zenon DEF more

-----------------------------------------------------------------------------
(* A frame that is built is parsed. *)

LEMMA TwoBytes ==
  ASSUME NEW n \in Nat
  PROVE  /\ LittleEndian(n, 2) \in Seq(Bytes) /\ Len(LittleEndian(n, 2)) = 2
         /\ LittleEndian(n, 2)[1] = n % 256 /\ LittleEndian(n, 2)[2] = (n \div 256) % 256
<1>1. 256^0 = 1 /\ 256^1 = 256 /\ n \div 1 = n
  OBVIOUS
<1>2. LittleEndian(n, 2) = [i \in 1 .. 2 |-> (n \div 256^(i - 1)) % 256]
  BY DEF LittleEndian
<1>3. LittleEndian(n, 2)[1] = n % 256 /\ LittleEndian(n, 2)[2] = (n \div 256) % 256
  <2>1. LittleEndian(n, 2)[1] = (n \div 256^(1 - 1)) % 256
    BY <1>2
  <2>2. LittleEndian(n, 2)[2] = (n \div 256^(2 - 1)) % 256
    BY <1>2
  <2>3. 1 - 1 = 0 /\ 2 - 1 = 1
    OBVIOUS
  <2> QED BY <1>1, <2>1, <2>2, <2>3
<1>4. n % 256 \in Bytes /\ (n \div 256) % 256 \in Bytes
  BY DEF Bytes
<1>5. \A i \in 1 .. 2 : (n \div 256^(i - 1)) % 256 \in Bytes
  <2> SUFFICES ASSUME NEW i \in 1 .. 2 PROVE (n \div 256^(i - 1)) % 256 \in Bytes
    OBVIOUS
  <2>1. LittleEndian(n, 2)[i] = (n \div 256^(i - 1)) % 256
    BY <1>2
  <2>2. i = 1 \/ i = 2
    OBVIOUS
  <2> QED BY <1>3, <1>4, <2>1, <2>2, ZenonT(30)
<1>6. LittleEndian(n, 2) \in Seq(Bytes) /\ Len(LittleEndian(n, 2)) = 2
  <2> DEFINE b == [i \in 1 .. 2 |-> (n \div 256^(i - 1)) % 256]
  <2>1. b \in [1 .. 2 -> Bytes]
    BY <1>5, Zenon
  <2> HIDE DEF b
  <2>2. b \in Seq(Bytes)
    BY <2>1, SeqDef, Zenon
  <2>3. DOMAIN b = 1 .. 2 /\ Len(b) \in Nat /\ DOMAIN b = 1 .. Len(b)
    BY <2>1, <2>2, LenProperties
  <2>4. Len(b) = 2
    BY <2>3
  <2> QED BY <1>2, <2>2, <2>4, Zenon DEF b
<1> QED BY <1>3, <1>6

LEMMA WordOfBytes ==
  ASSUME NEW n \in Words
  PROVE  LittleEndian(n, 2)[1] + 256 * LittleEndian(n, 2)[2] = n
<1>1. n \in Nat /\ n < 65536
BY DEF Words
<1>2. n \div 256 \in Nat /\ n = 256 * (n \div 256) + (n % 256) /\ n % 256 \in Nat
  BY <1>1
<1> DEFINE q == n \div 256
           r == n % 256
<1> HIDE DEF q, r
<1>3. q \in Nat /\ r \in Nat /\ n = 256 * q + r
  BY <1>2 DEF q, r
<1>4. q < 256
  BY <1>1, <1>3
<1>5. q % 256 = q
  BY <1>3, <1>4
<1>6. LittleEndian(n, 2)[1] = r /\ LittleEndian(n, 2)[2] = q % 256
  BY <1>1, TwoBytes DEF q, r
<1> QED BY <1>3, <1>5, <1>6

(* A frame of a header of four bytes, the payload, and the checksum.        *)
Checked(covered, sum) == sum[1] + 256 * sum[2] = Crc(covered)
TypeIn(head) == IF head[4] >= 128 THEN head[3] + 5000 ELSE head[3] + 256 * head[4]

LEMMA Parses ==
  ASSUME NEW head \in Seq(Bytes), Len(head) = 4, NEW data \in Seq(Bytes),
         NEW sum \in Seq(Bytes), Len(sum) = 2, Checked(head \o data, sum)
  PROVE  ParseFrame((head \o data) \o sum) = Parsed(TypeIn(head), data)
<1> DEFINE covered == head \o data
           frame == covered \o sum
<1>1. head \in Seq(Nat) /\ data \in Seq(Nat) /\ sum \in Seq(Nat) /\ Len(data) \in Nat
  <2>1. Bytes \subseteq Nat
    BY DEF Bytes
  <2>2. head \in Seq(Nat) /\ data \in Seq(Nat) /\ sum \in Seq(Nat)
    BY <2>1, SeqMonotonic, Zenon
  <2> QED BY <2>2
<1>2. /\ covered \in Seq(Nat) /\ Len(covered) = Len(head) + Len(data)
      /\ \A k \in 1 .. Len(head) : covered[k] = head[k]
  BY <1>1, ConcatFacts, Zenon
<1>3. Checked(covered, sum)
  OBVIOUS
<1>4. SubSeq(frame, Len(head) + 1, Len(head) + Len(data)) = data
  BY <1>1, Middle, Zenon
<1> HIDE DEF covered
<1>5. /\ frame \in Seq(Nat) /\ Len(frame) = Len(covered) + Len(sum)
      /\ \A k \in 1 .. Len(covered) : frame[k] = covered[k]
      /\ \A k \in 1 .. Len(sum) : frame[Len(covered) + k] = sum[k]
  BY <1>1, <1>2, ConcatFacts, Zenon
<1>6. SubSeq(frame, 1, Len(covered)) = covered
  BY <1>1, <1>2, Beginning, Zenon
<1> HIDE DEF frame
<1>7. frame[3] = head[3] /\ frame[4] = head[4]
  <2>1. 3 \in 1 .. Len(head) /\ 4 \in 1 .. Len(head)
    OBVIOUS
  <2>2. 3 \in 1 .. Len(covered) /\ 4 \in 1 .. Len(covered)
    BY <1>1, <1>2
  <2>3. frame[3] = covered[3] /\ frame[4] = covered[4]
    BY <1>5, <2>2, Zenon
  <2>4. covered[3] = head[3] /\ covered[4] = head[4]
    BY <1>2, <2>1, Zenon
  <2> QED BY <2>3, <2>4, Zenon
<1>8. frame[Len(frame) - 1] = sum[1] /\ frame[(Len(frame) - 1) + 1] = sum[2]
  <2>1. frame[Len(covered) + 1] = sum[1] /\ frame[Len(covered) + 2] = sum[2]
    BY <1>5
  <2>2. Len(frame) - 1 = Len(covered) + 1 /\ (Len(frame) - 1) + 1 = Len(covered) + 2
    BY <1>1, <1>2, <1>5
  <2> QED BY <2>1, <2>2, Zenon
<1>9. SubSeq(frame, 1, Len(frame) - 2) = covered
  <2>1. Len(frame) - 2 = Len(covered)
    BY <1>1, <1>2, <1>5
  <2> QED BY <1>6, <2>1, Zenon
<1>10. CrcMatches(frame)
  BY <1>3, <1>8, <1>9 DEF CrcMatches, U16, Checked
<1>11. SubSeq(frame, 5, Len(frame) - 2) = data
  <2>1. Len(frame) - 2 = Len(head) + Len(data) /\ Len(head) + 1 = 5
    BY <1>1, <1>2, <1>5
  <2> QED BY <1>4, <2>1
<1>12. MsgType(frame) = TypeIn(head)
  <2>1. 3 + 1 = 4
    OBVIOUS
  <2> QED BY <1>7, <2>1 DEF MsgType, TypeIn, U16
<1>13. ~(Len(frame) < 6)
  BY <1>1, <1>2, <1>5
<1>14. ParseFrame(frame) = Parsed(MsgType(frame), SubSeq(frame, 5, Len(frame) - 2))
  BY <1>10, <1>13 DEF ParseFrame
<1> QED BY <1>11, <1>12, <1>14, Zenon DEF frame, covered

Types == {type \in Nat : type < 32768}

(* What build_frame puts before the payload.                                *)
Header(type, data) == LittleEndian(2 + 2 + Len(data) + 2, 2) \o LittleEndian(type, 2)

LEMMA HeaderFacts ==
  ASSUME NEW type \in Types, NEW data \in Seq(Bytes)
  PROVE  /\ Header(type, data) \in Seq(Bytes) /\ Len(Header(type, data)) = 4
         /\ TypeIn(Header(type, data)) = type
<1> DEFINE size == LittleEndian(2 + 2 + Len(data) + 2, 2)
           name == LittleEndian(type, 2)
           head == size \o name
<1>1. type \in Nat /\ 2 + 2 + Len(data) + 2 \in Nat
  BY DEF Types
<1>2. size \in Seq(Bytes) /\ Len(size) = 2
  BY <1>1, TwoBytes, Zenon
<1>3. name \in Seq(Bytes) /\ Len(name) = 2
  BY <1>1, TwoBytes, Zenon
<1>4. name[1] + 256 * name[2] = type
  BY WordOfBytes DEF Words, Types
<1>5. name[1] \in Nat /\ name[2] \in Nat
  <2>1. name[1] \in Bytes /\ name[2] \in Bytes
    BY <1>3
  <2> QED BY <2>1 DEF Bytes
<1> HIDE DEF size, name
<1>6. name[2] < 128
  BY <1>4, <1>5 DEF Types
<1>7. head \in Seq(Bytes) /\ Len(head) = 4 /\ head[3] = name[1] /\ head[4] = name[2]
  <2>1. /\ head \in Seq(Bytes) /\ Len(head) = Len(size) + Len(name)
        /\ \A k \in 1 .. Len(size) + Len(name) :
             head[k] = IF k <= Len(size) THEN size[k] ELSE name[k - Len(size)]
    BY <1>2, <1>3, ConcatProperties, Zenon
  <2> HIDE DEF head
  <2>2. head[3] = name[3 - 2] /\ head[4] = name[4 - 2]
    BY <1>2, <1>3, <2>1
  <2> QED BY <1>2, <1>3, <2>1, <2>2
<1> HIDE DEF head
<1>8. TypeIn(head) = type
  BY <1>4, <1>5, <1>6, <1>7 DEF TypeIn
<1> QED BY <1>7, <1>8 DEF head, size, name, Header

(* A frame of a header and a payload.                                       *)
Framed(head, data) == (head \o data) \o LittleEndian(Crc(head \o data), 2)

LEMMA FramedFacts ==
  ASSUME NEW head \in Seq(Bytes), NEW data \in Seq(Bytes)
  PROVE  /\ head \o data \in Seq(Bytes) /\ Crc(head \o data) \in Words
         /\ Framed(head, data) \in Seq(Bytes)
<1> DEFINE covered == head \o data
<1>1. covered \in Seq(Bytes)
  BY ConcatProperties, Zenon
<1> HIDE DEF covered
<1>2. Crc(covered) \in Words /\ Crc(covered) \in Nat
  BY <1>1, CrcType, WordShifted
<1>3. LittleEndian(Crc(covered), 2) \in Seq(Bytes)
  BY <1>2, TwoBytes, Zenon
<1>4. covered \o LittleEndian(Crc(covered), 2) \in Seq(Bytes)
  BY <1>1, <1>3, ConcatProperties, Zenon
<1> QED BY <1>1, <1>2, <1>4, Zenon DEF covered, Framed

LEMMA FramedParsed ==
  ASSUME NEW head \in Seq(Bytes), Len(head) = 4, NEW data \in Seq(Bytes)
  PROVE  ParseFrame(Framed(head, data)) = Parsed(TypeIn(head), data)
<1> DEFINE covered == head \o data
           sum == LittleEndian(Crc(covered), 2)
<1>1. Crc(covered) \in Words
  BY FramedFacts, Zenon
<1>2. Crc(covered) \in Nat
  BY <1>1, WordShifted
<1>3. sum \in Seq(Bytes) /\ Len(sum) = 2 /\ Checked(covered, sum)
  BY <1>1, <1>2, TwoBytes, WordOfBytes, Zenon DEF Checked
<1> HIDE DEF sum
<1>4. ParseFrame(covered \o sum) = Parsed(TypeIn(head), data)
  BY <1>3, Parses, Zenon
<1> QED BY <1>4, Zenon DEF Framed, sum

(* build_frame makes one, of a header that holds the type.                  *)
LEMMA FrameFramed ==
  ASSUME NEW type \in Types, NEW data \in Seq(Bytes)
  PROVE  /\ BuildFrame(type, data) = Framed(Header(type, data), data)
         /\ BuildFrame(type, data) \in Seq(Bytes)
<1>1. BuildFrame(type, data) = Framed(Header(type, data), data)
  BY Zenon DEF BuildFrame, Header, Framed
<1>2. Header(type, data) \in Seq(Bytes)
  BY HeaderFacts, Zenon
<1> QED BY <1>1, <1>2, FramedFacts, Zenon

LEMMA FrameParsed ==
  ASSUME NEW type \in Types, NEW data \in Seq(Bytes)
  PROVE  ParseFrame(BuildFrame(type, data)) = Parsed(type, data)
<1> DEFINE head == Header(type, data)
<1>1. head \in Seq(Bytes) /\ Len(head) = 4 /\ TypeIn(head) = type
  BY HeaderFacts, Zenon
<1>2. BuildFrame(type, data) = Framed(head, data)
  BY FrameFramed, Zenon
<1> HIDE DEF head
<1>3. ParseFrame(Framed(head, data)) = Parsed(TypeIn(head), data)
  BY <1>1, FramedParsed, Zenon
<1> QED BY <1>1, <1>2, <1>3, Zenon

LEMMA RegroupedBytes ==
  ASSUME NEW r \in Seq(Bytes), NEW s \in Seq(Bytes), NEW t \in Seq(Bytes)
  PROVE  (r \o s) \o t = r \o (s \o t)
BY ConcatAssociative

LEMMA LastOff ==
  ASSUME NEW data \in Seq(Bytes), data # <<>>
  PROVE  /\ Front(data) \in Seq(Bytes) /\ data[Len(data)] \in Bytes
         /\ data = Append(Front(data), data[Len(data)])
<1> DEFINE n == Len(data) - 1
<1>1. n \in Nat /\ n + 1 = Len(data)
  BY EmptySeq
<1>2. \A i \in 1 .. n : data[i] \in Bytes
  BY <1>1
<1>3. data[Len(data)] \in Bytes
  BY <1>1
<1> HIDE DEF n
<1>4. /\ SubSeq(data, 1, n) \in Seq(Bytes)
      /\ Len(SubSeq(data, 1, n)) = IF 1 <= n THEN n - 1 + 1 ELSE 0
      /\ \A i \in 1 .. n - 1 + 1 : SubSeq(data, 1, n)[i] = data[1 + i - 1]
  BY <1>1, <1>2, SubSeqProperties
<1>5. Front(data) = SubSeq(data, 1, n)
  BY DEF Front, n
<1>6. Front(data) \in Seq(Bytes) /\ Len(Front(data)) = n /\ \A i \in 1 .. n : Front(data)[i] = data[i]
  BY <1>1, <1>4, <1>5
<1>7. Append(Front(data), data[Len(data)]) = data
  <2> DEFINE more == Append(Front(data), data[Len(data)])
  <2>1. /\ more \in Seq(Bytes) /\ Len(more) = n + 1 /\ more[n + 1] = data[Len(data)]
        /\ \A i \in 1 .. n : more[i] = Front(data)[i]
    BY <1>3, <1>6, AppendProperties
  <2> HIDE DEF more
  <2>2. \A i \in 1 .. Len(data) : more[i] = data[i]
    BY <1>1, <1>6, <2>1
  <2>3. more = data
    BY <1>1, <2>1, <2>2, SeqEqual
  <2> QED BY <2>3 DEF more
<1> QED BY <1>3, <1>6, <1>7

(* A frame whose checksum has a high byte 0, without that byte: what is left *)
(* is a frame of the payload without its last byte.                          *)
LEMMA ShortFrame ==
  ASSUME NEW head \in Seq(Bytes), Len(head) = 4, NEW data \in Seq(Bytes), data # <<>>,
         NEW lo \in Bytes, Crc(head \o data) = lo
  PROVE  ParseFrame((head \o data) \o <<lo>>) = Parsed(TypeIn(head), Front(data))
<1> DEFINE c == data[Len(data)]
           front == Front(data)
           sum == <<c>> \o <<lo>>
<1>1. front \in Seq(Bytes) /\ c \in Bytes /\ data = Append(front, c)
  BY LastOff
<1> HIDE DEF c, front
<1>2. /\ <<c>> \in Seq(Bytes) /\ <<lo>> \in Seq(Bytes)
      /\ Len(<<c>>) = 1 /\ <<c>>[1] = c /\ Len(<<lo>>) = 1 /\ <<lo>>[1] = lo
  BY <1>1
<1>3. data = front \o <<c>>
  BY <1>1, AppendIsConcat
<1>4. head \o front \in Seq(Bytes)
  BY <1>1, ConcatProperties
<1>5. head \o data = (head \o front) \o <<c>>
  <2>1. (head \o front) \o <<c>> = head \o (front \o <<c>>)
    BY <1>1, <1>2, RegroupedBytes
  <2> QED BY <1>3, <2>1, Zenon
<1>6. head \o data = Append(head \o front, c)
  BY <1>1, <1>4, <1>5, AppendIsConcat
<1>7. (head \o data) \o <<lo>> = (head \o front) \o sum
  <2>1. ((head \o front) \o <<c>>) \o <<lo>> = (head \o front) \o (<<c>> \o <<lo>>)
    BY <1>2, <1>4, RegroupedBytes
  <2> QED BY <1>5, <2>1, Zenon
<1>8. Crc(head \o front) \in Words
  BY <1>4, CrcType
<1>9. AddByte(Crc(head \o front), c) = lo
  BY <1>1, <1>4, <1>6, CrcAppend, Zenon
<1>10. Crc(head \o front) = c + 256 * lo
  BY <1>1, <1>8, <1>9, AddByteFacts
<1>11. sum \in Seq(Bytes) /\ Len(sum) = 2 /\ sum[1] = c /\ sum[2] = lo
  BY <1>1
<1> HIDE DEF sum
<1>12. Checked(head \o front, sum)
  BY <1>10, <1>11 DEF Checked
<1>13. ParseFrame((head \o front) \o sum) = Parsed(TypeIn(head), front)
  BY <1>1, <1>11, <1>12, Parses, Zenon
<1> QED BY <1>7, <1>13, Zenon DEF front

(* A message on its way through the standard encoder and decode.            *)
Stripping(frame, type, data) ==
  IF ~EndsInZero(frame) THEN Parsed(type, data)
  ELSE IF data = <<>> THEN Rejected ELSE Parsed(type, Front(data))

LEMMA StrippedParsed ==
  ASSUME NEW head \in Seq(Bytes), Len(head) = 4, NEW data \in Seq(Bytes)
  PROVE  ParseFrame(Stripped(Framed(head, data))) =
           Stripping(Framed(head, data), TypeIn(head), data)
<1> DEFINE covered == head \o data
           sum == LittleEndian(Crc(covered), 2)
           frame == Framed(head, data)
           lo == sum[1]
<1>2. /\ covered \in Seq(Bytes) /\ Crc(covered) \in Words /\ frame = covered \o sum
      /\ frame \in Seq(Bytes)
  BY FramedFacts, Zenon DEF Framed
<1>3. Crc(covered) \in Nat
  BY <1>2, WordShifted
<1>4. sum \in Seq(Bytes) /\ Len(sum) = 2 /\ sum[1] + 256 * sum[2] = Crc(covered)
  BY <1>2, <1>3, TwoBytes, WordOfBytes
<1>5. CASE ~EndsInZero(frame)
  <2>1. ParseFrame(frame) = Parsed(TypeIn(head), data)
    BY FramedParsed, Zenon
  <2> QED BY <1>5, <2>1, Zenon DEF Stripped, Stripping
<1>6. CASE EndsInZero(frame)
  <2> HIDE DEF sum
  <2>1. lo \in Bytes /\ sum[2] \in Bytes /\ lo \in Nat /\ sum[2] \in Nat
    <3>1. lo \in Bytes /\ sum[2] \in Bytes
      <4>1. sum \in Seq(Bytes) /\ Len(sum) = 2
        BY <1>4
      <4>2. 1 \in 1 .. 2 /\ 2 \in 1 .. 2
        OBVIOUS
      <4>3. sum[1] \in Bytes /\ sum[2] \in Bytes
        BY <4>1, <4>2, ElementOfSeq, Zenon
      <4> QED BY <4>3, Zenon DEF lo
    <3> QED BY <3>1 DEF Bytes
  <2> HIDE DEF lo
  <2>2. /\ Len(covered) = 4 + Len(data) /\ Len(data) \in Nat
        /\ Len(frame) = Len(covered) + 2 /\ Len(covered) \in Nat
    <3>1. Len(covered) = Len(head) + Len(data)
      BY ConcatProperties, Zenon
    <3>3. Len(data) \in Nat
      OBVIOUS
    <3>2. Len(covered \o sum) = Len(covered) + Len(sum)
      BY <1>2, <1>4, ConcatProperties, Zenon
    <3>4. Len(frame) = Len(covered) + Len(sum)
      BY <1>2, <3>2
    <3> HIDE DEF frame, covered
    <3> QED BY <1>4, <3>1, <3>3, <3>4
  <2>3. sum = <<lo>> \o <<sum[2]>> /\ <<lo>> \in Seq(Bytes) /\ <<sum[2]>> \in Seq(Bytes)
        /\ Len(<<lo>>) = 1
    BY <1>4, <2>1 DEF lo
  <2>4. frame = (covered \o <<lo>>) \o <<sum[2]>>
    <3>1. (covered \o <<lo>>) \o <<sum[2]>> = covered \o (<<lo>> \o <<sum[2]>>)
      BY <1>2, <2>3, RegroupedBytes
    <3>2. frame = covered \o sum /\ sum = <<lo>> \o <<sum[2]>>
      BY <1>2, <2>3
    <3> HIDE DEF frame, covered
    <3> QED BY <3>1, <3>2, Zenon
  <2>5. /\ covered \o <<lo>> \in Seq(Bytes) /\ Len(covered \o <<lo>>) = Len(covered) + 1
    BY <1>2, <2>2, <2>3, ConcatProperties
  <2>6. frame[Len(frame)] = 0 /\ Stripped(frame) = SubSeq(frame, 1, Len(frame) - 1)
    BY <1>6 DEF EndsInZero, Stripped
  <2> HIDE DEF covered, frame
  <2>7. Stripped(frame) = covered \o <<lo>>
    <3>1. Len(frame) - 1 = Len(covered \o <<lo>>)
      BY <2>2, <2>5
    <3>2. Bytes \subseteq Nat
      BY DEF Bytes
    <3>3. covered \o <<lo>> \in Seq(Nat) /\ <<sum[2]>> \in Seq(Nat)
      BY <2>3, <2>5, <3>2, SeqMonotonic, Zenon
    <3>4. SubSeq(frame, 1, Len(covered \o <<lo>>)) = covered \o <<lo>>
      BY <2>4, <3>3, Beginning, Zenon
    <3> QED BY <2>6, <3>1, <3>4, Zenon
  <2>8. sum[2] = 0
    <3>1. frame[(Len(covered) + 1) + 1] = <<sum[2]>>[1]
      BY <2>2, <2>3, <2>4, <2>5, ConcatProperties
    <3>2. Len(frame) = (Len(covered) + 1) + 1
      BY <2>2
    <3> QED BY <2>6, <3>1, <3>2
  <2>9. Crc(covered) = lo
    BY <1>4, <2>1, <2>8 DEF lo
  <2>10. CASE data = <<>>
    <3>1. Len(data) = 0
      BY <2>10
    <3>2. Len(covered \o <<lo>>) < 6
      BY <2>2, <2>5, <3>1
    <3>3. ParseFrame(covered \o <<lo>>) = Rejected
      BY <3>2, Zenon DEF ParseFrame
    <3> QED BY <1>6, <2>7, <2>10, <3>3, Zenon DEF Stripping, frame
  <2>11. CASE data # <<>>
    <3>1. ParseFrame((head \o data) \o <<lo>>) = Parsed(TypeIn(head), Front(data))
      BY <2>1, <2>9, <2>11, ShortFrame, Zenon DEF covered
    <3> QED BY <1>6, <2>7, <2>11, <3>1, Zenon DEF Stripping, frame, covered
  <2> QED BY <2>10, <2>11
<1> QED BY <1>5, <1>6

-----------------------------------------------------------------------------
(* What a message is, in every state.                                       *)
Sent ==
  /\ msgType \in MsgTypes /\ payload \in Seq(PayloadBytes)
  /\ Len(payload) \in Nat /\ Len(payload) <= MaxPayload

LEMMA SentKept == Spec => []Sent
<1>1. Init => Sent
  BY EmptySeq, FramingAssumption DEF Init, Sent
<1>2. Sent /\ [Next]_vars => Sent'
  <2> SUFFICES ASSUME Sent, [Next]_vars PROVE Sent'
    OBVIOUS
  <2>1. CASE PushByte
    <3>1. PICK byte \in PayloadBytes : payload' = Append(payload, byte)
      BY <2>1 DEF PushByte
    <3>2. payload' \in Seq(PayloadBytes) /\ Len(payload') = Len(payload) + 1
      BY <3>1, AppendProperties DEF Sent
    <3>3. MaxPayload \in Nat
      BY FramingAssumption
    <3>4. Len(payload') \in Nat /\ Len(payload') <= MaxPayload
      BY <2>1, <3>2, <3>3 DEF PushByte, Sent
    <3> QED BY <2>1, <3>2, <3>4 DEF PushByte, Sent
  <2>2. CASE UNCHANGED vars
    BY <2>2 DEF vars, Sent
  <2> QED BY <2>1, <2>2 DEF Next
<1> QED BY <1>1, <1>2, PTL DEF Spec

LEMMA SentTypes ==
  ASSUME Sent
  PROVE  msgType \in Types /\ payload \in Seq(Bytes) /\ Frame \in Seq(Nat)
<1>1. MsgTypes \subseteq Types
  BY FramingAssumption, SMT DEF Types
<1>2. PayloadBytes \subseteq Bytes
  BY FramingAssumption, SMT DEF Bytes
<1>3. Bytes \subseteq Nat
  BY DEF Bytes
<1>4. msgType \in Types /\ payload \in Seq(Bytes)
  BY <1>1, <1>2, SeqMonotonic, Zenon DEF Sent
<1>5. Frame \in Seq(Bytes)
  BY <1>4, FrameFramed, Zenon DEF Frame
<1> QED BY <1>3, <1>4, <1>5, SeqMonotonic, Zenon

(* Whatever message build_frame makes, encode (cobs.rs) writes no 0x00 into *)
(* it, and decode and parse_frame (gfdi.rs) read it back as it was, unless  *)
(* it ends in 0 or has a zero right after a full block: for messages and    *)
(* blocks of any length.                                                    *)
THEOREM CarriedBackTheorem == Spec => []CarriedBack
<1>1. Sent => CarriedBack
  <2> SUFFICES ASSUME Sent PROVE CarriedBack
    OBVIOUS
  <2>1. msgType \in Types /\ payload \in Seq(Bytes) /\ Frame \in Seq(Nat)
    BY SentTypes, Zenon
  <2>2. NoDelimiterInside
    <3>1. Encode(Frame) \in Seq(Nat \ {0})
      BY <2>1, EncodedWithoutZero, Zenon
    <3> DEFINE e == Encode(Frame)
    <3> HIDE DEF e
    <3>2. \A i \in DOMAIN e : e[i] # 0
      BY <3>1 DEF e
    <3> QED BY <3>2, Zenon DEF NoDelimiterInside, e
  <2>3. ASSUME ~EndsInZero(Frame), ~ZeroAfterFull(Frame)
        PROVE  ParseCobsFrame(Encode(Frame)) = Message
    <3>1. Decode(Encode(Frame)) = [ok |-> TRUE, out |-> Frame]
      BY <2>1, <2>3, EncodeDecoded, Zenon
    <3>2. Decode(Encode(Frame)).ok = TRUE /\ Decode(Encode(Frame)).out = Frame
      BY <3>1
    <3>3. ParseFrame(Frame) = Message
      BY <2>1, FrameParsed, Zenon DEF Frame, Message
    <3> QED BY <3>2, <3>3, Zenon DEF ParseCobsFrame
  <2> QED BY <2>2, <2>3, Zenon DEF CarriedBack
<1> QED BY <1>1, SentKept, PTL

(* A message that a device encodes by the standard algorithm is read back   *)
(* by decode and parse_frame as it was; if the high byte of its checksum is *)
(* 0, as the message without its last payload byte.                         *)
THEOREM StandardCarriedTheorem == Spec => []StandardCarried
<1>1. Sent => StandardCarried
  <2> SUFFICES ASSUME Sent PROVE StandardCarried
    OBVIOUS
  <2>1. msgType \in Types /\ payload \in Seq(Bytes) /\ Frame \in Seq(Nat)
    BY SentTypes, Zenon
  <2>2. Decode(StandardEncode(Frame)) = [ok |-> TRUE, out |-> Stripped(Frame)]
    BY <2>1, StandardDecoded, Zenon
  <2>3. /\ Decode(StandardEncode(Frame)).ok = TRUE
        /\ Decode(StandardEncode(Frame)).out = Stripped(Frame)
    BY <2>2
  <2>4. ParseFrame(Stripped(Frame)) = Stripping(Frame, msgType, payload)
    <3>1. /\ Header(msgType, payload) \in Seq(Bytes) /\ Len(Header(msgType, payload)) = 4
          /\ TypeIn(Header(msgType, payload)) = msgType
      BY <2>1, HeaderFacts, Zenon
    <3>2. Frame = Framed(Header(msgType, payload), payload)
      BY <2>1, FrameFramed, Zenon DEF Frame
    <3> QED BY <2>1, <3>1, <3>2, StrippedParsed, Zenon
  <2> QED BY <2>3, <2>4, Zenon DEF ParseCobsFrame, StandardCarried, Stripping, Message
<1> QED BY <1>1, SentKept, PTL

-----------------------------------------------------------------------------
(* What is kept out of a capture. *)

Bears(type, data) ==
  \/ type \in IdentityTypes
  \/ type = 5000 /\ (Len(data) < 2 \/ U16(data, 1) \in IdentityTypes)

LEMMA IdentityTypesFacts == IdentityTypes \subseteq Words /\ ~(5000 \in IdentityTypes)
BY SMT DEF IdentityTypes, Words

(* carries_identity, of a message that was parsed. *)
LEMMA Carried ==
  ASSUME NEW type, NEW data
  PROVE  CarriesIdentity(Parsed(type, data)) <=> Bears(type, data)
<1>1. Parsed(type, data).type = type /\ Parsed(type, data).payload = data
  BY DEF Parsed
<1>2. ~(5000 \in IdentityTypes)
  BY IdentityTypesFacts, SMT
<1> QED BY <1>1, <1>2, SMT DEF CarriesIdentity, Bears

(* The first two bytes of an ACK name the type it answers. *)
LEMMA Begins ==
  ASSUME NEW type \in Words, NEW data \in Seq(Bytes), Len(data) >= 2
  PROVE  IsPrefix(LittleEndian(type, 2), data) <=> U16(data, 1) = type
<1> DEFINE name == LittleEndian(type, 2)
           first == SubSeq(data, 1, 2)
<1>1. type \in Nat
  BY WordsAreNumbers, Zenon
<1>2. name \in Seq(Bytes) /\ Len(name) = 2
  BY <1>1, TwoBytes, Zenon
<1>3. name[1] + 256 * name[2] = type
  BY WordOfBytes, Zenon
<1>4. Bytes \subseteq Nat
  BY DEF Bytes
<1>5. name \in Seq(Nat) /\ data \in Seq(Nat)
  BY <1>2, <1>4, SeqMonotonic, Zenon
<1> HIDE DEF name
<1>6. first \in Seq(Nat) /\ Len(first) = 2 /\ first[1] = data[1] /\ first[2] = data[2]
  <2>1. /\ SubSeq(data, 0 + 1, 0 + 2) \in Seq(Nat) /\ Len(SubSeq(data, 0 + 1, 0 + 2)) = 2
        /\ \A k \in 1 .. 2 : SubSeq(data, 0 + 1, 0 + 2)[k] = data[0 + k]
    <3>1. 0 \in Nat /\ 2 \in Nat /\ 0 + 2 <= Len(data)
      OBVIOUS
    <3> QED BY <1>5, <3>1, PartFacts, Zenon
  <2>2. 0 + 1 = 1 /\ 0 + 2 = 2
    OBVIOUS
  <2> QED BY <2>1, <2>2
<1> HIDE DEF first
<1>7. SubSeq(name, 1, 2) = name
  BY <1>2, <1>5, SubSeqFull, Zenon
<1>8. IsPrefix(name, data) <=> name = first
  <2>1. Len(name) <= Len(data)
    BY <1>2
  <2> QED BY <1>2, <1>7, <2>1, Zenon DEF IsPrefix, first
<1>9. name = first <=> name[1] = data[1] /\ name[2] = data[2]
  <2>1. ASSUME name[1] = data[1], name[2] = data[2] PROVE name = first
    <3>1. \A k \in 1 .. 2 : name[k] = first[k]
      BY <1>6, <2>1
    <3> QED BY <1>2, <1>5, <1>6, <3>1, SeqEqual
  <2> QED BY <1>6, <2>1, Zenon
<1>10. /\ name[1] \in Bytes /\ name[2] \in Bytes
       /\ data[1] \in Bytes /\ data[2] \in Bytes
  <2>1. 1 \in 1 .. Len(name) /\ 2 \in 1 .. Len(name)
    BY <1>2
  <2>2. 1 \in 1 .. Len(data) /\ 2 \in 1 .. Len(data)
    OBVIOUS
  <2> QED BY <1>2, <2>1, <2>2, ElementOfSeq, Zenon
<1>11. name[1] = data[1] /\ name[2] = data[2] <=> U16(data, 1) = type
  <2>1. U16(data, 1) = data[1] + 256 * data[2]
    BY DEF U16
  <2> QED BY <1>3, <1>10, <2>1, SMTT(30) DEF Bytes
<1> QED BY <1>8, <1>9, <1>11, Zenon DEF name

LEMMA Borne ==
  ASSUME Sent
  PROVE  BearsIdentity <=> Bears(msgType, payload)
<1> DEFINE Names == \E type \in IdentityTypes : IsPrefix(LittleEndian(type, 2), payload)
<1>1. Len(payload) < 2 \/ Len(payload) >= 2
  BY DEF Sent
<1>2. ASSUME Len(payload) >= 2 PROVE Names <=> U16(payload, 1) \in IdentityTypes
  <2>1. payload \in Seq(Bytes)
    BY SentTypes, Zenon
  <2>2. \A type \in IdentityTypes :
          IsPrefix(LittleEndian(type, 2), payload) <=> U16(payload, 1) = type
    <3>1. IdentityTypes \subseteq Words
      BY IdentityTypesFacts, SMT
    <3> QED BY <1>2, <2>1, <3>1, Begins, Zenon
  <2> QED BY <2>2, Zenon
<1> HIDE DEF Names
<1>3. BearsIdentity <=>
        msgType \in IdentityTypes \/ (msgType = 5000 /\ (Len(payload) < 2 \/ Names))
  BY SMT DEF BearsIdentity, Names
<1> QED BY <1>1, <1>2, <1>3, SMT DEF Bears

(* A message that bears identity still does without its last byte. *)
LEMMA StillBears ==
  ASSUME NEW type, NEW data \in Seq(Bytes), data # <<>>, Bears(type, data)
  PROVE  Bears(type, Front(data))
<1> DEFINE front == Front(data)
<1>1. front \in Seq(Bytes) /\ data = Append(front, data[Len(data)])
  BY LastOff, Zenon
<1> HIDE DEF front
<1>2. Len(data) = Len(front) + 1 /\ Len(front) \in Nat
      /\ \A i \in 1 .. Len(front) : data[i] = front[i]
  BY <1>1, AppendProperties
<1>3. Len(front) < 2 \/ (Len(data) >= 2 /\ U16(front, 1) = U16(data, 1))
  BY <1>2 DEF U16
<1>4. Bears(type, front)
  BY <1>2, <1>3, SMT DEF Bears
<1> QED BY <1>4, Zenon DEF front

LEMMA Told ==
  ASSUME Sent, NEW head \in Seq(Bytes), Len(head) = 4, TypeIn(head) = msgType
  PROVE  IdentityTold(Framed(head, payload))
<1> DEFINE frame == Framed(head, payload)
           parsed == ParseCobsFrame(StandardEncode(frame))
           kept == Parsed(msgType, payload)
           short == Parsed(msgType, Front(payload))
<1>1. payload \in Seq(Bytes) /\ frame \in Seq(Bytes)
  <2>1. payload \in Seq(Bytes)
    BY SentTypes, Zenon
  <2> QED BY <2>1, FramedFacts, Zenon
<1>2. frame \in Seq(Nat)
  <2>1. Bytes \subseteq Nat
    BY DEF Bytes
  <2> QED BY <1>1, <2>1, SeqMonotonic, Zenon
<1>3. ParseFrame(Stripped(frame)) = Stripping(frame, msgType, payload)
  BY <1>1, StrippedParsed, Zenon
<1> HIDE DEF frame
<1>4. Decode(StandardEncode(frame)) = [ok |-> TRUE, out |-> Stripped(frame)]
  BY <1>2, StandardDecoded, Zenon
<1>5. /\ Decode(StandardEncode(frame)).ok = TRUE
      /\ Decode(StandardEncode(frame)).out = Stripped(frame)
  BY <1>4
<1>6. parsed = Stripping(frame, msgType, payload)
  BY <1>3, <1>5, Zenon DEF ParseCobsFrame
<1>7. FrameExcluded(StandardEncode(frame)) <=> ~parsed.ok \/ CarriesIdentity(parsed)
  BY Zenon DEF FrameExcluded
<1> HIDE DEF parsed
<1>8. kept.ok = TRUE /\ short.ok = TRUE /\ Rejected.ok = FALSE
  BY DEF Parsed, Rejected
<1>9. BearsIdentity <=> CarriesIdentity(kept)
  BY Borne, Carried, Zenon
<1>10. payload # <<>> => (BearsIdentity => CarriesIdentity(short))
  BY <1>1, Borne, StillBears, Carried, Zenon
<1> HIDE DEF kept, short
<1>11. parsed = IF ~EndsInZero(frame) THEN kept
                ELSE IF payload = <<>> THEN Rejected ELSE short
  BY <1>6, Zenon DEF Stripping, kept, short
<1>12. /\ BearsIdentity => FrameExcluded(StandardEncode(frame))
       /\ FrameExcluded(StandardEncode(frame)) => BearsIdentity \/ EndsInZero(frame)
  BY <1>7, <1>8, <1>9, <1>10, <1>11, Zenon
<1> QED BY <1>12, Zenon DEF IdentityTold, frame

(* The types that an R10 can name in a compressed header, and the header. *)
Compressible == 5000 .. 5255
ShortHeader(type, data) == LittleEndian(6 + Len(data), 2) \o <<type - 5000, 129>>

LEMMA ShortHeaderFacts ==
  ASSUME NEW type \in Compressible, NEW data \in Seq(Bytes)
  PROVE  /\ ShortHeader(type, data) \in Seq(Bytes) /\ Len(ShortHeader(type, data)) = 4
         /\ TypeIn(ShortHeader(type, data)) = type
<1> DEFINE n == 6 + Len(data)
           size == LittleEndian(n, 2)
           name == <<type - 5000, 129>>
           head == size \o name
<1>1. size \in Seq(Bytes) /\ Len(size) = 2
  <2>1. n \in Nat
    OBVIOUS
  <2> HIDE DEF n
  <2> QED BY <2>1, TwoBytes, Zenon
<1>2. type - 5000 \in Bytes /\ 129 \in Bytes
  BY DEF Bytes, Compressible
<1>3. name \in Seq(Bytes) /\ Len(name) = 2 /\ name[1] = type - 5000 /\ name[2] = 129
  BY <1>2
<1> HIDE DEF size, name
<1>4. size \in Seq(Bytes) /\ name \in Seq(Bytes)
  BY <1>1, <1>3
<1>5. /\ head \in Seq(Bytes) /\ Len(head) = Len(size) + Len(name)
      /\ \A k \in 1 .. Len(size) + Len(name) :
           head[k] = IF k <= Len(size) THEN size[k] ELSE name[k - Len(size)]
  BY <1>4, ConcatProperties, Zenon
<1> HIDE DEF head
<1>6. Len(head) = 4 /\ head[3] = name[1] /\ head[4] = name[2]
  <2>1. head[3] = name[3 - 2] /\ head[4] = name[4 - 2]
    BY <1>1, <1>3, <1>5
  <2> QED BY <1>1, <1>3, <1>5, <2>1
<1>7. TypeIn(head) = type
  BY <1>3, <1>6 DEF TypeIn, Compressible
<1> QED BY <1>5, <1>6, <1>7 DEF head, size, name, ShortHeader

(* Whichever header the R10 uses, frame_excluded (capture.rs) keeps a       *)
(* message that bears identity out of a capture, an ACK of one and an ACK   *)
(* too short to tell included, and lets every other message in, unless the  *)
(* decoder takes its last byte away: for payloads of any length.            *)
THEOREM IdentityTheorem ==
  Spec => [](/\ IdentityTold(Frame)
             /\ msgType \in Compressible => IdentityTold(Compressed))
<1> DEFINE Inv == /\ IdentityTold(Frame)
                  /\ msgType \in Compressible => IdentityTold(Compressed)
<1>1. Sent => Inv
  <2> SUFFICES ASSUME Sent PROVE Inv
    OBVIOUS
  <2>1. msgType \in Types /\ payload \in Seq(Bytes)
    BY SentTypes, Zenon
  <2>2. IdentityTold(Frame)
    <3>1. /\ Header(msgType, payload) \in Seq(Bytes) /\ Len(Header(msgType, payload)) = 4
          /\ TypeIn(Header(msgType, payload)) = msgType
      BY <2>1, HeaderFacts, Zenon
    <3>2. Frame = Framed(Header(msgType, payload), payload)
      BY <2>1, FrameFramed, Zenon DEF Frame
    <3> QED BY <3>1, <3>2, Told, Zenon
  <2>3. ASSUME msgType \in Compressible PROVE IdentityTold(Compressed)
    <3>1. /\ ShortHeader(msgType, payload) \in Seq(Bytes) /\ Len(ShortHeader(msgType, payload)) = 4
          /\ TypeIn(ShortHeader(msgType, payload)) = msgType
      BY <2>1, <2>3, ShortHeaderFacts, Zenon
    <3>2. Compressed = Framed(ShortHeader(msgType, payload), payload)
      BY DEF Compressed, Framed, ShortHeader
    <3> QED BY <3>1, <3>2, Told, Zenon
  <2> QED BY <2>2, <2>3, Zenon
<1> QED BY <1>1, SentKept, PTL

-----------------------------------------------------------------------------
(* A flipped bit. *)

LEMMA XorSymmetric ==
  ASSUME NEW a \in Nibbles, NEW b \in Nibbles
  PROVE  XorNibble[a, b] = XorNibble[b, a]
<1>1. \A i \in 0 .. 3 : XorBit(a, b, i) = XorBit(b, a, i)
  <2> SUFFICES ASSUME NEW i \in 0 .. 3 PROVE XorBit(a, b, i) = XorBit(b, a, i)
    OBVIOUS
  <2> DEFINE x == a \div 2^i
             y == b \div 2^i
  <2>1. a \in Nat /\ b \in Nat
    BY DEF Nibbles
  <2>2. 2^i \in Nat \ {0}
    <3>1. i = 0 \/ i = 1 \/ i = 2 \/ i = 3
      OBVIOUS
    <3>2. 2^0 = 1 /\ 2^1 = 2 /\ 2^2 = 4 /\ 2^3 = 8
      OBVIOUS
    <3>3. 2^i = 1 \/ 2^i = 2 \/ 2^i = 4 \/ 2^i = 8
      BY <3>1, <3>2, Zenon
    <3> QED BY <3>3
  <2>3. x \in Nat /\ y \in Nat
    BY <2>1, <2>2
  <2> HIDE DEF x, y
  <2>4. (x + y) % 2 = (y + x) % 2
    BY <2>3
  <2> QED BY <2>4, Zenon DEF XorBit, x, y
<1>2. XorBit(a, b, 0) = XorBit(b, a, 0) /\ XorBit(a, b, 1) = XorBit(b, a, 1)
      /\ XorBit(a, b, 2) = XorBit(b, a, 2) /\ XorBit(a, b, 3) = XorBit(b, a, 3)
  BY <1>1
<1>3. ASSUME NEW x \in Nibbles, NEW y \in Nibbles
      PROVE  XorNibble[x, y] = XorBit(x, y, 0) + 2 * XorBit(x, y, 1)
                                 + 4 * XorBit(x, y, 2) + 8 * XorBit(x, y, 3)
  BY DEF XorNibble, Nibbles
<1> QED BY <1>2, <1>3, Zenon

LEMMA NibbleCancels ==
  ASSUME NEW a \in Nibbles, NEW b \in Nibbles, NEW c \in Nibbles,
         XorNibble[a, b] = XorNibble[a, c]
  PROVE  b = c
<1>1. XorNibble[a, b] = XorNibble[b, a] /\ XorNibble[a, c] = XorNibble[c, a]
  BY XorSymmetric, Zenon
<1>2. XorNibble[XorNibble[b, a], a] = b /\ XorNibble[XorNibble[c, a], a] = c
  BY XorNibbleFacts, Zenon
<1> QED BY <1>1, <1>2, Zenon

LEMMA WordNibblesType ==
  ASSUME NEW a \in Words
  PROVE  /\ Nibble0(a) \in Nibbles /\ Nibble1(a) \in Nibbles
         /\ Nibble2(a) \in Nibbles /\ Nibble3(a) \in Nibbles
BY WordShifted, NibblesType, Zenon

(* A nibble tells what was added, and what it was added to. *)
LEMMA NibbleTells ==
  ASSUME NEW crc \in Words, NEW m \in Nibbles, NEW n \in Nibbles,
         AddNibble(crc, m) = AddNibble(crc, n)
  PROVE  m = n
<1> DEFINE u == Table[m + 1]
           v == Table[n + 1]
           w == Xor16(crc \div 16, Table[(crc % 16) + 1])
<1>1. u \in Words /\ v \in Words /\ (Nibble3(u) = Nibble3(v) => m = n)
  BY TableFacts, Zenon
<1>2. w \in Words
  <2>1. crc \div 16 \in Words /\ crc % 16 \in Nibbles
    BY WordShifted, Zenon
  <2>2. Table[(crc % 16) + 1] \in Words
    BY <2>1, TableFacts, Zenon
  <2> QED BY <2>1, <2>2, XorType, Zenon
<1>3. Xor16(w, u) = Xor16(w, v)
  BY Zenon DEF AddNibble
<1> HIDE DEF u, v, w
<1>4. /\ Nibble3(Xor16(w, u)) = XorNibble[Nibble3(w), Nibble3(u)]
      /\ Nibble3(Xor16(w, v)) = XorNibble[Nibble3(w), Nibble3(v)]
  BY <1>1, <1>2, XorType, Zenon
<1>5. Nibble3(w) \in Nibbles /\ Nibble3(u) \in Nibbles /\ Nibble3(v) \in Nibbles
  BY <1>1, <1>2, WordNibblesType, Zenon
<1>6. Nibble3(u) = Nibble3(v)
  BY <1>3, <1>4, <1>5, NibbleCancels, Zenon
<1> QED BY <1>1, <1>6, Zenon

LEMMA NibbleKeeps ==
  ASSUME NEW a \in Words, NEW b \in Words, NEW n \in Nibbles,
         AddNibble(a, n) = AddNibble(b, n)
  PROVE  a = b
<1> DEFINE s == a \div 16
           i == a % 16
           t == b \div 16
           j == b % 16
           u == Table[i + 1]
           v == Table[j + 1]
           w == Table[n + 1]
           x == Xor16(s, u)
           y == Xor16(t, v)
<1>1. /\ s \in Words /\ i \in Nibbles /\ Nibble3(s) = 0
      /\ t \in Words /\ j \in Nibbles /\ Nibble3(t) = 0
  BY WordShifted, LowWord, Zenon
<1>2. a = 16 * s + i /\ b = 16 * t + j
  BY DEF Words
<1>3. Xor16(x, w) = Xor16(y, w)
  BY Zenon DEF AddNibble
<1> HIDE DEF s, i, t, j
<1>4. /\ u \in Words /\ v \in Words /\ w \in Words
      /\ (Nibble3(u) = Nibble3(v) => i = j)
  BY <1>1, TableFacts, Zenon
<1> HIDE DEF u, v, w
<1>5. /\ x \in Words /\ Nibble3(x) = XorNibble[0, Nibble3(u)]
      /\ y \in Words /\ Nibble3(y) = XorNibble[0, Nibble3(v)]
  <2>1. x \in Words /\ Nibble3(x) = XorNibble[Nibble3(s), Nibble3(u)]
    BY <1>1, <1>4, XorType, Zenon
  <2>2. y \in Words /\ Nibble3(y) = XorNibble[Nibble3(t), Nibble3(v)]
    BY <1>1, <1>4, XorType, Zenon
  <2> QED BY <1>1, <2>1, <2>2, Zenon
<1>6. Xor16(x, u) = s /\ Xor16(y, v) = t
  BY <1>1, <1>4, XorTwice, Zenon
<1> HIDE DEF x, y
<1>7. x = y
  <2>1. Xor16(Xor16(x, w), w) = x /\ Xor16(Xor16(y, w), w) = y
    BY <1>4, <1>5, XorTwice, Zenon
  <2> QED BY <1>3, <2>1, Zenon
<1>8. Nibble3(u) = Nibble3(v)
  <2>1. Nibble3(u) \in Nibbles /\ Nibble3(v) \in Nibbles
    BY <1>4, WordNibblesType, Zenon
  <2>2. XorNibble[0, Nibble3(u)] = Nibble3(u) /\ XorNibble[0, Nibble3(v)] = Nibble3(v)
    BY <2>1, XorNibbleFacts, Zenon
  <2> QED BY <1>5, <1>7, <2>2, Zenon
<1>9. i = j
  BY <1>4, <1>8, Zenon
<1>10. s = t
  <2>1. u = v
    BY <1>9, Zenon DEF u, v
  <2> QED BY <1>6, <1>7, <2>1, Zenon
<1> QED BY <1>2, <1>9, <1>10, Zenon

(* Two bytes that differ in one of their nibbles, as a byte does from one  *)
(* with a bit flipped.                                                     *)
Near(a, b) ==
  a \in Bytes /\ b \in Bytes /\ a # b /\ (a % 16 = b % 16 \/ a \div 16 = b \div 16)

LEMMA ByteNibbles ==
  ASSUME NEW a \in Bytes
  PROVE  a % 16 \in Nibbles /\ a \div 16 \in Nibbles /\ a = 16 * (a \div 16) + (a % 16)
BY DEF Bytes, Nibbles

LEMMA ByteTells ==
  ASSUME NEW crc \in Words, NEW a, NEW b, Near(a, b)
  PROVE  AddByte(crc, a) # AddByte(crc, b)
<1> SUFFICES ASSUME AddByte(crc, a) = AddByte(crc, b) PROVE FALSE
  OBVIOUS
<1> DEFINE la == a % 16
           ha == a \div 16
           lb == b % 16
           hb == b \div 16
<1>1. a # b /\ (la = lb \/ ha = hb)
  BY Zenon DEF Near
<1>2. /\ la \in Nibbles /\ ha \in Nibbles /\ a = 16 * ha + la
      /\ lb \in Nibbles /\ hb \in Nibbles /\ b = 16 * hb + lb
  BY ByteNibbles, Zenon DEF Near
<1>3. AddNibble(AddNibble(crc, la), ha) = AddNibble(AddNibble(crc, lb), hb)
  BY Zenon DEF AddByte
<1> HIDE DEF la, ha, lb, hb
<1>4. AddNibble(crc, la) \in Words /\ AddNibble(crc, lb) \in Words
  BY <1>2, AddNibbleFacts, Zenon
<1>5. CASE la = lb
  <2>1. ha = hb
    BY <1>2, <1>3, <1>4, <1>5, NibbleTells, Zenon
  <2> QED BY <1>1, <1>2, <1>5, <2>1, Zenon
<1>6. CASE ha = hb
  <2>1. AddNibble(crc, la) = AddNibble(crc, lb)
    BY <1>2, <1>3, <1>4, <1>6, NibbleKeeps, Zenon
  <2>2. la = lb
    BY <1>2, <2>1, NibbleTells, Zenon
  <2> QED BY <1>1, <1>2, <1>6, <2>2, Zenon
<1> QED BY <1>1, <1>5, <1>6, Zenon

LEMMA ByteKeeps ==
  ASSUME NEW x \in Words, NEW y \in Words, NEW byte \in Bytes,
         AddByte(x, byte) = AddByte(y, byte)
  PROVE  x = y
<1> DEFINE lo == byte % 16
           hi == byte \div 16
<1>1. lo \in Nibbles /\ hi \in Nibbles
  BY ByteNibbles, Zenon
<1>2. AddNibble(AddNibble(x, lo), hi) = AddNibble(AddNibble(y, lo), hi)
  BY Zenon DEF AddByte
<1> HIDE DEF lo, hi
<1>3. AddNibble(x, lo) \in Words /\ AddNibble(y, lo) \in Words
  BY <1>1, AddNibbleFacts, Zenon
<1>4. AddNibble(x, lo) = AddNibble(y, lo)
  BY <1>1, <1>2, <1>3, NibbleKeeps, Zenon
<1> QED BY <1>1, <1>4, NibbleKeeps, Zenon

(* The checksum tells two messages apart that differ in one byte only.     *)
OneChanged(s, t, j) ==
  /\ s \in Seq(Bytes) /\ t \in Seq(Bytes) /\ Len(s) = Len(t) /\ j \in 1 .. Len(s)
  /\ Near(s[j], t[j])
  /\ \A k \in 1 .. Len(s) : k # j => s[k] = t[k]

LEMMA CrcTells ==
  ASSUME NEW s, NEW t, NEW j, OneChanged(s, t, j)
  PROVE  Crc(s) # Crc(t)
<1> DEFINE n == Len(s)
<1>1. /\ s \in Seq(Bytes) /\ t \in Seq(Bytes) /\ n = Len(t) /\ n \in Nat /\ j \in 1 .. n
      /\ Near(s[j], t[j]) /\ \A k \in 1 .. n : k # j => s[k] = t[k]
  BY DEF OneChanged
<1>2. PICK f : /\ f \in [0 .. Len(s) -> Words] /\ Crc(s) = f[Len(s)]
               /\ f[0] = 0 /\ \A i \in 1 .. Len(s) : f[i] = AddByte(f[i - 1], s[i])
  BY <1>1, CrcSteps
<1>3. PICK h : /\ h \in [0 .. Len(t) -> Words] /\ Crc(t) = h[Len(t)]
               /\ h[0] = 0 /\ \A i \in 1 .. Len(t) : h[i] = AddByte(h[i - 1], t[i])
  BY <1>1, CrcSteps
<1> DEFINE T == {i \in Nat : i <= n => (f[i] = h[i] <=> i < j)}
<1>4. 0 \in T
  BY <1>1, <1>2, <1>3
<1>5. ASSUME NEW i \in T PROVE i + 1 \in T
  <2> SUFFICES ASSUME i + 1 <= n PROVE f[i + 1] = h[i + 1] <=> i + 1 < j
    OBVIOUS
  <2>1. /\ i + 1 \in 1 .. n /\ i \in 0 .. n /\ (i + 1) - 1 = i /\ (f[i] = h[i] <=> i < j)
    BY <1>1
  <2>2. f[i + 1] = AddByte(f[i], s[i + 1]) /\ f[i] \in Words
    BY <1>2, <2>1
  <2>3. h[i + 1] = AddByte(h[i], t[i + 1]) /\ h[i] \in Words
    BY <1>1, <1>3, <2>1
  <2>4. s[i + 1] \in Bytes
    BY <1>1, <2>1
  <2>5. CASE i + 1 < j
    <3>1. i < j /\ i + 1 # j
      BY <1>1, <2>1, <2>5
    <3>2. f[i] = h[i] /\ s[i + 1] = t[i + 1]
      BY <1>1, <2>1, <3>1, Zenon
    <3> QED BY <2>2, <2>3, <2>5, <3>2, Zenon
  <2>6. CASE i + 1 = j
    <3>1. f[i] = h[i] /\ ~(i + 1 < j)
      BY <1>1, <2>1, <2>6
    <3>2. Near(s[i + 1], t[i + 1])
      BY <1>1, <2>6, Zenon
    <3> QED BY <2>2, <2>3, <3>1, <3>2, ByteTells, Zenon
  <2>7. CASE i + 1 > j
    <3>1. ~(i < j) /\ i + 1 # j /\ ~(i + 1 < j)
      BY <1>1, <2>1, <2>7
    <3>2. f[i] # h[i] /\ s[i + 1] = t[i + 1]
      BY <1>1, <2>1, <3>1, Zenon
    <3> QED BY <2>2, <2>3, <2>4, <3>1, <3>2, ByteKeeps, Zenon
  <2>8. i + 1 < j \/ i + 1 = j \/ i + 1 > j
    BY <1>1, <2>1
  <2> QED BY <2>5, <2>6, <2>7, <2>8, Zenon
<1>6. f[n] # h[n]
  <2>1. T \in SUBSET Nat
    OBVIOUS
  <2>2. n \in T
    <3> HIDE DEF T
    <3> QED BY <1>1, <1>4, <1>5, <2>1, AllNaturals
  <2>3. n <= n /\ ~(n < j)
    BY <1>1
  <2> QED BY <2>2, <2>3
<1> QED BY <1>1, <1>2, <1>3, <1>6, Zenon

LEMMA SameBytes ==
  ASSUME NEW a \in Bytes, NEW b \in Bytes, NEW c \in Bytes, NEW d \in Bytes,
         a + 256 * b = c + 256 * d
  PROVE  a = c /\ b = d
BY DEF Bytes

(* A frame that is damaged in one byte is rejected. *)
LEMMA ChangedRejected ==
  ASSUME NEW s, NEW t, NEW j, OneChanged(s, t, j), Len(s) >= 6 => CrcMatches(s)
  PROVE  ParseFrame(t) = Rejected
<1> DEFINE n == Len(s)
<1>1. /\ s \in Seq(Bytes) /\ t \in Seq(Bytes) /\ n = Len(t) /\ n \in Nat /\ j \in 1 .. n
      /\ Near(s[j], t[j]) /\ \A k \in 1 .. n : k # j => s[k] = t[k]
  BY DEF OneChanged
<1>2. CASE ~(n >= 6)
  <2>1. Len(t) < 6
    BY <1>1, <1>2
  <2> QED BY <2>1, Zenon DEF ParseFrame
<1>3. CASE n >= 6
  <2> DEFINE m == n - 2
             a == SubSeq(s, 1, m)
             b == SubSeq(t, 1, m)
  <2>1. m \in Nat /\ m + 2 = n /\ m + 1 \in 1 .. n /\ m + 2 \in 1 .. n /\ n - 1 = m + 1
    BY <1>1, <1>3
  <2>2. \A k \in 1 .. m : s[k] \in Bytes /\ t[k] \in Bytes
    <3>1. \A k \in 1 .. m : k \in 1 .. n
      BY <2>1
    <3> QED BY <1>1, <3>1, ElementOfSeq, Zenon
  <2>3. a \in Seq(Bytes) /\ Len(a) = m /\ \A k \in 1 .. m : a[k] = s[k]
    BY <2>1, <2>2, SubSeqProperties
  <2>4. b \in Seq(Bytes) /\ Len(b) = m /\ \A k \in 1 .. m : b[k] = t[k]
    BY <2>1, <2>2, SubSeqProperties
  <2>5. s[m + 1] + 256 * s[m + 2] = Crc(a)
    <3>1. U16(s, n - 1) = Crc(a)
      BY <1>3, Zenon DEF CrcMatches
    <3>2. U16(s, m + 1) = s[m + 1] + 256 * s[m + 2]
      BY <2>1 DEF U16
    <3> QED BY <2>1, <3>1, <3>2, Zenon
  <2>6. CrcMatches(t) <=> t[m + 1] + 256 * t[m + 2] = Crc(b)
    <3>1. CrcMatches(t) <=> U16(t, n - 1) = Crc(b)
      BY <1>1, Zenon DEF CrcMatches
    <3>2. U16(t, m + 1) = t[m + 1] + 256 * t[m + 2]
      BY <2>1 DEF U16
    <3> QED BY <2>1, <3>1, <3>2, Zenon
  <2> HIDE DEF a, b, m
  <2>7. CASE j \in 1 .. m
    <3>1. OneChanged(a, b, j)
      <4>1. Near(a[j], b[j])
        BY <1>1, <2>3, <2>4, <2>7, Zenon
      <4>2. \A k \in 1 .. m : k # j => a[k] = b[k]
        <5>1. \A k \in 1 .. m : k \in 1 .. n
          BY <2>1
        <5> QED BY <1>1, <2>3, <2>4, <5>1, Zenon
      <4> QED BY <2>3, <2>4, <2>7, <4>1, <4>2, Zenon DEF OneChanged
    <3>2. Crc(a) # Crc(b)
      BY <3>1, CrcTells, Zenon
    <3>3. m + 1 # j /\ m + 2 # j
      BY <2>1, <2>7
    <3>4. s[m + 1] = t[m + 1] /\ s[m + 2] = t[m + 2]
      BY <1>1, <2>1, <3>3, Zenon
    <3>5. ~CrcMatches(t)
      BY <2>5, <2>6, <3>2, <3>4, Zenon
    <3> QED BY <3>5, Zenon DEF ParseFrame
  <2>8. CASE j = m + 1 \/ j = m + 2
    <3>1. a = b
      <4>1. \A k \in 1 .. m : a[k] = b[k]
        <5>1. \A k \in 1 .. m : k \in 1 .. n /\ k # j
          BY <2>1, <2>8
        <5> QED BY <1>1, <2>3, <2>4, <5>1, Zenon
      <4> QED BY <2>3, <2>4, <4>1, SeqEqual
    <3>2. /\ s[m + 1] \in Bytes /\ s[m + 2] \in Bytes
          /\ t[m + 1] \in Bytes /\ t[m + 2] \in Bytes
      BY <1>1, <2>1, ElementOfSeq, Zenon
    <3>3. s[m + 1] # t[m + 1] \/ s[m + 2] # t[m + 2]
      BY <1>1, <2>8, Zenon DEF Near
    <3>4. s[m + 1] + 256 * s[m + 2] # t[m + 1] + 256 * t[m + 2]
      BY <3>2, <3>3, SameBytes
    <3>5. ~CrcMatches(t)
      BY <2>5, <2>6, <3>1, <3>4, Zenon
    <3> QED BY <3>5, Zenon DEF ParseFrame
  <2> QED BY <1>1, <2>1, <2>7, <2>8
<1> QED BY <1>2, <1>3

(* What the decoder may take away leaves one changed byte, if it is not 0. *)
LEMMA StrippedChanged ==
  ASSUME NEW s, NEW t, NEW j, OneChanged(s, t, j), s[j] # 0, t[j] # 0
  PROVE  OneChanged(Stripped(s), Stripped(t), j)
<1> DEFINE n == Len(s)
<1>1. /\ s \in Seq(Bytes) /\ t \in Seq(Bytes) /\ n = Len(t) /\ n \in Nat /\ j \in 1 .. n
      /\ Near(s[j], t[j]) /\ \A k \in 1 .. n : k # j => s[k] = t[k]
  BY DEF OneChanged
<1>2. n \in 1 .. n /\ s # <<>> /\ t # <<>>
  BY <1>1
<1>3. s[n] = 0 <=> t[n] = 0
  BY <1>1, <1>2, Zenon
<1>4. EndsInZero(s) <=> EndsInZero(t)
  BY <1>1, <1>2, <1>3, Zenon DEF EndsInZero
<1>5. CASE ~EndsInZero(s)
  BY <1>4, <1>5, Zenon DEF Stripped
<1>6. CASE EndsInZero(s)
  <2> DEFINE m == n - 1
             a == SubSeq(s, 1, m)
             b == SubSeq(t, 1, m)
  <2>1. Stripped(s) = a /\ Stripped(t) = b
    BY <1>1, <1>4, <1>6, Zenon DEF Stripped
  <2>2. j # n
    BY <1>6, Zenon DEF EndsInZero
  <2>3. m \in Nat /\ j \in 1 .. m /\ \A k \in 1 .. m : k \in 1 .. n
    BY <1>1, <2>2
  <2>4. \A k \in 1 .. m : s[k] \in Bytes /\ t[k] \in Bytes
    BY <1>1, <2>3, ElementOfSeq, Zenon
  <2>5. a \in Seq(Bytes) /\ Len(a) = m /\ \A k \in 1 .. m : a[k] = s[k]
    BY <2>3, <2>4, SubSeqProperties
  <2>6. b \in Seq(Bytes) /\ Len(b) = m /\ \A k \in 1 .. m : b[k] = t[k]
    BY <2>3, <2>4, SubSeqProperties
  <2> HIDE DEF a, b, m
  <2>7. OneChanged(a, b, j)
    BY <1>1, <2>3, <2>5, <2>6, Zenon DEF OneChanged
  <2> QED BY <2>1, <2>7, Zenon
<1> QED BY <1>5, <1>6, Zenon

(* So a frame damaged in a byte that stays other than 0 is rejected.       *)
LEMMA FrameDamaged ==
  ASSUME NEW head \in Seq(Bytes), Len(head) = 4, NEW data \in Seq(Bytes),
         NEW t, NEW j, OneChanged(Framed(head, data), t, j),
         Framed(head, data)[j] # 0, t[j] # 0
  PROVE  ParseCobsFrame(StandardEncode(t)) = Rejected
<1> DEFINE s == Framed(head, data)
           u == Stripped(s)
<1>1. ParseFrame(u) = Stripping(s, TypeIn(head), data)
  BY StrippedParsed, Zenon
<1>2. OneChanged(u, Stripped(t), j) /\ t \in Seq(Bytes) /\ s \in Seq(Bytes)
  <2>1. OneChanged(u, Stripped(t), j)
    BY StrippedChanged, Zenon
  <2>2. t \in Seq(Bytes) /\ s \in Seq(Bytes)
    BY Zenon DEF OneChanged
  <2> QED BY <2>1, <2>2, Zenon
<1>3. t \in Seq(Nat)
  <2>1. Bytes \subseteq Nat
    BY DEF Bytes
  <2> QED BY <1>2, <2>1, SeqMonotonic, Zenon
<1>4. Len(u) >= 6 => CrcMatches(u)
  <2> SUFFICES ASSUME Len(u) >= 6 PROVE CrcMatches(u)
    OBVIOUS
  <2>1. CASE ParseFrame(u) # Rejected
    BY <2>1, Zenon DEF ParseFrame
  <2>2. CASE ParseFrame(u) = Rejected
    <3>1. /\ \A type, d : Parsed(type, d).ok = TRUE
          /\ Rejected.ok = FALSE
      BY DEF Parsed, Rejected
    <3>2. \A type, d : Parsed(type, d) # Rejected
      BY <3>1, Zenon
    <3>3. EndsInZero(s) /\ data = <<>>
      BY <1>1, <2>2, <3>2, Zenon DEF Stripping
    <3>4. Len(u) = 5
      <4> DEFINE covered == head \o data
                 sum == LittleEndian(Crc(covered), 2)
      <4>1. covered \in Seq(Bytes) /\ Crc(covered) \in Words /\ s = covered \o sum
        BY FramedFacts, Zenon DEF Framed
      <4>2. sum \in Seq(Bytes) /\ Len(sum) = 2
        BY <4>1, WordShifted, TwoBytes, Zenon
      <4>3. Len(covered) = 4
        BY <3>3, ConcatProperties
      <4> HIDE DEF covered, sum
      <4>4. Len(s) = 6
        <5>1. Len(covered \o sum) = Len(covered) + Len(sum)
          BY <4>1, <4>2, ConcatProperties, Zenon
        <5> QED BY <4>1, <4>2, <4>3, <5>1
      <4>5. u = SubSeq(s, 1, Len(s) - 1)
        BY <3>3, Zenon DEF Stripped
      <4> HIDE DEF s, u
      <4>6. Len(SubSeq(s, 1, 5)) = 5
        BY <1>2, <4>4
      <4> QED BY <4>4, <4>5, <4>6
    <3> HIDE DEF u
    <3> QED BY <3>4
  <2> QED BY <2>1, <2>2, Zenon
<1>5. ParseFrame(Stripped(t)) = Rejected
  BY <1>2, <1>4, ChangedRejected, Zenon
<1>6. Decode(StandardEncode(t)) = [ok |-> TRUE, out |-> Stripped(t)]
  BY <1>3, StandardDecoded, Zenon
<1>7. /\ Decode(StandardEncode(t)).ok = TRUE
      /\ Decode(StandardEncode(t)).out = Stripped(t)
  BY <1>6
<1> QED BY <1>5, <1>7, Zenon DEF ParseCobsFrame

(* Two sequences that differ in one place.                                 *)
Differ(x, y, p, a, b) ==
  /\ x \in Seq(Nat) /\ y \in Seq(Nat) /\ Len(x) = Len(y) /\ p \in 1 .. Len(x)
  /\ x[p] = a /\ y[p] = b
  /\ \A k \in 1 .. Len(x) : k # p => x[k] = y[k]

With(x, p, b) == [x EXCEPT ![p] = b]

LEMMA DifferWith ==
  ASSUME NEW x, NEW y, NEW p, NEW a, NEW b, Differ(x, y, p, a, b)
  PROVE  y = With(x, p, b) /\ p \in DOMAIN x /\ x[p] = a
<1>1. /\ x \in Seq(Nat) /\ y \in Seq(Nat) /\ Len(x) = Len(y) /\ p \in 1 .. Len(x)
      /\ x[p] = a /\ y[p] = b /\ \A k \in 1 .. Len(x) : k # p => x[k] = y[k]
  BY DEF Differ
<1>2. b \in Nat
  BY <1>1
<1> DEFINE z == [x EXCEPT ![p] = b]
<1>3. /\ z \in Seq(Nat) /\ Len(z) = Len(x)
      /\ \A k \in 1 .. Len(x) : z[k] = IF k = p THEN b ELSE x[k]
  BY <1>1, <1>2, ExceptSeq
<1> HIDE DEF z
<1>4. \A k \in 1 .. Len(y) : y[k] = z[k]
  BY <1>1, <1>3, Zenon
<1>5. y = z
  BY <1>1, <1>3, <1>4, SeqEqual, Zenon
<1>6. DOMAIN x = 1 .. Len(x)
  BY <1>1, LenProperties
<1> QED BY <1>1, <1>5, <1>6, Zenon DEF z, With

LEMMA DifferLeft ==
  ASSUME NEW x, NEW y, NEW p, NEW a, NEW b, Differ(x, y, p, a, b), NEW w \in Seq(Nat)
  PROVE  Differ(x \o w, y \o w, p, a, b)
<1> DEFINE u == x \o w
           v == y \o w
<1>1. /\ x \in Seq(Nat) /\ y \in Seq(Nat) /\ Len(x) = Len(y) /\ p \in 1 .. Len(x)
      /\ x[p] = a /\ y[p] = b /\ \A k \in 1 .. Len(x) : k # p => x[k] = y[k]
  BY DEF Differ
<1>2. /\ u \in Seq(Nat) /\ Len(u) = Len(x) + Len(w)
      /\ \A k \in 1 .. Len(x) + Len(w) : u[k] = IF k <= Len(x) THEN x[k] ELSE w[k - Len(x)]
  BY <1>1, ConcatProperties, Zenon
<1>3. /\ v \in Seq(Nat) /\ Len(v) = Len(y) + Len(w)
      /\ \A k \in 1 .. Len(y) + Len(w) : v[k] = IF k <= Len(y) THEN y[k] ELSE w[k - Len(y)]
  BY <1>1, ConcatProperties, Zenon
<1> HIDE DEF u, v
<1>4. Len(x) \in Nat /\ Len(w) \in Nat
  BY <1>1
<1>5. p \in 1 .. Len(x) + Len(w) /\ p <= Len(x)
  BY <1>1, <1>4
<1>6. \A k \in 1 .. Len(x) + Len(w) : k <= Len(x) => k \in 1 .. Len(x)
  BY <1>4
<1>7. u[p] = a /\ v[p] = b
  BY <1>1, <1>2, <1>3, <1>5, Zenon
<1>8. \A k \in 1 .. Len(u) : k # p => u[k] = v[k]
  BY <1>1, <1>2, <1>3, <1>6, Zenon
<1>9. Differ(u, v, p, a, b)
  BY <1>1, <1>2, <1>3, <1>5, <1>7, <1>8, Zenon DEF Differ
<1> QED BY <1>9, Zenon DEF u, v

LEMMA DifferRight ==
  ASSUME NEW x, NEW y, NEW p, NEW a, NEW b, Differ(x, y, p, a, b), NEW w \in Seq(Nat)
  PROVE  Differ(w \o x, w \o y, Len(w) + p, a, b)
<1> DEFINE u == w \o x
           v == w \o y
           q == Len(w) + p
<1>1. /\ x \in Seq(Nat) /\ y \in Seq(Nat) /\ Len(x) = Len(y) /\ p \in 1 .. Len(x)
      /\ x[p] = a /\ y[p] = b /\ \A k \in 1 .. Len(x) : k # p => x[k] = y[k]
  BY DEF Differ
<1>2. /\ u \in Seq(Nat) /\ Len(u) = Len(w) + Len(x)
      /\ \A k \in 1 .. Len(w) + Len(x) : u[k] = IF k <= Len(w) THEN w[k] ELSE x[k - Len(w)]
  BY <1>1, ConcatProperties, Zenon
<1>3. /\ v \in Seq(Nat) /\ Len(v) = Len(w) + Len(y)
      /\ \A k \in 1 .. Len(w) + Len(y) : v[k] = IF k <= Len(w) THEN w[k] ELSE y[k - Len(w)]
  BY <1>1, ConcatProperties, Zenon
<1> HIDE DEF u, v
<1>4. Len(x) \in Nat /\ Len(w) \in Nat /\ p \in 1 .. Len(x)
  BY <1>1
<1>5. q \in 1 .. Len(w) + Len(x) /\ ~(q <= Len(w)) /\ q - Len(w) = p
  BY <1>4
<1>6. \A k \in 1 .. Len(w) + Len(x) :
        ~(k <= Len(w)) => k - Len(w) \in 1 .. Len(x) /\ (k # q => k - Len(w) # p)
  BY <1>4
<1> HIDE DEF q
<1>7. u[q] = a /\ v[q] = b
  BY <1>1, <1>2, <1>3, <1>5, Zenon
<1>8. \A k \in 1 .. Len(u) : k # q => u[k] = v[k]
  BY <1>1, <1>2, <1>3, <1>6, Zenon
<1>9. Differ(u, v, q, a, b)
  BY <1>1, <1>2, <1>3, <1>5, <1>7, <1>8, Zenon DEF Differ
<1> QED BY <1>9, Zenon DEF u, v, q

(* Where one byte changes and stays other than 0, the blocks begin and end *)
(* where they did.                                                         *)
LEMMA SameRuns ==
  ASSUME NEW d \in Seq(Nat), NEW c \in Seq(Nat), Len(d) = Len(c),
         \A k \in 1 .. Len(d) : d[k] = 0 <=> c[k] = 0, NEW i \in 1 .. Len(d)
  PROVE  Run(c, i) = Run(d, i) /\ StandardNext(c, i) = StandardNext(d, i)
<1>1. \A k \in i .. Len(d) : k \in 1 .. Len(d)
  OBVIOUS
<1>2. {k \in i .. Len(d) : d[k] = 0} = {k \in i .. Len(c) : c[k] = 0}
  BY <1>1, Zenon
<1>3. Run(c, i) = Run(d, i)
  BY <1>2, Zenon DEF Run
<1> QED BY <1>3, Zenon DEF StandardNext

LEMMA BlockSame ==
  ASSUME NEW d \in Seq(Nat), NEW c \in Seq(Nat), Len(d) = Len(c), NEW i \in 1 .. Len(d),
         Run(c, i) = Run(d, i), \A k \in i .. i + Run(d, i) - 1 : d[k] = c[k]
  PROVE  Block(c, i) = Block(d, i)
<1> DEFINE m == i + Run(d, i) - 1
           a == SubSeq(d, i, m)
           b == SubSeq(c, i, m)
<1>1. Run(d, i) \in Nat /\ i + Run(d, i) <= Len(d) + 1 /\ Len(d) \in Nat
  BY RunFacts, CobsAssumption
<1>2. m \in Int /\ i \in Int /\ \A k \in i .. m : d[k] \in Nat /\ c[k] \in Nat
  BY <1>1
<1>3. \A k \in 1 .. m - i + 1 : i + k - 1 \in i .. m
  BY <1>2
<1> HIDE DEF m
<1>4. /\ a \in Seq(Nat) /\ Len(a) = IF i <= m THEN m - i + 1 ELSE 0
      /\ \A k \in 1 .. m - i + 1 : a[k] = d[i + k - 1]
  BY <1>2, SubSeqProperties
<1>5. /\ b \in Seq(Nat) /\ Len(b) = IF i <= m THEN m - i + 1 ELSE 0
      /\ \A k \in 1 .. m - i + 1 : b[k] = c[i + k - 1]
  BY <1>2, SubSeqProperties
<1> HIDE DEF a, b
<1>6. \A k \in 1 .. m - i + 1 : a[k] = b[k]
  BY <1>3, <1>4, <1>5, Zenon DEF m
<1>7. \A k \in 1 .. Len(a) : k \in 1 .. m - i + 1
  BY <1>2, <1>4
<1>8. a = b
  BY <1>4, <1>5, <1>6, <1>7, SeqEqual
<1> QED BY <1>8, Zenon DEF Block, BlockCode, a, b, m

LEMMA BlockDiffers ==
  ASSUME NEW d, NEW c, NEW j, Differ(d, c, j, d[j], c[j]), NEW i \in 1 .. Len(d),
         Run(c, i) = Run(d, i), j \in i .. i + Run(d, i) - 1
  PROVE  \E p : Differ(Block(d, i), Block(c, i), p, d[j], c[j])
<1> DEFINE m == i + Run(d, i) - 1
           a == SubSeq(d, i, m)
           b == SubSeq(c, i, m)
           q == j - i + 1
<1>1. /\ d \in Seq(Nat) /\ c \in Seq(Nat) /\ Len(d) = Len(c) /\ j \in 1 .. Len(d)
      /\ \A k \in 1 .. Len(d) : k # j => d[k] = c[k]
  BY Zenon DEF Differ
<1>2. Run(d, i) \in Nat /\ i + Run(d, i) <= Len(d) + 1 /\ Len(d) \in Nat
  BY <1>1, RunFacts, CobsAssumption
<1>3. m \in Int /\ i \in Int /\ i <= m /\ j \in i .. m /\ \A k \in i .. m : k \in 1 .. Len(d)
  BY <1>2
<1>4. \A k \in i .. m : d[k] \in Nat /\ c[k] \in Nat
  BY <1>1, <1>3, ElementOfSeq, Zenon
<1> HIDE DEF m
<1>5. /\ a \in Seq(Nat) /\ Len(a) = m - i + 1
      /\ \A k \in 1 .. m - i + 1 : a[k] = d[i + k - 1]
  BY <1>3, <1>4, SubSeqProperties
<1>6. /\ b \in Seq(Nat) /\ Len(b) = m - i + 1
      /\ \A k \in 1 .. m - i + 1 : b[k] = c[i + k - 1]
  BY <1>3, <1>4, SubSeqProperties
<1>7. /\ q \in 1 .. m - i + 1 /\ i + q - 1 = j
      /\ \A k \in 1 .. m - i + 1 : i + k - 1 \in i .. m /\ (k # q => i + k - 1 # j)
  BY <1>3
<1> HIDE DEF a, b, q
<1>8. a[q] = d[j] /\ b[q] = c[j]
  BY <1>5, <1>6, <1>7, Zenon
<1>9. \A k \in 1 .. m - i + 1 : k # q => a[k] = b[k]
  BY <1>1, <1>3, <1>5, <1>6, <1>7, Zenon
<1>10. Differ(a, b, q, d[j], c[j])
  BY <1>5, <1>6, <1>7, <1>8, <1>9, Zenon DEF Differ
<1>11. <<BlockCode(d, i)>> \in Seq(Nat) /\ BlockCode(c, i) = BlockCode(d, i)
  BY <1>2 DEF BlockCode
<1>12. Differ(<<BlockCode(d, i)>> \o a, <<BlockCode(d, i)>> \o b,
              Len(<<BlockCode(d, i)>>) + q, d[j], c[j])
  BY <1>10, <1>11, DifferRight, Zenon
<1>13. /\ Block(d, i) = <<BlockCode(d, i)>> \o a
       /\ Block(c, i) = <<BlockCode(d, i)>> \o b
  BY <1>11, Zenon DEF Block, a, b, m
<1> QED BY <1>12, <1>13, Zenon

(* A byte other than 0 is one byte of what the standard algorithm writes.  *)
LEMMA OneByteWritten ==
  ASSUME NEW s, NEW t, NEW j, Differ(s, t, j, s[j], t[j]), s[j] # 0, t[j] # 0
  PROVE  \E p : Differ(StandardEncode(s), StandardEncode(t), p, s[j], t[j])
<1> DEFINE d == Append(s, 0)
           c == Append(t, 0)
           n == Len(d)
<1>1. /\ s \in Seq(Nat) /\ t \in Seq(Nat) /\ Len(s) = Len(t) /\ j \in 1 .. Len(s)
      /\ \A k \in 1 .. Len(s) : k # j => s[k] = t[k]
  BY Zenon DEF Differ
<1>0. ASSUME NEW w \in Seq(Nat)
      PROVE  /\ Append(w, 0) \in Seq(Nat) /\ Len(Append(w, 0)) = Len(w) + 1
             /\ Append(w, 0)[Len(w) + 1] = 0
             /\ \A k \in 1 .. Len(w) : Append(w, 0)[k] = w[k]
  BY AppendProperties
<1>2. /\ d \in Seq(Nat) /\ Len(d) = Len(s) + 1 /\ d[Len(s) + 1] = 0
      /\ \A k \in 1 .. Len(s) : d[k] = s[k]
  BY <1>0, <1>1, Zenon
<1>3. /\ c \in Seq(Nat) /\ Len(c) = Len(t) + 1 /\ c[Len(t) + 1] = 0
      /\ \A k \in 1 .. Len(t) : c[k] = t[k]
  BY <1>0, <1>1, Zenon
<1>4. PICK f : /\ StandardEncode(s) = f[1]
               /\ Chain(d, f, [i \in 1 .. Len(s) + 1 |-> StandardNext(d, i)])
  BY <1>1, StandardSteps, Zenon
<1>5. PICK h : /\ StandardEncode(t) = h[1]
               /\ Chain(c, h, [i \in 1 .. Len(t) + 1 |-> StandardNext(c, i)])
  BY <1>1, StandardSteps, Zenon
<1> HIDE DEF d, c
<1>6. /\ n \in Nat /\ Len(c) = n /\ j \in 1 .. n /\ d[j] = s[j] /\ c[j] = t[j]
      /\ d # <<>> /\ d[n] = 0
  BY <1>1, <1>2, <1>3
<1>7. \A k \in 1 .. n : (k # j => d[k] = c[k]) /\ (d[k] = 0 <=> c[k] = 0)
  <2> SUFFICES ASSUME NEW k \in 1 .. n
               PROVE  (k # j => d[k] = c[k]) /\ (d[k] = 0 <=> c[k] = 0)
    OBVIOUS
  <2>1. CASE k \in 1 .. Len(s)
    BY <1>1, <1>2, <1>3, <2>1, Zenon
  <2>2. CASE k = Len(s) + 1
    <3>1. k # j
      BY <1>1, <2>2
    <3> QED BY <1>1, <1>2, <1>3, <2>2, <3>1, Zenon
  <2>3. k \in 1 .. Len(s) \/ k = Len(s) + 1
    <3>1. s \in Seq(Nat) /\ n = Len(s) + 1
      BY <1>1, <1>2, Zenon
    <3>2. Len(s) \in Nat
      BY <3>1
    <3> HIDE DEF n
    <3> QED BY <3>1, <3>2
  <2> QED BY <2>1, <2>2, <2>3, Zenon
<1>8. Differ(d, c, j, d[j], c[j])
  BY <1>2, <1>3, <1>6, <1>7, Zenon DEF Differ
<1>9. EndsInZero(d)
  BY <1>6, Zenon DEF EndsInZero
<1>10. ASSUME NEW i \in 1 .. n
       PROVE  /\ Run(c, i) = Run(d, i) /\ StandardNext(c, i) = StandardNext(d, i)
              /\ f[i] = Block(d, i) \o f[StandardNext(d, i)]
              /\ h[i] = Block(c, i) \o h[StandardNext(d, i)]
  <2>1. Run(c, i) = Run(d, i) /\ StandardNext(c, i) = StandardNext(d, i)
    BY <1>2, <1>3, <1>6, <1>7, SameRuns, Zenon
  <2>2. i \in 1 .. Len(s) + 1 /\ i \in 1 .. Len(t) + 1 /\ i \in 1 .. Len(c)
    BY <1>1, <1>2, <1>6
  <2>3. f[i] = Block(d, i) \o f[StandardNext(d, i)]
    BY <1>4, <2>2, Zenon DEF Chain
  <2>4. h[i] = Block(c, i) \o h[StandardNext(c, i)]
    BY <1>5, <2>2, Zenon DEF Chain
  <2> QED BY <2>1, <2>3, <2>4, Zenon
<1>11. \A i \in 1 .. n + 1 : f[i] \in Seq(Nat) /\ h[i] \in Seq(Nat)
  <2>1. \A i \in 1 .. Len(d) + 1 : f[i] \in Seq(Nat)
    BY <1>2, <1>4, ChainWritten, Zenon
  <2>2. \A i \in 1 .. Len(c) + 1 : h[i] \in Seq(Nat)
    BY <1>3, <1>5, ChainWritten, Zenon
  <2> QED BY <1>6, <2>1, <2>2, Zenon
<1> DEFINE Good(i) == /\ i > j => h[i] = f[i]
                      /\ i <= j => \E p : Differ(f[i], h[i], p, d[j], c[j])
           T == {i \in 1 .. n + 1 : Good(i)}
<1>12. n + 1 \in T
  <2>1. f[n + 1] = <<>> /\ h[n + 1] = <<>>
    BY <1>4, <1>5, <1>6, Zenon DEF Chain
  <2>2. n + 1 \in 1 .. n + 1 /\ ~(n + 1 <= j)
    BY <1>6
  <2> QED BY <2>1, <2>2, Zenon
<1>13. ASSUME NEW i \in 1 .. n, \A k \in i + 1 .. n + 1 : k \in T PROVE i \in T
  <2> DEFINE q == StandardNext(d, i)
             r == Run(d, i)
  <2>1. q \in i + 1 .. n + 1 /\ r \in Nat /\ i + r <= n
        /\ (d[i + r] = 0 \/ q = i + r) /\ q <= i + r + 1 /\ q >= i + r
    <3>1. q \in i + 1 .. n + 1 /\ i + r <= n /\ r \in 0 .. MaxRun
          /\ (r # MaxRun => d[i + r] = 0)
      BY <1>2, <1>9, StandardNextFacts, Zenon
    <3>2. q = IF r = MaxRun THEN i + r ELSE i + r + 1
      BY Zenon DEF StandardNext
    <3> HIDE DEF q, r
    <3> QED BY <3>1, <3>2, CobsAssumption
  <2>2. /\ Run(c, i) = r
        /\ f[i] = Block(d, i) \o f[q] /\ h[i] = Block(c, i) \o h[q]
        /\ Good(q) /\ f[q] \in Seq(Nat) /\ h[q] \in Seq(Nat)
    <3>1. q \in 1 .. n + 1
      BY <2>1
    <3> HIDE DEF Good
    <3>2. Good(q)
      BY <1>13, <2>1, Zenon
    <3> QED BY <1>10, <1>11, <3>1, <3>2, Zenon
  <2>3. Block(d, i) \in Seq(Nat) /\ Block(c, i) \in Seq(Nat)
    <3>1. Block(d, i) \in Seq(Nat \ {0}) /\ Block(c, i) \in Seq(Nat \ {0})
      BY <1>2, <1>3, <1>6, BlockFacts, Zenon
    <3>2. Nat \ {0} \subseteq Nat
      OBVIOUS
    <3> QED BY <3>1, <3>2, SeqMonotonic, Zenon
  <2>4. ASSUME j \notin i .. i + r - 1 PROVE Block(c, i) = Block(d, i)
    <3>1. \A k \in i .. i + r - 1 : k \in 1 .. n /\ k # j
      BY <2>1, <2>4
    <3>2. \A k \in i .. i + r - 1 : d[k] = c[k]
      BY <1>7, <3>1, Zenon
    <3> QED BY <1>2, <1>3, <1>6, <2>2, <3>2, BlockSame, Zenon
  <2> HIDE DEF q, r
  <2>5. CASE i > j
    <3>1. j \notin i .. i + r - 1 /\ q > j /\ ~(i <= j)
      BY <1>6, <2>1, <2>5
    <3>2. h[i] = f[i]
      BY <2>2, <2>4, <3>1, Zenon
    <3> QED BY <1>6, <3>1, <3>2
  <2>6. CASE i <= j /\ j < q
    <3>1. i + r # j \/ q = i + r
      BY <1>6, <2>1
    <3>2. j \in i .. i + r - 1 /\ q > j /\ ~(i > j)
      BY <1>6, <2>1, <2>6, <3>1
    <3>3. PICK p : Differ(Block(d, i), Block(c, i), p, d[j], c[j])
      BY <1>8, <2>2, <3>2, BlockDiffers, Zenon DEF r
    <3>4. Differ(f[i], h[i], p, d[j], c[j])
      BY <2>2, <3>2, <3>3, DifferLeft, Zenon
    <3>5. i \in 1 .. n + 1
      BY <1>6
    <3> QED BY <3>2, <3>4, <3>5, Zenon
  <2>7. CASE j >= q
    <3>1. j \notin i .. i + r - 1 /\ q <= j /\ ~(i > j)
      BY <1>6, <2>1, <2>7
    <3>2. PICK p : Differ(f[q], h[q], p, d[j], c[j])
      BY <2>2, <3>1, Zenon
    <3>3. Differ(Block(d, i) \o f[q], Block(d, i) \o h[q], Len(Block(d, i)) + p, d[j], c[j])
      BY <2>3, <3>2, DifferRight, Zenon
    <3>4. Differ(f[i], h[i], Len(Block(d, i)) + p, d[j], c[j])
      BY <2>2, <2>4, <3>1, <3>3, Zenon
    <3>5. i \in 1 .. n + 1
      BY <1>6
    <3> QED BY <3>1, <3>4, <3>5, Zenon
  <2> QED BY <1>6, <2>1, <2>5, <2>6, <2>7
<1>14. 1 \in T
  <2>1. 1 \in 1 .. n + 1
    BY <1>6
  <2> HIDE DEF T
  <2>2. \A i \in 1 .. n + 1 : i \in T
    BY <1>6, <1>12, <1>13, Backwards
  <2> QED BY <2>1, <2>2, Zenon
<1>15. 1 <= j
  BY <1>6
<1> QED BY <1>4, <1>5, <1>6, <1>14, <1>15, Zenon

(* The byte that a flipped bit makes of another.                           *)
FlippedTo(a, bit) == IF (a \div 2^bit) % 2 = 1 THEN a - 2^bit ELSE a + 2^bit

LEMMA FlippedNear ==
  ASSUME NEW a \in Bytes, NEW bit \in 0 .. 7
  PROVE  Near(a, FlippedTo(a, bit))
<1> DEFINE with(p) == IF (a \div p) % 2 = 1 THEN a - p ELSE a + p
           power(k) == 2^k
<1>1. a \in Nat /\ a < 256
  BY DEF Bytes
<1>2. /\ power(0) = 1 /\ power(1) = 2 /\ power(2) = 4 /\ power(3) = 8
      /\ power(4) = 16 /\ power(5) = 32 /\ power(6) = 64 /\ power(7) = 128
  OBVIOUS
<1>3. FlippedTo(a, bit) = with(power(bit))
  BY Zenon DEF FlippedTo
<1>4. Near(a, with(1))
  BY <1>1, SMT DEF Near, Bytes
<1>5. Near(a, with(2))
  BY <1>1, SMT DEF Near, Bytes
<1>6. Near(a, with(4))
  BY <1>1, SMT DEF Near, Bytes
<1>7. Near(a, with(8))
  BY <1>1, SMT DEF Near, Bytes
<1>8. Near(a, with(16))
  BY <1>1, SMT DEF Near, Bytes
<1>9. Near(a, with(32))
  BY <1>1, SMT DEF Near, Bytes
<1>10. Near(a, with(64))
  BY <1>1, SMT DEF Near, Bytes
<1>11. Near(a, with(128))
  BY <1>1, SMT DEF Near, Bytes
<1> HIDE DEF with, power
<1>12. Near(a, with(power(bit)))
  <2>1. bit = 0 \/ bit = 1 \/ bit = 2 \/ bit = 3 \/ bit = 4 \/ bit = 5 \/ bit = 6 \/ bit = 7
    OBVIOUS
  <2> QED BY <1>2, <1>4, <1>5, <1>6, <1>7, <1>8, <1>9, <1>10, <1>11, <2>1, SMT
<1> QED BY <1>3, <1>12, Zenon

LEMMA FlippedFacts ==
  ASSUME NEW s \in Seq(Bytes), NEW j \in 1 .. Len(s), NEW bit \in 0 .. 7
  PROVE  /\ OneChanged(s, Flipped(s, j, bit), j)
         /\ Differ(s, Flipped(s, j, bit), j, s[j], Flipped(s, j, bit)[j])
         /\ Flipped(s, j, bit)[j] = FlippedTo(s[j], bit)
<1> DEFINE b == FlippedTo(s[j], bit)
           t == [s EXCEPT ![j] = b]
<1>1. s[j] \in Bytes
  BY ElementOfSeq, Zenon
<1>2. Near(s[j], b)
  BY <1>1, FlippedNear, Zenon
<1>3. b \in Bytes
  BY <1>2, Zenon DEF Near
<1>4. Flipped(s, j, bit) = t
  BY DEF Flipped, FlippedTo
<1> HIDE DEF b
<1>5. /\ t \in Seq(Bytes) /\ Len(t) = Len(s)
      /\ \A k \in 1 .. Len(s) : t[k] = IF k = j THEN b ELSE s[k]
  BY <1>3, ExceptSeq
<1> HIDE DEF t
<1>6. t[j] = b /\ \A k \in 1 .. Len(s) : k # j => s[k] = t[k]
  BY <1>5, Zenon
<1>7. OneChanged(s, t, j)
  BY <1>2, <1>5, <1>6, Zenon DEF OneChanged
<1>8. s \in Seq(Nat) /\ t \in Seq(Nat)
  <2>1. Bytes \subseteq Nat
    BY DEF Bytes
  <2> QED BY <1>5, <2>1, SeqMonotonic, Zenon
<1>9. Differ(s, t, j, s[j], t[j])
  BY <1>5, <1>6, <1>8, Zenon DEF Differ
<1> QED BY <1>4, <1>6, <1>7, <1>9, Zenon DEF b

(* A bit flipped in a byte of the frame, where neither the byte nor what it *)
(* becomes is 0 and so the byte is one of those on the wire: that one byte  *)
(* is changed there, and decode and parse_frame reject the message.         *)
DataFlipRejected(frame, j, bit) ==
  LET e == StandardEncode(frame)
      damaged == Flipped(frame, j, bit)
  IN  frame[j] # 0 /\ damaged[j] # 0 =>
        \E i \in DOMAIN e : /\ e[i] = frame[j] /\ Flipped(e, i, bit) = StandardEncode(damaged)
                            /\ ParseCobsFrame(Flipped(e, i, bit)) = Rejected

DataFlipsRejected(frame) ==
  \A j \in DOMAIN frame, bit \in 0 .. 7 : DataFlipRejected(frame, j, bit)

LEMMA FramedFlips ==
  ASSUME NEW head \in Seq(Bytes), Len(head) = 4, NEW data \in Seq(Bytes)
  PROVE  DataFlipsRejected(Framed(head, data))
<1> DEFINE frame == Framed(head, data)
           e == StandardEncode(frame)
<1>1. frame \in Seq(Bytes)
  BY FramedFacts, Zenon
<1>2. DOMAIN frame = 1 .. Len(frame)
  BY <1>1, LenProperties
<1> HIDE DEF frame, e
<1>3. ASSUME NEW j \in 1 .. Len(frame), NEW bit \in 0 .. 7
      PROVE  DataFlipRejected(frame, j, bit)
  <2> DEFINE t == Flipped(frame, j, bit)
  <2> SUFFICES ASSUME frame[j] # 0, t[j] # 0
               PROVE  \E i \in DOMAIN e : /\ e[i] = frame[j]
                                          /\ Flipped(e, i, bit) = StandardEncode(t)
                                          /\ ParseCobsFrame(Flipped(e, i, bit)) = Rejected
    BY Zenon DEF DataFlipRejected, e
  <2>1. /\ OneChanged(frame, t, j) /\ Differ(frame, t, j, frame[j], t[j])
        /\ t[j] = FlippedTo(frame[j], bit)
    BY <1>1, <1>3, FlippedFacts, Zenon
  <2> HIDE DEF t
  <2>2. ParseCobsFrame(StandardEncode(t)) = Rejected
    BY <2>1, FrameDamaged, Zenon DEF frame
  <2>3. PICK i : Differ(e, StandardEncode(t), i, frame[j], t[j])
    BY <2>1, OneByteWritten, Zenon DEF e
  <2>4. StandardEncode(t) = With(e, i, t[j]) /\ i \in DOMAIN e /\ e[i] = frame[j]
    BY <2>3, DifferWith
  <2>5. Flipped(e, i, bit) = With(e, i, FlippedTo(e[i], bit))
    BY DEF Flipped, FlippedTo, With
  <2>6. Flipped(e, i, bit) = StandardEncode(t)
    BY <2>1, <2>4, <2>5, Zenon
  <2> QED BY <2>2, <2>4, <2>6, Zenon
<1> QED BY <1>2, <1>3, Zenon DEF DataFlipsRejected, frame

(* So it is with every message and either header, wherever the byte is: in  *)
(* the header, the payload, or the checksum; crc16 misses no such flip.     *)
THEOREM DataFlipsTheorem ==
  Spec => [](/\ DataFlipsRejected(Frame)
             /\ msgType \in Compressible => DataFlipsRejected(Compressed))
<1> DEFINE Inv == /\ DataFlipsRejected(Frame)
                  /\ msgType \in Compressible => DataFlipsRejected(Compressed)
<1>1. Sent => Inv
  <2> SUFFICES ASSUME Sent PROVE Inv
    OBVIOUS
  <2>1. msgType \in Types /\ payload \in Seq(Bytes)
    BY SentTypes, Zenon
  <2>2. DataFlipsRejected(Frame)
    <3>1. Header(msgType, payload) \in Seq(Bytes) /\ Len(Header(msgType, payload)) = 4
      BY <2>1, HeaderFacts, Zenon
    <3>2. Frame = Framed(Header(msgType, payload), payload)
      BY <2>1, FrameFramed, Zenon DEF Frame
    <3> QED BY <2>1, <3>1, <3>2, FramedFlips, Zenon
  <2>3. ASSUME msgType \in Compressible PROVE DataFlipsRejected(Compressed)
    <3>1. /\ ShortHeader(msgType, payload) \in Seq(Bytes)
          /\ Len(ShortHeader(msgType, payload)) = 4
      BY <2>1, <2>3, ShortHeaderFacts, Zenon
    <3>2. Compressed = Framed(ShortHeader(msgType, payload), payload)
      BY DEF Compressed, Framed, ShortHeader
    <3> QED BY <2>1, <3>1, <3>2, FramedFlips, Zenon
  <2> QED BY <2>2, <2>3, Zenon
<1> QED BY <1>1, SentKept, PTL

-----------------------------------------------------------------------------
(* Chunks. *)

LEMMA JoinedParts ==
  ASSUME NEW d \in Seq(Nat), NEW m \in Nat, NEW n \in Nat, m <= n, n <= Len(d)
  PROVE  SubSeq(d, 1, m) \o SubSeq(d, m + 1, n) = SubSeq(d, 1, n)
<1> DEFINE r == SubSeq(d, 1, m)
           s == SubSeq(d, m + 1, n)
           t == SubSeq(d, 1, n)
<1>1. r \in Seq(Nat) /\ Len(r) = m /\ \A k \in 1 .. m : r[k] = d[k]
  <2>1. 0 \in Nat /\ 0 + m <= Len(d) /\ 0 + 1 = 1 /\ 0 + m = m /\ \A k \in 1 .. m : 0 + k = k
    OBVIOUS
  <2> QED BY <2>1, PartFacts
<1>2. t \in Seq(Nat) /\ Len(t) = n /\ \A k \in 1 .. n : t[k] = d[k]
  <2>1. 0 \in Nat /\ 0 + n <= Len(d) /\ 0 + 1 = 1 /\ 0 + n = n /\ \A k \in 1 .. n : 0 + k = k
    OBVIOUS
  <2> QED BY <2>1, PartFacts
<1>3. s \in Seq(Nat) /\ Len(s) = n - m /\ \A k \in 1 .. n - m : s[k] = d[m + k]
  <2>1. n - m \in Nat /\ m + (n - m) = n
    OBVIOUS
  <2> QED BY <2>1, PartFacts
<1> HIDE DEF r, s, t
<1> DEFINE u == r \o s
<1>4. /\ u \in Seq(Nat) /\ Len(u) = Len(r) + Len(s)
      /\ \A k \in 1 .. Len(r) : u[k] = r[k]
      /\ \A k \in 1 .. Len(s) : u[Len(r) + k] = s[k]
  BY <1>1, <1>3, ConcatFacts, Zenon
<1> HIDE DEF u
<1>5. /\ u \in Seq(Nat) /\ Len(u) = n
      /\ \A k \in 1 .. m : u[k] = d[k]
      /\ \A k \in 1 .. n - m : u[m + k] = d[m + k]
  <2>1. Len(u) = n
    BY <1>1, <1>3, <1>4
  <2>2. \A k \in 1 .. m : u[k] = d[k]
    BY <1>1, <1>4
  <2>3. \A k \in 1 .. n - m : u[m + k] = d[m + k]
    BY <1>1, <1>3, <1>4
  <2> QED BY <1>4, <2>1, <2>2, <2>3
<1>6. \A k \in 1 .. n : u[k] = d[k]
  <2> SUFFICES ASSUME NEW k \in 1 .. n PROVE u[k] = d[k]
    OBVIOUS
  <2>1. CASE k <= m
    BY <1>5, <2>1
  <2>2. CASE ~(k <= m)
    <3>1. k - m \in 1 .. n - m /\ m + (k - m) = k
      BY <2>2
    <3> QED BY <1>5, <3>1
  <2> QED BY <2>1, <2>2
<1>7. u = t
  BY <1>2, <1>5, <1>6, SeqEqual
<1> QED BY <1>7 DEF u, r, s, t

(* Where a chunk ends. *)
Upto(n, size, i) == IF i * size < n THEN i * size ELSE n

LEMMA ChunkBounds ==
  ASSUME NEW n \in Nat, n > 0, NEW size \in Nat, size > 0
  PROVE  /\ ChunkCount(n, size) \in Nat /\ ChunkCount(n, size) > 0
         /\ Upto(n, size, ChunkCount(n, size)) = n
         /\ \A i \in 1 .. ChunkCount(n, size) :
              /\ (i - 1) * size \in Nat /\ (i - 1) * size < n
              /\ Upto(n, size, i - 1) = (i - 1) * size
              /\ Upto(n, size, i) \in Nat /\ Upto(n, size, i) <= n
              /\ (i - 1) * size <= Upto(n, size, i)
              /\ Upto(n, size, i) - (i - 1) * size <= size
<1> DEFINE count == (n + size - 1) \div size
<1>1. count \in Nat /\ count * size <= n + size - 1 /\ n + size - 1 < count * size + size
  OBVIOUS
<1>2. ChunkCount(n, size) = count
  BY DEF ChunkCount
<1> HIDE DEF count
<1>3. count > 0
  <2> SUFFICES ASSUME count = 0 PROVE FALSE
    BY <1>1
  <2> QED BY <1>1
<1>4. count * size \in Nat /\ n <= count * size
  BY <1>1
<1>5. Upto(n, size, count) = n
  BY <1>4 DEF Upto
<1>6. ASSUME NEW i \in 1 .. count
      PROVE  /\ (i - 1) * size \in Nat /\ (i - 1) * size < n
             /\ Upto(n, size, i - 1) = (i - 1) * size
             /\ Upto(n, size, i) \in Nat /\ Upto(n, size, i) <= n
             /\ (i - 1) * size <= Upto(n, size, i)
             /\ Upto(n, size, i) - (i - 1) * size <= size
  <2>1. i - 1 \in Nat /\ count - i \in Nat
    BY <1>1
  <2>2. /\ (i - 1) * size \in Nat /\ (count - i) * size \in Nat /\ i * size \in Nat
        /\ i * size = (i - 1) * size + size
        /\ count * size = (i - 1) * size + (count - i) * size + size
    BY <1>1, <2>1
  <2>3. (i - 1) * size < n
    BY <1>1, <2>2
  <2> QED BY <2>2, <2>3 DEF Upto
<1> QED BY <1>1, <1>2, <1>3, <1>5, <1>6

(* What FlattenSeq computes, one sequence at a time. *)
Then(s, t) == s \o t
Joins(f, parts) ==
  f = [i \in 1 .. Len(parts) |-> IF i = 1 THEN parts[i] ELSE Then(f[i - 1], parts[i])]

LEMMA FlattenSteps ==
  ASSUME NEW S, NEW parts \in Seq(Seq(S)), parts # <<>>
  PROVE  \E f : Joins(f, parts) /\ FlattenSeq(parts) = f[Len(parts)]
<1> DEFINE Computes(f, m) == f = [i \in 1 .. m |-> IF i = 1 THEN parts[i] ELSE Then(f[i - 1], parts[i])]
           T == {m \in Nat : \E f : Computes(f, m)}
<1>1. 0 \in T
  <2>1. Computes([i \in 1 .. 0 |-> parts[i]], 0)
    OBVIOUS
  <2> QED BY <2>1
<1>2. ASSUME NEW m \in T PROVE m + 1 \in T
  <2>1. PICK f : Computes(f, m)
    OBVIOUS
  <2> DEFINE h == [i \in 1 .. m + 1 |->
                     IF i <= m THEN f[i] ELSE IF i = 1 THEN parts[i] ELSE Then(f[m], parts[i])]
  <2> m \in Nat
    OBVIOUS
  <2>2. ASSUME NEW i \in 1 .. m + 1
        PROVE  h[i] = IF i = 1 THEN parts[i] ELSE Then(h[i - 1], parts[i])
    <3>1. CASE i = 1
      BY <2>1, <3>1
    <3>2. CASE i \in 2 .. m
      <4>1. h[i] = f[i] /\ h[i - 1] = f[i - 1] /\ f[i] = Then(f[i - 1], parts[i])
        BY <2>1, <3>2
      <4> QED BY <3>2, <4>1
    <3>3. CASE i = m + 1 /\ i # 1
      <4>1. h[i] = Then(f[m], parts[i]) /\ h[i - 1] = f[m]
        BY <3>3
      <4> QED BY <3>3, <4>1
    <3> QED BY <3>1, <3>2, <3>3
  <2>3. Computes(h, m + 1)
    BY <2>2
  <2> HIDE DEF Computes, h
  <2> QED BY <2>3
<1>3. Len(parts) \in T
  <2>1. T \in SUBSET Nat /\ Len(parts) \in Nat
    OBVIOUS
  <2> HIDE DEF T
  <2> QED BY <1>1, <1>2, <2>1, AllNaturals
<1>4. \E f : Joins(f, parts)
  BY <1>3 DEF Joins
<1>5. FlattenSeq(parts) = (CHOOSE f : Joins(f, parts))[Len(parts)]
  BY DEF FlattenSeq, Joins, Then
<1> QED BY <1>4, <1>5, Zenon

LEMMA JoinsStep ==
  ASSUME NEW parts, Len(parts) \in Nat, NEW f, Joins(f, parts)
  PROVE  /\ Len(parts) > 0 => f[1] = parts[1]
         /\ \A i \in Nat : i > 0 /\ i < Len(parts) => f[i + 1] = Then(f[i], parts[i + 1])
<1>1. \A j \in 1 .. Len(parts) : f[j] = IF j = 1 THEN parts[j] ELSE Then(f[j - 1], parts[j])
  BY Zenon DEF Joins
<1>2. ASSUME NEW i \in Nat, i > 0, i < Len(parts) PROVE f[i + 1] = Then(f[i], parts[i + 1])
  <2>1. i + 1 \in 1 .. Len(parts) /\ i + 1 # 1 /\ (i + 1) - 1 = i
    BY <1>2
  <2> QED BY <1>1, <2>1, Zenon
<1>3. Len(parts) > 0 => f[1] = parts[1]
  <2>1. Len(parts) > 0 => 1 \in 1 .. Len(parts)
    OBVIOUS
  <2> QED BY <1>1, <2>1, Zenon
<1> QED BY <1>2, <1>3


LEMMA WrapFacts ==
  ASSUME Sent
  PROVE  WrapCobs \in Seq(Nat) /\ WrapCobs # <<>> /\ WrapCobs[1] = 0
<1>1. Frame \in Seq(Nat)
  BY SentTypes, Zenon
<1>2. Encode(Frame) \in Seq(Nat \ {0})
  BY <1>1, EncodedWithoutZero, Zenon
<1> DEFINE e == Encode(Frame)
<1>3. e \in Seq(Nat)
  <2>1. Nat \ {0} \subseteq Nat
    OBVIOUS
  <2> QED BY <1>2, <2>1, SeqMonotonic, Zenon
<1> HIDE DEF e
<1>4. <<0>> \in Seq(Nat) /\ Len(<<0>>) = 1 /\ <<0>>[1] = 0 /\ 1 \in 1 .. Len(<<0>>)
  OBVIOUS
<1> DEFINE r == <<0>> \o e
           w == r \o <<0>>
<1>5. r \in Seq(Nat) /\ Len(r) = 1 + Len(e) /\ r[1] = 0
  BY <1>3, <1>4, ConcatFacts
<1> HIDE DEF r
<1>6. 1 \in 1 .. Len(r) /\ Len(r) \in Nat
  BY <1>3, <1>5
<1>7. w \in Seq(Nat) /\ Len(w) = Len(r) + 1 /\ w[1] = r[1]
  BY <1>4, <1>5, <1>6, ConcatFacts
<1> HIDE DEF w
<1>8. w \in Seq(Nat) /\ w # <<>> /\ w[1] = 0
  BY <1>5, <1>6, <1>7
<1> QED BY <1>8, Zenon DEF w, r, e, WrapCobs

LEMMA ChunkParts ==
  ASSUME NEW d \in Seq(Nat), d # <<>>, NEW handle \in Nat, NEW mtu \in Nat, mtu > 1
  PROVE  LET chunks == ChunkWithHandle(d, handle, mtu)
             size == mtu - 1
             count == ChunkCount(Len(d), size)
         IN  /\ DOMAIN chunks = 1 .. count
             /\ \A i \in 1 .. count :
                  LET part == SubSeq(d, (i - 1) * size + 1, Upto(Len(d), size, i)) IN
                  /\ chunks[i] = <<handle>> \o part
                  /\ part \in Seq(Nat) /\ Len(part) <= size
                  /\ HasHandle(chunks[i], handle) /\ Len(chunks[i]) <= mtu
                  /\ StripHandle(chunks[i]) = part
<1> DEFINE chunks == ChunkWithHandle(d, handle, mtu)
           size == mtu - 1
           n == Len(d)
           count == ChunkCount(n, size)
           part(i) == SubSeq(d, (i - 1) * size + 1, Upto(n, size, i))
<1>1. n \in Nat /\ n > 0 /\ size \in Nat /\ size > 0 /\ PerChunk(mtu) = size
  BY DEF PerChunk
<1>2. chunks = [i \in 1 .. count |-> <<handle>> \o part(i)]
  BY <1>1, Zenon DEF ChunkWithHandle, Upto
<1>3. \A i \in 1 .. count :
        /\ (i - 1) * size \in Nat /\ (i - 1) * size <= Upto(n, size, i)
        /\ Upto(n, size, i) \in Nat /\ Upto(n, size, i) <= n
        /\ Upto(n, size, i) - (i - 1) * size <= size
  <2> HIDE DEF n, size
  <2> QED BY <1>1, ChunkBounds
<1> HIDE DEF chunks, count
<1>4. ASSUME NEW i \in 1 .. count
      PROVE  /\ chunks[i] = <<handle>> \o part(i)
             /\ part(i) \in Seq(Nat) /\ Len(part(i)) <= size
             /\ HasHandle(chunks[i], handle) /\ Len(chunks[i]) <= mtu
             /\ StripHandle(chunks[i]) = part(i)
  <2>1. chunks[i] = <<handle>> \o part(i)
    BY <1>2, Zenon
  <2> DEFINE from == (i - 1) * size
             to == Upto(n, size, i)
  <2>2. from \in Nat /\ to \in Nat /\ from <= to /\ to <= n /\ to - from <= size
    BY <1>3
  <2> HIDE DEF from, to
  <2>3. part(i) \in Seq(Nat) /\ Len(part(i)) = to - from
    <3>1. to - from \in Nat /\ from + (to - from) = to
      BY <2>2
    <3>2. from + (to - from) <= Len(d)
      BY <2>2
    <3>3. /\ SubSeq(d, from + 1, from + (to - from)) \in Seq(Nat)
          /\ Len(SubSeq(d, from + 1, from + (to - from))) = to - from
      BY <2>2, <3>1, <3>2, PartFacts, Zenon
    <3>4. SubSeq(d, from + 1, to) \in Seq(Nat) /\ Len(SubSeq(d, from + 1, to)) = to - from
      BY <3>1, <3>3, Zenon
    <3> QED BY <3>4, Zenon DEF from, to
  <2> DEFINE p == part(i)
  <2>4. p \in Seq(Nat) /\ Len(p) <= size
    BY <2>2, <2>3
  <2> HIDE DEF p
  <2>5. /\ HasHandle(<<handle>> \o p, handle) /\ Len(<<handle>> \o p) <= mtu
        /\ StripHandle(<<handle>> \o p) = p
    <3>1. <<handle>> \in Seq(Nat) /\ Len(<<handle>>) = 1 /\ <<handle>>[1] = handle
      OBVIOUS
    <3> DEFINE w == <<handle>> \o p
    <3>2. /\ w \in Seq(Nat) /\ Len(w) = 1 + Len(p)
          /\ w[1] = handle /\ \A k \in 1 .. Len(p) : w[1 + k] = p[k]
      BY <2>4, <3>1, ConcatFacts
    <3> HIDE DEF w
    <3>3. HasHandle(w, handle) /\ Len(w) <= mtu
      BY <2>4, <3>2 DEF HasHandle
    <3>4. Tail(w) = p
      <4>1. w # <<>>
        BY <2>4, <3>2
      <4>2. /\ Tail(w) \in Seq(Nat) /\ Len(Tail(w)) = Len(w) - 1
            /\ \A k \in 1 .. Len(Tail(w)) : Tail(w)[k] = w[k + 1]
        BY <3>2, <4>1, HeadTailProperties
      <4>3. Len(Tail(w)) = Len(p) /\ \A k \in 1 .. Len(p) : Tail(w)[k] = p[k]
        BY <2>4, <3>2, <4>2
      <4> QED BY <2>4, <4>2, <4>3, SeqEqual
    <3> QED BY <3>3, <3>4, Zenon DEF StripHandle, w
  <2> QED BY <2>1, <2>4, <2>5, Zenon DEF p
<1>5. DOMAIN chunks = 1 .. count
  BY <1>2, Zenon
<1> QED BY <1>4, <1>5, Zenon DEF chunks, count

LEMMA ChunksJoined ==
  ASSUME NEW d \in Seq(Nat), d # <<>>, NEW handle \in Nat, NEW mtu \in Nat, mtu > 1
  PROVE  LET chunks == ChunkWithHandle(d, handle, mtu)
         IN  FlattenSeq([i \in DOMAIN chunks |-> StripHandle(chunks[i])]) = d
<1> DEFINE chunks == ChunkWithHandle(d, handle, mtu)
           size == mtu - 1
           n == Len(d)
           count == ChunkCount(n, size)
           part(i) == SubSeq(d, (i - 1) * size + 1, Upto(n, size, i))
           parts == [i \in 1 .. count |-> part(i)]
<1>1. n \in Nat /\ n > 0 /\ size \in Nat /\ size > 0
  OBVIOUS
<1>2. /\ DOMAIN chunks = 1 .. count
      /\ \A i \in 1 .. count : part(i) \in Seq(Nat) /\ StripHandle(chunks[i]) = part(i)
  BY ChunkParts, Zenon
<1>3. /\ count \in Nat /\ count > 0 /\ Upto(n, size, count) = n
      /\ \A i \in 1 .. count :
           /\ Upto(n, size, i - 1) = (i - 1) * size /\ (i - 1) * size \in Nat
           /\ (i - 1) * size <= Upto(n, size, i)
           /\ Upto(n, size, i) \in Nat /\ Upto(n, size, i) <= n
  <2> HIDE DEF n, size
  <2> QED BY <1>1, ChunkBounds
<1>4. [i \in DOMAIN chunks |-> StripHandle(chunks[i])] = parts
  BY <1>2, Zenon
<1> HIDE DEF chunks, count, size
<1>5. /\ parts \in Seq(Seq(Nat)) /\ Len(parts) = count /\ parts # <<>>
      /\ \A i \in 1 .. count : parts[i] = part(i)
  <2>1. parts \in [1 .. count -> Seq(Nat)] /\ \A i \in 1 .. count : parts[i] = part(i)
    BY <1>2, Zenon
  <2> HIDE DEF parts
  <2>2. parts \in Seq(Seq(Nat)) /\ Len(parts) = count
    BY <1>3, <2>1
  <2> QED BY <1>3, <2>1, <2>2, SMTT(30)
<1> HIDE DEF parts
<1>6. PICK f : Joins(f, parts) /\ FlattenSeq(parts) = f[Len(parts)]
  BY <1>5, FlattenSteps
<1>7. /\ f[1] = parts[1]
      /\ \A i \in Nat : i > 0 /\ i < count => f[i + 1] = Then(f[i], parts[i + 1])
  BY <1>3, <1>5, <1>6, JoinsStep
<1> DEFINE T == {m \in Nat : m < count => f[m + 1] = SubSeq(d, 1, Upto(n, size, m + 1))}
<1>8. 0 \in T
  <2>1. 1 \in 1 .. count /\ (1 - 1) * size + 1 = 1 /\ 0 + 1 = 1
    BY <1>1, <1>3
  <2>2. f[1] = SubSeq(d, 1, Upto(n, size, 1))
    BY <1>5, <1>7, <2>1
  <2> QED BY <2>2
<1>9. ASSUME NEW m \in T PROVE m + 1 \in T
  <2> SUFFICES ASSUME m + 1 < count
               PROVE  f[(m + 1) + 1] = SubSeq(d, 1, Upto(n, size, (m + 1) + 1))
    OBVIOUS
  <2> DEFINE i == m + 1
             from == i * size
             to == Upto(n, size, i + 1)
  <2>1. i \in Nat /\ i > 0 /\ i < count /\ i + 1 \in 1 .. count /\ (i + 1) - 1 = i
    BY <1>3
  <2>2. f[i] = SubSeq(d, 1, Upto(n, size, i))
    <3>1. m \in Nat /\ (m < count => f[m + 1] = SubSeq(d, 1, Upto(n, size, m + 1)))
      BY <1>9, Zenon
    <3> HIDE DEF n, T
    <3> QED BY <1>3, <3>1, <2>1
  <2> HIDE DEF i
  <2>3. /\ Upto(n, size, i) = from /\ from \in Nat /\ from <= to /\ to \in Nat /\ to <= n
        /\ part(i + 1) = SubSeq(d, from + 1, to)
    BY <1>3, <2>1
  <2>4. f[i + 1] = Then(f[i], part(i + 1))
    BY <1>5, <1>7, <2>1, Zenon
  <2> HIDE DEF from, to
  <2>5. SubSeq(d, 1, from) \o SubSeq(d, from + 1, to) = SubSeq(d, 1, to)
    BY <2>3, JoinedParts
  <2>6. f[i + 1] = SubSeq(d, 1, to)
    BY <2>2, <2>3, <2>4, <2>5, Zenon DEF Then
  <2> QED BY <2>6, Zenon DEF i, to
<1>10. count - 1 \in T
  <2>1. count - 1 \in Nat /\ T \in SUBSET Nat
    BY <1>3
  <2> HIDE DEF T
  <2> QED BY <1>8, <1>9, <2>1, AllNaturals
<1>11. f[count] = SubSeq(d, 1, n)
  <2>1. (count - 1) + 1 = count /\ count - 1 < count
    BY <1>3
  <2>2. f[(count - 1) + 1] = SubSeq(d, 1, Upto(n, size, (count - 1) + 1))
    BY <1>10, <2>1
  <2> QED BY <1>3, <2>1, <2>2
<1>12. SubSeq(d, 1, n) = d
  BY SubSeqFull
<1> QED BY <1>4, <1>5, <1>6, <1>11, <1>12, Zenon DEF chunks

(* Whatever MTU the link has, the chunks in which send_gfdi writes a framed *)
(* message each begin with the handle and fit the MTU, and without it they  *)
(* are the message, no byte twice or missing: for messages of any length.   *)
THEOREM ChunksCarriedTheorem == Spec => []ChunksCarried
<1>1. Sent => ChunksCarried
  <2> SUFFICES ASSUME Sent, NEW mtu \in Mtus \ {0, 1}
               PROVE  LET chunks == ChunkWithHandle(WrapCobs, Handle, mtu) IN
                      /\ \A i \in DOMAIN chunks :
                           HasHandle(chunks[i], Handle) /\ Len(chunks[i]) <= mtu
                      /\ FlattenSeq([i \in DOMAIN chunks |-> StripHandle(chunks[i])]) = WrapCobs
    BY Zenon DEF ChunksCarried
  <2>1. WrapCobs \in Seq(Nat) /\ WrapCobs # <<>>
    BY WrapFacts, Zenon
  <2>2. mtu \in Nat /\ mtu > 1 /\ Handle \in Nat
    BY FramingAssumption
  <2>3. /\ DOMAIN ChunkWithHandle(WrapCobs, Handle, mtu) = 1 .. ChunkCount(Len(WrapCobs), mtu - 1)
        /\ \A i \in 1 .. ChunkCount(Len(WrapCobs), mtu - 1) :
             /\ HasHandle(ChunkWithHandle(WrapCobs, Handle, mtu)[i], Handle)
             /\ Len(ChunkWithHandle(WrapCobs, Handle, mtu)[i]) <= mtu
    BY <2>1, <2>2, ChunkParts, Zenon
  <2>4. LET chunks == ChunkWithHandle(WrapCobs, Handle, mtu)
        IN  FlattenSeq([i \in DOMAIN chunks |-> StripHandle(chunks[i])]) = WrapCobs
    BY <2>1, <2>2, ChunksJoined, Zenon
  <2> QED BY <2>3, <2>4, Zenon
<1> QED BY <1>1, SentKept, PTL

-----------------------------------------------------------------------------
(* The answer to REGISTER. *)

LEMMA FourBytes ==
  ASSUME NEW n \in Nat
  PROVE  /\ LittleEndian(n, 4) \in Seq(Nat) /\ Len(LittleEndian(n, 4)) = 4
         /\ n \in Words => /\ LittleEndian(n, 4)[1] + 256 * LittleEndian(n, 4)[2] = n
                           /\ LittleEndian(n, 4)[3] = 0 /\ LittleEndian(n, 4)[4] = 0
<1> DEFINE b == [i \in 1 .. 4 |-> (n \div 256^(i - 1)) % 256]
<1>1. b = LittleEndian(n, 4)
  BY DEF LittleEndian
<1>2. 256^0 = 1 /\ 256^1 = 256 /\ 256^2 = 65536 /\ 256^3 = 16777216
  OBVIOUS
<1>3. /\ b[1] = (n \div 256^0) % 256 /\ b[2] = (n \div 256^1) % 256
      /\ b[3] = (n \div 256^2) % 256 /\ b[4] = (n \div 256^3) % 256
  <2>1. 1 - 1 = 0 /\ 2 - 1 = 1 /\ 3 - 1 = 2 /\ 4 - 1 = 3
    OBVIOUS
  <2>2. /\ b[1] = (n \div 256^(1 - 1)) % 256 /\ b[2] = (n \div 256^(2 - 1)) % 256
        /\ b[3] = (n \div 256^(3 - 1)) % 256 /\ b[4] = (n \div 256^(4 - 1)) % 256
    OBVIOUS
  <2> QED BY <2>1, <2>2, ZenonT(30)
<1>4. DOMAIN b = 1 .. 4
  OBVIOUS
<1> HIDE DEF b
<1>5. /\ b[1] = n % 256 /\ b[2] = (n \div 256) % 256
      /\ b[3] = (n \div 65536) % 256 /\ b[4] = (n \div 16777216) % 256
  BY <1>2, <1>3
<1>6. b[1] \in Nat /\ b[2] \in Nat /\ b[3] \in Nat /\ b[4] \in Nat
  BY <1>5
<1>7. b \in Seq(Nat) /\ Len(b) = 4
  <2>1. \A i \in 1 .. 4 : b[i] \in Nat
    <3> SUFFICES ASSUME NEW i \in 1 .. 4 PROVE b[i] \in Nat
      OBVIOUS
    <3>1. i = 1 \/ i = 2 \/ i = 3 \/ i = 4
      OBVIOUS
    <3> QED BY <1>6, <3>1, Zenon
  <2>2. b \in [1 .. 4 -> Nat]
    <3>1. \A i \in 1 .. 4 : (n \div 256^(i - 1)) % 256 \in Nat
      <4> SUFFICES ASSUME NEW i \in 1 .. 4 PROVE (n \div 256^(i - 1)) % 256 \in Nat
        OBVIOUS
      <4>1. b[i] = (n \div 256^(i - 1)) % 256
        BY Zenon DEF b
      <4> QED BY <2>1, <4>1, Zenon
    <3> QED BY <3>1, Zenon DEF b
  <2>3. b \in Seq(Nat)
    BY <2>2, SeqDef, Zenon
  <2>4. DOMAIN b = 1 .. 4 /\ Len(b) \in Nat /\ DOMAIN b = 1 .. Len(b)
    BY <1>4, <2>3, LenProperties
  <2>5. Len(b) = 4
    BY <2>4
  <2> QED BY <2>3, <2>5
<1>8. ASSUME n \in Words PROVE b[1] + 256 * b[2] = n /\ b[3] = 0 /\ b[4] = 0
  <2>1. n < 65536
    BY <1>8 DEF Words
  <2>2. n \div 65536 = 0 /\ n \div 16777216 = 0 /\ 0 % 256 = 0
    BY <2>1
  <2>3. (n % 256) + 256 * ((n \div 256) % 256) = n
    <3>1. LittleEndian(n, 2)[1] + 256 * LittleEndian(n, 2)[2] = n
      BY <1>8, WordOfBytes, Zenon
    <3>2. LittleEndian(n, 2)[1] = n % 256 /\ LittleEndian(n, 2)[2] = (n \div 256) % 256
      BY TwoBytes, Zenon
    <3> QED BY <3>1, <3>2
  <2>4. b[3] = 0 /\ b[4] = 0
    BY <1>5, <2>2
  <2>5. b[1] + 256 * b[2] = n
    BY <1>5, <2>3
  <2> QED BY <2>4, <2>5
<1> QED BY <1>1, <1>7, <1>8, Zenon

LEMMA RegisterFacts ==
  BuildRegister(1, 1) \in Seq(Nat) /\ Len(BuildRegister(1, 1)) = 13
<1> DEFINE a == <<0, 0>>
           b == LittleEndian(1, 4)
           c == <<0, 0, 0, 0>>
           e == LittleEndian(1, 2)
           z == <<0>>
<1>1. /\ a \in Seq(Nat) /\ Len(a) = 2 /\ c \in Seq(Nat) /\ Len(c) = 4
      /\ z \in Seq(Nat) /\ Len(z) = 1
  OBVIOUS
<1>2. b \in Seq(Nat) /\ Len(b) = 4
  BY FourBytes
<1>3. e \in Seq(Nat) /\ Len(e) = 2
  <2>1. e \in Seq(Bytes) /\ Len(e) = 2 /\ Bytes \subseteq Nat
    BY TwoBytes DEF Bytes
  <2> QED BY <2>1, SeqMonotonic, Zenon
<1> HIDE DEF a, b, c, e, z
<1>4. a \o b \in Seq(Nat) /\ Len(a \o b) = 6
  <2>1. a \o b \in Seq(Nat) /\ Len(a \o b) = Len(a) + Len(b)
    BY <1>1, <1>2, ConcatFacts, Zenon
  <2> QED BY <1>1, <1>2, <2>1
<1>5. (a \o b) \o c \in Seq(Nat) /\ Len((a \o b) \o c) = 10
  <2>1. (a \o b) \o c \in Seq(Nat) /\ Len((a \o b) \o c) = Len(a \o b) + Len(c)
    BY <1>1, <1>4, ConcatFacts, Zenon
  <2> QED BY <1>1, <1>4, <2>1
<1>6. ((a \o b) \o c) \o e \in Seq(Nat) /\ Len(((a \o b) \o c) \o e) = 12
  <2>1. ((a \o b) \o c) \o e \in Seq(Nat) /\ Len(((a \o b) \o c) \o e) = Len((a \o b) \o c) + Len(e)
    BY <1>3, <1>5, ConcatFacts, Zenon
  <2> QED BY <1>3, <1>5, <2>1
<1>7. /\ (((a \o b) \o c) \o e) \o z \in Seq(Nat)
      /\ Len((((a \o b) \o c) \o e) \o z) = 13
  <2>1. /\ (((a \o b) \o c) \o e) \o z \in Seq(Nat)
        /\ Len((((a \o b) \o c) \o e) \o z) = Len(((a \o b) \o c) \o e) + Len(z)
    BY <1>1, <1>6, ConcatFacts, Zenon
  <2> QED BY <1>1, <1>6, <2>1
<1>8. BuildRegister(1, 1) = (((a \o b) \o c) \o e) \o z
  BY Zenon DEF BuildRegister, a, b, c, e, z
<1> QED BY <1>7, <1>8, Zenon

LEMMA AnswerFacts ==
  ASSUME NEW status \in Nat
  PROVE  /\ Answer(status) \in Seq(Nat) /\ Len(Answer(status)) = 15
         /\ Answer(status)[2] = 1 /\ Answer(status)[13] = status
         /\ Answer(status)[14] = Handle /\ Answer(status)[15] = 0
<1> DEFINE a == <<0, 1>>
           s == SubSeq(BuildRegister(1, 1), 3, 12)
           t == <<status, Handle, 0>>
           r == a \o s
           w == r \o t
<1>1. a \in Seq(Nat) /\ Len(a) = 2 /\ a[2] = 1
  OBVIOUS
<1>2. s \in Seq(Nat) /\ Len(s) = 10
  <2> DEFINE c == BuildRegister(1, 1)
  <2>1. c \in Seq(Nat) /\ Len(c) = 13
    BY RegisterFacts
  <2> HIDE DEF c
  <2>2. 2 + 10 <= Len(c) /\ 2 \in Nat /\ 10 \in Nat /\ 2 + 1 = 3 /\ 2 + 10 = 12
    BY <2>1
  <2>3. SubSeq(c, 2 + 1, 2 + 10) \in Seq(Nat) /\ Len(SubSeq(c, 2 + 1, 2 + 10)) = 10
    BY <2>1, <2>2, PartFacts, Zenon
  <2> QED BY <2>2, <2>3, Zenon DEF c
<1>3. t \in Seq(Nat) /\ Len(t) = 3 /\ t[1] = status /\ t[2] = Handle /\ t[3] = 0
  <2>1. Handle \in Nat
    BY FramingAssumption
  <2> QED BY <2>1
<1>4. Answer(status) = w
  BY Zenon DEF Answer
<1> HIDE DEF a, s, t
<1>5. r \in Seq(Nat) /\ Len(r) = 12 /\ r[2] = 1
  <2>1. /\ r \in Seq(Nat) /\ Len(r) = Len(a) + Len(s)
        /\ \A k \in 1 .. Len(a) : r[k] = a[k]
    BY <1>1, <1>2, ConcatFacts, Zenon
  <2> HIDE DEF r
  <2> QED BY <1>1, <1>2, <2>1
<1> HIDE DEF r
<1>6. /\ w \in Seq(Nat) /\ Len(w) = Len(r) + Len(t)
      /\ \A k \in 1 .. Len(r) : w[k] = r[k]
      /\ \A k \in 1 .. Len(t) : w[Len(r) + k] = t[k]
  BY <1>3, <1>5, ConcatFacts, Zenon
<1> HIDE DEF w
<1>7. w[2] = 1
  BY <1>5, <1>6
<1>8. w[12 + 1] = t[1] /\ w[12 + 2] = t[2] /\ w[12 + 3] = t[3]
  BY <1>3, <1>5, <1>6
<1>9. w[13] = status /\ w[14] = Handle /\ w[15] = 0 /\ Len(w) = 15
  BY <1>3, <1>5, <1>6, <1>8
<1> QED BY <1>4, <1>6, <1>7, <1>9, Zenon

LEMMA FirstChunk ==
  ASSUME Sent, NEW mtu \in Mtus \ {0, 1}
  PROVE  ParseRegisterResponse(ChunkWithHandle(WrapCobs, Handle, mtu)[1]) = NoResponse
<1> DEFINE size == mtu - 1
           n == Len(WrapCobs)
           chunk == ChunkWithHandle(WrapCobs, Handle, mtu)[1]
           to == Upto(n, size, 1)
           part == SubSeq(WrapCobs, (1 - 1) * size + 1, to)
<1>1. WrapCobs \in Seq(Nat) /\ WrapCobs # <<>> /\ WrapCobs[1] = 0
  BY WrapFacts, Zenon
<1>2. mtu \in Nat /\ mtu > 1 /\ Handle \in Nat
  BY FramingAssumption
<1>3. n \in Nat /\ n > 0 /\ size \in Nat /\ size > 0
  BY <1>1, <1>2
<1>4. 1 \in 1 .. ChunkCount(n, size)
  <2> HIDE DEF n, size
  <2>1. ChunkCount(n, size) \in Nat /\ ChunkCount(n, size) > 0
    BY <1>3, ChunkBounds
  <2> QED BY <2>1
<1>5. chunk = <<Handle>> \o part /\ part \in Seq(Nat)
  BY <1>1, <1>2, <1>4, ChunkParts, Zenon
<1>6. to \in Nat /\ to > 0 /\ to <= n
  <2> HIDE DEF n, size
  <2>1. 1 * size = size
    BY <1>3
  <2> QED BY <1>3, <2>1 DEF Upto
<1>7. (1 - 1) * size + 1 = 1
  BY <1>3
<1> HIDE DEF to, n
<1>8. Len(part) \in Nat /\ Len(part) > 0 /\ part[1] = 0
  <2>1. 0 \in Nat /\ 0 + to <= Len(WrapCobs) /\ 0 + 1 = 1 /\ 0 + to = to
    BY <1>6 DEF n
  <2>2. /\ Len(SubSeq(WrapCobs, 0 + 1, 0 + to)) = to
        /\ \A k \in 1 .. to : SubSeq(WrapCobs, 0 + 1, 0 + to)[k] = WrapCobs[0 + k]
    BY <1>1, <1>6, <2>1, PartFacts, Zenon
  <2>3. /\ Len(SubSeq(WrapCobs, 1, to)) = to
        /\ \A k \in 1 .. to : SubSeq(WrapCobs, 1, to)[k] = WrapCobs[0 + k]
    BY <2>1, <2>2, Zenon
  <2>4. Len(part) = to /\ \A k \in 1 .. to : part[k] = WrapCobs[0 + k]
    BY <1>7, <2>3, Zenon
  <2> HIDE DEF part
  <2> QED BY <1>1, <1>6, <2>4
<1> HIDE DEF part
<1>9. chunk[2] = 0
  <2>1. <<Handle>> \in Seq(Nat) /\ Len(<<Handle>>) = 1
    BY <1>2
  <2> DEFINE w == <<Handle>> \o part
  <2>2. \A k \in 1 .. Len(part) : w[Len(<<Handle>>) + k] = part[k]
    BY <1>5, <2>1, ConcatFacts, Zenon
  <2> HIDE DEF w
  <2>3. w[1 + 1] = part[1]
    BY <1>8, <2>1, <2>2
  <2>4. w[2] = 0
    BY <1>8, <2>3
  <2> QED BY <1>5, <2>4, Zenon DEF w
<1> HIDE DEF chunk
<1>10. ParseRegisterResponse(chunk) = NoResponse
  BY <1>9 DEF ParseRegisterResponse
<1> QED BY <1>10, Zenon DEF chunk

(* parse_register_response takes an answer for what it says, whatever its   *)
(* status and handle; and neither a part of one, nor the command, nor the   *)
(* first chunk of any framed message for one: a message starts with the     *)
(* delimiter where an answer has its type.                                  *)
THEOREM AnswerToldTheorem == Spec => []AnswerTold
<1>1. Sent => AnswerTold
  <2> SUFFICES ASSUME Sent PROVE AnswerTold
    OBVIOUS
  <2>1. ASSUME NEW status \in 0 .. 255
        PROVE  LET parsed == ParseRegisterResponse(Answer(status)) IN
               IF status > 4 THEN parsed = NoResponse
               ELSE parsed = [ok |-> TRUE, status |-> Statuses[status + 1],
                              handle |-> Handle, flags |-> 0]
    <3>1. status \in Nat /\ Len(Statuses) = 5
      BY DEF Statuses
    <3>2. /\ Len(Answer(status)) = 15 /\ Answer(status)[2] = 1 /\ Answer(status)[13] = status
          /\ Answer(status)[14] = Handle /\ Answer(status)[15] = 0
      BY <3>1, AnswerFacts, Zenon
    <3> DEFINE d == Answer(status)
    <3> HIDE DEF d
    <3>3. IF status > 4 THEN ParseRegisterResponse(d) = NoResponse
          ELSE ParseRegisterResponse(d) = [ok |-> TRUE, status |-> Statuses[status + 1],
                                           handle |-> Handle, flags |-> 0]
      BY <3>1, <3>2 DEF ParseRegisterResponse, d
    <3> QED BY <3>3, Zenon DEF d
  <2>2. ASSUME NEW cut \in 0 .. 14
        PROVE  ParseRegisterResponse(SubSeq(Answer(0), 1, cut)) = NoResponse
    <3>1. 0 \in Nat /\ cut \in Nat /\ 0 + 1 = 1 /\ 0 + cut = cut
      OBVIOUS
    <3>2. Answer(0) \in Seq(Nat) /\ 0 + cut <= Len(Answer(0))
      <4> DEFINE d == Answer(0)
      <4>1. d \in Seq(Nat) /\ Len(d) = 15
        BY <3>1, AnswerFacts, Zenon
      <4> HIDE DEF d
      <4>2. d \in Seq(Nat) /\ 0 + cut <= Len(d)
        BY <4>1
      <4> QED BY <4>2, Zenon DEF d
    <3>3. Len(SubSeq(Answer(0), 0 + 1, 0 + cut)) = cut
      BY <3>1, <3>2, PartFacts, Zenon
    <3> DEFINE d == SubSeq(Answer(0), 1, cut)
    <3>4. Len(d) = cut
      BY <3>1, <3>3, Zenon
    <3> HIDE DEF d
    <3>5. ParseRegisterResponse(d) = NoResponse
      BY <3>4 DEF ParseRegisterResponse
    <3> QED BY <3>5, Zenon DEF d
  <2>3. ParseRegisterResponse(BuildRegister(1, 1)) = NoResponse
    <3> DEFINE d == BuildRegister(1, 1)
    <3>1. Len(d) = 13
      BY RegisterFacts
    <3> HIDE DEF d
    <3>2. ParseRegisterResponse(d) = NoResponse
      BY <3>1 DEF ParseRegisterResponse
    <3> QED BY <3>2, Zenon DEF d
  <2> QED BY <2>1, <2>2, <2>3, FirstChunk, Zenon DEF AnswerTold
<1> QED BY <1>1, SentKept, PTL

-----------------------------------------------------------------------------
(* Protobuf requests. *)

(* The four places of a header in which it holds numbers.                   *)
Held(h, reqId, total, size) ==
  /\ h[1] + 256 * h[2] = reqId
  /\ h[3] + 256 * h[4] = 0 /\ h[5] = 0 /\ h[6] = 0
  /\ h[7] + 256 * h[8] = total /\ h[9] = 0 /\ h[10] = 0
  /\ h[11] + 256 * h[12] = size /\ h[13] = 0 /\ h[14] = 0

LEMMA FragHeaderFacts ==
  ASSUME NEW reqId \in Words, NEW total \in Words, NEW size \in Words
  PROVE  /\ FragHeader(reqId, 0, total, size) \in Seq(Nat)
         /\ Len(FragHeader(reqId, 0, total, size)) = 14
         /\ Held(FragHeader(reqId, 0, total, size), reqId, total, size)
<1> DEFINE a == LittleEndian(reqId, 2)
           b == LittleEndian(0, 4)
           c == LittleEndian(total, 4)
           e == LittleEndian(size, 4)
           ab == a \o b
           abc == ab \o c
           h == abc \o e
<1>1. reqId \in Nat /\ total \in Nat /\ size \in Nat /\ 0 \in Nat
  BY WordsAreNumbers
<1>2. a \in Seq(Nat) /\ Len(a) = 2 /\ a[1] + 256 * a[2] = reqId
  <2>1. a \in Seq(Bytes) /\ Len(a) = 2 /\ Bytes \subseteq Nat
    BY <1>1, TwoBytes DEF Bytes
  <2>2. a[1] + 256 * a[2] = reqId
    BY WordOfBytes
  <2> QED BY <2>1, <2>2, SeqMonotonic, Zenon
<1>3. 0 \in Words
BY DEF Words
<1>4. /\ b \in Seq(Nat) /\ Len(b) = 4 /\ b[1] + 256 * b[2] = 0 /\ b[3] = 0 /\ b[4] = 0
      /\ c \in Seq(Nat) /\ Len(c) = 4 /\ c[1] + 256 * c[2] = total /\ c[3] = 0 /\ c[4] = 0
      /\ e \in Seq(Nat) /\ Len(e) = 4 /\ e[1] + 256 * e[2] = size /\ e[3] = 0 /\ e[4] = 0
  BY <1>1, <1>3, FourBytes
<1>5. FragHeader(reqId, 0, total, size) = h
  BY Zenon DEF FragHeader
<1> HIDE DEF a, b, c, e
<1>6. /\ ab \in Seq(Nat) /\ Len(ab) = 6
      /\ ab[1] = a[1] /\ ab[2] = a[2]
      /\ ab[3] = b[1] /\ ab[4] = b[2] /\ ab[5] = b[3] /\ ab[6] = b[4]
  <2>1. /\ ab \in Seq(Nat) /\ Len(ab) = Len(a) + Len(b)
        /\ \A k \in 1 .. Len(a) : ab[k] = a[k]
        /\ \A k \in 1 .. Len(b) : ab[Len(a) + k] = b[k]
    BY <1>2, <1>4, ConcatFacts, Zenon
  <2> HIDE DEF ab
  <2>2. ab[2 + 1] = b[1] /\ ab[2 + 2] = b[2] /\ ab[2 + 3] = b[3] /\ ab[2 + 4] = b[4]
    BY <1>2, <1>4, <2>1
  <2> QED BY <1>2, <1>4, <2>1, <2>2
<1> HIDE DEF ab
<1>7. /\ abc \in Seq(Nat) /\ Len(abc) = 10
      /\ \A k \in 1 .. 6 : abc[k] = ab[k]
      /\ abc[7] = c[1] /\ abc[8] = c[2] /\ abc[9] = c[3] /\ abc[10] = c[4]
  <2>1. /\ abc \in Seq(Nat) /\ Len(abc) = Len(ab) + Len(c)
        /\ \A k \in 1 .. Len(ab) : abc[k] = ab[k]
        /\ \A k \in 1 .. Len(c) : abc[Len(ab) + k] = c[k]
    BY <1>4, <1>6, ConcatFacts, Zenon
  <2> HIDE DEF abc
  <2>2. abc[6 + 1] = c[1] /\ abc[6 + 2] = c[2] /\ abc[6 + 3] = c[3] /\ abc[6 + 4] = c[4]
    BY <1>4, <1>6, <2>1
  <2> QED BY <1>4, <1>6, <2>1, <2>2
<1> HIDE DEF abc
<1>8. /\ h \in Seq(Nat) /\ Len(h) = 14
      /\ \A k \in 1 .. 10 : h[k] = abc[k]
      /\ h[11] = e[1] /\ h[12] = e[2] /\ h[13] = e[3] /\ h[14] = e[4]
  <2>1. /\ h \in Seq(Nat) /\ Len(h) = Len(abc) + Len(e)
        /\ \A k \in 1 .. Len(abc) : h[k] = abc[k]
        /\ \A k \in 1 .. Len(e) : h[Len(abc) + k] = e[k]
    BY <1>4, <1>7, ConcatFacts, Zenon
  <2> HIDE DEF h
  <2>2. h[10 + 1] = e[1] /\ h[10 + 2] = e[2] /\ h[10 + 3] = e[3] /\ h[10 + 4] = e[4]
    BY <1>4, <1>7, <2>1
  <2> QED BY <1>4, <1>7, <2>1, <2>2
<1> HIDE DEF h
<1>9. /\ h[1] = a[1] /\ h[2] = a[2] /\ h[3] = b[1] /\ h[4] = b[2] /\ h[5] = b[3] /\ h[6] = b[4]
      /\ h[7] = c[1] /\ h[8] = c[2] /\ h[9] = c[3] /\ h[10] = c[4]
  BY <1>6, <1>7, <1>8
<1>10. Held(h, reqId, total, size)
  BY <1>2, <1>4, <1>8, <1>9, ZenonT(30) DEF Held
<1> QED BY <1>5, <1>8, <1>10, Zenon

LEMMA PartOfRest ==
  ASSUME NEW h \in Seq(Nat), NEW d \in Seq(Nat), NEW n \in Nat, n <= Len(d)
  PROVE  /\ SubSeq(h \o d, Len(h) + 1, Len(h) + n) = SubSeq(d, 1, n)
         /\ Len(SubSeq(d, 1, n)) = n
<1> DEFINE w == h \o d
           u == SubSeq(w, Len(h) + 1, Len(h) + n)
           v == SubSeq(d, 1, n)
           m == Len(h)
<1>1. /\ w \in Seq(Nat) /\ Len(w) = m + Len(d)
      /\ \A k \in 1 .. Len(d) : w[m + k] = d[k]
  BY ConcatFacts, Zenon
<1>2. m \in Nat /\ Len(d) \in Nat
  OBVIOUS
<1> HIDE DEF w, m
<1>3. m + n <= Len(w)
  BY <1>1, <1>2
<1>4. u \in Seq(Nat) /\ Len(u) = n /\ \A k \in 1 .. n : u[k] = w[m + k]
  BY <1>1, <1>2, <1>3, PartFacts, Zenon DEF m
<1>5. v \in Seq(Nat) /\ Len(v) = n /\ \A k \in 1 .. n : v[k] = d[k]
  <2>1. 0 \in Nat /\ 0 + n <= Len(d) /\ 0 + 1 = 1 /\ 0 + n = n /\ \A k \in 1 .. n : 0 + k = k
    OBVIOUS
  <2> QED BY <2>1, PartFacts
<1> HIDE DEF u, v
<1>6. ASSUME NEW k \in 1 .. n PROVE u[k] = v[k]
  <2>1. k \in 1 .. Len(d)
    BY <1>2
  <2> QED BY <1>1, <1>4, <1>5, <2>1, Zenon
<1>7. u = v
  BY <1>4, <1>5, <1>6, SeqEqual
<1> QED BY <1>5, <1>7, Zenon DEF u, v, w, m

LEMMA FragParsed ==
  ASSUME NEW reqId \in Words, NEW total \in Words, NEW size \in Words, NEW d \in Seq(Nat)
  PROVE  ParseFragHeader(FragHeader(reqId, 0, total, size) \o d) =
           [ok |-> TRUE, reqId |-> reqId, offset |-> 0, total |-> total, size |-> size,
            data |-> SubSeq(d, 1, IF size < Len(d) THEN size ELSE Len(d))]
<1> DEFINE h == FragHeader(reqId, 0, total, size)
           w == h \o d
           kept == IF size < Len(d) THEN size ELSE Len(d)
<1>1. h \in Seq(Nat) /\ Len(h) = 14 /\ Held(h, reqId, total, size)
  BY FragHeaderFacts, Zenon
<1> HIDE DEF h
<1>2. /\ Len(w) = Len(h) + Len(d) /\ \A k \in 1 .. Len(h) : w[k] = h[k]
  BY <1>1, ConcatFacts, Zenon
<1>3. size \in Nat /\ kept \in Nat /\ kept <= Len(d) /\ Len(d) \in Nat
  BY WordsAreNumbers
<1>4. SubSeq(w, Len(h) + 1, Len(h) + kept) = SubSeq(d, 1, kept)
  BY <1>1, <1>3, PartOfRest, Zenon
<1> HIDE DEF w
<1>5. FragData(w, size) = SubSeq(d, 1, kept)
  <2>1. Len(h) + 1 = 15 /\ Len(h) + kept = IF 14 + size < Len(w) THEN 14 + size ELSE Len(w)
    BY <1>1, <1>2, <1>3
  <2> QED BY <1>4, <2>1, Zenon DEF FragData
<1> HIDE DEF kept
<1>6. Held(w, reqId, total, size)
  <2>1. /\ w[1] = h[1] /\ w[2] = h[2] /\ w[3] = h[3] /\ w[4] = h[4] /\ w[5] = h[5]
        /\ w[6] = h[6] /\ w[7] = h[7] /\ w[8] = h[8] /\ w[9] = h[9] /\ w[10] = h[10]
        /\ w[11] = h[11] /\ w[12] = h[12] /\ w[13] = h[13] /\ w[14] = h[14]
    BY <1>1, <1>2
  <2> QED BY <1>1, <2>1, Zenon DEF Held
<1>7. U16(w, 1) = reqId /\ U32(w, 3) = 0 /\ U32(w, 7) = total /\ U32(w, 11) = size
  <2>1. reqId \in Nat /\ total \in Nat /\ size \in Nat
    BY WordsAreNumbers
  <2> QED BY <1>6, <2>1, SMTT(30) DEF Held, U16, U32
<1>8. ~(Len(w) < 14)
  BY <1>1, <1>2, <1>3
<1>9. ParseFragHeader(w) =
        [ok |-> TRUE, reqId |-> reqId, offset |-> 0, total |-> total, size |-> size,
         data |-> FragData(w, size)]
  BY <1>7, <1>8, Zenon DEF ParseFragHeader
<1> QED BY <1>5, <1>9, Zenon DEF w, h, kept

(* The protobuf message a request is built from comes out of parse_frag_    *)
(* header as it went in, and of a fragment that declares another size than  *)
(* it has, no more than its own first bytes: for messages of any length a   *)
(* frame can have.                                                          *)
THEOREM RequestCarriedTheorem == Spec => []RequestCarried
<1>1. Sent => RequestCarried
  <2> SUFFICES ASSUME Sent PROVE RequestCarried
    OBVIOUS
  <2>1. payload \in Seq(Nat) /\ msgType \in Words
    <3>1. msgType \in Types /\ payload \in Seq(Bytes)
      BY SentTypes, Zenon
    <3>2. Bytes \subseteq Nat /\ Types \subseteq Words
      BY DEF Bytes, Types, Words
    <3> QED BY <3>1, <3>2, SeqMonotonic, Zenon
  <2>2. Len(payload) \in Words /\ Len(payload) \in Nat
    BY FramingAssumption DEF Sent, Words
  <2>3. SubSeq(payload, 1, IF Len(payload) < Len(payload) THEN Len(payload) ELSE Len(payload))
          = payload
    <3>1. SubSeq(payload, 1, Len(payload)) = payload
      BY <2>1, SubSeqFull, Zenon
    <3> QED BY <3>1, Zenon
  <2>4. ParseFragHeader(BuildProtobufRequest(msgType, payload)) =
          [ok |-> TRUE, reqId |-> msgType, offset |-> 0, total |-> Len(payload),
           size |-> Len(payload), data |-> payload]
    BY <2>1, <2>2, <2>3, FragParsed, ZenonT(30) DEF BuildProtobufRequest
  <2>5. ASSUME NEW size \in 0 .. MaxPayload + 1
        PROVE  LET d == ParseFragHeader(FragHeader(msgType, 0, size, size) \o payload).data
               IN  IsPrefix(d, payload) /\ Len(d) <= size
                   /\ (size <= Len(payload) => Len(d) = size)
    <3> DEFINE kept == IF size < Len(payload) THEN size ELSE Len(payload)
               parsed == ParseFragHeader(FragHeader(msgType, 0, size, size) \o payload)
               d == SubSeq(payload, 1, kept)
    <3>1. size \in Words /\ size \in Nat
      BY FramingAssumption DEF Words
    <3>2. parsed = [ok |-> TRUE, reqId |-> msgType, offset |-> 0, total |-> size,
                    size |-> size, data |-> d]
      BY <2>1, <3>1, FragParsed, Zenon
    <3>3. kept \in Nat /\ kept <= Len(payload) /\ kept <= size
          /\ (size <= Len(payload) => kept = size)
      BY <2>2, <3>1
    <3> HIDE DEF kept
    <3>4. Len(d) = kept
      BY <2>1, <3>3, PartOfRest, EmptySeq, Zenon
    <3>5. IsPrefix(d, payload)
      <4>1. SubSeq(d, 1, Len(d)) = d
        <5>1. d \in Seq(Nat)
          BY <2>1, <2>2, <3>3
        <5> QED BY <5>1, SubSeqFull, Zenon
      <4>2. SubSeq(d, 1, Len(d)) = SubSeq(payload, 1, Len(d))
        BY <3>4, <4>1, Zenon
      <4> QED BY <3>3, <3>4, <4>2, Zenon DEF IsPrefix
    <3> HIDE DEF parsed, d
    <3>6. parsed.data = d
      BY <3>2
    <3>7. IsPrefix(d, payload) /\ Len(d) <= size /\ (size <= Len(payload) => Len(d) = size)
      BY <3>3, <3>4, <3>5, Zenon
    <3> QED BY <3>6, <3>7, Zenon DEF parsed
  <2> QED BY <2>4, <2>5, Zenon DEF RequestCarried
<1> QED BY <1>1, SentKept, PTL

-----------------------------------------------------------------------------
(* The names of a device. *)

(* What a string is in a sequence: its length, then its bytes.              *)
StringIn(w, pos, name) ==
  /\ w[pos] = Len(name)
  /\ SubSeq(w, pos + 1, pos + Len(name)) = name

LEMMA StringPlaced ==
  ASSUME NEW pre \in Seq(Nat), NEW name \in Seq(Nat), NEW rest \in Seq(Nat)
  PROVE  /\ (pre \o Prefixed(name)) \o rest \in Seq(Nat)
         /\ Len((pre \o Prefixed(name)) \o rest) = Len(pre) + 1 + Len(name) + Len(rest)
         /\ StringIn((pre \o Prefixed(name)) \o rest, Len(pre) + 1, name)
         /\ pre \o Prefixed(name) \in Seq(Nat)
         /\ Len(pre \o Prefixed(name)) = Len(pre) + 1 + Len(name)
<1> DEFINE c == <<Len(name)>>
           r == pre \o c
           s == r \o name
           w == s \o rest
<1>1. Len(pre) \in Nat /\ Len(name) \in Nat /\ Len(rest) \in Nat
  OBVIOUS
<1>2. c \in Seq(Nat) /\ Len(c) = 1 /\ c[1] = Len(name)
  OBVIOUS
<1> HIDE DEF c
<1>3. r \in Seq(Nat) /\ Len(r) = Len(pre) + 1 /\ r[Len(pre) + 1] = Len(name)
  <2>1. /\ r \in Seq(Nat) /\ Len(r) = Len(pre) + Len(c)
        /\ \A k \in 1 .. Len(c) : r[Len(pre) + k] = c[k]
    BY <1>2, ConcatFacts, Zenon
  <2> HIDE DEF r
  <2> QED BY <1>1, <1>2, <2>1
<1>4. pre \o Prefixed(name) = s
  <2>1. (pre \o c) \o name = pre \o (c \o name)
    BY <1>2, Regrouped, Zenon
  <2> QED BY <2>1, Zenon DEF Prefixed, c
<1>5. SubSeq(w, Len(r) + 1, Len(r) + Len(name)) = name
  BY <1>3, Middle, Zenon
<1> HIDE DEF r
<1>6. /\ s \in Seq(Nat) /\ Len(s) = Len(r) + Len(name)
      /\ \A k \in 1 .. Len(r) : s[k] = r[k]
  BY <1>3, ConcatFacts, Zenon
<1> HIDE DEF s
<1>7. /\ w \in Seq(Nat) /\ Len(w) = Len(s) + Len(rest)
      /\ \A k \in 1 .. Len(s) : w[k] = s[k]
  BY <1>6, ConcatFacts, Zenon
<1> HIDE DEF w
<1>8. w[Len(pre) + 1] = Len(name)
  <2>1. Len(pre) + 1 \in 1 .. Len(r) /\ Len(pre) + 1 \in 1 .. Len(s)
    BY <1>1, <1>3, <1>6
  <2> QED BY <1>3, <1>6, <1>7, <2>1, Zenon
<1>9. SubSeq(w, (Len(pre) + 1) + 1, (Len(pre) + 1) + Len(name)) = name
  BY <1>3, <1>5, Zenon
<1>10. Len(w) = Len(pre) + 1 + Len(name) + Len(rest) /\ Len(s) = Len(pre) + 1 + Len(name)
  BY <1>1, <1>3, <1>6, <1>7
<1> QED BY <1>4, <1>6, <1>7, <1>8, <1>9, <1>10, Zenon DEF StringIn, w

LEMMA PartOfBeginning ==
  ASSUME NEW w \in Seq(Nat), NEW cut \in Nat, cut <= Len(w),
         NEW m \in Nat, NEW n \in Nat, m + n <= cut
  PROVE  /\ Len(SubSeq(w, 1, cut)) = cut
         /\ \A k \in 1 .. cut : SubSeq(w, 1, cut)[k] = w[k]
         /\ SubSeq(SubSeq(w, 1, cut), m + 1, m + n) = SubSeq(w, m + 1, m + n)
<1> DEFINE b == SubSeq(w, 1, cut)
           u == SubSeq(b, m + 1, m + n)
           v == SubSeq(w, m + 1, m + n)
<1>1. b \in Seq(Nat) /\ Len(b) = cut /\ \A k \in 1 .. cut : b[k] = w[k]
  <2>1. 0 \in Nat /\ 0 + cut <= Len(w) /\ 0 + 1 = 1 /\ 0 + cut = cut /\ \A k \in 1 .. cut : 0 + k = k
    OBVIOUS
  <2> QED BY <2>1, PartFacts
<1> HIDE DEF b
<1>2. u \in Seq(Nat) /\ Len(u) = n /\ \A k \in 1 .. n : u[k] = b[m + k]
  BY <1>1, PartFacts
<1>3. v \in Seq(Nat) /\ Len(v) = n /\ \A k \in 1 .. n : v[k] = w[m + k]
  <2>1. m + n <= Len(w)
    OBVIOUS
  <2> QED BY <2>1, PartFacts
<1> HIDE DEF u, v
<1>4. ASSUME NEW k \in 1 .. n PROVE u[k] = v[k]
  <2>1. m + k \in 1 .. cut
    OBVIOUS
  <2> QED BY <1>1, <1>2, <1>3, <2>1, Zenon
<1>5. u = v
  BY <1>2, <1>3, <1>4, SeqEqual
<1> QED BY <1>1, <1>5, Zenon DEF u, v, b

(* read_length_prefixed_string in a payload that is cut off: a string before *)
(* the cut is read, and one that it goes through is empty.                   *)
LEMMA StringRead ==
  ASSUME NEW w \in Seq(Nat), NEW cut \in Nat, cut <= Len(w), NEW pos \in Nat, pos > 0,
         NEW name \in Seq(Nat), StringIn(w, pos, name)
  PROVE  /\ pos + Len(name) <= cut =>
              StringAt(SubSeq(w, 1, cut), pos) = [name |-> name, next |-> pos + Len(name) + 1]
         /\ cut < pos + Len(name) => StringAt(SubSeq(w, 1, cut), pos).name = <<>>
<1> DEFINE b == SubSeq(w, 1, cut)
<1>1. Len(name) \in Nat /\ w[pos] = Len(name)
  BY DEF StringIn
<1>2. Len(b) = cut /\ \A k \in 1 .. cut : b[k] = w[k]
  <2>1. 0 \in Nat /\ 0 + 0 <= cut
    OBVIOUS
  <2> QED BY <2>1, PartOfBeginning
<1>3. ASSUME pos + Len(name) <= cut
      PROVE  StringAt(b, pos) = [name |-> name, next |-> pos + Len(name) + 1]
  <2>1. SubSeq(b, pos + 1, pos + Len(name)) = SubSeq(w, pos + 1, pos + Len(name))
    BY <1>1, <1>3, PartOfBeginning
  <2> HIDE DEF b
  <2>2. b[pos] = Len(name) /\ pos <= Len(b) /\ ~(pos > Len(b)) /\ ~(pos + b[pos] > Len(b))
    BY <1>1, <1>2, <1>3
  <2>3. StringAt(b, pos) =
          [name |-> SubSeq(b, pos + 1, pos + b[pos]), next |-> pos + b[pos] + 1]
    BY <2>2 DEF StringAt
  <2>4. SubSeq(b, pos + 1, pos + Len(name)) = name
    BY <2>1, Zenon DEF StringIn
  <2> QED BY <2>2, <2>3, <2>4, Zenon
<1>4. ASSUME cut < pos + Len(name) PROVE StringAt(b, pos).name = <<>>
  <2> HIDE DEF b
  <2>1. CASE pos > cut
    <3>1. StringAt(b, pos) = [name |-> <<>>, next |-> pos]
      BY <1>2, <2>1 DEF StringAt
    <3> QED BY <3>1
  <2>2. CASE ~(pos > cut)
    <3>1. b[pos] = Len(name) /\ pos <= Len(b) /\ ~(pos > Len(b)) /\ pos + b[pos] > Len(b)
      BY <1>1, <1>2, <1>4, <2>2
    <3>2. StringAt(b, pos) = [name |-> <<>>, next |-> pos + 1]
      BY <3>1 DEF StringAt
    <3> QED BY <3>2
  <2> QED BY <2>1, <2>2
<1> QED BY <1>3, <1>4, Zenon DEF b

(* Three strings in a row, the first after the fields.                      *)
NamesIn(w, n1, n2, n3) ==
  /\ StringIn(w, 13, n1)
  /\ StringIn(w, 14 + Len(n1), n2)
  /\ StringIn(w, 15 + Len(n1) + Len(n2), n3)

LEMMA NamesPlaced ==
  ASSUME NEW fields \in Seq(Nat), Len(fields) = 12,
         NEW n1 \in Seq(Nat), NEW n2 \in Seq(Nat), NEW n3 \in Seq(Nat), NEW rest \in Seq(Nat)
  PROVE  LET w == (((fields \o Prefixed(n1)) \o Prefixed(n2)) \o Prefixed(n3)) \o rest
         IN  /\ w \in Seq(Nat) /\ Len(w) = 15 + Len(n1) + Len(n2) + Len(n3) + Len(rest)
             /\ NamesIn(w, n1, n2, n3)
<1> DEFINE p1 == Prefixed(n1)
           p2 == Prefixed(n2)
           p3 == Prefixed(n3)
           a == fields \o p1
           b == a \o p2
           c == b \o p3
           w == c \o rest
<1>1. Len(n1) \in Nat /\ Len(n2) \in Nat /\ Len(n3) \in Nat /\ Len(rest) \in Nat
  OBVIOUS
<1>2. p1 \in Seq(Nat) /\ p2 \in Seq(Nat) /\ p3 \in Seq(Nat)
  BY DEF Prefixed
<1>3. a \in Seq(Nat) /\ Len(a) = Len(fields) + 1 + Len(n1)
  BY EmptySeq, StringPlaced, Zenon
<1>4. b \in Seq(Nat) /\ Len(b) = Len(a) + 1 + Len(n2)
  <2> HIDE DEF a
  <2> QED BY <1>3, EmptySeq, StringPlaced, Zenon
<1>5. /\ c \in Seq(Nat) /\ Len(c) = Len(b) + 1 + Len(n3)
      /\ w \in Seq(Nat) /\ Len(w) = Len(b) + 1 + Len(n3) + Len(rest)
      /\ StringIn(w, Len(b) + 1, n3)
  <2> HIDE DEF b
  <2> QED BY <1>4, StringPlaced, Zenon
<1>6. StringIn(w, Len(a) + 1, n2)
  <2>1. p3 \o rest \in Seq(Nat)
    BY <1>2, ConcatFacts, Zenon
  <2> HIDE DEF a
  <2>2. StringIn((a \o Prefixed(n2)) \o (p3 \o rest), Len(a) + 1, n2)
    BY <1>3, <2>1, StringPlaced, Zenon
  <2> HIDE DEF p3
  <2>3. w = b \o (p3 \o rest)
    BY <1>2, <1>4, Regrouped, ZenonT(30)
  <2> QED BY <2>2, <2>3, Zenon
<1>7. StringIn(w, Len(fields) + 1, n1)
  <2>1. p3 \o rest \in Seq(Nat)
    BY <1>2, ConcatFacts, Zenon
  <2>2. p2 \o (p3 \o rest) \in Seq(Nat)
    BY <1>2, <2>1, ConcatFacts, Zenon
  <2>3. StringIn((fields \o Prefixed(n1)) \o (p2 \o (p3 \o rest)), Len(fields) + 1, n1)
    BY <2>2, StringPlaced, Zenon
  <2> HIDE DEF p2, p3, a
  <2>4. w = b \o (p3 \o rest)
    BY <1>2, <1>4, Regrouped, ZenonT(30)
  <2>5. b \o (p3 \o rest) = a \o (p2 \o (p3 \o rest))
    BY <1>2, <1>3, <2>1, Regrouped, ZenonT(30)
  <2> QED BY <2>3, <2>4, <2>5, Zenon DEF a
<1> HIDE DEF a, b, c, w
<1>8. /\ Len(fields) + 1 = 13 /\ Len(a) + 1 = 14 + Len(n1) /\ Len(b) + 1 = 15 + Len(n1) + Len(n2)
      /\ Len(w) = 15 + Len(n1) + Len(n2) + Len(n3) + Len(rest)
  BY <1>1, <1>3, <1>4, <1>5
<1>9. NamesIn(w, n1, n2, n3)
  BY <1>5, <1>6, <1>7, <1>8, Zenon DEF NamesIn
<1> QED BY <1>5, <1>8, <1>9, Zenon DEF w, c, b, a

LEMMA NamesRead ==
  ASSUME NEW w \in Seq(Nat), NEW cut \in Nat, 12 <= cut, cut <= Len(w),
         NEW n1 \in Seq(Nat), NEW n2 \in Seq(Nat), NEW n3 \in Seq(Nat), NamesIn(w, n1, n2, n3)
  PROVE  LET names == ParseDeviceInfo(SubSeq(w, 1, cut)).names
         IN  /\ names = <<names[1], names[2], names[3]>>
             /\ cut >= 13 + Len(n1) => names[1] = n1
             /\ cut < 13 + Len(n1) => names[1] = <<>>
             /\ cut >= 14 + Len(n1) + Len(n2) => names[2] = n2
             /\ 13 + Len(n1) <= cut /\ cut < 14 + Len(n1) + Len(n2) => names[2] = <<>>
             /\ cut >= 15 + Len(n1) + Len(n2) + Len(n3) => names[3] = n3
             /\ 14 + Len(n1) + Len(n2) <= cut /\ cut < 15 + Len(n1) + Len(n2) + Len(n3)
                  => names[3] = <<>>
<1> DEFINE d == SubSeq(w, 1, cut)
           friendly == StringAt(d, 13)
           device == StringAt(d, friendly.next)
           model == StringAt(d, device.next)
           names == ParseDeviceInfo(d).names
<1>1. Len(n1) \in Nat /\ Len(n2) \in Nat /\ Len(n3) \in Nat
  OBVIOUS
<1>2. Len(d) = cut
  <2>1. 0 \in Nat /\ 0 + 0 <= cut
    OBVIOUS
  <2> QED BY <2>1, PartOfBeginning
<1>3. /\ 13 + Len(n1) <= cut => friendly = [name |-> n1, next |-> 13 + Len(n1) + 1]
      /\ cut < 13 + Len(n1) => friendly.name = <<>>
  <2>1. 13 \in Nat /\ 13 > 0 /\ StringIn(w, 13, n1)
    BY DEF NamesIn
  <2> QED BY <2>1, StringRead
<1>4. ASSUME NEW pos \in Nat, pos = 14 + Len(n1)
      PROVE  /\ pos + Len(n2) <= cut => StringAt(d, pos) = [name |-> n2, next |-> pos + Len(n2) + 1]
             /\ cut < pos + Len(n2) => StringAt(d, pos).name = <<>>
  <2>1. pos > 0 /\ StringIn(w, pos, n2)
    BY <1>1, <1>4 DEF NamesIn
  <2> QED BY <2>1, StringRead
<1>5. ASSUME NEW pos \in Nat, pos = 15 + Len(n1) + Len(n2)
      PROVE  /\ pos + Len(n3) <= cut => StringAt(d, pos) = [name |-> n3, next |-> pos + Len(n3) + 1]
             /\ cut < pos + Len(n3) => StringAt(d, pos).name = <<>>
  <2>1. pos > 0 /\ StringIn(w, pos, n3)
    BY <1>1, <1>5 DEF NamesIn
  <2> QED BY <2>1, StringRead
<1> HIDE DEF d
<1>6. names = <<friendly.name, device.name, model.name>>
  <2>1. ParseDeviceInfo(d) =
          [ok |-> TRUE, protocol |-> U16(d, 1), product |-> U16(d, 3),
           unit |-> SubSeq(d, 5, 8), software |-> U16(d, 9), maxPacket |-> U16(d, 11),
           names |-> <<friendly.name, device.name, model.name>>]
    <3>1. ~(Len(d) < 12)
      BY <1>2
    <3> QED BY <3>1, Zenon DEF ParseDeviceInfo
  <2> HIDE DEF friendly, device, model
  <2> QED BY <2>1
<1> HIDE DEF names
<1>7. names[1] = friendly.name /\ names[2] = device.name /\ names[3] = model.name
  BY <1>6
<1> DEFINE at2 == 14 + Len(n1)
           at3 == 15 + Len(n1) + Len(n2)
<1>8. ASSUME 13 + Len(n1) <= cut PROVE device = StringAt(d, at2) /\ friendly.name = n1
  <2>1. friendly = [name |-> n1, next |-> 13 + Len(n1) + 1]
    BY <1>3, <1>8
  <2> HIDE DEF friendly
  <2>2. friendly.next = 13 + Len(n1) + 1 /\ friendly.name = n1
    BY <2>1
  <2>3. 13 + Len(n1) + 1 = at2
    BY <1>1
  <2> QED BY <2>2, <2>3, Zenon
<1>9. at2 \in Nat /\ at3 \in Nat /\ at2 + Len(n2) + 1 = at3
  BY <1>1
<1> HIDE DEF friendly
<1>10. /\ at2 + Len(n2) <= cut => StringAt(d, at2) = [name |-> n2, next |-> at3]
       /\ cut < at2 + Len(n2) => StringAt(d, at2).name = <<>>
  BY <1>4, <1>9, Zenon
<1>11. /\ at3 + Len(n3) <= cut => StringAt(d, at3) = [name |-> n3, next |-> at3 + Len(n3) + 1]
       /\ cut < at3 + Len(n3) => StringAt(d, at3).name = <<>>
  BY <1>5, <1>9, Zenon
<1>12. ASSUME at2 + Len(n2) <= cut PROVE model = StringAt(d, at3) /\ device.name = n2
  <2>1. device = [name |-> n2, next |-> at3]
    <3>1. 13 + Len(n1) <= cut
      BY <1>1, <1>12
    <3> QED BY <1>8, <1>10, <1>12, <3>1, Zenon
  <2> HIDE DEF device
  <2>2. device.next = at3 /\ device.name = n2
    BY <2>1
  <2> QED BY <2>2, Zenon
<1> HIDE DEF device, model
<1>13. at3 + Len(n3) <= cut => model.name = n3
  <2> SUFFICES ASSUME at3 + Len(n3) <= cut PROVE model.name = n3
    OBVIOUS
  <2>1. at2 + Len(n2) <= cut
    BY <1>1
  <2>2. model = [name |-> n3, next |-> at3 + Len(n3) + 1]
    BY <1>11, <1>12, <2>1, Zenon
  <2> QED BY <2>2
<1>14. at2 + Len(n2) <= cut /\ cut < at3 + Len(n3) => model.name = <<>>
  BY <1>11, <1>12, Zenon
<1>15. 13 + Len(n1) <= cut /\ cut < at2 + Len(n2) => device.name = <<>>
  BY <1>8, <1>10, Zenon
<1>16. names = <<names[1], names[2], names[3]>>
  BY <1>6, <1>7, Zenon
<1>17. /\ cut >= 13 + Len(n1) => names[1] = n1
       /\ cut < 13 + Len(n1) => names[1] = <<>>
       /\ cut >= 14 + Len(n1) + Len(n2) => names[2] = n2
       /\ 13 + Len(n1) <= cut /\ cut < 14 + Len(n1) + Len(n2) => names[2] = <<>>
       /\ cut >= 15 + Len(n1) + Len(n2) + Len(n3) => names[3] = n3
       /\ 14 + Len(n1) + Len(n2) <= cut /\ cut < 15 + Len(n1) + Len(n2) + Len(n3)
            => names[3] = <<>>
  BY <1>1, <1>3, <1>7, <1>8, <1>12, <1>13, <1>14, <1>15
<1> QED BY <1>16, <1>17, Zenon DEF names, d

Fields(protocol, product, unit, software, maxPacket) ==
  /\ protocol \in Nat /\ product \in Nat /\ software \in Nat /\ maxPacket \in Nat
  /\ unit \in Seq(Nat) /\ Len(unit) = 4
TwelveBytes(s) == s \in Seq(Nat) /\ Len(s) = 12

LEMMA FieldsFacts ==
  ASSUME NEW protocol, NEW product, NEW unit, NEW software, NEW maxPacket,
         Fields(protocol, product, unit, software, maxPacket)
  PROVE  TwelveBytes(DeviceFields(protocol, product, unit, software, maxPacket))
<1> DEFINE a == LittleEndian(protocol, 2)
           b == LittleEndian(product, 2)
           c == LittleEndian(software, 2)
           e == LittleEndian(maxPacket, 2)
           ab == a \o b
           abu == ab \o unit
           abuc == abu \o c
           all == abuc \o e
<1>1. /\ Bytes \subseteq Nat /\ unit \in Seq(Nat) /\ Len(unit) = 4
      /\ protocol \in Nat /\ product \in Nat /\ software \in Nat /\ maxPacket \in Nat
  BY DEF Bytes, Fields
<1>2. /\ a \in Seq(Bytes) /\ Len(a) = 2 /\ b \in Seq(Bytes) /\ Len(b) = 2
      /\ c \in Seq(Bytes) /\ Len(c) = 2 /\ e \in Seq(Bytes) /\ Len(e) = 2
  BY <1>1, TwoBytes, ZenonT(30)
<1>3. a \in Seq(Nat) /\ b \in Seq(Nat) /\ c \in Seq(Nat) /\ e \in Seq(Nat)
  BY <1>1, <1>2, SeqMonotonic, Zenon
<1>4. DeviceFields(protocol, product, unit, software, maxPacket) = all
  BY Zenon DEF DeviceFields
<1> HIDE DEF a, b, c, e
<1>5. ab \in Seq(Nat) /\ Len(ab) = Len(a) + Len(b)
  BY <1>3, ConcatFacts, Zenon
<1> HIDE DEF ab
<1>6. abu \in Seq(Nat) /\ Len(abu) = Len(ab) + Len(unit)
  BY <1>1, <1>5, ConcatFacts, Zenon
<1> HIDE DEF abu
<1>7. abuc \in Seq(Nat) /\ Len(abuc) = Len(abu) + Len(c)
  BY <1>3, <1>6, ConcatFacts, Zenon
<1> HIDE DEF abuc
<1>8. all \in Seq(Nat) /\ Len(all) = Len(abuc) + Len(e)
  BY <1>3, <1>7, ConcatFacts, Zenon
<1> HIDE DEF all
<1>9. Len(all) = 12
  BY <1>1, <1>2, <1>5, <1>6, <1>7, <1>8
<1> QED BY <1>4, <1>8, <1>9, Zenon DEF TwelveBytes

(* The fields before the names, the host's own and those of the device.     *)
HostFields == DeviceFields(150, 65535, <<255, 255, 255, 255>>, 100, 65535)
NamedFields == DeviceFields(150, 1000, <<1, 2, 3, 4>>, 100, 500)

LEMMA HostFieldsFacts == TwelveBytes(HostFields)
<1> DEFINE protocol == 150
           product == 65535
           unit == <<255, 255, 255, 255>>
           software == 100
<1>1. Fields(protocol, product, unit, software, product)
  BY DEF Fields
<1>2. HostFields = DeviceFields(protocol, product, unit, software, product)
  BY DEF HostFields
<1> HIDE DEF protocol, product, unit, software
<1> QED BY <1>1, <1>2, FieldsFacts, Zenon

LEMMA NamedFieldsFacts == TwelveBytes(NamedFields)
<1> DEFINE protocol == 150
           product == 1000
           unit == <<1, 2, 3, 4>>
           software == 100
           maxPacket == 500
<1>1. Fields(protocol, product, unit, software, maxPacket)
  BY DEF Fields
<1>2. NamedFields = DeviceFields(protocol, product, unit, software, maxPacket)
  BY DEF NamedFields
<1> HIDE DEF protocol, product, unit, software, maxPacket
<1> QED BY <1>1, <1>2, FieldsFacts, Zenon

(* The data of an ACK is what follows its third byte.                       *)
LEMMA AckData ==
  ASSUME NEW type \in Nat, NEW status \in Nat, NEW d \in Seq(Nat)
  PROVE  SubSeq(AckPayload(type, status, d), 4, Len(AckPayload(type, status, d))) = SubSeq(d, 1, Len(d))
<1> DEFINE name == LittleEndian(type, 2)
           head == name \o <<status>>
           whole == head \o d
<1>1. head \in Seq(Nat) /\ Len(head) = 3
  <2>1. <<status>> \in Seq(Nat) /\ Len(<<status>>) = 1 /\ Bytes \subseteq Nat
    BY DEF Bytes
  <2>2. name \in Seq(Bytes) /\ Len(name) = 2
    BY TwoBytes
  <2>3. name \in Seq(Nat)
    BY <2>1, <2>2, SeqMonotonic, Zenon
  <2> HIDE DEF name
  <2>4. head \in Seq(Nat) /\ Len(head) = Len(name) + Len(<<status>>)
    BY <2>1, <2>3, ConcatFacts, Zenon
  <2> QED BY <2>1, <2>2, <2>4
<1>2. AckPayload(type, status, d) = whole
  BY Zenon DEF AckPayload
<1> HIDE DEF head
<1>3. Len(whole) = Len(head) + Len(d)
  BY <1>1, ConcatFacts, Zenon
<1>4. SubSeq(whole, Len(head) + 1, Len(head) + Len(d)) = SubSeq(d, 1, Len(d))
  <2>1. Len(d) \in Nat /\ Len(d) <= Len(d)
    OBVIOUS
  <2> QED BY <1>1, <2>1, PartOfRest, Zenon
<1> HIDE DEF whole
<1>5. Len(head) + 1 = 4
  BY <1>1
<1> QED BY <1>2, <1>3, <1>4, <1>5, Zenon

LEMMA HostNamesRead ==
  ParseDeviceInfo(SubSeq(BuildDeviceInfoResponse, 4, Len(BuildDeviceInfoResponse))).names
    = HostNames
<1> DEFINE n1 == HostNames[1]
           n2 == HostNames[2]
           n3 == HostNames[3]
           w == (((HostFields \o Prefixed(n1)) \o Prefixed(n2)) \o Prefixed(n3)) \o <<1>>
           type == 5024
<1>1. /\ n1 \in Seq(Nat) /\ n2 \in Seq(Nat) /\ n3 \in Seq(Nat)
      /\ HostNames = <<n1, n2, n3>>
  BY DEF HostNames
<1>2. HostInfo = w
  BY DEF HostInfo, HostFields
<1>3. BuildDeviceInfoResponse = AckPayload(type, 0, HostInfo) /\ type \in Nat /\ 0 \in Nat
  BY DEF BuildDeviceInfoResponse
<1> HIDE DEF n1, n2, n3, type
<1>4. /\ w \in Seq(Nat) /\ Len(w) = 15 + Len(n1) + Len(n2) + Len(n3) + Len(<<1>>)
      /\ NamesIn(w, n1, n2, n3)
  <2>1. <<1>> \in Seq(Nat)
    OBVIOUS
  <2> QED BY <1>1, <2>1, HostFieldsFacts, NamesPlaced, Zenon DEF TwelveBytes
<1> HIDE DEF w
<1>5. Len(n1) \in Nat /\ Len(n2) \in Nat /\ Len(n3) \in Nat /\ Len(<<1>>) = 1 /\ Len(w) \in Nat
  BY <1>1, <1>4
<1>6. SubSeq(BuildDeviceInfoResponse, 4, Len(BuildDeviceInfoResponse)) = SubSeq(w, 1, Len(w))
  BY <1>2, <1>3, <1>4, AckData, Zenon
<1> DEFINE names == ParseDeviceInfo(SubSeq(w, 1, Len(w))).names
<1>7. names = <<n1, n2, n3>>
  <2> DEFINE cut == Len(w)
  <2>1. /\ cut \in Nat /\ 12 <= cut /\ cut <= Len(w)
        /\ cut >= 13 + Len(n1) /\ cut >= 14 + Len(n1) + Len(n2)
        /\ cut >= 15 + Len(n1) + Len(n2) + Len(n3)
    BY <1>4, <1>5
  <2> HIDE DEF names
  <2>2. /\ names = <<names[1], names[2], names[3]>>
        /\ names[1] = n1 /\ names[2] = n2 /\ names[3] = n3
    BY <1>1, <1>4, <2>1, NamesRead, ZenonT(30) DEF names
  <2> QED BY <2>2, Zenon
<1> QED BY <1>1, <1>6, <1>7, Zenon

LEMMA SplitFacts ==
  ASSUME NEW d \in Seq(Nat), NEW i \in 0 .. Len(d), NEW j \in i .. Len(d)
  PROVE  /\ SubSeq(d, 1, i) \in Seq(Nat) /\ Len(SubSeq(d, 1, i)) = i
         /\ SubSeq(d, i + 1, j) \in Seq(Nat) /\ Len(SubSeq(d, i + 1, j)) = j - i
         /\ SubSeq(d, j + 1, Len(d)) \in Seq(Nat) /\ Len(SubSeq(d, j + 1, Len(d))) = Len(d) - j
<1>1. /\ 0 \in Nat /\ i \in Nat /\ j \in Nat /\ j - i \in Nat /\ Len(d) - j \in Nat
      /\ 0 + i <= Len(d) /\ i + (j - i) <= Len(d) /\ j + (Len(d) - j) <= Len(d)
      /\ 0 + 1 = 1 /\ 0 + i = i /\ i + (j - i) = j /\ j + (Len(d) - j) = Len(d)
  OBVIOUS
<1>2. SubSeq(d, 0 + 1, 0 + i) \in Seq(Nat) /\ Len(SubSeq(d, 0 + 1, 0 + i)) = i
  BY <1>1, PartFacts, ZenonT(30)
<1>3. /\ SubSeq(d, i + 1, i + (j - i)) \in Seq(Nat)
      /\ Len(SubSeq(d, i + 1, i + (j - i))) = j - i
  BY <1>1, PartFacts, ZenonT(30)
<1>4. /\ SubSeq(d, j + 1, j + (Len(d) - j)) \in Seq(Nat)
      /\ Len(SubSeq(d, j + 1, j + (Len(d) - j))) = Len(d) - j
  BY <1>1, PartFacts, ZenonT(30)
<1> QED BY <1>1, <1>2, <1>3, <1>4, Zenon

LEMMA NamedFacts ==
  ASSUME NEW n1 \in Seq(Nat), NEW n2 \in Seq(Nat), NEW n3 \in Seq(Nat)
  PROVE  /\ Named(<<n1, n2, n3>>) \in Seq(Nat)
         /\ Len(Named(<<n1, n2, n3>>)) = 15 + Len(n1) + Len(n2) + Len(n3)
         /\ NamesIn(Named(<<n1, n2, n3>>), n1, n2, n3)
<1> DEFINE v == ((NamedFields \o Prefixed(n1)) \o Prefixed(n2)) \o Prefixed(n3)
<1>1. Named(<<n1, n2, n3>>) = v
  <2> DEFINE names == <<n1, n2, n3>>
  <2>1. names[1] = n1 /\ names[2] = n2 /\ names[3] = n3
    OBVIOUS
  <2> HIDE DEF names
  <2>2. Named(names) = v
    BY <2>1 DEF Named, NamedFields
  <2> QED BY <2>2, Zenon DEF names
<1>2. <<>> \in Seq(Nat) /\ Len(<<>>) = 0
  BY EmptySeq, Zenon
<1>3. v \in Seq(Nat)
  <2>1. NamedFields \o Prefixed(n1) \in Seq(Nat)
    BY <1>2, NamedFieldsFacts, StringPlaced, Zenon DEF TwelveBytes
  <2>2. (NamedFields \o Prefixed(n1)) \o Prefixed(n2) \in Seq(Nat)
    BY <1>2, <2>1, StringPlaced, Zenon
  <2> QED BY <1>2, <2>2, StringPlaced, Zenon
<1>4. /\ Len(v \o <<>>) = 15 + Len(n1) + Len(n2) + Len(n3) + Len(<<>>)
      /\ NamesIn(v \o <<>>, n1, n2, n3)
  <2>1. LET r == (((NamedFields \o Prefixed(n1)) \o Prefixed(n2)) \o Prefixed(n3)) \o <<>>
        IN  /\ r \in Seq(Nat) /\ Len(r) = 15 + Len(n1) + Len(n2) + Len(n3) + Len(<<>>)
            /\ NamesIn(r, n1, n2, n3)
    BY <1>2, NamedFieldsFacts, NamesPlaced DEF TwelveBytes
  <2> QED BY <2>1, Zenon
<1> HIDE DEF v
<1>5. v \o <<>> = v
  BY <1>3, ConcatEmptySeq, Zenon
<1>6. 15 + Len(n1) + Len(n2) + Len(n3) + Len(<<>>) = 15 + Len(n1) + Len(n2) + Len(n3)
  <2>1. Len(n1) \in Nat /\ Len(n2) \in Nat /\ Len(n3) \in Nat
    OBVIOUS
  <2> QED BY <1>2, <2>1
<1> QED BY <1>1, <1>3, <1>4, <1>5, <1>6, Zenon

LEMMA SentNamesCarried ==
  ASSUME Sent
  PROVE  NamesCarried
<1>1. payload \in Seq(Nat)
  <2>1. payload \in Seq(Bytes) /\ Bytes \subseteq Nat
    BY SentTypes DEF Bytes
  <2> QED BY <2>1, SeqMonotonic, Zenon
<1>2. ASSUME NEW i \in 0 .. Len(payload), NEW j \in i .. Len(payload)
      PROVE  LET names == <<SubSeq(payload, 1, i), SubSeq(payload, i + 1, j),
                            SubSeq(payload, j + 1, Len(payload))>>
                 EndOf(k) == IF k = 0 THEN 12 ELSE IF k = 1 THEN 13 + i
                             ELSE IF k = 2 THEN 14 + j ELSE 15 + Len(payload)
             IN  \A cut \in 12 .. Len(Named(names)) :
                   LET parsed == ParseDeviceInfo(SubSeq(Named(names), 1, cut)).names
                   IN  \A k \in 1 .. 3 :
                         /\ cut >= EndOf(k) => parsed[k] = names[k]
                         /\ EndOf(k - 1) <= cut /\ cut < EndOf(k) => parsed[k] = <<>>
  <2> DEFINE n1 == SubSeq(payload, 1, i)
             n2 == SubSeq(payload, i + 1, j)
             n3 == SubSeq(payload, j + 1, Len(payload))
             names == <<n1, n2, n3>>
             w == Named(names)
             EndOf(k) == IF k = 0 THEN 12 ELSE IF k = 1 THEN 13 + i
                         ELSE IF k = 2 THEN 14 + j ELSE 15 + Len(payload)
  <2>1. /\ n1 \in Seq(Nat) /\ Len(n1) = i /\ n2 \in Seq(Nat) /\ Len(n2) = j - i
        /\ n3 \in Seq(Nat) /\ Len(n3) = Len(payload) - j
    BY <1>1, <1>2, SplitFacts, Zenon
  <2> HIDE DEF n1, n2, n3
  <2>2. w \in Seq(Nat) /\ NamesIn(w, n1, n2, n3)
    BY <2>1, NamedFacts, Zenon
  <2>3. names[1] = n1 /\ names[2] = n2 /\ names[3] = n3
    OBVIOUS
  <2>4. /\ i \in Nat /\ j \in Nat /\ i <= j /\ Len(payload) \in Nat /\ j <= Len(payload)
        /\ 13 + Len(n1) = 13 + i /\ 14 + Len(n1) + Len(n2) = 14 + j
        /\ 15 + Len(n1) + Len(n2) + Len(n3) = 15 + Len(payload)
    BY <1>1, <1>2, <2>1
  <2> HIDE DEF w, names
  <2>5. ASSUME NEW cut \in 12 .. Len(w)
        PROVE  LET parsed == ParseDeviceInfo(SubSeq(w, 1, cut)).names
               IN  \A k \in 1 .. 3 :
                     /\ cut >= EndOf(k) => parsed[k] = names[k]
                     /\ EndOf(k - 1) <= cut /\ cut < EndOf(k) => parsed[k] = <<>>
    <3> DEFINE parsed == ParseDeviceInfo(SubSeq(w, 1, cut)).names
    <3>1. cut \in Nat /\ 12 <= cut /\ cut <= Len(w)
      BY <2>2, <2>5
    <3>2. /\ cut >= 13 + Len(n1) => parsed[1] = n1
          /\ cut < 13 + Len(n1) => parsed[1] = <<>>
          /\ cut >= 14 + Len(n1) + Len(n2) => parsed[2] = n2
          /\ 13 + Len(n1) <= cut /\ cut < 14 + Len(n1) + Len(n2) => parsed[2] = <<>>
          /\ cut >= 15 + Len(n1) + Len(n2) + Len(n3) => parsed[3] = n3
          /\ 14 + Len(n1) + Len(n2) <= cut /\ cut < 15 + Len(n1) + Len(n2) + Len(n3)
               => parsed[3] = <<>>
      BY <2>1, <2>2, <3>1, NamesRead, Zenon
    <3> HIDE DEF parsed
    <3>3. ASSUME NEW k \in 1 .. 3
          PROVE  /\ cut >= EndOf(k) => parsed[k] = names[k]
                 /\ EndOf(k - 1) <= cut /\ cut < EndOf(k) => parsed[k] = <<>>
      <4>1. CASE k = 1
        <5>1. EndOf(1) = 13 + i /\ EndOf(1 - 1) = 12
          OBVIOUS
        <5> HIDE DEF EndOf
        <5> QED BY <2>3, <2>4, <3>2, <4>1, <5>1
      <4>2. CASE k = 2
        <5>1. EndOf(2) = 14 + j /\ EndOf(2 - 1) = 13 + i
          OBVIOUS
        <5> HIDE DEF EndOf
        <5> QED BY <2>3, <2>4, <3>2, <4>2, <5>1
      <4>3. CASE k = 3
        <5>1. EndOf(3) = 15 + Len(payload) /\ EndOf(3 - 1) = 14 + j
          OBVIOUS
        <5> HIDE DEF EndOf
        <5> QED BY <2>3, <2>4, <3>2, <4>3, <5>1
      <4>4. k = 1 \/ k = 2 \/ k = 3
        OBVIOUS
      <4> QED BY <4>1, <4>2, <4>3, <4>4, Zenon
    <3> HIDE DEF EndOf
    <3> QED BY <3>3, Zenon DEF parsed
  <2> HIDE DEF EndOf
  <2> QED BY <2>5, Zenon DEF w, names, n1, n2, n3, EndOf
<1> QED BY <1>2, HostNamesRead, Zenon DEF NamesCarried

-----------------------------------------------------------------------------
(* Capabilities. *)

BitsOf(d, kept) == {c \in 0 .. 8 * kept - 1 : BitSet(d[c \div 8 + 1], c % 8)}

LEMMA BitNumber ==
  ASSUME NEW i \in Nat, i > 0, NEW bit \in 0 .. 7
  PROVE  /\ (8 * (i - 1) + bit) \div 8 + 1 = i /\ (8 * (i - 1) + bit) % 8 = bit
         /\ 8 * (i - 1) + bit \in Nat
         /\ \A n \in Nat : i <= n => 8 * (i - 1) + bit <= 8 * n - 1
OBVIOUS

LEMMA CapabilitiesRead ==
  ASSUME NEW size \in Nat, NEW d \in Seq(Nat), NEW kept \in Nat,
         kept = IF size < Len(d) THEN size ELSE Len(d)
  PROVE  ParseCapabilities(<<size>> \o d) = BitsOf(d, kept)
<1> DEFINE h == <<size>>
           e == h \o d
           m == Bitmap(e)
           Set == {8 * (p[1] - 1) + p[2] : p \in
                    {q \in (1 .. kept) \X (0 .. 7) : BitSet(m[q[1]], q[2])}}
<1>1. h \in Seq(Nat) /\ Len(h) = 1 /\ h[1] = size
  OBVIOUS
<1>2. Len(d) \in Nat /\ kept <= Len(d)
  OBVIOUS
<1> HIDE DEF h
<1>3. e \in Seq(Nat) /\ Len(e) = 1 + Len(d) /\ e[1] = size
  <2>1. e \in Seq(Nat) /\ Len(e) = Len(h) + Len(d) /\ \A k \in 1 .. Len(h) : e[k] = h[k]
    BY <1>1, ConcatFacts, Zenon
  <2> HIDE DEF e
  <2> QED BY <1>1, <2>1
<1>4. SubSeq(e, Len(h) + 1, Len(h) + kept) = SubSeq(d, 1, kept)
  BY <1>1, <1>2, PartOfRest, Zenon
<1> HIDE DEF e
<1>5. m = SubSeq(d, 1, kept)
  <2>1. Len(h) + 1 = 2 /\ Len(h) + kept = IF 1 + e[1] < Len(e) THEN 1 + e[1] ELSE Len(e)
    BY <1>1, <1>2, <1>3
  <2> QED BY <1>4, <2>1, Zenon DEF Bitmap
<1>6. m \in Seq(Nat) /\ Len(m) = kept /\ \A k \in 1 .. kept : m[k] = d[k]
  <2>1. 0 \in Nat /\ 0 + kept <= Len(d) /\ 0 + 1 = 1 /\ 0 + kept = kept
        /\ \A k \in 1 .. kept : 0 + k = k
    BY <1>2
  <2> QED BY <1>5, <2>1, PartFacts
<1> HIDE DEF m
<1>7. DOMAIN m = 1 .. kept
  BY <1>6
<1>8. ParseCapabilities(e) = Set
  <2>1. e # <<>>
    BY <1>2, <1>3
  <2> QED BY <1>7, <2>1, Zenon DEF ParseCapabilities, m
<1>9. ASSUME NEW c \in Set
      PROVE  c \in 0 .. 8 * kept - 1 /\ BitSet(d[c \div 8 + 1], c % 8)
  <2>1. PICK i \in 1 .. kept, bit \in 0 .. 7 : c = 8 * (i - 1) + bit /\ BitSet(m[i], bit)
    BY <1>9
  <2> HIDE DEF Set
  <2>2. i \in Nat /\ i > 0 /\ i <= kept
    OBVIOUS
  <2>3. /\ c \div 8 + 1 = i /\ c % 8 = bit /\ c \in Nat
        /\ \A n \in Nat : i <= n => c <= 8 * n - 1
    BY <2>1, <2>2, BitNumber, Zenon
  <2>4. c \in 0 .. 8 * kept - 1
    <3>1. c <= 8 * kept - 1
      BY <2>2, <2>3
    <3> QED BY <2>3, <3>1
  <2> QED BY <1>6, <2>1, <2>3, <2>4, Zenon
<1>10. ASSUME NEW c \in 0 .. 8 * kept - 1, BitSet(d[c \div 8 + 1], c % 8)
       PROVE  c \in Set
  <2> DEFINE i == c \div 8 + 1
             bit == c % 8
  <2>1. i \in 1 .. kept /\ bit \in 0 .. 7 /\ 8 * (i - 1) + bit = c
    OBVIOUS
  <2>2. BitSet(d[i], bit)
    BY <1>10, Zenon
  <2> HIDE DEF i, bit
  <2>3. BitSet(m[i], bit)
    BY <1>6, <2>1, <2>2, Zenon
  <2> DEFINE pair == <<i, bit>>
  <2>4. pair[1] = i /\ pair[2] = bit /\ pair \in (1 .. kept) \X (0 .. 7)
    BY <2>1
  <2> HIDE DEF pair
  <2>5. pair \in {q \in (1 .. kept) \X (0 .. 7) : BitSet(m[q[1]], q[2])}
    BY <2>3, <2>4, Zenon
  <2>6. c = 8 * (pair[1] - 1) + pair[2]
    BY <2>1, <2>4, Zenon
  <2> QED BY <2>5, <2>6, Zenon
<1>11. Set = BitsOf(d, kept)
  <2> HIDE DEF Set
  <2> QED BY <1>9, <1>10, Zenon DEF BitsOf
<1> QED BY <1>8, <1>11, Zenon DEF e, h

LEMMA HostBitsRead == ParseCapabilities(HostCapabilities) = {CapSwingSensor}
<1> DEFINE bits == [i \in 1 .. 13 |->
                     IF i = CapSwingSensor \div 8 + 1 THEN 2^(CapSwingSensor % 8) ELSE 0]
           kept == 13
<1>1. /\ 2^0 = 1 /\ 2^1 = 2 /\ 2^2 = 4 /\ 2^3 = 8 /\ 2^4 = 16 /\ 2^5 = 32 /\ 2^6 = 64 /\ 2^7 = 128
  OBVIOUS
<1>2. CapSwingSensor = 30 /\ CapSwingSensor \div 8 + 1 = 4 /\ CapSwingSensor % 8 = 6
  BY DEF CapSwingSensor
<1>3. \A i \in 1 .. 13 : bits[i] = IF i = 4 THEN 64 ELSE 0
  <2>1. \A i \in 1 .. 13 :
          bits[i] = IF i = CapSwingSensor \div 8 + 1 THEN 2^(CapSwingSensor % 8) ELSE 0
    OBVIOUS
  <2> HIDE DEF bits
  <2>2. 2^(CapSwingSensor % 8) = 64
    BY <1>1, <1>2, Zenon
  <2> QED BY <1>2, <2>1, <2>2
<1>4. bits \in Seq(Nat) /\ Len(bits) = 13
  <2>1. bits = [i \in 1 .. 13 |-> bits[i]] /\ DOMAIN bits = 1 .. 13
    OBVIOUS
  <2>2. \A i \in 1 .. 13 : bits[i] \in Nat
    <3> HIDE DEF bits
    <3> QED BY <1>3
  <2> HIDE DEF bits
  <2>3. bits \in [1 .. 13 -> Nat]
    BY <2>1, <2>2
  <2>4. bits \in Seq(Nat)
    <3>1. 13 \in Nat
      OBVIOUS
    <3> QED BY <2>3, <3>1, SeqDef, Zenon
  <2>5. Len(bits) \in Nat /\ DOMAIN bits = 1 .. Len(bits)
    BY <2>4, LenProperties
  <2> QED BY <2>1, <2>4, <2>5
<1>5. HostCapabilities = <<13>> \o bits
  BY DEF HostCapabilities
<1> HIDE DEF bits
<1>6. ParseCapabilities(HostCapabilities) = BitsOf(bits, kept)
  <2>1. 13 \in Nat /\ kept \in Nat /\ kept = IF 13 < Len(bits) THEN 13 ELSE Len(bits)
    BY <1>4
  <2> HIDE DEF kept
  <2> QED BY <1>4, <1>5, <2>1, CapabilitiesRead, Zenon
<1>7. ASSUME NEW b \in 0 .. 7 PROVE ~BitSet(0, b) /\ (BitSet(64, b) <=> b = 6)
  <2>1. b = 0 \/ b = 1 \/ b = 2 \/ b = 3 \/ b = 4 \/ b = 5 \/ b = 6 \/ b = 7
    OBVIOUS
  <2> DEFINE Tells(k) == ~BitSet(0, k) /\ (BitSet(64, k) <=> k = 6)
  <2>2. Tells(0) /\ Tells(1) /\ Tells(2) /\ Tells(3)
    BY <1>1 DEF BitSet
  <2>3. Tells(4) /\ Tells(5) /\ Tells(6) /\ Tells(7)
    BY <1>1 DEF BitSet
  <2> HIDE DEF Tells
  <2>4. Tells(b)
    BY <2>1, <2>2, <2>3, Zenon
  <2> QED BY <2>4 DEF Tells
<1>8. ASSUME NEW c \in 0 .. 8 * kept - 1
      PROVE  BitSet(bits[c \div 8 + 1], c % 8) <=> c = 30
  <2>1. c \div 8 + 1 \in 1 .. 13 /\ c % 8 \in 0 .. 7
        /\ (c = 30 <=> c \div 8 + 1 = 4 /\ c % 8 = 6)
    OBVIOUS
  <2>2. bits[c \div 8 + 1] = IF c \div 8 + 1 = 4 THEN 64 ELSE 0
    BY <1>3, <2>1
  <2>3. CASE c \div 8 + 1 = 4
    <3>1. bits[c \div 8 + 1] = 64
      BY <2>2, <2>3
    <3> QED BY <1>7, <2>1, <2>3, <3>1
  <2>4. CASE c \div 8 + 1 # 4
    <3>1. bits[c \div 8 + 1] = 0
      BY <2>2, <2>4
    <3> QED BY <1>7, <2>1, <2>4, <3>1
  <2> QED BY <2>3, <2>4
<1>9. BitsOf(bits, kept) = {30}
  <2>1. 30 \in 0 .. 8 * kept - 1
    OBVIOUS
  <2> QED BY <1>8, <2>1 DEF BitsOf
<1> QED BY <1>2, <1>6, <1>9

LEMMA SentCapabilitiesCarried ==
  ASSUME Sent
  PROVE  CapabilitiesCarried
<1>1. payload \in Seq(Nat)
  <2>1. payload \in Seq(Bytes) /\ Bytes \subseteq Nat
    BY SentTypes DEF Bytes
  <2> QED BY <2>1, SeqMonotonic, Zenon
<1>2. ASSUME NEW size \in 0 .. MaxPayload + 1
      PROVE  LET kept == IF size < Len(payload) THEN size ELSE Len(payload) IN
             ParseCapabilities(<<size>> \o payload) =
               {c \in 0 .. 8 * kept - 1 : BitSet(payload[c \div 8 + 1], c % 8)}
  <2> DEFINE kept == IF size < Len(payload) THEN size ELSE Len(payload)
  <2>1. size \in Nat /\ kept \in Nat
    BY <1>1, FramingAssumption
  <2>2. kept = IF size < Len(payload) THEN size ELSE Len(payload)
    OBVIOUS
  <2> HIDE DEF kept
  <2>3. ParseCapabilities(<<size>> \o payload) = BitsOf(payload, kept)
    BY <1>1, <2>1, <2>2, CapabilitiesRead, Zenon
  <2> QED BY <2>3, Zenon DEF kept, BitsOf
<1> QED BY <1>2, HostBitsRead, Zenon DEF CapabilitiesCarried

(* Wherever the payload of a device's 5024 is cut off, its names before the  *)
(* cut come out of parse_device_info as they went in and the name that is    *)
(* cut is empty; its capabilities are the bits of the bitmap that is there;  *)
(* and the host's own are what build_device_info_response and                *)
(* build_host_capabilities say: for names and bitmaps of any length.         *)
THEOREM HandshakeCarriedTheorem == Spec => []HandshakeCarried
<1>1. Sent => HandshakeCarried
  BY SentNamesCarried, SentCapabilitiesCarried, Zenon DEF HandshakeCarried
<1> QED BY <1>1, SentKept, PTL
===============================================================================
