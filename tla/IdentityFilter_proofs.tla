------------------------ MODULE IdentityFilter_proofs ------------------------
(***************************************************************************)
(* Proofs about IdentityFilter, for any bytes, any classification, any     *)
(* bounds and chunks of any length.                                        *)
(***************************************************************************)
EXTENDS IdentityFilter, SequenceTheorems, TLAPS

(* FramesOf(c) \subseteq F, said of the marks themselves. *)
Within(c, F) == \A m \in carries : m[1] = c => m[2] \in F

(* What a chunk still to be judged may carry. *)
Hopeful == safe \cup {number}

Numbered ==
  /\ \A m \in carries : m[1] <= chunk /\ m[2] <= number
  /\ \A f \in safe : f < number
  /\ content = <<>> => \A m \in carries : m[2] < number
Faithful == ~tainted => frame = content
HeldHopeful == \A c \in Elements(held) : c < chunk /\ Within(c, Hopeful)
KeepHopeful == keep => Within(chunk, Hopeful)
ReleasedSafe == \A c \in Elements(released) : c < chunk /\ Within(c, safe)

(* NoLeak is not inductive: a held chunk is released later, and the chunk   *)
(* in hand is released at its end, so both may carry only safe frames and   *)
(* the one in progress; and the frame that frame_excluded judges must be    *)
(* the frame that crossed the wire, unless it is tainted.                   *)
IInv ==
  /\ TypeOK
  /\ Numbered
  /\ Faithful
  /\ HeldHopeful
  /\ KeepHopeful
  /\ ReleasedSafe

LEMMA WithinFramesOf ==
  ASSUME NEW c, NEW F
  PROVE  Within(c, F) <=> FramesOf(c) \subseteq F
  BY DEF Within, FramesOf

LEMMA NoLeakFromIInv == IInv => NoLeak
  BY WithinFramesOf DEF IInv, ReleasedSafe, NoLeak

LEMMA AppendFacts ==
  ASSUME NEW S, NEW s \in Seq(S), NEW e \in S
  PROVE  /\ Append(s, e) \in Seq(S) /\ Append(s, e) # <<>>
         /\ Len(Append(s, e)) = Len(s) + 1
  BY AppendProperties

LEMMA ElementsEmpty == Elements(<<>>) = {}
  BY DEF Elements

LEMMA ElementsConcat ==
  ASSUME NEW s \in Seq(Nat), NEW t \in Seq(Nat)
  PROVE  s \o t \in Seq(Nat) /\ Elements(s \o t) = Elements(s) \cup Elements(t)
<1>1. s \o t \in Seq(Nat) /\ Elements(s \o t) \subseteq Elements(s) \cup Elements(t)
  BY DEF Elements
<1>2. \A i \in DOMAIN s : i \in DOMAIN (s \o t) /\ (s \o t)[i] = s[i]
  BY ConcatProperties
<1>3. \A i \in DOMAIN t : Len(s) + i \in DOMAIN (s \o t) /\ (s \o t)[Len(s) + i] = t[i]
  BY ConcatProperties
<1>4. Elements(s) \subseteq Elements(s \o t)
  BY <1>2 DEF Elements
<1>5. Elements(t) \subseteq Elements(s \o t)
  BY <1>3 DEF Elements
<1> QED BY <1>1, <1>4, <1>5

LEMMA ElementsAppend ==
  ASSUME NEW s \in Seq(Nat), NEW e \in Nat
  PROVE  Elements(Append(s, e)) = Elements(s) \cup {e}
<1>1. <<e>> \in Seq(Nat) /\ Elements(<<e>>) = {e}
  BY DEF Elements
<1>2. Append(s, e) = s \o <<e>>
  BY AppendIsConcat
<1> QED BY <1>1, <1>2, ElementsConcat

LEMMA ElementsNat ==
  ASSUME NEW s \in Seq(Nat), NEW c \in Elements(s)
  PROVE  c \in Nat
  BY DEF Elements

LEMMA InitIInv == Init => IInv
<1> SUFFICES ASSUME Init PROVE IInv
  OBVIOUS
<1>1. TypeOK
  <2>1. frame \in Seq(Bytes) /\ content \in Seq(Bytes)
    BY DEF Init
  <2>2. held \in Seq(Nat) /\ released \in Seq(Nat)
    BY DEF Init
  <2>3. carries \subseteq Nat \X Nat /\ safe \subseteq Nat /\ overrun \subseteq Nat
    BY DEF Init
  <2>4. Len(frame) <= MaxFrameBytes /\ Len(held) <= MaxHeldChunks
    BY FilterAssumption DEF Init
  <2> QED BY <2>1, <2>2, <2>3, <2>4 DEF Init, TypeOK
<1>2. Numbered /\ Faithful /\ KeepHopeful
  BY DEF Init, Numbered, Faithful, KeepHopeful, Within
<1>3. HeldHopeful /\ ReleasedSafe
  BY ElementsEmpty DEF Init, HeldHopeful, ReleasedSafe
<1> QED BY <1>1, <1>2, <1>3 DEF IInv

(* A mark on the chunk in hand does not concern an earlier one. *)
LEMMA EarlierUnmarked ==
  ASSUME IInv, NEW c \in Nat, c < chunk, NEW F, Within(c, F),
         carries' \subseteq carries \cup {<<chunk, number>>}
  PROVE  \A m \in carries' : m[1] = c => m[2] \in F
  BY DEF IInv, TypeOK, Within

LEMMA ByteIInv ==
  ASSUME IInv, NEW b \in Bytes, FeedByte(b)
  PROVE  IInv'
<1>1. TypeOK'
  <2>1. frame' \in Seq(Bytes) /\ content' \in Seq(Bytes)
    BY AppendFacts DEF FeedByte, IInv, TypeOK
  <2>2. tainted' \in BOOLEAN /\ overrun' \subseteq Nat
    BY DEF FeedByte, IInv, TypeOK
  <2>3. size' \in Nat /\ carries' \subseteq Nat \X Nat
    BY DEF FeedByte, Feeds, Marks, IInv, TypeOK
  <2>4. Len(frame') <= MaxFrameBytes
    BY FilterAssumption, AppendFacts DEF FeedByte, IInv, TypeOK
  <2> QED BY <2>1, <2>2, <2>3, <2>4 DEF FeedByte, Feeds, IInv, TypeOK
<1>2. carries' = carries \cup {<<chunk, number>>}
      /\ UNCHANGED <<held, keep, released, number, safe, chunk>>
  BY DEF FeedByte, Feeds, Marks
<1>3. Numbered'
  <2>1. content' # <<>>
    BY AppendFacts DEF FeedByte, IInv, TypeOK
  <2> QED BY <1>2, <2>1 DEF IInv, TypeOK, Numbered
<1>4. Faithful'
  BY DEF FeedByte, IInv, Faithful
<1>5. HeldHopeful'
  <2> SUFFICES ASSUME NEW c \in Elements(held) PROVE c < chunk /\ Within(c, Hopeful)'
    BY <1>2 DEF HeldHopeful, Elements
  <2> QED BY <1>2, ElementsNat, EarlierUnmarked DEF IInv, TypeOK, HeldHopeful, Within, Hopeful
<1>7. ReleasedSafe'
  <2> SUFFICES ASSUME NEW c \in Elements(released) PROVE c < chunk /\ Within(c, safe)'
    BY <1>2 DEF ReleasedSafe, Elements
  <2> QED BY <1>2, ElementsNat, EarlierUnmarked DEF IInv, TypeOK, ReleasedSafe, Within
<1>6. KeepHopeful'
  BY <1>2 DEF IInv, KeepHopeful, Within, Hopeful
<1> QED BY <1>1, <1>3, <1>4, <1>5, <1>6, <1>7 DEF IInv

LEMMA DelimiterIInv ==
  ASSUME IInv, FeedDelimiter
  PROVE  IInv'
<1>1. /\ frame' = <<>> /\ content' = <<>> /\ held' = <<>> /\ tainted' = FALSE
      /\ number' = number + 1
      /\ carries' = carries \cup {<<chunk, number>>}
      /\ UNCHANGED <<chunk, overrun>>
      /\ safe' = IF content \in Excluded THEN safe ELSE safe \cup {number}
  BY DEF FeedDelimiter, Feeds, Marks
<1>2. released' \in Seq(Nat) /\ keep' \in BOOLEAN
  BY ElementsConcat DEF FeedDelimiter, Releases, IInv, TypeOK
<1>3. TypeOK'
  <2>1. size' \in Nat /\ number' \in Nat /\ carries' \subseteq Nat \X Nat /\ safe' \subseteq Nat
    BY <1>1 DEF FeedDelimiter, Feeds, IInv, TypeOK
  <2>2. frame' \in Seq(Bytes) /\ content' \in Seq(Bytes) /\ held' \in Seq(Nat)
    BY <1>1
  <2>4. Len(frame') <= MaxFrameBytes /\ Len(held') <= MaxHeldChunks
    BY <1>1, FilterAssumption
  <2>3. tainted' \in BOOLEAN /\ chunk' \in Nat /\ overrun' \subseteq Nat
    BY <1>1 DEF IInv, TypeOK
  <2> QED BY <1>2, <2>1, <2>2, <2>3, <2>4 DEF TypeOK
<1>4. Numbered'
  BY <1>1 DEF IInv, TypeOK, Numbered
<1>5. Faithful' /\ HeldHopeful'
  BY <1>1 DEF Faithful, HeldHopeful, Elements
<1>6. CASE Drops
  <2>1. keep' = FALSE /\ released' = released
    BY <1>6 DEF FeedDelimiter
  <2>2. KeepHopeful'
    BY <2>1 DEF KeepHopeful
  <2>3. ReleasedSafe'
    BY <1>1, <2>1 DEF IInv, TypeOK, ReleasedSafe, Within, Elements
  <2> QED BY <1>3, <1>4, <1>5, <2>2, <2>3 DEF IInv
<1>7. CASE ~Drops
  <2>1. safe' = Hopeful
    BY <1>1, <1>7 DEF Drops, IInv, Faithful, Hopeful
  <2>2. keep' = keep /\ released' = released \o held
    BY <1>7 DEF FeedDelimiter, Releases
  <2>3. KeepHopeful'
    BY <1>1, <2>1, <2>2 DEF IInv, KeepHopeful, Within, Hopeful
  <2>4. ReleasedSafe'
    <3> SUFFICES ASSUME NEW c \in Elements(released') PROVE c < chunk /\ Within(c, safe)'
      BY <1>1 DEF ReleasedSafe, Within
    <3>1. c \in Elements(released) \/ c \in Elements(held)
      BY <2>2, ElementsConcat DEF IInv, TypeOK
    <3>2. c < chunk /\ Within(c, Hopeful)
      BY <3>1 DEF IInv, ReleasedSafe, HeldHopeful, Within, Hopeful
    <3>3. Within(c, safe)'
      BY <1>1, <2>1, <3>2 DEF IInv, TypeOK, Within
    <3> QED BY <3>2, <3>3
  <2> QED BY <1>3, <1>4, <1>5, <2>3, <2>4 DEF IInv
<1> QED BY <1>6, <1>7

LEMMA EndIInv ==
  ASSUME IInv, EndChunk
  PROVE  IInv'
<1>1. /\ UNCHANGED <<frame, content, number, safe>>
      /\ chunk' = chunk + 1 /\ size' = 0 /\ keep' = TRUE
      /\ tainted' = Tainted
      /\ carries' = IF content # <<>> THEN carries \cup {<<chunk, number>>} ELSE carries
  BY DEF EndChunk, Marks
<1>2. Held \in Seq(Nat) /\ (\A c \in Elements(Held) : c \in Elements(held))
  BY DEF Held, IInv, TypeOK, Elements
<1>3. TypeOK'
  <2>1. held' \in Seq(Nat) /\ released' \in Seq(Nat)
    BY <1>2, AppendFacts DEF EndChunk, IInv, TypeOK
  <2>2. overrun' \subseteq Nat /\ tainted' \in BOOLEAN
    BY DEF EndChunk, IInv, TypeOK, Tainted, OverHeld
  <2>3. Len(held') <= MaxHeldChunks
    <3>1. Len(Held) < MaxHeldChunks
      BY FilterAssumption DEF Held, OverHeld, IInv, TypeOK
    <3> QED BY <1>2, <3>1, AppendFacts, FilterAssumption DEF EndChunk, IInv, TypeOK
  <2> QED BY <1>1, <2>1, <2>2, <2>3 DEF IInv, TypeOK
<1>4. Numbered'
  BY <1>1 DEF IInv, TypeOK, Numbered
<1>5. Faithful'
  BY <1>1 DEF IInv, Faithful, Tainted
<1>6. KeepHopeful'
  BY <1>1 DEF IInv, TypeOK, Numbered, KeepHopeful, Within
<1>7. ASSUME NEW c, c < chunk, NEW F, Within(c, F) PROVE Within(c, F)'
  BY <1>1, <1>7 DEF IInv, TypeOK, Within
<1>8. ASSUME NEW c \in Elements(held') PROVE c < chunk' /\ Within(c, Hopeful)'
  <2>1. c \in Elements(Held) \/ (c = chunk /\ Clears)
    <3>1. CASE Clears /\ frame # <<>>
      <4>1. Elements(Append(Held, chunk)) = Elements(Held) \cup {chunk}
        BY <1>2, ElementsAppend DEF IInv, TypeOK
      <4> QED BY <3>1, <4>1 DEF EndChunk
    <3>2. CASE ~(Clears /\ frame # <<>>)
      BY <3>2 DEF EndChunk
    <3> QED BY <3>1, <3>2
  <2>2. CASE c \in Elements(Held)
    <3>1. c < chunk /\ Within(c, Hopeful)
      BY <1>2, <2>2 DEF IInv, HeldHopeful
    <3>2. c \in Nat
      BY <1>2, <2>2 DEF Elements
    <3> QED BY <1>1, <3>1, <3>2 DEF IInv, TypeOK, Within, Hopeful
  <2>3. CASE c = chunk /\ Clears
    BY <1>1, <2>3 DEF Clears, IInv, TypeOK, KeepHopeful, Within, Hopeful
  <2> QED BY <2>1, <2>2, <2>3
<1>9. ASSUME NEW c \in Elements(released') PROVE c < chunk' /\ Within(c, safe)'
  <2>1. c \in Elements(released) \/ (c = chunk /\ Clears /\ frame = <<>>)
    <3>1. Elements(Append(released, chunk)) = Elements(released) \cup {chunk}
      BY ElementsAppend DEF IInv, TypeOK
    <3> QED BY <3>1 DEF EndChunk
  <2>2. CASE c \in Elements(released)
    <3>1. c < chunk /\ Within(c, safe) /\ c \in Nat
      BY <2>2 DEF IInv, ReleasedSafe, TypeOK, Elements
    <3> QED BY <1>1, <3>1 DEF IInv, TypeOK, Within
  <2>3. CASE c = chunk /\ Clears /\ frame = <<>>
    <3>1. content = <<>> /\ keep
      BY <2>3 DEF Clears, Tainted, IInv, Faithful
    <3>2. Within(c, safe)
      BY <2>3, <3>1 DEF IInv, TypeOK, Numbered, KeepHopeful, Within, Hopeful
    <3> QED BY <1>1, <2>3, <3>1, <3>2 DEF IInv, TypeOK, Within
  <2> QED BY <2>1, <2>2, <2>3
<1>10. HeldHopeful'
  BY <1>8 DEF HeldHopeful
<1>11. ReleasedSafe'
  BY <1>9 DEF ReleasedSafe
<1> QED BY <1>3, <1>4, <1>5, <1>6, <1>10, <1>11 DEF IInv

LEMMA StepIInv == IInv /\ [Next]_vars => IInv'
<1> SUFFICES ASSUME IInv, [Next]_vars PROVE IInv'
  OBVIOUS
<1>1. CASE FeedSeparator \/ UNCHANGED vars
  <2>1. /\ UNCHANGED <<filter, history, chunk>>
        /\ size' \in Nat
    BY <1>1 DEF FeedSeparator, Feeds, vars, IInv, TypeOK
  <2> QED BY <2>1 DEF filter, history, IInv, TypeOK, Numbered, Faithful, HeldHopeful,
                      KeepHopeful, ReleasedSafe, Within, Hopeful, Elements
<1> QED BY <1>1, ByteIInv, DelimiterIInv, EndIInv DEF Next

(* The variables keep their types. *)
THEOREM TypeCorrect == Spec => []TypeOK
<1>1. Spec => []IInv
  BY InitIInv, StepIInv, PTL DEF Spec
<1> QED BY <1>1, PTL DEF IInv

(* Whatever is fed and however it is cut into chunks, no released chunk     *)
(* carries any byte of a frame that bears identity or cannot be classified. *)
THEOREM FilterNeverLeaks == Spec => []NoLeak
<1>1. Spec => []IInv
  BY InitIInv, StepIInv, PTL DEF Spec
<1> QED BY <1>1, NoLeakFromIInv, PTL

-----------------------------------------------------------------------------
(* Nothing is held unless a frame is in progress, and a frame in progress   *)
(* has bytes; it is past one of the bounds if it is tainted.                *)
Opened ==
  /\ NothingOpen => held = <<>>
  /\ ~NothingOpen => content # <<>>
  /\ tainted => number \in overrun

LEMMA InitOpened == Init => Opened
  BY DEF Init, NothingOpen, Opened

LEMMA StepOpened == IInv /\ Opened /\ [Next]_vars => Opened'
<1> SUFFICES ASSUME IInv, Opened, [Next]_vars PROVE Opened'
  OBVIOUS
<1>1. ASSUME NEW b \in Bytes, FeedByte(b) PROVE Opened'
  <2>1. content' # <<>>
    BY <1>1, AppendFacts DEF FeedByte, IInv, TypeOK
  <2>2. ~NothingOpen'
    <3>1. CASE Len(frame) < MaxFrameBytes
      BY <1>1, <3>1, AppendFacts DEF FeedByte, NothingOpen, IInv, TypeOK
    <3>2. CASE ~(Len(frame) < MaxFrameBytes)
      BY <1>1, <3>2 DEF FeedByte, NothingOpen
    <3> QED BY <3>1, <3>2
  <2>3. tainted' => number' \in overrun'
    BY <1>1 DEF FeedByte, Opened
  <2> QED BY <2>1, <2>2, <2>3 DEF Opened
<1>2. CASE FeedSeparator \/ UNCHANGED vars
  BY <1>2 DEF FeedSeparator, vars, filter, history, Opened, NothingOpen
<1>3. CASE FeedDelimiter
  BY <1>3 DEF FeedDelimiter, Opened, NothingOpen
<1>4. CASE EndChunk
  <2>1. UNCHANGED <<frame, content, number>> /\ tainted' = Tainted
    BY <1>4 DEF EndChunk
  <2>2. OverHeld => held # <<>>
    BY FilterAssumption DEF OverHeld
  <2>3. NothingOpen' => held' = <<>>
    <3> SUFFICES ASSUME NothingOpen' PROVE held' = <<>>
      OBVIOUS
    <3>1. frame = <<>> /\ ~Tainted
      BY <2>1 DEF NothingOpen
    <3>2. Held = <<>>
      BY <3>1 DEF Held, Tainted, NothingOpen, Opened
    <3> QED BY <1>4, <3>1, <3>2 DEF EndChunk
  <2>4. ~NothingOpen' => content' # <<>>
    BY <2>1, <2>2 DEF Tainted, NothingOpen, Opened
  <2>5. tainted' => number' \in overrun'
    BY <1>4, <2>1 DEF EndChunk, Tainted, Opened
  <2> QED BY <2>3, <2>4, <2>5 DEF Opened
<1> QED BY <1>1, <1>2, <1>3, <1>4 DEF Next

Ascending(s) == \A i, j \in DOMAIN s : i < j => s[i] < s[j]

LEMMA AscendingConcat ==
  ASSUME NEW s \in Seq(Nat), NEW t \in Seq(Nat), Ascending(s), Ascending(t),
         \A c \in Elements(s), d \in Elements(t) : c < d
  PROVE  Ascending(s \o t)
<1> DEFINE u == s \o t
<1>1. /\ DOMAIN u = 1 .. Len(s) + Len(t) /\ DOMAIN s = 1 .. Len(s) /\ DOMAIN t = 1 .. Len(t)
      /\ \A i \in 1 .. Len(s) : u[i] = s[i]
      /\ \A i \in Len(s) + 1 .. Len(s) + Len(t) : u[i] = t[i - Len(s)]
      /\ Len(s) \in Nat /\ Len(t) \in Nat
  BY ConcatProperties
<1> SUFFICES ASSUME NEW i \in DOMAIN u, NEW j \in DOMAIN u, i < j PROVE u[i] < u[j]
  BY DEF Ascending
<1>2. CASE j <= Len(s)
  <2>1. i \in DOMAIN s /\ j \in DOMAIN s /\ u[i] = s[i] /\ u[j] = s[j]
    BY <1>1, <1>2
  <2> QED BY <2>1 DEF Ascending
<1>3. CASE i > Len(s)
  <2>1. /\ i - Len(s) \in DOMAIN t /\ j - Len(s) \in DOMAIN t /\ i - Len(s) < j - Len(s)
        /\ u[i] = t[i - Len(s)] /\ u[j] = t[j - Len(s)]
    BY <1>1, <1>3
  <2> QED BY <2>1 DEF Ascending
<1>4. CASE i <= Len(s) /\ j > Len(s)
  <2>1. /\ i \in DOMAIN s /\ j - Len(s) \in DOMAIN t
        /\ u[i] = s[i] /\ u[j] = t[j - Len(s)]
    BY <1>1, <1>4
  <2>2. s[i] \in Elements(s) /\ t[j - Len(s)] \in Elements(t)
    BY <2>1 DEF Elements
  <2> QED BY <2>1, <2>2
<1> QED BY <1>1, <1>2, <1>3, <1>4

LEMMA AscendingAppend ==
  ASSUME NEW s \in Seq(Nat), NEW e \in Nat, Ascending(s), \A c \in Elements(s) : c < e
  PROVE  Ascending(Append(s, e))
<1>1. <<e>> \in Seq(Nat) /\ Ascending(<<e>>) /\ Elements(<<e>>) = {e}
  BY DEF Ascending, Elements
<1>2. Ascending(s \o <<e>>)
  BY <1>1, AscendingConcat
<1>3. Append(s, e) = s \o <<e>>
  BY AppendIsConcat
<1> QED BY <1>2, <1>3, Zenon

(* OldestFirst is not inductive: the chunks held are released after those   *)
(* released so far, and the chunk in hand after both.                       *)
Ordered ==
  /\ Ascending(released) /\ Ascending(held)
  /\ \A c \in Elements(released), d \in Elements(held) : c < d

OrderInv == IInv /\ Opened /\ Ordered

LEMMA InitOrderInv == Init => OrderInv
  BY InitIInv, InitOpened, ElementsEmpty DEF Init, OrderInv, Ordered, Ascending

LEMMA DelimiterOrdered == OrderInv /\ FeedDelimiter => Ordered'
<1> SUFFICES ASSUME OrderInv, FeedDelimiter PROVE Ordered'
  OBVIOUS
<1>1. held' = <<>>
  BY DEF FeedDelimiter
<1>2. Ascending(released')
  <2>1. Ascending(released) /\ Ascending(released \o held)
    BY AscendingConcat DEF OrderInv, Ordered, IInv, TypeOK
  <2> QED BY <2>1 DEF FeedDelimiter, Releases
<1>3. Ascending(<<>>)
  BY DEF Ascending
<1> QED BY <1>1, <1>2, <1>3, ElementsEmpty DEF Ordered

LEMMA EndOrdered == OrderInv /\ EndChunk => Ordered'
<1> SUFFICES ASSUME OrderInv, EndChunk PROVE Ordered'
  OBVIOUS
<1>1. /\ released \in Seq(Nat) /\ held \in Seq(Nat) /\ chunk \in Nat
      /\ Ascending(released) /\ Ascending(held)
      /\ \A c \in Elements(released), d \in Elements(held) : c < d
      /\ \A c \in Elements(released) : c < chunk
      /\ \A c \in Elements(held) : c < chunk
  BY DEF OrderInv, Ordered, IInv, TypeOK, ReleasedSafe, HeldHopeful
<1>2. Held = held \/ Held = <<>>
  BY DEF Held
<1>3. /\ Held \in Seq(Nat) /\ Ascending(Held)
      /\ \A c \in Elements(Held) : c \in Elements(held)
  <2>1. CASE Held = held
    BY <1>1, <2>1
  <2>2. CASE Held = <<>>
    BY <2>2, ElementsEmpty DEF Ascending
  <2> QED BY <1>2, <2>1, <2>2
<1>4. CASE Clears /\ frame = <<>>
  <2>1. released' = Append(released, chunk) /\ held' = Held
    BY <1>4 DEF EndChunk
  <2>2. Held = <<>>
    BY <1>4 DEF Clears, Tainted, Held, OrderInv, Opened, NothingOpen
  <2>3. Ascending(released')
    BY <1>1, <2>1, AscendingAppend
  <2> QED BY <1>3, <2>1, <2>2, <2>3, ElementsEmpty DEF Ordered
<1>5. CASE Clears /\ frame # <<>>
  <2>1. released' = released /\ held' = Append(Held, chunk)
    BY <1>5 DEF EndChunk
  <2>2. Ascending(held')
    BY <1>1, <1>3, <2>1, AscendingAppend
  <2>3. Elements(held') \subseteq Elements(Held) \cup {chunk}
    BY <1>1, <1>3, <2>1, ElementsAppend
  <2> QED BY <1>1, <1>3, <2>1, <2>2, <2>3 DEF Ordered
<1>6. CASE ~Clears
  <2>1. released' = released /\ held' = Held
    BY <1>6 DEF EndChunk
  <2> QED BY <1>1, <1>3, <2>1 DEF Ordered
<1> QED BY <1>4, <1>5, <1>6

LEMMA StepOrderInv == OrderInv /\ [Next]_vars => OrderInv'
<1> SUFFICES ASSUME OrderInv, [Next]_vars PROVE OrderInv'
  OBVIOUS
<1>1. IInv' /\ Opened'
  BY StepIInv, StepOpened DEF OrderInv
<1>2. ASSUME UNCHANGED <<released, held>> PROVE Ordered'
  BY <1>2 DEF OrderInv, Ordered
<1>3. ASSUME NEW b \in Bytes, FeedByte(b) PROVE Ordered'
  BY <1>2, <1>3 DEF FeedByte
<1>4. CASE FeedSeparator \/ UNCHANGED vars
  <2>1. UNCHANGED filter
    BY <1>4 DEF FeedSeparator, vars
  <2>2. UNCHANGED <<released, held>>
    BY <2>1 DEF filter
  <2> QED BY <1>1, <1>2, <2>2 DEF OrderInv
<1> QED BY <1>1, <1>3, <1>4, DelimiterOrdered, EndOrdered DEF Next, OrderInv

(* Chunks are handed back oldest first, and none twice, whatever is fed and *)
(* wherever the frames end (feed of capture.rs, across its calls).          *)
THEOREM ReleasedOldestFirst == Spec => []OldestFirst
<1>1. OrderInv => OldestFirst
  BY DEF OrderInv, Ordered, Ascending, OldestFirst
<1> QED BY <1>1, InitOrderInv, StepOrderInv, PTL DEF Spec

-----------------------------------------------------------------------------
(* The frames that will never be released: past a bound, or complete and    *)
(* Excluded; and the chunks that carry one.                                 *)
Doomed == {f \in Nat : f \in overrun \/ (f < number /\ f \notin safe)}
Spoiled(c) == \E m \in carries : m[1] = c /\ m[2] \in Doomed

HeldMarked == \A c \in Elements(held) : <<c, number>> \in carries
KeepSpoiled == ~keep => Spoiled(chunk)
Accounted ==
  \A c \in 1 .. chunk - 1 : c \in Elements(released) \/ c \in Elements(held) \/ Spoiled(c)

(* NoLoss is not inductive: a chunk that is fed but not released is held    *)
(* and carries the frame in progress, or carries a frame that will never be *)
(* released; and keep is FALSE only for a chunk of the latter kind.         *)
LossInv == IInv /\ Opened /\ HeldMarked /\ KeepSpoiled /\ Accounted

LEMMA NoLossFromLossInv == LossInv => NoLoss
<1> SUFFICES ASSUME LossInv, NEW c \in 1 .. chunk - 1, FramesOf(c) \subseteq safe \ overrun
             PROVE  c \in Elements(released)
  BY DEF NoLoss
<1>1. Within(c, safe \ overrun)
  BY WithinFramesOf
<1>2. ~Spoiled(c)
  BY <1>1 DEF Spoiled, Within, Doomed
<1>3. c \notin Elements(held)
  <2> SUFFICES ASSUME c \in Elements(held) PROVE FALSE
    OBVIOUS
  <2>1. <<c, number>> \in carries
    BY DEF LossInv, HeldMarked
  <2>2. number \in safe
    BY <1>1, <2>1 DEF Within
  <2> QED BY <2>2 DEF LossInv, IInv, TypeOK, Numbered
<1> QED BY <1>2, <1>3 DEF LossInv, Accounted

(* A doomed frame stays doomed, whatever the step. *)
LEMMA StaySpoiled ==
  ASSUME LossInv, [Next]_vars, NEW c, Spoiled(c)
  PROVE  Spoiled(c)'
<1>1. carries \subseteq carries'
  BY DEF Next, FeedByte, FeedSeparator, FeedDelimiter, EndChunk, Marks, vars, history
<1>2. overrun \subseteq overrun'
  BY DEF Next, FeedByte, FeedSeparator, FeedDelimiter, EndChunk, vars, history
<1>3. /\ number' \in Nat /\ number \in Nat /\ number <= number'
      /\ safe' \subseteq safe \cup {number}
  BY DEF LossInv, IInv, TypeOK, Next, FeedByte, FeedSeparator, FeedDelimiter, EndChunk,
         vars, history
<1>4. Doomed \subseteq Doomed'
  BY <1>2, <1>3 DEF Doomed
<1> QED BY <1>1, <1>4 DEF Spoiled

LEMMA InitLossInv == Init => LossInv
<1> SUFFICES ASSUME Init PROVE LossInv
  OBVIOUS
<1>1. HeldMarked /\ KeepSpoiled /\ Accounted
  BY ElementsEmpty DEF Init, HeldMarked, KeepSpoiled, Accounted
<1> QED BY <1>1, InitIInv, InitOpened DEF LossInv

LEMMA ByteLossInv ==
  ASSUME LossInv, NEW b \in Bytes, FeedByte(b)
  PROVE  HeldMarked' /\ KeepSpoiled' /\ Accounted'
<1>1. /\ carries \subseteq carries'
      /\ UNCHANGED <<held, keep, released, chunk, number>>
  BY DEF FeedByte, Feeds, Marks
<1>2. \A c : Spoiled(c) => Spoiled(c)'
  BY StaySpoiled DEF Next
<1>3. HeldMarked'
  BY <1>1 DEF LossInv, HeldMarked
<1>4. KeepSpoiled'
  BY <1>1, <1>2 DEF LossInv, KeepSpoiled
<1>5. Accounted'
  BY <1>1, <1>2 DEF LossInv, Accounted
<1> QED BY <1>3, <1>4, <1>5

LEMMA DelimiterLossInv ==
  ASSUME LossInv, FeedDelimiter
  PROVE  HeldMarked' /\ KeepSpoiled' /\ Accounted'
<1>1. /\ held' = <<>> /\ number' = number + 1 /\ overrun' = overrun /\ chunk' = chunk
      /\ carries' = carries \cup {<<chunk, number>>}
      /\ safe' = IF content \in Excluded THEN safe ELSE safe \cup {number}
  BY DEF FeedDelimiter, Feeds, Marks
<1>2. released \in Seq(Nat) /\ held \in Seq(Nat) /\ number \in Nat
  BY DEF LossInv, IInv, TypeOK
<1>3. \A c : Spoiled(c) => Spoiled(c)'
  BY StaySpoiled DEF Next
<1>4. HeldMarked'
  BY <1>1, ElementsEmpty DEF HeldMarked
<1>5. CASE Drops
  <2>1. keep' = FALSE /\ released' = released
    BY <1>5 DEF FeedDelimiter
  <2>2. number \in Doomed'
    <3>1. CASE tainted
      BY <1>1, <1>2, <3>1 DEF LossInv, Opened, Doomed
    <3>2. CASE ~tainted
      <4>1. content \in Excluded
        BY <1>5, <3>2 DEF Drops, LossInv, IInv, Faithful
      <4>2. number \notin safe
        BY <1>2 DEF LossInv, IInv, Numbered
      <4> QED BY <1>1, <1>2, <4>1, <4>2 DEF Doomed
    <3> QED BY <3>1, <3>2
  <2>3. ASSUME NEW c, <<c, number>> \in carries' PROVE Spoiled(c)'
    BY <2>2, <2>3 DEF Spoiled
  <2>4. KeepSpoiled'
    BY <1>1, <2>3 DEF KeepSpoiled
  <2>5. \A c \in Elements(held) : Spoiled(c)'
    BY <1>1, <2>3 DEF LossInv, HeldMarked
  <2>6. Accounted'
    BY <1>1, <1>3, <2>1, <2>5 DEF LossInv, Accounted
  <2> QED BY <1>4, <2>4, <2>6
<1>6. CASE ~Drops
  <2>1. keep' = keep /\ released' = released \o held
    BY <1>6 DEF FeedDelimiter, Releases
  <2>2. Elements(released') = Elements(released) \cup Elements(held)
    BY <1>2, <2>1, ElementsConcat
  <2>3. KeepSpoiled'
    BY <1>1, <1>3, <2>1 DEF LossInv, KeepSpoiled
  <2>4. Accounted'
    BY <1>1, <1>3, <2>2 DEF LossInv, Accounted
  <2> QED BY <1>4, <2>3, <2>4
<1> QED BY <1>5, <1>6

LEMMA EndLossInv ==
  ASSUME LossInv, EndChunk
  PROVE  HeldMarked' /\ KeepSpoiled' /\ Accounted'
<1>1. /\ keep' = TRUE /\ chunk' = chunk + 1 /\ number' = number
      /\ carries' = IF content # <<>> THEN carries \cup {<<chunk, number>>} ELSE carries
      /\ overrun' = IF OverHeld THEN overrun \cup {number} ELSE overrun
  BY DEF EndChunk, Marks
<1>2. released \in Seq(Nat) /\ held \in Seq(Nat) /\ number \in Nat /\ chunk \in Nat
  BY DEF LossInv, IInv, TypeOK
<1>3. \A c : Spoiled(c) => Spoiled(c)'
  BY StaySpoiled DEF Next
<1>4. KeepSpoiled'
  BY <1>1 DEF KeepSpoiled
<1>5. Held \in Seq(Nat) /\ (\A c \in Elements(Held) : c \in Elements(held))
  BY <1>2, ElementsEmpty DEF Held
<1>6. ASSUME frame # <<>> \/ Tainted PROVE <<chunk, number>> \in carries'
  <2>1. OverHeld => held # <<>>
    BY FilterAssumption DEF OverHeld
  <2>2. content # <<>>
    BY <1>6, <2>1 DEF Tainted, NothingOpen, LossInv, Opened
  <2> QED BY <1>1, <2>2
<1>7. ASSUME Tainted, NEW c, <<c, number>> \in carries' PROVE Spoiled(c)'
  <2>1. number \in overrun'
    BY <1>1, <1>7 DEF Tainted, LossInv, Opened
  <2>2. number \in Doomed'
    BY <1>2, <2>1 DEF Doomed
  <2> QED BY <1>7, <2>2 DEF Spoiled
<1>8. \A c \in Elements(held) : c \in Elements(Held) \/ Spoiled(c)'
  <2>1. CASE OverHeld
    <3>1. Tainted
      BY <2>1 DEF Tainted
    <3>2. \A c \in Elements(held) : <<c, number>> \in carries'
      BY <1>1 DEF LossInv, HeldMarked
    <3> QED BY <1>7, <3>1, <3>2
  <2>2. CASE ~OverHeld
    BY <2>2 DEF Held
  <2> QED BY <2>1, <2>2
<1>9. /\ Elements(released) \subseteq Elements(released')
      /\ Elements(Held) \subseteq Elements(held')
      /\ \A c \in Elements(held') : c \in Elements(held) \/ (c = chunk /\ frame # <<>>)
      /\ Clears => chunk \in Elements(released') \cup Elements(held')
  <2>1. CASE Clears /\ frame = <<>>
    <3>1. released' = Append(released, chunk) /\ held' = Held
      BY <2>1 DEF EndChunk
    <3>2. Elements(released') = Elements(released) \cup {chunk}
      BY <1>2, <3>1, ElementsAppend
    <3> QED BY <1>5, <3>1, <3>2
  <2>2. CASE Clears /\ frame # <<>>
    <3>1. released' = released /\ held' = Append(Held, chunk)
      BY <2>2 DEF EndChunk
    <3>2. Elements(held') = Elements(Held) \cup {chunk}
      BY <1>2, <1>5, <3>1, ElementsAppend
    <3> QED BY <1>5, <2>2, <3>1, <3>2
  <2>3. CASE ~Clears
    <3>1. released' = released /\ held' = Held
      BY <2>3 DEF EndChunk
    <3> QED BY <1>5, <2>3, <3>1
  <2> QED BY <2>1, <2>2, <2>3
<1>10. HeldMarked'
  <2> SUFFICES ASSUME NEW c \in Elements(held') PROVE <<c, number>> \in carries'
    BY <1>1 DEF HeldMarked
  <2>1. CASE c \in Elements(held)
    BY <1>1, <2>1 DEF LossInv, HeldMarked
  <2>2. CASE c = chunk /\ frame # <<>>
    BY <1>6, <2>2
  <2> QED BY <1>9, <2>1, <2>2
<1>11. ASSUME NEW c, c = chunk
       PROVE  c \in Elements(released') \/ c \in Elements(held') \/ Spoiled(c)'
  <2>1. CASE Clears
    BY <1>9, <1>11, <2>1
  <2>2. CASE ~keep
    BY <1>3, <1>11, <2>2 DEF LossInv, KeepSpoiled
  <2>3. CASE Tainted
    BY <1>6, <1>7, <1>11, <2>3
  <2> QED BY <2>1, <2>2, <2>3 DEF Clears
<1>12. Accounted'
  <2> SUFFICES ASSUME NEW c \in 1 .. chunk
               PROVE  c \in Elements(released') \/ c \in Elements(held') \/ Spoiled(c)'
    BY <1>1, <1>2 DEF Accounted
  <2>1. CASE c = chunk
    BY <1>11, <2>1
  <2>2. CASE c # chunk
    <3>1. c \in 1 .. chunk - 1
      BY <1>2, <2>2
    <3>2. c \in Elements(released) \/ c \in Elements(held) \/ Spoiled(c)
      BY <3>1 DEF LossInv, Accounted
    <3> QED BY <1>3, <1>8, <1>9, <3>2
  <2> QED BY <2>1, <2>2
<1> QED BY <1>4, <1>10, <1>12

LEMMA StepLossInv == LossInv /\ [Next]_vars => LossInv'
<1> SUFFICES ASSUME LossInv, [Next]_vars PROVE LossInv'
  OBVIOUS
<1>1. IInv' /\ Opened'
  BY StepIInv, StepOpened DEF LossInv
<1>2. CASE FeedSeparator \/ UNCHANGED vars
  <2>1. UNCHANGED <<held, keep, released, chunk, number, carries>>
    BY <1>2 DEF FeedSeparator, Feeds, vars, filter, history
  <2>2. \A c : Spoiled(c) => Spoiled(c)'
    BY StaySpoiled
  <2>3. HeldMarked' /\ KeepSpoiled' /\ Accounted'
    BY <2>1, <2>2 DEF LossInv, HeldMarked, KeepSpoiled, Accounted
  <2> QED BY <1>1, <2>3 DEF LossInv
<1> QED BY <1>1, <1>2, ByteLossInv, DelimiterLossInv, EndLossInv DEF Next, LossInv

(* However the bytes are cut into chunks and whatever frames surround it, a *)
(* chunk all of whose frames are complete, not Excluded and within the two  *)
(* bounds has been released once it is fed (feed of capture.rs).            *)
THEOREM NothingElseHeldBack == Spec => []NoLoss
<1> QED BY InitLossInv, StepLossInv, NoLossFromLossInv, PTL DEF Spec
===============================================================================
