--------------------------- MODULE Ingress_proofs ---------------------------
(***************************************************************************)
(* The decoder of the raw stream, proved for streams, reads and buffers of *)
(* any size: what handle_value gets does not depend on how the stream is   *)
(* cut.  And the status between two sessions.                              *)
(***************************************************************************)
EXTENDS Ingress, SequenceTheorems, WellFoundedInduction, TLAPS

-----------------------------------------------------------------------------
(***************************************************************************)
(* Induction, with a set in the place of the predicate: what is least is   *)
(* had from the order of the natural numbers being well founded.           *)
(***************************************************************************)
LEMMA LeastInSet ==
  ASSUME NEW S \in SUBSET Nat, S # {}
  PROVE  \E n \in S : \A m \in S : n <= m
<1> DEFINE R == OpToRel(<, Nat)
<1>1. IsWellFoundedOn(R, Nat)
  BY NatLessThanWellFounded
<1>2. \A m, n \in Nat : m < n => <<m, n>> \in R
  BY DEF OpToRel
<1> HIDE DEF R
<1>3. PICK n \in S : \A m \in S : ~ (<<m, n>> \in R)
  BY <1>1, WFMin
<1>4. ASSUME NEW m \in S PROVE n <= m
  <2>1. ~(m < n)
    BY <1>2, <1>3
  <2> QED
    BY <2>1
<1> QED
  BY <1>4

LEMMA InductionInSet ==
  ASSUME NEW S \in SUBSET Nat, 0 \in S, \A n \in S : n + 1 \in S
  PROVE  S = Nat
<1> SUFFICES ASSUME S # Nat PROVE FALSE
  OBVIOUS
<1> DEFINE T == Nat \ S
<1>1. T # {}
  OBVIOUS
<1>2. PICK n \in T : \A m \in T : n <= m
  BY <1>1, LeastInSet
<1>3. n # 0 /\ n - 1 \in Nat /\ n - 1 \notin T
  BY <1>2
<1> QED
  BY <1>3

-----------------------------------------------------------------------------
(* The reader.                                                             *)
States == [depth : Nat, quoted : BOOLEAN]

LEMMA AfterType ==
  ASSUME NEW s \in States, NEW u \in Units
  PROVE  After(s, u) \in States
<1>1. Malformed \in States
  BY DEF Malformed, States
<1>2. InString(s) => s.depth - 1 \in Nat
  BY DEF InString, States
<1>3. [s EXCEPT !.depth = s.depth + 1] \in States
  BY DEF States
<1>4. s.depth > 0 => [s EXCEPT !.depth = s.depth - 1] \in States
  BY DEF States
<1>5. [depth |-> s.depth + 1, quoted |-> TRUE] \in States
  BY DEF States
<1>6. InString(s) => [depth |-> s.depth - 1, quoted |-> FALSE] \in States
  BY <1>2 DEF States
<1> QED
  BY <1>1, <1>3, <1>4, <1>5, <1>6 DEF After, Units

LEMMA BetweenType == Between \in States /\ Between # Malformed
BY DEF Between, Malformed, States

(* A reader's function is there for every text.                            *)
LEMMA ScanExists ==
  ASSUME NEW t \in Seq(Units)
  PROVE  \E f \in [0..Len(t) -> States] :
           /\ f[0] = Between
           /\ \A k \in 1..Len(t) : f[k] = After(f[k - 1], t[k])
<1> DEFINE Reads(n, f) == /\ f[0] = Between
                          /\ \A k \in 1..n : f[k] = After(f[k - 1], t[k])
           S == {n \in Nat : n <= Len(t) => \E f \in [0..n -> States] : Reads(n, f)}
<1>1. 0 \in S
  <2>1. [k \in 0..0 |-> Between] \in [0..0 -> States]
    BY BetweenType
  <2>2. Reads(0, [k \in 0..0 |-> Between])
    OBVIOUS
  <2> QED
    BY <2>1, <2>2
<1>2. ASSUME NEW n \in S PROVE n + 1 \in S
  <2> SUFFICES ASSUME n + 1 <= Len(t)
               PROVE  \E f \in [0..n + 1 -> States] : Reads(n + 1, f)
    OBVIOUS
  <2>1. n \in Nat /\ n <= Len(t) /\ Len(t) \in Nat
    BY LenProperties
  <2>2. PICK f \in [0..n -> States] : Reads(n, f)
    BY <2>1
  <2> DEFINE g == [k \in 0..n + 1 |-> IF k = n + 1 THEN After(f[n], t[n + 1]) ELSE f[k]]
  <2>3. t[n + 1] \in Units
    BY <2>1, ElementOfSeq
  <2>4. After(f[n], t[n + 1]) \in States
    BY <2>1, <2>3, AfterType
  <2>5. g \in [0..n + 1 -> States]
    BY <2>1, <2>4
  <2>6. Reads(n + 1, g)
    BY <2>1, <2>2
  <2> QED
    BY <2>5, <2>6
<1>3. S = Nat
  <2> HIDE DEF S
  <2>1. S \in SUBSET Nat
    BY DEF S
  <2> QED
    BY <1>1, <1>2, <2>1, InductionInSet
<1> QED
  BY <1>3, LenProperties

LEMMA ScanDefined ==
  ASSUME NEW t \in Seq(Units)
  PROVE  Scan(t) = [k \in 0..Len(t) |->
                      IF k = 0 THEN Between ELSE After(Scan(t)[k - 1], t[k])]
<1> DEFINE Step(f) == [k \in 0..Len(t) |->
                         IF k = 0 THEN Between ELSE After(f[k - 1], t[k])]
<1>1. PICK f \in [0..Len(t) -> States] :
        /\ f[0] = Between
        /\ \A k \in 1..Len(t) : f[k] = After(f[k - 1], t[k])
  BY ScanExists
<1>2. f = Step(f)
  BY <1>1, LenProperties
<1>3. Scan(t) = CHOOSE g : g = Step(g)
  BY DEF Scan
<1> HIDE DEF Step
<1>4. Scan(t) = Step(Scan(t))
  BY <1>2, <1>3
<1> QED
  BY <1>4 DEF Step

LEMMA ScanFacts ==
  ASSUME NEW t \in Seq(Units)
  PROVE  /\ Scan(t)[0] = Between
         /\ \A k \in 1..Len(t) : Scan(t)[k] = After(Scan(t)[k - 1], t[k])
         /\ \A k \in 0..Len(t) : Scan(t)[k] \in States
<1>1. Len(t) \in Nat
  BY LenProperties
<1>2. Scan(t)[0] = Between
  BY <1>1, ScanDefined
<1>3. \A k \in 1..Len(t) : Scan(t)[k] = After(Scan(t)[k - 1], t[k])
  BY <1>1, ScanDefined
<1> DEFINE S == {n \in Nat : n <= Len(t) => Scan(t)[n] \in States}
<1>4. 0 \in S
  BY <1>2, BetweenType
<1>5. ASSUME NEW n \in S PROVE n + 1 \in S
  <2> SUFFICES ASSUME n + 1 <= Len(t) PROVE Scan(t)[n + 1] \in States
    OBVIOUS
  <2>1. n \in Nat /\ n + 1 \in 1..Len(t) /\ Scan(t)[n] \in States
    BY <1>1
  <2>2. t[n + 1] \in Units
    BY <2>1, ElementOfSeq
  <2>3. Scan(t)[n + 1] = After(Scan(t)[n], t[n + 1])
    BY <1>3, <2>1
  <2> QED
    BY <2>1, <2>2, <2>3, AfterType
<1>6. S \in SUBSET Nat
  OBVIOUS
<1> HIDE DEF S
<1>7. S = Nat
  BY <1>4, <1>5, <1>6, InductionInSet
<1> QED
  BY <1>1, <1>2, <1>3, <1>7 DEF S

(* What comes later changes nothing of what was read.                      *)
LEMMA ScanPrefix ==
  ASSUME NEW t \in Seq(Units), NEW u \in Seq(Units)
  PROVE  \A k \in 0..Len(t) : Scan(t \o u)[k] = Scan(t)[k]
<1>1. /\ Len(t) \in Nat /\ t \o u \in Seq(Units)
      /\ Len(t) <= Len(t \o u) /\ Len(t \o u) \in Nat
      /\ \A k \in 1..Len(t) : (t \o u)[k] = t[k]
  BY ConcatProperties, LenProperties
<1> DEFINE S == {n \in Nat : n <= Len(t) => Scan(t \o u)[n] = Scan(t)[n]}
<1>2. 0 \in S
  BY <1>1, ScanFacts
<1>3. ASSUME NEW n \in S PROVE n + 1 \in S
  <2> SUFFICES ASSUME n + 1 <= Len(t)
               PROVE  Scan(t \o u)[n + 1] = Scan(t)[n + 1]
    OBVIOUS
  <2>1. /\ n \in Nat /\ n + 1 \in 1..Len(t) /\ n + 1 \in 1..Len(t \o u)
        /\ Scan(t \o u)[n] = Scan(t)[n] /\ (n + 1) - 1 = n
    BY <1>1
  <2>2. Scan(t)[n + 1] = After(Scan(t)[n], t[n + 1])
    BY <2>1, ScanFacts
  <2>3. Scan(t \o u)[n + 1] = After(Scan(t \o u)[n], (t \o u)[n + 1])
    BY <1>1, <2>1, ScanFacts
  <2> QED
    BY <1>1, <2>1, <2>2, <2>3
<1>4. S \in SUBSET Nat
  OBVIOUS
<1> HIDE DEF S
<1>5. S = Nat
  BY <1>2, <1>3, <1>4, InductionInSet
<1> QED
  BY <1>1, <1>5 DEF S

(* Between two values a reader may as well begin anew.                     *)
LEMMA ScanSuffix ==
  ASSUME NEW t \in Seq(Units), NEW u \in Seq(Units), NEW n \in 0..Len(t),
         Scan(t)[n] = Between, Len(u) = Len(t) - n,
         \A k \in 1..Len(u) : u[k] = t[n + k]
  PROVE  \A k \in 0..Len(u) : Scan(u)[k] = Scan(t)[n + k]
<1>1. Len(t) \in Nat /\ Len(u) \in Nat /\ n \in Nat
  BY LenProperties
<1> DEFINE S == {k \in Nat : k <= Len(u) => Scan(u)[k] = Scan(t)[n + k]}
<1>2. 0 \in S
  BY <1>1, ScanFacts
<1>3. ASSUME NEW k \in S PROVE k + 1 \in S
  <2> SUFFICES ASSUME k + 1 <= Len(u)
               PROVE  Scan(u)[k + 1] = Scan(t)[n + (k + 1)]
    OBVIOUS
  <2>1. /\ k \in Nat /\ k + 1 \in 1..Len(u) /\ n + (k + 1) \in 1..Len(t)
        /\ Scan(u)[k] = Scan(t)[n + k] /\ (k + 1) - 1 = k
        /\ (n + (k + 1)) - 1 = n + k
    BY <1>1
  <2>2. Scan(u)[k + 1] = After(Scan(u)[k], u[k + 1])
    BY <2>1, ScanFacts
  <2>3. Scan(t)[n + (k + 1)] = After(Scan(t)[n + k], t[n + (k + 1)])
    BY <2>1, ScanFacts
  <2> QED
    BY <2>1, <2>2, <2>3
<1>4. S \in SUBSET Nat
  OBVIOUS
<1> HIDE DEF S
<1>5. S = Nat
  BY <1>2, <1>3, <1>4, InductionInSet
<1>6. ASSUME NEW k \in 0..Len(u) PROVE Scan(u)[k] = Scan(t)[n + k]
  <2>1. k \in S /\ k <= Len(u)
    BY <1>1, <1>5
  <2> QED
    BY <2>1 DEF S
<1> QED
  BY <1>6

(* No continuation makes a malformed text well formed.                     *)
LEMMA MalformedStays ==
  ASSUME NEW t \in Seq(Units), NEW n \in 0..Len(t), Scan(t)[n] = Malformed
  PROVE  Scan(t)[Len(t)] = Malformed
<1>1. Len(t) \in Nat /\ n \in Nat
  BY LenProperties
<1> DEFINE S == {k \in Nat : n + k <= Len(t) => Scan(t)[n + k] = Malformed}
<1>2. 0 \in S
  BY <1>1
<1>3. ASSUME NEW k \in S PROVE k + 1 \in S
  <2> SUFFICES ASSUME n + (k + 1) <= Len(t)
               PROVE  Scan(t)[n + (k + 1)] = Malformed
    OBVIOUS
  <2>1. /\ k \in Nat /\ n + (k + 1) \in 1..Len(t)
        /\ Scan(t)[n + k] = Malformed /\ (n + (k + 1)) - 1 = n + k
    BY <1>1
  <2>2. Scan(t)[n + (k + 1)] = After(Scan(t)[n + k], t[n + (k + 1)])
    BY <2>1, ScanFacts
  <2> QED
    BY <2>1, <2>2 DEF After
<1>4. S \in SUBSET Nat
  OBVIOUS
<1> HIDE DEF S
<1>5. S = Nat
  BY <1>2, <1>3, <1>4, InductionInSet
<1>6. Len(t) - n \in Nat /\ n + (Len(t) - n) = Len(t)
  BY <1>1
<1>7. Scan(t)[n + (Len(t) - n)] = Malformed
  <2>1. Len(t) - n \in S /\ n + (Len(t) - n) <= Len(t)
    BY <1>1, <1>5, <1>6
  <2> QED
    BY <2>1 DEF S
<1> QED
  BY <1>6, <1>7

-----------------------------------------------------------------------------
(* What Decode returns.                                                    *)
LEMMA DecodeFacts ==
  ASSUME NEW t \in Seq(Units)
  PROVE  /\ Decode(t).kind \in {"eof", "malformed", "value"}
         /\ Decode(t).kind = "eof" =>
              \A k \in 1..Len(t) : Scan(t)[k] # Between
         /\ Decode(t).kind = "malformed" =>
              \E k \in 1..Len(t) : Scan(t)[k] = Malformed
         /\ Decode(t).kind = "value" =>
              /\ Decode(t).len \in 1..Len(t)
              /\ Scan(t)[Decode(t).len] = Between
              /\ \A k \in 1..Decode(t).len - 1 : Scan(t)[k] # Between
<1> DEFINE ends == {k \in 1..Len(t) : Scan(t)[k] \in {Between, Malformed}}
           end == CHOOSE k \in ends : \A j \in ends : k <= j
<1>1. /\ ends = {} => Decode(t) = [kind |-> "eof", len |-> 0]
      /\ ends # {} /\ Scan(t)[end] = Malformed =>
           Decode(t) = [kind |-> "malformed", len |-> 0]
      /\ ends # {} /\ Scan(t)[end] # Malformed =>
           Decode(t) = [kind |-> "value", len |-> end]
  BY DEF Decode
<1>2. CASE ends = {}
  BY <1>1, <1>2
<1>3. CASE ends # {}
  <2>1. ends \in SUBSET Nat
    BY LenProperties
  <2>2. \E k \in ends : \A j \in ends : k <= j
    <3> HIDE DEF ends
    <3> QED
      BY <1>3, <2>1, LeastInSet
  <2>3. end \in ends /\ \A j \in ends : end <= j
    <3> HIDE DEF ends
    <3> QED
      BY <2>2
  <2> HIDE DEF end
  <2>4. end \in 1..Len(t) /\ Scan(t)[end] \in {Between, Malformed}
    BY <2>3
  <2>5. \A k \in 1..end - 1 : Scan(t)[k] # Between
    BY <2>3, <2>4, LenProperties
  <2> HIDE DEF ends
  <2>6. CASE Scan(t)[end] = Malformed
    BY <1>1, <1>3, <2>4, <2>6
  <2>7. CASE Scan(t)[end] # Malformed
    BY <1>1, <1>3, <2>4, <2>5, <2>7
  <2> QED
    BY <2>6, <2>7
<1> QED
  BY <1>2, <1>3

-----------------------------------------------------------------------------
(* Types.                                                                  *)
Span == (1..MaxText) \X (1..MaxText)

Apart(d, n) ==
  \A i \in 1..Len(d) : /\ d[i][1] <= d[i][2] /\ d[i][2] <= n
                       /\ i > 1 => d[i - 1][2] < d[i][1]

LEMMA ChunkType == \A t \in Chunks : t \in Seq(Units) /\ Len(t) > 0
BY IngressAssumption DEF Chunks

LEMMA PendingOf ==
  ASSUME NEW t \in Seq(Units), NEW n \in 0..Len(t)
  PROVE  LET u == SubSeq(t, n + 1, Len(t))
         IN  /\ u \in Seq(Units) /\ Len(u) = Len(t) - n /\ Len(u) \in Nat
             /\ \A k \in 1..Len(u) : u[k] = t[n + k]
<1>1. Len(t) \in Nat /\ n + 1 \in Int /\ \A i \in n + 1..Len(t) : t[i] \in Units
  BY LenProperties, ElementOfSeq
<1> QED
  BY <1>1, SubSeqProperties

LEMMA TextFacts ==
  ASSUME TypeOK
  PROVE  /\ text \in Seq(Units) /\ from \in Nat /\ Len(text) \in Nat
         /\ from <= Len(text) /\ Len(text) <= MaxText /\ MaxText \in Nat
         /\ delivered \in Seq(Span) /\ Apart(delivered, from)
         /\ pending \in Seq(Units) /\ Len(pending) = Len(text) - from
         /\ \A k \in 1..Len(pending) : pending[k] = text[from + k]
BY IngressAssumption, PendingOf, LenProperties DEF TypeOK, pending, Span, Apart

(* The ends of an interval can be compared.                                *)
LEMMA SpanEnds ==
  ASSUME NEW d \in Seq(Span)
  PROVE  \A i \in 1..Len(d) : d[i][1] \in Nat /\ d[i][2] \in Nat
<1>1. ASSUME NEW i \in 1..Len(d)
      PROVE  d[i] \in Span
  BY ElementOfSeq
<1>2. \A s \in Span : s[1] \in Nat /\ s[2] \in Nat
  BY DEF Span
<1> QED
  BY <1>1, <1>2

(* What ends before a place ends before any later one.                     *)
LEMMA ApartLater ==
  ASSUME NEW d \in Seq(Span), NEW m \in Nat, NEW n \in Nat, m <= n, Apart(d, m)
  PROVE  Apart(d, n)
<1>1. \A i \in 1..Len(d) : d[i][2] \in Nat /\ d[i][2] <= m
  BY SpanEnds DEF Apart
<1>2. \A i \in 1..Len(d) : d[i][2] <= n
  BY <1>1
<1> QED
  BY <1>2 DEF Apart

(* The places behind one, up to the one n further on.                      *)
LEMMA PlacesBehind ==
  ASSUME NEW a \in Nat, NEW n \in Nat \ {0}
  PROVE  /\ \A k \in 1..a + n : k \in 1..a \/ k \in a + 1..a + n - 1 \/ k = a + n
         /\ a + n \in 1..a + n /\ \A k \in 1..a : k \in 1..a + n
OBVIOUS

(* One interval more, behind all the others.                               *)
LEMMA OneMore ==
  ASSUME NEW d \in Seq(Span), NEW n \in Nat, Apart(d, n),
         NEW a \in Nat, NEW b \in Nat, n < a, a <= b, b <= MaxText
  PROVE  /\ Append(d, <<a, b>>) \in Seq(Span) /\ Apart(Append(d, <<a, b>>), b)
         /\ Len(Append(d, <<a, b>>)) = Len(d) + 1 /\ Len(d) \in Nat
         /\ \A i \in 1..Len(d) : Append(d, <<a, b>>)[i] = d[i] /\ d[i] \in Span
         /\ Append(d, <<a, b>>)[Len(d) + 1] = <<a, b>>
<1>1. <<a, b>> \in Span
  BY IngressAssumption DEF Span
<1>2. /\ Append(d, <<a, b>>) \in Seq(Span)
      /\ Len(Append(d, <<a, b>>)) = Len(d) + 1 /\ Len(d) \in Nat
      /\ \A i \in 1..Len(d) : Append(d, <<a, b>>)[i] = d[i] /\ d[i] \in Span
      /\ Append(d, <<a, b>>)[Len(d) + 1] = <<a, b>>
  BY <1>1, AppendProperties, ElementOfSeq, LenProperties
<1>3. \A i \in 1..Len(d) : d[i][1] \in Nat /\ d[i][2] \in Nat
  BY SpanEnds
<1>4. Apart(Append(d, <<a, b>>), b)
  <2> SUFFICES ASSUME NEW i \in 1..Len(d) + 1
               PROVE  LET e == Append(d, <<a, b>>)
                      IN  /\ e[i][1] <= e[i][2] /\ e[i][2] <= b
                          /\ i > 1 => e[i - 1][2] < e[i][1]
    BY <1>2 DEF Apart
  <2>1. CASE i \in 1..Len(d)
    <3>1. i > 1 => i - 1 \in 1..Len(d)
      BY <1>2, <2>1
    <3>2. /\ d[i][1] <= d[i][2] /\ d[i][2] <= n
          /\ i > 1 => d[i - 1][2] < d[i][1]
      BY <2>1 DEF Apart
    <3>3. d[i][2] <= b
      BY <1>3, <2>1, <3>2
    <3> QED
      BY <1>2, <2>1, <3>1, <3>2, <3>3
  <2>2. CASE i = Len(d) + 1
    <3>1. i > 1 => Len(d) \in 1..Len(d) /\ i - 1 = Len(d)
      BY <1>2, <2>2
    <3>2. Append(d, <<a, b>>)[i] = <<a, b>>
      BY <1>2, <2>2
    <3>3. i > 1 => d[Len(d)][2] <= n
      BY <3>1 DEF Apart
    <3>4. i > 1 => Append(d, <<a, b>>)[i - 1] = d[Len(d)]
      BY <1>2, <3>1
    <3>5. i > 1 => Append(d, <<a, b>>)[i - 1][2] < a
      <4>1. i > 1 => d[Len(d)][2] \in Nat
        BY <1>3, <3>1
      <4> QED
        BY <3>3, <3>4, <4>1
    <3> QED
      BY <3>2, <3>5
  <2> QED
    BY <1>2, <2>1, <2>2
<1> QED
  BY <1>2, <1>4

LEMMA Nothing ==
  /\ <<>> \in Seq(Units) /\ <<>> \in Seq(Span) /\ Len(<<>>) = 0
  /\ Apart(<<>>, 0)
<1>1. <<>> \in Seq(Units) /\ <<>> \in Seq(Span) /\ Len(<<>>) = 0
  OBVIOUS
<1> QED
  BY <1>1 DEF Apart

LEMMA TypeInit == Init => TypeOK
<1> SUFFICES ASSUME Init PROVE TypeOK
  OBVIOUS
<1>1. text \in Seq(Units) /\ Len(text) <= MaxText /\ from \in 0..Len(text)
  BY IngressAssumption, Nothing DEF Init
<1>2. delivered \in Seq(Span)
  BY Nothing DEF Init
<1>3. Apart(delivered, from)
  BY Nothing DEF Init
<1>4. /\ pc = "loop" /\ speaks \in {"ws", "raw"}
      /\ connected \in BOOLEAN /\ cleared \in BOOLEAN /\ shutdown \in BOOLEAN
  BY DEF Init
<1> QED
  BY <1>1, <1>2, <1>3, <1>4 DEF TypeOK, Span, Apart

LEMMA NewConnectionType ==
  ASSUME NewConnection
  PROVE  /\ text' \in Seq(Units) /\ Len(text') = 0 /\ from' \in 0..Len(text')
         /\ cleared' \in BOOLEAN /\ delivered' \in Seq(Span) /\ Len(delivered') = 0
         /\ Apart(delivered', from') /\ Len(text') - from' = 0
<1>1. text' = <<>> /\ from' = 0 /\ delivered' = <<>> /\ cleared' = FALSE
  BY DEF NewConnection
<1>2. Apart(delivered', from')
  BY <1>1, Nothing
<1>3. text' \in Seq(Units) /\ Len(text') = 0
  BY <1>1, Nothing
<1>4. delivered' \in Seq(Span) /\ Len(delivered') = 0
  BY <1>1, Nothing
<1>5. from' \in 0..Len(text') /\ Len(text') - from' = 0
  BY <1>1, <1>3
<1> QED
  BY <1>1, <1>2, <1>3, <1>4, <1>5

(* What a step leaves is well typed.                                       *)
StatusTypeOK ==
  /\ pc \in {"loop", "ws", "frames", "tcp", "lost", "reading", "decoding",
             "retry", "stopped", "dead"}
  /\ speaks \in {"ws", "raw"}
  /\ connected \in BOOLEAN /\ shutdown \in BOOLEAN

LEMMA StatusFacts == TypeOK => StatusTypeOK /\ cleared \in BOOLEAN
BY DEF TypeOK, StatusTypeOK

LEMMA TypeFrom ==
  ASSUME StatusTypeOK', cleared' \in BOOLEAN,
         text' \in Seq(Units), Len(text') <= MaxText, from' \in 0..Len(text'),
         delivered' \in Seq(Span), Apart(delivered', from'),
         pc' = "reading" => Len(text') - from' <= MaxPending
  PROVE  TypeOK'
BY PendingOf DEF TypeOK, StatusTypeOK, pending, Span, Apart

LEMMA NewConnectionTypes ==
  ASSUME StatusTypeOK', NewConnection
  PROVE  TypeOK'
BY NewConnectionType, TypeFrom, IngressAssumption

(* The value that is taken off lies within what is pending.                *)
LEMMA DeliverFacts ==
  ASSUME TypeOK, Decode(pending).kind = "value"
  PROVE  /\ Decode(pending).len \in Nat /\ Decode(pending).len > 0
         /\ from + Decode(pending).len <= Len(text)
BY TextFacts, DecodeFacts

LEMMA LeavesType ==
  ASSUME TypeOK, NEW n \in from..Len(text), Leaves(n)
  PROVE  TypeOK'
<1>1. /\ pc' = "reading" /\ UNCHANGED <<speaks, connected, text, delivered, shutdown>>
      /\ \/ Len(text) - n > MaxPending /\ from' = Len(text) /\ cleared' = TRUE
         \/ ~(Len(text) - n > MaxPending) /\ from' = n /\ UNCHANGED cleared
  BY DEF Leaves
<1>2. n \in Nat /\ from <= n /\ n <= Len(text) /\ MaxPending \in Nat
  BY TextFacts, IngressAssumption
<1>3. from' \in Nat /\ from <= from' /\ from' <= Len(text)
  BY <1>1, <1>2, TextFacts
<1>4. Len(text') - from' <= MaxPending
  BY <1>1, <1>2, TextFacts
<1>6. Apart(delivered', from')
  <2>1. Apart(delivered, from')
    BY <1>3, ApartLater, TextFacts
  <2> QED
    BY <1>1, <2>1
<1> QED
  <2>1. StatusTypeOK' /\ cleared' \in BOOLEAN
    BY <1>1, StatusFacts DEF StatusTypeOK
  <2>2. from' \in 0..Len(text') /\ text' \in Seq(Units) /\ Len(text') <= MaxText
    BY <1>1, <1>3, TextFacts
  <2>3. delivered' \in Seq(Span)
    BY <1>1, TextFacts
  <2> QED
    BY <1>4, <1>6, <2>1, <2>2, <2>3, TypeFrom

LEMMA TypeStep == TypeOK /\ [Next]_vars => TypeOK'
<1> SUFFICES ASSUME TypeOK, [Next]_vars PROVE TypeOK'
  OBVIOUS
<1> USE DEF stream
<1>0. StatusTypeOK /\ cleared \in BOOLEAN
  BY StatusFacts
<1>1. CASE UNCHANGED <<shutdown, speaks>> /\ Ends(FALSE)
  BY <1>0, <1>1, NewConnectionTypes DEF StatusTypeOK, Ends
<1>2. CASE TcpConnect
  BY <1>0, <1>2, NewConnectionTypes DEF StatusTypeOK, TcpConnect
<1>3. CASE Stop
  BY <1>0, <1>3, NewConnectionTypes DEF StatusTypeOK, Stop
<1>4. ASSUME UNCHANGED stream, pc' = "reading" => pc = "reading",
             pc' \in {"loop", "ws", "frames", "tcp", "lost", "reading", "decoding",
                     "retry", "stopped", "dead"},
             speaks' \in {"ws", "raw"}, connected' \in BOOLEAN, shutdown' \in BOOLEAN
      PROVE  TypeOK'
  BY <1>4 DEF TypeOK, pending
<1>5. CASE Begin \/ Handshake \/ FallsBack \/ Reset \/ Die \/ Retry
  BY <1>4, <1>5 DEF TypeOK, Begin, Handshake, FallsBack, Reset, Die, Retry
<1>6. CASE Cancel \/ Restart \/ Over \/ UNCHANGED vars
  BY <1>4, <1>6 DEF TypeOK, Cancel, Restart, Over, vars
<1>7. CASE \/ HandshakeFails \/ CloseFrame \/ FramesFail
           \/ TcpConnectFails \/ EndOfStream \/ ReadFails \/ DeliverFails
  <2>1. UNCHANGED <<shutdown, speaks>> /\ Ends(FALSE)
    BY <1>7 DEF HandshakeFails, CloseFrame, FramesFail, TcpConnectFails,
                EndOfStream, ReadFails, DeliverFails, Fails
  <2> QED
    BY <1>1, <2>1
<1>8. CASE Wait \/ Skip
  <2>1. Skip => from + 1 \in from..Len(text)
    BY TextFacts, DecodeFacts DEF Skip
  <2>2. from \in from..Len(text)
    BY TextFacts
  <2> QED
    BY <1>8, <2>1, <2>2, LeavesType DEF Wait, Skip
<1>9. CASE Deliver
  <2>1. from' = from + Decode(pending).len
        /\ UNCHANGED <<pc, speaks, connected, text, cleared, shutdown>>
        /\ delivered' = Append(delivered, <<from + 1, from'>>) /\ pc = "decoding"
    BY <1>9 DEF Deliver
  <2>2. from' \in Nat /\ from + 1 <= from' /\ from' <= Len(text)
    BY <1>9, <2>1, DeliverFacts, TextFacts DEF Deliver
  <2>3. delivered' \in Seq(Span) /\ Apart(delivered', from')
    <3>1. from + 1 \in Nat /\ from < from + 1 /\ from' <= MaxText
      BY <2>2, TextFacts
    <3>2. /\ Append(delivered, <<from + 1, from'>>) \in Seq(Span)
          /\ Apart(Append(delivered, <<from + 1, from'>>), from')
      BY <2>2, <3>1, TextFacts, OneMore
    <3> QED
      BY <2>1, <3>2
  <2>4. StatusTypeOK' /\ cleared' \in BOOLEAN /\ pc' # "reading"
    BY <1>0, <2>1 DEF StatusTypeOK
  <2>5. text' \in Seq(Units) /\ Len(text') <= MaxText /\ from' \in 0..Len(text')
    BY <2>1, <2>2, TextFacts
  <2> QED
    BY <2>3, <2>4, <2>5, TypeFrom
<1>10. ASSUME NEW t \in Chunks, Frame(t) \/ Read(t)
       PROVE  TypeOK'
  <2>1. /\ t \in Seq(Units) /\ Len(t) \in Nat /\ Len(t) > 0
        /\ text' = text \o t /\ Len(text) + Len(t) <= MaxText
        /\ UNCHANGED <<speaks, connected, cleared, shutdown>>
        /\ pc' \in {"frames", "decoding"}
    BY <1>10, ChunkType, LenProperties DEF Frame, Read
  <2>2. /\ text' \in Seq(Units) /\ Len(text') = Len(text) + Len(t)
    BY <2>1, TextFacts, ConcatProperties
  <2>3. from' \in 0..Len(text') /\ delivered' \in Seq(Span) /\ Apart(delivered', from')
    <3>1. CASE Read(t)
      BY <2>1, <2>2, <3>1, TextFacts DEF Read
    <3>2. CASE Frame(t) /\ delivered' = delivered
      <4>1. from' = Len(text')
        BY <3>2 DEF Frame
      <4>2. Len(text') \in Nat /\ from <= Len(text')
        BY <2>1, <2>2, TextFacts
      <4>3. Apart(delivered, Len(text'))
        BY <4>2, ApartLater, TextFacts
      <4> QED
        BY <3>2, <4>1, <4>2, <4>3, TextFacts
    <3>3. CASE Frame(t) /\ delivered' = Append(delivered, <<Len(text) + 1, Len(text')>>)
      <4>1. from' = Len(text')
        BY <3>3 DEF Frame
      <4>3. Apart(delivered, Len(text))
        BY ApartLater, TextFacts
      <4>4. /\ Len(text) + 1 \in Nat /\ Len(text) < Len(text) + 1
            /\ Len(text) + 1 <= Len(text') /\ Len(text') <= MaxText /\ Len(text') \in Nat
        BY <2>1, <2>2, TextFacts
      <4>5. LET e == Append(delivered, <<Len(text) + 1, Len(text')>>)
            IN  e \in Seq(Span) /\ Apart(e, Len(text'))
        BY <4>3, <4>4, TextFacts, OneMore
      <4> QED
        BY <3>3, <4>1, <4>4, <4>5
    <3> QED
      BY <1>10, <3>1, <3>2, <3>3 DEF Frame
  <2>4. StatusTypeOK' /\ cleared' \in BOOLEAN /\ pc' # "reading"
    BY <1>0, <2>1 DEF StatusTypeOK
  <2>5. Len(text') <= MaxText
    BY <2>1, <2>2, TextFacts
  <2> QED
    BY <2>2, <2>3, <2>4, <2>5, TypeFrom
<1> QED
  BY <1>2, <1>3, <1>5, <1>6, <1>7, <1>8, <1>9, <1>10 DEF Next, Session

(* Every variable keeps its type, and the buffer its bound.                *)
THEOREM TypeCorrect == Spec => []TypeOK
BY TypeInit, TypeStep, PTL DEF Spec

-----------------------------------------------------------------------------
(***************************************************************************)
(* The status is up exactly while there is a session, and in the two       *)
(* places where the code leaves it up without one.                         *)
(***************************************************************************)
THEOREM StatusTellsSessionAlways == Spec => []StatusTellsSession
<1>1. Init => StatusTellsSession
  BY DEF Init, StatusTellsSession, InSession
<1>2. StatusTellsSession /\ [Next]_vars => StatusTellsSession'
  <2> SUFFICES ASSUME StatusTellsSession, [Next]_vars
        PROVE  StatusTellsSession'
    OBVIOUS
  <2> USE DEF StatusTellsSession, InSession
  <2>1. CASE Begin \/ FallsBack \/ Reset \/ Die \/ Retry
    BY <2>1 DEF Begin, FallsBack, Reset, Die, Retry
  <2>2. CASE Handshake \/ TcpConnect
    BY <2>2 DEF Handshake, TcpConnect
  <2>3. CASE \/ HandshakeFails \/ CloseFrame \/ FramesFail
             \/ TcpConnectFails \/ EndOfStream \/ ReadFails \/ DeliverFails
    BY <2>3 DEF HandshakeFails, CloseFrame, FramesFail, TcpConnectFails,
                EndOfStream, ReadFails, DeliverFails, Fails, Ends
  <2>4. CASE Deliver \/ Wait \/ Skip \/ \E t \in Chunks : Frame(t) \/ Read(t)
    BY <2>4 DEF Deliver, Wait, Skip, Leaves, Frame, Read
  <2>5. CASE Cancel \/ Stop \/ Restart \/ Over \/ UNCHANGED vars
    BY <2>5 DEF Cancel, Stop, Restart, Over, vars
  <2> QED
    BY <2>1, <2>2, <2>3, <2>4, <2>5 DEF Next, Session
<1> QED
  BY <1>1, <1>2, PTL DEF Spec

-----------------------------------------------------------------------------
(***************************************************************************)
(* The invariant of the decoder: what is consumed ends where a reader of   *)
(* the stream is between values, and with the last value delivered.        *)
(***************************************************************************)
Garbled == Scan(text)[Len(text)] = Malformed

DecodeInv ==
  pc \in {"reading", "decoding", "dead"} /\ ~cleared /\ ~Garbled =>
    /\ pc # "dead"
    /\ Scan(text)[from] = Between
    /\ from = IF delivered = <<>> THEN 0 ELSE delivered[Len(delivered)][2]
    /\ AreValuesOf(delivered, text, from)
    /\ pc = "reading" => \A k \in from + 1..Len(text) : Scan(text)[k] # Between

(* What is pending is read as the rest of the stream is.                   *)
LEMMA PendingScan ==
  ASSUME TypeOK, Scan(text)[from] = Between
  PROVE  \A k \in 0..Len(pending) : Scan(pending)[k] = Scan(text)[from + k]
<1>1. from \in 0..Len(text)
  BY TextFacts
<1> QED
  BY <1>1, TextFacts, ScanSuffix

(* Skip and Die happen on malformed streams only.                          *)
LEMMA MalformedIsGarbled ==
  ASSUME TypeOK, Scan(text)[from] = Between, Decode(pending).kind = "malformed"
  PROVE  Garbled
<1>1. PICK k \in 1..Len(pending) : Scan(pending)[k] = Malformed
  BY TextFacts, DecodeFacts
<1>2. Scan(text)[from + k] = Malformed
  BY <1>1, PendingScan, TextFacts
<1>3. from + k \in 0..Len(text)
  BY <1>1, TextFacts
<1> QED
  BY <1>2, <1>3, TextFacts, MalformedStays DEF Garbled

(* A step that leaves the stream, or begins another.                       *)
LEMMA DecodeRead ==
  ASSUME TypeOK, DecodeInv, NEW t \in Chunks, Read(t)
  PROVE  DecodeInv'
<1>1. /\ t \in Seq(Units) /\ text' = text \o t /\ pc = "reading" /\ pc' = "decoding"
      /\ UNCHANGED <<from, delivered, cleared>>
  BY ChunkType DEF Read
<1>2. /\ text' \in Seq(Units) /\ Len(text') \in Nat /\ Len(text) <= Len(text')
      /\ \A k \in 0..Len(text) : Scan(text')[k] = Scan(text)[k]
  BY <1>1, TextFacts, ConcatProperties, LenProperties, ScanPrefix
<1>3. Garbled => Garbled'
  <2> SUFFICES ASSUME Scan(text)[Len(text)] = Malformed
               PROVE  Scan(text')[Len(text')] = Malformed
    BY DEF Garbled
  <2>1. Len(text) \in 0..Len(text') /\ Len(text) \in 0..Len(text)
    BY <1>2, TextFacts
  <2>2. Scan(text')[Len(text)] = Malformed
    BY <1>2, <2>1
  <2>3. Len(text') \in Len(text)..Len(text')
    BY <1>2, <2>1
  <2> QED
    BY <1>2, <2>1, <2>2, <2>3, MalformedStays
<1>4. \A k \in 0..from : Scan(text')[k] = Scan(text)[k]
  BY <1>2, TextFacts
<1>5. AreValuesOf(delivered, text, from) => AreValuesOf(delivered, text', from)
  <2>1. {k \in 1..from : Scan(text')[k] = Between} =
          {k \in 1..from : Scan(text)[k] = Between}
    BY <1>4, TextFacts
  <2> QED
    BY <2>1 DEF AreValuesOf
<1>6. Scan(text')[from] = Scan(text)[from]
  BY <1>4, TextFacts
<1> QED
  BY <1>1, <1>3, <1>5, <1>6 DEF DecodeInv

(* The value that is delivered is the next one.                            *)
LEMMA DecodeDeliver ==
  ASSUME TypeOK, DecodeInv, Deliver
  PROVE  DecodeInv'
<1> DEFINE n == Decode(pending).len
           d == delivered
           e == Append(delivered, <<from + 1, from + n>>)
<1>1. /\ pc = "decoding" /\ delivered' = e /\ from' = from + n
      /\ UNCHANGED <<pc, text, cleared>>
  BY DEF Deliver
<1>2. n \in Nat /\ n > 0 /\ from + n <= Len(text)
  BY DeliverFacts DEF Deliver
<1> SUFFICES ASSUME ~cleared, ~Garbled
             PROVE  /\ Scan(text)[from + n] = Between
                    /\ from + n = IF e = <<>> THEN 0 ELSE e[Len(e)][2]
                    /\ AreValuesOf(e, text, from + n)
  BY <1>1 DEF DecodeInv, Garbled
<1>3. /\ Scan(text)[from] = Between /\ AreValuesOf(d, text, from)
      /\ from = IF d = <<>> THEN 0 ELSE d[Len(d)][2]
  BY <1>1 DEF DecodeInv
<1>4. /\ Scan(pending)[n] = Between
      /\ \A k \in 1..n - 1 : Scan(pending)[k] # Between
      /\ n \in 1..Len(pending)
  BY TextFacts, DecodeFacts DEF Deliver
<1> HIDE DEF n
<1>5. Scan(text)[from + n] = Between
  BY <1>2, <1>3, <1>4, PendingScan, TextFacts
<1>6. \A k \in from + 1..from + n - 1 : Scan(text)[k] # Between
  <2> SUFFICES ASSUME NEW k \in from + 1..from + n - 1 PROVE Scan(text)[k] # Between
    OBVIOUS
  <2>1. k - from \in 1..n - 1 /\ k - from \in 0..Len(pending) /\ from + (k - from) = k
    BY <1>2, <1>4, TextFacts
  <2>2. Scan(pending)[k - from] = Scan(text)[from + (k - from)]
    BY <1>3, <2>1, PendingScan
  <2> QED
    BY <1>4, <2>1, <2>2
<1>7. /\ Len(e) = Len(d) + 1 /\ Len(d) \in Nat
      /\ \A i \in 1..Len(d) : e[i] = d[i]
      /\ e[Len(d) + 1] = <<from + 1, from + n>>
  <2>1. from + 1 \in Nat /\ from + n \in Nat /\ from < from + 1 /\ from + 1 <= from + n
        /\ from + n <= MaxText
    BY <1>2, TextFacts
  <2> QED
    BY <2>1, TextFacts, OneMore
<1> HIDE DEF e, d
<1>8. {e[i][2] : i \in 1..Len(e)} = {k \in 1..from + n : Scan(text)[k] = Between}
  <2>1. {d[i][2] : i \in 1..Len(d)} = {k \in 1..from : Scan(text)[k] = Between}
    BY <1>3 DEF AreValuesOf
  <2>2. {e[i][2] : i \in 1..Len(e)} = {d[i][2] : i \in 1..Len(d)} \cup {from + n}
    <3>1. \A i \in 1..Len(e) : e[i][2] \in {d[j][2] : j \in 1..Len(d)} \cup {from + n}
      <4> SUFFICES ASSUME NEW i \in 1..Len(e)
                   PROVE  e[i][2] \in {d[j][2] : j \in 1..Len(d)} \cup {from + n}
        OBVIOUS
      <4>1. CASE i \in 1..Len(d)
        BY <1>7, <4>1
      <4>2. CASE i = Len(d) + 1
        BY <1>7, <4>2
      <4> QED
        BY <1>7, <4>1, <4>2
    <3>2. \A i \in 1..Len(d) : i \in 1..Len(e) /\ d[i][2] = e[i][2]
      BY <1>7
    <3>3. Len(d) + 1 \in 1..Len(e) /\ e[Len(d) + 1][2] = from + n
      BY <1>7
    <3> QED
      BY <3>1, <3>2, <3>3
  <2>3. {k \in 1..from + n : Scan(text)[k] = Between} =
          {k \in 1..from : Scan(text)[k] = Between} \cup {from + n}
    <3>1. from \in Nat /\ n \in Nat \ {0}
      BY <1>2, TextFacts
    <3>2. \A k \in 1..from + n :
            k \in 1..from \/ k \in from + 1..from + n - 1 \/ k = from + n
      BY <3>1, PlacesBehind
    <3>3. from + n \in 1..from + n /\ \A k \in 1..from : k \in 1..from + n
      BY <3>1, PlacesBehind
    <3> QED
      BY <1>5, <1>6, <3>2, <3>3
  <2> QED
    BY <2>1, <2>2, <2>3
<1>9. ASSUME NEW i \in 1..Len(e)
      PROVE  e[i][1] <= e[i][2] /\ e[i][1] = IF i = 1 THEN 1 ELSE e[i - 1][2] + 1
  <2>1. CASE i \in 1..Len(d)
    <3>1. i # 1 => i - 1 \in 1..Len(d)
      BY <1>7, <2>1
    <3> QED
      BY <1>3, <1>7, <2>1, <3>1 DEF AreValuesOf
  <2>2. CASE i = Len(d) + 1
    <3>1. e[i][1] = from + 1 /\ e[i][2] = from + n
      BY <1>7, <2>2
    <3>2. CASE d = <<>>
      BY <1>2, <1>3, <1>7, <2>2, <3>1, <3>2, TextFacts, Nothing
    <3>3. CASE d # <<>>
      <4>1. Len(d) # 0
        BY <3>3, TextFacts, EmptySeq DEF d
      <4>2. i # 1 /\ i - 1 = Len(d) /\ Len(d) \in 1..Len(d)
        BY <1>7, <2>2, <4>1
      <4>3. e[i - 1] = d[Len(d)]
        BY <1>7, <4>2
      <4>4. d[Len(d)][2] = from
        BY <1>3, <3>3
      <4>5. from + 1 <= from + n
        BY <1>2, TextFacts
      <4> QED
        BY <3>1, <4>2, <4>3, <4>4, <4>5
    <3> QED
      BY <3>2, <3>3
  <2> QED
    BY <1>7, <2>1, <2>2
<1>10. from + n = IF e = <<>> THEN 0 ELSE e[Len(e)][2]
  <2>1. e # <<>> /\ e[Len(e)][2] = from + n
    BY <1>7, Nothing
  <2> QED
    BY <2>1
<1> QED
  BY <1>5, <1>8, <1>9, <1>10 DEF AreValuesOf

(* A decoder that waits has not overlooked a value.                        *)
LEMMA DecodeWait ==
  ASSUME TypeOK, DecodeInv, Wait
  PROVE  DecodeInv'
<1>1. /\ pc = "decoding" /\ pc' = "reading" /\ UNCHANGED <<text, delivered>>
      /\ cleared' \/ (from' = from /\ UNCHANGED cleared)
  BY DEF Wait, Leaves
<1>2. ASSUME Scan(text)[from] = Between, NEW k \in from + 1..Len(text)
      PROVE  Scan(text)[k] # Between
  <2>1. \A j \in 1..Len(pending) : Scan(pending)[j] # Between
    BY TextFacts, DecodeFacts DEF Wait
  <2>2. k - from \in 1..Len(pending) /\ k - from \in 0..Len(pending)
        /\ from + (k - from) = k
    BY TextFacts
  <2>3. Scan(pending)[k - from] = Scan(text)[from + (k - from)]
    BY <1>2, <2>2, PendingScan
  <2> QED
    BY <2>1, <2>2, <2>3
<1> QED
  BY <1>1, <1>2 DEF DecodeInv, Garbled

LEMMA DecodeStep == TypeOK /\ DecodeInv /\ [Next]_vars => DecodeInv'
<1> SUFFICES ASSUME TypeOK, DecodeInv, [Next]_vars PROVE DecodeInv'
  OBVIOUS
<1> USE DEF stream
<1>1. CASE pc' \notin {"reading", "decoding", "dead"}
  BY <1>1 DEF DecodeInv
<1>2. CASE TcpConnect
  <2>1. text' = <<>> /\ from' = 0 /\ delivered' = <<>> /\ pc' = "reading"
    BY <1>2 DEF TcpConnect, NewConnection
  <2>2. Scan(<<>>)[0] = Between
    BY Nothing, ScanFacts
  <2>3. AreValuesOf(<<>>, <<>>, 0)
    BY Nothing DEF AreValuesOf
  <2>4. \A k \in 0 + 1..Len(<<>>) : Scan(<<>>)[k] # Between
    BY Nothing
  <2> QED
    BY <2>1, <2>2, <2>3, <2>4 DEF DecodeInv
<1>3. CASE UNCHANGED <<pc, stream>>
  BY <1>3 DEF DecodeInv, Garbled
<1>4. CASE Skip \/ Die
  <2>1. pc = "decoding" /\ UNCHANGED text /\ (UNCHANGED cleared \/ cleared')
    BY <1>4 DEF Skip, Die, Leaves
  <2>2. cleared \/ Garbled
    BY <1>4, <2>1, MalformedIsGarbled DEF DecodeInv, Skip, Die
  <2>3. Garbled => Garbled'
    BY <2>1 DEF Garbled
  <2>4. cleared => cleared'
    BY <2>1
  <2> QED
    BY <2>2, <2>3, <2>4 DEF DecodeInv
<1>5. CASE \E t \in Chunks : Frame(t) \/ Read(t)
  BY <1>1, <1>5, DecodeRead DEF Frame
<1>6. CASE \/ Begin \/ Handshake \/ HandshakeFails \/ FallsBack \/ CloseFrame
           \/ FramesFail \/ Reset \/ TcpConnectFails \/ EndOfStream \/ ReadFails
           \/ DeliverFails \/ Retry \/ Stop
  BY <1>1, <1>6
     DEF Begin, Handshake, HandshakeFails, FallsBack, CloseFrame, FramesFail,
         Reset, TcpConnectFails, EndOfStream, ReadFails, DeliverFails, Retry,
         Stop, Fails, Ends
<1>7. CASE Cancel \/ Restart \/ Over \/ UNCHANGED vars
  BY <1>3, <1>7 DEF Cancel, Restart, Over, vars
<1> QED
  BY <1>2, <1>4, <1>5, <1>6, <1>7, DecodeDeliver, DecodeWait DEF Next, Session

LEMMA DecodeInvariant == Spec => [](TypeOK /\ DecodeInv)
<1>1. Init => TypeOK /\ DecodeInv
  BY TypeInit DEF Init, DecodeInv
<1>2. (TypeOK /\ DecodeInv) /\ [Next]_vars => (TypeOK /\ DecodeInv)'
  BY TypeStep, DecodeStep
<1> QED
  BY <1>1, <1>2, PTL DEF Spec

(***************************************************************************)
(* consume_json_stream, called after every read, delivers the values of a  *)
(* well-formed stream whole, once, in order and as soon as they are there, *)
(* however the stream is cut, unless it dropped an oversized buffer.       *)
(***************************************************************************)
THEOREM DecodesTheStreamAlways == Spec => []DecodesTheStream
<1>1. TypeOK /\ DecodeInv => DecodesTheStream
  <2> SUFFICES ASSUME TypeOK, DecodeInv, ~cleared, ~Garbled,
                      pc \in {"reading", "decoding", "dead"}
               PROVE  /\ pc # "dead" /\ AreValuesOf(delivered, text, from)
                      /\ pc = "reading" => AreValuesOf(delivered, text, Len(text))
    BY DEF DecodesTheStream, Garbled
  <2>1. pc # "dead" /\ AreValuesOf(delivered, text, from)
    BY DEF DecodeInv
  <2>2. ASSUME pc = "reading" PROVE AreValuesOf(delivered, text, Len(text))
    <3>1. \A k \in from + 1..Len(text) : Scan(text)[k] # Between
      BY <2>2 DEF DecodeInv
    <3>2. {k \in 1..from : Scan(text)[k] = Between} =
            {k \in 1..Len(text) : Scan(text)[k] = Between}
      BY <3>1, TextFacts
    <3> QED
      BY <2>1, <3>2 DEF AreValuesOf
  <2> QED
    BY <2>1, <2>2
<1> QED
  BY <1>1, DecodeInvariant, PTL
=============================================================================
