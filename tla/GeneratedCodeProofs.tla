------------------------ MODULE GeneratedCodeProofs ------------------------
(***************************************************************************)
(* Theorems about GeneratedCode and the conversions of Values, for every   *)
(* set of programs.                                                        *)
(***************************************************************************)
EXTENDS GeneratedCode, Integers, WellFoundedInduction, TLAPS

(* A set of naturals that has 0, and with each of its elements the next, is*)
(* Nat: the least number it lacks would have a predecessor.                *)
LEMMA SetInduction ==
  ASSUME NEW S \in SUBSET Nat, 0 \in S, \A n \in S : n + 1 \in S
  PROVE  S = Nat
<1> SUFFICES ASSUME S # Nat PROVE FALSE
  OBVIOUS
<1> DEFINE T == Nat \ S
<1>1. T \subseteq Nat /\ T # {} OBVIOUS
<1>2. PICK x \in T : \A y \in T : ~(<<y, x>> \in OpToRel(<, Nat))
  BY <1>1, NatLessThanWellFounded, WFMin
<1>3. x # 0 OBVIOUS
<1>4. x - 1 \in Nat /\ x - 1 < x BY <1>3
<1>5. x - 1 \notin T BY <1>2, <1>4 DEF OpToRel
<1> QED BY <1>4, <1>5

(* A nonempty set of naturals has a least element, which Min is.           *)
LEMMA MinIn ==
  ASSUME NEW S \in SUBSET Nat, S # {}
  PROVE  Min(S) \in S /\ \A n \in S : Min(S) <= n
<1>1. PICK x \in S : \A y \in S : ~(<<y, x>> \in OpToRel(<, Nat))
  BY NatLessThanWellFounded, WFMin
<1>2. ASSUME NEW y \in S, y < x PROVE FALSE
  <2>1. <<y, x>> \in OpToRel(<, Nat) BY <1>2 DEF OpToRel
  <2> QED BY <1>1, <2>1
<1>3. \A y \in S : x <= y BY <1>2
<1> QED BY <1>3 DEF Min

(* What FlattenSeq has put together after i of the sequences.              *)
IsFlattening(f, ss) ==
  /\ DOMAIN f = 1..Len(ss)
  /\ f[1] = ss[1] /\ \A i \in 1..(Len(ss) - 1) : f[i + 1] = f[i] \o ss[i + 1]
  /\ FlattenSeq(ss) = f[Len(ss)]

Flatten(ss, f, i) == IF i = 1 THEN ss[i] ELSE f[i - 1] \o ss[i]
(* The recursive function FlattenSeq is defined by exists.                 *)
LEMMA FlatteningExists ==
  ASSUME NEW ss, Len(ss) \in Nat \ {0}
  PROVE  \E f : IsFlattening(f, ss)
<1> DEFINE D == {n \in Nat : \E f : f = [i \in 1..n |-> Flatten(ss, f, i)]}
<1>1. 0 \in D
  <2> DEFINE f == [i \in 1..0 |-> <<>>]
  <2>1. f = [i \in 1..0 |-> Flatten(ss, f, i)] OBVIOUS
  <2> QED BY <2>1
<1>2. ASSUME NEW n \in D PROVE n + 1 \in D
  <2>1. PICK f : f = [i \in 1..n |-> Flatten(ss, f, i)] OBVIOUS
  <2> DEFINE g == [i \in 1..(n + 1) |-> IF i <= n THEN f[i] ELSE Flatten(ss, f, n + 1)]
  <2>2. ASSUME NEW i \in 1..(n + 1) PROVE g[i] = Flatten(ss, g, i)
    <3>1. i # 1 => g[i - 1] = f[i - 1] OBVIOUS
    <3>2. g[i] = Flatten(ss, f, i) BY <2>1
    <3> HIDE DEF g
    <3> QED BY <3>1, <3>2 DEF Flatten
  <2>3. g = [i \in 1..(n + 1) |-> Flatten(ss, g, i)] BY <2>2
  <2> HIDE DEF g
  <2> QED BY <2>3
<1> HIDE DEF D
<1>3. D = Nat BY <1>1, <1>2, SetInduction DEF D
<1> DEFINE f == CHOOSE f : f = [i \in 1..Len(ss) |-> Flatten(ss, f, i)]
<1>4. f = [i \in 1..Len(ss) |-> Flatten(ss, f, i)] BY <1>3 DEF D
<1>5. FlattenSeq(ss) = f[Len(ss)] BY DEF FlattenSeq, Flatten
<1> HIDE DEF f
<1>6. \A i \in 1..Len(ss) : f[i] = Flatten(ss, f, i) BY <1>4
<1>7. f[1] = ss[1] BY <1>6 DEF Flatten
<1>8. ASSUME NEW i \in 1..(Len(ss) - 1) PROVE f[i + 1] = f[i] \o ss[i + 1]
  <2>1. i + 1 \in 1..Len(ss) /\ i + 1 # 1 /\ (i + 1) - 1 = i OBVIOUS
  <2> QED BY <1>6, <2>1 DEF Flatten
<1> QED BY <1>4, <1>5, <1>7, <1>8 DEF IsFlattening

(* A concatenation has the elements of both parts.                         *)
LEMMA RangeConcat ==
  ASSUME NEW S, NEW a \in Seq(S), NEW b \in Seq(S)
  PROVE  /\ a \o b \in Seq(S) /\ Len(a \o b) = Len(a) + Len(b)
         /\ Range(a \o b) = Range(a) \cup Range(b)
<1>1. DOMAIN a = 1..Len(a) /\ DOMAIN b = 1..Len(b) /\ DOMAIN (a \o b) = 1..(Len(a) + Len(b))
  OBVIOUS
<1>2. \A i \in 1..Len(a) : i \in 1..(Len(a) + Len(b)) /\ (a \o b)[i] = a[i] OBVIOUS
<1>3. \A i \in 1..Len(b) : Len(a) + i \in 1..(Len(a) + Len(b)) /\ (a \o b)[Len(a) + i] = b[i]
  OBVIOUS
<1>4. ASSUME NEW i \in 1..(Len(a) + Len(b)), i \notin 1..Len(a)
      PROVE  i - Len(a) \in 1..Len(b) /\ i = Len(a) + (i - Len(a))
  BY <1>4
<1>5. Range(a \o b) \subseteq Range(a) \cup Range(b)
  <2> SUFFICES ASSUME NEW i \in 1..(Len(a) + Len(b)) PROVE (a \o b)[i] \in Range(a) \cup Range(b)
    BY <1>1 DEF Range
  <2>1. CASE i \in 1..Len(a) BY <1>1, <1>2, <2>1 DEF Range
  <2>2. CASE i \notin 1..Len(a)
    <3>1. (a \o b)[i] = b[i - Len(a)] BY <1>3, <1>4, <2>2
    <3> QED BY <1>1, <1>4, <2>2, <3>1 DEF Range
  <2> QED BY <2>1, <2>2
<1>6. Range(a) \subseteq Range(a \o b) BY <1>1, <1>2 DEF Range
<1>7. Range(b) \subseteq Range(a \o b) BY <1>1, <1>3 DEF Range
<1> QED BY <1>5, <1>6, <1>7

(* Induction over the sequences that FlattenSeq puts together: G relates   *)
(* how many there were to what has become of them.                         *)
LEMMA FlattenInduction ==
  ASSUME NEW S, NEW ss \in Seq(Seq(S)), ss # <<>>,
         NEW G \in SUBSET (Nat \X Seq(S)), <<1, ss[1]>> \in G,
         \A n \in 1..(Len(ss) - 1), s \in Seq(S) : <<n, s>> \in G => <<n + 1, s \o ss[n + 1]>> \in G
  PROVE  <<Len(ss), FlattenSeq(ss)>> \in G
<1>1. Len(ss) \in Nat \ {0} OBVIOUS
<1>2. PICK f : IsFlattening(f, ss) BY <1>1, FlatteningExists
<1> DEFINE D == {n \in Nat : n \in 1..Len(ss) => <<n, f[n]>> \in G}
<1>3. 0 \in D OBVIOUS
<1>4. ASSUME NEW n \in D PROVE n + 1 \in D
  <2> SUFFICES ASSUME n + 1 \in 1..Len(ss) PROVE <<n + 1, f[n + 1]>> \in G
    OBVIOUS
  <2>1. CASE n = 0
    <3>1. n + 1 = 1 /\ f[1] = ss[1] BY <1>2, <2>1 DEF IsFlattening
    <3> QED BY <3>1
  <2>2. CASE n # 0
    <3>1. n \in 1..(Len(ss) - 1) BY <1>1, <2>2
    <3>2. <<n, f[n]>> \in G BY <1>1, <3>1
    <3>3. f[n] \in Seq(S) BY <3>2
    <3>4. <<n + 1, f[n] \o ss[n + 1]>> \in G BY <3>1, <3>2, <3>3
    <3> QED BY <1>2, <3>1, <3>4 DEF IsFlattening
  <2> QED BY <2>1, <2>2
<1> HIDE DEF D
<1>5. D = Nat BY <1>3, <1>4, SetInduction DEF D
<1>6. Len(ss) \in 1..Len(ss) BY <1>1
<1>7. <<Len(ss), f[Len(ss)]>> \in G BY <1>1, <1>5, <1>6 DEF D
<1> QED BY <1>2, <1>7 DEF IsFlattening

(* The elements of FlattenSeq are those of the sequences.                  *)
LEMMA FlattenElements ==
  ASSUME NEW S, NEW ss \in Seq(Seq(S))
  PROVE  /\ FlattenSeq(ss) \in Seq(S)
         /\ Range(FlattenSeq(ss)) = UNION {Range(ss[i]) : i \in DOMAIN ss}
<1>0. DOMAIN ss = 1..Len(ss) /\ \A i \in 1..Len(ss) : ss[i] \in Seq(S) OBVIOUS
<1>1. CASE ss = <<>>
  <2>1. FlattenSeq(ss) = <<>> BY <1>1 DEF FlattenSeq
  <2>2. Range(<<>>) = {} BY DEF Range
  <2>3. DOMAIN ss = {} BY <1>1
  <2> QED BY <2>1, <2>2, <2>3
<1>2. CASE ss # <<>>
  <2> DEFINE Of(n) == UNION {Range(ss[k]) : k \in 1..n}
             G == {p \in Nat \X Seq(S) : Range(p[2]) = Of(p[1])}
  <2>1. <<1, ss[1]>> \in G
    <3>1. ss[1] \in Seq(S) BY <1>2
    <3>2. 1..1 = {1} OBVIOUS
    <3> QED BY <3>1, <3>2
  <2>2. ASSUME NEW n \in 1..(Len(ss) - 1), NEW s \in Seq(S), <<n, s>> \in G
        PROVE  <<n + 1, s \o ss[n + 1]>> \in G
    <3>1. n \in Nat /\ ss[n + 1] \in Seq(S) BY <1>0
    <3>2. s \o ss[n + 1] \in Seq(S) /\ Range(s \o ss[n + 1]) = Range(s) \cup Range(ss[n + 1])
      BY <3>1, RangeConcat
    <3>3. 1..(n + 1) = 1..n \cup {n + 1} BY <3>1
    <3>4. Of(n + 1) = Of(n) \cup Range(ss[n + 1]) BY <3>3
    <3>5. Range(s) = Of(n) BY <2>2
    <3>6. n + 1 \in Nat BY <3>1
    <3> QED BY <3>2, <3>4, <3>5, <3>6
  <2> HIDE DEF Of
  <2>3. G \in SUBSET (Nat \X Seq(S)) OBVIOUS
  <2> HIDE DEF G
  <2>4. <<Len(ss), FlattenSeq(ss)>> \in G BY <1>2, <2>1, <2>2, <2>3, FlattenInduction
  <2> QED BY <1>0, <2>4 DEF G, Of
<1> QED BY <1>1, <1>2

(* FlattenSeq of sequences of at most one element is no longer than them.  *)
LEMMA FlattenLength ==
  ASSUME NEW S, NEW ss \in Seq(Seq(S)), \A i \in DOMAIN ss : Len(ss[i]) <= 1
  PROVE  Len(FlattenSeq(ss)) <= Len(ss)
<1>0. \A i \in 1..Len(ss) : ss[i] \in Seq(S) /\ Len(ss[i]) <= 1 OBVIOUS
<1>1. CASE ss = <<>>
  BY <1>1 DEF FlattenSeq
<1>2. CASE ss # <<>>
  <2> DEFINE G == {p \in Nat \X Seq(S) : Len(p[2]) <= p[1]}
  <2>1. <<1, ss[1]>> \in G BY <1>0, <1>2
  <2>2. ASSUME NEW n \in 1..(Len(ss) - 1), NEW s \in Seq(S), <<n, s>> \in G
        PROVE  <<n + 1, s \o ss[n + 1]>> \in G
    <3>1. n \in Nat /\ ss[n + 1] \in Seq(S) /\ Len(ss[n + 1]) <= 1 BY <1>0
    <3>2. s \o ss[n + 1] \in Seq(S) /\ Len(s \o ss[n + 1]) = Len(s) + Len(ss[n + 1]) BY <3>1
    <3>3. Len(s) <= n /\ Len(s) \in Nat BY <2>2
    <3>4. Len(s \o ss[n + 1]) <= n + 1 BY <3>1, <3>2, <3>3
    <3>5. n + 1 \in Nat BY <3>1
    <3> QED BY <3>2, <3>4, <3>5
  <2>3. G \in SUBSET (Nat \X Seq(S)) OBVIOUS
  <2> HIDE DEF G
  <2>4. <<Len(ss), FlattenSeq(ss)>> \in G BY <1>2, <2>1, <2>2, <2>3, FlattenInduction
  <2> QED BY <2>4 DEF G
<1> QED BY <1>1, <1>2

(* FlattenSeq of sequences of one element is these elements.               *)
LEMMA FlattenSingles ==
  ASSUME NEW S, NEW ss \in Seq(Seq(S)), \A i \in DOMAIN ss : Len(ss[i]) = 1
  PROVE  FlattenSeq(ss) = [i \in DOMAIN ss |-> ss[i][1]]
<1>0. DOMAIN ss = 1..Len(ss) /\ \A i \in 1..Len(ss) : ss[i] \in Seq(S) /\ Len(ss[i]) = 1 OBVIOUS
<1>1. CASE ss = <<>>
  <2>1. FlattenSeq(ss) = <<>> /\ DOMAIN ss = {} BY <1>1 DEF FlattenSeq
  <2>2. <<>> = [i \in {} |-> ss[i][1]] OBVIOUS
  <2> QED BY <2>1, <2>2
<1>2. CASE ss # <<>>
  <2> DEFINE G == {p \in Nat \X Seq(S) : Len(p[2]) = p[1] /\ \A i \in 1..p[1] : p[2][i] = ss[i][1]}
  <2>1. <<1, ss[1]>> \in G
    <3>1. ss[1] \in Seq(S) /\ Len(ss[1]) = 1 BY <1>0, <1>2
    <3>2. \A i \in 1..1 : i = 1 OBVIOUS
    <3> QED BY <3>1, <3>2
  <2>2. ASSUME NEW n \in 1..(Len(ss) - 1), NEW s \in Seq(S), <<n, s>> \in G
        PROVE  <<n + 1, s \o ss[n + 1]>> \in G
    <3>1. n \in Nat /\ ss[n + 1] \in Seq(S) /\ Len(ss[n + 1]) = 1 BY <1>0
    <3>2. Len(s) = n /\ \A i \in 1..n : s[i] = ss[i][1] BY <2>2
    <3>3. s \o ss[n + 1] \in Seq(S) /\ Len(s \o ss[n + 1]) = n + 1
      <4>1. /\ s \o ss[n + 1] \in Seq(S)
            /\ Len(s \o ss[n + 1]) = Len(s) + Len(ss[n + 1])
        BY <3>1, RangeConcat
      <4> HIDE DEF G
      <4> QED BY <3>1, <3>2, <4>1
    <3>4. ASSUME NEW i \in 1..(n + 1) PROVE (s \o ss[n + 1])[i] = ss[i][1]
      <4>1. CASE i \in 1..n BY <3>1, <3>2, <4>1
      <4>2. CASE i = n + 1 BY <3>1, <3>2, <4>2
      <4>3. i \in 1..n \/ i = n + 1 BY <3>1
      <4> QED BY <4>1, <4>2, <4>3
    <3>5. n + 1 \in Nat BY <3>1
    <3> QED BY <3>3, <3>4, <3>5
  <2>3. G \in SUBSET (Nat \X Seq(S)) OBVIOUS
  <2> HIDE DEF G
  <2>4. <<Len(ss), FlattenSeq(ss)>> \in G BY <1>2, <2>1, <2>2, <2>3, FlattenInduction
  <2> DEFINE flat == FlattenSeq(ss)
  <2> HIDE DEF flat
  <2>5. flat \in Seq(S) /\ Len(flat) = Len(ss) /\ \A i \in 1..Len(ss) : flat[i] = ss[i][1]
    BY <2>4 DEF G, flat
  <2>6. flat = [i \in 1..Len(ss) |-> flat[i]] BY <2>5
  <2>7. flat = [i \in DOMAIN ss |-> ss[i][1]] BY <1>0, <2>5, <2>6
  <2> QED BY <2>7 DEF flat
<1> QED BY <1>1, <1>2

(* A function on 1..n is a sequence.                                       *)
LEMMA IsSeqFunction ==
  ASSUME NEW f, NEW n \in Nat, DOMAIN f = 1..n, f = [i \in 1..n |-> f[i]]
  PROVE  IsSeq(f) /\ Len(f) = n
<1>1. f \in [1..n -> Range(f)] BY DEF Range
<1> QED BY <1>1 DEF IsSeq

(* Append, for sequences of any elements.                                  *)
LEMMA IsSeqAppend ==
  ASSUME NEW s, IsSeq(s), NEW e
  PROVE  /\ IsSeq(Append(s, e)) /\ Len(Append(s, e)) = Len(s) + 1
         /\ \A i \in 1..Len(s) : Append(s, e)[i] = s[i]
         /\ Append(s, e)[Len(s) + 1] = e
         /\ Range(Append(s, e)) = Range(s) \cup {e}
<1> DEFINE S == Range(s) \cup {e}
           t == Append(s, e)
<1>1. s \in Seq(S) /\ e \in S
  <2>1. s \in Seq(Range(s)) BY DEF IsSeq
  <2>2. \A i \in 1..Len(s) : s[i] \in S BY <2>1
  <2>3. s = [i \in 1..Len(s) |-> s[i]] /\ Len(s) \in Nat BY <2>1
  <2> QED BY <2>2, <2>3
<1> HIDE DEF S
<1>2. /\ t \in Seq(S) /\ Len(t) = Len(s) + 1 /\ Len(s) \in Nat
      /\ \A i \in 1..Len(s) : t[i] = s[i]
      /\ t[Len(s) + 1] = e
  BY <1>1
<1> HIDE DEF t
<1>3. DOMAIN s = 1..Len(s) /\ DOMAIN t = 1..(Len(s) + 1) BY <1>1, <1>2
<1>4. 1..(Len(s) + 1) = 1..Len(s) \cup {Len(s) + 1} BY <1>2
<1>5. Range(t) = S BY <1>2, <1>3, <1>4 DEF Range, S
<1> QED BY <1>2, <1>5 DEF IsSeq, t, S

(* The facts above for sequences of any elements.                          *)
LEMMA Flattened ==
  ASSUME NEW ss, IsSeq(ss), \A i \in DOMAIN ss : IsSeq(ss[i])
  PROVE  /\ IsSeq(FlattenSeq(ss))
         /\ Range(FlattenSeq(ss)) = UNION {Range(ss[i]) : i \in DOMAIN ss}
         /\ (\A i \in DOMAIN ss : Len(ss[i]) <= 1) => Len(FlattenSeq(ss)) <= Len(ss)
         /\ (\A i \in DOMAIN ss : Len(ss[i]) = 1) => FlattenSeq(ss) = [i \in DOMAIN ss |-> ss[i][1]]
<1> DEFINE S == UNION {Range(ss[i]) : i \in DOMAIN ss}
<1>1. ss \in Seq(Seq(S))
  <2>1. ASSUME NEW i \in DOMAIN ss PROVE ss[i] \in Seq(S)
    <3>1. Range(ss[i]) \subseteq S OBVIOUS
    <3>2. ss[i] \in Seq(Range(ss[i])) BY DEF IsSeq
    <3>3. ss[i] = [k \in 1..Len(ss[i]) |-> ss[i][k]] /\ Len(ss[i]) \in Nat BY <3>2
    <3>4. \A k \in 1..Len(ss[i]) : ss[i][k] \in Range(ss[i]) BY <3>2
    <3> HIDE DEF S
    <3> QED BY <3>1, <3>3, <3>4
  <2> HIDE DEF S
  <2>2. ss \in Seq(Range(ss)) BY DEF IsSeq
  <2>3. ss = [i \in 1..Len(ss) |-> ss[i]] /\ Len(ss) \in Nat /\ DOMAIN ss = 1..Len(ss) BY <2>2
  <2> QED BY <2>1, <2>3
<1>2. FlattenSeq(ss) \in Seq(S) /\ Range(FlattenSeq(ss)) = S BY <1>1, FlattenElements
<1>3. IsSeq(FlattenSeq(ss)) BY <1>2 DEF IsSeq
<1> HIDE DEF S
<1> QED BY <1>1, <1>2, <1>3, FlattenLength, FlattenSingles DEF S

(* A sequence of sequences, for the lemmas that need a set of elements.    *)
LEMMA InSeqSeq ==
  ASSUME NEW ss, IsSeq(ss), \A i \in DOMAIN ss : IsSeq(ss[i])
  PROVE  \E S : ss \in Seq(Seq(S))
<1> DEFINE S == UNION {Range(ss[i]) : i \in DOMAIN ss}
<1>1. ASSUME NEW i \in DOMAIN ss PROVE ss[i] \in Seq(S)
  <2>1. Range(ss[i]) \subseteq S OBVIOUS
  <2>2. ss[i] \in Seq(Range(ss[i])) BY DEF IsSeq
  <2>3. ss[i] = [k \in 1..Len(ss[i]) |-> ss[i][k]] /\ Len(ss[i]) \in Nat BY <2>2
  <2>4. \A k \in 1..Len(ss[i]) : ss[i][k] \in Range(ss[i]) BY <2>2
  <2> HIDE DEF S
  <2> QED BY <2>1, <2>3, <2>4
<1> HIDE DEF S
<1>2. ss \in Seq(Range(ss)) BY DEF IsSeq
<1>3. ss = [i \in 1..Len(ss) |-> ss[i]] /\ Len(ss) \in Nat /\ DOMAIN ss = 1..Len(ss) BY <1>2
<1>4. ss \in Seq(Seq(S)) BY <1>1, <1>3
<1> QED BY <1>4

(* FlattenSeq of sequences of at most one element has their elements in    *)
(* their order: an increasing function leads to the sequences that have    *)
(* one.                                                                    *)
Indexes(of, ss, s, n) ==
  /\ of \in [1..Len(s) -> 1..n] /\ Range(of) = {k \in 1..n : ss[k] # <<>>}
  /\ \A i, j \in 1..Len(s) : i < j => of[i] < of[j]
  /\ \A i \in 1..Len(s) : s[i] = ss[of[i]][1]

LEMMA FlattenIndexes ==
  ASSUME NEW ss, IsSeq(ss), \A i \in DOMAIN ss : IsSeq(ss[i]) /\ Len(ss[i]) <= 1
  PROVE  \E of : Indexes(of, ss, FlattenSeq(ss), Len(ss))
<1>1. PICK S : ss \in Seq(Seq(S)) BY InSeqSeq
<1>2. ASSUME NEW i \in 1..Len(ss) PROVE ss[i] \in Seq(S) /\ Len(ss[i]) \in {0, 1}
  <2>1. ss[i] \in Seq(S) /\ DOMAIN ss = 1..Len(ss) BY <1>1
  <2>2. Len(ss[i]) \in Nat BY <2>1
  <2>3. Len(ss[i]) <= 1 BY <2>1
  <2>4. \A n \in Nat : n <= 1 => n \in {0, 1} OBVIOUS
  <2> QED BY <2>1, <2>2, <2>3, <2>4
<1>3. CASE ss = <<>>
  <2>1. FlattenSeq(ss) = <<>> /\ Len(ss) = 0 BY <1>3 DEF FlattenSeq
  <2> DEFINE of == [i \in 1..0 |-> 1]
  <2>2. of \in [1..0 -> 1..0] /\ Range(of) = {} BY DEF Range
  <2>3. Indexes(of, ss, <<>>, 0) BY <2>2 DEF Indexes
  <2> QED BY <2>1, <2>3
<1>4. CASE ss # <<>>
  <2> DEFINE G == {p \in Nat \X Seq(S) : \E of : Indexes(of, ss, p[2], p[1])}
  <2>1. <<1, ss[1]>> \in G
    <3>1. ss[1] \in Seq(S) /\ Len(ss[1]) \in {0, 1} BY <1>2, <1>4, <1>1
    <3> DEFINE of == [i \in 1..Len(ss[1]) |-> 1]
    <3>2. 1..1 = {1} /\ 1..0 = {} OBVIOUS
    <3>3. CASE Len(ss[1]) = 0
      <4>1. ss[1] = <<>> BY <3>1, <3>3
      <4>2. Range(of) = {} /\ of \in [1..0 -> 1..1] BY <3>2, <3>3 DEF Range
      <4> QED BY <3>1, <3>2, <3>3, <4>1, <4>2 DEF Indexes
    <3>4. CASE Len(ss[1]) = 1
      <4>1. ss[1] # <<>> BY <3>4
      <4>2. Range(of) = {1} /\ of \in [1..1 -> 1..1] /\ of[1] = 1 BY <3>2, <3>4 DEF Range
      <4>3. Indexes(of, ss, ss[1], 1)
        <5> HIDE DEF of
        <5> QED BY <3>2, <3>4, <4>1, <4>2 DEF Indexes
      <4> QED BY <3>1, <4>3
    <3> QED BY <3>1, <3>3, <3>4
  <2>2. ASSUME NEW n \in 1..(Len(ss) - 1), NEW s \in Seq(S), <<n, s>> \in G
        PROVE  <<n + 1, s \o ss[n + 1]>> \in G
    <3>1. PICK of : Indexes(of, ss, s, n) BY <2>2
    <3> PICK e : e = ss[n + 1] OBVIOUS
    <3>2. n \in Nat /\ n + 1 \in Nat /\ e \in Seq(S) /\ Len(e) \in {0, 1} BY <1>1, <1>2
    <3>3. 1..(n + 1) = 1..n \cup {n + 1} BY <3>2
    <3>4. Len(s) \in Nat /\ s \o e \in Seq(S) BY <3>2
    <3>5. CASE Len(e) = 0
      <4>1. e = <<>> /\ s \o e = s BY <3>2, <3>5
      <4>2. Indexes(of, ss, s, n + 1) BY <3>1, <3>3, <4>1 DEF Indexes
      <4> QED BY <3>2, <4>1, <4>2
    <3>6. CASE Len(e) = 1
      <4> PICK l : l = Len(s) OBVIOUS
      <4> DEFINE g == [i \in 1..(l + 1) |-> IF i \in 1..l THEN of[i] ELSE n + 1]
      <4>1. l \in Nat /\ 1..(l + 1) = 1..l \cup {l + 1} /\ l + 1 \notin 1..l BY <3>4
      <4>2. e # <<>>
        <5> SUFFICES ASSUME e = <<>> PROVE FALSE OBVIOUS
        <5>1. Len(e) = 0 OBVIOUS
        <5> QED BY <3>6, <5>1
      <4>3. \A i \in 1..l : g[i] = of[i] /\ of[i] \in 1..n BY <3>1, <4>1 DEF Indexes
      <4>4. g[l + 1] = n + 1 BY <4>1
      <4>5. /\ Len(s \o e) = l + 1
            /\ \A i \in 1..l : (s \o e)[i] = s[i]
            /\ (s \o e)[l + 1] = e[1]
        <5>1. Len(s \o e) = Len(s) + Len(e) BY <1>1, <3>2, RangeConcat
        <5>2. \A i \in 1..Len(s) : (s \o e)[i] = s[i] BY <3>2
        <5>3. (s \o e)[Len(s) + 1] = e[1] BY <3>2, <3>4, <3>6
        <5> QED BY <3>6, <5>1, <5>2, <5>3
      <4>6. g \in [1..(l + 1) -> 1..(n + 1)] BY <3>3, <4>1, <4>3, <4>4
      <4> HIDE DEF g
      <4>7. Range(g) = Range(of) \cup {n + 1}
        <5>1. DOMAIN g = 1..l \cup {l + 1} /\ DOMAIN of = 1..l BY <3>1, <4>1, <4>6 DEF Indexes
        <5> QED BY <4>3, <4>4, <5>1 DEF Range
      <4>8. Range(g) = {k \in 1..(n + 1) : ss[k] # <<>>} BY <3>1, <3>3, <4>2, <4>7 DEF Indexes
      <4>9. ASSUME NEW i \in 1..(l + 1), NEW j \in 1..(l + 1), i < j PROVE g[i] < g[j]
        <5>1. i \in 1..l BY <4>1, <4>9
        <5>2. CASE j \in 1..l BY <3>1, <4>3, <4>9, <5>1, <5>2 DEF Indexes
        <5>3. CASE j = l + 1 
          <6>1. g[i] \in 1..n /\ g[j] = n + 1 BY <4>3, <4>4, <5>1, <5>3
          <6> QED BY <3>2, <6>1
        <5> QED BY <4>1, <5>2, <5>3
      <4>10. ASSUME NEW i \in 1..(l + 1) PROVE (s \o e)[i] = ss[g[i]][1]
        <5>1. CASE i \in 1..l BY <3>1, <4>3, <4>5, <5>1 DEF Indexes
        <5>2. CASE i = l + 1 BY <4>4, <4>5, <5>2
        <5> QED BY <4>1, <5>1, <5>2
      <4>11. Indexes(g, ss, s \o e, n + 1) BY <4>5, <4>6, <4>8, <4>9, <4>10 DEF Indexes
      <4> QED BY <3>2, <3>4, <4>11
    <3> QED BY <3>2, <3>5, <3>6
  <2>3. G \in SUBSET (Nat \X Seq(S)) OBVIOUS
  <2> HIDE DEF G
  <2>4. <<Len(ss), FlattenSeq(ss)>> \in G BY <1>1, <1>4, <2>1, <2>2, <2>3, FlattenInduction
  <2> QED BY <2>4 DEF G
<1> QED BY <1>3, <1>4
-----------------------------------------------------------------------------
(* What an argument is on its way back: a value of a Rust type, bound to a *)
(* parameter, stored in a column whose declared type has that Rust type,   *)
(* and read by from_row into a field of the same type is the value it was, *)
(* for every type and column; text up to its first zero, and with the one  *)
(* exception of a NaN.  (core ffi.rs, prepare, get_column_value and the    *)
(* conversions of Value; macro field_type_from_datatype_name.)             *)
Fits(x) == x.data \in Contents[x.of] \ {"nan"}
Back(x, column_type) == get_column_value(Store(Bind(From(x)), column_type))

(* From on a value that is no None.                                        *)
LEMMA FromFits ==
  ASSUME NEW b \in Bases, NEW d \in Data
  PROVE  From([of |-> b, data |-> d]) = [class |-> ClassOf[b], data |-> d]
BY DEF From, None, Bases, ClassOf

THEOREM RoundTrip ==
  ASSUME NEW type \in RustType, NEW ct \in DOMAIN RustBase, RustBase[ct] = type.of,
         NEW d \in Data, Fits([of |-> type.of, data |-> d])
  PROVE  LET x == [of |-> type.of, data |-> d]
             v == Back(x, ct)
         IN /\ Converts(v, type)
            /\ TryFrom(v, type) = IF x.of = "String" /\ d = "nul" THEN [x EXCEPT !.data = "word"] ELSE x
<1> DEFINE x == [of |-> type.of, data |-> d]
           v == Back(x, ct)
<1>1. type.of \in Bases BY DEF RustType
<1>2. From(x) = [class |-> ClassOf[type.of], data |-> d] BY <1>1, FromFits
<1>3. ct \in {"BLOB", "INTEGER", "REAL", "DOUBLE", "TEXT"} BY DEF RustBase
<1>4. d \in {"whole", "fraction", "word", "nul", "nan"} BY DEF Data
<1>5. CASE ct = "TEXT"
  <2>1. type.of = "String" /\ ClassOf[type.of] = "Text" BY <1>5 DEF RustBase, ClassOf
  <2>2. Store(Bind(From(x)), ct) = [class |-> "Text", data |-> d]
    BY <1>2, <1>5, <2>1 DEF Store, Bind
  <2>3. v = [class |-> "Text", data |-> IF d = "nul" THEN "word" ELSE d]
    BY <2>2 DEF Back, get_column_value
  <2> QED BY <2>1, <2>3 DEF Converts, TryFrom, Null, ClassOf
<1>6. CASE ct = "BLOB"
  <2>1. type.of = "bytes" /\ ClassOf[type.of] = "Blob" BY <1>6 DEF RustBase, ClassOf
  <2>2. v = [class |-> "Blob", data |-> d]
    BY <1>2, <1>6, <2>1 DEF Back, get_column_value, Store, Bind
  <2> QED BY <2>1, <2>2 DEF Converts, TryFrom, Null, ClassOf
<1>7. CASE ct = "INTEGER"
  <2>1. type.of = "i64" /\ ClassOf[type.of] = "Integer" BY <1>7 DEF RustBase, ClassOf
  <2>2. d = "whole" BY <2>1 DEF Fits, Contents
  <2>3. v = [class |-> "Integer", data |-> d]
    BY <1>2, <1>7, <2>1, <2>2 DEF Back, get_column_value, Store, Bind
  <2> QED BY <2>1, <2>3 DEF Converts, TryFrom, Null, ClassOf
<1>8. CASE ct \in {"REAL", "DOUBLE"}
  <2>1. type.of = "f64" /\ ClassOf[type.of] = "Real" BY <1>8 DEF RustBase, ClassOf
  <2>2. d \in {"whole", "fraction"} BY <2>1 DEF Fits, Contents
  <2>3. v = [class |-> "Real", data |-> d]
    BY <1>2, <1>8, <2>1, <2>2 DEF Back, get_column_value, Store, Bind
  <2> QED BY <2>1, <2>3 DEF Converts, TryFrom, Null, ClassOf
<1> QED BY <1>3, <1>5, <1>6, <1>7, <1>8

(* An Option that is None comes back as None from every column.            *)
THEOREM NoneRoundTrip ==
  ASSUME NEW type \in RustType, type.optional, NEW ct \in DOMAIN RustBase
  PROVE  Converts(Back(None, ct), type) /\ TryFrom(Back(None, ct), type) = None
<1>1. From(None) = Null BY DEF From
<1>2. Store(Bind(Null), ct) = Null BY DEF Store, Bind, Null
<1>3. Back(None, ct) = Null BY <1>1, <1>2 DEF Back, get_column_value, Null
<1> QED BY <1>3 DEF Converts, TryFrom
-----------------------------------------------------------------------------
(* The inductive invariant behind NoDanglingReference: a table of a CREATE *)
(* TABLE that has run is in the database unless a later statement drops it;*)
(* all have run, and the references were looked up, once functions are     *)
(* generated.                                                              *)
Late == {"fns", "expanded", "built", "migrating", "running"}
DroppedAfter(i, t) ==
  \E j \in DOMAIN migrate.statements :
    i < j /\ migrate.statements[j].op = "drop" /\ migrate.statements[j].table = t
Standing ==
  \A i \in DOMAIN migrate.statements :
    /\ migrate.statements[i].op = "create"
    /\ phase = "migrate" => i < at
    => migrate.statements[i].table \in DOMAIN schema \/ DroppedAfter(i, migrate.statements[i].table)
IInv ==
  /\ program \in Programs
  /\ phase = "split" => at = 1
  /\ phase = "migrate" => at \in Nat \ {0}
  /\ DOMAIN migrate.statements = 1..Len(migrate.statements) /\ Len(migrate.statements) \in Nat
  /\ is_ddl(migrate)
  /\ phase \in Late => validate_migrate_expr
  /\ phase \in {"migrate"} \cup Late => Standing

LEMMA InitIInv == GCInit => IInv
<1> SUFFICES ASSUME GCInit PROVE IInv
  OBVIOUS
<1>1. migrate.statements = <<>> BY DEF GCInit, Init
<1> QED BY <1>1 DEF GCInit, Init, IInv, Late, Standing, is_ddl, Range

(* An expansion or a call that stops, or that leaves migrate and schema    *)
(* alone, keeps the invariant.                                             *)
LEMMA QuietIInv ==
  ASSUME IInv, UNCHANGED <<program, migrate, schema>>,
         phase' \notin {"split", "migrate"}, phase' \in Late => phase \in Late
  PROVE  IInv'
<1>1. (validate_migrate_expr)' = validate_migrate_expr
  BY DEF validate_migrate_expr, Creates, Declared
<1>2. phase' \in Late => Standing'
  <2> SUFFICES ASSUME phase' \in Late PROVE Standing'
    OBVIOUS
  <2>1. Standing /\ phase # "migrate" /\ phase' # "migrate" BY DEF IInv, Late
  <2> QED BY <2>1 DEF Standing, DroppedAfter
<1> QED BY <1>1, <1>2 DEF IInv, is_ddl

LEMMA NextIInv == IInv /\ [Next]_vars => IInv'
<1> SUFFICES ASSUME IInv, [Next]_vars PROVE IInv'
  OBVIOUS
<1>1. ASSUME NEW how \in {"error", "panic", "rejected"}, Stop(how) PROVE IInv'
  BY <1>1, QuietIInv DEF Stop, Late
<1>2. CASE Split
  <2>1. PICK i \in DOMAIN program : migrate' = program[i] BY <1>2 DEF Split
  <2>2. DOMAIN (migrate').statements = 1..Len((migrate').statements)
        /\ Len((migrate').statements) \in Nat
    <3>1. program[i] \in Range(program) /\ program \in Programs BY DEF IInv, Range
    <3>2. IsSeq(program[i].statements) BY <3>1, ProgramsAssumption
    <3> QED BY <2>1, <3>2 DEF IsSeq
  <2>3. at' = 1 /\ phase' = "migrate" /\ program' = program BY <1>2 DEF Split, IInv
  <2>4. Standing' BY <2>2, <2>3 DEF Standing
  <2>5. is_ddl(migrate)' BY <1>2 DEF Split, FirstDdl, is_ddl
  <2> QED BY <2>2, <2>3, <2>4, <2>5 DEF IInv, Late
<1>3. CASE RunMigrate
  <2> DEFINE stmt == migrate.statements[at]
  <2>1. at \in DOMAIN migrate.statements BY <1>3 DEF RunMigrate, IInv
  <2>2. \A t \in DOMAIN schema : t \in DOMAIN schema' \/ (stmt.op = "drop" /\ stmt.table = t)
    <3>1. schema' = After(stmt, schema) BY <1>3 DEF RunMigrate
    <3>2. stmt.op \in Ddl BY <2>1 DEF IInv, is_ddl, Range
    <3>3. CASE stmt.op = "create"
      <4>1. DOMAIN schema' = DOMAIN schema \cup {stmt.table} BY <3>1, <3>3 DEF After
      <4> QED BY <4>1
    <3>4. CASE stmt.op = "alter"
      <4>1. DOMAIN schema' = DOMAIN schema BY <3>1, <3>4 DEF After
      <4> QED BY <4>1
    <3>5. CASE stmt.op = "drop"
      <4>1. DOMAIN schema' = DOMAIN schema \ {stmt.table} BY <3>1, <3>5 DEF After
      <4> QED BY <4>1, <3>5
    <3>6. CASE stmt.op = "index"
      BY <3>1, <3>6 DEF After
    <3> QED BY <3>2, <3>3, <3>4, <3>5, <3>6 DEF Ddl
  <2>3. stmt.op = "create" => stmt.table \in DOMAIN schema' BY <1>3 DEF RunMigrate, After
  <2>4. phase = "migrate" /\ phase' = "migrate" /\ at' = at + 1 /\ migrate' = migrate
    BY <1>3 DEF RunMigrate
  <2>5. stmt.op = "drop" => \A i \in DOMAIN migrate.statements : i < at => DroppedAfter(i, stmt.table)
    BY <2>1 DEF DroppedAfter
  <2>6. Standing'
    <3> SUFFICES ASSUME NEW i \in DOMAIN migrate.statements,
                        migrate.statements[i].op = "create", i < at + 1
                 PROVE  migrate.statements[i].table \in DOMAIN schema'
                        \/ DroppedAfter(i, migrate.statements[i].table)
      BY <2>4 DEF Standing, DroppedAfter
    <3>1. CASE i = at BY <3>1, <2>3
    <3>2. CASE i # at
      <4>1. i < at BY <3>2, <2>4 DEF IInv
      <4>2. migrate.statements[i].table \in DOMAIN schema
            \/ DroppedAfter(i, migrate.statements[i].table)
        BY <4>1, <2>4 DEF IInv, Standing
      <4> QED BY <4>1, <4>2, <2>2, <2>5
    <3> QED BY <3>1, <3>2
  <2>7. program' = program BY <1>3 DEF RunMigrate
  <2> QED BY <2>4, <2>6, <2>7 DEF IInv, Late, is_ddl
<1>4. CASE structs_tokens
  <2>1. phase = "migrate" /\ at > Len(migrate.statements) /\ validate_migrate_expr /\ phase' = "fns"
    BY <1>4 DEF structs_tokens, Validated
  <2>2. UNCHANGED <<program, migrate, schema>> BY <1>4 DEF structs_tokens
  <2>3. (validate_migrate_expr)' BY <2>1, <2>2 DEF validate_migrate_expr, Creates, Declared
  <2>4. \A i \in DOMAIN migrate.statements : i < at BY <2>1 DEF IInv
  <2>5. Standing' BY <2>1, <2>2, <2>4 DEF IInv, Standing, DroppedAfter
  <2> QED BY <2>1, <2>2, <2>3, <2>5 DEF IInv, Late, is_ddl
<1>5. CASE fn_tokens
  BY <1>5, QuietIInv DEF fn_tokens, Generating, Late
<1>6. CASE trait_tokens
  BY <1>6, QuietIInv DEF trait_tokens, Late
<1>7. CASE Build \/ StartMigrate \/ MigratePiece \/ MigrateStops \/ MigrateReturns
  BY <1>7, QuietIInv DEF Build, StartMigrate, MigratePiece, MigrateStops, MigrateReturns,
     Stop, Late
<1>8. CASE NoMigration \/ MigrateFails \/ MissingReference \/ StructPanics
           \/ FnRefused \/ FnPanics \/ TraitPanics \/ Reject
  BY <1>8, <1>1 DEF NoMigration, MigrateFails, MissingReference, StructPanics, FnRefused,
     FnPanics, TraitPanics, Reject
<1>9. CASE Call \/ UNCHANGED vars
  <2>1. UNCHANGED macroVars BY <1>9 DEF Call, vars
  <2>2. UNCHANGED <<program, phase, migrate, at, schema>> BY <2>1 DEF macroVars
  <2>3. (validate_migrate_expr)' = validate_migrate_expr
    BY <2>2 DEF validate_migrate_expr, Creates, Declared
  <2>4. Standing' = Standing BY <2>2 DEF Standing, DroppedAfter
  <2> QED BY <2>2, <2>3, <2>4 DEF IInv, is_ddl
<1> QED
  BY <1>2, <1>3, <1>4, <1>5, <1>6, <1>7, <1>8, <1>9 DEF Next, Expand

-----------------------------------------------------------------------------
(* The expressions after the i-th that are not DDL.                        *)
LEMMA OthersFromIs ==
  ASSUME IsSeq(program), NEW i \in Nat
  PROVE  /\ IsSeq(OthersFrom(i)) /\ Len(OthersFrom(i)) <= Len(program)
         /\ Range(OthersFrom(i)) \subseteq Range(program)
         /\ \E of \in [DOMAIN OthersFrom(i) -> DOMAIN program] :
              /\ Range(of) = {k \in DOMAIN program : k >= i /\ ~is_ddl(program[k])}
              /\ \A m, n \in DOMAIN OthersFrom(i) : m < n => of[m] < of[n]
              /\ \A n \in DOMAIN OthersFrom(i) : OthersFrom(i)[n] = program[of[n]]
<1> DEFINE ss == [k \in DOMAIN program |->
                    IF k < i \/ is_ddl(program[k]) THEN <<>> ELSE <<program[k]>>]
<1>1. DOMAIN program = 1..Len(program) /\ Len(program) \in Nat BY DEF IsSeq
<1>2. IsSeq(ss) /\ Len(ss) = Len(program) BY <1>1, IsSeqFunction
<1>3. \A k \in DOMAIN ss : IsSeq(ss[k]) /\ Len(ss[k]) <= 1
  <2>1. IsSeq(<<>>) BY DEF IsSeq
  <2>2. \A e : IsSeq(<<e>>) /\ Len(<<e>>) = 1
    <3> SUFFICES ASSUME NEW e PROVE IsSeq(<<e>>) /\ Len(<<e>>) = 1
      OBVIOUS
    <3>1. Range(<<e>>) = {e} BY DEF Range
    <3> QED BY <3>1 DEF IsSeq
  <2> QED BY <2>1, <2>2
<1>4. OthersFrom(i) = FlattenSeq(ss) BY DEF OthersFrom
<1>5. ASSUME NEW k \in DOMAIN program
      PROVE  IF k >= i /\ ~is_ddl(program[k]) THEN ss[k] # <<>> /\ ss[k][1] = program[k] ELSE ss[k] = <<>>
  <2>1. \A e : <<e>> # <<>> /\ <<e>>[1] = e
    <3> SUFFICES ASSUME NEW e PROVE <<e>> # <<>> /\ <<e>>[1] = e
      OBVIOUS
    <3>1. Len(<<e>>) = 1 /\ Len(<<>>) = 0 OBVIOUS
    <3> QED BY <3>1
  <2>2. k < i <=> ~(k >= i) BY <1>1
  <2> QED BY <2>1, <2>2
<1>6. DOMAIN ss = DOMAIN program OBVIOUS
<1> HIDE DEF ss
<1>7. IsSeq(FlattenSeq(ss)) /\ Len(FlattenSeq(ss)) <= Len(ss) BY <1>2, <1>3, Flattened
<1> PICK flat : flat = FlattenSeq(ss) OBVIOUS
<1>8. PICK of : Indexes(of, ss, flat, Len(ss)) BY <1>2, <1>3, FlattenIndexes
<1>9. DOMAIN flat = 1..Len(flat) BY <1>7 DEF IsSeq
<1>10. /\ of \in [DOMAIN flat -> DOMAIN program]
       /\ Range(of) = {k \in DOMAIN program : ss[k] # <<>>}
       /\ \A m, n \in DOMAIN flat : m < n => of[m] < of[n]
       /\ \A n \in DOMAIN flat : flat[n] = ss[of[n]][1]
  BY <1>1, <1>2, <1>8, <1>9 DEF Indexes
<1>11. Range(of) = {k \in DOMAIN program : k >= i /\ ~is_ddl(program[k])} BY <1>5, <1>10
<1>12. ASSUME NEW n \in DOMAIN flat PROVE flat[n] = program[of[n]]
  <2>1. of[n] \in Range(of) BY <1>10 DEF Range
  <2> QED BY <1>5, <1>10, <1>11, <2>1
<1>13. Range(flat) \subseteq Range(program) BY <1>10, <1>12 DEF Range
<1> QED BY <1>2, <1>4, <1>7, <1>10, <1>11, <1>12, <1>13

(* The inductive invariant behind LetsAreAccountedFor: one function for    *)
(* each expression handled so far, in their order; and those expressions   *)
(* are what follows the migrate expression in the program, but for DDL.    *)
Done == {"expanded", "built", "migrating", "running"}
Follow(m, of) ==
  /\ m \in DOMAIN program /\ of \in [DOMAIN rest -> DOMAIN program]
  /\ migrate = program[m] /\ FirstDdl(m)
  /\ Range(of) = {k \in DOMAIN program : k > m /\ ~is_ddl(program[k])}
  /\ \A i, j \in DOMAIN rest : i < j => of[i] < of[j]
  /\ \A i \in DOMAIN rest : rest[i] = program[of[i]]
OrderInv == phase \in {"migrate"} \cup Late => \E m, of : Follow(m, of)
LetsInv ==
  /\ IsSeq(rest) /\ Len(rest) <= Len(program) /\ Range(rest) \subseteq Range(program)
  /\ IsSeq(fns) /\ Len(fns) <= Len(rest)
  /\ \A i \in DOMAIN fns :
       fns[i].ident = rest[i].ident /\ fns[i].statement = rest[i].statements[1]
  /\ phase \in {"split", "migrate"} => fns = <<>>
  /\ phase = "fns" => at = Len(fns) + 1
  /\ phase \in Done => Len(fns) = Len(rest)

LEMMA InitLetsInv == GCInit => LetsInv
<1> SUFFICES ASSUME GCInit PROVE LetsInv
  OBVIOUS
<1>1. program \in Programs /\ rest = <<>> /\ fns = <<>> /\ phase = "split" BY DEF GCInit, Init
<1>2. IsSeq(program) BY <1>1, ProgramsAssumption
<1>3. Len(program) \in Nat BY <1>2 DEF IsSeq
<1>4. IsSeq(<<>>) /\ Range(<<>>) = {} BY DEF IsSeq, Range
<1> QED BY <1>1, <1>3, <1>4 DEF LetsInv, Late, Done

LEMMA QuietLetsInv ==
  ASSUME LetsInv, UNCHANGED <<program, migrate, rest, fns>>,
         phase' \notin {"split", "migrate", "fns"}, phase' \in Late => phase \in Done
  PROVE  LetsInv'
BY DEF LetsInv, Late, Done

LEMMA NextLetsInv == IInv /\ LetsInv /\ [Next]_vars => LetsInv'
<1> SUFFICES ASSUME IInv, LetsInv, [Next]_vars PROVE LetsInv'
  OBVIOUS
<1>0. IsSeq(program) BY ProgramsAssumption DEF IInv
<1>1. ASSUME NEW how \in {"error", "panic", "rejected"}, Stop(how) PROVE LetsInv'
  BY <1>1, QuietLetsInv DEF Stop, Late
<1>2. CASE Split
  <2>1. PICK i \in DOMAIN program : FirstDdl(i) /\ migrate' = program[i] /\ rest' = OthersFrom(i + 1)
    BY <1>2 DEF Split
  <2>2. i + 1 \in Nat BY <1>0 DEF IsSeq
  <2>3. IsSeq(rest') /\ Len(rest') <= Len(program) /\ Range(rest') \subseteq Range(program)
    BY <1>0, <2>1, <2>2, OthersFromIs
  <2>4. phase' = "migrate" /\ program' = program /\ fns' = <<>> BY <1>2 DEF Split, LetsInv
  <2>5. IsSeq(fns') /\ Len(fns') <= Len(rest') /\ DOMAIN fns' = {}
    <3>1. IsSeq(<<>>) BY DEF IsSeq
    <3>2. Len(rest') \in Nat BY <2>3 DEF IsSeq
    <3> QED BY <2>4, <3>1, <3>2
  <2> QED BY <2>3, <2>4, <2>5 DEF LetsInv, Done
<1>3. CASE RunMigrate
  BY <1>3 DEF RunMigrate, LetsInv, Done, Late, is_ddl
<1>4. CASE structs_tokens
  <2>1. phase = "migrate" /\ phase' = "fns" /\ at' = 1 /\ UNCHANGED <<program, migrate, rest, fns>>
    BY <1>4 DEF structs_tokens, Validated
  <2>2. fns = <<>> BY <2>1 DEF LetsInv
  <2> QED BY <2>1, <2>2 DEF LetsInv, Done, Late, is_ddl
<1>5. CASE fn_tokens
  <2>1. /\ phase = "fns" /\ phase' = "fns" /\ at <= Len(rest) /\ at' = at + 1
        /\ UNCHANGED <<program, migrate, rest>>
    BY <1>5 DEF fn_tokens, Generating
  <2>2. PICK fn : /\ fns' = Append(fns, fn)
                  /\ fn.ident = rest[at].ident /\ fn.statement = rest[at].statements[1]
    BY <1>5 DEF fn_tokens
  <2>3. IsSeq(fns) /\ at = Len(fns) + 1 BY <2>1 DEF LetsInv
  <2>4. /\ IsSeq(fns') /\ Len(fns') = Len(fns) + 1
        /\ \A i \in 1..Len(fns) : fns'[i] = fns[i]
        /\ fns'[Len(fns) + 1] = fn
    BY <2>2, <2>3, IsSeqAppend
  <2>5. Len(fns) \in Nat /\ DOMAIN fns = 1..Len(fns) /\ DOMAIN fns' = 1..(Len(fns) + 1)
    BY <2>3, <2>4 DEF IsSeq
  <2>6. ASSUME NEW i \in DOMAIN fns'
        PROVE  fns'[i].ident = rest[i].ident /\ fns'[i].statement = rest[i].statements[1]
    <3>1. CASE i \in DOMAIN fns BY <2>4, <2>5, <3>1 DEF LetsInv
    <3>2. CASE i = Len(fns) + 1 BY <2>2, <2>3, <2>4, <3>2
    <3> QED BY <2>5, <3>1, <3>2
  <2> QED BY <2>1, <2>3, <2>4, <2>5, <2>6 DEF LetsInv, Done, Late, is_ddl
<1>6. CASE trait_tokens
  <2>1. phase = "fns" /\ at > Len(rest) /\ phase' = "expanded" /\ UNCHANGED <<program, migrate, rest, fns>>
    BY <1>6 DEF trait_tokens
  <2>2. Len(fns) \in Nat /\ Len(rest) \in Nat BY DEF LetsInv, IsSeq
  <2>3. Len(fns) = Len(rest) BY <2>1, <2>2 DEF LetsInv
  <2> QED BY <2>1, <2>3 DEF LetsInv, Late, Done, is_ddl
<1>7. CASE Build \/ StartMigrate \/ MigratePiece \/ MigrateStops \/ MigrateReturns
  BY <1>7, QuietLetsInv DEF Build, StartMigrate, MigratePiece, MigrateStops, MigrateReturns,
     Stop, Late, Done
<1>8. CASE NoMigration \/ MigrateFails \/ MissingReference \/ StructPanics
           \/ FnRefused \/ FnPanics \/ TraitPanics \/ Reject
  BY <1>8, <1>1 DEF NoMigration, MigrateFails, MissingReference, StructPanics, FnRefused,
     FnPanics, TraitPanics, Reject
<1>9. CASE Call \/ UNCHANGED vars
  <2>1. UNCHANGED macroVars BY <1>9 DEF Call, vars
  <2> QED BY <2>1 DEF macroVars, LetsInv, is_ddl
<1> QED
  BY <1>2, <1>3, <1>4, <1>5, <1>6, <1>7, <1>8, <1>9 DEF Next, Expand

LEMMA NextOrderInv == IInv /\ OrderInv /\ [Next]_vars => OrderInv'
<1> SUFFICES ASSUME IInv, OrderInv, [Next]_vars PROVE OrderInv'
  OBVIOUS
<1>0. IsSeq(program) BY ProgramsAssumption DEF IInv
<1>1. ASSUME UNCHANGED <<program, migrate, rest>>,
             phase' \in {"migrate"} \cup Late => phase \in {"migrate"} \cup Late
      PROVE  OrderInv'
  <2>1. \A m, of : Follow(m, of)' = Follow(m, of) BY <1>1 DEF Follow, FirstDdl, is_ddl
  <2> QED BY <1>1, <2>1 DEF OrderInv
<1>2. CASE Split
  <2>1. PICK m \in DOMAIN program : FirstDdl(m) /\ migrate' = program[m] /\ rest' = OthersFrom(m + 1)
    BY <1>2 DEF Split
  <2>2. m \in Nat /\ m + 1 \in Nat /\ \A k \in DOMAIN program : k >= m + 1 <=> k > m
    BY <1>0 DEF IsSeq
  <2>3. PICK of \in [DOMAIN rest' -> DOMAIN program] :
          /\ Range(of) = {k \in DOMAIN program : k >= m + 1 /\ ~is_ddl(program[k])}
          /\ \A i, j \in DOMAIN rest' : i < j => of[i] < of[j]
          /\ \A i \in DOMAIN rest' : rest'[i] = program[of[i]]
    BY <1>0, <2>1, <2>2, OthersFromIs
  <2>4. Range(of) = {k \in DOMAIN program : k > m /\ ~is_ddl(program[k])} BY <2>2, <2>3
  <2>5. program' = program BY <1>2 DEF Split
  <2>6. Follow(m, of)' BY <2>1, <2>3, <2>4, <2>5 DEF Follow, FirstDdl, is_ddl
  <2> QED BY <2>6 DEF OrderInv
<1>3. CASE RunMigrate \/ structs_tokens \/ fn_tokens \/ trait_tokens
  BY <1>1, <1>3 DEF RunMigrate, structs_tokens, fn_tokens, trait_tokens, Validated, Generating, Late
<1>4. CASE Build \/ StartMigrate \/ MigratePiece \/ MigrateStops \/ MigrateReturns
  BY <1>1, <1>4 DEF Build, StartMigrate, MigratePiece, MigrateStops, MigrateReturns, Stop, Late
<1>5. CASE NoMigration \/ MigrateFails \/ MissingReference \/ StructPanics
           \/ FnRefused \/ FnPanics \/ TraitPanics \/ Reject
  BY <1>1, <1>5 DEF NoMigration, MigrateFails, MissingReference, StructPanics, FnRefused,
     FnPanics, TraitPanics, Reject, Stop, Late
<1>6. CASE Call \/ UNCHANGED vars
  BY <1>1, <1>6 DEF Call, vars, macroVars
<1> QED BY <1>2, <1>3, <1>4, <1>5, <1>6 DEF Next, Expand

(* The functions are those of the expressions once all have one.           *)
LEMMA OrderAccounts == LetsInv /\ OrderInv => LetsAreAccountedFor
<1> SUFFICES ASSUME LetsInv, OrderInv, phase = "expanded"
             PROVE  \E m \in DOMAIN program, of \in [DOMAIN fns -> DOMAIN program] :
                      /\ migrate = program[m] /\ FirstDdl(m)
                      /\ Range(of) = {k \in DOMAIN program : k > m /\ ~is_ddl(program[k])}
                      /\ \A i, j \in DOMAIN fns : i < j => of[i] < of[j]
                      /\ \A i \in DOMAIN fns :
                           /\ fns[i].ident = program[of[i]].ident
                           /\ fns[i].statement = program[of[i]].statements[1]
  BY DEF LetsAreAccountedFor
<1>1. DOMAIN fns = DOMAIN rest
  <2>1. Len(fns) = Len(rest) BY DEF LetsInv, Done
  <2> QED BY <2>1 DEF LetsInv, IsSeq
<1>2. PICK m, of : Follow(m, of) BY DEF OrderInv, Late
<1>3. ASSUME NEW i \in DOMAIN fns
      PROVE  /\ fns[i].ident = program[of[i]].ident
             /\ fns[i].statement = program[of[i]].statements[1]
  BY <1>1, <1>2 DEF Follow, LetsInv
<1> QED BY <1>1, <1>2, <1>3 DEF Follow

(* No let expression after the migrate expression is lost, whatever the    *)
(* programs: the generated code has one function for each that is not DDL, *)
(* in their order, of its name and its first statement, and no other.      *)
(* (Macro, split_exprs and fn_tokens.)                                     *)
THEOREM LetsAccountedFor == Spec => []LetsAreAccountedFor
<1> DEFINE I == IInv /\ LetsInv /\ OrderInv
<1>1. GCInit => I
  <2>1. GCInit => OrderInv BY DEF GCInit, Init, OrderInv, Late
  <2> QED BY <2>1, InitIInv, InitLetsInv
<1>2. I /\ [Next]_vars => I' BY NextIInv, NextLetsInv, NextOrderInv
<1>3. I => LetsAreAccountedFor BY OrderAccounts
<1> QED BY <1>1, <1>2, <1>3, PTL DEF Spec
-----------------------------------------------------------------------------
(* The tables of the database in memory; once structs are made of them,    *)
(* each column has a supported type.                                       *)
GoodRow(row) == row.column_type \in DOMAIN RustBase /\ row.pk \in {0, 1}
SchemaInv ==
  /\ IsSeq(migrate.statements)
  /\ \A stmt \in Range(migrate.statements) : WellFormed(stmt)
  /\ \A t \in DOMAIN schema :
       IsSeq(schema[t]) /\ \A row \in Range(schema[t]) : row.not_null \in {0, 1}
  /\ phase \in Late => \A t \in DOMAIN schema : \A row \in Range(schema[t]) : GoodRow(row)

(* A statement adds rows whose columns may be NULL or not.                 *)
LEMMA SchemaRowsAre ==
  ASSUME NEW stmt, WellFormed(stmt), stmt.op \in {"create", "alter"}
  PROVE  IsSeq(SchemaRows(stmt)) /\ \A row \in Range(SchemaRows(stmt)) : row.not_null \in {0, 1}
<1>1. IsSeq(stmt.columns) /\ \A c \in Range(stmt.columns) : c.not_null \in {0, 1}
  BY DEF WellFormed
<1>2. DOMAIN stmt.columns = 1..Len(stmt.columns) /\ Len(stmt.columns) \in Nat BY <1>1 DEF IsSeq
<1>3. IsSeq(SchemaRows(stmt)) BY <1>2, IsSeqFunction DEF SchemaRows
<1>4. \A i \in DOMAIN stmt.columns : SchemaRows(stmt)[i].not_null = stmt.columns[i].not_null
  BY DEF SchemaRows
<1>5. DOMAIN SchemaRows(stmt) = DOMAIN stmt.columns BY DEF SchemaRows
<1> QED BY <1>1, <1>3, <1>4, <1>5 DEF Range

(* Concatenation, for sequences of any elements.                           *)
LEMMA IsSeqConcat ==
  ASSUME NEW a, NEW b, IsSeq(a), IsSeq(b)
  PROVE  IsSeq(a \o b) /\ Range(a \o b) = Range(a) \cup Range(b) /\ Len(a \o b) = Len(a) + Len(b)
<1> DEFINE S == Range(a) \cup Range(b)
<1>1. ASSUME NEW s, IsSeq(s), Range(s) \subseteq S PROVE s \in Seq(S)
  <2>1. s \in Seq(Range(s)) BY <1>1 DEF IsSeq
  <2>2. s = [k \in 1..Len(s) |-> s[k]] /\ Len(s) \in Nat BY <2>1
  <2>3. \A k \in 1..Len(s) : s[k] \in Range(s) BY <2>1
  <2> HIDE DEF S
  <2> QED BY <1>1, <2>2, <2>3
<1>2. a \in Seq(S) /\ b \in Seq(S) BY <1>1
<1>3. a \o b \in Seq(S) /\ Range(a \o b) = S /\ Len(a \o b) = Len(a) + Len(b)
  BY <1>2, RangeConcat
<1> QED BY <1>3 DEF IsSeq

(* A DDL statement keeps the tables well formed.                           *)
LEMMA AfterSchema ==
  ASSUME NEW stmt, WellFormed(stmt), stmt.op \in Ddl, SchemaInv, schema' = After(stmt, schema)
  PROVE  \A t \in DOMAIN schema' :
           IsSeq(schema'[t]) /\ \A row \in Range(schema'[t]) : row.not_null \in {0, 1}
<1> SUFFICES ASSUME NEW t \in DOMAIN schema'
             PROVE  IsSeq(schema'[t]) /\ \A row \in Range(schema'[t]) : row.not_null \in {0, 1}
  OBVIOUS
<1>0. \A u \in DOMAIN schema :
        IsSeq(schema[u]) /\ \A row \in Range(schema[u]) : row.not_null \in {0, 1}
  BY DEF SchemaInv
<1>1. CASE stmt.op = "create"
  <2>1. schema' = [u \in DOMAIN schema \cup {stmt.table} |->
                     IF u = stmt.table THEN SchemaRows(stmt) ELSE schema[u]]
    BY <1>1 DEF After
  <2>2. schema'[t] = SchemaRows(stmt) \/ (t \in DOMAIN schema /\ schema'[t] = schema[t]) BY <2>1
  <2> QED BY <1>0, <1>1, <2>2, SchemaRowsAre
<1>2. CASE stmt.op = "alter"
  <2>1. schema' = [schema EXCEPT ![stmt.table] = @ \o SchemaRows(stmt)] BY <1>2 DEF After
  <2>2. t \in DOMAIN schema
        /\ schema'[t] = IF t = stmt.table THEN schema[t] \o SchemaRows(stmt) ELSE schema[t]
    BY <2>1
  <2> QED BY <1>0, <1>2, <2>2, SchemaRowsAre, IsSeqConcat
<1>3. CASE stmt.op = "drop"
  <2>1. schema' = [u \in DOMAIN schema \ {stmt.table} |-> schema[u]] BY <1>3 DEF After
  <2> QED BY <1>0, <2>1
<1>4. CASE stmt.op = "index"
  BY <1>0, <1>4 DEF After
<1> QED BY <1>1, <1>2, <1>3, <1>4 DEF Ddl

LEMMA InitSchemaInv == GCInit => SchemaInv
<1> SUFFICES ASSUME GCInit PROVE SchemaInv
  OBVIOUS
<1>1. migrate.statements = <<>> /\ schema = <<>> /\ phase = "split" BY DEF GCInit, Init
<1>2. IsSeq(<<>>) /\ Range(<<>>) = {} BY DEF IsSeq, Range
<1>3. DOMAIN <<>> = {} OBVIOUS
<1> QED BY <1>1, <1>2, <1>3 DEF SchemaInv, Late

LEMMA NextSchemaInv == IInv /\ SchemaInv /\ [Next]_vars => SchemaInv'
<1> SUFFICES ASSUME IInv, SchemaInv, [Next]_vars PROVE SchemaInv'
  OBVIOUS
<1>1. ASSUME UNCHANGED <<migrate, schema>>, phase' \in Late => phase \in Late PROVE SchemaInv'
  BY <1>1 DEF SchemaInv
<1>2. CASE Split
  <2>1. PICK i \in DOMAIN program : migrate' = program[i] BY <1>2 DEF Split
  <2>2. program[i] \in Range(program) /\ program \in Programs BY DEF IInv, Range
  <2>3. IsSeq(program[i].statements) /\ \A stmt \in Range(program[i].statements) : WellFormed(stmt)
    BY <2>2, ProgramsAssumption
  <2>4. phase' = "migrate" /\ schema' = schema BY <1>2 DEF Split
  <2> QED BY <2>1, <2>3, <2>4 DEF SchemaInv, Late
<1>3. CASE RunMigrate
  <2>1. phase' = "migrate" /\ migrate' = migrate /\ at \in DOMAIN migrate.statements
    BY <1>3 DEF RunMigrate, IInv
  <2> DEFINE stmt == migrate.statements[at]
  <2>2. stmt \in Range(migrate.statements) BY <2>1 DEF Range
  <2>3. WellFormed(stmt) /\ stmt.op \in Ddl BY <2>2 DEF SchemaInv, IInv, is_ddl
  <2>4. schema' = After(stmt, schema) BY <1>3 DEF RunMigrate
  <2> HIDE DEF stmt
  <2>5. \A t \in DOMAIN schema' :
          IsSeq(schema'[t]) /\ \A row \in Range(schema'[t]) : row.not_null \in {0, 1}
    BY <2>3, <2>4, AfterSchema
  <2> QED BY <2>1, <2>5 DEF SchemaInv, Late
<1>4. CASE structs_tokens
  <2>1. UNCHANGED <<migrate, schema>> BY <1>4 DEF structs_tokens
  <2>2. ASSUME NEW t \in DOMAIN schema, NEW row \in Range(schema[t]) PROVE GoodRow(row)
    <3>1. PICK i \in DOMAIN schema[t] : schema[t][i] = row BY DEF Range
    <3>2. Tokens(schema[t])[i] = FromSchemaRow(row) /\ i \in DOMAIN Tokens(schema[t])
      BY <3>1 DEF Tokens
    <3>3. FromSchemaRow(row) \in Range(Tokens(schema[t])) BY <3>2 DEF Range
    <3>4. HasField(FromSchemaRow(row)) BY <1>4, <3>3 DEF structs_tokens
    <3> QED BY <3>4 DEF HasField, FromSchemaRow, GoodRow
  <2> QED BY <2>1, <2>2 DEF SchemaInv
<1>5. CASE fn_tokens \/ trait_tokens
  BY <1>1, <1>5 DEF fn_tokens, trait_tokens, Generating, Late
<1>6. CASE Build \/ StartMigrate \/ MigratePiece \/ MigrateStops \/ MigrateReturns
  BY <1>1, <1>6 DEF Build, StartMigrate, MigratePiece, MigrateStops, MigrateReturns, Stop, Late
<1>7. CASE NoMigration \/ MigrateFails \/ MissingReference \/ StructPanics
           \/ FnRefused \/ FnPanics \/ TraitPanics \/ Reject
  BY <1>1, <1>7 DEF NoMigration, MigrateFails, MissingReference, StructPanics, FnRefused,
     FnPanics, TraitPanics, Reject, Stop, Late
<1>8. CASE Call \/ UNCHANGED vars
  BY <1>1, <1>8 DEF Call, vars, macroVars
<1> QED BY <1>2, <1>3, <1>4, <1>5, <1>6, <1>7, <1>8 DEF Next, Expand
-----------------------------------------------------------------------------
(* Every column of the database comes from a column of a statement of the  *)
(* migrate expression about its table, with its references.                *)
Sourced(t, row) ==
  \E stmt \in Range(migrate.statements) :
    /\ stmt.op \in {"create", "alter"} /\ stmt.table = t
    /\ \E col \in Range(stmt.columns) :
         col.name = row.column_name /\ row.refs = col.refs \cup col.fks
SourceInv ==
  /\ phase = "split" => DOMAIN schema = {}
  /\ phase \in {"migrate"} \cup Late =>
       \A t \in DOMAIN schema : \A row \in Range(schema[t]) : Sourced(t, row)

LEMMA AddedRows ==
  ASSUME NEW stmt \in Range(migrate.statements), stmt.op \in {"create", "alter"},
         NEW row \in Range(SchemaRows(stmt))
  PROVE  Sourced(stmt.table, row)
<1>1. PICK i \in DOMAIN stmt.columns :
        row.column_name = stmt.columns[i].name
        /\ row.refs = stmt.columns[i].refs \cup stmt.columns[i].fks
  <2>1. PICK i \in DOMAIN SchemaRows(stmt) : row = SchemaRows(stmt)[i] BY DEF Range
  <2>2. i \in DOMAIN stmt.columns BY <2>1 DEF SchemaRows
  <2>3. /\ row.column_name = stmt.columns[i].name
        /\ row.refs = stmt.columns[i].refs \cup stmt.columns[i].fks
    BY <2>1, <2>2 DEF SchemaRows
  <2> QED BY <2>2, <2>3
<1>2. stmt.columns[i] \in Range(stmt.columns) BY DEF Range
<1> QED BY <1>1, <1>2 DEF Sourced

LEMMA AfterSources ==
  ASSUME SchemaInv, NEW stmt \in Range(migrate.statements), stmt.op \in Ddl,
         \A t \in DOMAIN schema : \A row \in Range(schema[t]) : Sourced(t, row),
         schema' = After(stmt, schema)
  PROVE  \A t \in DOMAIN schema' : \A row \in Range(schema'[t]) : Sourced(t, row)
<1> SUFFICES ASSUME NEW t \in DOMAIN schema', NEW row \in Range(schema'[t]) PROVE Sourced(t, row)
  OBVIOUS
<1>1. CASE stmt.op = "create"
  <2>1. schema' = [u \in DOMAIN schema \cup {stmt.table} |->
                     IF u = stmt.table THEN SchemaRows(stmt) ELSE schema[u]]
    BY <1>1 DEF After
  <2>2. CASE t = stmt.table
    <3>1. schema'[t] = SchemaRows(stmt) BY <2>1, <2>2
    <3> QED BY <1>1, <2>2, <3>1, AddedRows
  <2>3. CASE t # stmt.table
    <3>1. t \in DOMAIN schema /\ schema'[t] = schema[t] BY <2>1, <2>3
    <3> QED BY <3>1
  <2> QED BY <2>2, <2>3
<1>2. CASE stmt.op = "alter"
  <2>1. schema' = [schema EXCEPT ![stmt.table] = @ \o SchemaRows(stmt)] BY <1>2 DEF After
  <2>2. /\ t \in DOMAIN schema
        /\ schema'[t] = IF t = stmt.table THEN schema[t] \o SchemaRows(stmt) ELSE schema[t]
    BY <2>1
  <2>3. CASE t = stmt.table
    <3>1. WellFormed(stmt) /\ IsSeq(schema[t]) BY <2>2 DEF SchemaInv
    <3>2. IsSeq(SchemaRows(stmt)) BY <1>2, <3>1, SchemaRowsAre
    <3>3. Range(schema'[t]) = Range(schema[t]) \cup Range(SchemaRows(stmt))
      BY <2>2, <2>3, <3>1, <3>2, IsSeqConcat
    <3>4. row \in Range(schema[t]) \/ row \in Range(SchemaRows(stmt)) BY <3>3
    <3> QED BY <1>2, <2>2, <2>3, <3>4, AddedRows
  <2>4. CASE t # stmt.table BY <2>2, <2>4
  <2> QED BY <2>3, <2>4
<1>3. CASE stmt.op = "drop"
  <2>1. schema' = [u \in DOMAIN schema \ {stmt.table} |-> schema[u]] BY <1>3 DEF After
  <2>2. t \in DOMAIN schema /\ schema'[t] = schema[t] BY <2>1
  <2> QED BY <2>2
<1>4. CASE stmt.op = "index" BY <1>4 DEF After
<1> QED BY <1>1, <1>2, <1>3, <1>4 DEF Ddl

LEMMA NextSourceInv == IInv /\ SchemaInv /\ SourceInv /\ [Next]_vars => SourceInv'
<1> SUFFICES ASSUME IInv, SchemaInv, SourceInv, [Next]_vars PROVE SourceInv'
  OBVIOUS
<1>1. ASSUME UNCHANGED <<migrate, schema>>, phase' # "split",
             phase' \in {"migrate"} \cup Late => phase \in {"migrate"} \cup Late
      PROVE  SourceInv'
  BY <1>1 DEF SourceInv, Sourced
<1>2. CASE Split
  <2>1. phase = "split" /\ phase' = "migrate" /\ schema' = schema BY <1>2 DEF Split
  <2> QED BY <2>1 DEF SourceInv
<1>3. CASE RunMigrate
  <2>1. /\ phase = "migrate" /\ phase' = "migrate" /\ migrate' = migrate
        /\ at \in DOMAIN migrate.statements
    BY <1>3 DEF RunMigrate, IInv
  <2> PICK stmt : stmt = migrate.statements[at] OBVIOUS
  <2>2. stmt \in Range(migrate.statements) BY <2>1 DEF Range
  <2>3. stmt.op \in Ddl BY <2>2 DEF IInv, is_ddl
  <2>4. schema' = After(stmt, schema) BY <1>3 DEF RunMigrate
  <2>5. \A t \in DOMAIN schema' : \A row \in Range(schema'[t]) : Sourced(t, row)
    BY <2>1, <2>2, <2>3, <2>4, AfterSources DEF SourceInv
  <2> QED BY <2>1, <2>5 DEF SourceInv, Sourced
<1>4. CASE structs_tokens \/ fn_tokens \/ trait_tokens
  BY <1>1, <1>4 DEF structs_tokens, fn_tokens, trait_tokens, Validated, Generating, Late
<1>5. CASE Build \/ StartMigrate \/ MigratePiece \/ MigrateStops \/ MigrateReturns
  BY <1>1, <1>5 DEF Build, StartMigrate, MigratePiece, MigrateStops, MigrateReturns, Stop, Late
<1>6. CASE NoMigration \/ MigrateFails \/ MissingReference \/ StructPanics
           \/ FnRefused \/ FnPanics \/ TraitPanics \/ Reject
  BY <1>1, <1>6 DEF NoMigration, MigrateFails, MissingReference, StructPanics, FnRefused,
     FnPanics, TraitPanics, Reject, Stop, Late
<1>7. CASE Call \/ UNCHANGED vars
  <2>1. UNCHANGED <<migrate, schema, phase>> BY <1>7 DEF Call, vars, macroVars
  <2> QED BY <2>1 DEF SourceInv, Sourced
<1> QED BY <1>2, <1>3, <1>4, <1>5, <1>6, <1>7 DEF Next, Expand

(* Why no reference dangles: it was looked up among the tables that are    *)
(* created, or is one the macro does not look up.                          *)
LEMMA SourcesStand == IInv /\ SourceInv => NoDanglingReference
<1> SUFFICES ASSUME IInv, SourceInv, phase \in Late,
                    NEW t \in DOMAIN schema, NEW row \in Range(schema[t]), NEW ref \in row.refs,
                    ~Unchecked(t, row, ref)
             PROVE  ref.table \in DOMAIN schema \/ DroppedLater(ref.table)
  BY DEF NoDanglingReference, Late
<1>1. PICK stmt \in Range(migrate.statements) :
        /\ stmt.op \in {"create", "alter"} /\ stmt.table = t
        /\ \E col \in Range(stmt.columns) :
             col.name = row.column_name /\ row.refs = col.refs \cup col.fks
  BY DEF SourceInv, Sourced
<1>2. PICK col \in Range(stmt.columns) :
        col.name = row.column_name /\ row.refs = col.refs \cup col.fks
  BY <1>1
<1>3. stmt.op = "create" /\ ref \in col.refs BY <1>1, <1>2 DEF Unchecked
<1>4. col \in Declared BY <1>2, <1>3 DEF Declared, Creates
<1>5. ref \in UNION {c.refs : c \in Declared} BY <1>3, <1>4
<1>6. PICK made \in Creates : made.table = ref.table BY <1>5 DEF IInv, validate_migrate_expr
<1>7. PICK i \in DOMAIN migrate.statements : migrate.statements[i] = made /\ made.op = "create"
  BY <1>6 DEF Creates, Range
<1>8. phase # "migrate" BY DEF Late
<1>9. ref.table \in DOMAIN schema \/ DroppedAfter(i, ref.table)
  BY <1>6, <1>7, <1>8 DEF IInv, Standing
<1> QED BY <1>6, <1>7, <1>9 DEF DroppedAfter, DroppedLater

(* Whatever the programs: a column of the database in memory references no *)
(* missing table when functions are generated and later, but for a table   *)
(* that was dropped after its creation and for the references that the     *)
(* macro does not look up, of ALTER TABLE and of FOREIGN KEY constraints.  *)
(* (Macro sql_macro and names.rs, validate_migrate_expr.)                  *)
THEOREM NoDanglingReferenceHolds == Spec => []NoDanglingReference
<1> DEFINE I == IInv /\ SchemaInv /\ SourceInv
<1>1. GCInit => I
  <2>1. GCInit => SourceInv BY DEF GCInit, Init, SourceInv, Late
  <2> QED BY <2>1, InitIInv, InitSchemaInv
<1>2. I /\ [Next]_vars => I' BY NextIInv, NextSchemaInv, NextSourceInv
<1>3. I => NoDanglingReference BY SourcesStand
<1> QED BY <1>1, <1>2, <1>3, PTL DEF Spec
-----------------------------------------------------------------------------
(* The first row of a table with a column's name is one of its rows.       *)
LEMMA ColumnRowIs ==
  ASSUME NEW t, IsSeq(schema[t]), NEW c \in ColumnsOf(t)
  PROVE  ColumnRow(t, c) \in Range(schema[t]) /\ ColumnRow(t, c).column_name = c
<1> DEFINE I == {i \in 1..Len(schema[t]) : schema[t][i].column_name = c}
<1>1. DOMAIN schema[t] = 1..Len(schema[t]) /\ Len(schema[t]) \in Nat BY DEF IsSeq
<1>2. I # {} /\ I \in SUBSET Nat
  <2>1. PICK row \in Range(schema[t]) : row.column_name = c BY DEF ColumnsOf
  <2> QED BY <1>1, <2>1 DEF Range
<1>3. Min(I) \in I BY <1>2, MinIn
<1>4. ColumnRow(t, c) = schema[t][Min(I)] BY <1>2 DEF ColumnRow, SelectInSeq
<1> HIDE DEF I
<1>5. Min(I) \in DOMAIN schema[t] /\ schema[t][Min(I)].column_name = c BY <1>1, <1>3 DEF I
<1> QED BY <1>4, <1>5 DEF Range

(* A label that types an expression is made a token that has a field; one  *)
(* without a type hint is a row of the tables.                             *)
LEMMA TokenIs ==
  ASSUME NEW rows, IsSeq(rows), NEW label, Typed(label, rows)
  PROVE  LET token == parse_type_hinted_column_name(label, rows)
         IN /\ token.label = label /\ token.column_type \in DOMAIN RustBase
            /\ token.hinted \/ \E row \in Range(rows) :
                 row.column_name = label /\ token = FromSchemaRow(row)
<1> DEFINE token == parse_type_hinted_column_name(label, rows)
<1>1. token.column_type \in DOMAIN RustBase BY DEF Typed, HasField
<1>2. CASE Len(label) = 1
  <2> DEFINE I == {i \in 1..Len(rows) : rows[i].column_name = label}
  <2>1. DOMAIN rows = 1..Len(rows) /\ Len(rows) \in Nat BY DEF IsSeq
  <2>2. I # {} /\ I \in SUBSET Nat
    <3>1. PICK row \in Range(rows) : row.column_name = label BY <1>2 DEF Typed, HasToken
    <3> QED BY <2>1, <3>1 DEF Range
  <2>3. Min(I) \in I BY <2>2, MinIn
  <2>4. token = FromSchemaRow(rows[Min(I)])
    BY <1>2, <2>2 DEF parse_type_hinted_column_name, SelectInSeq
  <2> HIDE DEF I
  <2>5. Min(I) \in DOMAIN rows /\ rows[Min(I)].column_name = label BY <2>1, <2>3 DEF I
  <2>6. rows[Min(I)] \in Range(rows) BY <2>5 DEF Range
  <2>7. token.label = label BY <2>4, <2>5 DEF FromSchemaRow
  <2> QED BY <1>1, <2>4, <2>5, <2>6, <2>7
<1>3. CASE Len(label) # 1
  BY <1>1, <1>3 DEF parse_type_hinted_column_name
<1> QED BY <1>2, <1>3

(* A token with a supported type makes a field and an argument of a Rust type.*)
LEMMA TypesAreRust ==
  ASSUME NEW token, token.column_type \in DOMAIN RustBase
  PROVE  Field(token).type \in RustType /\ Argument(token).type \in RustType
<1>1. RustBase[token.column_type] \in Bases BY DEF RustBase, Bases, ClassOf
<1> QED BY <1>1 DEF Field, Argument, RustType

(* Sequences of one element, and of none.                                  *)
LEMMA IsSeqSingle ==
  ASSUME NEW e PROVE IsSeq(<<e>>) /\ Len(<<e>>) = 1 /\ Range(<<e>>) = {e} /\ <<e>>[1] = e
<1>1. Range(<<e>>) = {e} BY DEF Range
<1> QED BY <1>1 DEF IsSeq
LEMMA IsSeqEmpty == IsSeq(<<>>) /\ Len(<<>>) = 0 /\ Range(<<>>) = {}
BY DEF IsSeq, Range

(* What SQLite says of the columns of a statement's rows: computed, or a   *)
(* column of a table of the database.                                      *)
GoodOutput(stmt, o) ==
  \/ o.relation = 0
  \/ /\ o.relation \in DOMAIN stmt.relations
     /\ o.column \in ColumnsOf(stmt.relations[o.relation].table)
Runs(stmt) == WellFormed(stmt) /\ stmt.op \notin Ddl /\ Prepares(stmt)

(* What * stands for are columns of the tables.                            *)
LEMMA StarIs ==
  ASSUME SchemaInv, NEW stmt, Runs(stmt), NEW i \in DOMAIN stmt.relations
  PROVE  IsSeq(Star(stmt, i)) /\ \A o \in Range(Star(stmt, i)) : GoodOutput(stmt, o)
<1> DEFINE t == stmt.relations[i].table
<1>1. t \in DOMAIN schema BY DEF Runs, Prepares, Range
<1>2. IsSeq(schema[t]) BY <1>1 DEF SchemaInv
<1>3. DOMAIN schema[t] = 1..Len(schema[t]) /\ Len(schema[t]) \in Nat BY <1>2 DEF IsSeq
<1>4. Star(stmt, i) = [k \in DOMAIN schema[t] |->
        [label |-> schema[t][k].column_name, relation |-> i, column |-> schema[t][k].column_name]]
  BY DEF Star
<1> HIDE DEF t
<1>5. IsSeq(Star(stmt, i)) BY <1>3, <1>4, IsSeqFunction
<1>6. ASSUME NEW o \in Range(Star(stmt, i)) PROVE GoodOutput(stmt, o)
  <2>1. PICK k \in DOMAIN schema[t] : o.relation = i /\ o.column = schema[t][k].column_name
    BY <1>4 DEF Range
  <2>2. o.column \in ColumnsOf(t) BY <2>1 DEF ColumnsOf, Range
  <2> QED BY <2>1, <2>2 DEF GoodOutput, t
<1> QED BY <1>5, <1>6

(* Each column of a row is computed or one of a table.                     *)
LEMMA OutputsAre ==
  ASSUME SchemaInv, NEW stmt, Runs(stmt)
  PROVE  IsSeq(Outputs(stmt)) /\ \A o \in Range(Outputs(stmt)) : GoodOutput(stmt, o)
<1> DEFINE part(n) ==
      LET item == stmt.items[n] IN
      CASE item.form = "star" -> FlattenSeq([i \in DOMAIN stmt.relations |-> Star(stmt, i)])
        [] item.form = "tablestar" -> Star(stmt, item.relation)
        [] OTHER -> << [label |-> IF item.alias = <<>> THEN item.column ELSE item.alias,
                        relation |-> item.relation, column |-> item.column] >>
      parts == [n \in DOMAIN stmt.items |-> part(n)]
<1>1. Outputs(stmt) = FlattenSeq(parts) BY DEF Outputs
<1>2. ASSUME NEW n \in DOMAIN stmt.items
      PROVE  IsSeq(part(n)) /\ \A o \in Range(part(n)) : GoodOutput(stmt, o)
  <2> DEFINE item == stmt.items[n]
  <2>1. item \in Range(stmt.items) BY DEF Range
  <2>2. CASE item.form = "star"
    <3> DEFINE stars == [i \in DOMAIN stmt.relations |-> Star(stmt, i)]
    <3>1. DOMAIN stmt.relations = 1..Len(stmt.relations) /\ Len(stmt.relations) \in Nat
      BY DEF Runs, WellFormed, IsSeq
    <3>2. IsSeq(stars) BY <3>1, IsSeqFunction
    <3>3. \A i \in DOMAIN stmt.relations :
            IsSeq(stars[i]) /\ \A o \in Range(stars[i]) : GoodOutput(stmt, o)
      BY StarIs
    <3>4. part(n) = FlattenSeq(stars) BY <2>2
    <3>5. DOMAIN stars = DOMAIN stmt.relations OBVIOUS
    <3> HIDE DEF stars, part
    <3>6. IsSeq(FlattenSeq(stars)) /\ Range(FlattenSeq(stars)) = UNION {Range(stars[i]) : i \in DOMAIN stars}
      BY <3>2, <3>3, <3>5, Flattened
    <3> QED BY <3>3, <3>4, <3>5, <3>6
  <2>3. CASE item.form = "tablestar"
    <3>1. item.relation \in DOMAIN stmt.relations BY <2>1, <2>3 DEF Runs, WellFormed
    <3>2. part(n) = Star(stmt, item.relation) BY <2>3
    <3> QED BY <3>1, <3>2, StarIs
  <2>4. CASE item.form \notin {"star", "tablestar"}
    <3> DEFINE o == [label |-> IF item.alias = <<>> THEN item.column ELSE item.alias,
                     relation |-> item.relation, column |-> item.column]
    <3>1. part(n) = <<o>> BY <2>4
    <3>2. GoodOutput(stmt, o)
      <4>1. CASE item.form = "other" BY <2>1, <4>1 DEF Runs, WellFormed, GoodOutput
      <4>2. CASE item.form # "other"
        <5>1. item.form \in {"ident", "path"} /\ item.relation \in DOMAIN stmt.relations
          BY <2>1, <2>4, <4>2 DEF Runs, WellFormed
        <5>2. item.column \in Columns(stmt.relations[item.relation])
          BY <2>1, <5>1 DEF Runs, Prepares
        <5> QED BY <5>1, <5>2 DEF GoodOutput, Columns, ColumnsOf
      <4> QED BY <4>1, <4>2
    <3> HIDE DEF o, part
    <3> QED BY <3>1, <3>2, IsSeqSingle
  <2> QED BY <2>2, <2>3, <2>4
<1>3. DOMAIN stmt.items = 1..Len(stmt.items) /\ Len(stmt.items) \in Nat
  BY DEF Runs, WellFormed, IsSeq
<1>4. IsSeq(parts) BY <1>3, IsSeqFunction
<1>5. DOMAIN parts = DOMAIN stmt.items /\ \A n \in DOMAIN stmt.items : parts[n] = part(n) OBVIOUS
<1> HIDE DEF parts, part
<1>6. IsSeq(FlattenSeq(parts)) /\ Range(FlattenSeq(parts)) = UNION {Range(parts[n]) : n \in DOMAIN parts}
  BY <1>2, <1>4, <1>5, Flattened
<1> QED BY <1>1, <1>2, <1>5, <1>6

(* The rows that type an expression are rows of the database in memory.    *)
LEMMA MentionedIs ==
  ASSUME NEW stmt, WellFormed(stmt), stmt.op \notin Ddl
  PROVE  IsSeq(Mentioned(stmt)) /\ Range(Mentioned(stmt)) = {r.table : r \in Range(stmt.relations)}
<1>1. DOMAIN stmt.relations = 1..Len(stmt.relations) /\ Len(stmt.relations) \in Nat
  BY DEF WellFormed, IsSeq
<1>2. IsSeq(Mentioned(stmt)) BY <1>1, IsSeqFunction DEF Mentioned
<1> QED BY <1>2 DEF Mentioned, Range

(* The tables a query's columns come from are among its relations.         *)
LEMMA OriginsAre ==
  ASSUME SchemaInv, NEW stmt, Runs(stmt)
  PROVE  IsSeq(Origins(stmt)) /\ Range(Origins(stmt)) \subseteq {r.table : r \in Range(stmt.relations)}
<1> DEFINE outputs == Outputs(stmt)
           ss == [n \in DOMAIN outputs |->
                    IF outputs[n].relation = 0 THEN <<>>
                    ELSE <<stmt.relations[outputs[n].relation].table>>]
<1>1. IsSeq(outputs) /\ \A o \in Range(outputs) : GoodOutput(stmt, o) BY OutputsAre
<1>2. DOMAIN outputs = 1..Len(outputs) /\ Len(outputs) \in Nat BY <1>1 DEF IsSeq
<1>3. Origins(stmt) = FlattenSeq(ss) BY DEF Origins
<1> HIDE DEF outputs
<1>4. IsSeq(ss) BY <1>2, IsSeqFunction
<1>5. ASSUME NEW n \in DOMAIN ss
      PROVE  IsSeq(ss[n]) /\ Range(ss[n]) \subseteq {r.table : r \in Range(stmt.relations)}
  <2>1. outputs[n] \in Range(outputs) BY DEF Range
  <2>2. CASE outputs[n].relation = 0
    BY <2>2, IsSeqEmpty
  <2>3. CASE outputs[n].relation # 0
    <3>1. outputs[n].relation \in DOMAIN stmt.relations BY <1>1, <2>1, <2>3 DEF GoodOutput
    <3>2. stmt.relations[outputs[n].relation] \in Range(stmt.relations) BY <3>1 DEF Range
    <3>3. ss[n] = <<stmt.relations[outputs[n].relation].table>> BY <2>3
    <3> QED BY <3>2, <3>3, IsSeqSingle
  <2> QED BY <2>2, <2>3
<1> HIDE DEF ss
<1>6. IsSeq(FlattenSeq(ss)) /\ Range(FlattenSeq(ss)) = UNION {Range(ss[n]) : n \in DOMAIN ss}
  BY <1>4, <1>5, Flattened
<1> QED BY <1>3, <1>5, <1>6

(* An expression is typed by columns of the database in memory.            *)
LEMMA TypingRowsAre ==
  ASSUME SchemaInv, NEW expr, IsSeq(expr.statements), expr.statements # <<>>,
         \A stmt \in Range(expr.statements) : WellFormed(stmt) /\ stmt.op \notin Ddl,
         Prepares(expr.statements[1])
  PROVE  /\ IsSeq(TypingRows(expr))
         /\ \A row \in Range(TypingRows(expr)) : \E t \in DOMAIN schema : row \in Range(schema[t])
<1>1. DOMAIN expr.statements = 1..Len(expr.statements) /\ Len(expr.statements) \in Nat
  BY DEF IsSeq
<1>2. \A i \in DOMAIN expr.statements : expr.statements[i] \in Range(expr.statements) BY DEF Range
<1>3. Runs(expr.statements[1])
  <2>1. 1 \in DOMAIN expr.statements BY <1>1
  <2> QED BY <1>2, <2>1 DEF Runs
<1>4. IsSeq(table_names(expr))
  <2> DEFINE ss == [i \in DOMAIN expr.statements |->
                      IF expr.statements[i].op = "select" THEN Origins(expr.statements[1])
                      ELSE Mentioned(expr.statements[i])]
  <2>1. IsSeq(ss) BY <1>1, IsSeqFunction
  <2>2. \A i \in DOMAIN ss : IsSeq(ss[i]) BY <1>2, <1>3, OriginsAre, MentionedIs
  <2>3. table_names(expr) = FlattenSeq(ss) BY DEF table_names
  <2> HIDE DEF ss
  <2> QED BY <2>1, <2>2, <2>3, Flattened
<1>5. IsSeq(join_table_names(expr))
  <2> DEFINE ss == [i \in DOMAIN expr.statements |-> Mentioned(expr.statements[i])]
  <2>1. IsSeq(ss) BY <1>1, IsSeqFunction
  <2>2. \A i \in DOMAIN ss : IsSeq(ss[i]) BY <1>2, MentionedIs
  <2>3. join_table_names(expr) = FlattenSeq(ss) BY DEF join_table_names
  <2> HIDE DEF ss
  <2> QED BY <2>1, <2>2, <2>3, Flattened
<1> DEFINE names == table_names(expr) \o join_table_names(expr)
           ss == [i \in DOMAIN names |-> IF names[i] \in DOMAIN schema THEN schema[names[i]] ELSE <<>>]
<1>6. IsSeq(names) BY <1>4, <1>5, IsSeqConcat
<1>7. TypingRows(expr) = FlattenSeq(ss) BY DEF TypingRows
<1> HIDE DEF names
<1>8. DOMAIN names = 1..Len(names) /\ Len(names) \in Nat BY <1>6 DEF IsSeq
<1>9. IsSeq(ss) BY <1>8, IsSeqFunction
<1>10. ASSUME NEW i \in DOMAIN ss
       PROVE  IsSeq(ss[i]) /\ \A row \in Range(ss[i]) : \E t \in DOMAIN schema : row \in Range(schema[t])
  <2>1. CASE names[i] \in DOMAIN schema BY <2>1 DEF SchemaInv
  <2>2. CASE names[i] \notin DOMAIN schema BY <2>2, IsSeqEmpty
  <2> QED BY <2>1, <2>2
<1> HIDE DEF ss
<1>11. IsSeq(FlattenSeq(ss)) /\ Range(FlattenSeq(ss)) = UNION {Range(ss[i]) : i \in DOMAIN ss}
  BY <1>9, <1>10, Flattened
<1> QED BY <1>7, <1>10, <1>11

(* A generated function: its arguments are the named placeholders of its   *)
(* statement, its fields the columns of the rows, in their order.          *)
GoodFn(fn) ==
  /\ Runs(fn.statement)
  /\ DOMAIN fn.args = DOMAIN Inputs(fn.statement)
  /\ \A i \in DOMAIN fn.args :
       fn.args[i].name = Inputs(fn.statement)[i] /\ fn.args[i].type \in RustType
  /\ DOMAIN fn.fields = DOMAIN Outputs(fn.statement)
  /\ \A n \in DOMAIN fn.fields :
       fn.fields[n].label = Outputs(fn.statement)[n].label /\ fn.fields[n].type \in RustType
FnsInv == \A i \in DOMAIN fns : GoodFn(fns[i])

(* What fn_tokens generates is one.                                        *)
LEMMA GeneratedIsGood ==
  ASSUME IInv, SchemaInv, LetsInv, fn_tokens
  PROVE  \E fn : fns' = Append(fns, fn) /\ GoodFn(fn)
<1> DEFINE expr == rest[at]
           first == expr.statements[1]
           rows == TypingRows(expr)
           inputs == TokensOf(Inputs(first), rows)
           outputs == TokensOf(Labels(first), rows)
           fn == [ident |-> expr.ident, statement |-> first,
                  args |-> [i \in DOMAIN inputs |-> Argument(inputs[i])], fields |-> Fields(outputs)]
<1>1. fns' = Append(fns, fn) BY DEF fn_tokens
<1>2. expr \in Range(program)
  <2>1. phase = "fns" /\ at <= Len(rest) BY DEF fn_tokens, Generating
  <2>2. at = Len(fns) + 1 /\ Len(fns) \in Nat BY <2>1 DEF LetsInv, IsSeq
  <2>3. DOMAIN rest = 1..Len(rest) /\ Len(rest) \in Nat BY DEF LetsInv, IsSeq
  <2>4. at \in DOMAIN rest BY <2>1, <2>2, <2>3
  <2> QED BY <2>4 DEF LetsInv, Range
<1>3. IsSeq(expr.statements) /\ \A stmt \in Range(expr.statements) : WellFormed(stmt)
  BY <1>2, ProgramsAssumption DEF IInv
<1>4. expr.statements # <<>> /\ Prepares(first) BY DEF fn_tokens, Refused
<1>5. /\ \A stmt \in Range(expr.statements) : stmt.op \notin Ddl
      /\ \A label \in Range(Inputs(first)) \cup Range(Labels(first)) : Typed(label, rows)
  BY DEF fn_tokens, Panics
<1>6. Runs(first)
  <2>1. DOMAIN expr.statements = 1..Len(expr.statements) /\ Len(expr.statements) \in Nat
    BY <1>3 DEF IsSeq
  <2>2. 1 \in DOMAIN expr.statements BY <1>3, <1>4, <2>1 DEF IsSeq
  <2> QED BY <1>3, <1>4, <1>5, <2>2 DEF Runs, Range
<1>7. IsSeq(rows) BY <1>3, <1>4, <1>5, TypingRowsAre
<1> HIDE DEF expr
<1>8. DOMAIN inputs = DOMAIN Inputs(first) BY DEF TokensOf
<1>9. ASSUME NEW i \in DOMAIN Inputs(first)
      PROVE  Argument(inputs[i]).name = Inputs(first)[i] /\ Argument(inputs[i]).type \in RustType
  <2>1. inputs[i] = parse_type_hinted_column_name(Inputs(first)[i], rows) BY DEF TokensOf
  <2>2. Typed(Inputs(first)[i], rows) BY <1>5 DEF Range
  <2>3. inputs[i].label = Inputs(first)[i] /\ inputs[i].column_type \in DOMAIN RustBase
    BY <1>7, <2>1, <2>2, TokenIs
  <2> QED BY <2>3, TypesAreRust DEF Argument
<1>10. DOMAIN Labels(first) = DOMAIN Outputs(first)
       /\ \A n \in DOMAIN Outputs(first) : Labels(first)[n] = Outputs(first)[n].label
  BY DEF Labels
<1>11. DOMAIN Fields(outputs) = DOMAIN Outputs(first) BY <1>10 DEF TokensOf, Fields
<1>12. ASSUME NEW n \in DOMAIN Outputs(first)
       PROVE  /\ Fields(outputs)[n].label = Outputs(first)[n].label
              /\ Fields(outputs)[n].type \in RustType
  <2>1. outputs[n] = parse_type_hinted_column_name(Labels(first)[n], rows) BY <1>10 DEF TokensOf
  <2>2. Typed(Labels(first)[n], rows) BY <1>5, <1>10 DEF Range
  <2>3. outputs[n].label = Labels(first)[n] /\ outputs[n].column_type \in DOMAIN RustBase
    BY <1>7, <2>1, <2>2, TokenIs
  <2>4. Fields(outputs)[n] = Field(outputs[n]) BY <1>10 DEF Fields, TokensOf
  <2> QED BY <1>10, <2>3, <2>4, TypesAreRust DEF Field
<1> HIDE DEF first, rows, inputs, outputs
<1>13. GoodFn(fn) BY <1>6, <1>8, <1>9, <1>11, <1>12 DEF GoodFn
<1> QED BY <1>1, <1>13

(* A function stays one while the tables do.                               *)
LEMMA StaysGood ==
  ASSUME UNCHANGED schema, NEW fn, GoodFn(fn)
  PROVE  GoodFn(fn)'
<1>1. Outputs(fn.statement)' = Outputs(fn.statement) BY DEF Outputs, Star
<1>2. Prepares(fn.statement)' = Prepares(fn.statement)
  BY DEF Prepares, UsedRefs, KeyExists, Columns
<1> QED BY <1>1, <1>2 DEF GoodFn, Runs

LEMMA InitFnsInv == GCInit => FnsInv
BY DEF GCInit, Init, FnsInv

LEMMA NextFnsInv == IInv /\ SchemaInv /\ LetsInv /\ FnsInv /\ [Next]_vars => FnsInv'
<1> SUFFICES ASSUME IInv, SchemaInv, LetsInv, FnsInv, [Next]_vars PROVE FnsInv'
  OBVIOUS
<1>1. ASSUME UNCHANGED <<fns, schema>> PROVE FnsInv'
  BY <1>1, StaysGood DEF FnsInv
<1>2. CASE Split \/ structs_tokens \/ trait_tokens
  BY <1>1, <1>2 DEF Split, structs_tokens, trait_tokens
<1>3. CASE RunMigrate
  <2>1. fns' = <<>> BY <1>3 DEF RunMigrate, LetsInv
  <2> QED BY <2>1 DEF FnsInv
<1>4. CASE fn_tokens
  <2>1. PICK fn : fns' = Append(fns, fn) /\ GoodFn(fn) BY <1>4, GeneratedIsGood
  <2>2. UNCHANGED schema BY <1>4 DEF fn_tokens
  <2>3. IsSeq(fns) BY DEF LetsInv
  <2>4. /\ IsSeq(fns') /\ Len(fns') = Len(fns) + 1 /\ Len(fns) \in Nat
        /\ \A i \in 1..Len(fns) : fns'[i] = fns[i]
        /\ fns'[Len(fns) + 1] = fn
    BY <2>1, <2>3, IsSeqAppend DEF IsSeq
  <2>5. DOMAIN fns = 1..Len(fns) /\ DOMAIN fns' = 1..(Len(fns) + 1) BY <2>3, <2>4 DEF IsSeq
  <2>6. ASSUME NEW i \in DOMAIN fns' PROVE GoodFn(fns'[i])
    <3>1. i \in DOMAIN fns \/ i = Len(fns) + 1 BY <2>4, <2>5
    <3> QED BY <2>1, <2>4, <2>5, <3>1 DEF FnsInv
  <2>7. ASSUME NEW i \in DOMAIN fns' PROVE (GoodFn(fns[i]))'
    <3>1. PICK g : g = fns'[i] OBVIOUS
    <3>2. GoodFn(g) BY <2>6, <3>1
    <3>3. GoodFn(g)' BY <2>2, <3>2, StaysGood
    <3> QED BY <3>1, <3>3
  <2> QED BY <2>7 DEF FnsInv
<1>5. CASE Build \/ StartMigrate \/ MigratePiece \/ MigrateStops \/ MigrateReturns
  BY <1>1, <1>5 DEF Build, StartMigrate, MigratePiece, MigrateStops, MigrateReturns, Stop
<1>6. CASE NoMigration \/ MigrateFails \/ MissingReference \/ StructPanics
           \/ FnRefused \/ FnPanics \/ TraitPanics \/ Reject
  BY <1>1, <1>6 DEF NoMigration, MigrateFails, MissingReference, StructPanics, FnRefused,
     FnPanics, TraitPanics, Reject, Stop
<1>7. CASE Call \/ UNCHANGED vars
  BY <1>1, <1>7 DEF Call, vars, macroVars
<1> QED BY <1>2, <1>3, <1>4, <1>5, <1>6, <1>7 DEF Next, Expand
-----------------------------------------------------------------------------
(* The rows of the tables.  A cell was written by nobody, and is NULL or   *)
(* the key that SQLite supplies, or by an argument, which is the one of the*)
(* placeholder's name if all have names: then it is what the column stores *)
(* of it, or the key in place of a NULL.                                   *)
Key == [class |-> "Integer", data |-> "whole"]
Args == {None} \cup UNION {{[of |-> b, data |-> d] : d \in Contents[b]} : b \in Bases}
Stored(x, row) == Store(Bind(From(x)), row.column_type)
Origin(row, cell) ==
  \/ /\ cell.arg = Nothing /\ cell.meant = Nothing
     /\ cell.value = IF RowId(row) THEN Key ELSE Null
  \/ /\ cell.arg \in Args
     /\ cell.named => cell.meant = cell.arg
     /\ \/ cell.value = Stored(cell.arg, row)
        \/ RowId(row) /\ Stored(cell.arg, row) = Null /\ cell.value = Key
RowFrom(t, r) == DOMAIN r = ColumnsOf(t) /\ \A c \in ColumnsOf(t) : Origin(ColumnRow(t, c), r[c])
RowInv(t, r) == RowFrom(t, r) /\ Allowed(t, r)
DbInv ==
  /\ phase = "running" =>
       DOMAIN db = DOMAIN schema /\ \A t \in DOMAIN schema : \A r \in db[t] : RowInv(t, r)
  /\ phase # "running" => db = <<>> /\ last = NoAnswer

(* What is bound for an argument is a Value.                               *)
LEMMA FromArgs ==
  ASSUME NEW x \in Args
  PROVE  \/ x = None /\ From(x) = Null
         \/ /\ x # None /\ x.of \in Bases /\ x.data \in Data /\ x.data \in Contents[x.of]
            /\ x = [of |-> x.of, data |-> x.data]
            /\ From(x) = [class |-> ClassOf[x.of], data |-> x.data]
<1>1. CASE x = None BY <1>1 DEF From
<1>2. CASE x # None
  <2>1. PICK b \in Bases : \E d \in Contents[b] : x = [of |-> b, data |-> d] BY <1>2 DEF Args
  <2>2. PICK d \in Contents[b] : x = [of |-> b, data |-> d] BY <2>1
  <2>3. d \in Data BY DEF Contents, Data, Bases, ClassOf
  <2> QED BY <1>2, <2>2, <2>3, FromFits
<1> QED BY <1>1, <1>2

(* What a column stores of an argument is a Value.                         *)
LEMMA StoredIsValue ==
  ASSUME NEW x \in Args, NEW row
  PROVE  Stored(x, row) \in Value
<1>1. CASE x = None
  <2>1. From(x) = Null BY <1>1, FromArgs
  <2>2. Stored(x, row) = Null BY <2>1 DEF Stored, Store, Bind, Null
  <2> QED BY <2>2 DEF Null, Value
<1>2. CASE x # None
  <2>1. x.of \in Bases /\ x.data \in Data /\ From(x) = [class |-> ClassOf[x.of], data |-> x.data]
    BY <1>2, FromArgs
  <2>2. From(x) \in Value BY <2>1 DEF Value, ClassOf, Bases
  <2>3. Bind(From(x)) \in Value BY <2>2 DEF Bind, Value, Null
  <2> DEFINE v == Bind(From(x))
  <2> HIDE DEF v
  <2>4. ASSUME NEW c \in {"Text", "Integer", "Real"} PROVE [v EXCEPT !.class = c] \in Value
    BY <2>3 DEF v, Value
  <2>5. Store(v, row.column_type) \in Value
    BY <2>3, <2>4 DEF v, Store
  <2> QED BY <2>5 DEF Stored, v
<1> QED BY <1>1, <1>2

(* A cell holds a Value.                                                   *)
LEMMA OriginIsValue ==
  ASSUME NEW row, NEW cell, Origin(row, cell)
  PROVE  cell.value \in Value
<1>1. Key \in Value /\ Null \in Value BY DEF Key, Null, Value, Data
<1> QED BY <1>1, StoredIsValue DEF Origin

(* The arguments of a call are values of the types of the parameters, and  *)
(* with names for all placeholders each is bound to the one of its name.   *)
LEMMA CallArgs ==
  ASSUME NEW fn, GoodFn(fn), NEW args \in Calls(fn), NEW j \in DOMAIN fn.statement.params
  PROVE  /\ Bound(args, j) \in Args
         /\ (\A k \in DOMAIN fn.statement.params : fn.statement.params[k] # <<>>) =>
              MeantFor(fn, args, j) = Bound(args, j)
<1> DEFINE params == fn.statement.params
           ss == [k \in DOMAIN params |-> IF params[k] = <<>> THEN <<>> ELSE <<params[k]>>]
<1>1. DOMAIN args = DOMAIN fn.args /\ \A i \in DOMAIN fn.args : args[i] \in Accepted(fn.args[i].type)
  BY DEF Calls
<1>2. ASSUME NEW i \in DOMAIN fn.args PROVE args[i] \in Args
  <2>1. args[i] \in Accepted(fn.args[i].type) /\ fn.args[i].type.of \in Bases
    BY <1>1 DEF GoodFn, RustType
  <2>2. Samples[fn.args[i].type.of] \subseteq Contents[fn.args[i].type.of] BY <2>1, SamplesAssumption
  <2> QED BY <2>1, <2>2 DEF Accepted, Args
<1>3. Bound(args, j) \in Args BY <1>1, <1>2 DEF Bound, Args
<1>4. ASSUME \A k \in DOMAIN params : params[k] # <<>>
      PROVE  MeantFor(fn, args, j) = Bound(args, j)
  <2>1. IsSeq(params) /\ \A i, k \in DOMAIN params : params[i] = params[k] => i = k
    BY <1>4 DEF GoodFn, Runs, WellFormed
  <2>2. DOMAIN params = 1..Len(params) /\ Len(params) \in Nat BY <2>1 DEF IsSeq
  <2>3. IsSeq(ss) BY <2>2, IsSeqFunction
  <2>4. \A k \in DOMAIN ss : ss[k] = <<params[k]>> BY <1>4
  <2>5. \A k \in DOMAIN ss : IsSeq(ss[k]) /\ Len(ss[k]) = 1 /\ ss[k][1] = params[k]
    BY <2>4, IsSeqSingle
  <2>6. Inputs(fn.statement) = FlattenSeq(ss) /\ DOMAIN ss = DOMAIN params BY DEF Inputs
  <2> HIDE DEF ss, params
  <2>7. FlattenSeq(ss) = [k \in DOMAIN ss |-> ss[k][1]] BY <2>3, <2>5, Flattened
  <2>8. /\ DOMAIN Inputs(fn.statement) = DOMAIN params
        /\ \A k \in DOMAIN params : Inputs(fn.statement)[k] = params[k]
    BY <2>5, <2>6, <2>7
  <2>9. DOMAIN fn.args = DOMAIN params /\ \A k \in DOMAIN params : fn.args[k].name = params[k]
    BY <2>8 DEF GoodFn
  <2> DEFINE I == {i \in 1..Len(fn.args) : fn.args[i].name = params[j]}
  <2>10. Len(fn.args) = Len(params)
    <3>1. DOMAIN fn.args = 1..Len(params) BY <2>2, <2>9
    <3> QED BY <2>2, <3>1
  <2>11. I = {j} BY <2>1, <2>2, <2>9, <2>10 DEF params
  <2>12. Min(I) = j
    <3>1. I \in SUBSET Nat /\ I # {} BY <2>2, <2>10, <2>11
    <3> QED BY <2>11, <3>1, MinIn
  <2>13. MeantFor(fn, args, j) = args[j]
    <3>1. SelectInSeq(fn.args, LAMBDA arg : arg.name = params[j]) = Min(I)
      BY <2>11 DEF SelectInSeq
    <3> QED BY <1>4, <2>12, <3>1 DEF MeantFor, params
  <2> QED BY <1>1, <2>9, <2>13 DEF Bound, params
<1> QED BY <1>3, <1>4

(* A cell that a call writes has its origin in the call's argument.        *)
LEMMA CellOrigin ==
  ASSUME NEW fn, GoodFn(fn), NEW args \in Calls(fn), NEW j \in DOMAIN fn.statement.params, NEW row
  PROVE  Origin(row, Cell(fn, args, row, j))
<1> DEFINE cell == Cell(fn, args, row, j)
<1>1. Bound(args, j) \in Args BY CallArgs
<1>2. cell.arg = Bound(args, j) /\ cell.meant = MeantFor(fn, args, j) BY DEF Cell
<1>3. cell.named => cell.meant = cell.arg
  <2>1. cell.named <=> \A k \in DOMAIN fn.statement.params : fn.statement.params[k] # <<>>
    BY DEF Cell
  <2> QED BY <1>2, <2>1, CallArgs
<1>4. \/ cell.value = Stored(cell.arg, row)
      \/ RowId(row) /\ Stored(cell.arg, row) = Null /\ cell.value = Key
  BY <1>2 DEF Cell, Stored, Key
<1> QED BY <1>1, <1>2, <1>3, <1>4 DEF Origin

(* A row that a call writes has its cells from the call or the row before. *)
LEMMA WrittenFrom ==
  ASSUME NEW fn, GoodFn(fn), NEW args \in Calls(fn), NEW old,
         RowFrom(fn.statement.relations[1].table, old)
  PROVE  RowFrom(fn.statement.relations[1].table, Written(fn, args, old))
<1> DEFINE t == fn.statement.relations[1].table
           sets == fn.statement.sets
           new == Written(fn, args, old)
<1>1. new = [c \in ColumnsOf(t) |->
               IF c \in DOMAIN sets THEN Cell(fn, args, ColumnRow(t, c), sets[c]) ELSE old[c]]
  BY DEF Written
<1>2. Range(sets) \subseteq DOMAIN fn.statement.params BY DEF GoodFn, Runs, WellFormed
<1> HIDE DEF t, new
<1>3. ASSUME NEW c \in ColumnsOf(t) PROVE Origin(ColumnRow(t, c), new[c])
  <2>1. CASE c \in DOMAIN sets
    <3>1. sets[c] \in DOMAIN fn.statement.params BY <1>2, <2>1 DEF Range
    <3>2. new[c] = Cell(fn, args, ColumnRow(t, c), sets[c]) BY <1>1, <2>1
    <3> QED BY <3>1, <3>2, CellOrigin
  <2>2. CASE c \notin DOMAIN sets
    <3>1. new[c] = old[c] BY <1>1, <2>2
    <3> QED BY <3>1 DEF RowFrom, t
  <2> QED BY <2>1, <2>2
<1> QED BY <1>1, <1>3 DEF RowFrom, t, new

(* A row that no argument was bound for.                                   *)
LEMMA BlankFrom == ASSUME NEW t PROVE RowFrom(t, Blank(t))
BY DEF RowFrom, Blank, Origin, Empty, Key

(* The relations of a function's statement are tables of the database.     *)
LEMMA TableExists ==
  ASSUME NEW fn, GoodFn(fn), NEW i \in DOMAIN fn.statement.relations
  PROVE  fn.statement.relations[i].table \in DOMAIN schema
BY DEF GoodFn, Runs, Prepares, Range

(* A statement that writes is over one table.                              *)
LEMMA OneRelation ==
  ASSUME NEW fn, GoodFn(fn), fn.statement.op # "select"
  PROVE  DOMAIN fn.statement.relations = {1}
<1>1. IsSeq(fn.statement.relations) /\ Len(fn.statement.relations) = 1
  BY DEF GoodFn, Runs, WellFormed
<1>2. DOMAIN fn.statement.relations = 1..1 BY <1>1 DEF IsSeq
<1>3. 1..1 = {1} OBVIOUS
<1> QED BY <1>2, <1>3

(* A row stays well formed while the tables do.                            *)
LEMMA RowStays ==
  ASSUME UNCHANGED schema, NEW t, NEW r, RowInv(t, r)
  PROVE  RowInv(t, r)'
<1>1. ColumnsOf(t)' = ColumnsOf(t) /\ \A c : ColumnRow(t, c)' = ColumnRow(t, c)
  BY DEF ColumnsOf, ColumnRow, SelectInSeq
<1> QED BY <1>1 DEF RowInv, RowFrom, Allowed

LEMMA InitDbInv == GCInit => DbInv
BY DEF GCInit, Init, DbInv

(* A call leaves rows of this kind in every table.                         *)
LEMMA CallRows ==
  ASSUME SchemaInv, FnsInv, DbInv, phase = "running",
         NEW i \in DOMAIN fns, NEW computed \in Computed,
         \/ \E args \in Calls(fns[i]) : Insert(fns[i], args, computed) \/ Update(fns[i], args, computed)
         \/ Delete(fns[i], computed)
         \/ Select(fns[i], computed)
  PROVE  DOMAIN db' = DOMAIN schema /\ \A t \in DOMAIN schema : \A r \in db'[t] : RowInv(t, r)
<1> PICK fn : fn = fns[i] OBVIOUS
<1> DEFINE table == fn.statement.relations[1].table
<1>1. GoodFn(fn) BY DEF FnsInv
<1>2. DOMAIN db = DOMAIN schema /\ \A t \in DOMAIN schema : \A r \in db[t] : RowInv(t, r)
  BY DEF DbInv
<1>3. fn.statement.op # "select" => table \in DOMAIN schema BY <1>1, OneRelation, TableExists
<1>4. ASSUME NEW args \in Calls(fn), Insert(fn, args, computed)
      PROVE  DOMAIN db' = DOMAIN schema /\ \A t \in DOMAIN schema : \A r \in db'[t] : RowInv(t, r)
  <2> DEFINE new == Written(fn, args, Blank(table))
  <2>1. RowFrom(table, new) BY <1>1, BlankFrom, WrittenFrom
  <2>2. \/ UNCHANGED db
        \/ Allowed(table, new) /\ db' = [db EXCEPT ![table] = @ \cup {new}]
    BY <1>4 DEF Insert
  <2>3. table \in DOMAIN schema BY <1>3, <1>4 DEF Insert
  <2> HIDE DEF new, table
  <2> QED BY <1>2, <2>1, <2>2, <2>3 DEF RowInv
<1>5. ASSUME NEW args \in Calls(fn), Update(fn, args, computed)
      PROVE  DOMAIN db' = DOMAIN schema /\ \A t \in DOMAIN schema : \A r \in db'[t] : RowInv(t, r)
  <2>1. PICK old \in db[table] :
          \/ UNCHANGED db
          \/ /\ Allowed(table, Written(fn, args, old))
             /\ db' = [db EXCEPT ![table] = (@ \ {old}) \cup {Written(fn, args, old)}]
    BY <1>5 DEF Update
  <2>2. table \in DOMAIN schema BY <1>3, <1>5 DEF Update
  <2>3. RowFrom(table, Written(fn, args, old))
    <3>1. RowFrom(table, old) BY <1>2, <2>2 DEF RowInv
    <3> QED BY <1>1, <3>1, WrittenFrom
  <2> HIDE DEF table
  <2> QED BY <1>2, <2>1, <2>2, <2>3 DEF RowInv
<1>6. ASSUME Delete(fn, computed)
      PROVE  DOMAIN db' = DOMAIN schema /\ \A t \in DOMAIN schema : \A r \in db'[t] : RowInv(t, r)
  <2>1. PICK old \in db[table] : db' = [db EXCEPT ![table] = @ \ {old}] BY <1>6 DEF Delete
  <2>2. table \in DOMAIN schema BY <1>3, <1>6 DEF Delete
  <2> HIDE DEF table
  <2> QED BY <1>2, <2>1, <2>2
<1>7. ASSUME Select(fn, computed)
      PROVE  DOMAIN db' = DOMAIN schema /\ \A t \in DOMAIN schema : \A r \in db'[t] : RowInv(t, r)
  BY <1>2, <1>7 DEF Select
<1> QED BY <1>4, <1>5, <1>6, <1>7

LEMMA NextDbInv == SchemaInv /\ FnsInv /\ DbInv /\ [Next]_vars => DbInv'
<1> SUFFICES ASSUME SchemaInv, FnsInv, DbInv, [Next]_vars PROVE DbInv'
  OBVIOUS
<1>1. ASSUME UNCHANGED <<db, last>>, phase # "running", phase' # "running" PROVE DbInv'
  BY <1>1 DEF DbInv
<1>2. CASE Expand /\ UNCHANGED <<fileVars, db, last>>
  BY <1>1, <1>2 DEF Expand, Split, NoMigration, RunMigrate, MigrateFails, MissingReference,
     structs_tokens, StructPanics, fn_tokens, FnRefused, FnPanics, trait_tokens, TraitPanics,
     Stop, Validated, Generating
<1>3. CASE Build \/ Reject \/ StartMigrate \/ MigratePiece \/ MigrateStops
  BY <1>1, <1>3 DEF Build, Reject, StartMigrate, MigratePiece, MigrateStops, Stop
<1>4. CASE MigrateReturns
  BY <1>4 DEF MigrateReturns, DbInv
<1>5. CASE Call
  <2>1. phase = "running" /\ phase' = "running" /\ UNCHANGED schema BY <1>5 DEF Call, macroVars
  <2>2. DOMAIN db' = DOMAIN schema /\ \A t \in DOMAIN schema : \A r \in db'[t] : RowInv(t, r)
    <3>1. PICK i \in DOMAIN fns, computed \in Computed :
            \/ \E args \in Calls(fns[i]) : Insert(fns[i], args, computed) \/ Update(fns[i], args, computed)
            \/ Delete(fns[i], computed)
            \/ Select(fns[i], computed)
      BY <1>5 DEF Call
    <3> QED BY <2>1, <3>1, CallRows
  <2>3. ASSUME NEW t \in DOMAIN schema', NEW r \in db'[t] PROVE RowInv(t, r)'
    BY <2>1, <2>2, <2>3, RowStays
  <2> QED BY <2>1, <2>2, <2>3 DEF DbInv
<1>6. CASE UNCHANGED vars
  <2>1. UNCHANGED <<phase, schema, db, last>> BY <1>6 DEF vars, macroVars
  <2>2. ASSUME phase = "running", NEW t \in DOMAIN schema, NEW r \in db[t] PROVE RowInv(t, r)'
    BY <2>1, <2>2, RowStays DEF DbInv
  <2> QED BY <2>1, <2>2 DEF DbInv
<1> QED BY <1>2, <1>3, <1>4, <1>5, <1>6 DEF Next

(* The phases of an expansion and of what is done with its code.           *)
Phases ==
  {"split", "migrate", "fns", "expanded", "built", "migrating", "running", "rejected"} \cup Ended
LEMMA NextPhase == phase \in Phases /\ [Next]_vars => phase' \in Phases
BY DEF Phases, Ended, Next, Expand, Split, NoMigration, RunMigrate, MigrateFails, MissingReference,
   structs_tokens, StructPanics, fn_tokens, FnRefused, FnPanics, trait_tokens, TraitPanics, Build,
   Reject, StartMigrate, MigratePiece, MigrateStops, MigrateReturns, Call, Stop, vars, macroVars

(* The invariant of the proofs.                                            *)
Inv == IInv /\ LetsInv /\ SchemaInv /\ FnsInv /\ DbInv /\ phase \in Phases
LEMMA Invariance == Spec => []Inv
<1>1. GCInit => Inv
  <2>1. GCInit => phase \in Phases BY DEF GCInit, Init, Phases
  <2> QED BY <2>1, InitIInv, InitLetsInv, InitSchemaInv, InitFnsInv, InitDbInv DEF Inv
<1>2. Inv /\ [Next]_vars => Inv'
  BY NextIInv, NextLetsInv, NextSchemaInv, NextFnsInv, NextDbInv, NextPhase DEF Inv
<1> QED BY <1>1, <1>2, PTL DEF Spec

(* Why the invariant bounds the variables.                                 *)
LEMMA InvType == Inv => TypeOK
<1> SUFFICES ASSUME Inv PROVE TypeOK
  OBVIOUS
<1>1. phase \in {"split", "migrate", "fns", "expanded", "built", "migrating", "running", "rejected"}
                \cup Ended
  BY DEF Inv, Phases
<1>2. Len(fns) <= Len(rest) /\ Len(rest) < Len(program) + 1
  <2>1. IsSeq(fns) /\ IsSeq(rest) /\ Len(fns) <= Len(rest) /\ Len(rest) <= Len(program)
    BY DEF Inv, LetsInv
  <2>2. IsSeq(program) BY ProgramsAssumption DEF Inv, IInv
  <2>3. Len(program) \in Nat /\ Len(rest) \in Nat BY <2>1, <2>2 DEF IsSeq
  <2> QED BY <2>1, <2>3
<1>3. ASSUME NEW fn \in Range(fns), NEW f \in Range(fn.fields) \cup Range(fn.args)
      PROVE  f.type \in RustType
  <2>1. GoodFn(fn) BY DEF Inv, FnsInv, Range
  <2> QED BY <2>1 DEF GoodFn, Range
<1>4. ASSUME NEW t \in DOMAIN db, NEW row \in db[t]
      PROVE  DOMAIN row = ColumnsOf(t) /\ \A c \in DOMAIN row : row[c].value \in Value
  <2>1. phase = "running"
    <3>1. CASE phase # "running"
      <4>1. db = <<>> BY <3>1 DEF Inv, DbInv
      <4> QED BY <4>1
    <3> QED BY <3>1
  <2>2. RowFrom(t, row) BY <2>1 DEF Inv, DbInv, RowInv
  <2> QED BY <2>2, OriginIsValue DEF RowFrom
<1> QED BY <1>1, <1>2, <1>3, <1>4 DEF TypeOK

(* Whatever the programs and the samples: an expansion ends in code, an    *)
(* error or a panic, every argument and field it generates has a Rust type,*)
(* and rows have exactly the columns of their tables and hold values.      *)
(* (Macro sql_macro and names.rs; core ffi.rs, conversions of Value.)      *)
THEOREM TypeCorrect == Spec => []TypeOK
BY Invariance, InvType, PTL
-----------------------------------------------------------------------------
(* What a call reads.                                                      *)
CellOK(row, cell) ==
  /\ Origin(row, cell)
  /\ row.not_null = 1 => cell.value # Null
  /\ RowId(row) => cell.value.class = "Integer"

(* The type of a field of a supported column is a Rust type.               *)
LEMMA GoodType ==
  ASSUME NEW row, GoodRow(row)
  PROVE  /\ TypeOf(row) \in RustType /\ TypeOf(row).of = RustBase[row.column_type]
         /\ TypeOf(row).optional <=> row.not_null = 0 /\ row.pk = 0
<1>1. RustBase[row.column_type] \in Bases BY DEF GoodRow, RustBase, Bases, ClassOf
<1> QED BY <1>1 DEF TypeOf, Field, FromSchemaRow, RustType

(* A key is an integer, and NULL stays NULL.                               *)
LEMMA KeyConverts ==
  ASSUME NEW row, GoodRow(row), RowId(row)
  PROVE  Converts(get_column_value(Key), TypeOf(row))
<1>1. TypeOf(row).of = "i64" BY GoodType DEF RowId, RustBase
<1> QED BY <1>1 DEF Converts, get_column_value, Key, ClassOf

(* What the column of its type stores of an argument.                      *)
LEMMA StoredFits ==
  ASSUME NEW row, GoodRow(row), NEW x \in Args, x # None, x.of = TypeOf(row).of
  PROVE  \/ x = [of |-> "f64", data |-> "nan"] /\ Stored(x, row) = Null
         \/ LET v == get_column_value(Stored(x, row))
            IN /\ v # Null /\ Stored(x, row) # Null /\ v.class = ClassOf[x.of]
               /\ \/ v.data = x.data
                  \/ x = [of |-> "String", data |-> "nul"] /\ v.data = "word"
<1>1. /\ x.of \in Bases /\ x.data \in Data /\ x.data \in Contents[x.of]
      /\ x = [of |-> x.of, data |-> x.data] /\ From(x) = [class |-> ClassOf[x.of], data |-> x.data]
  BY FromArgs
<1>2. TypeOf(row) \in RustType /\ RustBase[row.column_type] = TypeOf(row).of BY GoodType
<1>3. CASE x.data = "nan"
  <2>1. x.of = "f64" BY <1>1, <1>3 DEF Contents, Bases, ClassOf, Data
  <2>2. Bind(From(x)) = Null BY <1>1, <1>3, <2>1 DEF Bind, ClassOf
  <2>3. Stored(x, row) = Null BY <2>2 DEF Stored, Store, Null
  <2> QED BY <1>1, <1>3, <2>1, <2>3
<1>4. CASE x.data # "nan"
  <2> DEFINE v == Back(x, row.column_type)
  <2>1. Fits([of |-> TypeOf(row).of, data |-> x.data]) BY <1>1, <1>4 DEF Fits
  <2>2. row.column_type \in DOMAIN RustBase BY DEF GoodRow
  <2>3. /\ Converts(v, TypeOf(row))
        /\ TryFrom(v, TypeOf(row)) =
             IF x.of = "String" /\ x.data = "nul" THEN [x EXCEPT !.data = "word"] ELSE x
    BY <1>1, <1>2, <2>1, <2>2, RoundTrip
  <2>4. v = get_column_value(Stored(x, row)) BY DEF Back, Stored
  <2> HIDE DEF v
  <2>5. v # Null
    <3>1. x.of # "None" BY <1>1 DEF Bases, ClassOf
    <3>2. TryFrom(v, TypeOf(row)) # None BY <1>1, <2>3, <3>1 DEF None
    <3> QED BY <3>2 DEF TryFrom
  <2>6. v.class = ClassOf[x.of] BY <2>3, <2>5 DEF Converts
  <2>7. TryFrom(v, TypeOf(row)) = [of |-> x.of, data |-> v.data] BY <2>5 DEF TryFrom
  <2>8. Stored(x, row) # Null BY <2>4, <2>5 DEF get_column_value, Null
  <2> QED BY <1>1, <2>3, <2>4, <2>5, <2>6, <2>7, <2>8
<1> QED BY <1>3, <1>4

(* None is stored as NULL in every column.                                 *)
LEMMA NoneIsNull == ASSUME NEW row PROVE Stored(None, row) = Null
<1>1. From(None) = Null BY DEF From
<1> QED BY <1>1 DEF Stored, Store, Bind, Null

(* A cell converts to the type of its column, or the reason is one of Explained.*)
LEMMA CellExplained ==
  ASSUME NEW row, GoodRow(row), row.not_null \in {0, 1}, NEW cell, CellOK(row, cell),
         ~Converts(get_column_value(cell.value), TypeOf(row))
  PROVE  \/ cell.value = Null /\ row.pk = 1 /\ row.not_null = 0 /\ ~RowId(row)
         \/ cell.arg \notin {None, Nothing} /\ cell.arg.of # TypeOf(row).of
<1>1. ASSUME cell.value = Null
      PROVE  row.pk = 1 /\ row.not_null = 0 /\ ~RowId(row)
  <2>1. row.not_null = 0 BY <1>1 DEF CellOK
  <2>2. ~RowId(row) BY <1>1 DEF CellOK, Null
  <2>3. get_column_value(Null) = Null BY DEF get_column_value, Null
  <2>4. ~TypeOf(row).optional BY <1>1, <2>3 DEF Converts
  <2>5. row.pk = 1 BY <2>1, <2>4, GoodType DEF GoodRow
  <2> QED BY <2>1, <2>2, <2>5
<1>2. ASSUME RowId(row) PROVE cell.value # Key
  BY <1>2, KeyConverts
<1>3. CASE cell.arg = Nothing \/ cell.arg \notin Args
  <2>1. Nothing \notin Args
    <3>1. Nothing # None /\ Nothing.of \notin Bases BY DEF Nothing, None, Bases, ClassOf
    <3> QED BY <3>1, FromArgs
  <2>2. cell.value = IF RowId(row) THEN Key ELSE Null BY <1>3, <2>1 DEF CellOK, Origin
  <2> QED BY <1>1, <1>2, <2>2
<1>4. CASE cell.arg \in Args /\ cell.arg # Nothing
  <2>1. cell.value = Stored(cell.arg, row) BY <1>2, <1>4 DEF CellOK, Origin
  <2>2. CASE cell.arg = None BY <1>1, <2>1, <2>2, NoneIsNull
  <2>3. CASE cell.arg # None /\ cell.arg.of = TypeOf(row).of
    <3>1. CASE Stored(cell.arg, row) = Null BY <1>1, <2>1, <3>1
    <3>2. CASE Stored(cell.arg, row) # Null
      <4>1. get_column_value(Stored(cell.arg, row)).class = ClassOf[cell.arg.of]
        BY <1>4, <2>3, <3>2, StoredFits
      <4> QED BY <2>1, <2>3, <4>1 DEF Converts
    <3> QED BY <3>1, <3>2
  <2> QED BY <1>4, <2>2, <2>3
<1> QED BY <1>3, <1>4

(* A cell that converts gives back the argument it was written from.       *)
LEMMA CellReadBack ==
  ASSUME NEW row, GoodRow(row), NEW cell, CellOK(row, cell), cell.named, cell.meant # Nothing,
         NEW type \in RustType, Converts(get_column_value(cell.value), type)
  PROVE  LET given == cell.meant
             read == TryFrom(get_column_value(cell.value), type)
         IN \/ read = given
            \/ given = None /\ RowId(row)
            \/ given = [of |-> "f64", data |-> "nan"] /\ read = None
            \/ given = [of |-> "String", data |-> "nul"] /\ read.data = "word"
            \/ given # None /\ given.of # TypeOf(row).of
<1> DEFINE given == cell.meant
           read == TryFrom(get_column_value(cell.value), type)
<1>1. /\ given \in Args
      /\ \/ cell.value = Stored(given, row)
         \/ RowId(row) /\ Stored(given, row) = Null
  BY DEF CellOK, Origin
<1>2. ASSUME cell.value = Null PROVE read = None
  BY <1>2 DEF get_column_value, Null, TryFrom
<1>3. CASE given = None
  BY <1>1, <1>2, <1>3, NoneIsNull
<1>4. CASE given # None /\ given.of = TypeOf(row).of
  <2>1. CASE given = [of |-> "f64", data |-> "nan"] /\ Stored(given, row) = Null
    <3>1. ~RowId(row)
      <4>1. TypeOf(row).of = RustBase[row.column_type] /\ given.of = "f64" BY <2>1, GoodType
      <4> QED BY <1>4, <4>1 DEF RowId, RustBase
    <3> QED BY <1>1, <1>2, <2>1, <3>1
  <2>2. CASE Stored(given, row) # Null
    <3> DEFINE v == get_column_value(Stored(given, row))
    <3>1. /\ v # Null /\ v.class = ClassOf[given.of]
          /\ \/ v.data = given.data
             \/ given = [of |-> "String", data |-> "nul"] /\ v.data = "word"
      BY <1>1, <1>4, <2>2, StoredFits
    <3>2. cell.value = Stored(given, row) BY <1>1, <2>2
    <3>3. given.of \in Bases /\ given = [of |-> given.of, data |-> given.data]
      BY <1>1, <1>4, FromArgs
    <3> HIDE DEF v
    <3>4. read = [of |-> type.of, data |-> v.data] BY <3>1, <3>2 DEF TryFrom, v
    <3>5. ClassOf[given.of] = ClassOf[type.of] BY <3>1, <3>2 DEF Converts, v
    <3>6. type.of = given.of BY <3>3, <3>5 DEF ClassOf, Bases, RustType
    <3> QED BY <3>1, <3>3, <3>4, <3>6
  <2> QED BY <1>1, <1>4, <2>1, <2>2, StoredFits
<1>5. CASE given # None /\ given.of # TypeOf(row).of
  BY <1>5
<1> QED BY <1>3, <1>4, <1>5

(* A row that a statement delivers: of a table, or made up by a join.      *)
Picked(relation, pick) ==
  \/ RowInv(relation.table, pick)
  \/ relation.join = "outer" /\ pick = [c \in ColumnsOf(relation.table) |-> Empty(Null)]

(* The answer of a call that picks such rows has both properties.          *)
LEMMA AnswerHolds ==
  ASSUME SchemaInv, phase \in Late, NEW fn, GoodFn(fn), NEW picks,
         \A i \in DOMAIN fn.statement.relations : Picked(fn.statement.relations[i], picks[i]),
         NEW computed, NEW a, a = Answer(fn, picks, computed)
  PROVE  /\ a.outcome = "mismatch" =>
              \A n \in DOMAIN a.columns : Explained(a.statement, n, a.columns[n])
         /\ a.outcome = "row" =>
              \A n \in DOMAIN a.columns : ReadBack(a.statement, n, a.columns[n])
<1> DEFINE stmt == fn.statement
           outputs == Outputs(stmt)
           cell(n) == IF outputs[n].relation = 0 THEN Empty(computed)
                      ELSE picks[outputs[n].relation][outputs[n].column]
           field(n) == fn.fields[SelectInSeq(fn.fields, LAMBDA x : x.label = outputs[n].label)]
           columns == [n \in DOMAIN outputs |->
             [field |-> field(n), cell |-> cell(n), value |-> get_column_value(cell(n).value)]]
<1>1. CASE outputs = <<>>
  <2>1. a.outcome = "none" BY <1>1 DEF Answer, NoAnswer
  <2> QED BY <2>1
<1>2. CASE outputs # <<>>
  <2>1. a = [outcome |-> IF \A n \in DOMAIN columns : Converts(columns[n].value, columns[n].field.type)
                        THEN "row" ELSE "mismatch",
             statement |-> stmt, columns |-> columns]
    BY <1>2 DEF Answer
  <2>2. IsSeq(outputs) /\ \A o \in Range(outputs) : GoodOutput(stmt, o)
    BY OutputsAre DEF GoodFn
  <2>3. DOMAIN outputs = 1..Len(outputs) /\ Len(outputs) \in Nat BY <2>2 DEF IsSeq
  <2>4. ASSUME NEW n \in DOMAIN outputs PROVE field(n).type \in RustType
    <3> DEFINE I == {i \in 1..Len(fn.fields) : fn.fields[i].label = outputs[n].label}
    <3>1. DOMAIN fn.fields = 1..Len(outputs) BY <2>3 DEF GoodFn
    <3>2. Len(fn.fields) = Len(outputs) BY <2>3, <3>1
    <3>3. n \in I BY <2>3, <3>1, <3>2 DEF GoodFn
    <3>4. Min(I) \in I
      <4>1. I \in SUBSET Nat /\ I # {} BY <3>3
      <4> QED BY <4>1, MinIn
    <3>5. field(n) = fn.fields[Min(I)] BY <3>3 DEF SelectInSeq
    <3> HIDE DEF field
    <3> QED BY <3>1, <3>2, <3>4, <3>5 DEF GoodFn
  <2>5. ASSUME NEW n \in DOMAIN outputs, outputs[n].relation # 0
        PROVE  LET row == Shown(stmt, n)
               IN /\ GoodRow(row) /\ row.not_null \in {0, 1}
                  /\ \/ CellOK(row, cell(n))
                     \/ /\ cell(n) = Empty(Null)
                        /\ stmt.relations[outputs[n].relation].join = "outer"
    <3> DEFINE relation == stmt.relations[outputs[n].relation]
               c == outputs[n].column
    <3>1. outputs[n].relation \in DOMAIN stmt.relations /\ c \in ColumnsOf(relation.table)
      BY <2>2, <2>5 DEF GoodOutput, Range
    <3>2. relation.table \in DOMAIN schema BY <3>1, TableExists
    <3>3. Shown(stmt, n) = ColumnRow(relation.table, c) BY DEF Shown
    <3>4. Shown(stmt, n) \in Range(schema[relation.table])
      BY <3>1, <3>2, <3>3, ColumnRowIs DEF SchemaInv
    <3>5. GoodRow(Shown(stmt, n)) /\ Shown(stmt, n).not_null \in {0, 1}
      BY <3>2, <3>4 DEF SchemaInv
    <3>6. cell(n) = picks[outputs[n].relation][c] BY <2>5
    <3>7. Picked(relation, picks[outputs[n].relation]) BY <3>1
    <3> HIDE DEF cell, outputs, relation, c
    <3>8. CASE RowInv(relation.table, picks[outputs[n].relation])
      BY <3>1, <3>3, <3>5, <3>6, <3>8 DEF RowInv, RowFrom, Allowed, CellOK
    <3>9. CASE /\ relation.join = "outer"
               /\ picks[outputs[n].relation] = [d \in ColumnsOf(relation.table) |-> Empty(Null)]
      BY <3>1, <3>5, <3>6, <3>9 DEF relation
    <3> QED BY <3>7, <3>8, <3>9 DEF Picked
  <2>6. /\ DOMAIN columns = DOMAIN outputs
        /\ \A n \in DOMAIN outputs :
             /\ columns[n].field = field(n) /\ columns[n].cell = cell(n)
             /\ columns[n].value = get_column_value(cell(n).value)
    OBVIOUS
  <2>7. \A n \in DOMAIN outputs : outputs[n].relation = 0 => cell(n).meant = Nothing BY DEF Empty
  <2>8. stmt = fn.statement /\ outputs = Outputs(stmt) OBVIOUS
  <2> HIDE DEF stmt, outputs, cell, field, columns
  <2>9. ASSUME NEW n \in DOMAIN columns PROVE Explained(stmt, n, columns[n])
    <3> SUFFICES ASSUME ~Converts(columns[n].value, field(n).type), outputs[n].relation # 0,
                        TypeOf(Shown(stmt, n)) = field(n).type
                 PROVE  \/ cell(n).value = Null /\ stmt.relations[outputs[n].relation].join = "outer"
                        \/ /\ cell(n).value = Null /\ ~RowId(Shown(stmt, n))
                           /\ Shown(stmt, n).pk = 1 /\ Shown(stmt, n).not_null = 0
                        \/ /\ cell(n).arg \notin {None, Nothing}
                           /\ cell(n).arg.of # TypeOf(Shown(stmt, n)).of
      BY <2>6, <2>8 DEF Explained
    <3>1. CASE CellOK(Shown(stmt, n), cell(n))
      BY <2>5, <2>6, <3>1, CellExplained
    <3>2. CASE cell(n) = Empty(Null) /\ stmt.relations[outputs[n].relation].join = "outer"
      BY <3>2 DEF Empty
    <3> QED BY <2>5, <2>6, <3>1, <3>2
  <2>10. ASSUME NEW n \in DOMAIN columns, Converts(columns[n].value, columns[n].field.type)
         PROVE  ReadBack(stmt, n, columns[n])
    <3> SUFFICES ASSUME cell(n).named, cell(n).meant # Nothing
                 PROVE  LET given == cell(n).meant
                            read == TryFrom(get_column_value(cell(n).value), field(n).type)
                        IN \/ read = given
                           \/ given = None /\ RowId(Shown(stmt, n))
                           \/ given = [of |-> "f64", data |-> "nan"] /\ read = None
                           \/ given = [of |-> "String", data |-> "nul"] /\ read.data = "word"
                           \/ given # None /\ given.of # TypeOf(Shown(stmt, n)).of
      BY <2>6 DEF ReadBack
    <3>1. cell(n) # Empty(Null) BY DEF Empty
    <3>2. GoodRow(Shown(stmt, n)) /\ CellOK(Shown(stmt, n), cell(n)) BY <2>5, <2>6, <2>7, <3>1
    <3>3. Converts(get_column_value(cell(n).value), field(n).type) BY <2>6, <2>10
    <3>4. field(n).type \in RustType BY <2>4, <2>6
    <3> QED BY <3>2, <3>3, <3>4, CellReadBack
  <2>11. ASSUME a.outcome = "row", NEW n \in DOMAIN columns
         PROVE  Converts(columns[n].value, columns[n].field.type)
    BY <2>1, <2>11
  <2>12. a.statement = stmt /\ a.columns = columns BY <2>1
  <2> QED BY <2>9, <2>10, <2>11, <2>12
<1> QED BY <1>1, <1>2

(* So has every call of a generated function.                              *)
LEMMA CallAnswers ==
  ASSUME SchemaInv, FnsInv, DbInv, phase = "running",
         NEW i \in DOMAIN fns, NEW computed \in Computed,
         \/ \E args \in Calls(fns[i]) : Insert(fns[i], args, computed) \/ Update(fns[i], args, computed)
         \/ Delete(fns[i], computed)
         \/ Select(fns[i], computed),
         NEW a, a = last'
  PROVE  /\ a.outcome = "mismatch" =>
              \A n \in DOMAIN a.columns : Explained(a.statement, n, a.columns[n])
         /\ a.outcome = "row" =>
              \A n \in DOMAIN a.columns : ReadBack(a.statement, n, a.columns[n])
<1> PICK fn : fn = fns[i] OBVIOUS
<1> DEFINE relations == fn.statement.relations
           table == relations[1].table
<1>1. GoodFn(fn) /\ phase \in Late BY DEF FnsInv, Late
<1>2. \A t \in DOMAIN schema : \A r \in db[t] : RowInv(t, r) BY DEF DbInv
<1>3. fn.statement.op # "select" => DOMAIN relations = {1} /\ table \in DOMAIN schema
  BY <1>1, OneRelation, TableExists
<1>4. SUFFICES ASSUME a.outcome # "refused"
               PROVE  \E picks : /\ a = Answer(fn, picks, computed)
                                 /\ \A k \in DOMAIN relations : Picked(relations[k], picks[k])
  BY <1>1, AnswerHolds
<1>5. CASE \E args \in Calls(fn) : Insert(fn, args, computed)
  <2>1. PICK args \in Calls(fn) : Insert(fn, args, computed) BY <1>5
  <2>2. /\ fn.statement.op # "select" /\ Allowed(table, Written(fn, args, Blank(table)))
        /\ a = Answer(fn, <<Written(fn, args, Blank(table))>>, computed)
    <3> PICK new : new = Written(fn, args, Blank(table)) OBVIOUS
    <3>1. /\ fn.statement.op = "insert"
          /\ IF Allowed(table, new) THEN last' = Answer(fn, <<new>>, computed)
             ELSE last' = [outcome |-> "refused"]
      BY <2>1 DEF Insert
    <3>2. Allowed(table, new) BY <1>4, <3>1
    <3> QED BY <3>1, <3>2
  <2>3. RowFrom(table, Written(fn, args, Blank(table))) BY <1>1, BlankFrom, WrittenFrom
  <2>4. RowInv(table, <<Written(fn, args, Blank(table))>>[1]) BY <2>2, <2>3 DEF RowInv
  <2> QED BY <1>3, <2>2, <2>4 DEF Picked
<1>6. CASE \E args \in Calls(fn) : Update(fn, args, computed)
  <2>1. PICK args \in Calls(fn) : Update(fn, args, computed) BY <1>6
  <2>2. PICK old \in db[table] :
          /\ Allowed(table, Written(fn, args, old))
          /\ a = Answer(fn, <<Written(fn, args, old)>>, computed)
    <3>1. PICK old \in db[table] :
            IF Allowed(table, Written(fn, args, old))
            THEN last' = Answer(fn, <<Written(fn, args, old)>>, computed)
            ELSE last' = [outcome |-> "refused"]
      BY <2>1 DEF Update
    <3> QED BY <1>4, <3>1
  <2>3. fn.statement.op # "select" BY <2>1 DEF Update
  <2>4. RowFrom(table, Written(fn, args, old))
    <3>1. RowFrom(table, old) BY <1>2, <1>3, <2>3 DEF RowInv
    <3> QED BY <1>1, <3>1, WrittenFrom
  <2>5. RowInv(table, <<Written(fn, args, old)>>[1]) BY <2>2, <2>4 DEF RowInv
  <2> QED BY <1>3, <2>2, <2>3, <2>5 DEF Picked
<1>7. CASE Delete(fn, computed)
  <2>1. PICK old \in db[table] : a = Answer(fn, <<old>>, computed) BY <1>7 DEF Delete
  <2>2. fn.statement.op # "select" BY <1>7 DEF Delete
  <2>3. RowInv(table, <<old>>[1]) BY <1>2, <1>3, <2>2
  <2> QED BY <1>3, <2>1, <2>2, <2>3 DEF Picked
<1>8. CASE Select(fn, computed)
  <2>1. PICK picks : /\ \A k \in DOMAIN relations : picks[k] \in Delivered(relations[k])
                     /\ a = Answer(fn, picks, computed)
    BY <1>8 DEF Select
  <2>2. ASSUME NEW k \in DOMAIN relations PROVE Picked(relations[k], picks[k])
    <3>1. relations[k].table \in DOMAIN schema BY <1>1, TableExists
    <3>2. picks[k] \in Delivered(relations[k]) BY <2>1
    <3> QED BY <1>2, <3>1, <3>2 DEF Delivered, Picked
  <2> QED BY <2>1, <2>2
<1> QED BY <1>5, <1>6, <1>7, <1>8

(* Both properties speak of the tables and of the answer only.             *)
LEMMA ExplainedStays ==
  ASSUME UNCHANGED schema, NEW stmt, NEW n, NEW c
  PROVE  /\ Explained(stmt, n, c)' = Explained(stmt, n, c)
         /\ ReadBack(stmt, n, c)' = ReadBack(stmt, n, c)
<1>1. Outputs(stmt)' = Outputs(stmt) BY DEF Outputs, Star
<1>2. Shown(stmt, n)' = Shown(stmt, n) BY <1>1 DEF Shown, ColumnRow, SelectInSeq
<1> QED BY <1>1, <1>2 DEF Explained, ReadBack

AnswersInv == MismatchIsExplained /\ ReadsWhatWasWritten
LEMMA NextAnswers == Inv /\ AnswersInv /\ [Next]_vars => AnswersInv'
<1> SUFFICES ASSUME Inv, AnswersInv, [Next]_vars PROVE AnswersInv'
  OBVIOUS
<1>1. PICK a : a = last' OBVIOUS
<1>2. SUFFICES ASSUME UNCHANGED schema \/ a.outcome = "none"
               PROVE  /\ a.outcome = "mismatch" =>
                           \A n \in DOMAIN a.columns : Explained(a.statement, n, a.columns[n])
                      /\ a.outcome = "row" =>
                           \A n \in DOMAIN a.columns : ReadBack(a.statement, n, a.columns[n])
  <2>1. UNCHANGED schema \/ a.outcome = "none"
    <3>1. CASE phase = "running"
      BY <3>1 DEF Next, Expand, Split, NoMigration, RunMigrate, MigrateFails, MissingReference,
         structs_tokens, StructPanics, fn_tokens, FnRefused, FnPanics, trait_tokens, TraitPanics,
         Build, Reject, StartMigrate, MigratePiece, MigrateStops, MigrateReturns, Call, Stop,
         Validated, Generating, vars, macroVars
    <3>2. CASE phase # "running"
      <4>1. last = NoAnswer BY <3>2 DEF Inv, DbInv
      <4>2. last' = last
        BY <3>2 DEF Next, Build, Reject, StartMigrate, MigratePiece, MigrateStops, MigrateReturns,
           Call, vars
      <4> QED BY <1>1, <4>1, <4>2 DEF NoAnswer
    <3> QED BY <3>1, <3>2
  <2>2. CASE a.outcome = "none"
    BY <1>1, <2>2 DEF AnswersInv, MismatchIsExplained, ReadsWhatWasWritten
  <2>3. CASE UNCHANGED schema
    <3>1. \A n \in DOMAIN a.columns :
            /\ Explained(a.statement, n, a.columns[n])' = Explained(a.statement, n, a.columns[n])
            /\ ReadBack(a.statement, n, a.columns[n])' = ReadBack(a.statement, n, a.columns[n])
      BY <2>3, ExplainedStays
    <3> QED BY <1>1, <1>2, <2>3, <3>1 DEF AnswersInv, MismatchIsExplained, ReadsWhatWasWritten
  <2> QED BY <2>1, <2>2, <2>3
<1>3. CASE Call
  <2>1. PICK i \in DOMAIN fns, computed \in Computed :
          \/ \E args \in Calls(fns[i]) : Insert(fns[i], args, computed) \/ Update(fns[i], args, computed)
          \/ Delete(fns[i], computed)
          \/ Select(fns[i], computed)
    BY <1>3 DEF Call
  <2> QED BY <1>1, <1>3, <2>1, CallAnswers DEF Inv, Call
<1>4. CASE ~Call
  <2>1. last' = last BY <1>4 DEF Next, Build, Reject, StartMigrate, MigratePiece, MigrateStops,
        MigrateReturns, vars
  <2> QED BY <1>1, <2>1 DEF AnswersInv, MismatchIsExplained, ReadsWhatWasWritten
<1> QED BY <1>3, <1>4

LEMMA AnswersInvariance == Spec => []AnswersInv
<1>1. GCInit => AnswersInv
  BY DEF GCInit, NoAnswer, AnswersInv, MismatchIsExplained, ReadsWhatWasWritten
<1> QED BY <1>1, NextAnswers, Invariance, PTL DEF Spec

(* Whatever the programs, the arguments and the order of the calls: a call *)
(* of a generated function fails with a column type mismatch only for one  *)
(* of the reasons a program can be blamed for.  (Macro fn_args, params and *)
(* struct_tokens, which derive the types apart; core conversions of Value.)*)
THEOREM MismatchExplained == Spec => []MismatchIsExplained
<1>1. AnswersInv => MismatchIsExplained BY DEF AnswersInv
<1> QED BY <1>1, AnswersInvariance, PTL

(* Whatever the programs, the arguments and the order of the calls: a      *)
(* function reads from a column the value that a caller passed for the     *)
(* parameter it was written from, but for a NaN, a zero character in a text*)
(* and a key that SQLite supplied.  (Macro fn_args, params, struct_tokens; *)
(* core prepare, get_column_value and the conversions of Value.)           *)
THEOREM ReadsWritten == Spec => []ReadsWhatWasWritten
<1>1. AnswersInv => ReadsWhatWasWritten BY DEF AnswersInv
<1> QED BY <1>1, AnswersInvariance, PTL
-----------------------------------------------------------------------------
(* The databases a script makes, one after each statement: the one in      *)
(* memory went through them, and so does a file.                           *)
Ran(states, k) ==
  /\ states[0] = <<>>
  /\ \A i \in 1..k : /\ Accepts(migrate.statements[i], states[i - 1])
                     /\ states[i] = After(migrate.statements[i], states[i - 1])
LeavesMigrations ==
  \A stmt \in Range(migrate.statements) : stmt.op = "create" => stmt.table # MigrationsTable
Made(states, k) ==
  /\ Ran(states, k) /\ states[k] = schema
  /\ LeavesMigrations => \A i \in 0..k : MigrationsTable \notin DOMAIN states[i]
ScriptInv ==
  /\ phase = "split" => schema = <<>>
  /\ phase = "migrate" =>
       at <= Len(migrate.statements) + 1 /\ \E states : Made(states, at - 1)
  /\ phase \in Late => \E states : Made(states, Len(migrate.statements))

(* The same statement on a file, which also has the table of migrations.   *)
InFile(s) ==
  [t \in DOMAIN s \cup {MigrationsTable} |-> IF t = MigrationsTable THEN MigrationsColumns ELSE s[t]]
LEMMA FileFollows ==
  ASSUME NEW s, MigrationsTable \notin DOMAIN s, NEW stmt, stmt.op \in Ddl, Accepts(stmt, s),
         stmt.op = "create" => stmt.table # MigrationsTable
  PROVE  /\ Accepts(stmt, InFile(s)) /\ After(stmt, InFile(s)) = InFile(After(stmt, s))
         /\ MigrationsTable \notin DOMAIN After(stmt, s)
<1> DEFINE file == InFile(s)
<1>1. /\ DOMAIN file = DOMAIN s \cup {MigrationsTable} /\ file[MigrationsTable] = MigrationsColumns
      /\ \A t \in DOMAIN s : file[t] = s[t]
      /\ file = [t \in DOMAIN s \cup {MigrationsTable} |-> file[t]]
  BY DEF InFile
<1> HIDE DEF file
<1>2. CASE stmt.op = "create"
  <2>1. stmt.table \notin DOMAIN s /\ stmt.table # MigrationsTable BY <1>2 DEF Accepts
  <2>2. Accepts(stmt, file) BY <1>1, <1>2, <2>1 DEF Accepts
  <2>3. After(stmt, s) = [t \in DOMAIN s \cup {stmt.table} |->
                            IF t = stmt.table THEN SchemaRows(stmt) ELSE s[t]]
    BY <1>2 DEF After
  <2>4. After(stmt, file) = [t \in DOMAIN file \cup {stmt.table} |->
                               IF t = stmt.table THEN SchemaRows(stmt) ELSE file[t]]
    BY <1>2 DEF After
  <2>5. After(stmt, file) = InFile(After(stmt, s)) BY <1>1, <2>1, <2>3, <2>4 DEF InFile
  <2> QED BY <2>1, <2>2, <2>3, <2>5 DEF file
<1>3. CASE stmt.op = "alter"
  <2>1. stmt.table \in DOMAIN s /\ stmt.table # MigrationsTable BY <1>3 DEF Accepts
  <2>2. Accepts(stmt, file) BY <1>1, <1>3, <2>1 DEF Accepts
  <2>3. After(stmt, s) = [t \in DOMAIN s |-> IF t = stmt.table THEN s[t] \o SchemaRows(stmt) ELSE s[t]]
    BY <1>3 DEF After
  <2>4. After(stmt, file) =
          [t \in DOMAIN file |-> IF t = stmt.table THEN file[t] \o SchemaRows(stmt) ELSE file[t]]
    BY <1>3 DEF After
  <2>5. PICK rows : rows = SchemaRows(stmt) OBVIOUS
  <2>6. PICK after : after = After(stmt, s) OBVIOUS
  <2>7. /\ DOMAIN after = DOMAIN s
        /\ \A t \in DOMAIN s : after[t] = IF t = stmt.table THEN s[t] \o rows ELSE s[t]
    BY <2>3, <2>5, <2>6
  <2>8. \A t \in DOMAIN file :
          (IF t = stmt.table THEN file[t] \o rows ELSE file[t]) =
          (IF t = MigrationsTable THEN MigrationsColumns ELSE after[t])
    BY <1>1, <2>1, <2>7
  <2>9. After(stmt, file) = [t \in DOMAIN file |-> IF t = MigrationsTable THEN MigrationsColumns
                                                  ELSE after[t]]
    BY <2>4, <2>5, <2>8
  <2>10. DOMAIN file = DOMAIN after \cup {MigrationsTable} BY <1>1, <2>7
  <2>11. After(stmt, file) = InFile(after) BY <2>9, <2>10 DEF InFile
  <2> QED BY <2>1, <2>2, <2>6, <2>7, <2>11 DEF file
<1>4. CASE stmt.op = "drop"
  <2>1. stmt.table \in DOMAIN s /\ stmt.table # MigrationsTable BY <1>4 DEF Accepts
  <2>2. Accepts(stmt, file) BY <1>1, <1>4, <2>1 DEF Accepts
  <2>3. After(stmt, s) = [t \in DOMAIN s \ {stmt.table} |-> s[t]] BY <1>4 DEF After
  <2>4. After(stmt, file) = [t \in DOMAIN file \ {stmt.table} |-> file[t]] BY <1>4 DEF After
  <2>5. After(stmt, file) = InFile(After(stmt, s)) BY <1>1, <2>1, <2>3, <2>4 DEF InFile
  <2> QED BY <2>1, <2>2, <2>3, <2>5 DEF file
<1>5. CASE stmt.op = "index"
  BY <1>5 DEF Accepts, After
<1> QED BY <1>2, <1>3, <1>4, <1>5 DEF Ddl

(* A statement that makes no such table leaves none.                       *)
LEMMA NoMigrationsMade ==
  ASSUME NEW s, MigrationsTable \notin DOMAIN s, NEW stmt, stmt.op \in Ddl,
         stmt.op = "create" => stmt.table # MigrationsTable
  PROVE  MigrationsTable \notin DOMAIN After(stmt, s)
<1>1. CASE stmt.op = "create"
  <2>1. DOMAIN After(stmt, s) = DOMAIN s \cup {stmt.table} BY <1>1 DEF After
  <2> QED BY <1>1, <2>1
<1>2. CASE stmt.op = "alter"
  <2>1. DOMAIN After(stmt, s) = DOMAIN s BY <1>2 DEF After
  <2> QED BY <2>1
<1>3. CASE stmt.op = "drop"
  <2>1. DOMAIN After(stmt, s) = DOMAIN s \ {stmt.table} BY <1>3 DEF After
  <2> QED BY <2>1
<1>4. CASE stmt.op = "index"
  BY <1>4 DEF After
<1> QED BY <1>1, <1>2, <1>3, <1>4 DEF Ddl

LEMMA InitScriptInv == GCInit => ScriptInv
BY DEF GCInit, Init, ScriptInv, Late

LEMMA NextScriptInv == IInv /\ ScriptInv /\ [Next]_vars => ScriptInv'
<1> SUFFICES ASSUME IInv, ScriptInv, [Next]_vars PROVE ScriptInv'
  OBVIOUS
<1>1. ASSUME UNCHANGED <<migrate, schema>>, NEW states, NEW k, Made(states, k)
      PROVE  Made(states, k)'
  BY <1>1 DEF Made, Ran, LeavesMigrations
<1>2. ASSUME UNCHANGED <<migrate, schema>>, phase' \notin {"split", "migrate"},
             phase' \in Late => phase \in Late
      PROVE  ScriptInv'
  <2> SUFFICES ASSUME phase' \in Late PROVE \E states : Made(states, Len(migrate.statements))'
    BY <1>2 DEF ScriptInv
  <2>1. PICK states : Made(states, Len(migrate.statements)) BY <1>2 DEF ScriptInv
  <2>2. PICK k : k = Len(migrate.statements) OBVIOUS
  <2>3. Made(states, k)' BY <1>1, <1>2, <2>1, <2>2
  <2>4. k' = Len(migrate'.statements) BY <1>2, <2>2
  <2> QED BY <2>3, <2>4
<1>3. CASE Split
  <2>1. phase' = "migrate" /\ at' = 1 /\ schema' = <<>> BY <1>3 DEF Split, IInv, ScriptInv
  <2>2. Len(migrate'.statements) \in Nat BY <1>3, NextIInv DEF IInv
  <2> DEFINE states == [i \in 0..0 |-> <<>>]
  <2>3. states[0] = <<>> OBVIOUS
  <2> HIDE DEF states
  <2>4. DOMAIN <<>> = {} OBVIOUS
  <2>5. \A i \in 0..0 : i = 0 OBVIOUS
  <2>6. Made(states, 0)' BY <2>1, <2>3, <2>4, <2>5 DEF Made, Ran
  <2> QED BY <2>1, <2>2, <2>6 DEF ScriptInv, Late
<1>4. CASE RunMigrate
  <2> DEFINE stmt == migrate.statements[at]
  <2>1. /\ phase = "migrate" /\ phase' = "migrate" /\ migrate' = migrate /\ at' = at + 1
        /\ at <= Len(migrate.statements) /\ at \in Nat \ {0} /\ Len(migrate.statements) \in Nat
        /\ Accepts(stmt, schema) /\ schema' = After(stmt, schema)
    BY <1>4 DEF RunMigrate, IInv
  <2>2. PICK n \in Nat : n = at - 1 BY <2>1
  <2>3. PICK old : Made(old, n) BY <2>1, <2>2 DEF ScriptInv
  <2> PICK final : final = schema' OBVIOUS
  <2> DEFINE new == [i \in 0..(n + 1) |-> IF i = n + 1 THEN final ELSE old[i]]
  <2>4. new[n + 1] = schema' /\ \A i \in 0..n : new[i] = old[i] BY <2>2
  <2>5. stmt \in Range(migrate.statements) /\ stmt.op \in Ddl
    <3>1. at \in DOMAIN migrate.statements BY <2>1 DEF IInv
    <3> QED BY <3>1 DEF Range, IInv, is_ddl
  <2>6. migrate.statements[n + 1] = stmt BY <2>1, <2>2
  <2> HIDE DEF stmt, new
  <2>7. Made(new, n + 1)'
    <3>1. new[0] = <<>> BY <2>3, <2>4 DEF Made, Ran
    <3>2. ASSUME NEW i \in 1..(n + 1)
          PROVE  /\ Accepts(migrate.statements[i], new[i - 1])
                 /\ new[i] = After(migrate.statements[i], new[i - 1])
      <4>1. CASE i \in 1..n
        <5>1. i \in 0..n /\ i - 1 \in 0..n BY <4>1
        <5> QED BY <2>3, <2>4, <4>1, <5>1 DEF Made, Ran
      <4>2. CASE i = n + 1
        <5>1. new[i - 1] = schema BY <2>3, <2>4, <4>2 DEF Made
        <5> QED BY <2>1, <2>4, <2>6, <4>2, <5>1
      <4> QED BY <4>1, <4>2
    <3>3. ASSUME LeavesMigrations, NEW i \in 0..(n + 1)
          PROVE  MigrationsTable \notin DOMAIN new[i]
      <4>1. CASE i \in 0..n BY <2>3, <2>4, <3>3, <4>1 DEF Made
      <4>2. CASE i = n + 1
        <5>1. MigrationsTable \notin DOMAIN schema BY <2>3, <3>3 DEF Made
        <5>2. stmt.op = "create" => stmt.table # MigrationsTable BY <2>5, <3>3 DEF LeavesMigrations
        <5> QED BY <2>1, <2>4, <2>5, <4>2, <5>1, <5>2, NoMigrationsMade
      <4> QED BY <4>1, <4>2
    <3>4. new[n + 1] = schema' BY <2>4
    <3> QED BY <2>1, <3>1, <3>2, <3>3, <3>4 DEF Made, Ran, LeavesMigrations
  <2>8. at' - 1 = n + 1 /\ at' <= Len(migrate'.statements) + 1 BY <2>1, <2>2
  <2> QED BY <2>1, <2>7, <2>8 DEF ScriptInv, Late
<1>5. CASE structs_tokens
  <2>1. /\ phase = "migrate" /\ phase' = "fns" /\ at > Len(migrate.statements)
        /\ UNCHANGED <<migrate, schema>>
    BY <1>5 DEF structs_tokens, Validated
  <2>2. at - 1 = Len(migrate.statements) BY <2>1 DEF ScriptInv, IInv
  <2>3. PICK states : Made(states, at - 1) BY <2>1 DEF ScriptInv
  <2>4. PICK k : k = Len(migrate.statements) OBVIOUS
  <2>5. Made(states, k)' BY <1>1, <2>1, <2>2, <2>3, <2>4
  <2>6. k = Len(migrate'.statements) BY <2>1, <2>4
  <2> QED BY <2>1, <2>5, <2>6 DEF ScriptInv, Late
<1>6. CASE fn_tokens \/ trait_tokens
  <2>1. phase \in Late /\ phase' \in {"fns", "expanded"} /\ UNCHANGED <<migrate, schema>>
    BY <1>6 DEF fn_tokens, trait_tokens, Generating, Late
  <2> QED BY <1>2, <2>1
<1>7. CASE Build \/ StartMigrate \/ MigratePiece \/ MigrateStops \/ MigrateReturns
  BY <1>2, <1>7 DEF Build, StartMigrate, MigratePiece, MigrateStops, MigrateReturns, Stop, Late
<1>8. CASE NoMigration \/ MigrateFails \/ MissingReference \/ StructPanics
           \/ FnRefused \/ FnPanics \/ TraitPanics \/ Reject
  BY <1>2, <1>8 DEF NoMigration, MigrateFails, MissingReference, StructPanics, FnRefused,
     FnPanics, TraitPanics, Reject, Stop, Late
<1>9. CASE Call
  BY <1>2, <1>9 DEF Call, macroVars, Late
<1>10. CASE UNCHANGED vars
  <2>1. UNCHANGED <<phase, at, migrate, schema>> BY <1>10 DEF vars, macroVars
  <2>2. \A states, k : Made(states, k) => Made(states, k)' BY <1>1, <2>1
  <2> QED BY <2>1, <2>2 DEF ScriptInv
<1> QED
  BY <1>3, <1>4, <1>5, <1>6, <1>7, <1>8, <1>9, <1>10 DEF Next, Expand

(* A regular script has one piece for each statement.                      *)
LEMMA PiecesAre ==
  ASSUME IInv, SchemaInv, Regular
  PROVE  /\ DOMAIN Pieces = 1..Len(migrate.statements) /\ Len(Pieces) = Len(migrate.statements)
         /\ \A i \in 1..Len(migrate.statements) :
              Pieces[i].stmt = migrate.statements[i] /\ Pieces[i].whole
         /\ LeavesMigrations
<1> DEFINE n == Len(migrate.statements)
           ss == [i \in 1..n |-> PiecesOf(migrate.statements[i])]
<1>1. n \in Nat /\ DOMAIN migrate.statements = 1..n BY DEF IInv
<1>2. \A i \in 1..n : migrate.statements[i] \in Range(migrate.statements) BY <1>1 DEF Range
<1>3. ASSUME NEW i \in 1..n
      PROVE  LET stmt == migrate.statements[i]
             IN stmt.op \in Ddl /\ WellFormed(stmt) /\ IsSeq(stmt.pieces) /\ stmt.pieces # <<>>
  BY <1>2 DEF IInv, is_ddl, SchemaInv, WellFormed
<1>4. ASSUME NEW i \in 1..n
      PROVE  /\ IsSeq(ss[i]) /\ Len(ss[i]) = Len(migrate.statements[i].pieces)
             /\ DOMAIN ss[i] = DOMAIN migrate.statements[i].pieces
  <2> DEFINE stmt == migrate.statements[i]
  <2>1. Len(stmt.pieces) \in Nat /\ DOMAIN stmt.pieces = 1..Len(stmt.pieces) BY <1>3 DEF IsSeq
  <2>2. ss[i] = [k \in 1..Len(stmt.pieces) |->
                   [text |-> stmt.pieces[k].text, whole |-> stmt.pieces[k].whole, stmt |-> stmt]]
    BY <2>1 DEF PiecesOf
  <2> HIDE DEF ss, stmt
  <2>3. DOMAIN ss[i] = 1..Len(stmt.pieces) /\ ss[i] = [k \in 1..Len(stmt.pieces) |-> ss[i][k]]
    BY <2>2
  <2>4. IsSeq(ss[i]) /\ Len(ss[i]) = Len(stmt.pieces) BY <2>1, <2>3, IsSeqFunction
  <2> QED BY <2>1, <2>3, <2>4 DEF stmt
<1>5. \A i \in 1..n : \A k \in DOMAIN ss[i] :
        /\ ss[i][k].stmt = migrate.statements[i]
        /\ ss[i][k].whole = migrate.statements[i].pieces[k].whole
  BY DEF PiecesOf
<1>6. DOMAIN ss = 1..n /\ ss = [i \in 1..n |-> ss[i]] OBVIOUS
<1>7. Pieces = FlattenSeq(ss) BY <1>1 DEF Pieces
<1> HIDE DEF ss, n
<1>8. IsSeq(ss) BY <1>1, <1>6, IsSeqFunction
<1>9. Range(Pieces) = UNION {Range(ss[i]) : i \in 1..n} BY <1>4, <1>6, <1>7, <1>8, Flattened
<1>10. ASSUME NEW i \in 1..n PROVE Len(ss[i]) = 1
  <2> PICK pieces : pieces = migrate.statements[i].pieces OBVIOUS
  <2>1. IsSeq(pieces) /\ pieces # <<>> BY <1>3
  <2>2. \A k \in DOMAIN pieces : pieces[k].whole
    <3> SUFFICES ASSUME NEW k \in DOMAIN pieces PROVE pieces[k].whole
      OBVIOUS
    <3>1. ss[i][k] \in Range(ss[i]) BY <1>4 DEF Range
    <3>2. ss[i][k] \in Range(Pieces) BY <1>9, <3>1
    <3>3. ss[i][k].whole BY <3>2 DEF Regular
    <3> QED BY <1>4, <1>5, <3>3
  <2>3. \A j, k \in DOMAIN pieces : j = k
    <3>1. \A j, k \in DOMAIN pieces : pieces[j].whole /\ pieces[k].whole => j = k
      BY <1>3 DEF WellFormed
    <3> QED BY <2>2, <3>1
  <2>4. Len(pieces) \in Nat \ {0} /\ DOMAIN pieces = 1..Len(pieces) BY <2>1 DEF IsSeq
  <2>5. 1 \in DOMAIN pieces /\ Len(pieces) \in DOMAIN pieces BY <2>4
  <2>6. Len(pieces) = 1 BY <2>3, <2>5
  <2> QED BY <1>4, <2>6
<1>11. Pieces = [i \in 1..n |-> ss[i][1]] BY <1>4, <1>6, <1>7, <1>8, <1>10, Flattened
<1>12. DOMAIN Pieces = 1..n BY <1>11
<1>13. Pieces = [i \in 1..n |-> Pieces[i]] BY <1>11
<1>14. Len(Pieces) = n BY <1>1, <1>12, <1>13, IsSeqFunction
<1>15. \A i \in 1..n : Pieces[i].stmt = migrate.statements[i] /\ Pieces[i].whole
  <2> SUFFICES ASSUME NEW i \in 1..n
               PROVE  Pieces[i].stmt = migrate.statements[i] /\ Pieces[i].whole
    OBVIOUS
  <2>1. 1 \in DOMAIN ss[i] BY <1>4, <1>10 DEF IsSeq
  <2>2. Pieces[i] = ss[i][1] BY <1>11
  <2>3. Pieces[i] \in Range(Pieces) BY <1>12 DEF Range
  <2> QED BY <1>5, <2>1, <2>2, <2>3 DEF Regular
<1>16. LeavesMigrations
  <2> SUFFICES ASSUME NEW stmt \in Range(migrate.statements), stmt.op = "create"
               PROVE  stmt.table # MigrationsTable
    BY DEF LeavesMigrations
  <2>1. PICK i \in 1..n : stmt = migrate.statements[i] BY <1>1 DEF Range
  <2>2. Pieces[i] \in Range(Pieces) BY <1>12 DEF Range
  <2> QED BY <1>15, <2>1, <2>2 DEF Regular
<1> QED BY <1>12, <1>14, <1>15, <1>16 DEF n

(* A file is where the first m statements of a regular script have led,    *)
(* these are recorded, and a call of migrate is at most one behind them.   *)
Migrated(states, m) ==
  /\ Made(states, Len(migrate.statements)) /\ m \in 0..Len(migrate.statements)
  /\ refused = {} /\ recorded = {Pieces[i].text : i \in 1..m}
  /\ tables = InFile(states[m]) \/ (phase = "built" /\ tables = <<>> /\ m = 0)
  /\ phase = "migrating" => at \in 1..(m + 1)
  /\ phase = "running" => m = Len(migrate.statements)
FileInv ==
  IF phase \in {"built", "migrating", "running"}
  THEN Regular => \E states, m : Migrated(states, m)
  ELSE tables = <<>> /\ recorded = {} /\ refused = {}

LEMMA InitFileInv == GCInit => FileInv
BY DEF GCInit, Init, FileInv

LEMMA NextFileInv == IInv /\ SchemaInv /\ ScriptInv /\ FileInv /\ [Next]_vars => FileInv'
<1> SUFFICES ASSUME IInv, SchemaInv, ScriptInv, FileInv, [Next]_vars PROVE FileInv'
  OBVIOUS
<1> USE DEF FileInv
<1>1. ASSUME UNCHANGED <<migrate, schema>>
      PROVE  /\ Pieces' = Pieces /\ Regular' = Regular
             /\ \A states, k : Made(states, k)' = Made(states, k)
  <2>1. Pieces' = Pieces BY <1>1 DEF Pieces, PiecesOf
  <2>2. Regular' = Regular BY <2>1 DEF Regular
  <2>3. \A states, k : Made(states, k)' = Made(states, k) BY <1>1 DEF Made, Ran, LeavesMigrations
  <2> QED BY <2>1, <2>2, <2>3
<1>2. CASE Expand /\ UNCHANGED <<fileVars, db, last>>
  BY <1>2 DEF Expand, fileVars, Split, NoMigration, RunMigrate, MigrateFails, MissingReference,
     structs_tokens, StructPanics, fn_tokens, FnRefused, FnPanics, trait_tokens, TraitPanics, Stop,
     Validated, Generating
<1>3. CASE Reject
  BY <1>3 DEF Reject, Stop, fileVars
<1>4. CASE Build
  <2>1. /\ phase = "expanded" /\ phase' = "built"
        /\ UNCHANGED <<migrate, schema, tables, recorded, refused>>
    BY <1>4 DEF Build, fileVars
  <2>2. PICK states : Made(states, Len(migrate.statements)) BY <2>1 DEF ScriptInv, Late
  <2>3. PICK n : n = Len(migrate.statements) OBVIOUS
  <2>4. n \in Nat /\ n = Len(migrate'.statements) BY <2>1, <2>3 DEF IInv
  <2>5. Made(states, n)' BY <1>1, <2>1, <2>2, <2>3
  <2>6. 0 \in 0..n BY <2>4
  <2>7. {Pieces'[i].text : i \in 1..0} = {} OBVIOUS
  <2>8. Migrated(states, 0)' BY <2>1, <2>4, <2>5, <2>6, <2>7 DEF Migrated
  <2> QED BY <2>1, <2>8
<1>5. ASSUME phase \in {"built", "migrating", "running"}, UNCHANGED <<migrate, schema>>,
             phase' \in {"built", "migrating", "running"},
             ASSUME Regular, NEW states, NEW m, Migrated(states, m)
             PROVE  \E k : Migrated(states, k)'
      PROVE  FileInv'
  <2> SUFFICES ASSUME Regular' PROVE \E states, k : Migrated(states, k)'
    BY <1>5
  <2>1. Regular BY <1>1, <1>5
  <2>2. PICK states, m : Migrated(states, m) BY <1>5, <2>1
  <2>3. \E k : Migrated(states, k)' BY <1>5, <2>1, <2>2
  <2> QED BY <2>3
<1>6. CASE StartMigrate
  <2>1. /\ phase = "built" /\ phase' = "migrating" /\ at' = 1
        /\ UNCHANGED <<migrate, schema, recorded, refused>>
    BY <1>6 DEF StartMigrate
  <2>2. ASSUME Regular, NEW states, NEW m, Migrated(states, m) PROVE Migrated(states, m)'
    <3>1. m \in Nat BY <2>2 DEF Migrated
    <3>2. tables' = InFile(states[m])
      <4>1. CASE tables = InFile(states[m])
        <5>1. MigrationsTable \in DOMAIN tables BY <4>1 DEF InFile
        <5> QED BY <1>6, <4>1, <5>1 DEF StartMigrate
      <4>2. CASE tables = <<>> /\ m = 0
        <5>1. states[m] = <<>> BY <2>2, <4>2 DEF Migrated, Made, Ran
        <5>2. DOMAIN tables = {} BY <4>2
        <5>3. tables' = InFile(tables) BY <1>6, <5>2 DEF StartMigrate, InFile
        <5> QED BY <4>2, <5>1, <5>3
      <4> QED BY <2>2, <4>1, <4>2 DEF Migrated
    <3>3. at' \in 1..(m + 1) BY <2>1, <3>1
    <3>4. Pieces' = Pieces /\ \A k : Made(states, k)' = Made(states, k) BY <1>1, <2>1
    <3>5. PICK n : n = Len(migrate.statements) OBVIOUS
    <3>6. n = Len(migrate'.statements) BY <2>1, <3>5
    <3>7. Made(states, n)' /\ m \in 0..n BY <2>2, <3>4, <3>5 DEF Migrated
    <3> QED BY <2>1, <2>2, <3>2, <3>3, <3>4, <3>5, <3>6, <3>7 DEF Migrated
  <2> QED BY <1>5, <2>1, <2>2
<1>7. CASE MigrateStops
  <2>1. /\ phase = "migrating" /\ phase' = "built"
        /\ UNCHANGED <<migrate, schema, tables, recorded, refused>>
    BY <1>7 DEF MigrateStops, Stop, fileVars
  <2>2. ASSUME Regular, NEW states, NEW m, Migrated(states, m) PROVE Migrated(states, m)'
    <3>1. Pieces' = Pieces /\ \A k : Made(states, k)' = Made(states, k) BY <1>1, <2>1
    <3>2. PICK n : n = Len(migrate.statements) OBVIOUS
    <3>3. n = Len(migrate'.statements) BY <2>1, <3>2
    <3>4. Made(states, n)' /\ m \in 0..n BY <2>2, <3>1, <3>2 DEF Migrated
    <3> QED BY <2>1, <2>2, <3>1, <3>3, <3>4 DEF Migrated
  <2> QED BY <1>5, <2>1, <2>2
<1>8. CASE MigrateReturns
  <2>1. /\ phase = "migrating" /\ phase' = "running" /\ at > Len(Pieces)
        /\ UNCHANGED <<migrate, schema, tables, recorded, refused>>
    BY <1>8 DEF MigrateReturns, fileVars
  <2>2. ASSUME Regular, NEW states, NEW m, Migrated(states, m) PROVE Migrated(states, m)'
    <3>1. Pieces' = Pieces /\ \A k : Made(states, k)' = Made(states, k) BY <1>1, <2>1
    <3>2. PICK n : n = Len(migrate.statements) OBVIOUS
    <3>3. n = Len(migrate'.statements) BY <2>1, <3>2
    <3>4. Made(states, n)' /\ m \in 0..n BY <2>2, <3>1, <3>2 DEF Migrated
    <3>5. n \in Nat /\ Len(Pieces) = n BY <2>2, <3>2, PiecesAre DEF IInv
    <3>6. at \in 1..(m + 1) BY <2>1, <2>2 DEF Migrated
    <3>7. m = n BY <2>1, <3>4, <3>5, <3>6
    <3>8. tables = InFile(states[m]) BY <2>1, <2>2 DEF Migrated
    <3> QED BY <2>1, <2>2, <3>1, <3>3, <3>4, <3>7, <3>8 DEF Migrated
  <2> QED BY <1>5, <2>1, <2>2
<1>9. CASE MigratePiece
  <2>1. phase = "migrating" /\ at \in DOMAIN Pieces /\ UNCHANGED <<migrate, schema>>
        /\ phase' \in {"built", "migrating"}
    BY <1>9 DEF MigratePiece
  <2>2. ASSUME Regular, NEW states, NEW m, Migrated(states, m)
        PROVE  \E k : Migrated(states, k)'
    <3>1. Pieces' = Pieces /\ \A k : Made(states, k)' = Made(states, k) BY <1>1, <2>1
    <3>2. PICK n : n = Len(migrate.statements) OBVIOUS
    <3>3. n = Len(migrate'.statements) /\ n \in Nat BY <2>1, <3>2 DEF IInv
    <3>4. Made(states, n)' /\ m \in 0..n BY <2>2, <3>1, <3>2 DEF Migrated
    <3>5. at \in 1..(m + 1) /\ at \in 1..n BY <2>1, <2>2, <3>2, PiecesAre DEF Migrated
    <3>6. \A i, j \in 1..n : Pieces[i].text = Pieces[j].text => i = j
      BY <2>2, <3>2, PiecesAre DEF Regular
    <3>7. refused = {} /\ recorded = {Pieces[i].text : i \in 1..m} /\ tables = InFile(states[m])
      BY <2>1, <2>2 DEF Migrated
    <3> DEFINE text == Pieces[at].text
    <3>8. CASE at <= m
      <4>1. text \in recorded
        <5>1. at \in 1..m BY <3>4, <3>5, <3>8
        <5> QED BY <3>7, <5>1
      <4>2. at' = at + 1 /\ recorded' = recorded /\ UNCHANGED <<phase, tables, refused>>
        BY <1>9, <4>1 DEF MigratePiece
      <4>3. at' \in 1..(m + 1) BY <3>4, <3>5, <3>8, <4>2
      <4>4. Migrated(states, m)' BY <2>1, <3>1, <3>3, <3>4, <3>7, <4>2, <4>3 DEF Migrated
      <4> QED BY <4>4
    <3>9. CASE at = m + 1
      <4> PICK stmt : stmt = migrate.statements[at] OBVIOUS
      <4>1. Pieces[at].stmt = stmt /\ Pieces[at].whole BY <2>2, <3>2, <3>5, PiecesAre
      <4>2. text \notin recorded
        <5> SUFFICES ASSUME NEW i \in 1..m, text = Pieces[i].text PROVE FALSE
          BY <3>7
        <5>1. i \in 1..n BY <3>3, <3>4
        <5>2. i = at BY <3>5, <3>6, <5>1
        <5> QED BY <3>4, <3>9, <5>2
      <4>3. /\ Accepts(stmt, states[m]) /\ states[m + 1] = After(stmt, states[m])
            /\ MigrationsTable \notin DOMAIN states[m]
        <5>1. LeavesMigrations BY <2>2, PiecesAre
        <5>2. m \in 0..n /\ m + 1 \in 1..n /\ (m + 1) - 1 = m BY <3>3, <3>4, <3>5, <3>9
        <5>3. Made(states, n) BY <2>2, <3>2 DEF Migrated
        <5> QED BY <3>9, <5>1, <5>2, <5>3 DEF Made, Ran
      <4>4. stmt.op \in Ddl /\ (stmt.op = "create" => stmt.table # MigrationsTable)
        <5>1. stmt \in Range(migrate.statements) BY <3>2, <3>5 DEF IInv, Range
        <5>2. LeavesMigrations BY <2>2, PiecesAre
        <5> QED BY <5>1, <5>2 DEF IInv, is_ddl, LeavesMigrations
      <4>5. Accepts(stmt, tables) /\ After(stmt, tables) = InFile(states[m + 1])
        BY <3>7, <4>3, <4>4, FileFollows
      <4>6. /\ at' = at + 1 /\ recorded' = recorded \cup {text} /\ tables' = InFile(states[m + 1])
            /\ UNCHANGED <<phase, refused>>
        BY <1>9, <4>1, <4>2, <4>5 DEF MigratePiece
      <4>7. at' \in 1..((m + 1) + 1) /\ m + 1 \in 0..n BY <3>3, <3>4, <3>5, <3>9, <4>6
      <4>8. recorded' = {Pieces[i].text : i \in 1..(m + 1)}
        <5>1. 1..(m + 1) = 1..m \cup {m + 1} BY <3>4
        <5>2. text = Pieces[m + 1].text BY <3>9
        <5> HIDE DEF text
        <5> QED BY <3>7, <4>6, <5>1, <5>2
      <4>9. Migrated(states, m + 1)' BY <2>1, <3>1, <3>3, <3>4, <3>7, <4>6, <4>7, <4>8 DEF Migrated
      <4> QED BY <4>9
    <3> QED BY <3>4, <3>5, <3>8, <3>9
  <2> QED BY <1>5, <2>1, <2>2
<1>10. CASE Call \/ UNCHANGED vars
  <2>1. UNCHANGED <<phase, at, migrate, schema, tables, recorded, refused>>
    BY <1>10 DEF Call, vars, macroVars, fileVars
  <2>2. ASSUME Regular, NEW states, NEW m, Migrated(states, m) PROVE Migrated(states, m)'
    <3>1. Pieces' = Pieces /\ \A k : Made(states, k)' = Made(states, k) BY <1>1, <2>1
    <3>2. PICK n : n = Len(migrate.statements) OBVIOUS
    <3>3. n = Len(migrate'.statements) BY <2>1, <3>2
    <3>4. Made(states, n)' /\ m \in 0..n BY <2>2, <3>1, <3>2 DEF Migrated
    <3> QED BY <2>1, <2>2, <3>1, <3>2, <3>3, <3>4 DEF Migrated
  <2> QED BY <1>5, <2>1, <2>2
<1> QED BY <1>2, <1>3, <1>4, <1>6, <1>7, <1>8, <1>9, <1>10 DEF Next

(* Whatever the script, and wherever calls of migrate stop: a regular one  *)
(* makes the tables the functions were generated from, and none of its     *)
(* statements fails on the way.  (Macro expand_sql, which splits the text  *)
(* and generates migrate, and structs_tokens.)                             *)
THEOREM MigrateMakes == Spec => []MigrateMakesTheSchema
<1> DEFINE I == IInv /\ SchemaInv /\ ScriptInv /\ FileInv
<1>1. GCInit => I BY InitIInv, InitSchemaInv, InitScriptInv, InitFileInv
<1>2. I /\ [Next]_vars => I' BY NextIInv, NextSchemaInv, NextScriptInv, NextFileInv
<1>3. I => MigrateMakesTheSchema
  <2> SUFFICES ASSUME I, Regular PROVE refused = {} /\ (phase = "running" => IsSchema)
    BY DEF MigrateMakesTheSchema
  <2>1. CASE phase \in {"built", "migrating", "running"}
    <3>1. PICK states, m : Migrated(states, m) BY <2>1 DEF FileInv
    <3>2. phase = "running" => tables = InFile(schema) BY <3>1 DEF Migrated, Made
    <3> QED BY <3>1, <3>2 DEF Migrated, IsSchema, InFile
  <2>2. CASE phase \notin {"built", "migrating", "running"}
    BY <2>2 DEF FileInv
  <2> QED BY <2>1, <2>2
<1> QED BY <1>1, <1>2, <1>3, PTL DEF Spec
-----------------------------------------------------------------------------
(* FlattenSeq of one sequence is that sequence.                            *)
LEMMA FlattenOne ==
  ASSUME NEW ss, Len(ss) = 1
  PROVE  FlattenSeq(ss) = ss[1]
<1>1. PICK f : IsFlattening(f, ss) BY FlatteningExists
<1> QED BY <1>1 DEF IsFlattening

(* The labels of what FlattenSeq puts together are the labels it puts      *)
(* together.                                                               *)
LabelsOf(s) == [k \in DOMAIN s |-> s[k].label]
(* The labels of a concatenation.                                          *)
LEMMA ConcatLabels ==
  ASSUME NEW S, NEW a \in Seq(S), NEW b \in Seq(S)
  PROVE  LabelsOf(a) \o LabelsOf(b) = LabelsOf(a \o b)
<1> DEFINE T == {s.label : s \in S}
<1>1. \A s \in Seq(S) : /\ DOMAIN s = 1..Len(s) /\ Len(s) \in Nat
                        /\ \A k \in 1..Len(s) : s[k].label \in T
  OBVIOUS
<1> HIDE DEF T
<1>2. ASSUME NEW s \in Seq(S)
      PROVE  /\ LabelsOf(s) \in Seq(T) /\ Len(LabelsOf(s)) = Len(s)
             /\ \A k \in 1..Len(s) : LabelsOf(s)[k] = s[k].label
  <2>1. LabelsOf(s) = [k \in 1..Len(s) |-> s[k].label] BY <1>1 DEF LabelsOf
  <2>2. Len(s) \in Nat /\ \A k \in 1..Len(s) : s[k].label \in T BY <1>1
  <2> QED BY <2>1, <2>2
<1> DEFINE c == a \o b
           d == LabelsOf(a) \o LabelsOf(b)
<1>3. /\ c \in Seq(S) /\ Len(c) = Len(a) + Len(b) /\ Len(a) \in Nat /\ Len(b) \in Nat
      /\ \A k \in 1..Len(c) : c[k] = IF k <= Len(a) THEN a[k] ELSE b[k - Len(a)]
  OBVIOUS
<1>4. LabelsOf(a) \in Seq(T) /\ LabelsOf(b) \in Seq(T)
      /\ Len(LabelsOf(a)) = Len(a) /\ Len(LabelsOf(b)) = Len(b)
  BY <1>2
<1>5. /\ d \in Seq(T) /\ Len(d) = Len(a) + Len(b)
      /\ \A k \in 1..Len(d) : d[k] = IF k <= Len(a) THEN LabelsOf(a)[k] ELSE LabelsOf(b)[k - Len(a)]
  <2> PICK la : la = LabelsOf(a) OBVIOUS
  <2> PICK lb : lb = LabelsOf(b) OBVIOUS
  <2>1. la \in Seq(T) /\ lb \in Seq(T) /\ Len(la) = Len(a) /\ Len(lb) = Len(b) BY <1>4
  <2>2. d = la \o lb OBVIOUS
  <2> HIDE DEF c, d
  <2> QED BY <2>1, <2>2
<1> HIDE DEF c, d
<1>6. ASSUME NEW k \in 1..Len(c) PROVE d[k] = LabelsOf(c)[k]
  <2>1. LabelsOf(c)[k] = c[k].label BY <1>2, <1>3
  <2>2. CASE k <= Len(a)
    <3>1. d[k] = LabelsOf(a)[k] /\ k \in 1..Len(a) BY <1>3, <1>5, <2>2
    <3> QED BY <1>2, <1>3, <2>1, <2>2, <3>1
  <2>3. CASE ~(k <= Len(a))
    <3>1. d[k] = LabelsOf(b)[k - Len(a)] /\ k - Len(a) \in 1..Len(b) BY <1>3, <1>5, <2>3
    <3> QED BY <1>2, <1>3, <2>1, <2>3, <3>1
  <2> QED BY <2>2, <2>3
<1>7. LabelsOf(c) \in Seq(T) /\ Len(LabelsOf(c)) = Len(c) BY <1>2, <1>3
<1>8. d = LabelsOf(c) BY <1>3, <1>5, <1>6, <1>7
<1> QED BY <1>8 DEF c, d

LEMMA FlattenLabels ==
  ASSUME NEW S, NEW ss \in Seq(Seq(S)), NEW ls, IsSeq(ls), DOMAIN ls = DOMAIN ss,
         \A n \in DOMAIN ss : ls[n] = LabelsOf(ss[n])
  PROVE  FlattenSeq(ls) = LabelsOf(FlattenSeq(ss))
<1>1. DOMAIN ss = 1..Len(ss) /\ Len(ss) \in Nat /\ \A n \in 1..Len(ss) : ss[n] \in Seq(S) OBVIOUS
<1>2. DOMAIN ls = 1..Len(ls) /\ Len(ls) \in Nat BY DEF IsSeq
<1>3. Len(ls) = Len(ss) BY <1>1, <1>2
<1>4. CASE ss = <<>>
  <2>1. ls = <<>>
    <3>1. ls \in Seq(Range(ls)) /\ Len(ls) = 0 BY <1>3, <1>4 DEF IsSeq
    <3> QED BY <3>1
  <2>2. FlattenSeq(<<>>) = <<>> BY DEF FlattenSeq
  <2>3. LabelsOf(<<>>) = <<>> BY DEF LabelsOf
  <2> QED BY <1>4, <2>1, <2>2, <2>3
<1>5. CASE ss # <<>>
  <2>1. Len(ss) \in Nat \ {0} BY <1>1, <1>5
  <2>2. PICK f : IsFlattening(f, ss) BY <2>1, FlatteningExists
  <2>3. PICK g : IsFlattening(g, ls) BY <1>3, <2>1, FlatteningExists
  <2> DEFINE D == {n \in Nat : n \in 1..Len(ss) => f[n] \in Seq(S) /\ g[n] = LabelsOf(f[n])}
  <2>4. 0 \in D OBVIOUS
  <2>5. ASSUME NEW n \in D PROVE n + 1 \in D
    <3> SUFFICES ASSUME n + 1 \in 1..Len(ss)
                 PROVE  f[n + 1] \in Seq(S) /\ g[n + 1] = LabelsOf(f[n + 1])
      OBVIOUS
    <3>1. CASE n = 0
      <4>1. f[n + 1] = ss[1] /\ g[n + 1] = ls[1] /\ 1 \in 1..Len(ss)
        BY <2>2, <2>3, <3>1 DEF IsFlattening
      <4> QED BY <1>1, <4>1
    <3>2. CASE n # 0
      <4>1. n \in 1..(Len(ss) - 1) /\ n \in 1..Len(ss) BY <1>1, <3>2
      <4>2. f[n + 1] = f[n] \o ss[n + 1] /\ g[n + 1] = g[n] \o ls[n + 1]
        BY <1>3, <2>2, <2>3, <4>1 DEF IsFlattening
      <4>3. f[n] \in Seq(S) /\ g[n] = LabelsOf(f[n]) BY <4>1
      <4>4. ss[n + 1] \in Seq(S) /\ ls[n + 1] = LabelsOf(ss[n + 1]) BY <1>1
      <4>5. f[n] \o ss[n + 1] \in Seq(S) BY <4>3, <4>4
      <4>6. LabelsOf(f[n]) \o LabelsOf(ss[n + 1]) = LabelsOf(f[n] \o ss[n + 1])
        BY <4>3, <4>4, ConcatLabels
      <4> QED BY <4>2, <4>3, <4>4, <4>5, <4>6
    <3> QED BY <3>1, <3>2
  <2> HIDE DEF D
  <2>6. D = Nat BY <2>4, <2>5, SetInduction DEF D
  <2>7. g[Len(ss)] = LabelsOf(f[Len(ss)])
    <3>1. Len(ss) \in D /\ Len(ss) \in 1..Len(ss) BY <2>1, <2>6
    <3> QED BY <3>1 DEF D
  <2> QED BY <1>3, <2>2, <2>3, <2>7 DEF IsFlattening
<1> QED BY <1>4, <1>5

(* FlattenSeq of sequences of at most one element, no two of which share   *)
(* it, repeats no element.                                                 *)
LEMMA FlattenDistinct ==
  ASSUME NEW S, NEW ss \in Seq(Seq(S)), \A i \in DOMAIN ss : Len(ss[i]) <= 1,
         \A i, j \in DOMAIN ss : i # j => Range(ss[i]) \cap Range(ss[j]) = {}
  PROVE  IsInjective(FlattenSeq(ss))
<1>0. DOMAIN ss = 1..Len(ss) /\ \A i \in 1..Len(ss) : ss[i] \in Seq(S) /\ Len(ss[i]) <= 1 OBVIOUS
<1>1. CASE ss = <<>>
  <2>1. FlattenSeq(ss) = <<>> BY <1>1 DEF FlattenSeq
  <2> QED BY <2>1 DEF IsInjective
<1>2. CASE ss # <<>>
  <2> DEFINE Of(n) == UNION {Range(ss[k]) : k \in 1..n}
             G == {p \in Nat \X Seq(S) : IsInjective(p[2]) /\ Range(p[2]) \subseteq Of(p[1])}
  <2>1. <<1, ss[1]>> \in G
    <3>1. ss[1] \in Seq(S) /\ Len(ss[1]) <= 1 BY <1>0, <1>2
    <3>2. DOMAIN ss[1] = 1..Len(ss[1]) /\ Len(ss[1]) \in Nat BY <3>1
    <3>3. IsInjective(ss[1]) BY <3>1, <3>2 DEF IsInjective
    <3>4. 1..1 = {1} OBVIOUS
    <3>5. Of(1) = Range(ss[1]) BY <3>4
    <3> HIDE DEF Of
    <3> QED BY <3>1, <3>3, <3>5
  <2>2. ASSUME NEW n \in 1..(Len(ss) - 1), NEW s \in Seq(S), <<n, s>> \in G
        PROVE  <<n + 1, s \o ss[n + 1]>> \in G
    <3> PICK e : e = ss[n + 1] OBVIOUS
    <3>1. n \in Nat /\ n + 1 \in 1..Len(ss) /\ e \in Seq(S) /\ Len(e) <= 1 BY <1>0
    <3>2. s \o e \in Seq(S) /\ Range(s \o e) = Range(s) \cup Range(e) BY <3>1, RangeConcat
    <3>3. 1..(n + 1) = 1..n \cup {n + 1} BY <3>1
    <3>4. Of(n + 1) = Of(n) \cup Range(e) BY <3>3
    <3>5. IsInjective(s) /\ Range(s) \subseteq Of(n) BY <2>2
    <3>6. Of(n) \cap Range(e) = {}
      <4> SUFFICES ASSUME NEW k \in 1..n PROVE Range(ss[k]) \cap Range(e) = {}
        OBVIOUS
      <4>1. k \in 1..Len(ss) /\ k # n + 1 BY <3>1
      <4> QED BY <1>0, <3>1, <4>1
    <3> HIDE DEF Of
    <3>7. IsInjective(s \o e)
      <4>1. DOMAIN s = 1..Len(s) /\ DOMAIN e = 1..Len(e) /\ Len(s) \in Nat /\ Len(e) \in Nat
            /\ DOMAIN (s \o e) = 1..(Len(s) + Len(e))
            /\ \A k \in 1..(Len(s) + Len(e)) :
                 (s \o e)[k] = IF k <= Len(s) THEN s[k] ELSE e[k - Len(s)]
        BY <3>1
      <4> PICK c : c = s \o e OBVIOUS
      <4>2. ASSUME NEW k \in DOMAIN c
            PROVE  \/ k \in 1..Len(s) /\ c[k] = s[k] /\ c[k] \in Range(s)
                   \/ k = Len(s) + 1 /\ c[k] \in Range(e)
        <5>1. CASE k <= Len(s)
          <6>1. k \in 1..Len(s) BY <4>1, <5>1
          <6> QED BY <4>1, <5>1, <6>1 DEF Range
        <5>2. CASE ~(k <= Len(s))
          <6>1. k - Len(s) \in 1..Len(e) BY <4>1, <5>2
          <6>2. k = Len(s) + 1 BY <3>1, <4>1, <6>1
          <6> QED BY <4>1, <5>2, <6>1, <6>2 DEF Range
        <5> QED BY <5>1, <5>2
      <4>3. ASSUME NEW j \in DOMAIN c, NEW k \in DOMAIN c, c[j] = c[k] PROVE j = k
        <5>1. Range(s) \cap Range(e) = {} BY <3>5, <3>6
        <5> QED BY <3>5, <4>1, <4>2, <4>3, <5>1 DEF IsInjective
      <4> QED BY <4>3 DEF IsInjective
    <3>8. n + 1 \in Nat /\ Range(s \o e) \subseteq Of(n + 1) BY <3>1, <3>2, <3>4, <3>5
    <3> QED BY <3>2, <3>7, <3>8
  <2> HIDE DEF Of
  <2>3. G \in SUBSET (Nat \X Seq(S)) OBVIOUS
  <2> HIDE DEF G
  <2>4. <<Len(ss), FlattenSeq(ss)>> \in G BY <1>2, <2>1, <2>2, <2>3, FlattenInduction
  <2> QED BY <2>4 DEF G
<1> QED BY <1>1, <1>2

-----------------------------------------------------------------------------
(* A plain expression over tables with supported columns: the rows that    *)
(* type it are those of its one table, a label of it is typed by a column  *)
(* of its name, and SQLite names its columns as its list does.             *)
AllSupported == \A t \in DOMAIN schema : \A row \in Range(schema[t]) : Supported(row)
PlainIn(expr) == expr \in Range(rest) /\ Plain(expr)
TableOf(expr) == expr.statements[1].relations[1].table

LEMMA PlainIs ==
  ASSUME IInv, SchemaInv, LetsInv, NEW expr, PlainIn(expr)
  PROVE  /\ IsSeq(expr.statements) /\ DOMAIN expr.statements = {1}
         /\ Range(expr.statements) = {expr.statements[1]}
         /\ Runs(expr.statements[1]) /\ DOMAIN expr.statements[1].relations = {1}
         /\ TableOf(expr) \in DOMAIN schema /\ IsSeq(schema[TableOf(expr)])
<1> DEFINE first == expr.statements[1]
<1>1. expr \in Range(program) /\ program \in Programs BY DEF PlainIn, LetsInv, IInv
<1>2. IsSeq(expr.statements) /\ \A stmt \in Range(expr.statements) : WellFormed(stmt)
  BY <1>1, ProgramsAssumption
<1>3. 1..1 = {1} OBVIOUS
<1>4. DOMAIN expr.statements = {1} BY <1>2, <1>3 DEF IsSeq, PlainIn, Plain
<1>5. Range(expr.statements) = {first} BY <1>4 DEF Range
<1>6. Runs(first) BY <1>2, <1>5 DEF Runs, PlainIn, Plain
<1>7. Len(first.relations) = 1 BY DEF PlainIn, Plain
<1> HIDE DEF first
<1>8. IsSeq(first.relations) BY <1>6 DEF Runs, WellFormed
<1>9. DOMAIN first.relations = {1} BY <1>3, <1>7, <1>8 DEF IsSeq
<1>10. first.relations[1] \in Range(first.relations) BY <1>9 DEF Range
<1>11. first.relations[1].table \in DOMAIN schema BY <1>6, <1>10 DEF Runs, Prepares
<1> QED BY <1>2, <1>4, <1>5, <1>6, <1>9, <1>11 DEF TableOf, SchemaInv, first

LEMMA PlainRows ==
  ASSUME IInv, SchemaInv, LetsInv, NEW expr, PlainIn(expr)
  PROVE  IsSeq(TypingRows(expr)) /\ Range(TypingRows(expr)) = Range(schema[TableOf(expr)])
<1> DEFINE first == expr.statements[1]
           t == TableOf(expr)
           named == [i \in DOMAIN expr.statements |->
                       IF expr.statements[i].op = "select" THEN Origins(first)
                       ELSE Mentioned(expr.statements[i])]
           joined == [i \in DOMAIN expr.statements |-> Mentioned(expr.statements[i])]
<1>1. /\ DOMAIN expr.statements = {1} /\ Runs(first) /\ DOMAIN first.relations = {1}
      /\ t \in DOMAIN schema /\ IsSeq(schema[t])
  BY PlainIs
<1>2. 1..1 = {1} OBVIOUS
<1>3. {r.table : r \in Range(first.relations)} = {t} BY <1>1 DEF TableOf, Range
<1>4. IsSeq(named) /\ Len(named) = 1 /\ IsSeq(joined) /\ Len(joined) = 1
  <2>1. DOMAIN named = 1..1 /\ named = [i \in 1..1 |-> named[i]] BY <1>1, <1>2
  <2>2. DOMAIN joined = 1..1 /\ joined = [i \in 1..1 |-> joined[i]] BY <1>1, <1>2
  <2> HIDE DEF named, joined
  <2> QED BY <2>1, <2>2, IsSeqFunction
<1>5. IsSeq(named[1]) /\ Range(named[1]) \subseteq {t}
  <2>1. named[1] = IF first.op = "select" THEN Origins(first) ELSE Mentioned(first) BY <1>1
  <2> HIDE DEF named, first, t
  <2> QED BY <1>1, <1>3, <2>1, OriginsAre, MentionedIs DEF Runs
<1>6. IsSeq(joined[1]) /\ Range(joined[1]) = {t}
  <2>1. joined[1] = Mentioned(first) BY <1>1
  <2> HIDE DEF joined, first, t
  <2> QED BY <1>1, <1>3, <2>1, MentionedIs DEF Runs
<1>7. table_names(expr) = named[1]
  <2>1. table_names(expr) = FlattenSeq(named) BY DEF table_names
  <2> HIDE DEF named
  <2> QED BY <1>4, <2>1, FlattenOne
<1>8. join_table_names(expr) = joined[1]
  <2>1. join_table_names(expr) = FlattenSeq(joined) BY DEF join_table_names
  <2> HIDE DEF joined
  <2> QED BY <1>4, <2>1, FlattenOne
<1> DEFINE names == table_names(expr) \o join_table_names(expr)
           ss == [i \in DOMAIN names |-> IF names[i] \in DOMAIN schema THEN schema[names[i]] ELSE <<>>]
<1> HIDE DEF named, joined, first, t
<1>9. IsSeq(names) /\ Range(names) = {t}
  <2>1. /\ IsSeq(table_names(expr)) /\ Range(table_names(expr)) \subseteq {t}
        /\ IsSeq(join_table_names(expr)) /\ Range(join_table_names(expr)) = {t}
    BY <1>5, <1>6, <1>7, <1>8
  <2> QED BY <2>1, IsSeqConcat
<1>10. TypingRows(expr) = FlattenSeq(ss) BY DEF TypingRows
<1> HIDE DEF names
<1>11. DOMAIN names = 1..Len(names) /\ Len(names) \in Nat BY <1>9 DEF IsSeq
<1>12. IsSeq(ss) BY <1>11, IsSeqFunction
<1>13. ASSUME NEW i \in DOMAIN names PROVE ss[i] = schema[t]
  <2>1. names[i] = t BY <1>9 DEF Range
  <2> QED BY <1>1, <2>1 DEF t
<1>14. DOMAIN ss = DOMAIN names /\ DOMAIN names # {} BY <1>9 DEF Range
<1> HIDE DEF ss
<1>15. \A i \in DOMAIN ss : IsSeq(ss[i]) BY <1>1, <1>13, <1>14 DEF t
<1>16. /\ IsSeq(FlattenSeq(ss)) /\ Range(FlattenSeq(ss)) = UNION {Range(ss[i]) : i \in DOMAIN ss}
  BY <1>12, <1>15, Flattened
<1>17. UNION {Range(ss[i]) : i \in DOMAIN ss} = Range(schema[t]) BY <1>13, <1>14
<1> QED BY <1>10, <1>16, <1>17 DEF t

LEMMA PlainToken ==
  ASSUME IInv, SchemaInv, LetsInv, AllSupported, NEW expr, PlainIn(expr),
         NEW label \in ColumnsOf(TableOf(expr))
  PROVE  LET token == parse_type_hinted_column_name(label, TypingRows(expr))
         IN /\ Typed(label, TypingRows(expr)) /\ token.name = label /\ token.label = label
            /\ \E row \in Range(schema[TableOf(expr)]) : token = FromSchemaRow(row)
<1> PICK rows : rows = TypingRows(expr) OBVIOUS
<1> PICK t : t = TableOf(expr) OBVIOUS
<1> DEFINE token == parse_type_hinted_column_name(label, rows)
           I == {i \in 1..Len(rows) : rows[i].column_name = label}
<1>1. IsSeq(rows) /\ Range(rows) = Range(schema[t]) BY PlainRows
<1>2. t \in DOMAIN schema BY PlainIs
<1>3. PICK row \in Range(rows) : row.column_name = label BY <1>1 DEF ColumnsOf
<1>4. Len(label) = 1 BY <1>1, <1>2, <1>3 DEF AllSupported, Supported
<1>5. DOMAIN rows = 1..Len(rows) /\ Len(rows) \in Nat BY <1>1 DEF IsSeq
<1>6. I # {} /\ I \in SUBSET Nat BY <1>3, <1>5 DEF Range
<1>7. Min(I) \in I BY <1>6, MinIn
<1>8. token = FromSchemaRow(rows[Min(I)])
  BY <1>4, <1>6 DEF parse_type_hinted_column_name, SelectInSeq
<1> HIDE DEF I
<1>9. Min(I) \in DOMAIN rows /\ rows[Min(I)].column_name = label BY <1>5, <1>7 DEF I
<1> PICK own : own = rows[Min(I)] OBVIOUS
<1>10. own \in Range(rows) BY <1>9 DEF Range
<1>11. Supported(own) BY <1>1, <1>2, <1>10 DEF AllSupported
<1>12. HasField(token) BY <1>8, <1>11 DEF HasField, FromSchemaRow, Supported
<1>13. HasToken(label, rows) BY <1>3, <1>4 DEF HasToken
<1>14. token.name = label /\ token.label = label BY <1>8, <1>9 DEF FromSchemaRow
<1> QED BY <1>1, <1>8, <1>10, <1>12, <1>13, <1>14 DEF Typed

(* The list of the From impl of a plain expression has the labels of its   *)
(* columns, each the name of a column of the table.                        *)
LEMMA PlainLabels ==
  ASSUME IInv, SchemaInv, LetsInv, NEW expr, PlainIn(expr)
  PROVE  LET first == expr.statements[1] IN
         /\ Labels(first) = Listed(first) /\ IsSeq(Labels(first))
         /\ Range(Labels(first)) \subseteq ColumnsOf(TableOf(expr))
<1> DEFINE first == expr.statements[1]
           t == TableOf(expr)
           part(n) ==
             LET item == first.items[n] IN
             CASE item.form = "star" -> FlattenSeq([i \in DOMAIN first.relations |-> Star(first, i)])
               [] item.form = "tablestar" -> Star(first, item.relation)
               [] OTHER -> << [label |-> IF item.alias = <<>> THEN item.column ELSE item.alias,
                               relation |-> item.relation, column |-> item.column] >>
           parts == [n \in DOMAIN first.items |-> part(n)]
           of(u) == [k \in DOMAIN schema[u] |-> schema[u][k].column_name]
           list(n) ==
             LET item == first.items[n] IN
             CASE item.form = "ident" -> <<item.column>>
               [] item.form = "star" -> of(first.relations[1].table)
               [] item.form = "tablestar" -> of(first.relations[item.relation].table)
           lists == [n \in DOMAIN first.items |-> list(n)]
<1>1. /\ Runs(first) /\ DOMAIN first.relations = {1} /\ t \in DOMAIN schema /\ IsSeq(schema[t])
      /\ first.relations[1].table = t
  BY PlainIs DEF TableOf
<1>2. Outputs(first) = FlattenSeq(parts) /\ Listed(first) = FlattenSeq(lists)
  BY DEF Outputs, Listed
<1>3. ASSUME NEW n \in DOMAIN first.items
      PROVE  /\ IsSeq(part(n)) /\ list(n) = LabelsOf(part(n))
             /\ \A o \in Range(part(n)) : o.label \in ColumnsOf(t)
  <2> DEFINE item == first.items[n]
  <2>1. item \in Range(first.items) BY DEF Range
  <2>2. item.form \in {"ident", "star"} /\ item.alias = <<>> BY <2>1 DEF PlainIn, Plain
  <2>3. CASE item.form = "star"
    <3> DEFINE stars == [i \in DOMAIN first.relations |-> Star(first, i)]
    <3>1. DOMAIN stars = 1..1 /\ stars[1] = Star(first, 1) /\ part(n) = FlattenSeq(stars)
      BY <1>1, <2>3
    <3>2. stars = [i \in 1..1 |-> stars[i]] BY <3>1
    <3>3. list(n) = of(t) BY <1>1, <2>3
    <3> HIDE DEF stars, part, list
    <3>4. Len(stars) = 1 BY <3>1, <3>2, IsSeqFunction
    <3>5. part(n) = Star(first, 1) BY <3>1, <3>4, FlattenOne
    <3>6. IsSeq(Star(first, 1)) BY <1>1, StarIs
    <3>7. Star(first, 1) = [k \in DOMAIN schema[t] |->
            [label |-> schema[t][k].column_name, relation |-> 1, column |-> schema[t][k].column_name]]
      BY <1>1 DEF Star
    <3>8. of(t) = LabelsOf(Star(first, 1)) BY <3>7 DEF LabelsOf
    <3>9. \A o \in Range(Star(first, 1)) : o.label \in ColumnsOf(t)
      BY <3>7 DEF Range, ColumnsOf
    <3> QED BY <3>3, <3>5, <3>6, <3>8, <3>9
  <2>4. CASE item.form = "ident"
    <3> DEFINE o == [label |-> item.column, relation |-> item.relation, column |-> item.column]
    <3>1. part(n) = <<o>> /\ list(n) = <<item.column>> BY <2>2, <2>4
    <3>2. item.relation = 1 BY <1>1, <2>1, <2>4 DEF Runs, WellFormed
    <3>3. item.column \in Columns(first.relations[1]) BY <2>1, <2>4, <3>2, <1>1 DEF Runs, Prepares
    <3>4. item.column \in ColumnsOf(t) BY <1>1, <3>3 DEF Columns, ColumnsOf
    <3>5. LabelsOf(<<o>>) = <<item.column>> BY DEF LabelsOf
    <3>6. o.label = item.column OBVIOUS
    <3> HIDE DEF o, part, list, item
    <3> QED BY <3>1, <3>4, <3>5, <3>6, IsSeqSingle
  <2> QED BY <2>2, <2>3, <2>4
<1>4. DOMAIN first.items = 1..Len(first.items) /\ Len(first.items) \in Nat
  BY <1>1 DEF Runs, WellFormed, IsSeq
<1>5. /\ DOMAIN parts = DOMAIN first.items /\ DOMAIN lists = DOMAIN first.items
      /\ \A n \in DOMAIN first.items : parts[n] = part(n) /\ lists[n] = list(n)
  OBVIOUS
<1> HIDE DEF part, list, first, t
<1>6. IsSeq(parts) /\ IsSeq(lists) BY <1>4, IsSeqFunction
<1> HIDE DEF parts, lists
<1>7. \A n \in DOMAIN parts : IsSeq(parts[n]) BY <1>3, <1>5
<1>8. PICK S : parts \in Seq(Seq(S)) BY <1>6, <1>7, InSeqSeq
<1>9. FlattenSeq(lists) = LabelsOf(FlattenSeq(parts)) BY <1>3, <1>5, <1>6, <1>8, FlattenLabels
<1>10. Labels(first) = LabelsOf(Outputs(first)) BY DEF Labels, LabelsOf
<1>11. IsSeq(Outputs(first)) /\ Range(Outputs(first)) = UNION {Range(parts[n]) : n \in DOMAIN parts}
  BY <1>2, <1>6, <1>7, Flattened
<1>12. \A o \in Range(Outputs(first)) : o.label \in ColumnsOf(t) BY <1>3, <1>5, <1>11
<1>13. DOMAIN Outputs(first) = 1..Len(Outputs(first)) /\ Len(Outputs(first)) \in Nat
  BY <1>11 DEF IsSeq
<1>14. IsSeq(Labels(first)) BY <1>10, <1>13, IsSeqFunction DEF LabelsOf
<1>15. Range(Labels(first)) \subseteq ColumnsOf(t) BY <1>10, <1>12 DEF LabelsOf, Range
<1> QED BY <1>2, <1>9, <1>10, <1>14, <1>15 DEF first, t

(* What fn_tokens makes of a plain expression: arguments that bind, a row  *)
(* whose fields are the labels and have the types of the table's struct.   *)
FunctionOf(expr) ==
  LET first == expr.statements[1]
      rows == TypingRows(expr)
      inputs == TokensOf(Inputs(first), rows)
  IN [ident |-> expr.ident, statement |-> first,
      args |-> [i \in DOMAIN inputs |-> Argument(inputs[i])],
      fields |-> Fields(TokensOf(Labels(first), rows))]

LEMMA PlainFunction ==
  ASSUME IInv, SchemaInv, LetsInv, AllSupported, NEW expr, PlainIn(expr)
  PROVE  /\ \A arg \in Range(FunctionOf(expr).args) :
              (arg.matched => arg.type.optional) /\ arg.name \in Range(Inputs(expr.statements[1]))
         /\ Names(FunctionOf(expr).fields) = Labels(expr.statements[1])
         /\ \A field \in Range(FunctionOf(expr).fields) :
              \E own \in Range(Fields(Tokens(schema[TableOf(expr)]))) :
                own.name = field.name /\ own.type = field.type
<1> PICK first : first = expr.statements[1] OBVIOUS
<1> PICK rows : rows = TypingRows(expr) OBVIOUS
<1> PICK t : t = TableOf(expr) OBVIOUS
<1> PICK inputs : inputs = TokensOf(Inputs(first), rows) OBVIOUS
<1> PICK outputs : outputs = TokensOf(Labels(first), rows) OBVIOUS
<1>1. t \in DOMAIN schema BY PlainIs
<1>2. Range(Inputs(first)) \subseteq ColumnsOf(t) BY DEF PlainIn, Plain, TableOf
<1>3. Range(Labels(first)) \subseteq ColumnsOf(t) BY PlainLabels
<1>4. /\ FunctionOf(expr).args = [i \in DOMAIN inputs |-> Argument(inputs[i])]
      /\ FunctionOf(expr).fields = Fields(outputs)
  BY DEF FunctionOf
<1>5. ASSUME NEW label \in ColumnsOf(t)
      PROVE  LET token == parse_type_hinted_column_name(label, rows)
             IN /\ token.name = label
                /\ \E row \in Range(schema[t]) : token = FromSchemaRow(row)
  BY <1>5, PlainToken
<1>6. ASSUME NEW arg \in Range(FunctionOf(expr).args)
      PROVE  (arg.matched => arg.type.optional) /\ arg.name \in Range(Inputs(first))
  <2>1. PICK i \in DOMAIN inputs : arg = Argument(inputs[i]) BY <1>4 DEF Range
  <2>2. i \in DOMAIN Inputs(first) /\ inputs[i] = parse_type_hinted_column_name(Inputs(first)[i], rows)
    BY DEF TokensOf
  <2>3. Inputs(first)[i] \in ColumnsOf(t) BY <1>2, <2>2 DEF Range
  <2>4. PICK row \in Range(schema[t]) : inputs[i] = FromSchemaRow(row) BY <1>5, <2>2, <2>3
  <2>5. Supported(row) BY <1>1 DEF AllSupported
  <2>6. /\ inputs[i].column_type = row.column_type /\ inputs[i].not_null = row.not_null
        /\ inputs[i].pk = row.pk
    BY <2>4 DEF FromSchemaRow
  <2>7. inputs[i].label = Inputs(first)[i] BY <2>2, <2>3, <1>2, PlainToken
  <2>8. arg.name \in Range(Inputs(first)) BY <2>1, <2>2, <2>7 DEF Argument, Range
  <2> QED BY <2>1, <2>5, <2>6, <2>8 DEF Supported, Argument
<1>7. DOMAIN outputs = DOMAIN Labels(first) /\ DOMAIN Fields(outputs) = DOMAIN Labels(first)
  BY DEF TokensOf, Fields
<1>8. ASSUME NEW n \in DOMAIN Labels(first)
      PROVE  /\ Fields(outputs)[n].name = Labels(first)[n]
             /\ \E own \in Range(Fields(Tokens(schema[t]))) : own = Fields(outputs)[n]
  <2>1. outputs[n] = parse_type_hinted_column_name(Labels(first)[n], rows) BY DEF TokensOf
  <2>2. Labels(first)[n] \in ColumnsOf(t) BY <1>3 DEF Range
  <2>3. Fields(outputs)[n] = Field(outputs[n]) /\ Fields(outputs)[n].name = outputs[n].name
    BY <1>7 DEF Fields, Field
  <2>4. outputs[n].name = Labels(first)[n] BY <1>5, <2>1, <2>2
  <2>5. PICK row \in Range(schema[t]) : outputs[n] = FromSchemaRow(row) BY <1>5, <2>1, <2>2
  <2>6. PICK k \in DOMAIN schema[t] : row = schema[t][k] BY DEF Range
  <2>7. DOMAIN Fields(Tokens(schema[t])) = DOMAIN schema[t]
        /\ Fields(Tokens(schema[t]))[k] = Field(FromSchemaRow(row))
    BY <2>6 DEF Fields, Tokens
  <2>8. Fields(outputs)[n] \in Range(Fields(Tokens(schema[t]))) BY <2>3, <2>5, <2>6, <2>7 DEF Range
  <2> QED BY <2>3, <2>4, <2>8
<1>9. Names(Fields(outputs)) = Labels(first)
  <2>1. Labels(first) = [n \in DOMAIN Labels(first) |-> Labels(first)[n]] BY DEF Labels
  <2>2. Names(Fields(outputs)) = [n \in DOMAIN Labels(first) |-> Fields(outputs)[n].name]
    BY <1>7 DEF Names
  <2> QED BY <1>8, <2>1, <2>2
<1>10. \A field \in Range(FunctionOf(expr).fields) : field \in Range(Fields(Tokens(schema[t])))
  BY <1>4, <1>7, <1>8 DEF Range
<1> QED BY <1>4, <1>6, <1>9, <1>10

(* The From impl of a plain expression is one at most, for its table.      *)
LEMMA PlainImpls ==
  ASSUME IInv, SchemaInv, LetsInv, NEW expr, PlainIn(expr)
  PROVE  /\ IsSeq(Impls(expr)) /\ Len(Impls(expr)) <= 1
         /\ \A impl \in Range(Impls(expr)) :
              /\ impl.of = expr.ident /\ impl.table = TableOf(expr)
              /\ impl.fields = Listed(expr.statements[1])
         /\ ~ImplPanics(expr)
<1> DEFINE first == expr.statements[1]
           impl == [of |-> expr.ident, table |-> first.relations[1].table, fields |-> Listed(first)]
           ss == [i \in DOMAIN expr.statements |->
                    LET stmt == expr.statements[i] IN
                    IF HasImpl(stmt)
                    THEN <<[of |-> expr.ident, table |-> stmt.relations[1].table,
                            fields |-> Listed(stmt)]>>
                    ELSE <<>>]
<1>1. /\ DOMAIN expr.statements = {1} /\ Range(expr.statements) = {first}
      /\ first.relations[1].table \in DOMAIN schema
  BY PlainIs DEF TableOf
<1>2. 1..1 = {1} OBVIOUS
<1>3. DOMAIN ss = 1..1 /\ ss = [i \in 1..1 |-> ss[i]] BY <1>1, <1>2
<1>4. ss[1] = IF HasImpl(first) THEN <<impl>> ELSE <<>> BY <1>1
<1>5. Impls(expr) = FlattenSeq(ss) BY DEF Impls
<1>6. impl.of = expr.ident /\ impl.table = TableOf(expr) /\ impl.fields = Listed(first)
  BY DEF TableOf
<1> HIDE DEF ss, impl
<1>7. Impls(expr) = ss[1] BY <1>3, <1>5, IsSeqFunction, FlattenOne
<1>8. IsSeq(ss[1]) /\ Len(ss[1]) <= 1 /\ Range(ss[1]) \subseteq {impl}
  BY <1>4, IsSeqSingle, IsSeqEmpty
<1>9. ~ImplPanics(expr)
  <2> SUFFICES ASSUME NEW item \in Range(first.items), Unlisted(first, item) PROVE FALSE
    BY <1>1 DEF ImplPanics
  <2>1. item.form \in {"ident", "star"} BY DEF PlainIn, Plain
  <2> QED BY <1>1, <2>1 DEF Unlisted
<1> QED BY <1>6, <1>7, <1>8, <1>9

(* The fields of the struct of a table are called like its columns.        *)
LEMMA FieldNames ==
  ASSUME NEW t \in DOMAIN schema, NEW field \in Range(Fields(Tokens(schema[t])))
  PROVE  field.name \in ColumnsOf(t)
<1>1. PICK k \in DOMAIN schema[t] : field = Field(FromSchemaRow(schema[t][k]))
  BY DEF Fields, Tokens, Range
<1>2. field.name = schema[t][k].column_name BY <1>1 DEF Field, FromSchemaRow
<1> QED BY <1>1, <1>2 DEF ColumnsOf, Range

(* A program of plain expressions whose names get along.                   *)
AllPlain == AllSupported /\ (\A expr \in Range(rest) : Plain(expr)) /\ NamesGetAlong

(* The macro does not panic on such a program.                             *)
LEMMA PlainNeverPanics ==
  ASSUME IInv, SchemaInv, LetsInv, AllPlain
  PROVE  ~StructPanics /\ ~FnPanics /\ ~TraitPanics
<1>1. \A expr \in Range(rest) : PlainIn(expr) BY DEF AllPlain, PlainIn
<1>2. ~StructPanics
  <2> SUFFICES ASSUME NEW t \in DOMAIN schema, NEW token \in Range(Tokens(schema[t]))
               PROVE  HasField(token)
    BY DEF StructPanics
  <2>1. PICK i \in DOMAIN schema[t] : token = FromSchemaRow(schema[t][i]) BY DEF Tokens, Range
  <2>2. Supported(schema[t][i]) BY DEF AllPlain, AllSupported, Range
  <2> QED BY <2>1, <2>2 DEF Supported, HasField, FromSchemaRow
<1>3. ~FnPanics
  <2> SUFFICES ASSUME Generating, Panics(rest[at]) PROVE FALSE
    BY DEF FnPanics
  <2> PICK expr : expr = rest[at] OBVIOUS
  <2>1. expr \in Range(rest)
    <3>1. at = Len(fns) + 1 /\ at <= Len(rest) /\ Len(fns) \in Nat BY DEF Generating, LetsInv, IsSeq
    <3>2. at \in DOMAIN rest BY <3>1 DEF LetsInv, IsSeq
    <3> QED BY <3>2 DEF Range
  <2>2. PlainIn(expr) BY <1>1, <2>1
  <2> DEFINE first == expr.statements[1]
  <2>3. \A stmt \in Range(expr.statements) : stmt.op \notin Ddl BY <2>2, PlainIs DEF Runs
  <2>4. PICK label \in Range(Inputs(first)) \cup Range(Labels(first)) : ~Typed(label, TypingRows(expr))
    BY <2>3 DEF Panics
  <2>5. label \in ColumnsOf(TableOf(expr)) BY <2>2, PlainLabels DEF PlainIn, Plain, TableOf
  <2> QED BY <2>2, <2>4, <2>5, PlainToken DEF AllPlain
<1>4. ~TraitPanics
  BY <1>1, PlainImpls DEF TraitPanics
<1> QED BY <1>2, <1>3, <1>4

(* The code that is generated.                                             *)
CodeInv ==
  /\ phase \in Late => structs = [t \in DOMAIN schema |-> Fields(Tokens(schema[t]))]
  /\ \A i \in DOMAIN fns : fns[i] = FunctionOf(rest[i])
  /\ phase \in Done => impls = FlattenSeq([i \in DOMAIN rest |-> Impls(rest[i])])
  /\ PlainProgramsCompile

(* The compiler takes what the macro makes of such a program.              *)
LEMMA PlainCompiles ==
  ASSUME IInv, SchemaInv, LetsInv, CodeInv, AllPlain, phase = "expanded"
  PROVE  Compiles /\ ~Hides
<1>1. \A expr \in Range(rest) : PlainIn(expr) BY DEF AllPlain, PlainIn
<1>2. /\ DOMAIN fns = DOMAIN rest
      /\ \A i \in DOMAIN rest : /\ rest[i] \in Range(rest) /\ fns[i] = FunctionOf(rest[i])
                                /\ fns[i].ident = rest[i].ident
      /\ DOMAIN rest = 1..Len(rest) /\ Len(rest) \in Nat
  <2>1. IsSeq(rest) /\ IsSeq(fns) /\ Len(fns) = Len(rest) BY DEF LetsInv, Done
  <2>2. DOMAIN fns = DOMAIN rest BY <2>1 DEF IsSeq
  <2>3. \A i \in DOMAIN rest : rest[i] \in Range(rest) BY DEF Range
  <2>4. \A i \in DOMAIN rest : fns[i].ident = rest[i].ident BY <2>2 DEF LetsInv
  <2> QED BY <2>1, <2>2, <2>3, <2>4 DEF CodeInv, IsSeq
<1>3. DOMAIN structs = DOMAIN schema
      /\ \A t \in DOMAIN schema : structs[t] = Fields(Tokens(schema[t]))
  BY DEF CodeInv, Late
<1>4. \A i, j \in DOMAIN rest : rest[i].ident = rest[j].ident => i = j BY DEF AllPlain, NamesGetAlong
<1>5. \A i, j \in DOMAIN fns : NameOf(fns[i]) = NameOf(fns[j]) => i = j
  BY <1>2 DEF AllPlain, NamesGetAlong, NameOf
<1>6. ASSUME NEW fn \in Range(fns)
      PROVE  /\ NameOf(fn) \notin DOMAIN structs \cup Prelude /\ fn.ident # migrate.ident
             /\ IsInjective(Names(fn.fields))
             /\ \A arg \in Range(fn.args) : arg.name # Database /\ (arg.matched => arg.type.optional)
             /\ \A x \in Range(fn.fields) \cup Range(fn.args) : x.name \notin Keywords
  <2>1. PICK i \in DOMAIN rest : fn = fns[i] BY <1>2 DEF Range
  <2> PICK expr : expr = rest[i] OBVIOUS
  <2> PICK t : t = TableOf(expr) OBVIOUS
  <2>2. expr \in Range(rest) /\ fn = FunctionOf(expr) /\ fn.ident = expr.ident BY <1>2, <2>1
  <2>3. PlainIn(expr) BY <1>1, <2>2
  <2>4. NameOf(fn) \notin DOMAIN structs \cup Prelude /\ fn.ident # migrate.ident
    BY <1>3, <2>2 DEF AllPlain, NamesGetAlong, NameOf
  <2>5. IsInjective(Labels(expr.statements[1])) BY <2>3 DEF PlainIn, Plain
  <2>6. /\ \A arg \in Range(fn.args) :
             (arg.matched => arg.type.optional) /\ arg.name \in Range(Inputs(expr.statements[1]))
        /\ Names(fn.fields) = Labels(expr.statements[1])
        /\ \A field \in Range(fn.fields) :
             \E own \in Range(Fields(Tokens(schema[t]))) : own.name = field.name
    BY <2>2, <2>3, PlainFunction DEF AllPlain
  <2>7. t \in DOMAIN schema BY <2>3, PlainIs
  <2>8. Database \notin Range(Inputs(expr.statements[1])) BY <2>2 DEF AllPlain, NamesGetAlong
  <2>9. Range(Inputs(expr.statements[1])) \subseteq ColumnsOf(t) BY <2>3 DEF PlainIn, Plain, TableOf
  <2>10. ColumnsOf(t) \cap Keywords = {} BY <2>7 DEF AllPlain, NamesGetAlong
  <2>11. \A field \in Range(fn.fields) : field.name \in ColumnsOf(t) BY <2>6, <2>7, FieldNames
  <2> QED BY <2>4, <2>5, <2>6, <2>8, <2>9, <2>10, <2>11
<1> DEFINE ss == [i \in DOMAIN rest |-> Impls(rest[i])]
<1>7. impls = FlattenSeq(ss) BY DEF CodeInv, Done
<1>8. DOMAIN ss = 1..Len(rest) /\ ss = [i \in 1..Len(rest) |-> ss[i]] BY <1>2
<1>9. ASSUME NEW i \in DOMAIN rest
      PROVE  /\ ss[i] = Impls(rest[i]) /\ IsSeq(ss[i]) /\ Len(ss[i]) <= 1
             /\ \A impl \in Range(ss[i]) :
                  /\ impl.of = rest[i].ident /\ impl.table = TableOf(rest[i])
                  /\ impl.fields = Listed(rest[i].statements[1])
  <2>1. PlainIn(rest[i]) BY <1>1, <1>2
  <2>2. ss[i] = Impls(rest[i]) OBVIOUS
  <2> HIDE DEF ss
  <2> QED BY <2>1, <2>2, PlainImpls
<1> HIDE DEF ss
<1>10. IsSeq(ss) BY <1>2, <1>8, IsSeqFunction
<1>11. DOMAIN ss = DOMAIN rest BY <1>2, <1>8
<1>12. IsSeq(impls) /\ Range(impls) = UNION {Range(ss[i]) : i \in DOMAIN ss}
  BY <1>7, <1>9, <1>10, <1>11, Flattened
<1>13. IsInjective(impls)
  <2>1. PICK S : ss \in Seq(Seq(S)) BY <1>9, <1>10, <1>11, InSeqSeq
  <2>2. \A i, j \in DOMAIN ss : i # j => Range(ss[i]) \cap Range(ss[j]) = {}
    <3> SUFFICES ASSUME NEW i \in DOMAIN ss, NEW j \in DOMAIN ss, NEW impl,
                        impl \in Range(ss[i]), impl \in Range(ss[j])
                 PROVE  i = j
      OBVIOUS
    <3>1. impl.of = rest[i].ident /\ impl.of = rest[j].ident BY <1>9, <1>11
    <3> QED BY <1>4, <1>11, <3>1
  <2> QED BY <1>7, <1>9, <1>11, <2>1, <2>2, FlattenDistinct
<1>14. ASSUME NEW a \in DOMAIN impls, NEW b \in DOMAIN impls, impls[a].of = impls[b].of
       PROVE  a = b
  <2>1. impls[a] \in Range(impls) /\ impls[b] \in Range(impls) BY DEF Range
  <2>2. PICK i \in DOMAIN ss : impls[a] \in Range(ss[i]) BY <1>12, <2>1
  <2>3. PICK j \in DOMAIN ss : impls[b] \in Range(ss[j]) BY <1>12, <2>1
  <2>4. i = j BY <1>4, <1>9, <1>11, <1>14, <2>2, <2>3
  <2>5. impls[a] = impls[b]
    <3>1. IsSeq(ss[i]) /\ Len(ss[i]) <= 1 BY <1>9, <1>11
    <3>2. DOMAIN ss[i] = 1..Len(ss[i]) /\ Len(ss[i]) \in Nat BY <3>1 DEF IsSeq
    <3>3. \A k, l \in DOMAIN ss[i] : k = l BY <3>1, <3>2
    <3> QED BY <2>2, <2>3, <2>4, <3>3 DEF Range
  <2> QED BY <1>13, <2>5 DEF IsInjective
<1>15. ASSUME NEW impl \in Range(impls) PROVE ImplCompiles(impl)
  <2>1. PICK i \in DOMAIN rest : impl \in Range(ss[i]) BY <1>11, <1>12
  <2> PICK expr : expr = rest[i] OBVIOUS
  <2>2. expr \in Range(rest) /\ fns[i] = FunctionOf(expr) /\ fns[i].ident = expr.ident
        /\ i \in DOMAIN fns
    BY <1>2
  <2>3. PlainIn(expr) BY <1>1, <2>2
  <2>4. /\ impl.of = expr.ident /\ impl.table = TableOf(expr)
        /\ impl.fields = Labels(expr.statements[1])
    BY <1>9, <2>1, <2>3, PlainLabels
  <2>5. TableOf(expr) \in DOMAIN schema BY <2>3, PlainIs
  <2>6. IsInjective(Labels(expr.statements[1])) BY <2>3 DEF PlainIn, Plain
  <2>7. /\ Names(fns[i].fields) = Labels(expr.statements[1])
        /\ \A field \in Range(fns[i].fields) :
             \E own \in Range(structs[TableOf(expr)]) :
               own.name = field.name /\ own.type = field.type
    BY <1>3, <2>2, <2>3, <2>5, PlainFunction DEF AllPlain
  <2> QED BY <1>3, <2>2, <2>4, <2>5, <2>6, <2>7 DEF ImplCompiles
<1>16. ASSUME NEW t \in DOMAIN structs
       PROVE  t \notin Prelude /\ \A field \in Range(structs[t]) : field.name \notin Keywords
  <2>1. t \in DOMAIN schema /\ structs[t] = Fields(Tokens(schema[t])) BY <1>3
  <2>2. t \notin Prelude /\ ColumnsOf(t) \cap Keywords = {} BY <2>1 DEF AllPlain, NamesGetAlong
  <2> QED BY <2>1, <2>2, FieldNames
<1>17. Compiles BY <1>5, <1>6, <1>14, <1>15, <1>16 DEF Compiles
<1>18. ~Hides BY <1>6, <1>16 DEF Hides
<1> QED BY <1>17, <1>18

LEMMA InitCodeInv == GCInit => CodeInv
BY DEF GCInit, Init, CodeInv, Late, Done, PlainProgramsCompile

(* A plain expression stays one while the tables do.                       *)
LEMMA PlainStays ==
  ASSUME UNCHANGED schema
  PROVE  \A expr : Plain(expr)' = Plain(expr)
<1>1. \A stmt : Prepares(stmt)' = Prepares(stmt) BY DEF Prepares, UsedRefs, KeyExists, Columns
<1>2. \A stmt : Labels(stmt)' = Labels(stmt) BY DEF Labels, Outputs, Star
<1>3. \A t : ColumnsOf(t)' = ColumnsOf(t) BY DEF ColumnsOf
<1> QED BY <1>1, <1>2, <1>3 DEF Plain

LEMMA NamesStay ==
  ASSUME UNCHANGED <<migrate, rest, schema>>
  PROVE  NamesGetAlong' = NamesGetAlong
<1>1. \A t : ColumnsOf(t)' = ColumnsOf(t) BY DEF ColumnsOf
<1> QED BY <1>1 DEF NamesGetAlong

LEMMA NextCodeInv == IInv /\ SchemaInv /\ LetsInv /\ CodeInv /\ [Next]_vars => CodeInv'
<1> SUFFICES ASSUME IInv, SchemaInv, LetsInv, CodeInv, [Next]_vars PROVE CodeInv'
  OBVIOUS
<1>1. ASSUME UNCHANGED schema PROVE \A expr : FunctionOf(expr)' = FunctionOf(expr)
  BY <1>1 DEF FunctionOf, TypingRows, table_names, join_table_names, Origins, Outputs, Star, Labels
<1>2. ASSUME UNCHANGED schema PROVE \A expr : Impls(expr)' = Impls(expr)
  BY <1>2 DEF Impls, Listed
<1>3. ASSUME UNCHANGED <<fns, rest, schema>>
      PROVE  (\A i \in DOMAIN fns : fns[i] = FunctionOf(rest[i]))'
  BY <1>1, <1>3 DEF CodeInv
<1>4. ASSUME UNCHANGED <<rest, schema, structs, fns, impls>>, phase' \in Late => phase \in Late,
             phase' \in Done => phase \in Done, phase' \notin {"panic", "rejected"}
      PROVE  CodeInv'
  <2>1. PlainProgramsCompile' BY <1>4 DEF PlainProgramsCompile
  <2> QED BY <1>2, <1>3, <1>4, <2>1 DEF CodeInv
<1>5. ASSUME Stop("panic") \/ Stop("rejected"), ~AllPlain PROVE CodeInv'
  <2>1. /\ UNCHANGED <<migrate, rest, schema, structs, fns, impls>>
        /\ phase' \in {"panic", "rejected"}
    BY <1>5 DEF Stop
  <2>2. PlainProgramsCompile'
    <3>1. \A expr : Plain(expr)' = Plain(expr) BY <2>1, PlainStays
    <3>2. ~AllPlain' BY <1>5, <2>1, <3>1, NamesStay DEF AllPlain, AllSupported
    <3> QED BY <3>2 DEF AllPlain, AllSupported, PlainProgramsCompile
  <2> QED BY <1>3, <2>1, <2>2 DEF CodeInv, Late, Done
<1>6. CASE Split \/ RunMigrate
  <2>1. fns' = <<>> /\ phase' = "migrate" BY <1>6 DEF Split, RunMigrate, LetsInv
  <2> QED BY <2>1 DEF CodeInv, Late, Done, PlainProgramsCompile
<1>7. CASE NoMigration \/ MigrateFails \/ MissingReference \/ FnRefused
  BY <1>4, <1>7 DEF NoMigration, MigrateFails, MissingReference, FnRefused, Stop, Late, Done
<1>8. CASE structs_tokens
  <2>1. /\ UNCHANGED <<rest, schema, fns>> /\ phase' = "fns"
        /\ structs' = [t \in DOMAIN schema |-> Fields(Tokens(schema[t]))]
    BY <1>8 DEF structs_tokens
  <2> QED BY <1>3, <2>1 DEF CodeInv, Done, PlainProgramsCompile
<1>9. CASE StructPanics \/ FnPanics \/ TraitPanics
  <2>1. ~AllPlain BY <1>9, PlainNeverPanics
  <2> QED BY <1>5, <1>9, <2>1 DEF StructPanics, FnPanics, TraitPanics
<1>10. CASE fn_tokens
  <2>1. /\ phase = "fns" /\ UNCHANGED <<phase, rest, schema, structs, impls>>
        /\ fns' = Append(fns, FunctionOf(rest[at]))
    BY <1>10 DEF fn_tokens, Generating, FunctionOf
  <2>2. at = Len(fns) + 1 /\ IsSeq(fns) BY <2>1 DEF LetsInv
  <2>3. PICK fn : fn = FunctionOf(rest[at]) OBVIOUS
  <2>4. /\ IsSeq(fns') /\ Len(fns') = Len(fns) + 1 /\ Len(fns) \in Nat
        /\ \A i \in 1..Len(fns) : fns'[i] = fns[i]
        /\ fns'[Len(fns) + 1] = fn
    BY <2>1, <2>2, <2>3, IsSeqAppend DEF IsSeq
  <2>5. DOMAIN fns = 1..Len(fns) /\ DOMAIN fns' = 1..(Len(fns) + 1) BY <2>2, <2>4 DEF IsSeq
  <2>6. ASSUME NEW i \in DOMAIN fns' PROVE fns'[i] = FunctionOf(rest[i])
    <3>1. i \in DOMAIN fns \/ i = Len(fns) + 1 BY <2>4, <2>5
    <3> QED BY <2>2, <2>3, <2>4, <2>5, <3>1 DEF CodeInv
  <2>7. (\A i \in DOMAIN fns : fns[i] = FunctionOf(rest[i]))' BY <1>1, <2>1, <2>6
  <2> QED BY <2>1, <2>7 DEF CodeInv, Late, Done, PlainProgramsCompile
<1>11. CASE trait_tokens
  <2>1. /\ phase = "fns" /\ phase' = "expanded" /\ UNCHANGED <<rest, schema, structs, fns>>
        /\ impls' = FlattenSeq([i \in DOMAIN rest |-> Impls(rest[i])])
    BY <1>11 DEF trait_tokens
  <2>2. (impls = FlattenSeq([i \in DOMAIN rest |-> Impls(rest[i])]))' BY <1>2, <2>1
  <2> QED BY <1>3, <2>1, <2>2 DEF CodeInv, Late, PlainProgramsCompile
<1>12. CASE Reject
  <2>1. ~AllPlain BY <1>12, PlainCompiles DEF Reject
  <2> QED BY <1>5, <1>12, <2>1 DEF Reject
<1>13. CASE Build \/ StartMigrate \/ MigratePiece \/ MigrateStops \/ MigrateReturns
  BY <1>4, <1>13 DEF Build, StartMigrate, MigratePiece, MigrateStops, MigrateReturns, Stop, Late, Done
<1>14. CASE Call
  BY <1>4, <1>14 DEF Call, macroVars
<1>15. CASE UNCHANGED vars
  <2>1. UNCHANGED <<phase, migrate, rest, schema, structs, fns, impls>> BY <1>15 DEF vars, macroVars
  <2>2. PlainProgramsCompile'
    <3>1. \A expr : Plain(expr)' = Plain(expr) BY <2>1, PlainStays
    <3> QED BY <2>1, <3>1, NamesStay DEF CodeInv, PlainProgramsCompile
  <2> QED BY <1>2, <1>3, <2>1, <2>2 DEF CodeInv
<1> QED BY <1>6, <1>7, <1>8, <1>9, <1>10, <1>11, <1>12, <1>13, <1>14, <1>15 DEF Next, Expand

(* No program of the supported part of SQL ends in a panic of the macro or *)
(* in code that the compiler rejects if its names get along.  (Macro       *)
(* field_type_from_datatype_name, struct_tokens, fn_args, params and the   *)
(* From impls, which must all agree.)                                      *)
THEOREM PlainCompile == Spec => []PlainProgramsCompile
<1> DEFINE I == IInv /\ SchemaInv /\ LetsInv /\ CodeInv
<1>1. GCInit => I BY InitIInv, InitSchemaInv, InitLetsInv, InitCodeInv
<1>2. I /\ [Next]_vars => I' BY NextIInv, NextSchemaInv, NextLetsInv, NextCodeInv
<1>3. I => PlainProgramsCompile BY DEF CodeInv
<1> QED BY <1>1, <1>2, <1>3, PTL DEF Spec
=============================================================================
