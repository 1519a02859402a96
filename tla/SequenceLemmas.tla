--------------------------- MODULE SequenceLemmas ---------------------------
(***************************************************************************)
(* What the proofs of several components need of numbers and sequences:    *)
(* induction, and what the folds of the community modules compute.         *)
(***************************************************************************)
EXTENDS Integers, SequencesExt, SequenceTheorems, WellFoundedInduction, TLAPS

(* A set of numbers has a least one.                                       *)
LEMMA LeastExists ==
  ASSUME NEW S, S \subseteq Nat, S # {}
  PROVE  Min(S) \in S
<1>. DEFINE less == {ss \in Nat \X Nat : ss[1] < ss[2]}
<1>1. less = OpToRel(<, Nat)
  BY Zenon DEF OpToRel
<1>2. IsWellFoundedOn(less, Nat)
  BY <1>1, NatLessThanWellFounded, Zenon
<1>. HIDE DEF less
<1>3. S \subseteq Nat /\ S # {}
  OBVIOUS
<1>4. \E x \in S : \A y \in S : ~(<<y, x>> \in less)
  BY <1>2, <1>3, WFMin
<1>5. PICK x \in S : \A y \in S : ~(<<y, x>> \in less)
  BY <1>4
<1>6. ASSUME NEW y \in S PROVE x =< y
  <2>1. x \in Nat /\ y \in Nat /\ ~(<<y, x>> \in less)
    BY <1>5
  <2>2. <<y, x>> \in Nat \X Nat
    BY <2>1
  <2>3. y < x => <<y, x>> \in less
    BY <2>2 DEF less
  <2>. QED
    BY <2>1, <2>3
<1>7. \E z \in S : \A y \in S : z =< y
  BY <1>6
<1>. QED
  BY <1>7 DEF Min

(* Induction, for a set of numbers: of those it lacks there is no least.   *)
LEMMA NatInductive ==
  ASSUME NEW P, 0 \in P, \A n \in Nat : n \in P => n + 1 \in P
  PROVE  Nat \subseteq P
<1>. DEFINE less == {ss \in Nat \X Nat : ss[1] < ss[2]}
            S == Nat \ P
<1>1. less = OpToRel(<, Nat)
  BY Zenon DEF OpToRel
<1>2. IsWellFoundedOn(less, Nat)
  BY <1>1, NatLessThanWellFounded, Zenon
<1>3. ASSUME NEW x \in Nat, NEW y \in Nat, x < y
      PROVE  <<x, y>> \in less
  <2>1. <<x, y>> \in Nat \X Nat
    OBVIOUS
  <2>. QED
    BY <1>3, <2>1 DEF less
<1>. HIDE DEF less
<1>4. S # {} => \E x \in S : \A y \in S : ~(<<y, x>> \in less)
  <2>1. S \subseteq Nat
    OBVIOUS
  <2>. HIDE DEF S
  <2>. QED
    BY <1>2, <2>1, WFMin
<1>5. ASSUME NEW x \in S, \A y \in S : ~(<<y, x>> \in less)
      PROVE  FALSE
  <2>1. x \in Nat /\ x # 0
    OBVIOUS
  <2>2. x - 1 \in Nat /\ x - 1 < x /\ (x - 1) + 1 = x
    BY <2>1
  <2>3. <<x - 1, x>> \in less
    BY <1>3, <2>1, <2>2
  <2>4. x - 1 \in P
    BY <1>5, <2>2, <2>3
  <2>. QED
    BY <2>2, <2>4
<1>. QED
  BY <1>4, <1>5

(* The greatest of some numbers up to n + 1 is n + 1 if that is among      *)
(* them.                                                                   *)
LEMMA MaxIs ==
  ASSUME NEW n \in Nat, NEW z \in SUBSET (1..n + 1), n + 1 \in z
  PROVE  Max(z) = n + 1
<1>1. \A x \in z : x <= n + 1 /\ x \in Int
  OBVIOUS
<1>2. \A x \in z : (\A y \in z : x >= y) <=> x = n + 1
  BY <1>1
<1>. QED
  BY <1>2, Zenon DEF Max

(* A piece of a sequence has the elements of the sequence.                 *)
LEMMA SubSeqAny ==
  ASSUME NEW S, NEW seq \in Seq(S), NEW a \in Int, NEW b \in Int,
         b <= Len(seq), a >= 1
  PROVE  SubSeq(seq, a, b) \in Seq(S)
<1>1. \A i \in a..b : i \in 1..Len(seq)
  BY LenProperties
<1>2. \A i \in a..b : seq[i] \in S
  BY <1>1, ElementOfSeq
<1>. QED
  BY <1>2, SubSeqProperties

(* Sequences laid one after another, one at a time.                        *)
LEMMA FlattenUnfolds ==
  ASSUME NEW seqs, Len(seqs) \in Nat, Len(seqs) # 0
  PROVE  \E f : /\ f[1] = seqs[1]
                /\ \A i \in 2..Len(seqs) : f[i] = f[i - 1] \o seqs[i]
                /\ FlattenSeq(seqs) = f[Len(seqs)]
<1>. DEFINE n == Len(seqs)
            Unfold(f, m) ==
              [i \in 1..m |-> IF i = 1 THEN seqs[i] ELSE f[i - 1] \o seqs[i]]
            flatten == CHOOSE f : f = Unfold(f, n)
            P == {m \in Nat : \E f : f = Unfold(f, m)}
<1>1. FlattenSeq(seqs) = flatten[n]
  BY DEF FlattenSeq
<1>2. 0 \in P
  <2>1. Unfold(<<>>, 0) = Unfold(Unfold(<<>>, 0), 0)
    OBVIOUS
  <2>. QED
    BY <2>1
<1>3. ASSUME NEW m \in Nat, m \in P PROVE m + 1 \in P
  <2>1. PICK f : f = Unfold(f, m)
    BY <1>3
  <2>. DEFINE last == IF m = 0 THEN seqs[1] ELSE f[m] \o seqs[m + 1]
              g == [i \in 1..m + 1 |-> IF i = m + 1 THEN last ELSE f[i]]
  <2>2. \A i \in 1..m : f[i] = IF i = 1 THEN seqs[i] ELSE f[i - 1] \o seqs[i]
    BY <2>1
  <2>3. ASSUME NEW i \in 1..m + 1
        PROVE  g[i] = IF i = 1 THEN seqs[i] ELSE g[i - 1] \o seqs[i]
    <3>1. CASE i = m + 1
      <4>1. g[i] = last
        BY <3>1
      <4>2. m # 0 => m \in 1..m + 1 /\ m # m + 1 /\ i - 1 = m
        BY <3>1
      <4>3. m # 0 => g[i - 1] = f[m]
        BY <4>2
      <4>. HIDE DEF g
      <4>. QED
        BY <3>1, <4>1, <4>3
    <3>2. CASE i # m + 1
      <4>1. i \in 1..m /\ (i # 1 => i - 1 \in 1..m + 1 /\ i - 1 # m + 1)
        BY <3>2
      <4>2. g[i] = f[i] /\ (i # 1 => g[i - 1] = f[i - 1])
        BY <3>2, <4>1
      <4>. HIDE DEF g
      <4>. QED
        BY <2>2, <4>1, <4>2
    <3>. QED
      BY <3>1, <3>2
  <2>4. g = [i \in 1..m + 1 |-> g[i]]
    OBVIOUS
  <2>. HIDE DEF g
  <2>5. g = Unfold(g, m + 1)
    BY <2>3, <2>4
  <2>. HIDE DEF Unfold
  <2>. QED
    BY <2>5
<1>4. n \in P
  <2>. HIDE DEF P, n
  <2>. QED
    BY <1>2, <1>3, NatInductive DEF n
<1>5. flatten = Unfold(flatten, n)
  <2>. HIDE DEF Unfold
  <2>. QED
    BY <1>4
<1>. HIDE DEF flatten
<1>6. \A i \in 1..n : flatten[i] = IF i = 1 THEN seqs[i] ELSE flatten[i - 1] \o seqs[i]
  BY <1>5
<1>7. flatten[1] = seqs[1] /\ \A i \in 2..n : flatten[i] = flatten[i - 1] \o seqs[i]
  <2>1. n \in Nat /\ n # 0
    OBVIOUS
  <2>. HIDE DEF n
  <2>2. 1 \in 1..n /\ \A i \in 2..n : i \in 1..n /\ i # 1
    BY <2>1
  <2>. QED
    BY <1>6, <2>2
<1>. QED
  BY <1>1, <1>7

(* Pieces of one byte are the bytes.                                       *)
LEMMA FlattenIs ==
  ASSUME NEW S, NEW bytes \in Seq(S), Len(bytes) > 0
  PROVE  FlattenSeq([i \in DOMAIN bytes |-> <<bytes[i]>>]) = bytes
<1>. DEFINE n == Len(bytes)
            seqs == [i \in DOMAIN bytes |-> <<bytes[i]>>]
            Unfold(f) == [i \in 1..Len(seqs) |-> IF i = 1 THEN seqs[i] ELSE f[i - 1] \o seqs[i]]
            flatten == CHOOSE f : f = Unfold(f)
            g == [i \in 1..Len(seqs) |-> SubSeq(bytes, 1, i)]
<1>1. Len(seqs) = n /\ n \in Nat /\ n # 0
      /\ \A i \in 1..n : seqs[i] = <<bytes[i]>>
  OBVIOUS
<1>2. FlattenSeq(seqs) = flatten[n]
  BY <1>1 DEF FlattenSeq
<1>. HIDE DEF n, seqs
<1>3. g = Unfold(g)
  <2>1. ASSUME NEW i \in 1..n
        PROVE  g[i] = IF i = 1 THEN seqs[i] ELSE g[i - 1] \o seqs[i]
    <3>1. i \in 1..Len(bytes) /\ 1 \in 1..Len(bytes)
      BY <1>1 DEF n
    <3>2. SubSeq(bytes, 1, i) = SubSeq(bytes, 1, i - 1) \o <<bytes[i]>>
      BY <3>1, SubSeqRecursiveSecond
    <3>3. CASE i = 1
      <4>1. SubSeq(bytes, 1, i - 1) = <<>>
        BY <3>3, SubSeqEmpty
      <4>2. bytes[1] \in S
        BY <3>1, ElementOfSeq
      <4>3. <<>> \o <<bytes[1]>> = <<bytes[1]>>
        BY <4>2
      <4>4. SubSeq(bytes, 1, 1) = <<bytes[1]>>
        BY <3>2, <3>3, <4>1, <4>3, Zenon
      <4>. QED
        BY <1>1, <3>3, <4>4
    <3>4. CASE i # 1
      <4>1. i - 1 \in 1..n
        BY <1>1, <3>4
      <4>. QED
        BY <1>1, <3>2, <3>4, <4>1
    <3>. QED
      BY <3>3, <3>4
  <2>. HIDE DEF g
  <2>2. g = [i \in 1..n |-> g[i]]
    BY <1>1 DEF g
  <2>. QED
    BY <1>1, <2>1, <2>2
<1>. HIDE DEF g
<1>4. flatten = Unfold(flatten)
  <2>. HIDE DEF Unfold
  <2>. QED
    BY <1>3
<1>. HIDE DEF flatten
<1>5. \A i \in 1..n : flatten[i] = IF i = 1 THEN seqs[i] ELSE flatten[i - 1] \o seqs[i]
  BY <1>1, <1>4
<1>6. \A i \in 1..n : g[i] = IF i = 1 THEN seqs[i] ELSE g[i - 1] \o seqs[i]
  BY <1>1, <1>3
<1>. DEFINE P == {m \in Nat : m + 1 \in 1..n => flatten[m + 1] = g[m + 1]}
<1>7. Nat \subseteq P
  <2>1. 0 \in P
    BY <1>1, <1>5, <1>6
  <2>2. ASSUME NEW m \in Nat, m \in P
        PROVE  m + 1 \in P
    <3>1. CASE m + 2 \in 1..n
      <4>1. m + 1 \in 1..n /\ (m + 2) - 1 = m + 1 /\ m + 2 # 1
        BY <1>1, <3>1
      <4>2. flatten[m + 1] = g[m + 1]
        BY <2>2, <4>1
      <4>3. flatten[m + 2] = g[m + 2]
        BY <1>5, <1>6, <3>1, <4>1, <4>2
      <4>. QED
        BY <4>3
    <3>2. CASE m + 2 \notin 1..n
      BY <3>2
    <3>. QED
      BY <3>1, <3>2
  <2>. HIDE DEF P
  <2>. QED
    BY <2>1, <2>2, NatInductive
<1>8. flatten[n] = g[n]
  <2>1. n - 1 \in P
    BY <1>1, <1>7, SMTT(60)
  <2>. QED
    BY <1>1, <2>1
<1>9. g[n] = bytes
  BY <1>1, SubSeqFull DEF n, g
<1>. QED
  BY <1>2, <1>8, <1>9 DEF seqs
-----------------------------------------------------------------------------
(* WHERE PIECES BEGIN                                                      *)

(* The piece is in the text after from.                                    *)
Laid(text, from, piece) ==
  /\ from + Len(piece) <= Len(text)
  /\ \A j \in 1..Len(piece) : text[from + j] = piece[j]

(* What is laid in a piece is laid where the piece is.                     *)
LEMMA LaidIn ==
  ASSUME NEW text, NEW from \in Nat, NEW piece, NEW at \in Nat, NEW part,
         Len(text) \in Nat, Len(piece) \in Nat, Len(part) \in Nat,
         Laid(text, from, piece), Laid(piece, at, part)
  PROVE  Laid(text, from + at, part)
<1>1. ASSUME NEW j \in 1..Len(part)
      PROVE  text[(from + at) + j] = part[j]
  <2>1. at + j \in 1..Len(piece) /\ from + (at + j) = (from + at) + j
    BY DEF Laid
  <2>2. text[from + (at + j)] = piece[at + j]
    BY <2>1 DEF Laid
  <2>. QED
    BY <2>1, <2>2 DEF Laid
<1>. QED
  BY <1>1 DEF Laid

(* Both parts of a sequence are laid in it.                                *)
LEMMA LaidConcat ==
  ASSUME NEW S, NEW s \in Seq(S), NEW t \in Seq(S)
  PROVE  /\ s \o t \in Seq(S)
         /\ Len(s \o t) = Len(s) + Len(t)
         /\ Laid(s \o t, 0, s)
         /\ Laid(s \o t, Len(s), t)
<1>. DEFINE h == s \o t
<1>1. Len(s) \in Nat /\ Len(t) \in Nat
  BY LenProperties
<1>2. h \in Seq(S) /\ Len(h) = Len(s) + Len(t)
      /\ \A j \in 1..Len(s) + Len(t) :
           h[j] = IF j <= Len(s) THEN s[j] ELSE t[j - Len(s)]
  BY ConcatProperties
<1>. HIDE DEF h
<1>3. ASSUME NEW j \in 1..Len(s) PROVE h[0 + j] = s[j]
  <2>1. 0 + j = j /\ j \in 1..Len(s) + Len(t) /\ j <= Len(s)
    BY <1>1
  <2>. QED
    BY <1>2, <2>1
<1>4. ASSUME NEW j \in 1..Len(t) PROVE h[Len(s) + j] = t[j]
  <2>1. Len(s) + j \in 1..Len(s) + Len(t) /\ ~(Len(s) + j <= Len(s))
        /\ (Len(s) + j) - Len(s) = j
    BY <1>1
  <2>. QED
    BY <1>2, <2>1
<1>. QED
  BY <1>1, <1>2, <1>3, <1>4 DEF h, Laid
(* Where each of some sequences begins when they are laid one after        *)
(* another, and where they end.                                            *)
IsStarts(at, seqs) ==
  /\ at \in [1..Len(seqs) + 1 -> Nat]
  /\ at[1] = 0
  /\ \A i \in 1..Len(seqs) : at[i + 1] = at[i] + Len(seqs[i])

(* Sequences laid one after another are there.                             *)
LEMMA FlattenLays ==
  ASSUME NEW S, NEW seqs \in Seq(Seq(S)), NEW at, IsStarts(at, seqs)
  PROVE  /\ FlattenSeq(seqs) \in Seq(S)
         /\ Len(FlattenSeq(seqs)) = at[Len(seqs) + 1]
         /\ \A i \in 1..Len(seqs) : Laid(FlattenSeq(seqs), at[i], seqs[i])
<1>. DEFINE n == Len(seqs)
            flat == FlattenSeq(seqs)
<1>1. /\ n \in Nat
      /\ at[1] = 0
      /\ \A i \in 1..n + 1 : at[i] \in Nat
      /\ \A i \in 1..n : at[i + 1] = at[i] + Len(seqs[i])
  BY LenProperties DEF IsStarts
<1>2. \A i \in 1..n : seqs[i] \in Seq(S)
  BY ElementOfSeq
<1>3. CASE n = 0
  <2>1. seqs = <<>>
    BY <1>3, EmptySeq
  <2>2. flat = <<>>
    BY <1>3, <2>1, Zenon DEF FlattenSeq
  <2>3. <<>> \in Seq(S) /\ Len(<<>>) = 0 /\ 0 + 1 = 1
    BY EmptySeq
  <2>4. at[Len(seqs) + 1] = 0
    BY <1>1, <1>3
  <2>5. \A i \in 1..Len(seqs) : FALSE
    BY <1>3
  <2>. QED
    BY <2>2, <2>3, <2>4, <2>5, Zenon
<1>4. CASE n # 0
  <2>1. PICK f : /\ f[1] = seqs[1]
                 /\ \A i \in 2..n : f[i] = f[i - 1] \o seqs[i]
                 /\ flat = f[n]
    BY <1>1, <1>4, FlattenUnfolds
  <2>. DEFINE Upto(m) ==
         /\ f[m] \in Seq(S)
         /\ Len(f[m]) = at[m + 1]
         /\ \A i \in 1..m : Laid(f[m], at[i], seqs[i])
       P == {m \in Nat : m + 1 \in 1..n => Upto(m + 1)}
  <2>. HIDE DEF n, flat
  <2>2. 0 \in P
    <3>1. 1 \in 1..n /\ seqs[1] \in Seq(S)
      BY <1>1, <1>2, <1>4
    <3>2. at[1 + 1] = at[1] + Len(seqs[1]) /\ at[1] = 0 /\ Len(seqs[1]) \in Nat
      BY <1>1, <3>1, LenProperties
    <3>3. Laid(f[1], at[1], seqs[1])
      BY <2>1, <3>1, <3>2 DEF Laid
    <3>4. \A i \in 1..1 : i = 1
      OBVIOUS
    <3>5. Upto(0 + 1)
      BY <2>1, <3>1, <3>2, <3>3, <3>4
    <3>. QED
      BY <3>5
  <2>3. ASSUME NEW m \in Nat, m \in P PROVE m + 1 \in P
    <3>1. SUFFICES ASSUME m + 2 \in 1..n PROVE Upto(m + 2)
      OBVIOUS
    <3>. DEFINE k == m + 1
                g == f[k]
                h == f[k + 1]
                piece == seqs[k + 1]
    <3>2. /\ k \in 1..n /\ k + 1 \in 1..n /\ k + 1 \in 2..n /\ (k + 1) - 1 = k
          /\ k + 1 = m + 2 /\ k \in Nat
      BY <1>1, <3>1
    <3>3. /\ g \in Seq(S) /\ Len(g) = at[k + 1]
          /\ \A i \in 1..k : Laid(g, at[i], seqs[i])
      BY <2>3, <3>2
    <3>4. h = g \o piece
      BY <2>1, <3>2
    <3>5. piece \in Seq(S)
      BY <1>2, <3>2
    <3>6. at[(k + 1) + 1] = at[k + 1] + Len(piece) /\ at[k + 1] \in Nat
          /\ \A i \in 1..k : at[i] \in Nat
      BY <1>1, <3>2
    <3>. HIDE DEF g, h, piece, k
    <3>7. /\ h \in Seq(S) /\ Len(h) = Len(g) + Len(piece)
          /\ \A j \in 1..Len(g) : h[j] = g[j]
          /\ \A j \in 1..Len(piece) : h[Len(g) + j] = piece[j]
          /\ Len(g) \in Nat /\ Len(piece) \in Nat
      <4>1. Len(g) \in Nat /\ Len(piece) \in Nat
        BY <3>3, <3>5, LenProperties
      <4>2. h \in Seq(S) /\ Len(h) = Len(g) + Len(piece)
            /\ Laid(h, 0, g) /\ Laid(h, Len(g), piece)
        BY <3>3, <3>4, <3>5, LaidConcat
      <4>. QED
        BY <4>1, <4>2 DEF Laid
    <3>8. ASSUME NEW i \in 1..k PROVE Laid(h, at[i], seqs[i])
      <4>1. Laid(g, at[i], seqs[i]) /\ at[i] \in Nat /\ Len(seqs[i]) \in Nat
        <5>1. i \in 1..n
          BY <1>1, <3>2, <3>8
        <5>2. seqs[i] \in Seq(S)
          BY <1>2, <5>1
        <5>3. Len(seqs[i]) \in Nat
          BY <5>2, LenProperties
        <5>4. Laid(g, at[i], seqs[i]) /\ at[i] \in Nat
          BY <3>3, <3>6, <3>8
        <5>. QED
          BY <5>3, <5>4
      <4>2. Laid(h, 0, g)
        <5>1. \A j \in 1..Len(g) : 0 + j = j
          BY <3>7
        <5>2. 0 + Len(g) <= Len(h)
          BY <3>7
        <5>. QED
          BY <3>7, <5>1, <5>2 DEF Laid
      <4>3. Laid(h, 0 + at[i], seqs[i])
        BY <3>7, <4>1, <4>2, LaidIn
      <4>. QED
        BY <4>1, <4>3
    <3>9. Laid(h, at[k + 1], piece)
      BY <3>3, <3>6, <3>7 DEF Laid
    <3>10. \A i \in 1..k + 1 : i \in 1..k \/ i = k + 1
      BY <3>2
    <3>11. \A i \in 1..k + 1 : Laid(h, at[i], seqs[i])
      BY <3>8, <3>9, <3>10 DEF piece
    <3>12. Len(h) = at[(k + 1) + 1]
      BY <3>3, <3>6, <3>7
    <3>13. Upto(k + 1)
      BY <3>7, <3>11, <3>12 DEF h
    <3>. HIDE DEF Upto
    <3>. QED
      BY <3>2, <3>13
  <2>4. n - 1 \in P
    <3>1. n - 1 \in Nat
      BY <1>1, <1>4
    <3>. HIDE DEF P
    <3>. QED
      BY <2>2, <2>3, <3>1, NatInductive
  <2>5. Upto(n)
    BY <1>1, <1>4, <2>4
  <2>. QED
    BY <2>1, <2>5 DEF n, flat
<1>. QED
  BY <1>3, <1>4

(* Each sequence of sequences has such places.                             *)
LEMMA StartsExist ==
  ASSUME NEW S, NEW seqs \in Seq(Seq(S))
  PROVE  \E at : IsStarts(at, seqs)
<1>. DEFINE n == Len(seqs)
<1>1. n \in Nat /\ \A i \in 1..n : Len(seqs[i]) \in Nat
  BY LenProperties, ElementOfSeq
<1>. HIDE DEF n
<1>. DEFINE Starts(at, m) ==
       /\ at \in [1..m + 1 -> Nat]
       /\ at[1] = 0
       /\ \A i \in 1..m : at[i + 1] = at[i] + Len(seqs[i])
     P == {m \in Nat : m <= n => \E at : Starts(at, m)}
<1>2. 0 \in P
  <2>1. Starts([i \in 1..1 |-> 0], 0)
    OBVIOUS
  <2>. QED
    BY <2>1
<1>3. ASSUME NEW m \in Nat, m \in P PROVE m + 1 \in P
  <2>1. SUFFICES ASSUME m + 1 <= n PROVE \E at : Starts(at, m + 1)
    <3>. HIDE DEF Starts
    <3>. QED
      OBVIOUS
  <2>2. PICK at : Starts(at, m)
    BY <1>1, <1>3, <2>1
  <2>. DEFINE next == at[m + 1] + Len(seqs[m + 1])
              new == [i \in 1..(m + 1) + 1 |-> IF i = m + 2 THEN next ELSE at[i]]
  <2>3. next \in Nat /\ \A i \in 1..m + 1 : at[i] \in Nat
    <3>1. m + 1 \in 1..n /\ m + 1 \in 1..m + 1
      BY <1>1, <2>1
    <3>. QED
      BY <1>1, <2>2, <3>1
  <2>4. \A i \in 1..(m + 1) + 1 : i = m + 2 \/ (i # m + 2 /\ i \in 1..m + 1)
    OBVIOUS
  <2>5. new \in [1..(m + 1) + 1 -> Nat]
    <3>1. ASSUME NEW i \in 1..(m + 1) + 1 PROVE (IF i = m + 2 THEN next ELSE at[i]) \in Nat
      BY <2>3, <2>4
    <3>. HIDE DEF next
    <3>. QED
      BY <3>1
  <2>6. new[1] = 0
    BY <2>2
  <2>7. ASSUME NEW i \in 1..m + 1 PROVE new[i + 1] = new[i] + Len(seqs[i])
    <3>1. i \in 1..(m + 1) + 1 /\ i + 1 \in 1..(m + 1) + 1 /\ i # m + 2
      OBVIOUS
    <3>2. new[i] = at[i] /\ new[i + 1] = IF i + 1 = m + 2 THEN next ELSE at[i + 1]
      BY <3>1
    <3>. HIDE DEF new
    <3>3. CASE i = m + 1
      BY <3>2, <3>3
    <3>4. CASE i # m + 1
      <4>1. i \in 1..m
        BY <3>4
      <4>. QED
        BY <2>2, <3>2, <3>4, <4>1
    <3>. QED
      BY <3>3, <3>4
  <2>. HIDE DEF new
  <2>8. Starts(new, m + 1)
    BY <2>5, <2>6, <2>7
  <2>. QED
    BY <2>8
<1>4. n \in P
  <2>. HIDE DEF P
  <2>. QED
    BY <1>1, <1>2, <1>3, NatInductive
<1>. QED
  BY <1>1, <1>4 DEF IsStarts, n

=============================================================================
