---------------------------- MODULE ResponseProofs ---------------------------
(***************************************************************************)
(* Proofs about how a response is read, for every token, every set of      *)
(* responses, sound or not, and every way in which the network cuts them:  *)
(* what was copied is what follows the token in all that the application   *)
(* was given; and of a sound response the application is given the body,   *)
(* and the jar the cookies.                                                *)
(*                                                                         *)
(* For the first a byte is scanned after the other, wherever the calls     *)
(* begin.  For the second, the parts of a response are laid out in it (a   *)
(* size, a line, a chunk, each at its place), and the invariant says for   *)
(* each state of the parser at which place it is, what it has in its line  *)
(* buffer, and what it has stored or handed on before.                     *)
(***************************************************************************)
EXTENDS Response, SequenceLemmas

-----------------------------------------------------------------------------
(* FOLDS                                                                   *)

(* Scanning data is scanning one byte of it after the other: the fold over *)
(* the places of a sequence, as a function of how many bytes are done.     *)
LEMMA ScanUnfolds ==
  ASSUME NEW S, NEW data \in Seq(S), NEW first
  PROVE  \E f : /\ f[0] = first
                /\ \A i \in 1..Len(data) : f[i] = ScanByte(f[i - 1], data[i])
                /\ FoldLeft(ScanByte, first, data) = f[Len(data)]
<1>. DEFINE
       Unfold(f, n) ==
         [z \in SUBSET (1..n) |->
            IF z = {} THEN first ELSE ScanByte(f[z \ {Max(z)}], data[Max(z)])]
       P == {n \in Nat : \E f : f = Unfold(f, n)}
       n == Len(data)
       iter == CHOOSE f :
                 f = [z \in SUBSET (DOMAIN data) |->
                        IF z = {} THEN first
                        ELSE ScanByte(f[z \ {Max(z)}], data[Max(z)])]
<1>1. FoldLeft(ScanByte, first, data) = iter[DOMAIN data]
  BY Zenon DEF FoldLeft, MapThenFoldSet
<1>2. 0 \in P
  <2>1. [z \in SUBSET (1..0) |-> first] = Unfold([z \in SUBSET (1..0) |-> first], 0)
    OBVIOUS
  <2>. QED
    BY <2>1
<1>3. ASSUME NEW k \in Nat, k \in P PROVE k + 1 \in P
  <2>1. PICK f : f = Unfold(f, k)
    BY <1>3
  <2>. DEFINE g == [z \in SUBSET (1..k + 1) |->
                      IF k + 1 \in z THEN ScanByte(f[z \ {k + 1}], data[k + 1])
                      ELSE f[z]]
  <2>2. ASSUME NEW z \in SUBSET (1..k)
        PROVE  f[z] = IF z = {} THEN first ELSE ScanByte(f[z \ {Max(z)}], data[Max(z)])
    BY <2>1, Zenon
  <2>3. ASSUME NEW z \in SUBSET (1..k + 1), ~(k + 1 \in z)
        PROVE  z \in SUBSET (1..k)
    BY <2>3
  <2>4. ASSUME NEW z \in SUBSET (1..k + 1)
        PROVE  g[z] = IF z = {} THEN first ELSE ScanByte(g[z \ {Max(z)}], data[Max(z)])
    <3>1. CASE k + 1 \in z
      <4>1. Max(z) = k + 1
        BY <3>1, MaxIs
      <4>2. z \ {k + 1} \in SUBSET (1..k + 1) /\ ~(k + 1 \in z \ {k + 1})
        OBVIOUS
      <4>3. g[z \ {k + 1}] = f[z \ {k + 1}]
        BY <4>2, Zenon
      <4>4. g[z] = ScanByte(f[z \ {k + 1}], data[k + 1])
        BY <3>1, Zenon
      <4>. HIDE DEF g
      <4>. QED
        BY <3>1, <4>1, <4>3, <4>4, Zenon
    <3>2. CASE ~(k + 1 \in z)
      <4>1. z \ {Max(z)} \in SUBSET (1..k + 1) /\ ~(k + 1 \in z \ {Max(z)})
        BY <3>2
      <4>2. g[z] = f[z] /\ g[z \ {Max(z)}] = f[z \ {Max(z)}]
        BY <3>2, <4>1, Zenon
      <4>3. z \in SUBSET (1..k)
        BY <2>3, <3>2
      <4>. HIDE DEF g
      <4>. QED
        BY <2>2, <4>2, <4>3, Zenon
    <3>. QED
      BY <3>1, <3>2
  <2>5. g = Unfold(g, k + 1)
    <3>1. g = [z \in SUBSET (1..k + 1) |-> g[z]]
      BY Zenon
    <3>. HIDE DEF g
    <3>. QED
      BY <2>4, <3>1, Zenon
  <2>. HIDE DEF g, Unfold
  <2>. QED
    BY <2>5
<1>4. n \in Nat /\ DOMAIN data = 1..n
  BY LenProperties
<1>5. n \in P
  <2>. HIDE DEF P, n
  <2>. QED
    BY <1>2, <1>3, <1>4, NatInductive
<1>6. iter = Unfold(iter, n)
  <2>1. \E f : f = Unfold(f, n)
    BY <1>5, Zenon
  <2>2. iter = CHOOSE f : f = Unfold(f, n)
    BY <1>4, Zenon
  <2>. HIDE DEF Unfold, n, iter
  <2>. QED
    BY <2>1, <2>2, Zenon
<1>. HIDE DEF iter, n
<1>. DEFINE f == [i \in 0..n |-> iter[1..i]]
<1>7. f[0] = first
  <2>1. iter[{}] = first
    BY <1>6, Zenon
  <2>2. 1..0 = {} /\ 0 \in 0..n
    BY <1>4
  <2>. QED
    BY <2>1, <2>2, Zenon
<1>8. ASSUME NEW i \in 1..n PROVE f[i] = ScanByte(f[i - 1], data[i])
  <2>0. i \in Nat /\ 1 <= i /\ i <= n
    BY <1>4
  <2>1. /\ 1..i \in SUBSET (1..n) /\ 1..i # {}
        /\ i \in 0..n /\ i - 1 \in 0..n
        /\ (1..i) \ {i} = 1..i - 1
    <3>1. 1 \in 1..i /\ i \in 0..n /\ i - 1 \in 0..n
      BY <1>4, <2>0
    <3>2. \A j \in 1..i : j \in 1..n
      BY <1>4, <2>0
    <3>3. (1..i) \ {i} = 1..i - 1
      BY <2>0
    <3>. QED
      BY <3>1, <3>2, <3>3, Zenon
  <2>2. Max(1..i) = i
    <3>1. i - 1 \in Nat /\ (i - 1) + 1 = i /\ i \in 1..i
      BY <1>4
    <3>. QED
      BY <3>1, MaxIs
  <2>3. iter[1..i] = ScanByte(iter[(1..i) \ {Max(1..i)}], data[Max(1..i)])
    BY <1>6, <2>1, Zenon
  <2>. QED
    BY <2>1, <2>2, <2>3, Zenon
<1>9. FoldLeft(ScanByte, first, data) = f[n]
  <2>1. n \in 0..n
    BY <1>4
  <2>. QED
    BY <1>1, <1>4, <2>1, Zenon
<1>. HIDE DEF f
<1>. QED
  BY <1>7, <1>8, <1>9, Zenon DEF n

-----------------------------------------------------------------------------
(* THE SCANNER, BYTE BY BYTE                                               *)

(* The length of the token.                                                *)
L == Len(Token)

(* The token is in the text at i.                                          *)
At(text, i) ==
  /\ i + L - 1 <= Len(text)
  /\ \A k \in 1..L : text[i + k - 1] = Token[k]

(* What the text has from i on is the token, or the text ends in it.       *)
Begins(text, i) ==
  \A k \in 1..Len(text) - i + 1 : k <= L => text[i + k - 1] = Token[k]

(* No earlier start of the token runs into i.                              *)
Unmixed(text, i) ==
  \A n \in 1..L - 1 : i > n => \E k \in 1..n : text[i - n + k - 1] # Token[k]

(* scan_token after all of the text, with p bytes of the token behind it:  *)
(* they are the end of the text, and an occurrence that has begun and that *)
(* no other start runs into began with them.                               *)
Seeking(text, p) ==
  /\ p \in 0..L - 1
  /\ p <= Len(text)
  /\ \A k \in 1..p : text[Len(text) - p + k] = Token[k]
  /\ \A i \in 1..Len(text) :
       Unmixed(text, i) /\ Begins(text, i) => Len(text) - i + 1 = p

(* The value follows the token at i, without what ends it.                 *)
Copies(text, value, i) ==
  /\ At(text, i)
  /\ i + L - 1 + Len(value) <= Len(text)
  /\ \A k \in 1..Len(value) : value[k] = text[i + L - 1 + k] /\ value[k] # EndChar

(* What the scanner says of all of the text: it seeks, or copies a value   *)
(* that the text ends in, or has copied one that ends.                     *)
Scans(text, s) ==
  \/ s.match = 0 /\ Seeking(text, s.position)
  \/ /\ s.match = 1
     /\ \E i \in 1..Len(text) :
          Copies(text, s.text, i) /\ i + L - 1 + Len(s.text) = Len(text)
  \/ /\ s.match = 2
     /\ \E i \in 1..Len(text) :
          /\ Copies(text, s.text, i)
          /\ i + L - 1 + Len(s.text) < Len(text)
          /\ text[i + L - 1 + Len(s.text) + 1] = EndChar

(* The token is not empty.                                                 *)
LEMMA TokenLength == L \in Nat /\ L > 0
BY TokenAssumption, ResponseAssumption, EmptySeq, LenProperties DEF L

(* One byte of scan_token: the wrong one starts again, the right one goes  *)
(* on, and the last one completes the token there.                         *)
LEMMA SeekByte ==
  ASSUME NEW S, NEW text \in Seq(S), NEW c \in S, NEW p, Seeking(text, p)
  PROVE  /\ c # Token[p + 1] => Seeking(Append(text, c), 0)
         /\ c = Token[p + 1] /\ p + 1 < L => Seeking(Append(text, c), p + 1)
         /\ c = Token[p + 1] /\ p + 1 = L => 
              /\ Len(Append(text, c)) - L + 1 \in 1..Len(Append(text, c))
              /\ At(Append(text, c), Len(Append(text, c)) - L + 1)
<1>. DEFINE t == Append(text, c)
            m == Len(text)
<1>1. /\ L \in Nat /\ L > 0 /\ m \in Nat /\ p \in Nat /\ p < L /\ p <= m
      /\ \A k \in 1..p : text[m - p + k] = Token[k]
  BY TokenLength, LenProperties DEF Seeking
<1>2. /\ Len(t) = m + 1
      /\ \A j \in 1..m : t[j] = text[j]
      /\ t[m + 1] = c
  BY AppendProperties
<1>3. ASSUME NEW i \in 1..m, Unmixed(text, i), Begins(text, i)
      PROVE  m - i + 1 = p
  BY <1>3, Zenon DEF Seeking, m
<1>. HIDE DEF t, m
<1>4. ASSUME NEW i \in 1..m, Unmixed(t, i) PROVE Unmixed(text, i)
  <2>1. ASSUME NEW n \in 1..L - 1, i > n, NEW k \in 1..n
        PROVE  t[i - n + k - 1] = text[i - n + k - 1]
    <3>1. i - n + k - 1 \in 1..m
      BY <1>1, <2>1
    <3>. QED
      BY <1>2, <3>1
  <2>. QED
    BY <1>4, <2>1 DEF Unmixed
<1>5. ASSUME NEW i \in 1..m, Begins(t, i) PROVE Begins(text, i)
  <2>1. ASSUME NEW k \in 1..m - i + 1, k <= L PROVE text[i + k - 1] = Token[k]
    <3>1. i + k - 1 \in 1..m /\ k \in 1..(m + 1) - i + 1
      BY <1>1, <2>1
    <3>2. t[i + k - 1] = Token[k]
      BY <1>2, <1>5, <2>1, <3>1 DEF Begins
    <3>. QED
      BY <1>2, <3>1, <3>2
  <2>. QED
    BY <2>1 DEF Begins, m
<1>6. ASSUME NEW i \in 1..m + 1, Unmixed(t, i), Begins(t, i)
      PROVE  c = Token[p + 1] /\ (m + 1) - i + 1 = p + 1
  <2>1. CASE i \in 1..m
    <3>1. m - i + 1 = p
      BY <1>3, <1>4, <1>5, <1>6, <2>1
    <3>2. p + 1 \in 1..(m + 1) - i + 1 /\ p + 1 <= L /\ i + (p + 1) - 1 = m + 1
      BY <1>1, <3>1
    <3>3. t[i + (p + 1) - 1] = Token[p + 1]
      BY <1>2, <1>6, <3>2 DEF Begins
    <3>. QED
      BY <1>1, <1>2, <3>1, <3>2, <3>3
  <2>2. CASE i = m + 1
    <3>1. 1 \in 1..(m + 1) - i + 1 /\ 1 <= L /\ i + 1 - 1 = m + 1
      BY <1>1, <2>2
    <3>2. t[m + 1] = Token[1]
      BY <1>2, <1>6, <3>1 DEF Begins
    <3>3. ASSUME p # 0 PROVE FALSE
      <4>1. p \in 1..L - 1 /\ i > p
        BY <1>1, <2>2, <3>3
      <4>2. PICK k \in 1..p : t[i - p + k - 1] # Token[k]
        BY <1>6, <4>1 DEF Unmixed
      <4>3. i - p + k - 1 = m - p + k /\ m - p + k \in 1..m
        BY <1>1, <2>2
      <4>. QED
        BY <1>1, <1>2, <4>2, <4>3
    <3>. QED
      BY <1>1, <1>2, <2>2, <3>2, <3>3
  <2>. QED
    <3>1. i \in 1..m \/ i = m + 1
      BY <1>1
    <3>. QED
      BY <2>1, <2>2, <3>1, Zenon
<1>7. ASSUME c # Token[p + 1] PROVE Seeking(t, 0)
  <2>1. 0 \in 0..L - 1 /\ 0 <= Len(t)
    BY <1>1, <1>2
  <2>2. ASSUME NEW k \in 1..0 PROVE t[Len(t) - 0 + k] = Token[k]
    OBVIOUS
  <2>3. ASSUME NEW i \in 1..Len(t), Unmixed(t, i), Begins(t, i)
        PROVE  FALSE
    BY <1>2, <1>6, <1>7, <2>3
  <2>. QED
    BY <2>1, <2>2, <2>3, Zenon DEF Seeking
<1>8. ASSUME c = Token[p + 1], NEW k \in 1..p + 1
      PROVE  t[(m + 1) - (p + 1) + k] = Token[k]
  <2>1. CASE k \in 1..p
    <3>1. (m + 1) - (p + 1) + k = m - p + k /\ m - p + k \in 1..m
      BY <1>1, <2>1
    <3>. QED
      BY <1>1, <1>2, <2>1, <3>1
  <2>2. CASE k = p + 1
    <3>1. (m + 1) - (p + 1) + k = m + 1
      BY <1>1, <2>2
    <3>. QED
      BY <1>2, <1>8, <2>2, <3>1
  <2>. QED
    BY <1>1, <2>1, <2>2
<1>9. ASSUME c = Token[p + 1], p + 1 < L PROVE Seeking(t, p + 1)
  <2>1. p + 1 \in 0..L - 1 /\ p + 1 <= Len(t)
    BY <1>1, <1>2, <1>9
  <2>. QED
    BY <1>2, <1>6, <1>8, <1>9, <2>1 DEF Seeking
<1>10. ASSUME c = Token[p + 1], p + 1 = L
       PROVE  Len(t) - L + 1 \in 1..Len(t) /\ At(t, Len(t) - L + 1)
  <2>1. Len(t) - L + 1 \in 1..Len(t) /\ (Len(t) - L + 1) + L - 1 <= Len(t)
    BY <1>1, <1>2, <1>10
  <2>2. ASSUME NEW k \in 1..L PROVE t[(Len(t) - L + 1) + k - 1] = Token[k]
    <3>1. k \in 1..p + 1
      BY <1>1, <1>10
    <3>2. (Len(t) - L + 1) + k - 1 = (m + 1) - (p + 1) + k
      BY <1>1, <1>2, <1>10
    <3>. QED
      BY <1>8, <1>10, <3>1, <3>2
  <2>. QED
    BY <2>1, <2>2 DEF At
<1>. QED
  BY <1>7, <1>9, <1>10 DEF t

(* A value that was copied stays one when the text goes on, and goes on    *)
(* with it.                                                                *)
LEMMA CopyByte ==
  ASSUME NEW S, NEW text \in Seq(S), NEW c \in S, NEW value \in Seq(S),
         NEW i \in 1..Len(text), Copies(text, value, i)
  PROVE  /\ Copies(Append(text, c), value, i)
         /\ c # EndChar /\ i + L - 1 + Len(value) = Len(text) =>
              Copies(Append(text, c), Append(value, c), i)
<1>. DEFINE t == Append(text, c)
            m == Len(text)
            l == Len(value)
            v == Append(value, c)
<1>1. L \in Nat /\ m \in Nat /\ l \in Nat
  BY TokenLength, LenProperties
<1>2. /\ Len(t) = m + 1
      /\ \A j \in 1..m : t[j] = text[j]
      /\ t[m + 1] = c
  BY AppendProperties
<1>3. /\ Len(v) = l + 1
      /\ \A j \in 1..l : v[j] = value[j]
      /\ v[l + 1] = c
  BY AppendProperties
<1>4. /\ i + L - 1 + l <= m
      /\ \A k \in 1..L : text[i + k - 1] = Token[k]
      /\ \A k \in 1..l : value[k] = text[i + L - 1 + k] /\ value[k] # EndChar
  BY DEF Copies, At
<1>. HIDE DEF t, m, v, l
<1>5. At(t, i)
  <2>1. \A k \in 1..L : i + k - 1 \in 1..m
    BY <1>1, <1>4 DEF m
  <2>2. i + L - 1 <= m + 1
    BY <1>1, <1>4
  <2>. QED
    BY <1>2, <1>4, <2>1, <2>2 DEF At
<1>6. ASSUME NEW k \in 1..l
      PROVE  value[k] = t[i + L - 1 + k] /\ value[k] # EndChar
  <2>1. i + L - 1 + k \in 1..m
    BY <1>1, <1>4 DEF m
  <2>. QED
    BY <1>2, <1>4, <2>1
<1>7. i + L - 1 + l <= m + 1
  BY <1>1, <1>4
<1>8. Copies(t, value, i)
  BY <1>2, <1>5, <1>6, <1>7 DEF Copies, l
<1>9. ASSUME c # EndChar, i + L - 1 + l = m
      PROVE  Copies(t, v, i)
  <2>1. i + L - 1 + (l + 1) <= m + 1
    BY <1>1, <1>9
  <2>2. ASSUME NEW k \in 1..l + 1
        PROVE  v[k] = t[i + L - 1 + k] /\ v[k] # EndChar
    <3>1. CASE k \in 1..l
      BY <1>3, <1>6, <3>1
    <3>2. CASE k = l + 1
      <4>1. i + L - 1 + k = m + 1
        BY <1>1, <1>9, <3>2
      <4>. QED
        BY <1>2, <1>3, <1>9, <3>2, <4>1
    <3>. QED
      BY <1>1, <3>1, <3>2
  <2>. QED
    BY <1>2, <1>3, <1>5, <2>1, <2>2 DEF Copies
<1>. QED
  BY <1>8, <1>9 DEF t, v, l, m

(* The states of the scanner.                                              *)
ScanOf(S) == [match : 0..2, position : Nat, text : Seq(S)]

(* With one byte more, the scanner says of all of the text what it said    *)
(* before.                                                                 *)
LEMMA ByteScans ==
  ASSUME NEW S, NEW text \in Seq(S), NEW c \in S, NEW s \in ScanOf(S),
         Scans(text, s)
  PROVE  ScanByte(s, c) \in ScanOf(S) /\ Scans(Append(text, c), ScanByte(s, c))
<1>. DEFINE t == Append(text, c)
            r == ScanByte(s, c)
            m == Len(text)
<1>1. /\ m \in Nat /\ Len(t) = m + 1 /\ t \in Seq(S)
      /\ \A j \in 1..m : t[j] = text[j]
      /\ t[m + 1] = c
  BY AppendProperties, LenProperties
<1>2. s.match \in 0..2 /\ s.position \in Nat /\ s.text \in Seq(S)
  BY DEF ScanOf
<1>3. s = [match |-> s.match, position |-> s.position, text |-> s.text]
  BY DEF ScanOf
<1>0. SUFFICES r \in ScanOf(S) /\ Scans(t, r)
  OBVIOUS
<1>. HIDE DEF t, r
<1>4. CASE s.match = 0
  <2>. DEFINE p == s.position
  <2>1. Seeking(text, p)
    BY <1>4 DEF Scans
  <2>2. p \in Nat /\ p < L /\ p <= m
    BY <1>2, <2>1, TokenLength DEF Seeking
  <2>3. CASE c # Token[p + 1]
    <3>1. r = [s EXCEPT !.position = 0]
      BY <1>4, <2>3 DEF ScanByte, r
    <3>2. r \in ScanOf(S) /\ r.match = 0 /\ r.position = 0
      BY <1>2, <1>3, <1>4, <3>1 DEF ScanOf
    <3>3. Seeking(t, 0)
      BY <2>1, <2>3, SeekByte DEF t
    <3>. QED
      BY <3>2, <3>3 DEF Scans
  <2>4. CASE c = Token[p + 1] /\ p + 1 # L
    <3>1. r = [s EXCEPT !.position = p + 1]
      BY <1>4, <2>4 DEF ScanByte, L, r
    <3>2. r \in ScanOf(S) /\ r.match = 0 /\ r.position = p + 1
      BY <1>2, <1>3, <1>4, <2>2, <3>1 DEF ScanOf
    <3>3. p + 1 < L
      BY <2>2, <2>4, TokenLength
    <3>4. Seeking(t, p + 1)
      BY <2>1, <2>4, <3>3, SeekByte DEF t
    <3>. QED
      BY <3>2, <3>4 DEF Scans
  <2>5. CASE c = Token[p + 1] /\ p + 1 = L
    <3>. DEFINE i == Len(t) - L + 1
    <3>1. r = [match |-> 1, position |-> 0, text |-> <<>>]
      BY <1>4, <2>5 DEF ScanByte, L, r
    <3>2. r \in ScanOf(S) /\ r.match = 1 /\ r.text = <<>> /\ Len(r.text) = 0
      BY <3>1 DEF ScanOf
    <3>3. i \in 1..Len(t) /\ At(t, i)
      BY <2>1, <2>5, SeekByte DEF t
    <3>4. i + L - 1 + 0 = Len(t)
      BY <1>1, TokenLength
    <3>. HIDE DEF i
    <3>5. Copies(t, r.text, i)
      BY <1>1, <3>2, <3>3, <3>4 DEF Copies
    <3>6. i + L - 1 + Len(r.text) = Len(t)
      BY <3>2, <3>4
    <3>. QED
      BY <3>2, <3>3, <3>5, <3>6, Zenon DEF Scans
  <2>. QED
    BY <2>3, <2>4, <2>5
<1>5. CASE s.match = 1
  <2>. DEFINE value == s.text
  <2>1. PICK i \in 1..m :
          Copies(text, value, i) /\ i + L - 1 + Len(value) = m
    BY <1>5 DEF Scans
  <2>2. /\ Copies(t, value, i)
        /\ c # EndChar => Copies(t, Append(value, c), i)
    BY <1>2, <2>1, CopyByte DEF t
  <2>3. i \in 1..Len(t)
    BY <1>1
  <2>4. Len(value) \in Nat /\ Len(Append(value, c)) = Len(value) + 1
        /\ Append(value, c) \in Seq(S)
    BY <1>2, AppendProperties, LenProperties
  <2>5. CASE c # EndChar
    <3>1. r = [s EXCEPT !.text = Append(value, c)]
      BY <1>5, <2>5 DEF ScanByte, r
    <3>2. r \in ScanOf(S) /\ r.match = 1 /\ r.text = Append(value, c)
      BY <1>2, <1>3, <1>5, <2>4, <3>1 DEF ScanOf
    <3>3. i + L - 1 + Len(r.text) = Len(t)
      <4>. DEFINE l == Len(value)
                  k == Len(r.text)
      <4>1. l \in Nat /\ k = l + 1 /\ i + L - 1 + l = m /\ i \in Nat
        BY <1>1, <2>1, <2>4, <3>2
      <4>. HIDE DEF l, k, m, value
      <4>2. i + L - 1 + k = m + 1
        BY <1>1, <4>1, TokenLength
      <4>. QED
        BY <1>1, <4>2 DEF k
    <3>. QED
      BY <2>2, <2>3, <2>5, <3>2, <3>3, Zenon DEF Scans
  <2>6. CASE c = EndChar
    <3>1. r = [s EXCEPT !.match = 2]
      BY <1>5, <2>6 DEF ScanByte, r
    <3>2. r \in ScanOf(S) /\ r.match = 2 /\ r.text = value
      BY <1>2, <1>3, <1>5, <3>1 DEF ScanOf
    <3>3. /\ i + L - 1 + Len(r.text) < Len(t)
          /\ i + L - 1 + Len(r.text) + 1 = m + 1
      <4>. DEFINE k == Len(r.text)
      <4>1. k \in Nat /\ i + L - 1 + k = m /\ i \in Nat
        BY <1>1, <2>1, <2>4, <3>2
      <4>. HIDE DEF k, m, value
      <4>2. i + L - 1 + k < m + 1 /\ i + L - 1 + k + 1 = m + 1
        BY <1>1, <4>1, TokenLength
      <4>. QED
        BY <1>1, <4>2 DEF k
    <3>4. t[i + L - 1 + Len(r.text) + 1] = EndChar
      BY <1>1, <2>6, <3>3
    <3>. QED
      BY <2>2, <2>3, <3>2, <3>3, <3>4, Zenon DEF Scans
  <2>. QED
    BY <2>5, <2>6
<1>6. CASE s.match = 2
  <2>1. r = s
    BY <1>6 DEF ScanByte, r
  <2>2. PICK i \in 1..m :
          /\ Copies(text, s.text, i)
          /\ i + L - 1 + Len(s.text) < m
          /\ text[i + L - 1 + Len(s.text) + 1] = EndChar
    BY <1>6 DEF Scans
  <2>3. Copies(t, s.text, i)
    BY <1>2, <2>2, CopyByte DEF t
  <2>4. Len(s.text) \in Nat
    BY <1>2, LenProperties
  <2>5. /\ i \in 1..Len(t)
        /\ i + L - 1 + Len(s.text) < Len(t)
        /\ i + L - 1 + Len(s.text) + 1 \in 1..m
    <3>. DEFINE k == Len(s.text)
    <3>1. k \in Nat /\ i + L - 1 + k < m /\ i \in 1..m
      BY <2>2, <2>4
    <3>. HIDE DEF k, m
    <3>2. /\ i \in 1..m + 1
          /\ i + L - 1 + k < m + 1
          /\ i + L - 1 + k + 1 \in 1..m
      BY <1>1, <3>1, TokenLength
    <3>. QED
      BY <1>1, <3>2 DEF k, m
  <2>6. t[i + L - 1 + Len(s.text) + 1] = EndChar
    BY <1>1, <2>2, <2>5
  <2>. QED
    BY <1>6, <2>1, <2>3, <2>5, <2>6, Zenon DEF Scans
<1>. QED
  BY <1>2, <1>4, <1>5, <1>6

(* So it does with all the data of a call, wherever the text was cut.      *)
LEMMA DataScans ==
  ASSUME NEW S, NEW text \in Seq(S), NEW data \in Seq(S), NEW s \in ScanOf(S),
         Scans(text, s)
  PROVE  /\ FoldLeft(ScanByte, s, data) \in ScanOf(S)
         /\ Scans(text \o data, FoldLeft(ScanByte, s, data))
<1>. DEFINE n == Len(data)
            upto(k) == text \o SubSeq(data, 1, k)
<1>1. PICK f : /\ f[0] = s
               /\ \A i \in 1..n : f[i] = ScanByte(f[i - 1], data[i])
               /\ FoldLeft(ScanByte, s, data) = f[n]
  BY ScanUnfolds
<1>. DEFINE P == {k \in Nat : k <= n => f[k] \in ScanOf(S) /\ Scans(upto(k), f[k])}
<1>2. n \in Nat
  BY LenProperties
<1>3. 0 \in P
  <2>1. SubSeq(data, 1, 0) = <<>>
    BY SubSeqEmpty
  <2>2. upto(0) = text
    BY <2>1, ConcatEmptySeq
  <2>. QED
    BY <1>1, <2>2
<1>4. ASSUME NEW k \in Nat, k \in P PROVE k + 1 \in P
  <2>1. SUFFICES ASSUME k + 1 <= n
                 PROVE  f[k + 1] \in ScanOf(S) /\ Scans(upto(k + 1), f[k + 1])
    OBVIOUS
  <2>2. f[k] \in ScanOf(S) /\ Scans(upto(k), f[k])
    BY <1>2, <1>4, <2>1
  <2>3. k + 1 \in 1..n /\ k \in 0..n
    BY <1>2, <2>1
  <2>4. data[k + 1] \in S /\ (k + 1) - 1 = k
    BY <2>3, ElementOfSeq
  <2>5. f[k + 1] = ScanByte(f[k], data[k + 1])
    BY <1>1, <2>3, <2>4
  <2>. DEFINE before == SubSeq(data, 1, k)
              one == SubSeq(data, 1, k + 1)
  <2>6. before \in Seq(S) /\ Len(before) = k /\ \A j \in 1..k : before[j] = data[j]
    BY <2>3, SubSeqProperties
  <2>7. one \in Seq(S) /\ Len(one) = k + 1 /\ \A j \in 1..k + 1 : one[j] = data[j]
    BY <2>3, SubSeqProperties
  <2>. HIDE DEF before, one
  <2>8. one = Append(before, data[k + 1])
    <3>. DEFINE a == Append(before, data[k + 1])
    <3>1. /\ a \in Seq(S) /\ Len(a) = k + 1 /\ a[k + 1] = data[k + 1]
          /\ \A j \in 1..k : a[j] = before[j]
      BY <2>4, <2>6, AppendProperties
    <3>. HIDE DEF a
    <3>2. \A j \in 1..k + 1 : one[j] = a[j]
      BY <2>6, <2>7, <3>1
    <3>3. one = a
      BY <2>7, <3>1, <3>2, SeqEqual
    <3>. QED
      BY <3>3 DEF a
  <2>9. text \o Append(before, data[k + 1]) = Append(text \o before, data[k + 1])
    <3>. DEFINE x == text \o Append(before, data[k + 1])
                y == Append(text \o before, data[k + 1])
                m == Len(text)
                a == Append(before, data[k + 1])
                b == text \o before
    <3>0. m \in Nat
      BY LenProperties
    <3>1. /\ a \in Seq(S) /\ Len(a) = k + 1 /\ a[k + 1] = data[k + 1]
          /\ \A j \in 1..k : a[j] = before[j]
      BY <2>4, <2>6, AppendProperties
    <3>2. /\ b \in Seq(S) /\ Len(b) = m + k
          /\ \A j \in 1..m + k : b[j] = IF j <= m THEN text[j] ELSE before[j - m]
      BY <2>6, ConcatProperties
    <3>. HIDE DEF a, b, m
    <3>3. /\ x \in Seq(S) /\ Len(x) = m + (k + 1)
          /\ \A j \in 1..m + (k + 1) : x[j] = IF j <= m THEN text[j] ELSE a[j - m]
      <4>1. x = text \o a
        BY DEF a
      <4>. HIDE DEF x
      <4>2. /\ text \o a \in Seq(S) /\ Len(text \o a) = m + (k + 1)
            /\ \A j \in 1..m + (k + 1) :
                 (text \o a)[j] = IF j <= m THEN text[j] ELSE a[j - m]
        <5>. DEFINE l == Len(a)
                    z == text \o a
        <5>1. /\ z \in Seq(S) /\ Len(z) = m + l
              /\ \A j \in 1..m + l : z[j] = IF j <= m THEN text[j] ELSE a[j - m]
          BY <3>1, ConcatProperties DEF m
        <5>2. l = k + 1
          BY <3>1
        <5>. HIDE DEF l, z
        <5>. QED
          BY <5>1, <5>2 DEF z
      <4>. QED
        BY <4>1, <4>2
    <3>4. /\ y \in Seq(S) /\ Len(y) = (m + k) + 1 /\ y[(m + k) + 1] = data[k + 1]
          /\ \A j \in 1..m + k : y[j] = b[j]
      BY <2>4, <3>2, AppendProperties DEF b
    <3>. HIDE DEF x, y
    <3>5. ASSUME NEW j \in 1..m + (k + 1) PROVE x[j] = y[j]
      <4>1. CASE j \in 1..m + k
        <5>1. j > m => j - m \in 1..k
          BY <3>0, <4>1
        <5>2. j \in 1..m + (k + 1) /\ x[j] = IF j <= m THEN text[j] ELSE a[j - m]
          BY <3>3
        <5>3. y[j] = b[j] /\ b[j] = IF j <= m THEN text[j] ELSE before[j - m]
          BY <3>2, <3>4, <4>1
        <5>4. j > m => a[j - m] = before[j - m]
          BY <3>1, <5>1
        <5>5. j <= m \/ j > m
          BY <3>0, <4>1
        <5>. QED
          BY <5>2, <5>3, <5>4, <5>5
      <4>2. CASE j = m + (k + 1)
        <5>1. ~(j <= m) /\ j - m = k + 1 /\ j = (m + k) + 1
          BY <3>0, <4>2
        <5>. QED
          BY <3>1, <3>3, <3>4, <5>1
      <4>. QED
        BY <3>0, <4>1, <4>2
    <3>6. x = y
      BY <3>0, <3>3, <3>4, <3>5, SeqEqual
    <3>. QED
      BY <3>6 DEF x, y
  <2>10. upto(k) \in Seq(S)
    BY <2>6, ConcatProperties DEF before
  <2>11. upto(k + 1) = Append(upto(k), data[k + 1])
    BY <2>8, <2>9 DEF one, before
  <2>. HIDE DEF upto, P
  <2>. QED
    BY <2>2, <2>4, <2>5, <2>10, <2>11, ByteScans
<1>5. n \in P
  <2>. HIDE DEF P, n
  <2>. QED
    BY <1>2, <1>3, <1>4, NatInductive
<1>6. upto(n) = text \o data
  BY SubSeqFull
<1>7. f[n] \in ScanOf(S) /\ Scans(upto(n), f[n])
  BY <1>2, <1>5
<1>. QED
  BY <1>1, <1>6, <1>7

-----------------------------------------------------------------------------
(* WHAT IT FOUND                                                           *)

(* Occurs, place by place.                                                 *)
LEMMA OccursAt ==
  ASSUME NEW S, NEW text \in Seq(S), NEW i \in 1..Len(text)
  PROVE  Occurs(text, i) <=> At(text, i)
<1>. DEFINE m == Len(text)
            rest == SubSeq(text, i, m)
            token == SubSeq(Token, 1, L)
            head == SubSeq(rest, 1, L)
<1>1. L \in Nat /\ L > 0 /\ m \in Nat
  BY TokenLength, LenProperties
<1>2. /\ rest \in Seq(S) /\ Len(rest) = m - i + 1
      /\ \A k \in 1..m - i + 1 : rest[k] = text[i + k - 1]
  <2>1. \A j \in i..m : text[j] \in S
    BY <1>1, ElementOfSeq
  <2>. QED
    BY <1>1, <2>1, SubSeqProperties
<1>3. Token \in Seq(STRING) /\ Len(Token) = L
  BY TokenAssumption DEF L
<1>4. /\ token \in Seq(STRING) /\ Len(token) = L
      /\ \A k \in 1..L : token[k] = Token[k]
  <2>1. token = Token
    BY <1>3, SubSeqFull
  <2>. QED
    BY <1>3, <2>1
<1>. HIDE DEF rest, token, m
<1>5. ASSUME L <= Len(rest)
      PROVE  /\ head \in Seq(S) /\ Len(head) = L
             /\ \A k \in 1..L : head[k] = rest[k]
  <2>1. \A j \in 1..L : rest[j] \in S
    BY <1>1, <1>2, <1>5, ElementOfSeq
  <2>. QED
    BY <1>1, <2>1, SubSeqProperties
<1>. HIDE DEF head
<1>6. ASSUME L <= Len(rest) PROVE \A k \in 1..L : head[k] = text[i + k - 1]
  BY <1>1, <1>2, <1>5, <1>6 DEF m
<1>7. ASSUME L <= Len(rest), token = head PROVE At(text, i)
  <2>1. i + L - 1 <= m
    BY <1>1, <1>2, <1>7 DEF m
  <2>. QED
    BY <1>4, <1>6, <1>7, <2>1 DEF At, m
<1>8. ASSUME At(text, i) PROVE L <= Len(rest) /\ token = head
  <2>1. L <= Len(rest)
    <3>1. i + L - 1 <= m
      BY <1>8 DEF At, m
    <3>. QED
      BY <1>1, <1>2, <3>1 DEF m
  <2>2. \A k \in 1..L : token[k] = head[k]
    BY <1>4, <1>6, <1>8, <2>1 DEF At
  <2>3. Len(head) = L /\ \E T : head \in Seq(T)
    BY <1>5, <2>1
  <2>. QED
    BY <1>4, <2>1, <2>2, <2>3, SeqEqual
<1>9. Occurs(text, i) <=> L <= Len(rest) /\ token = head
  BY Zenon DEF Occurs, IsPrefix, rest, token, head, m, L
<1>. QED
  BY <1>7, <1>8, <1>9

(* Clean, place by place.                                                  *)
LEMMA CleanIsUnmixed ==
  ASSUME NEW S, NEW text \in Seq(S), NEW i \in 1..Len(text), Clean(text, i)
  PROVE  Unmixed(text, i)
<1>1. SUFFICES ASSUME NEW n \in 1..L - 1, i > n,
                      \A k \in 1..n : text[i - n + k - 1] = Token[k]
               PROVE  FALSE
  BY DEF Unmixed
<1>. DEFINE a == SubSeq(text, i - n, i - 1)
            b == SubSeq(Token, 1, n)
<1>2. L \in Nat /\ Len(text) \in Nat /\ Len(Token) = L /\ Token \in Seq(STRING)
  BY TokenLength, TokenAssumption, LenProperties DEF L
<1>3. a \in Seq(S) /\ Len(a) = n /\ \A k \in 1..n : a[k] = text[i - n + k - 1]
  <2>1. \A j \in i - n..i - 1 : text[j] \in S
    BY <1>1, <1>2, ElementOfSeq
  <2>. QED
    BY <1>1, <1>2, <2>1, SubSeqProperties
<1>4. b \in Seq(STRING) /\ Len(b) = n /\ \A k \in 1..n : b[k] = Token[k]
  <2>1. \A j \in 1..n : Token[j] \in STRING
    BY <1>2, ElementOfSeq
  <2>. QED
    BY <1>1, <1>2, <2>1, SubSeqProperties
<1>. HIDE DEF a, b
<1>5. a = b
  <2>1. \A k \in 1..n : a[k] = b[k]
    BY <1>1, <1>3, <1>4
  <2>. QED
    BY <1>3, <1>4, <2>1, SeqEqual
<1>. QED
  BY <1>1, <1>5 DEF Clean, L, a, b

(* The first place in a sequence that holds an element, which SelectInSeq  *)
(* looks for; 0 if there is none.                                          *)
First(seq, e) ==
  LET I == {j \in 1..Len(seq) : seq[j] = e}
  IN IF I # {} THEN Min(I) ELSE 0

(* The first place is the one that no other one is before.                 *)
LEMMA FirstIs ==
  ASSUME NEW seq, NEW e, NEW n \in 1..Len(seq), Len(seq) \in Nat, seq[n] = e,
         \A k \in 1..n - 1 : seq[k] # e
  PROVE  First(seq, e) = n
<1>. DEFINE I == {j \in 1..Len(seq) : seq[j] = e}
<1>1. n \in I
  OBVIOUS
<1>2. ASSUME NEW x \in I PROVE x \in Nat /\ n <= x
  <2>1. x \in Nat /\ x >= 1 /\ ~(x \in 1..n - 1)
    OBVIOUS
  <2>. QED
    BY <2>1
<1>3. \A x \in I : (\A y \in I : x <= y) <=> x = n
  <2>. HIDE DEF I
  <2>. QED
    BY <1>1, <1>2
<1>4. Min(I) = n
  <2>. HIDE DEF I
  <2>. QED
    BY <1>1, <1>3, Zenon DEF Min
<1>5. First(seq, e) = IF I # {} THEN Min(I) ELSE 0
  BY Zenon DEF First
<1>. HIDE DEF I
<1>. QED
  BY <1>1, <1>4, <1>5, Zenon

(* There is none in a sequence that does not hold the element.             *)
LEMMA NoneIs ==
  ASSUME NEW seq, NEW e, \A k \in 1..Len(seq) : seq[k] # e
  PROVE  First(seq, e) = 0
<1>. DEFINE I == {j \in 1..Len(seq) : seq[j] = e}
<1>1. I = {}
  OBVIOUS
<1>2. First(seq, e) = IF I # {} THEN Min(I) ELSE 0
  BY Zenon DEF First
<1>. HIDE DEF I
<1>. QED
  BY <1>1, <1>2, Zenon

(* A value that was copied to the end of the text, or to what ends it, is  *)
(* the value at that place.                                                *)
LEMMA ValueIs ==
  ASSUME NEW S, NEW text \in Seq(S), NEW value \in Seq(S), NEW i \in 1..Len(text),
         Copies(text, value, i),
         \/ i + L - 1 + Len(value) = Len(text)
         \/ /\ i + L - 1 + Len(value) < Len(text)
            /\ text[i + L - 1 + Len(value) + 1] = EndChar
  PROVE  value = ValueAt(text, i)
<1>. DEFINE m == Len(text)
            l == Len(value)
            a == i + L
            rest == SubSeq(text, a, m)
            end == First(rest, EndChar)
<1>1. L \in Nat /\ L > 0 /\ m \in Nat /\ l \in Nat /\ i \in Nat /\ i >= 1
  BY TokenLength, LenProperties
<1>2. /\ a - 1 + l <= m
      /\ \A k \in 1..l : value[k] = text[a - 1 + k] /\ value[k] # EndChar
      /\ \/ a - 1 + l = m
         \/ a - 1 + l < m /\ text[a - 1 + l + 1] = EndChar
  BY <1>1 DEF Copies
<1>3. ValueAt(text, i) = IF end = 0 THEN rest ELSE SubSeq(rest, 1, end - 1)
  BY Zenon DEF ValueAt, L, SelectInSeq, First
<1>. HIDE DEF m, l
<1>4. a \in Nat /\ a >= 1
  BY <1>1
<1>. HIDE DEF a
<1>5. /\ rest \in Seq(S) /\ Len(rest) = m - a + 1
      /\ \A k \in 1..m - a + 1 : rest[k] = text[a + k - 1]
  <2>1. \A j \in a..m : text[j] \in S
    BY <1>1, <1>4, ElementOfSeq DEF m
  <2>2. a <= m \/ m - a + 1 = 0
    BY <1>1, <1>2, <1>4
  <2>. QED
    BY <1>1, <1>4, <2>1, <2>2, SubSeqProperties
<1>. HIDE DEF rest
<1>6. ASSUME NEW k \in 1..l PROVE rest[k] = value[k] /\ rest[k] # EndChar
  <2>1. k \in 1..m - a + 1 /\ a + k - 1 = a - 1 + k
    BY <1>1, <1>2, <1>4
  <2>. QED
    BY <1>2, <1>5, <2>1
<1>7. CASE a - 1 + l = m
  <2>1. Len(rest) = l
    BY <1>1, <1>4, <1>5, <1>7
  <2>2. end = 0
    BY <1>6, <2>1, NoneIs
  <2>3. rest = value
    BY <1>5, <1>6, <2>1, SeqEqual DEF l
  <2>. HIDE DEF end
  <2>. QED
    BY <1>3, <2>2, <2>3
<1>8. CASE a - 1 + l < m /\ text[a - 1 + l + 1] = EndChar
  <2>1. /\ l + 1 \in 1..Len(rest) /\ Len(rest) \in Nat
        /\ a + (l + 1) - 1 = a - 1 + l + 1
        /\ (l + 1) - 1 = l
    BY <1>1, <1>4, <1>5, <1>8
  <2>2. rest[l + 1] = EndChar
    BY <1>5, <1>8, <2>1
  <2>3. end = l + 1
    BY <1>6, <2>1, <2>2, FirstIs
  <2>. HIDE DEF end
  <2>. DEFINE part == SubSeq(rest, 1, l)
  <2>4. part \in Seq(S) /\ Len(part) = l /\ \A k \in 1..l : part[k] = rest[k]
    <3>1. \A j \in 1..l : rest[j] \in S
      BY <1>5, <2>1, ElementOfSeq
    <3>2. l = 0 \/ 1 <= l
      BY <1>1
    <3>. QED
      BY <1>1, <3>1, <3>2, SubSeqProperties
  <2>. HIDE DEF part
  <2>5. part = value
    BY <1>6, <2>4, SeqEqual DEF l
  <2>6. ValueAt(text, i) = part
    <3>1. end # 0 /\ end - 1 = l
      BY <1>1, <2>3
    <3>. QED
      BY <1>3, <3>1 DEF part
  <2>. QED
    BY <2>5, <2>6
<1>. QED
  BY <1>2, <1>7, <1>8

(* What the scanner says of a text is what FindsValue says of it.          *)
LEMMA ScansFinds ==
  ASSUME NEW S, NEW text \in Seq(S), NEW s \in ScanOf(S), Scans(text, s)
  PROVE  /\ s.match # 0 =>
              \E i \in DOMAIN text : Occurs(text, i) /\ s.text = ValueAt(text, i)
         /\ (\E i \in DOMAIN text : Occurs(text, i) /\ Clean(text, i))
              => s.match # 0
<1>1. Len(text) \in Nat /\ DOMAIN text = 1..Len(text) /\ s.text \in Seq(S)
  BY LenProperties DEF ScanOf
<1>2. ASSUME s.match # 0
      PROVE  \E i \in DOMAIN text : Occurs(text, i) /\ s.text = ValueAt(text, i)
  <2>1. PICK i \in 1..Len(text) :
          /\ Copies(text, s.text, i)
          /\ \/ i + L - 1 + Len(s.text) = Len(text)
             \/ /\ i + L - 1 + Len(s.text) < Len(text)
                /\ text[i + L - 1 + Len(s.text) + 1] = EndChar
    BY <1>2 DEF Scans
  <2>2. Occurs(text, i)
    BY <2>1, OccursAt DEF Copies
  <2>3. s.text = ValueAt(text, i)
    BY <1>1, <2>1, ValueIs
  <2>. QED
    BY <1>1, <2>2, <2>3
<1>3. ASSUME NEW i \in DOMAIN text, Occurs(text, i), Clean(text, i), s.match = 0
      PROVE  FALSE
  <2>1. Seeking(text, s.position)
    BY <1>3 DEF Scans
  <2>2. At(text, i) /\ Unmixed(text, i)
    BY <1>1, <1>3, OccursAt, CleanIsUnmixed
  <2>3. Begins(text, i)
    BY <2>2 DEF At, Begins
  <2>4. Len(text) - i + 1 = s.position
    BY <1>1, <2>1, <2>2, <2>3 DEF Seeking
  <2>5. s.position < L /\ i + L - 1 <= Len(text) /\ i \in Nat
    BY <1>1, <2>1, <2>2, TokenLength DEF Seeking, At
  <2>. QED
    BY <1>1, <2>4, <2>5, TokenLength
<1>. QED
  BY <1>2, <1>3

-----------------------------------------------------------------------------
(* THE PARSER                                                              *)

(* What a response consists of.                                            *)
Symbol == STRING

(* The states before the body, in it, and behind it.                       *)
Heading == {"STATUS_LINE", "LINE_CR", "LINE_LF", "HEADER_LINE", "END_HEADER_CR"}
Reading == {"LENGTH", "LENGTH_CR", "IN_CHUNK", "CHUNK_CR", "CHUNK_LF", "IN_BODY"}
Done == {"IN_ERROR", "NOOP"}

(* What the parser can hold.                                               *)
ContextOf == [state : Heading \cup Reading \cup Done, line : Seq(Symbol),
              code : Int, length : Int, chunked : BOOLEAN]

(* The types of the parser and of the scanner.                             *)
ResponseTypeOK ==
  /\ response \in Responses
  /\ wire \in Seq(Symbol)
  /\ packet \in Seq(Symbol)
  /\ scanned \in Seq(Symbol)
  /\ ctx \in ContextOf
  /\ scan \in ScanOf(Symbol)

(* The application is given nothing before the body; from then on the      *)
(* scanner says of all it was given what it found, if the code is 200. A   *)
(* chunk that is being read is not at its end.                             *)
ScanInv ==
  /\ ctx.state \in Heading => scanned = <<>>
  /\ ctx.state \in Reading /\ ctx.code = 200 => Scans(scanned, scan)
  /\ ctx.state \in Done /\ ctx.code = 200 =>
       scanned = <<>> \/ Scans(scanned, scan)
  /\ ctx.state = "IN_CHUNK" => ctx.length > 0

(* A number that was read is one.                                          *)
LEMMA NumberIs ==
  ASSUME NEW text, IsNumber(text)
  PROVE  Number(text) \in Nat
<1>1. Number(text) \in 0..MaxNumber
  BY Zenon DEF IsNumber, Number
<1>. QED
  BY <1>1, ResponseAssumption

(* A number that was written is read back.                                 *)
LEMMA NumberReads ==
  ASSUME NEW k \in 0..MaxNumber
  PROVE  IsNumber(ToString(k)) /\ Number(ToString(k)) = k
<1>1. IsNumber(ToString(k))
  BY Zenon DEF IsNumber
<1>2. Number(ToString(k)) \in 0..MaxNumber /\ ToString(Number(ToString(k))) = ToString(k)
  BY <1>1, Zenon DEF IsNumber, Number
<1>. QED
  BY <1>1, <1>2, NumberAssumption, Zenon

(* The bytes of a packet, and what is left of it.                          *)
LEMMA PacketStep ==
  ASSUME packet \in Seq(Symbol), packet # <<>>
  PROVE  Head(packet) \in Symbol /\ Tail(packet) \in Seq(Symbol)
BY HeadTailProperties

(* A line grows by one byte.                                               *)
LEMMA LineGrows ==
  ASSUME ctx \in ContextOf, NEW c \in Symbol
  PROVE  /\ Append(ctx.line, c) \in Seq(Symbol)
         /\ [ctx EXCEPT !.line = Append(@, c)] \in ContextOf
<1>1. Append(ctx.line, c) \in Seq(Symbol)
  BY AppendProperties DEF ContextOf
<1>. QED
  BY <1>1 DEF ContextOf

(* A byte leaves the scanner in one of its states, also when it scans      *)
(* nothing.                                                                *)
LEMMA ByteIsScan ==
  ASSUME NEW S, NEW c \in S, NEW s \in ScanOf(S)
  PROVE  ScanByte(s, c) \in ScanOf(S)
<1>1. /\ s.match \in 0..2 /\ s.position \in Nat /\ s.text \in Seq(S)
      /\ s = [match |-> s.match, position |-> s.position, text |-> s.text]
  BY DEF ScanOf
<1>2. Append(s.text, c) \in Seq(S) /\ <<>> \in Seq(S)
  BY <1>1, AppendProperties, EmptySeq
<1>3. ScanByte(s, c) \in
        {[match |-> 1, position |-> 0, text |-> <<>>],
         [s EXCEPT !.position = s.position + 1], [s EXCEPT !.position = 0],
         [s EXCEPT !.text = Append(s.text, c)], [s EXCEPT !.match = 2], s}
  <2>1. s.match = 0 \/ s.match = 1 \/ s.match = 2
    BY <1>1
  <2>2. CASE s.match = 0
    BY <2>2 DEF ScanByte
  <2>3. CASE s.match = 1
    BY <2>3 DEF ScanByte
  <2>4. CASE s.match = 2
    BY <2>4 DEF ScanByte
  <2>. QED
    BY <2>1, <2>2, <2>3, <2>4
<1>4. [s EXCEPT !.position = s.position + 1] \in ScanOf(S)
  BY <1>1 DEF ScanOf
<1>5. [s EXCEPT !.position = 0] \in ScanOf(S) /\ [s EXCEPT !.match = 2] \in ScanOf(S)
  BY <1>1 DEF ScanOf
<1>6. [s EXCEPT !.text = Append(s.text, c)] \in ScanOf(S)
  BY <1>1, <1>2 DEF ScanOf
<1>7. [match |-> 1, position |-> 0, text |-> <<>>] \in ScanOf(S)
  BY <1>2 DEF ScanOf
<1>. QED
  BY <1>3, <1>4, <1>5, <1>6, <1>7

(* So do all the bytes of a call.                                          *)
LEMMA DataIsScan ==
  ASSUME NEW S, NEW data \in Seq(S), NEW s \in ScanOf(S)
  PROVE  FoldLeft(ScanByte, s, data) \in ScanOf(S)
<1>. DEFINE n == Len(data)
<1>1. PICK f : /\ f[0] = s
               /\ \A i \in 1..n : f[i] = ScanByte(f[i - 1], data[i])
               /\ FoldLeft(ScanByte, s, data) = f[n]
  BY ScanUnfolds
<1>. DEFINE P == {k \in Nat : k <= n => f[k] \in ScanOf(S)}
<1>2. n \in Nat
  BY LenProperties
<1>3. 0 \in P
  BY <1>1
<1>4. ASSUME NEW k \in Nat, k \in P PROVE k + 1 \in P
  <2>1. SUFFICES ASSUME k + 1 <= n PROVE f[k + 1] \in ScanOf(S)
    OBVIOUS
  <2>2. f[k] \in ScanOf(S)
    BY <1>2, <1>4, <2>1
  <2>3. k + 1 \in 1..n /\ (k + 1) - 1 = k
    BY <1>2, <2>1
  <2>4. f[k + 1] = ScanByte(f[k], data[k + 1])
    BY <1>1, <2>3
  <2>5. data[k + 1] \in S
    BY <2>3, ElementOfSeq
  <2>. HIDE DEF P
  <2>. QED
    BY <2>2, <2>4, <2>5, ByteIsScan
<1>5. n \in P
  <2>. HIDE DEF P, n
  <2>. QED
    BY <1>2, <1>3, <1>4, NatInductive
<1>. QED
  BY <1>1, <1>2, <1>5

(* login_response_header_cb starts the search anew.                        *)
LEMMA StartIsScan ==
  ASSUME NEW S, NEW s \in ScanOf(S)
  PROVE  [s EXCEPT !.match = 0, !.position = 0] \in ScanOf(S)
<1>. DEFINE r == [s EXCEPT !.match = 0, !.position = 0]
<1>1. s.text \in Seq(S) /\ DOMAIN s = {"match", "position", "text"}
  BY DEF ScanOf
<1>2. r = [field \in {"match", "position", "text"} |-> r[field]]
  BY <1>1
<1>3. r["match"] = 0 /\ r["position"] = 0 /\ r["text"] = s.text
  BY <1>1
<1>. HIDE DEF r
<1>4. r = [match |-> 0, position |-> 0, text |-> s.text]
  BY <1>2, <1>3
<1>. QED
  BY <1>1, <1>4 DEF ScanOf, r

(* The parser goes on to a state and takes a length.                       *)
LEMMA TakesLength ==
  ASSUME ctx \in ContextOf, NEW state \in Heading \cup Reading \cup Done,
         NEW length \in Int,
         ctx' = [ctx EXCEPT !.state = state, !.length = length]
  PROVE  /\ ctx' \in ContextOf /\ ctx'.code = ctx.code
         /\ ctx'.state = state /\ ctx'.length = length
<1>1. ctx = [state |-> ctx.state, line |-> ctx.line, code |-> ctx.code,
             length |-> ctx.length, chunked |-> ctx.chunked]
  BY DEF ContextOf
<1>2. ctx' = [state |-> state, line |-> ctx.line, code |-> ctx.code,
              length |-> length, chunked |-> ctx.chunked]
  BY <1>1
<1>3. ctx.line \in Seq(Symbol) /\ ctx.code \in Int /\ ctx.chunked \in BOOLEAN
  BY DEF ContextOf
<1>. QED
  BY <1>2, <1>3 DEF ContextOf

(* The invariant holds, whatever the server sends, however the network     *)
(* cuts it and wherever it stops.                                          *)
LEMMA ResponseInvariant == ResponseSpec => [](ResponseTypeOK /\ ScanInv)
<1>1. ResponseInit => ResponseTypeOK
  <2> SUFFICES ASSUME ResponseInit PROVE ResponseTypeOK
    OBVIOUS
  <2>1. response \in Responses /\ wire \in Seq(Symbol)
    BY WireAssumption DEF ResponseInit, Symbol
  <2>2. <<>> \in Seq(Symbol)
    BY EmptySeq
  <2>3. ctx \in ContextOf
    BY <2>2 DEF ResponseInit, ContextOf, Heading
  <2>4. scan \in ScanOf(Symbol)
    BY <2>2 DEF ResponseInit, ScanOf
  <2>. QED
    BY <2>1, <2>2, <2>3, <2>4 DEF ResponseInit, ResponseTypeOK
<1>2. ResponseInit => ScanInv
  BY DEF ResponseInit, ScanInv, Heading, Reading, Done
<1>3. ResponseTypeOK /\ ScanInv /\ [ResponseNext]_responseVars => ResponseTypeOK' /\ ScanInv'
  <2> SUFFICES ASSUME ResponseTypeOK, ScanInv, [ResponseNext]_responseVars
               PROVE  ResponseTypeOK' /\ ScanInv'
    OBVIOUS
  <2>1. /\ response \in Responses /\ wire \in Seq(Symbol) /\ packet \in Seq(Symbol)
        /\ scanned \in Seq(Symbol) /\ ctx \in ContextOf /\ scan \in ScanOf(Symbol)
    BY DEF ResponseTypeOK
  <2>2. /\ ctx.line \in Seq(Symbol) /\ ctx.code \in Int /\ ctx.length \in Int
        /\ ctx.chunked \in BOOLEAN
        /\ ctx = [state |-> ctx.state, line |-> ctx.line, code |-> ctx.code,
                  length |-> ctx.length, chunked |-> ctx.chunked]
    BY <2>1 DEF ContextOf
  <2>3. <<>> \in Seq(Symbol)
    BY EmptySeq
  <2>4. packet # <<>> => Head(packet) \in Symbol /\ Tail(packet) \in Seq(Symbol)
    BY <2>1, PacketStep
  <2>5. CASE PacketArrives
    <3>1. UNCHANGED <<response, ctx, scan, scanned>>
      BY <2>5 DEF PacketArrives
    <3>2. packet' \in Seq(Symbol) /\ wire' \in Seq(Symbol)
      <4>1. PICK n \in 1..Len(wire) :
              packet' = SubSeq(wire, 1, n) /\ wire' = SubSeq(wire, n + 1, Len(wire))
        BY <2>5 DEF PacketArrives
      <4>2. Len(wire) \in Nat /\ \A i \in 1..Len(wire) : wire[i] \in Symbol
        BY <2>1, LenProperties, ElementOfSeq
      <4>3. SubSeq(wire, 1, n) \in Seq(Symbol)
        BY <4>2, SubSeqProperties
      <4>4. SubSeq(wire, n + 1, Len(wire)) \in Seq(Symbol)
        BY <4>2, SubSeqProperties
      <4>. QED
        BY <4>1, <4>3, <4>4
    <3>. QED
      BY <2>1, <3>1, <3>2 DEF ResponseTypeOK, ScanInv
  <2>6. CASE StatusLine
    <3>1. /\ UNCHANGED <<response, wire, scan, scanned>>
          /\ packet # <<>> /\ packet' = Tail(packet)
          /\ ctx.state = "STATUS_LINE"
      BY <2>6 DEF StatusLine, In, Collect, connectionVars, bodyVars
    <3>2. ctx' \in ContextOf /\ (ctx'.state \in Heading \/ ctx'.state \in Done)
      <4>1. CASE Collect
        <5>1. ctx' = [ctx EXCEPT !.line = Append(@, Head(packet))]
          BY <4>1 DEF Collect
        <5>2. ctx' \in ContextOf
          BY <2>1, <2>4, <3>1, <5>1, LineGrows
        <5>3. ctx'.state = ctx.state
          BY <2>2, <5>1
        <5>. QED
          BY <3>1, <5>2, <5>3 DEF Heading
      <4>2. CASE IsStatusLine(ctx.line) /\ ctx' = [ctx EXCEPT !.state = "LINE_CR", !.code = Number(ctx.line[2])]
        <5>1. Number(ctx.line[2]) \in Int
          <6>1. IsNumber(ctx.line[2])
            BY <4>2 DEF IsStatusLine
          <6>2. Number(ctx.line[2]) \in Nat
            BY <6>1, NumberIs
          <6>. QED
            BY <6>2
        <5>. QED
          BY <2>2, <4>2, <5>1 DEF ContextOf, Heading
      <4>3. CASE ctx' = [ctx EXCEPT !.state = "IN_ERROR"]
        BY <2>2, <4>3 DEF ContextOf, Done
      <4>. QED
        BY <2>6, <4>1, <4>2, <4>3 DEF StatusLine
    <3>. QED
      BY <2>1, <2>4, <3>1, <3>2 DEF ResponseTypeOK, ScanInv, Heading, Reading, Done
  <2>7. CASE LineCr
    <3>1. /\ UNCHANGED <<response, wire, scan, scanned>>
          /\ packet # <<>> /\ packet' = Tail(packet)
          /\ ctx.state = "LINE_CR"
      BY <2>7 DEF LineCr, In, connectionVars, bodyVars
    <3>2. \/ ctx' = [ctx EXCEPT !.state = "LINE_LF", !.line = <<>>]
          \/ ctx' = [ctx EXCEPT !.state = "IN_ERROR"]
      BY <2>7 DEF LineCr
    <3>3. ctx' \in ContextOf /\ (ctx'.state \in Heading \/ ctx'.state \in Done)
      BY <2>2, <2>3, <3>2 DEF ContextOf, Heading, Done
    <3>. QED
      BY <2>1, <2>4, <3>1, <3>3 DEF ResponseTypeOK, ScanInv, Heading, Reading, Done
  <2>8. CASE EndOfHeaders
    <3>1. /\ UNCHANGED <<response, wire, scan, scanned>>
          /\ packet # <<>> /\ packet' = Tail(packet)
          /\ ctx.state = "LINE_LF"
          /\ ctx' = [ctx EXCEPT !.state = "END_HEADER_CR"]
      BY <2>8 DEF EndOfHeaders, In, Next, connectionVars, bodyVars
    <3>2. ctx' \in ContextOf /\ ctx'.state \in Heading
      BY <2>2, <3>1 DEF ContextOf, Heading
    <3>. QED
      BY <2>1, <2>4, <3>1, <3>2 DEF ResponseTypeOK, ScanInv, Heading, Reading, Done
  <2>9. CASE HeaderLine
    <3>1. /\ UNCHANGED <<response, wire, scan, scanned>>
          /\ packet # <<>> /\ packet' = Tail(packet)
          /\ ctx.state \in {"LINE_LF", "HEADER_LINE"}
      BY <2>9 DEF HeaderLine, connectionVars, bodyVars
    <3>2. ctx' \in ContextOf /\ (ctx'.state \in Heading \/ ctx'.state \in Done)
      <4>1. CASE ctx' = [ctx EXCEPT !.state = "HEADER_LINE", !.line = Append(@, Head(packet))]
        <5>1. Append(ctx.line, Head(packet)) \in Seq(Symbol)
          BY <2>1, <2>4, <3>1, LineGrows
        <5>. QED
          BY <2>2, <4>1, <5>1 DEF ContextOf, Heading
      <4>2. CASE /\ IsHeaderLine(ctx.line)
                 /\ ctx' = [ctx EXCEPT !.state = "LINE_CR",
                                       !.length = LengthAfter(ctx.line),
                                       !.chunked = @ \/ ctx.line[1] = "Transfer-Encoding: "]
        <5>1. LengthAfter(ctx.line) \in Int
          <6>1. ASSUME ctx.line[1] = "Content-Length: ", Len(ctx.line) > 1
                PROVE  Number(ctx.line[2]) % LengthSize \in Int
            <7>1. Number(ctx.line[2]) \in Nat
              BY <4>2, <6>1, NumberIs DEF IsHeaderLine
            <7>. QED
              BY <7>1, ResponseAssumption
          <6>. QED
            BY <2>2, <6>1 DEF LengthAfter
        <5>. DEFINE chunked == ctx.chunked \/ ctx.line[1] = "Transfer-Encoding: "
        <5>2. chunked \in BOOLEAN
          OBVIOUS
        <5>3. ctx' = [ctx EXCEPT !.state = "LINE_CR", !.length = LengthAfter(ctx.line),
                                 !.chunked = chunked]
          BY <4>2
        <5>. HIDE DEF chunked
        <5>. QED
          BY <2>2, <5>1, <5>2, <5>3 DEF ContextOf, Heading
      <4>3. CASE ctx' = [ctx EXCEPT !.state = "IN_ERROR"]
        BY <2>2, <4>3 DEF ContextOf, Done
      <4>. QED
        BY <2>9, <4>1, <4>2, <4>3 DEF HeaderLine
    <3>. QED
      BY <2>1, <2>4, <3>1, <3>2 DEF ResponseTypeOK, ScanInv, Heading, Reading, Done
  <2>10. CASE EndHeaderCr
    <3>1. /\ UNCHANGED <<response, wire, scanned>>
          /\ packet # <<>> /\ packet' = Tail(packet)
          /\ ctx.state = "END_HEADER_CR"
      BY <2>10 DEF EndHeaderCr, In, connectionVars
    <3>2. scanned = <<>>
      BY <3>1 DEF ScanInv, Heading
    <3>3. CASE Head(packet) = "LF"
      <4>1. /\ ctx' = [ctx EXCEPT !.state = IF ctx.chunked THEN "LENGTH" ELSE "IN_BODY",
                                  !.line = <<>>]
            /\ scan' = IF ctx.code = 200 THEN [scan EXCEPT !.match = 0, !.position = 0]
                       ELSE scan
        BY <2>10, <3>3 DEF EndHeaderCr
      <4>2. /\ ctx' \in ContextOf /\ ctx'.code = ctx.code
            /\ ctx'.state \in Reading \ {"IN_CHUNK"}
        BY <2>2, <2>3, <4>1 DEF ContextOf, Reading
      <4>3. scan' \in ScanOf(Symbol)
        <5>1. [scan EXCEPT !.match = 0, !.position = 0] \in ScanOf(Symbol)
          BY <2>1, StartIsScan
        <5>. QED
          BY <2>1, <4>1, <5>1
      <4>4. Seeking(<<>>, 0)
        BY TokenLength DEF Seeking
      <4>5. ctx.code = 200 => Scans(scanned', scan')
        <5>1. ctx.code = 200 => scan'.match = 0 /\ scan'.position = 0
          BY <2>1, <4>1 DEF ScanOf
        <5>. QED
          BY <3>1, <3>2, <4>4, <5>1 DEF Scans
      <4>. QED
        BY <2>1, <2>4, <3>1, <4>2, <4>3, <4>5
           DEF ResponseTypeOK, ScanInv, Heading, Reading, Done
    <3>4. CASE Head(packet) # "LF"
      <4>1. ctx' = [ctx EXCEPT !.state = "IN_ERROR"] /\ scan' = scan
        BY <2>10, <3>4 DEF EndHeaderCr
      <4>2. ctx' \in ContextOf /\ ctx'.state \in Done
        BY <2>2, <4>1 DEF ContextOf, Done
      <4>. QED
        BY <2>1, <2>4, <3>1, <3>2, <4>1, <4>2
           DEF ResponseTypeOK, ScanInv, Heading, Reading, Done
    <3>. QED
      BY <3>3, <3>4
  <2>. DEFINE Quiet ==
         /\ UNCHANGED <<response, wire, scan, scanned>>
         /\ packet' \in Seq(Symbol)
         /\ ctx.state \in Reading \cup Done
         /\ ctx' \in ContextOf
         /\ ctx'.state \in Reading \cup Done
         /\ ctx'.code = ctx.code
         /\ ctx.state \in Done => ctx'.state \in Done
         /\ ctx'.state = "IN_CHUNK" => ctx'.length > 0
  <2>11. Quiet => ResponseTypeOK' /\ ScanInv'
    BY <2>1 DEF ResponseTypeOK, ScanInv, Heading, Reading, Done
  <2>12. ASSUME Length PROVE Quiet
    <3>1. /\ UNCHANGED <<response, wire, scan, scanned>>
          /\ packet # <<>> /\ packet' = Tail(packet)
          /\ ctx.state = "LENGTH"
          /\ \/ ctx' = [ctx EXCEPT !.state = "LENGTH_CR"]
             \/ ctx' = [ctx EXCEPT !.line = Append(@, Head(packet))]
      BY <2>12 DEF Length, Next, Collect, In, connectionVars, bodyVars
    <3>2. Append(ctx.line, Head(packet)) \in Seq(Symbol)
      BY <2>1, <2>4, <3>1, LineGrows
    <3>. QED
      BY <2>2, <2>4, <3>1, <3>2 DEF ContextOf, Reading, Done
  <2>13. ASSUME LengthCr PROVE Quiet
    <3>1. /\ UNCHANGED <<response, wire, scan, scanned>>
          /\ packet # <<>> /\ packet' \in {Tail(packet), <<>>}
          /\ ctx.state = "LENGTH_CR"
          /\ \/ ctx' = [ctx EXCEPT !.state = "IN_ERROR"]
             \/ ctx' = [ctx EXCEPT !.state = "NOOP"]
             \/ /\ IsNumber(ctx.line[1]) /\ Number(ctx.line[1]) # 0
                /\ ctx' = [ctx EXCEPT !.state = "IN_CHUNK",
                                      !.length = Number(ctx.line[1])]
      BY <2>13 DEF LengthCr, Next, In, connectionVars, bodyVars
    <3>2. IsNumber(ctx.line[1]) => Number(ctx.line[1]) \in Nat
      BY NumberIs
    <3>3. packet' \in Seq(Symbol)
      BY <2>3, <2>4, <3>1
    <3>4. /\ ctx' \in ContextOf /\ ctx'.state \in Reading \cup Done
          /\ ctx'.code = ctx.code
          /\ ctx'.state = "IN_CHUNK" => ctx'.length > 0
      <4>1. CASE ctx' = [ctx EXCEPT !.state = "IN_ERROR"]
        BY <2>2, <4>1 DEF ContextOf, Done
      <4>2. CASE ctx' = [ctx EXCEPT !.state = "NOOP"]
        BY <2>2, <4>2 DEF ContextOf, Done
      <4>3. CASE /\ IsNumber(ctx.line[1]) /\ Number(ctx.line[1]) # 0
                 /\ ctx' = [ctx EXCEPT !.state = "IN_CHUNK",
                                       !.length = Number(ctx.line[1])]
        <5>. DEFINE length == Number(ctx.line[1])
        <5>1. length \in Nat /\ length # 0
          BY <3>2, <4>3
        <5>2. ctx' = [ctx EXCEPT !.state = "IN_CHUNK", !.length = length]
          BY <4>3
        <5>. HIDE DEF length
        <5>3. length \in Int /\ length > 0
          BY <5>1
        <5>4. "IN_CHUNK" \in Reading
          BY DEF Reading
        <5>5. /\ ctx' \in ContextOf /\ ctx'.code = ctx.code
              /\ ctx'.state = "IN_CHUNK" /\ ctx'.length = length
          BY <2>1, <5>2, <5>3, <5>4, TakesLength, Zenon
        <5>. QED
          BY <5>3, <5>4, <5>5
      <4>. QED
        BY <3>1, <4>1, <4>2, <4>3, Zenon
    <3>. QED
      BY <3>1, <3>3, <3>4 DEF Reading, Done
  <2>14. ASSUME ChunkCr \/ ChunkLf PROVE Quiet
    <3>1. /\ UNCHANGED <<response, wire, scan, scanned>>
          /\ packet # <<>> /\ packet' = Tail(packet)
          /\ ctx.state \in {"CHUNK_CR", "CHUNK_LF"}
          /\ \/ ctx' = [ctx EXCEPT !.state = "IN_ERROR"]
             \/ ctx' = [ctx EXCEPT !.state = "CHUNK_LF"]
             \/ ctx' = [ctx EXCEPT !.state = "LENGTH", !.line = <<>>]
      BY <2>14 DEF ChunkCr, ChunkLf, Next, In, connectionVars, bodyVars
    <3>. QED
      BY <2>2, <2>3, <2>4, <3>1 DEF ContextOf, Reading, Done
  <2>15. ASSUME InError \/ Noop PROVE Quiet
    <3>1. /\ UNCHANGED <<response, wire, scan, scanned>>
          /\ packet' = <<>>
          /\ ctx.state \in Done
          /\ ctx' = ctx \/ ctx' = [ctx EXCEPT !.state = "NOOP"]
      BY <2>15 DEF InError, Noop, In, connectionVars, bodyVars, Done
    <3>. QED
      BY <2>2, <2>3, <3>1 DEF ContextOf, Reading, Done
  <2>16. ASSUME UNCHANGED <<response, wire, packet, ctx, bodyVars>>
         PROVE  ResponseTypeOK' /\ ScanInv'
    BY <2>1, <2>16 DEF ResponseTypeOK, ScanInv, bodyVars
  <2>. DEFINE Hands(data) ==
         /\ data \in Seq(Symbol)
         /\ Application(data)
         /\ UNCHANGED <<response, wire>>
         /\ packet' \in Seq(Symbol)
         /\ ctx.state \in Reading
         /\ ctx' \in ContextOf
         /\ ctx'.state \in Reading \cup Done
         /\ ctx'.code = ctx.code
         /\ ctx'.state = "IN_CHUNK" => ctx'.length > 0
  <2>17. ASSUME NEW data, Hands(data) PROVE ResponseTypeOK' /\ ScanInv'
    <3>1. scan' = FoldLeft(ScanByte, scan, data) /\ scanned' = scanned \o data
      BY <2>17, Zenon DEF Application
    <3>2. data \in Seq(Symbol)
      BY <2>17
    <3>3. scanned' \in Seq(Symbol)
      BY <2>1, <3>1, <3>2, ConcatProperties
    <3>4. ctx.code = 200 => Scans(scanned, scan)
      BY <2>17 DEF ScanInv
    <3>5. ctx.code = 200 => scan' \in ScanOf(Symbol) /\ Scans(scanned', scan')
      BY <2>1, <3>1, <3>2, <3>4, DataScans
    <3>6. scan' \in ScanOf(Symbol)
      BY <2>1, <3>1, <3>2, DataIsScan
    <3>. QED
      BY <2>1, <2>17, <3>3, <3>5, <3>6
         DEF ResponseTypeOK, ScanInv, Heading, Reading, Done
  <2>18. ASSUME InChunk PROVE \E data : Hands(data)
    <3>0. ctx.state = "IN_CHUNK" => ctx.length > 0
      BY DEF ScanInv
    <3>1. packet # <<>> /\ ctx.state = "IN_CHUNK" /\ UNCHANGED <<response, wire>>
      BY <2>18 DEF InChunk, In, connectionVars
    <3>2. Len(packet) \in Nat /\ \A i \in 1..Len(packet) : packet[i] \in Symbol
      BY <2>1, LenProperties, ElementOfSeq
    <3>3. CASE /\ Len(packet) >= ctx.length
               /\ Application(SubSeq(packet, 1, ctx.length))
               /\ packet' = SubSeq(packet, ctx.length + 1, Len(packet))
               /\ ctx' = [ctx EXCEPT !.state = "CHUNK_CR", !.length = 0]
      <4>1. SubSeq(packet, 1, ctx.length) \in Seq(Symbol)
        BY <2>1, <2>2, <3>0, <3>1, <3>2, <3>3, SubSeqAny
      <4>2. SubSeq(packet, ctx.length + 1, Len(packet)) \in Seq(Symbol)
        BY <2>1, <2>2, <3>0, <3>1, <3>2, <3>3, SubSeqAny
      <4>3. /\ ctx' \in ContextOf /\ ctx'.code = ctx.code
            /\ ctx'.state \in Reading \ {"IN_CHUNK"}
        <5>1. ctx' = [ctx EXCEPT !.state = "CHUNK_CR", !.length = 0]
          BY <3>3
        <5>2. "CHUNK_CR" \in Reading \ {"IN_CHUNK"} /\ 0 \in Int
          BY DEF Reading
        <5>3. /\ ctx' \in ContextOf /\ ctx'.code = ctx.code
              /\ ctx'.state = "CHUNK_CR"
          BY <2>1, <5>1, <5>2, TakesLength, Zenon
        <5>. QED
          BY <5>2, <5>3
      <4>4. Hands(SubSeq(packet, 1, ctx.length))
        BY <3>1, <3>3, <4>1, <4>2, <4>3 DEF Reading
      <4>. QED
        BY <4>4
    <3>4. CASE /\ Len(packet) < ctx.length
               /\ Application(packet)
               /\ packet' = <<>>
               /\ ctx' = [ctx EXCEPT !.length = ctx.length - Len(packet)]
      <4>1. /\ ctx' \in ContextOf /\ ctx'.state \in Reading
            /\ ctx'.code = ctx.code /\ ctx'.length > 0
        BY <2>2, <3>1, <3>2, <3>4 DEF ContextOf, Reading
      <4>2. Hands(packet)
        BY <2>1, <2>3, <3>1, <3>4, <4>1 DEF Reading
      <4>. QED
        BY <4>2
    <3>. QED
      BY <2>18, <3>3, <3>4 DEF InChunk
  <2>19. ASSUME InBody PROVE \E data : Hands(data)
    <3>. DEFINE length == ctx.length - Len(packet)
                state == IF length <= 0 THEN "NOOP" ELSE "IN_BODY"
    <3>1. /\ packet # <<>> /\ ctx.state = "IN_BODY" /\ UNCHANGED <<response, wire>>
          /\ Application(packet) /\ packet' = <<>>
          /\ ctx' = [ctx EXCEPT !.length = length, !.state = state]
      BY <2>19 DEF InBody, In, connectionVars
    <3>2. length \in Int
      BY <2>1, <2>2, LenProperties
    <3>3. state \in (Reading \cup Done) \ {"IN_CHUNK"}
      BY DEF Reading, Done
    <3>. HIDE DEF length, state
    <3>4. /\ ctx' \in ContextOf /\ ctx'.code = ctx.code
          /\ ctx'.state \in (Reading \cup Done) \ {"IN_CHUNK"}
      BY <2>2, <3>1, <3>2, <3>3 DEF ContextOf
    <3>5. Hands(packet)
      BY <2>1, <2>3, <3>1, <3>4 DEF Reading
    <3>. QED
      BY <3>5
  <2>20. ASSUME Timeout \/ CloseConnection \/ ServerCloses
         PROVE  UNCHANGED <<response, wire, packet, ctx, bodyVars>>
    BY <2>20 DEF Timeout, CloseConnection, ServerCloses
  <2>21. CASE UNCHANGED responseVars
    BY <2>16, <2>21 DEF responseVars, bodyVars
  <2>. HIDE DEF Quiet, Hands
  <2>22. CASE Receive
    BY <2>22, <2>6, <2>7, <2>8, <2>9, <2>10, <2>11, <2>12, <2>13, <2>14, <2>15,
       <2>17, <2>18, <2>19, Zenon DEF Receive
  <2>. QED
    BY <2>5, <2>16, <2>20, <2>21, <2>22, Zenon DEF ResponseNext
<1>. QED
  BY <1>1, <1>2, <1>3, PTL DEF ResponseSpec

(* A value that the display has found, or begun to find, follows a token   *)
(* in the body, whatever packets both were cut into; and a token in a body *)
(* that answered 200 is found (scan_token, scan_until and receivecb).      *)
THEOREM FindsValueHolds == ResponseSpec => []FindsValue
<1>1. ResponseTypeOK /\ ScanInv => FindsValue
  <2> SUFFICES ASSUME ResponseTypeOK, ScanInv, ctx.code = 200, scanned # <<>>
               PROVE  /\ scan.match # 0 =>
                           \E i \in DOMAIN scanned :
                             Occurs(scanned, i) /\ scan.text = ValueAt(scanned, i)
                      /\ (\E i \in DOMAIN scanned :
                             Occurs(scanned, i) /\ Clean(scanned, i))
                           => scan.match # 0
    BY Zenon DEF FindsValue
  <2>1. ctx.state \in Heading \cup Reading \cup Done
    BY DEF ResponseTypeOK, ContextOf
  <2>2. Scans(scanned, scan)
    BY <2>1 DEF ScanInv
  <2>3. scanned \in Seq(Symbol) /\ scan \in ScanOf(Symbol)
    BY DEF ResponseTypeOK
  <2>. QED
    BY <2>2, <2>3, ScansFinds
<1>. QED
  BY <1>1, ResponseInvariant, PTL

-----------------------------------------------------------------------------
(* WHAT A SERVER SENDS                                                     *)

(* What is laid in a text is laid in it when it goes on.                   *)
LEMMA LaidLonger ==
  ASSUME NEW S, NEW s \in Seq(S), NEW t \in Seq(S), NEW from \in Nat,
         NEW piece \in Seq(S), Laid(s, from, piece)
  PROVE  Laid(s \o t, from, piece)
<1>1. Len(s) \in Nat /\ Len(t) \in Nat /\ Len(piece) \in Nat
  BY LenProperties
<1>2. /\ Len(s \o t) = Len(s) + Len(t)
      /\ Laid(s \o t, 0, s)
  BY LaidConcat
<1>3. Laid(s \o t, 0 + from, piece)
  BY <1>1, <1>2, LaidIn
<1>. QED
  BY <1>3

(* The head of a response of any symbols: a status of four, lines of six,  *)
(* a framing of two, each with an end of line of two, and an empty line.   *)
HeadOf(status, lines, framing, eol) ==
  status \o eol \o FlattenSeq([i \in DOMAIN lines |-> lines[i] \o eol])
    \o framing \o eol \o eol

(* Each part of it is at its place.                                        *)
LEMMA HeadLaid ==
  ASSUME NEW S, NEW status \in Seq(S), NEW lines \in Seq(Seq(S)),
         NEW framing \in Seq(S), NEW eol \in Seq(S),
         Len(status) = 4, \A i \in 1..Len(lines) : Len(lines[i]) = 6,
         Len(framing) = 2, Len(eol) = 2
  PROVE  LET head == HeadOf(status, lines, framing, eol)
             n == Len(lines)
         IN  /\ head \in Seq(S) /\ Len(head) = 8 * n + 12
             /\ Laid(head, 0, status) /\ Laid(head, 4, eol)
             /\ \A i \in 1..n : Laid(head, 8 * i - 2, lines[i])
                             /\ Laid(head, 8 * i + 4, eol)
             /\ Laid(head, 8 * n + 6, framing)
             /\ Laid(head, 8 * n + 8, eol) /\ Laid(head, 8 * n + 10, eol)
<1>. DEFINE n == Len(lines)
            pieces == [i \in DOMAIN lines |-> lines[i] \o eol]
            flat == FlattenSeq(pieces)
            at == [i \in 1..n + 1 |-> 8 * (i - 1)]
            a == status \o eol
            b == a \o flat
            c == b \o framing
            d == c \o eol
            e == d \o eol
<1>1. n \in Nat /\ DOMAIN lines = 1..n /\ \A i \in 1..n : lines[i] \in Seq(S)
  BY LenProperties, ElementOfSeq
<1>2. ASSUME NEW i \in 1..n
      PROVE  /\ pieces[i] = lines[i] \o eol
             /\ pieces[i] \in Seq(S) /\ Len(pieces[i]) = 8
             /\ Laid(pieces[i], 0, lines[i]) /\ Laid(pieces[i], 6, eol)
  <2>1. lines[i] \in Seq(S) /\ Len(lines[i]) = 6
    BY <1>1
  <2>2. pieces[i] = lines[i] \o eol
    BY <1>1
  <2>. HIDE DEF pieces
  <2>3. /\ lines[i] \o eol \in Seq(S)
        /\ Len(lines[i] \o eol) = 6 + 2
        /\ Laid(lines[i] \o eol, 0, lines[i])
        /\ Laid(lines[i] \o eol, 6, eol)
    <3>. DEFINE line == lines[i]
    <3>1. line \in Seq(S) /\ Len(line) = 6
      BY <2>1
    <3>. HIDE DEF line
    <3>2. /\ line \o eol \in Seq(S) /\ Len(line \o eol) = Len(line) + Len(eol)
          /\ Laid(line \o eol, 0, line) /\ Laid(line \o eol, Len(line), eol)
      BY <3>1, LaidConcat
    <3>3. Laid(line \o eol, 6, eol) /\ Len(line \o eol) = 6 + 2
      BY <3>1, <3>2, Zenon
    <3>. QED
      BY <3>2, <3>3 DEF line
  <2>. QED
    BY <2>2, <2>3
<1>3. pieces \in Seq(Seq(S)) /\ Len(pieces) = n
  <2>1. \A i \in 1..n : lines[i] \o eol \in Seq(S)
    BY <1>2
  <2>. HIDE DEF n
  <2>. QED
    BY <1>1, <2>1
<1>. HIDE DEF n, pieces
<1>4. IsStarts(at, pieces)
  <2>1. at \in [1..Len(pieces) + 1 -> Nat]
    BY <1>1, <1>3
  <2>2. at[1] = 0
    BY <1>1
  <2>3. ASSUME NEW i \in 1..Len(pieces) PROVE at[i + 1] = at[i] + Len(pieces[i])
    <3>1. i \in 1..n /\ i \in 1..n + 1 /\ i + 1 \in 1..n + 1 /\ (i + 1) - 1 = i
      BY <1>1, <1>3
    <3>2. at[i] = 8 * (i - 1) /\ at[i + 1] = 8 * i
      BY <3>1
    <3>3. Len(pieces[i]) = 8
      BY <1>2, <3>1
    <3>. HIDE DEF at
    <3>. QED
      BY <3>1, <3>2, <3>3
  <2>. QED
    BY <2>1, <2>2, <2>3 DEF IsStarts
<1>5. /\ flat \in Seq(S) /\ Len(flat) = 8 * n
      /\ \A i \in 1..n : Laid(flat, 8 * (i - 1), pieces[i])
  <2>1. /\ at[n + 1] = 8 * n /\ \A i \in 1..n : at[i] = 8 * (i - 1)
    BY <1>1
  <2>. HIDE DEF at
  <2>2. /\ flat \in Seq(S) /\ Len(flat) = at[Len(pieces) + 1]
        /\ \A i \in 1..Len(pieces) : Laid(flat, at[i], pieces[i])
    <3>. HIDE DEF IsStarts
    <3>. QED
      BY <1>3, <1>4, FlattenLays
  <2>. HIDE DEF flat
  <2>. QED
    BY <1>1, <1>3, <2>1, <2>2
<1>. HIDE DEF flat, at
<1>6. /\ a \in Seq(S) /\ Len(a) = 6 /\ Laid(a, 0, status) /\ Laid(a, 4, eol)
  <2>1. /\ a \in Seq(S) /\ Len(a) = Len(status) + Len(eol)
        /\ Laid(a, 0, status) /\ Laid(a, Len(status), eol)
    BY LaidConcat
  <2>2. Laid(a, 4, eol) /\ Len(a) = 4 + 2
    BY <2>1, Zenon
  <2>. QED
    BY <2>1, <2>2
<1>. HIDE DEF a
<1>7. /\ b \in Seq(S) /\ Len(b) = 8 * n + 6 /\ Laid(b, 0, a) /\ Laid(b, 6, flat)
  <2>1. /\ b \in Seq(S) /\ Len(b) = Len(a) + Len(flat)
        /\ Laid(b, 0, a) /\ Laid(b, Len(a), flat)
    BY <1>5, <1>6, LaidConcat
  <2>. HIDE DEF b
  <2>. QED
    BY <1>1, <1>5, <1>6, <2>1
<1>. HIDE DEF b
<1>8. /\ c \in Seq(S) /\ Len(c) = 8 * n + 8 /\ Laid(c, 0, b)
      /\ Laid(c, 8 * n + 6, framing)
  <2>1. /\ c \in Seq(S) /\ Len(c) = Len(b) + Len(framing)
        /\ Laid(c, 0, b) /\ Laid(c, Len(b), framing)
    BY <1>7, LaidConcat
  <2>. HIDE DEF c
  <2>. QED
    BY <1>1, <1>7, <2>1
<1>. HIDE DEF c
<1>9. /\ d \in Seq(S) /\ Len(d) = 8 * n + 10 /\ Laid(d, 0, c)
      /\ Laid(d, 8 * n + 8, eol)
  <2>1. /\ d \in Seq(S) /\ Len(d) = Len(c) + Len(eol)
        /\ Laid(d, 0, c) /\ Laid(d, Len(c), eol)
    BY <1>8, LaidConcat
  <2>. HIDE DEF d
  <2>. QED
    BY <1>1, <1>8, <2>1
<1>. HIDE DEF d
<1>10. /\ e \in Seq(S) /\ Len(e) = 8 * n + 12 /\ Laid(e, 0, d)
       /\ Laid(e, 8 * n + 10, eol)
  <2>1. /\ e \in Seq(S) /\ Len(e) = Len(d) + Len(eol)
        /\ Laid(e, 0, d) /\ Laid(e, Len(d), eol)
    BY <1>9, LaidConcat
  <2>. HIDE DEF e
  <2>. QED
    BY <1>1, <1>9, <2>1
<1>. HIDE DEF e
(* What is laid in one of them is laid in the whole.                       *)
<1>11. ASSUME NEW from \in Nat, NEW piece \in Seq(S)
       PROVE  /\ Laid(d, from, piece) => Laid(e, from, piece)
              /\ Laid(c, from, piece) => Laid(e, from, piece)
              /\ Laid(b, from, piece) => Laid(e, from, piece)
              /\ Laid(a, from, piece) => Laid(e, from, piece)
  <2>1. Laid(a, from, piece) => Laid(b, from, piece)
    BY <1>5, <1>6, LaidLonger DEF b
  <2>2. Laid(b, from, piece) => Laid(c, from, piece)
    BY <1>7, LaidLonger DEF c
  <2>3. Laid(c, from, piece) => Laid(d, from, piece)
    BY <1>8, LaidLonger DEF d
  <2>4. Laid(d, from, piece) => Laid(e, from, piece)
    BY <1>9, LaidLonger DEF e
  <2>. QED
    BY <2>1, <2>2, <2>3, <2>4
<1>12. Laid(e, 0, status) /\ Laid(e, 4, eol)
  BY <1>6, <1>11
<1>13. ASSUME NEW i \in 1..n
       PROVE  Laid(e, 8 * i - 2, lines[i]) /\ Laid(e, 8 * i + 4, eol)
  <2>1. /\ lines[i] \in Seq(S) /\ Len(lines[i]) \in Nat /\ pieces[i] \in Seq(S)
        /\ Len(pieces[i]) = 8 /\ Len(flat) \in Nat /\ Len(b) \in Nat
        /\ 8 * (i - 1) \in Nat /\ i \in Nat /\ Len(eol) = 2
    BY <1>1, <1>2, <1>5, <1>7, LenProperties
  <2>2. Laid(b, 6 + 8 * (i - 1), pieces[i])
    BY <1>5, <1>7, <2>1, LaidIn
  <2>3. 6 + 8 * (i - 1) \in Nat /\ (6 + 8 * (i - 1)) + 0 = 8 * i - 2
        /\ (6 + 8 * (i - 1)) + 6 = 8 * i + 4
        /\ 8 * i - 2 \in Nat /\ 8 * i + 4 \in Nat
    BY <2>1
  <2>. DEFINE from == 6 + 8 * (i - 1)
              piece == pieces[i]
  <2>. HIDE DEF from, piece
  <2>6. /\ Laid(b, from, piece) /\ from \in Nat
        /\ Laid(piece, 0, lines[i]) /\ Laid(piece, 6, eol)
        /\ Len(piece) \in Nat /\ Len(b) \in Nat /\ Len(lines[i]) \in Nat
        /\ Len(eol) \in Nat
    BY <1>2, <2>1, <2>2, <2>3 DEF from, piece
  <2>4. Laid(b, from + 0, lines[i])
    BY <2>6, LaidIn
  <2>5. Laid(b, from + 6, eol)
    BY <2>6, LaidIn
  <2>. QED
    BY <1>11, <2>1, <2>3, <2>4, <2>5 DEF from
<1>14. Laid(e, 8 * n + 6, framing) /\ Laid(e, 8 * n + 8, eol)
  <2>1. 8 * n + 6 \in Nat /\ 8 * n + 8 \in Nat
    BY <1>1
  <2>. QED
    BY <1>8, <1>9, <1>11, <2>1
<1>15. e = HeadOf(status, lines, framing, eol)
  BY DEF HeadOf, a, b, c, d, e, flat, pieces
<1>. QED
  BY <1>10, <1>12, <1>13, <1>14, <1>15, Zenon DEF n

(* The pieces of a body in chunks of any symbols: a size, a chunk, and an  *)
(* end of line of two behind each.                                         *)
PiecesOf(sizes, chunks, eol) ==
  [i \in DOMAIN chunks |-> <<sizes[i]>> \o eol \o chunks[i] \o eol]

(* Each part of one piece is at its place in it.                           *)
LEMMA PieceLaid ==
  ASSUME NEW S, NEW size \in S, NEW chunk \in Seq(S), NEW eol \in Seq(S),
         Len(eol) = 2
  PROVE  LET piece == <<size>> \o eol \o chunk \o eol
         IN  /\ piece \in Seq(S) /\ Len(piece) = Len(chunk) + 5
             /\ Laid(piece, 0, <<size>>) /\ Laid(piece, 1, eol)
             /\ Laid(piece, 3, chunk) /\ Laid(piece, 3 + Len(chunk), eol)
<1>. DEFINE one == <<size>>
            a == one \o eol
            b == a \o chunk
            c == b \o eol
<1>1. one \in Seq(S) /\ Len(one) = 1 /\ Len(chunk) \in Nat
  BY LenProperties
<1>. HIDE DEF one
<1>2. a \in Seq(S) /\ Len(a) = 3 /\ Laid(a, 0, one) /\ Laid(a, 1, eol)
  <2>1. /\ a \in Seq(S) /\ Len(a) = Len(one) + Len(eol)
        /\ Laid(a, 0, one) /\ Laid(a, Len(one), eol)
    BY <1>1, LaidConcat
  <2>2. Laid(a, 1, eol) /\ Len(a) = 1 + 2
    BY <1>1, <2>1, Zenon
  <2>. QED
    BY <2>1, <2>2
<1>. HIDE DEF a
<1>3. b \in Seq(S) /\ Len(b) = 3 + Len(chunk) /\ Laid(b, 3, chunk)
  <2>1. b \in Seq(S) /\ Len(b) = Len(a) + Len(chunk) /\ Laid(b, Len(a), chunk)
    BY <1>2, LaidConcat
  <2>. QED
    BY <1>2, <2>1, Zenon
<1>4. Laid(b, 0, one) /\ Laid(b, 1, eol)
  BY <1>1, <1>2, LaidLonger DEF b
<1>. HIDE DEF b
<1>5. /\ c \in Seq(S) /\ Len(c) = Len(chunk) + 5
      /\ Laid(c, 3 + Len(chunk), eol)
  <2>1. c \in Seq(S) /\ Len(c) = Len(b) + Len(eol) /\ Laid(c, Len(b), eol)
    BY <1>3, LaidConcat
  <2>. HIDE DEF c
  <2>2. Len(b) = 3 + Len(chunk)
    BY <1>3
  <2>3. Laid(c, 3 + Len(chunk), eol)
    BY <2>1, <2>2, Zenon
  <2>. QED
    BY <1>1, <2>1, <2>2, <2>3
<1>6. Laid(c, 0, one) /\ Laid(c, 1, eol) /\ Laid(c, 3, chunk)
  BY <1>1, <1>3, <1>4, LaidLonger DEF c
<1>. HIDE DEF c
<1>. QED
  BY <1>5, <1>6, Zenon DEF c, b, a, one

(* They lie one after another, at which is where the chunks alone would    *)
(* begin.                                                                  *)
PiecesLie(flat, S, sizes, chunks, eol, at) ==
  /\ flat \in Seq(S) /\ Len(flat) = at[Len(chunks) + 1] + 5 * Len(chunks)
  /\ \A i \in 1..Len(chunks) :
       /\ Laid(flat, at[i] + 5 * (i - 1), <<sizes[i]>>)
       /\ Laid(flat, at[i] + 5 * (i - 1) + 1, eol)
       /\ Laid(flat, at[i] + 5 * (i - 1) + 3, chunks[i])
       /\ Laid(flat, at[i] + 5 * (i - 1) + 3 + Len(chunks[i]), eol)

(* And each part of every piece, when the pieces follow each other.        *)
LEMMA ChunksLaid ==
  ASSUME NEW S, NEW chunks \in Seq(Seq(S)), NEW sizes, NEW eol \in Seq(S),
         \A i \in 1..Len(chunks) : sizes[i] \in S, Len(eol) = 2,
         NEW at, IsStarts(at, chunks)
  PROVE  PiecesLie(FlattenSeq(PiecesOf(sizes, chunks, eol)), S, sizes, chunks, eol, at)
<1>. DEFINE m == Len(chunks)
            pieces == PiecesOf(sizes, chunks, eol)
            flat == FlattenSeq(pieces)
            from == [i \in 1..m + 1 |-> at[i] + 5 * (i - 1)]
<1>1. /\ m \in Nat /\ DOMAIN chunks = 1..m
      /\ \A i \in 1..m : chunks[i] \in Seq(S) /\ Len(chunks[i]) \in Nat
  BY LenProperties, ElementOfSeq
<1>2. /\ at[1] = 0 /\ \A i \in 1..m + 1 : at[i] \in Nat
      /\ \A i \in 1..m : at[i + 1] = at[i] + Len(chunks[i])
  BY DEF IsStarts
<1>. HIDE DEF m
<1>3. ASSUME NEW i \in 1..m
      PROVE  /\ pieces[i] \in Seq(S) /\ Len(pieces[i]) = Len(chunks[i]) + 5
             /\ Laid(pieces[i], 0, <<sizes[i]>>) /\ Laid(pieces[i], 1, eol)
             /\ Laid(pieces[i], 3, chunks[i])
             /\ Laid(pieces[i], 3 + Len(chunks[i]), eol)
  <2>1. pieces[i] = <<sizes[i]>> \o eol \o chunks[i] \o eol
    BY <1>1, Zenon DEF PiecesOf
  <2>2. sizes[i] \in S /\ chunks[i] \in Seq(S)
    BY <1>1 DEF m
  <2>. DEFINE size == sizes[i]
              chunk == chunks[i]
              piece == <<size>> \o eol \o chunk \o eol
  <2>. HIDE DEF size, chunk
  <2>3. /\ piece \in Seq(S) /\ Len(piece) = Len(chunk) + 5
        /\ Laid(piece, 0, <<size>>) /\ Laid(piece, 1, eol)
        /\ Laid(piece, 3, chunk) /\ Laid(piece, 3 + Len(chunk), eol)
    BY <2>2, PieceLaid, Zenon DEF size, chunk
  <2>. HIDE DEF piece, pieces
  <2>. QED
    BY <2>1, <2>3, Zenon DEF size, chunk, piece
<1>4. pieces \in Seq(Seq(S)) /\ Len(pieces) = m
  <2>1. pieces = [i \in 1..m |-> pieces[i]]
    BY <1>1, Zenon DEF PiecesOf
  <2>. HIDE DEF pieces
  <2>2. \A i \in 1..m : pieces[i] \in Seq(S)
    BY <1>3
  <2>3. pieces \in [1..m -> Seq(S)]
    BY <2>1, <2>2
  <2>. QED
    BY <1>1, <2>1, <2>3
<1>. HIDE DEF pieces
<1>5. /\ from \in [1..m + 1 -> Nat] /\ from[1] = 0
      /\ \A i \in 1..m + 1 : from[i] = at[i] + 5 * (i - 1)
  <2>1. \A i \in 1..m + 1 : at[i] + 5 * (i - 1) \in Nat
    BY <1>1, <1>2
  <2>2. from[1] = 0
    BY <1>1, <1>2
  <2>. QED
    BY <1>1, <2>1, <2>2
<1>. HIDE DEF from
<1>6. ASSUME NEW i \in 1..m PROVE from[i + 1] = from[i] + Len(pieces[i])
  <2>1. i \in 1..m + 1 /\ i + 1 \in 1..m + 1 /\ (i + 1) - 1 = i /\ i \in Nat
    BY <1>1
  <2>2. from[i] = at[i] + 5 * (i - 1) /\ from[i + 1] = at[i + 1] + 5 * i
    BY <1>5, <2>1
  <2>3. at[i] \in Nat /\ Len(chunks[i]) \in Nat
    BY <1>1, <1>2, <2>1
  <2>4. at[i + 1] = at[i] + Len(chunks[i])
    BY <1>2
  <2>5. Len(pieces[i]) = Len(chunks[i]) + 5
    BY <1>3
  <2>. DEFINE a == at[i]
              l == Len(chunks[i])
  <2>6. a \in Nat /\ l \in Nat /\ from[i] = a + 5 * (i - 1)
        /\ from[i + 1] = (a + l) + 5 * i /\ Len(pieces[i]) = l + 5
    BY <2>2, <2>3, <2>4, <2>5
  <2>. HIDE DEF a, l
  <2>. QED
    BY <2>1, <2>6
<1>7. IsStarts(from, pieces)
  BY <1>4, <1>5, <1>6 DEF IsStarts
<1>8. /\ flat \in Seq(S) /\ Len(flat) = from[m + 1]
      /\ \A i \in 1..m : Laid(flat, from[i], pieces[i])
  <2>1. /\ flat \in Seq(S) /\ Len(flat) = from[Len(pieces) + 1]
        /\ \A i \in 1..Len(pieces) : Laid(flat, from[i], pieces[i])
    BY <1>4, <1>7, FlattenLays
  <2>. HIDE DEF flat
  <2>. QED
    BY <1>4, <2>1
<1>. HIDE DEF flat
<1>9. Len(flat) = at[m + 1] + 5 * m
  BY <1>1, <1>2, <1>5, <1>8
<1>10. ASSUME NEW i \in 1..m
       PROVE  /\ Laid(flat, from[i], <<sizes[i]>>) /\ Laid(flat, from[i] + 1, eol)
              /\ Laid(flat, from[i] + 3, chunks[i])
              /\ Laid(flat, from[i] + 3 + Len(chunks[i]), eol)
  <2>. DEFINE f == from[i]
              piece == pieces[i]
              one == <<sizes[i]>>
              chunk == chunks[i]
  <2>1. one \in Seq(S) /\ Len(one) \in Nat
    <3>1. sizes[i] \in S
      BY DEF m
    <3>. QED
      BY <3>1
  <2>. HIDE DEF one
  <2>2. /\ f \in Nat /\ Laid(flat, f, piece) /\ Len(flat) \in Nat
        /\ piece \in Seq(S) /\ Len(piece) \in Nat /\ Len(chunk) \in Nat
        /\ Laid(piece, 0, one) /\ Laid(piece, 1, eol) /\ Laid(piece, 3, chunk)
        /\ Laid(piece, 3 + Len(chunk), eol)
    <3>1. i \in 1..m + 1
      BY <1>1
    <3>. QED
      BY <1>1, <1>3, <1>5, <1>8, <3>1, LenProperties DEF one
  <2>. HIDE DEF f, piece, chunk
  <2>3. Len(eol) \in Nat /\ 3 + Len(chunk) \in Nat /\ f + 0 = f
        /\ f + (3 + Len(chunk)) = f + 3 + Len(chunk)
    BY <2>2
  <2>4. Laid(flat, f + 0, one) /\ Laid(flat, f + 1, eol) /\ Laid(flat, f + 3, chunk)
    BY <2>1, <2>2, <2>3, LaidIn
  <2>5. Laid(flat, f + (3 + Len(chunk)), eol)
    BY <2>2, <2>3, LaidIn
  <2>. QED
    BY <2>3, <2>4, <2>5, Zenon DEF f, one, chunk
<1>11. \A i \in 1..m : from[i] = at[i] + 5 * (i - 1)
  BY <1>1, <1>5
<1>. QED
  BY <1>8, <1>9, <1>10, <1>11, Zenon DEF PiecesLie, m, flat, pieces

-----------------------------------------------------------------------------
(* ITS LINES AND ITS CHUNKS                                                *)

(* The symbols of a response. The literals are in STRING, which the        *)
(* provers do not know.                                                    *)
Symbols ==
  STRING \cup {"CR", "LF", "HTTP/1.1 ", " ", "OK", "Set-Cookie: ", "=", ";", "path",
               "Content-Length: ", "Transfer-Encoding: ", "chunked"}

(* The lines of a response: its status, its cookies, and how its body is   *)
(* framed; and where each begins, the empty line after them included.      *)
StatusText(r) == <<"HTTP/1.1 ", ToString(r.code), " ", "OK">>
CookieText(r, i) ==
  <<"Set-Cookie: ", r.cookies[i][1], "=", r.cookies[i][2], ";", "path">>
LengthText(r) == <<"Content-Length: ", ToString(Len(r.body))>>
ChunkedText == <<"Transfer-Encoding: ", "chunked">>

LineOf(r, p) ==
  IF p = 0 THEN StatusText(r)
  ELSE IF p <= Len(r.cookies) THEN CookieText(r, p)
  ELSE IF r.chunked THEN ChunkedText ELSE LengthText(r)

LineStart(r, p) ==
  IF p = 0 THEN 0
  ELSE IF p <= Len(r.cookies) + 1 THEN 8 * p - 2 ELSE 8 * Len(r.cookies) + 10

BodyStart(r) == 8 * Len(r.cookies) + 12

(* Texts of symbols that are not x.                                        *)
LEMMA TextOfTwo ==
  ASSUME NEW S, NEW a \in S, NEW b \in S, NEW x, x \notin {a, b}
  PROVE  /\ <<a, b>> \in Seq(S) /\ Len(<<a, b>>) = 2
         /\ \A j \in 1..2 : <<a, b>>[j] # x
OBVIOUS

(* The same of four symbols.                                               *)
LEMMA TextOfFour ==
  ASSUME NEW S, NEW a \in S, NEW b \in S, NEW c \in S, NEW d \in S,
         NEW x, x \notin {a, b, c, d}
  PROVE  /\ <<a, b, c, d>> \in Seq(S) /\ Len(<<a, b, c, d>>) = 4
         /\ \A j \in 1..4 : <<a, b, c, d>>[j] # x
OBVIOUS

(* And of six.                                                             *)
LEMMA TextOfSix ==
  ASSUME NEW S, NEW a \in S, NEW b \in S, NEW c \in S, NEW d \in S, NEW e \in S,
         NEW f \in S, NEW x, x \notin {a, b, c, d, e, f}
  PROVE  /\ <<a, b, c, d, e, f>> \in Seq(S) /\ Len(<<a, b, c, d, e, f>>) = 6
         /\ \A j \in 1..6 : <<a, b, c, d, e, f>>[j] # x
OBVIOUS

(* The end of a line, whose first symbol ends it.                          *)
LEMMA EolIs ==
  /\ CRLF \in Seq(Symbols) /\ Len(CRLF) = 2
  /\ CRLF[1] = "CR" /\ CRLF[2] = "LF" /\ "CR" # "LF"
<1>1. "CR" \in Symbols /\ "LF" \in Symbols
  BY Zenon DEF Symbols
<1>2. "CR" # "LF"
  OBVIOUS
<1>. DEFINE a == "CR"
            b == "LF"
<1>. HIDE DEF a, b
<1>3. <<a, b>> \in Seq(Symbols) /\ Len(<<a, b>>) = 2
      /\ <<a, b>>[1] = a /\ <<a, b>>[2] = b
  BY <1>1 DEF a, b
<1>. QED
  BY <1>2, <1>3, Zenon DEF CRLF, a, b

(* What a sound response consists of.                                      *)
LEMMA SoundIs ==
  ASSUME NEW r \in Responses, r.sound
  PROVE  /\ r.code \in 0..MaxNumber
         /\ Len(r.cookies) \in Nat /\ DOMAIN r.cookies = 1..Len(r.cookies)
         /\ \A i \in 1..Len(r.cookies) :
              /\ r.cookies[i][1] \in Symbols /\ r.cookies[i][1] # "CR"
              /\ r.cookies[i][2] \in Symbols /\ r.cookies[i][2] # "CR"
         /\ ~r.chunked => /\ r = Sized(r.code, r.cookies, r.body)
                          /\ r.body \in Seq(Symbols)
                          /\ Len(r.body) \in 0..MaxNumber
         /\ r.chunked => /\ r = Chunked(r.code, r.cookies, r.chunks)
                         /\ r.chunks \in Seq(Seq(Symbols))
                         /\ \A i \in 1..Len(r.chunks) : Len(r.chunks[i]) \in 1..MaxNumber
<1>. DEFINE cookies == r.cookies
<1>1. /\ r.code \in 0..MaxNumber
      /\ cookies \in Seq(STRING \X STRING)
      /\ \A i \in DOMAIN cookies : "CR" \notin {cookies[i][1], cookies[i][2]}
      /\ ~r.chunked => /\ r = Sized(r.code, cookies, r.body)
                       /\ r.body \in Seq(STRING)
                       /\ Len(r.body) <= MaxNumber
      /\ r.chunked => /\ r = Chunked(r.code, cookies, r.chunks)
                      /\ r.chunks \in Seq(Seq(STRING))
                      /\ \A i \in DOMAIN r.chunks : Len(r.chunks[i]) \in 1..MaxNumber
  BY SoundAssumption, Zenon
<1>2. Len(cookies) \in Nat /\ DOMAIN cookies = 1..Len(cookies)
  BY <1>1, LenProperties
<1>3. ASSUME NEW i \in 1..Len(cookies)
      PROVE  /\ cookies[i][1] \in Symbols /\ cookies[i][1] # "CR"
             /\ cookies[i][2] \in Symbols /\ cookies[i][2] # "CR"
  <2>1. cookies[i] \in STRING \X STRING
    BY <1>1, ElementOfSeq
  <2>2. cookies[i][1] \in STRING /\ cookies[i][2] \in STRING
    BY <2>1
  <2>3. i \in DOMAIN cookies
    BY <1>2
  <2>. HIDE DEF cookies
  <2>. QED
    BY <1>1, <2>2, <2>3, Zenon DEF Symbols
<1>4. STRING \subseteq Symbols
  BY Zenon DEF Symbols
<1>5. ASSUME NEW s \in Seq(STRING) PROVE s \in Seq(Symbols)
  <2>. DEFINE strings == STRING
  <2>1. s \in Seq(strings) /\ strings \subseteq Symbols
    BY <1>4
  <2>. HIDE DEF strings
  <2>. QED
    BY <2>1
<1>6. ASSUME ~r.chunked PROVE r.body \in Seq(Symbols) /\ Len(r.body) \in 0..MaxNumber
  <2>. DEFINE body == r.body
  <2>1. body \in Seq(STRING) /\ Len(body) <= MaxNumber
    BY <1>1, <1>6
  <2>2. Len(body) \in Nat
    BY <2>1, LenProperties
  <2>3. body \in Seq(Symbols)
    BY <1>5, <2>1
  <2>. HIDE DEF body
  <2>4. Len(body) \in 0..MaxNumber
    BY <2>1, <2>2, ResponseAssumption
  <2>. QED
    BY <2>3, <2>4, Zenon DEF body
<1>7. ASSUME r.chunked
      PROVE  /\ r.chunks \in Seq(Seq(Symbols))
             /\ \A i \in 1..Len(r.chunks) : Len(r.chunks[i]) \in 1..MaxNumber
  <2>. DEFINE chunks == r.chunks
  <2>1. /\ chunks \in Seq(Seq(STRING))
        /\ \A i \in DOMAIN chunks : Len(chunks[i]) \in 1..MaxNumber
    BY <1>1, <1>7
  <2>. HIDE DEF chunks
  <2>2. Len(chunks) \in Nat /\ DOMAIN chunks = 1..Len(chunks)
    BY <2>1, LenProperties
  <2>3. \A i \in 1..Len(chunks) : chunks[i] \in Seq(Symbols)
    BY <1>5, <2>1, ElementOfSeq
  <2>4. chunks \in Seq(Seq(Symbols))
    BY <2>1, <2>2, <2>3
  <2>. QED
    BY <2>1, <2>2, <2>4 DEF chunks
<1>. QED
  BY <1>1, <1>2, <1>3, <1>6, <1>7, Zenon

(* The lines: how long they are, and that none has an end of line in it.   *)
LEMMA LineIs ==
  ASSUME NEW r \in Responses, r.sound
  PROVE  /\ StatusText(r) \in Seq(Symbols) /\ Len(StatusText(r)) = 4
         /\ \A j \in 1..4 : StatusText(r)[j] # "CR"
         /\ \A i \in 1..Len(r.cookies) :
              /\ CookieText(r, i) \in Seq(Symbols) /\ Len(CookieText(r, i)) = 6
              /\ \A j \in 1..6 : CookieText(r, i)[j] # "CR"
         /\ ChunkedText \in Seq(Symbols) /\ Len(ChunkedText) = 2
         /\ \A j \in 1..2 : ChunkedText[j] # "CR"
         /\ ~r.chunked =>
              /\ LengthText(r) \in Seq(Symbols) /\ Len(LengthText(r)) = 2
              /\ \A j \in 1..2 : LengthText(r)[j] # "CR"
<1>1. \A k \in 0..MaxNumber : ToString(k) \in Symbols /\ ToString(k) # "CR"
  <2>1. \A k \in 0..MaxNumber : ToString(k) \in STRING \ {"CR"}
    BY NumberAssumption, Zenon
  <2>. QED
    BY <2>1, Zenon DEF Symbols
<1>2. /\ StatusText(r) \in Seq(Symbols) /\ Len(StatusText(r)) = 4
      /\ \A j \in 1..4 : StatusText(r)[j] # "CR"
  <2>. DEFINE a == "HTTP/1.1 "
              b == ToString(r.code)
              c == " "
              d == "OK"
              x == "CR"
  <2>1. a \in Symbols /\ c \in Symbols /\ d \in Symbols
    BY Zenon DEF Symbols
  <2>2. a # x /\ c # x /\ d # x
    OBVIOUS
  <2>3. b \in Symbols /\ b # x
    BY <1>1, SoundIs, Zenon
  <2>. HIDE DEF a, b, c, d, x
  <2>4. /\ <<a, b, c, d>> \in Seq(Symbols) /\ Len(<<a, b, c, d>>) = 4
        /\ \A j \in 1..4 : <<a, b, c, d>>[j] # x
    BY <2>1, <2>2, <2>3, TextOfFour
  <2>. QED
    BY <2>4, Zenon DEF StatusText, a, b, c, d, x
<1>3. ASSUME NEW i \in 1..Len(r.cookies)
      PROVE  /\ CookieText(r, i) \in Seq(Symbols) /\ Len(CookieText(r, i)) = 6
             /\ \A j \in 1..6 : CookieText(r, i)[j] # "CR"
  <2>. DEFINE a == "Set-Cookie: "
              b == r.cookies[i][1]
              c == "="
              d == r.cookies[i][2]
              e == ";"
              f == "path"
              x == "CR"
  <2>1. a \in Symbols /\ c \in Symbols /\ e \in Symbols /\ f \in Symbols
    BY Zenon DEF Symbols
  <2>2. a # x /\ c # x /\ e # x /\ f # x
    OBVIOUS
  <2>3. b \in Symbols /\ b # x /\ d \in Symbols /\ d # x
    BY SoundIs, Zenon
  <2>. HIDE DEF a, b, c, d, e, f, x
  <2>4. /\ <<a, b, c, d, e, f>> \in Seq(Symbols) /\ Len(<<a, b, c, d, e, f>>) = 6
        /\ \A j \in 1..6 : <<a, b, c, d, e, f>>[j] # x
    BY <2>1, <2>2, <2>3, TextOfSix
  <2>. QED
    BY <2>4, Zenon DEF CookieText, a, b, c, d, e, f, x
<1>4. /\ ChunkedText \in Seq(Symbols) /\ Len(ChunkedText) = 2
      /\ \A j \in 1..2 : ChunkedText[j] # "CR"
  <2>. DEFINE a == "Transfer-Encoding: "
              b == "chunked"
              x == "CR"
  <2>1. a \in Symbols /\ b \in Symbols
    BY Zenon DEF Symbols
  <2>2. a # x /\ b # x
    OBVIOUS
  <2>. HIDE DEF a, b, x
  <2>3. /\ <<a, b>> \in Seq(Symbols) /\ Len(<<a, b>>) = 2
        /\ \A j \in 1..2 : <<a, b>>[j] # x
    BY <2>1, <2>2, TextOfTwo
  <2>. QED
    BY <2>3, Zenon DEF ChunkedText, a, b, x
<1>5. ASSUME ~r.chunked
      PROVE  /\ LengthText(r) \in Seq(Symbols) /\ Len(LengthText(r)) = 2
             /\ \A j \in 1..2 : LengthText(r)[j] # "CR"
  <2>. DEFINE a == "Content-Length: "
              b == ToString(Len(r.body))
              x == "CR"
  <2>1. a \in Symbols
    BY Zenon DEF Symbols
  <2>2. a # x
    OBVIOUS
  <2>3. b \in Symbols /\ b # x
    BY <1>1, <1>5, SoundIs, Zenon
  <2>. HIDE DEF a, b, x
  <2>4. /\ <<a, b>> \in Seq(Symbols) /\ Len(<<a, b>>) = 2
        /\ \A j \in 1..2 : <<a, b>>[j] # x
    BY <2>1, <2>2, <2>3, TextOfTwo
  <2>. QED
    BY <2>4, Zenon DEF LengthText, a, b, x
<1>. QED
  BY <1>2, <1>3, <1>4, <1>5, Zenon

(* The text begins with the head of the response: each line is at its      *)
(* place, with the end of a line behind it, and the empty line after them. *)
Headed(r, text) ==
  /\ text \in Seq(Symbols)
  /\ \A p \in 0..Len(r.cookies) + 1 :
       /\ Laid(text, LineStart(r, p), LineOf(r, p))
       /\ Laid(text, LineStart(r, p) + Len(LineOf(r, p)), CRLF)
  /\ Laid(text, LineStart(r, Len(r.cookies) + 2), CRLF)

(* The head, as a server writes it.                                        *)
HeadText(r) ==
  HeadLines(r.code, r.cookies) \o LineOf(r, Len(r.cookies) + 1) \o CRLF \o CRLF

(* The lines follow each other.                                            *)
LEMMA LinesFollow ==
  ASSUME NEW r \in Responses, r.sound, NEW p \in 0..Len(r.cookies) + 1
  PROVE  /\ LineOf(r, p) \in Seq(Symbols) /\ Len(LineOf(r, p)) \in Nat \ {0}
         /\ \A j \in 1..Len(LineOf(r, p)) : LineOf(r, p)[j] # "CR"
         /\ LineStart(r, p) \in Nat
         /\ LineStart(r, p + 1) = LineStart(r, p) + Len(LineOf(r, p)) + 2
         /\ p = Len(r.cookies) + 1 => BodyStart(r) = LineStart(r, p + 1) + 2
<1>. DEFINE n == Len(r.cookies)
<1>1. n \in Nat
  BY SoundIs, Zenon
<1>2. CASE p = 0
  <2>1. LineOf(r, p) = StatusText(r)
    BY <1>2 DEF LineOf
  <2>2. /\ LineOf(r, p) \in Seq(Symbols) /\ Len(LineOf(r, p)) = 4
        /\ \A j \in 1..4 : LineOf(r, p)[j] # "CR"
    BY <2>1, LineIs, Zenon
  <2>. HIDE DEF n
  <2>3. LineStart(r, p) = 0 /\ LineStart(r, p + 1) = 6 /\ p # n + 1
    BY <1>1, <1>2 DEF LineStart, n
  <2>. QED
    BY <2>2, <2>3 DEF n
<1>3. CASE p \in 1..n
  <2>1. LineOf(r, p) = CookieText(r, p)
    BY <1>1, <1>3 DEF LineOf
  <2>2. /\ LineOf(r, p) \in Seq(Symbols) /\ Len(LineOf(r, p)) = 6
        /\ \A j \in 1..6 : LineOf(r, p)[j] # "CR"
    BY <1>3, <2>1, LineIs, Zenon
  <2>. HIDE DEF n
  <2>3. /\ LineStart(r, p) = 8 * p - 2 /\ LineStart(r, p + 1) = 8 * (p + 1) - 2
        /\ p # n + 1 /\ p \in Nat /\ p >= 1
    BY <1>1, <1>3 DEF LineStart, n
  <2>. QED
    BY <2>2, <2>3 DEF n
<1>4. CASE p = n + 1
  <2>1. LineOf(r, p) = IF r.chunked THEN ChunkedText ELSE LengthText(r)
    BY <1>1, <1>4 DEF LineOf
  <2>2. /\ LineOf(r, p) \in Seq(Symbols) /\ Len(LineOf(r, p)) = 2
        /\ \A j \in 1..2 : LineOf(r, p)[j] # "CR"
    BY <2>1, LineIs, Zenon
  <2>. HIDE DEF n
  <2>3. /\ LineStart(r, p) = 8 * n + 6 /\ LineStart(r, p + 1) = 8 * n + 10
        /\ BodyStart(r) = 8 * n + 12
    BY <1>1, <1>4 DEF LineStart, BodyStart, n
  <2>. QED
    BY <1>1, <2>2, <2>3 DEF n
<1>. QED
  BY <1>1, <1>2, <1>3, <1>4

(* Each line of the head is at its place in it.                            *)
LEMMA HeadIsHeaded ==
  ASSUME NEW r \in Responses, r.sound
  PROVE  Headed(r, HeadText(r)) /\ Len(HeadText(r)) = BodyStart(r)
<1>. DEFINE n == Len(r.cookies)
            status == StatusText(r)
            line(i) == CookieText(r, i)
            lines == [i \in DOMAIN r.cookies |-> line(i)]
            framing == LineOf(r, n + 1)
            eol == CRLF
            head == HeadOf(status, lines, framing, eol)
<1>1. n \in Nat /\ DOMAIN r.cookies = 1..n
  BY SoundIs, Zenon
<1>2. HeadText(r) = head
  <2>1. HeadLines(r.code, r.cookies)
          = status \o eol \o FlattenSeq([i \in DOMAIN r.cookies |-> line(i) \o eol])
    BY Zenon DEF HeadLines, CookieText, StatusText
  <2>. HIDE DEF line, status, eol
  <2>2. [i \in DOMAIN r.cookies |-> line(i) \o eol] = [i \in DOMAIN lines |-> lines[i] \o eol]
    OBVIOUS
  <2>. HIDE DEF lines, framing
  <2>. QED
    BY <2>1, <2>2, Zenon DEF HeadText, HeadOf, framing, n, eol
<1>3. /\ status \in Seq(Symbols) /\ Len(status) = 4
      /\ \A i \in 1..n : line(i) \in Seq(Symbols) /\ Len(line(i)) = 6
      /\ eol \in Seq(Symbols) /\ Len(eol) = 2
  BY LineIs, EolIs, Zenon
<1>4. framing \in Seq(Symbols) /\ Len(framing) = 2
  <2>1. framing = IF r.chunked THEN ChunkedText ELSE LengthText(r)
    BY <1>1 DEF LineOf
  <2>. QED
    BY <2>1, LineIs, Zenon
<1>. HIDE DEF status, line, framing, eol, n
<1>5. /\ lines \in Seq(Seq(Symbols)) /\ Len(lines) = n
      /\ \A i \in 1..n : lines[i] = line(i) /\ Len(lines[i]) = 6
  <2>1. \A i \in 1..n : line(i) \in Seq(Symbols)
    BY <1>3
  <2>2. lines \in [1..n -> Seq(Symbols)]
    BY <1>1, <2>1
  <2>3. \A i \in 1..n : lines[i] = line(i)
    BY <1>1
  <2>. HIDE DEF lines
  <2>. QED
    BY <1>1, <1>3, <2>2, <2>3
<1>. HIDE DEF lines
<1>6. /\ head \in Seq(Symbols) /\ Len(head) = 8 * n + 12
      /\ Laid(head, 0, status) /\ Laid(head, 4, eol)
      /\ \A i \in 1..n : Laid(head, 8 * i - 2, lines[i]) /\ Laid(head, 8 * i + 4, eol)
      /\ Laid(head, 8 * n + 6, framing)
      /\ Laid(head, 8 * n + 8, eol) /\ Laid(head, 8 * n + 10, eol)
  <2>1. \A i \in 1..Len(lines) : Len(lines[i]) = 6
    BY <1>5, Zenon
  <2>. DEFINE k == Len(lines)
  <2>2. /\ head \in Seq(Symbols) /\ Len(head) = 8 * k + 12
        /\ Laid(head, 0, status) /\ Laid(head, 4, eol)
        /\ \A i \in 1..k : Laid(head, 8 * i - 2, lines[i]) /\ Laid(head, 8 * i + 4, eol)
        /\ Laid(head, 8 * k + 6, framing)
        /\ Laid(head, 8 * k + 8, eol) /\ Laid(head, 8 * k + 10, eol)
    BY <1>3, <1>4, <1>5, <2>1, HeadLaid, Zenon
  <2>3. k = n
    BY <1>5
  <2>. HIDE DEF k, head
  <2>. QED
    BY <2>2, <2>3, Zenon
<1>. HIDE DEF head
<1>7. ASSUME NEW p \in 0..n + 1
      PROVE  /\ Laid(head, LineStart(r, p), LineOf(r, p))
             /\ Laid(head, LineStart(r, p) + Len(LineOf(r, p)), eol)
  <2>1. CASE p = 0
    <3>1. LineOf(r, p) = status /\ LineStart(r, p) = 0 /\ 0 + 4 = 4
      BY <2>1 DEF LineOf, LineStart, status
    <3>. QED
      BY <1>3, <1>6, <3>1, Zenon
  <2>2. CASE p \in 1..n
    <3>1. /\ LineOf(r, p) = lines[p] /\ LineStart(r, p) = 8 * p - 2
          /\ (8 * p - 2) + 6 = 8 * p + 4
      BY <1>1, <1>5, <2>2 DEF LineOf, LineStart, line, n
    <3>. QED
      BY <1>5, <1>6, <2>2, <3>1, Zenon
  <2>3. CASE p = n + 1
    <3>1. /\ LineOf(r, p) = framing /\ LineStart(r, p) = 8 * n + 6
          /\ (8 * n + 6) + 2 = 8 * n + 8
      BY <1>1, <2>3 DEF LineStart, framing, n
    <3>. QED
      BY <1>4, <1>6, <3>1, Zenon
  <2>. QED
    BY <1>1, <2>1, <2>2, <2>3
<1>8. LineStart(r, n + 2) = 8 * n + 10
  BY <1>1 DEF LineStart, n
<1>9. Len(head) = BodyStart(r)
  BY <1>6, Zenon DEF BodyStart, n
<1>. QED
  BY <1>2, <1>6, <1>7, <1>8, <1>9, Zenon DEF Headed, n, eol

(* It still is when the text goes on.                                      *)
LEMMA HeadedLonger ==
  ASSUME NEW r \in Responses, r.sound, NEW s, Headed(r, s), NEW t \in Seq(Symbols)
  PROVE  Headed(r, s \o t)
<1>. DEFINE n == Len(r.cookies)
<1>1. n \in Nat /\ s \in Seq(Symbols) /\ CRLF \in Seq(Symbols)
  BY SoundIs, EolIs, Zenon DEF Headed
<1>2. \A from \in Nat : \A piece \in Seq(Symbols) :
        Laid(s, from, piece) => Laid(s \o t, from, piece)
  BY <1>1, LaidLonger
<1>3. ASSUME NEW p \in 0..n + 1
      PROVE  /\ Laid(s \o t, LineStart(r, p), LineOf(r, p))
             /\ Laid(s \o t, LineStart(r, p) + Len(LineOf(r, p)), CRLF)
  <2>1. /\ LineOf(r, p) \in Seq(Symbols) /\ Len(LineOf(r, p)) \in Nat
        /\ LineStart(r, p) \in Nat
    BY LinesFollow
  <2>2. LineStart(r, p) + Len(LineOf(r, p)) \in Nat
    BY <2>1
  <2>3. /\ Laid(s, LineStart(r, p), LineOf(r, p))
        /\ Laid(s, LineStart(r, p) + Len(LineOf(r, p)), CRLF)
    BY <1>3, Zenon DEF Headed
  <2>. QED
    BY <1>1, <1>2, <2>1, <2>2, <2>3, Zenon
<1>4. Laid(s \o t, LineStart(r, n + 2), CRLF)
  <2>1. LineStart(r, n + 2) \in Nat
    BY <1>1 DEF LineStart
  <2>2. Laid(s, LineStart(r, n + 2), CRLF)
    BY Zenon DEF Headed
  <2>. QED
    BY <1>1, <1>2, <2>1, <2>2, Zenon
<1>5. s \o t \in Seq(Symbols)
  BY <1>1, ConcatProperties
<1>. QED
  BY <1>3, <1>4, <1>5, Zenon DEF Headed

(* The fields of a record.                                                 *)
LEMMA FieldsAre ==
  ASSUME NEW r, NEW a, NEW b, NEW c, NEW d, NEW e, NEW f, NEW g,
         r = [wire |-> a, code |-> b, cookies |-> c, chunked |-> d, chunks |-> e,
              body |-> f, sound |-> g]
  PROVE  r.wire = a /\ r.body = f /\ r.sound = g
OBVIOUS

(* A response with a length: its head and its body.                        *)
LEMMA SizedIs ==
  ASSUME NEW r \in Responses, r.sound, ~r.chunked
  PROVE  /\ Headed(r, r.wire)
         /\ r.body \in Seq(Symbols)
         /\ Laid(r.wire, BodyStart(r), r.body)
         /\ Len(r.wire) = BodyStart(r) + Len(r.body)
         /\ Len(r.body) \in 0..MaxNumber /\ Len(r.body) < LengthSize
<1>. DEFINE head == HeadText(r)
            body == r.body
            sound == Len(r.body) < LengthSize
<1>1. /\ r = Sized(r.code, r.cookies, body)
      /\ body \in Seq(Symbols) /\ Len(body) \in 0..MaxNumber
  BY SoundIs, Zenon
<1>2. LineOf(r, Len(r.cookies) + 1) = LengthText(r)
  <2>1. Len(r.cookies) \in Nat
    BY SoundIs, Zenon
  <2>. QED
    BY <2>1 DEF LineOf
<1>3. r = [wire |-> head \o body, code |-> r.code, cookies |-> r.cookies,
           chunked |-> FALSE, chunks |-> <<>>, body |-> body, sound |-> sound]
  BY <1>1, <1>2, Zenon DEF Sized, HeadText, LengthText
<1>. DEFINE code == r.code
            cookies == r.cookies
            whole == head \o body
            chunks == <<>>
<1>0. r = [wire |-> whole, code |-> code, cookies |-> cookies, chunked |-> FALSE,
           chunks |-> chunks, body |-> body, sound |-> sound]
  BY <1>3, Zenon
<1>. HIDE DEF sound, code, cookies, whole, chunks, body
<1>4. r.sound = sound
  BY <1>0, FieldsAre
<1>5. r.wire = head \o body
  <2>1. r.wire = whole
    BY <1>0, FieldsAre
  <2>. QED
    BY <2>1, Zenon DEF whole
<1>. HIDE DEF head
<1>6. Headed(r, head) /\ Len(head) = BodyStart(r) /\ head \in Seq(Symbols)
  BY HeadIsHeaded, Zenon DEF Headed, head
<1>7. Headed(r, head \o body)
  BY <1>1, <1>6, HeadedLonger
<1>8. /\ Len(head \o body) = Len(head) + Len(body)
      /\ Laid(head \o body, Len(head), body)
  BY <1>1, <1>6, LaidConcat
<1>. QED
  BY <1>1, <1>4, <1>5, <1>6, <1>7, <1>8, Zenon DEF body, sound

(* How long the chunks are, the last and empty one included, and where     *)
(* each begins with its size, if at is where it begins in the body.        *)
SizeOf(r, q) == IF q <= Len(r.chunks) THEN Len(r.chunks[q]) ELSE 0
ChunkStart(r, at, q) == BodyStart(r) + (at[q] + 5 * (q - 1))

(* The chunks lie in the response, each behind its size and an end of line *)
(* and before another one, and in the body.                                *)
ChunksLie(r, at) ==
  /\ at \in [1..Len(r.chunks) + 1 -> Nat]
  /\ at[1] = 0
  /\ at[Len(r.chunks) + 1] = Len(r.body)
  /\ \A q \in 1..Len(r.chunks) :
       /\ at[q + 1] = at[q] + Len(r.chunks[q])
       /\ Laid(r.body, at[q], r.chunks[q])
       /\ Laid(r.wire, ChunkStart(r, at, q) + 3, r.chunks[q])
       /\ Laid(r.wire, ChunkStart(r, at, q) + 3 + Len(r.chunks[q]), CRLF)
  /\ \A q \in 1..Len(r.chunks) + 1 :
       /\ Laid(r.wire, ChunkStart(r, at, q), <<ToString(SizeOf(r, q))>>)
       /\ Laid(r.wire, ChunkStart(r, at, q) + 1, CRLF)

(* A response in chunks: its head, and its chunks one after another.       *)
LEMMA ChunkedIs ==
  ASSUME NEW r \in Responses, r.sound, r.chunked
  PROVE  /\ Headed(r, r.wire)
         /\ r.body \in Seq(Symbols)
         /\ \E at : ChunksLie(r, at)
<1>. DEFINE head == HeadText(r)
            chunks == r.chunks
            m == Len(chunks)
            sizes == [i \in DOMAIN chunks |-> ToString(Len(chunks[i]))]
            pieces == [i \in DOMAIN chunks |->
                         <<ToString(Len(chunks[i]))>> \o CRLF \o chunks[i] \o CRLF]
            flat == FlattenSeq(pieces)
            zero == <<"0">>
            a == head \o flat
            b == a \o zero
            c == b \o CRLF
            d == c \o CRLF
            start == BodyStart(r)
<1>1. /\ r = Chunked(r.code, r.cookies, chunks)
      /\ chunks \in Seq(Seq(Symbols))
      /\ \A i \in 1..m : Len(chunks[i]) \in 1..MaxNumber
  BY SoundIs, Zenon
<1>2. LineOf(r, Len(r.cookies) + 1) = ChunkedText
  <2>1. Len(r.cookies) \in Nat
    BY SoundIs, Zenon
  <2>. QED
    BY <2>1 DEF LineOf
<1>. DEFINE whole == d
<1>3. r = [wire |-> whole, code |-> r.code, cookies |-> r.cookies,
           chunked |-> TRUE, chunks |-> chunks, body |-> FlattenSeq(chunks),
           sound |-> TRUE]
  BY <1>1, <1>2, Zenon DEF Chunked, HeadText, ChunkedText
<1>. HIDE DEF whole
<1>4. r.wire = whole /\ r.body = FlattenSeq(chunks)
  <2>. DEFINE code == r.code
              cookies == r.cookies
              body == FlattenSeq(chunks)
  <2>1. r = [wire |-> whole, code |-> code, cookies |-> cookies, chunked |-> TRUE,
             chunks |-> chunks, body |-> body, sound |-> TRUE]
    BY <1>3, Zenon
  <2>. HIDE DEF code, cookies, body, chunks
  <2>2. r.wire = whole /\ r.body = body
    BY <2>1, FieldsAre
  <2>. QED
    BY <2>2, Zenon DEF body
<1>5. Headed(r, head) /\ Len(head) = start /\ head \in Seq(Symbols) /\ start \in Nat
  <2>1. Headed(r, head) /\ Len(head) = start /\ head \in Seq(Symbols)
    BY HeadIsHeaded, Zenon DEF Headed
  <2>2. Len(head) \in Nat
    BY <2>1, LenProperties
  <2>. QED
    BY <2>1, <2>2, Zenon
<1>6. CRLF \in Seq(Symbols) /\ Len(CRLF) = 2
  BY EolIs, Zenon
<1>7. /\ m \in Nat /\ DOMAIN chunks = 1..m
      /\ \A i \in 1..m : chunks[i] \in Seq(Symbols)
  BY <1>1, LenProperties, ElementOfSeq
<1>. HIDE DEF head, chunks, m, start
<1>8. PICK at : IsStarts(at, chunks)
  BY <1>1, StartsExist
<1>9. /\ at \in [1..m + 1 -> Nat] /\ at[1] = 0
      /\ \A q \in 1..m : at[q + 1] = at[q] + Len(chunks[q])
  BY <1>8, Zenon DEF IsStarts, m
<1>10. /\ r.body \in Seq(Symbols) /\ Len(r.body) = at[m + 1]
       /\ \A q \in 1..m : Laid(r.body, at[q], chunks[q])
  <2>1. /\ FlattenSeq(chunks) \in Seq(Symbols) 
        /\ Len(FlattenSeq(chunks)) = at[Len(chunks) + 1]
        /\ \A q \in 1..Len(chunks) : Laid(FlattenSeq(chunks), at[q], chunks[q])
    BY <1>1, <1>8, FlattenLays
  <2>. QED
    BY <1>4, <2>1, Zenon DEF m
<1>11. \A k \in 0..MaxNumber : ToString(k) \in Symbols
  <2>1. \A k \in 0..MaxNumber : ToString(k) \in STRING \ {"CR"}
    BY NumberAssumption, Zenon
  <2>. QED
    BY <2>1, Zenon DEF Symbols
<1>12. \A i \in 1..m : sizes[i] = ToString(Len(chunks[i])) /\ sizes[i] \in Symbols
  <2>1. ASSUME NEW i \in 1..m PROVE Len(chunks[i]) \in 0..MaxNumber
    <3>1. Len(chunks[i]) \in 1..MaxNumber /\ MaxNumber \in Nat
      BY <1>1, ResponseAssumption DEF m
    <3>. QED
      BY <3>1
  <2>2. \A i \in 1..m : sizes[i] = ToString(Len(chunks[i]))
    BY <1>7, Zenon
  <2>. QED
    BY <1>11, <2>1, <2>2, Zenon
<1>13. pieces = PiecesOf(sizes, chunks, CRLF)
  <2>1. \A i \in DOMAIN chunks : sizes[i] = ToString(Len(chunks[i]))
    BY <1>7, <1>12, Zenon
  <2>. HIDE DEF sizes
  <2>. QED
    BY <2>1, Zenon DEF PiecesOf
<1>. HIDE DEF sizes, pieces
<1>14. /\ flat \in Seq(Symbols) /\ Len(flat) = at[m + 1] + 5 * m
       /\ \A q \in 1..m :
            LET from == at[q] + 5 * (q - 1)
            IN  /\ Laid(flat, from, <<sizes[q]>>) /\ Laid(flat, from + 1, CRLF)
                /\ Laid(flat, from + 3, chunks[q])
                /\ Laid(flat, from + 3 + Len(chunks[q]), CRLF)
  <2>1. \A i \in 1..Len(chunks) : sizes[i] \in Symbols
    BY <1>12, Zenon DEF m
  <2>2. PiecesLie(flat, Symbols, sizes, chunks, CRLF, at)
    BY <1>1, <1>6, <1>8, <1>13, <2>1, ChunksLaid, Zenon
  <2>. HIDE DEF flat
  <2>. QED
    BY <2>2, Zenon DEF PiecesLie, m
<1>. HIDE DEF flat
<1>15. zero = <<ToString(0)>> /\ zero \in Seq(Symbols) /\ Len(zero) = 1
  <2>. DEFINE x == ToString(0)
  <2>1. zero = <<x>>
    BY NumberAssumption, Zenon
  <2>2. x \in Symbols
    <3>1. 0 \in 0..MaxNumber
      BY ResponseAssumption
    <3>. QED
      BY <1>11, <3>1, Zenon
  <2>. HIDE DEF x
  <2>3. <<x>> \in Seq(Symbols) /\ Len(<<x>>) = 1
    BY <2>2
  <2>. HIDE DEF zero
  <2>. QED
    BY <2>1, <2>3, Zenon DEF x
<1>. HIDE DEF zero
<1>16. /\ a \in Seq(Symbols) /\ Len(a) = start + Len(flat) /\ Laid(a, start, flat)
  BY <1>5, <1>14, LaidConcat
<1>17. Headed(r, a)
  BY <1>5, <1>14, HeadedLonger
<1>. HIDE DEF a
<1>18. /\ b \in Seq(Symbols) /\ Len(b) = Len(a) + 1 /\ Laid(b, Len(a), zero)
       /\ Laid(b, start, flat)
  <2>1. /\ b \in Seq(Symbols) /\ Len(b) = Len(a) + Len(zero)
        /\ Laid(b, Len(a), zero)
    <3>1. zero \in Seq(Symbols) /\ a \in Seq(Symbols)
      BY <1>15, <1>16
    <3>. QED
      BY <3>1, LaidConcat
  <2>2. Laid(b, start, flat)
    BY <1>5, <1>14, <1>15, <1>16, LaidLonger
  <2>. HIDE DEF b
  <2>. QED
    BY <1>15, <2>1, <2>2
<1>19. Headed(r, b)
  BY <1>15, <1>17, HeadedLonger
<1>. HIDE DEF b
<1>20. Len(a) \in Nat /\ Len(b) \in Nat
  BY <1>16, <1>18, LenProperties
<1>21. /\ c \in Seq(Symbols) /\ Laid(c, Len(b), CRLF) /\ Laid(c, Len(a), zero)
       /\ Laid(c, start, flat)
  BY <1>5, <1>6, <1>14, <1>15, <1>18, <1>20, LaidConcat, LaidLonger
<1>22. Headed(r, c)
  BY <1>6, <1>19, HeadedLonger
<1>. HIDE DEF c
<1>23. /\ d \in Seq(Symbols) /\ Laid(d, Len(b), CRLF) /\ Laid(d, Len(a), zero)
       /\ Laid(d, start, flat)
  BY <1>5, <1>6, <1>14, <1>15, <1>20, <1>21, LaidConcat, LaidLonger
<1>24. Headed(r, d)
  BY <1>6, <1>22, HeadedLonger
<1>25. r.wire = d
  BY <1>4 DEF whole
<1>. HIDE DEF d
<1>26. ASSUME NEW from \in Nat, NEW part \in Seq(Symbols), Laid(flat, from, part)
       PROVE  Laid(d, start + from, part)
  <2>1. Len(d) \in Nat /\ Len(flat) \in Nat /\ Len(part) \in Nat
    BY <1>14, <1>23, LenProperties
  <2>. QED
    BY <1>5, <1>23, <1>26, <2>1, LaidIn
<1>27. ASSUME NEW q \in 1..m
       PROVE  /\ Laid(d, ChunkStart(r, at, q), <<ToString(SizeOf(r, q))>>)
              /\ Laid(d, ChunkStart(r, at, q) + 1, CRLF)
              /\ Laid(d, ChunkStart(r, at, q) + 3, chunks[q])
              /\ Laid(d, ChunkStart(r, at, q) + 3 + Len(chunks[q]), CRLF)
  <2>. DEFINE from == at[q] + 5 * (q - 1)
              size == sizes[q]
              one == <<size>>
              chunk == chunks[q]
  <2>1. at[q] \in Nat /\ q \in Nat /\ q >= 1
    BY <1>7, <1>9
  <2>2. from \in Nat
    BY <2>1
  <2>3. chunk \in Seq(Symbols) /\ Len(chunk) \in Nat
    BY <1>7, LenProperties
  <2>4. SizeOf(r, q) = Len(chunk)
    <3>1. q <= m
      BY <1>7
    <3>. QED
      BY <3>1, Zenon DEF SizeOf, m, chunks
  <2>5. one = <<ToString(SizeOf(r, q))>>
    BY <1>12, <2>4, Zenon
  <2>6. size \in Symbols
    BY <1>12
  <2>. HIDE DEF size
  <2>7. one \in Seq(Symbols)
    BY <2>6
  <2>8. /\ Laid(flat, from, one) /\ Laid(flat, from + 1, CRLF)
        /\ Laid(flat, from + 3, chunk) /\ Laid(flat, from + 3 + Len(chunk), CRLF)
    BY <1>14, Zenon DEF size
  <2>9. ChunkStart(r, at, q) = start + from
    BY DEF ChunkStart, start
  <2>. HIDE DEF from, one, chunk
  <2>10. /\ from + 1 \in Nat /\ from + 3 \in Nat /\ from + 3 + Len(chunk) \in Nat
         /\ start + (from + 1) = (start + from) + 1
         /\ start + (from + 3) = (start + from) + 3
         /\ start + (from + 3 + Len(chunk)) = (start + from) + 3 + Len(chunk)
    BY <1>5, <2>2, <2>3
  <2>11. /\ Laid(d, start + from, one) /\ Laid(d, start + (from + 1), CRLF)
         /\ Laid(d, start + (from + 3), chunk)
         /\ Laid(d, start + (from + 3 + Len(chunk)), CRLF)
    BY <1>6, <1>26, <2>2, <2>3, <2>7, <2>8, <2>10
  <2>. QED
    BY <2>5, <2>9, <2>10, <2>11, Zenon DEF chunk
<1>28. /\ Laid(d, ChunkStart(r, at, m + 1), <<ToString(SizeOf(r, m + 1))>>)
       /\ Laid(d, ChunkStart(r, at, m + 1) + 1, CRLF)
  <2>1. SizeOf(r, m + 1) = 0
    <3>1. ~(m + 1 <= m)
      BY <1>7
    <3>. QED
      BY <3>1, Zenon DEF SizeOf, m, chunks
  <2>2. ChunkStart(r, at, m + 1) = Len(a)
    <3>1. at[m + 1] \in Nat
      BY <1>7, <1>9
    <3>. QED
      BY <1>5, <1>7, <1>14, <1>16, <3>1 DEF ChunkStart, start
  <2>3. Len(b) = Len(a) + 1
    BY <1>18
  <2>. QED
    BY <1>15, <1>23, <2>1, <2>2, <2>3, Zenon
<1>29. \A q \in 1..m + 1 : q \in 1..m \/ q = m + 1
  BY <1>7
<1>30. ChunksLie(r, at)
  BY <1>9, <1>10, <1>25, <1>27, <1>28, <1>29, Zenon DEF ChunksLie, m, chunks
<1>. QED
  BY <1>10, <1>24, <1>25, <1>30, Zenon

-----------------------------------------------------------------------------
(* WHERE THE PARSER IS                                                     *)

(* How much of the response it has taken.                                  *)
Behind == Len(response.wire) - Len(wire) - Len(packet)

(* What it still gets is the rest of the response, in order.               *)
StreamInv ==
  /\ Behind \in Nat
  /\ \A j \in 1..Len(packet) : packet[j] = response.wire[Behind + j]
  /\ \A j \in 1..Len(wire) : wire[j] = response.wire[Behind + Len(packet) + j]

(* The line so far is the beginning of a text.                             *)
Begun(line, text) ==
  /\ Len(line) <= Len(text)
  /\ \A j \in 1..Len(line) : line[j] = text[j]

(* The jar after the first p cookies, and the parser after p lines.        *)
Jarred(p) ==
  \A i \in 1..p :
    (\A j \in i + 1..p : response.cookies[j][1] # response.cookies[i][1])
      => /\ response.cookies[i][1] \in DOMAIN jar
         /\ jar[response.cookies[i][1]] = response.cookies[i][2]

Stored(p) ==
  IF p <= Len(response.cookies) THEN Jarred(p) /\ ~ctx.chunked
  ELSE /\ Jarred(Len(response.cookies))
       /\ ctx.chunked <=> response.chunked
       /\ ~response.chunked => ctx.length = Len(response.body)

(* In a line, with what there is of it in the buffer; or behind it, or     *)
(* before it or the empty line.                                            *)
InLine(p) ==
  /\ Behind = LineStart(response, p) + Len(ctx.line)
  /\ Begun(ctx.line, LineOf(response, p))
AfterLine(p) == Behind = LineStart(response, p) + Len(LineOf(response, p)) + 1
BeforeLine(p) == Behind = LineStart(response, p) /\ ctx.line = <<>>

(* In the head, with what the lines before said stored.                    *)
HeadInv ==
  /\ scanned = <<>>
  /\ ctx.state = "STATUS_LINE" => InLine(0) /\ Stored(0)
  /\ ctx.state = "LINE_CR" =>
       \E p \in 0..Len(response.cookies) + 1 : AfterLine(p) /\ Stored(p)
  /\ ctx.state = "LINE_LF" =>
       \E p \in 1..Len(response.cookies) + 2 : BeforeLine(p) /\ Stored(p - 1)
  /\ ctx.state = "HEADER_LINE" =>
       \E p \in 1..Len(response.cookies) + 1 : InLine(p) /\ Stored(p - 1)
  /\ ctx.state = "END_HEADER_CR" =>
       /\ Behind = LineStart(response, Len(response.cookies) + 2) + 1
       /\ Stored(Len(response.cookies) + 1)

(* In the size of the chunk q or behind it, with all of the body before    *)
(* that chunk handed on; in the chunk, with length of it to come; behind   *)
(* it, and behind the CR that follows.                                     *)
InSize(at, q) ==
  /\ Behind = ChunkStart(response, at, q) + Len(ctx.line)
  /\ Begun(ctx.line, <<ToString(SizeOf(response, q))>>)
  /\ Len(scanned) = at[q]
AfterSize(at, q) ==
  /\ Behind = ChunkStart(response, at, q) + 2
  /\ ctx.line = <<ToString(SizeOf(response, q))>>
  /\ Len(scanned) = at[q]
InData(at, q) ==
  /\ ctx.length \in 1..SizeOf(response, q)
  /\ Behind = ChunkStart(response, at, q) + 3 + (SizeOf(response, q) - ctx.length)
  /\ Len(scanned) = at[q] + (SizeOf(response, q) - ctx.length)
AfterData(at, q) ==
  /\ Behind = ChunkStart(response, at, q) + 3 + SizeOf(response, q)
  /\ Len(scanned) = at[q + 1]
AfterCr(at, q) ==
  /\ Behind = ChunkStart(response, at, q) + 3 + SizeOf(response, q) + 1
  /\ Len(scanned) = at[q + 1]

(* Which of them it is in is its state; behind the last size it stops.     *)
ChunkInv(at, q) ==
  /\ ctx.state = "LENGTH" => InSize(at, q)
  /\ ctx.state = "LENGTH_CR" => AfterSize(at, q)
  /\ ctx.state \in {"IN_CHUNK", "CHUNK_CR", "CHUNK_LF"} => q <= Len(response.chunks)
  /\ ctx.state = "IN_CHUNK" => InData(at, q)
  /\ ctx.state = "CHUNK_CR" => AfterData(at, q)
  /\ ctx.state = "CHUNK_LF" => AfterCr(at, q)

(* In the body.                                                            *)
BodyInv ==
  /\ ctx.state = "IN_BODY" =>
       /\ ~response.chunked
       /\ Behind = BodyStart(response) + Len(scanned)
       /\ ctx.length = Len(response.body) - Len(scanned)
  /\ ctx.state # "IN_BODY" =>
       /\ response.chunked
       /\ \E at : ChunksLie(response, at)
                  /\ \E q \in 1..Len(response.chunks) + 1 : ChunkInv(at, q)

(* A sound response is read without an error, what is handed on is the     *)
(* beginning of the body, and at the end it is all of it.                  *)
TrackInv ==
  response.sound =>
    /\ ctx.state # "IN_ERROR"
    /\ Begun(scanned, response.body)
    /\ ctx.state \in Heading => HeadInv
    /\ ctx.state \in Reading => Jarred(Len(response.cookies)) /\ BodyInv
    /\ ctx.state = "NOOP" =>
         Jarred(Len(response.cookies)) /\ Len(scanned) = Len(response.body)

(* A packet arrives: the parser is where it was.                           *)
LEMMA StreamGoesOn ==
  ASSUME ResponseTypeOK, StreamInv, PacketArrives
  PROVE  StreamInv' /\ Behind' = Behind
<1>. DEFINE w == response.wire
            a == Len(wire)
            b == Behind
<1>1. PICK n \in 1..a : packet' = SubSeq(wire, 1, n) /\ wire' = SubSeq(wire, n + 1, a)
  BY DEF PacketArrives
<1>2. packet = <<>> /\ response' = response /\ Len(packet) = 0
  BY DEF PacketArrives
<1>3. wire \in Seq(Symbol) /\ a \in Nat /\ \A i \in 1..a : wire[i] \in Symbol
  BY LenProperties, ElementOfSeq DEF ResponseTypeOK
<1>4. /\ b = Len(w) - a - 0 /\ b \in Nat
      /\ \A j \in 1..a : wire[j] = w[b + 0 + j]
  BY <1>2 DEF StreamInv, Behind
<1>5. Len(w) = a + b /\ Len(w) \in Int
  <2>1. b = Len(w) - a
    BY <1>2, <1>3 DEF Behind
  <2>. QED
    BY <1>3, <1>4, <2>1, LenProperties, WireAssumption DEF ResponseTypeOK
<1>. HIDE DEF w, b
<1>6. Len(packet') = n /\ \A j \in 1..n : packet'[j] = wire[j]
  <2>1. \A i \in 1..n : wire[i] \in Symbol
    BY <1>3
  <2>2. /\ SubSeq(wire, 1, n) \in Seq(Symbol)
        /\ Len(SubSeq(wire, 1, n)) = IF 1 <= n THEN n - 1 + 1 ELSE 0
        /\ \A i \in 1..n - 1 + 1 : SubSeq(wire, 1, n)[i] = wire[1 + i - 1]
    BY <1>3, <2>1, SubSeqProperties
  <2>. QED
    BY <1>1, <1>3, <2>2
<1>7. Len(wire') = a - n /\ \A j \in 1..a - n : wire'[j] = wire[n + j]
  <2>1. \A i \in n + 1..a : wire[i] \in Symbol
    BY <1>3
  <2>2. /\ Len(SubSeq(wire, n + 1, a)) = IF n + 1 <= a THEN a - (n + 1) + 1 ELSE 0
        /\ \A i \in 1..a - (n + 1) + 1 : SubSeq(wire, n + 1, a)[i] = wire[(n + 1) + i - 1]
    BY <1>3, <2>1, SubSeqProperties
  <2>. QED
    BY <1>1, <1>3, <2>2
<1>. HIDE DEF a
<1>8. Behind' = b
  <2>1. Behind' = Len(w) - Len(wire') - Len(packet')
    BY <1>2 DEF Behind, w
  <2>2. Len(wire') = a - n /\ Len(packet') = n /\ n \in Nat
    BY <1>3, <1>6, <1>7
  <2>3. b \in Nat
    BY <1>4
  <2>. QED
    BY <1>3, <1>5, <2>1, <2>2, <2>3
<1>9. ASSUME NEW j \in 1..n PROVE packet'[j] = w[b + j]
  <2>1. j \in 1..a /\ b + 0 + j = b + j
    BY <1>3, <1>4
  <2>. QED
    BY <1>4, <1>6, <2>1
<1>10. ASSUME NEW j \in 1..a - n PROVE wire'[j] = w[b + n + j]
  <2>1. n + j \in 1..a /\ b + 0 + (n + j) = b + n + j
    BY <1>3, <1>4
  <2>. QED
    BY <1>4, <1>7, <2>1
<1>. QED
  BY <1>2, <1>4, <1>6, <1>7, <1>8, <1>9, <1>10 DEF StreamInv, w, b

(* The parser takes k bytes: they are those that follow in the response.   *)
LEMMA StreamTaken ==
  ASSUME ResponseTypeOK, StreamInv, response' = response, wire' = wire,
         NEW k \in 0..Len(packet), packet' \in Seq(Symbol),
         Len(packet') = Len(packet) - k,
         \A j \in 1..Len(packet) - k : packet'[j] = packet[k + j]
  PROVE  /\ StreamInv' /\ Behind' = Behind + k
         /\ Behind + k <= Len(response.wire)
<1>. DEFINE w == response.wire
            a == Len(wire)
            b == Behind
            c == Len(packet)
<1>1. a \in Nat /\ c \in Nat /\ Len(w) \in Nat
  BY LenProperties, WireAssumption DEF ResponseTypeOK
<1>2. /\ b = Len(w) - a - c /\ b \in Nat
      /\ \A j \in 1..c : packet[j] = w[b + j]
      /\ \A j \in 1..a : wire[j] = w[b + c + j]
  BY DEF StreamInv, Behind
<1>3. Behind' = Len(w) - a - (c - k)
  BY DEF Behind
<1>. HIDE DEF w, b, a, c
<1>4. k \in Nat /\ k <= c
  BY <1>1 DEF c
<1>5. Behind' = b + k /\ b + k <= Len(w)
  BY <1>1, <1>2, <1>3, <1>4
<1>6. ASSUME NEW j \in 1..c - k PROVE packet'[j] = w[(b + k) + j]
  <2>1. k + j \in 1..c /\ b + (k + j) = (b + k) + j
    BY <1>1, <1>2, <1>4
  <2>. QED
    BY <1>2, <1>6, <2>1 DEF c
<1>7. ASSUME NEW j \in 1..a PROVE wire'[j] = w[(b + k) + (c - k) + j]
  <2>1. (b + k) + (c - k) + j = b + c + j
    BY <1>1, <1>2, <1>4
  <2>. QED
    BY <1>2, <2>1
<1>. QED
  BY <1>2, <1>4, <1>5, <1>6, <1>7 DEF StreamInv, w, b, a, c

(* One byte: it is the next one of the response.                           *)
LEMMA ByteTaken ==
  ASSUME ResponseTypeOK, StreamInv, response' = response, wire' = wire,
         packet # <<>>, packet' = Tail(packet)
  PROVE  /\ StreamInv' /\ Behind' = Behind + 1
         /\ Behind + 1 <= Len(response.wire)
         /\ Head(packet) = response.wire[Behind + 1]
<1>. DEFINE c == Len(packet)
<1>1. packet \in Seq(Symbol) /\ c \in Nat
  BY LenProperties DEF ResponseTypeOK
<1>2. /\ c # 0 /\ Tail(packet) \in Seq(Symbol) /\ Len(Tail(packet)) = c - 1
      /\ \A j \in 1..c - 1 : Tail(packet)[j] = packet[1 + j]
      /\ Head(packet) = packet[1]
  <2>1. c # 0
    BY <1>1, EmptySeq
  <2>. QED
    BY <1>1, <2>1, HeadTailProperties
<1>3. 1 \in 0..c /\ 1 \in 1..c
  BY <1>1, <1>2
<1>4. packet[1] = response.wire[Behind + 1]
  BY <1>3 DEF StreamInv
<1>5. StreamInv' /\ Behind' = Behind + 1 /\ Behind + 1 <= Len(response.wire)
  BY <1>2, <1>3, StreamTaken
<1>. QED
  BY <1>2, <1>4, <1>5

(* All of a packet is handed on or dropped.                                *)
LEMMA PacketTaken ==
  ASSUME ResponseTypeOK, StreamInv, response' = response, wire' = wire,
         packet' = <<>>
  PROVE  /\ StreamInv' /\ Behind' = Behind + Len(packet)
         /\ Behind + Len(packet) <= Len(response.wire)
<1>1. Len(packet) \in Nat
  BY LenProperties DEF ResponseTypeOK
<1>2. /\ Len(packet) \in 0..Len(packet)
      /\ packet' \in Seq(Symbol) /\ Len(packet') = Len(packet) - Len(packet)
      /\ \A j \in 1..Len(packet) - Len(packet) : FALSE
  BY <1>1, EmptySeq
<1>. QED
  BY <1>2, StreamTaken

-----------------------------------------------------------------------------
(* READING A LINE                                                          *)

(* The next byte of a line, or its end.                                    *)
LEMMA LineByte ==
  ASSUME NEW r \in Responses, r.sound, Headed(r, r.wire),
         NEW p \in 0..Len(r.cookies) + 1, NEW line \in Seq(Symbol), NEW c \in Symbol,
         Begun(line, LineOf(r, p)), c = r.wire[LineStart(r, p) + Len(line) + 1]
  PROVE  \/ c # "CR" /\ Begun(Append(line, c), LineOf(r, p))
         \/ c = "CR" /\ line = LineOf(r, p)
<1>. DEFINE text == LineOf(r, p)
            l == Len(line)
            m == Len(text)
            s == LineStart(r, p)
            w == r.wire
            cr == "CR"
<1>1. /\ text \in Seq(Symbols) /\ m \in Nat /\ l \in Nat /\ s \in Nat
      /\ \A j \in 1..m : text[j] # cr
  BY LinesFollow, LenProperties
<1>2. l <= m /\ \A j \in 1..l : line[j] = text[j]
  BY DEF Begun
<1>3. Laid(w, s, text) /\ Laid(w, s + m, CRLF)
  BY Zenon DEF Headed
<1>4. CRLF[1] = cr /\ Len(CRLF) = 2
  BY EolIs, Zenon
<1>5. c = w[s + l + 1]
  BY Zenon
<1>. HIDE DEF text, l, m, s, w, cr
<1>6. CASE l < m
  <2>1. l + 1 \in 1..m /\ s + (l + 1) = s + l + 1
    BY <1>1, <1>6
  <2>2. w[s + (l + 1)] = text[l + 1]
    BY <1>3, <2>1 DEF Laid, m
  <2>3. c = text[l + 1] /\ c # cr
    BY <1>1, <1>5, <2>1, <2>2
  <2>4. Len(Append(line, c)) = l + 1 /\ \A j \in 1..l + 1 :
          Append(line, c)[j] = IF j = l + 1 THEN c ELSE line[j]
    BY AppendProperties DEF l
  <2>5. Begun(Append(line, c), text)
    <3>1. l + 1 <= m
      BY <1>1, <1>6
    <3>2. \A j \in 1..l + 1 : j = l + 1 \/ j \in 1..l
      BY <1>1
    <3>3. \A j \in 1..l + 1 : Append(line, c)[j] = text[j]
      BY <1>2, <2>3, <2>4, <3>2
    <3>. QED
      BY <2>4, <3>1, <3>3 DEF Begun, m
  <2>. QED
    BY <2>3, <2>5, Zenon DEF cr, text
<1>7. CASE l = m
  <2>1. 1 \in 1..Len(CRLF) /\ (s + m) + 1 = s + l + 1
    BY <1>1, <1>4, <1>7
  <2>2. w[(s + m) + 1] = cr
    BY <1>3, <1>4, <2>1 DEF Laid
  <2>3. c = cr
    BY <1>5, <2>1, <2>2
  <2>4. line = text
    BY <1>1, <1>2, <1>7 DEF l, m
  <2>. QED
    BY <2>3, <2>4, Zenon DEF cr, text
<1>. QED
  BY <1>1, <1>2, <1>6, <1>7

(* What is behind a line, and what is behind the head.                     *)
LEMMA EolBehind ==
  ASSUME NEW text, NEW from \in Nat, Laid(text, from, CRLF)
  PROVE  text[from + 1] = "CR" /\ text[from + 2] = "LF"
<1>. DEFINE a == "CR"
            b == "LF"
<1>1. Len(CRLF) = 2 /\ CRLF[1] = a /\ CRLF[2] = b
  BY EolIs, Zenon
<1>. HIDE DEF a, b
<1>2. text[from + 1] = a /\ text[from + 2] = b
  BY <1>1 DEF Laid
<1>. QED
  BY <1>2, Zenon DEF a, b

(* process_status_line takes the status.                                   *)
LEMMA StatusRead ==
  ASSUME NEW r \in Responses, r.sound
  PROVE  IsStatusLine(StatusText(r))
<1>. DEFINE a == "HTTP/1.1 "
            b == ToString(r.code)
            c == " "
            d == "OK"
            text == <<a, b, c, d>>
<1>1. IsNumber(b)
  BY SoundIs, NumberReads, Zenon
<1>. HIDE DEF a, b, c, d
<1>2. Len(text) >= 3 /\ text[1] = a /\ text[2] = b /\ text[3] = c
  OBVIOUS
<1>3. text = StatusText(r)
  BY Zenon DEF StatusText, a, b, c, d
<1>. HIDE DEF text
<1>. QED
  BY <1>1, <1>2, <1>3, Zenon DEF IsStatusLine, a, c

(* process_header_line takes a cookie.                                     *)
LEMMA CookieRead ==
  ASSUME NEW r \in Responses, NEW i
  PROVE  LET text == CookieText(r, i)
         IN  /\ IsHeaderLine(text)
             /\ text[1] = "Set-Cookie: "
             /\ text[2] = r.cookies[i][1] /\ text[4] = r.cookies[i][2]
             /\ text[1] # "Content-Length: " /\ text[1] # "Transfer-Encoding: "
<1>. DEFINE a == "Set-Cookie: "
            b == r.cookies[i][1]
            c == "="
            d == r.cookies[i][2]
            e == ";"
            f == "path"
            g == "Content-Length: "
            h == "Transfer-Encoding: "
            text == <<a, b, c, d, e, f>>
<1>1. a # g /\ a # h /\ a \in Headers
  BY DEF Headers
<1>. HIDE DEF a, b, c, d, e, f, g, h
<1>2. Len(text) = 6 /\ text[1] = a /\ text[2] = b /\ text[3] = c /\ text[4] = d
      /\ text # <<>> /\ 3 \in 1..6
  OBVIOUS
<1>3. text = CookieText(r, i)
  BY Zenon DEF CookieText, a, b, c, d, e, f
<1>. HIDE DEF text
<1>4. Contains(text, c)
  BY <1>2, Zenon DEF Contains
<1>5. IsHeaderLine(text)
  BY <1>1, <1>2, <1>4, Zenon DEF IsHeaderLine, a, c, g, h
<1>. QED
  BY <1>1, <1>2, <1>3, <1>5, Zenon DEF a, b, d, g, h

(* It takes how the body is framed, and stores that.                       *)
LEMMA ChunkedRead ==
  /\ IsHeaderLine(ChunkedText)
  /\ ChunkedText[1] = "Transfer-Encoding: "
  /\ ChunkedText[1] # "Content-Length: " /\ ChunkedText[1] # "Set-Cookie: "
<1>. DEFINE a == "Transfer-Encoding: "
            b == "chunked"
            g == "Content-Length: "
            h == "Set-Cookie: "
            text == <<a, b>>
<1>1. a # g /\ a # h /\ a \in Headers
  BY DEF Headers
<1>. HIDE DEF a, b, g, h
<1>2. Len(text) > 1 /\ text[1] = a /\ text[2] = b /\ text # <<>>
  OBVIOUS
<1>3. text = ChunkedText
  BY Zenon DEF ChunkedText, a, b
<1>. HIDE DEF text
<1>4. IsHeaderLine(text)
  BY <1>1, <1>2, Zenon DEF IsHeaderLine, a, b, g, h
<1>. QED
  BY <1>1, <1>2, <1>3, <1>4, Zenon DEF a, g, h

(* The same of a length, which is the number that was written.             *)
LEMMA LengthRead ==
  ASSUME NEW r \in Responses, r.sound, ~r.chunked
  PROVE  /\ IsHeaderLine(LengthText(r))
         /\ LengthText(r)[1] = "Content-Length: " /\ Len(LengthText(r)) > 1
         /\ LengthText(r)[1] # "Transfer-Encoding: "
         /\ LengthText(r)[1] # "Set-Cookie: "
         /\ Number(LengthText(r)[2]) % LengthSize = Len(r.body)
<1>. DEFINE a == "Content-Length: "
            l == Len(r.body)
            b == ToString(l)
            g == "Transfer-Encoding: "
            h == "Set-Cookie: "
            text == <<a, b>>
<1>1. a # g /\ a # h /\ a \in Headers
  BY DEF Headers
<1>2. l \in 0..MaxNumber /\ l < LengthSize
  BY SizedIs, Zenon
<1>. HIDE DEF l
<1>3. IsNumber(b) /\ Number(b) = l
  BY <1>2, NumberReads, Zenon
<1>4. l % LengthSize = l
  <2>1. LengthSize \in Nat /\ LengthSize > 0 /\ l \in Nat
    BY <1>2, ResponseAssumption
  <2>. QED
    BY <1>2, <2>1
<1>. HIDE DEF a, b, g, h
<1>5. Len(text) > 1 /\ text[1] = a /\ text[2] = b /\ text # <<>>
  OBVIOUS
<1>6. text = LengthText(r)
  BY Zenon DEF LengthText, a, b, l
<1>. HIDE DEF text
<1>7. IsHeaderLine(text)
  BY <1>1, <1>3, <1>5, Zenon DEF IsHeaderLine, a, g, h
<1>8. Number(text[2]) % LengthSize = l
  BY <1>3, <1>4, <1>5, Zenon
<1>. QED
  BY <1>1, <1>5, <1>6, <1>7, <1>8, Zenon DEF a, g, h, l

-----------------------------------------------------------------------------
(* IN THE HEAD                                                             *)

(* A sound response of either kind begins with its head.                   *)
LEMMA WireHeaded ==
  ASSUME NEW r \in Responses, r.sound
  PROVE  Headed(r, r.wire) /\ Len(r.cookies) \in Nat
BY SoundIs, SizedIs, ChunkedIs, Zenon

(* What the cases of the parser write to its context.                      *)
LEMMA WritesStateLine ==
  ASSUME ctx \in ContextOf, NEW state, NEW line,
         ctx' = [ctx EXCEPT !.state = state, !.line = line]
  PROVE  /\ ctx'.state = state /\ ctx'.line = line /\ ctx'.code = ctx.code
         /\ ctx'.length = ctx.length /\ ctx'.chunked = ctx.chunked
<1>1. ctx = [state |-> ctx.state, line |-> ctx.line, code |-> ctx.code,
             length |-> ctx.length, chunked |-> ctx.chunked]
  BY DEF ContextOf
<1>2. ctx' = [state |-> state, line |-> line, code |-> ctx.code,
              length |-> ctx.length, chunked |-> ctx.chunked]
  BY <1>1
<1>. QED
  BY <1>2

(* The status code is taken.                                               *)
LEMMA WritesStateCode ==
  ASSUME ctx \in ContextOf, NEW state, NEW code,
         ctx' = [ctx EXCEPT !.state = state, !.code = code]
  PROVE  /\ ctx'.state = state /\ ctx'.line = ctx.line /\ ctx'.code = code
         /\ ctx'.length = ctx.length /\ ctx'.chunked = ctx.chunked
<1>1. ctx = [state |-> ctx.state, line |-> ctx.line, code |-> ctx.code,
             length |-> ctx.length, chunked |-> ctx.chunked]
  BY DEF ContextOf
<1>2. ctx' = [state |-> state, line |-> ctx.line, code |-> code,
              length |-> ctx.length, chunked |-> ctx.chunked]
  BY <1>1
<1>. QED
  BY <1>2

(* How the body is framed is taken.                                        *)
LEMMA WritesStateFraming ==
  ASSUME ctx \in ContextOf, NEW state, NEW length, NEW chunked,
         ctx' = [ctx EXCEPT !.state = state, !.length = length, !.chunked = chunked]
  PROVE  /\ ctx'.state = state /\ ctx'.line = ctx.line /\ ctx'.code = ctx.code
         /\ ctx'.length = length /\ ctx'.chunked = chunked
<1>1. ctx = [state |-> ctx.state, line |-> ctx.line, code |-> ctx.code,
             length |-> ctx.length, chunked |-> ctx.chunked]
  BY DEF ContextOf
<1>2. ctx' = [state |-> state, line |-> ctx.line, code |-> ctx.code,
              length |-> length, chunked |-> chunked]
  BY <1>1
<1>. QED
  BY <1>2

(* What was stored stays while nothing is stored.                          *)
LEMMA StaysStored ==
  ASSUME NEW p, Stored(p), response' = response, jar' = jar,
         ctx'.chunked = ctx.chunked, ctx'.length = ctx.length
  PROVE  Stored(p)'
BY Zenon DEF Stored, Jarred

(* While the parser goes on in the head the invariant is about the head.   *)
LEMMA HeadTracks ==
  ASSUME ctx'.state \in Heading, HeadInv', response' = response
  PROVE  TrackInv'
<1>1. ctx'.state # "IN_ERROR" /\ ~(ctx'.state \in Reading) /\ ctx'.state # "NOOP"
  BY DEF Heading, Reading
<1>2. Begun(<<>>, response.body)
  <2>. QED
    BY DEF Begun
<1>3. scanned' = <<>>
  BY DEF HeadInv
<1>. QED
  BY <1>1, <1>2, <1>3, Zenon DEF TrackInv

(* A case of the parser that takes one byte.                               *)
TakesByte ==
  /\ response' = response /\ wire' = wire
  /\ packet # <<>> /\ packet' = Tail(packet)

(* Where it then is.                                                       *)
LEMMA ByteIs ==
  ASSUME ResponseTypeOK, StreamInv, TakesByte
  PROVE  /\ Head(packet) \in Symbol
         /\ Head(packet) = response.wire[Behind + 1]
         /\ Behind' = Behind + 1 /\ Behind \in Nat
         /\ ctx \in ContextOf /\ ctx.line \in Seq(Symbol)
<1>1. packet \in Seq(Symbol) /\ ctx \in ContextOf /\ Behind \in Nat
  BY DEF ResponseTypeOK, StreamInv
<1>2. ctx.line \in Seq(Symbol)
  BY <1>1 DEF ContextOf
<1>3. Head(packet) \in Symbol
  BY <1>1, PacketStep DEF TakesByte
<1>4. Behind' = Behind + 1 /\ Head(packet) = response.wire[Behind + 1]
  BY ByteTaken DEF TakesByte
<1>. QED
  BY <1>1, <1>2, <1>3, <1>4

(* The byte after the beginning of a line goes on with it or ends it.      *)
LEMMA LineIsRead ==
  ASSUME ResponseTypeOK, StreamInv, response.sound, TakesByte,
         NEW p \in 0..Len(response.cookies) + 1, InLine(p)
  PROVE  /\ Head(packet) # "CR" /\ ctx'.line = Append(ctx.line, Head(packet))
              => InLine(p)'
         /\ Head(packet) = "CR"
              => ctx.line = LineOf(response, p) /\ AfterLine(p)'
<1>. DEFINE r == response
            c == Head(packet)
            s == LineStart(r, p)
            l == Len(ctx.line)
            cr == "CR"
            longer == Append(ctx.line, c)
<1>1. r \in Responses /\ r.sound /\ Headed(r, r.wire)
  BY WireHeaded DEF ResponseTypeOK
<1>2. /\ c \in Symbol /\ c = r.wire[Behind + 1] /\ Behind' = Behind + 1
      /\ ctx.line \in Seq(Symbol) /\ r' = r
  BY ByteIs DEF TakesByte
<1>3. Behind = s + l /\ Begun(ctx.line, LineOf(r, p))
  BY DEF InLine
<1>4. s \in Nat /\ l \in Nat
  BY <1>1, <1>2, LinesFollow, LenProperties
<1>5. Len(longer) = l + 1
  BY <1>2, AppendProperties
<1>. HIDE DEF s, l, c
<1>6. c = r.wire[s + l + 1]
  BY <1>2, <1>3, Zenon
<1>7. \/ c # cr /\ Begun(longer, LineOf(r, p))
      \/ c = cr /\ ctx.line = LineOf(r, p)
  BY <1>1, <1>2, <1>3, <1>6, LineByte, Zenon DEF s, l
<1>. HIDE DEF cr, longer
<1>8. ASSUME c # cr, ctx'.line = longer PROVE InLine(p)'
  <2>1. Behind' = s + Len(ctx'.line)
    BY <1>2, <1>3, <1>4, <1>5, <1>8
  <2>2. Begun(ctx'.line, LineOf(r', p))
    BY <1>2, <1>7, <1>8, Zenon
  <2>. QED
    BY <1>2, <2>1, <2>2, Zenon DEF InLine, s
<1>9. ASSUME c = cr PROVE ctx.line = LineOf(r, p) /\ AfterLine(p)'
  <2>1. ctx.line = LineOf(r, p)
    BY <1>7, <1>9
  <2>2. Behind' = s + l + 1
    BY <1>2, <1>3, Zenon
  <2>. QED
    BY <1>2, <2>1, <2>2, Zenon DEF AfterLine, s, l
<1>. QED
  BY <1>8, <1>9, Zenon DEF c, cr, longer

(* STATUS_LINE: the line goes on, or it is the status.                     *)
LEMMA StatusLineTracks ==
  ASSUME ResponseTypeOK, StreamInv, TrackInv, response.sound, StatusLine
  PROVE  TrackInv'
<1>1. /\ TakesByte /\ response' = response /\ jar' = jar /\ scanned' = scanned
      /\ ctx.state = "STATUS_LINE" /\ packet # <<>>
  BY DEF StatusLine, In, Collect, TakesByte, connectionVars, bodyVars
<1>2. /\ ctx \in ContextOf /\ response \in Responses
      /\ Len(response.cookies) \in Nat
  BY <1>1, ByteIs, WireHeaded DEF ResponseTypeOK
<1>3. HeadInv
  BY <1>1 DEF TrackInv, Heading
<1>4. InLine(0) /\ Stored(0) /\ scanned = <<>> /\ 0 \in 0..Len(response.cookies) + 1
  BY <1>1, <1>2, <1>3 DEF HeadInv
<1>5. CASE Head(packet) # "CR"
  <2>1. ctx' = [ctx EXCEPT !.line = Append(@, Head(packet))]
    BY <1>5 DEF StatusLine, Collect
  <2>2. /\ ctx'.state = ctx.state /\ ctx'.line = Append(ctx.line, Head(packet))
        /\ ctx'.chunked = ctx.chunked /\ ctx'.length = ctx.length
    BY <1>2, <2>1 DEF ContextOf
  <2>3. InLine(0)'
    BY <1>1, <1>4, <1>5, <2>2, LineIsRead
  <2>4. Stored(0)'
    BY <1>1, <1>4, <2>2, StaysStored
  <2>5. ctx'.state = "STATUS_LINE"
    BY <1>1, <2>2
  <2>6. HeadInv' /\ ctx'.state \in Heading
    BY <1>1, <1>4, <2>3, <2>4, <2>5 DEF HeadInv, Heading
  <2>. QED
    BY <1>1, <2>6, HeadTracks
<1>6. CASE Head(packet) = "CR"
  <2>1. ctx.line = LineOf(response, 0) /\ AfterLine(0)'
    BY <1>1, <1>4, <1>6, LineIsRead
  <2>2. IsStatusLine(ctx.line)
    <3>1. LineOf(response, 0) = StatusText(response)
      BY DEF LineOf
    <3>. QED
      BY <1>2, <2>1, <3>1, StatusRead, Zenon
  <2>3. ctx' = [ctx EXCEPT !.state = "LINE_CR", !.code = Number(ctx.line[2])]
    BY <1>6, <2>2 DEF StatusLine, Collect
  <2>4. /\ ctx'.state = "LINE_CR" /\ ctx'.chunked = ctx.chunked
        /\ ctx'.length = ctx.length
    BY <1>2, <2>3, WritesStateCode, Zenon
  <2>5. Stored(0)'
    BY <1>1, <1>4, <2>4, StaysStored
  <2>6. HeadInv' /\ ctx'.state \in Heading
    BY <1>1, <1>4, <2>1, <2>4, <2>5 DEF HeadInv, Heading
  <2>. QED
    BY <1>1, <2>6, HeadTracks
<1>. QED
  BY <1>5, <1>6

(* LINE_CR: the line that follows, or the empty line, begins.              *)
LEMMA LineCrTracks ==
  ASSUME ResponseTypeOK, StreamInv, TrackInv, response.sound, LineCr
  PROVE  TrackInv'
<1>. DEFINE n == Len(response.cookies)
            w == response.wire
<1>1. /\ TakesByte /\ response' = response /\ jar' = jar /\ scanned' = scanned
      /\ ctx.state = "LINE_CR" /\ packet # <<>>
  BY DEF LineCr, In, TakesByte, connectionVars, bodyVars
<1>2. /\ ctx \in ContextOf /\ response \in Responses
      /\ n \in Nat /\ Headed(response, w)
  BY <1>1, ByteIs, WireHeaded DEF ResponseTypeOK
<1>3. HeadInv
  BY <1>1 DEF TrackInv, Heading
<1>4. scanned = <<>>
  BY <1>3 DEF HeadInv
<1>5. PICK p \in 0..n + 1 : AfterLine(p) /\ Stored(p)
  BY <1>1, <1>3, Zenon DEF HeadInv
<1>. DEFINE s == LineStart(response, p)
            l == Len(LineOf(response, p))
<1>6. s \in Nat /\ l \in Nat /\ LineStart(response, p + 1) = s + l + 2
  BY <1>2, LinesFollow
<1>7. Behind = s + l + 1 /\ Behind' = Behind + 1 /\ Head(packet) = w[Behind + 1]
  BY <1>1, <1>5, ByteIs DEF AfterLine
<1>8. Laid(w, s + l, CRLF)
  BY <1>2, Zenon DEF Headed
<1>. HIDE DEF n, w, s, l
<1>9. Head(packet) = "LF"
  <2>1. s + l \in Nat /\ Behind + 1 = s + l + 2
    BY <1>6, <1>7
  <2>2. w[s + l + 2] = "LF"
    BY <1>8, <2>1, EolBehind, Zenon
  <2>. QED
    BY <1>7, <2>1, <2>2, Zenon
<1>10. ctx' = [ctx EXCEPT !.state = "LINE_LF", !.line = <<>>]
  BY <1>9 DEF LineCr
<1>11. /\ ctx'.state = "LINE_LF" /\ ctx'.line = <<>>
       /\ ctx'.chunked = ctx.chunked /\ ctx'.length = ctx.length
  BY <1>2, <1>10, WritesStateLine, Zenon
<1>12. BeforeLine(p + 1)'
  <2>1. Behind' = LineStart(response, p + 1)
    BY <1>6, <1>7
  <2>. QED
    BY <1>1, <1>11, <2>1, Zenon DEF BeforeLine
<1>13. p + 1 \in 1..n + 2 /\ (p + 1) - 1 = p
  BY <1>2
<1>14. Stored(p)'
  BY <1>1, <1>5, <1>11, StaysStored
<1>15. \E q \in 1..Len(response'.cookies) + 2 : BeforeLine(q)' /\ Stored(q - 1)'
  BY <1>1, <1>12, <1>13, <1>14, Zenon DEF n
<1>16. HeadInv' /\ ctx'.state \in Heading
  <2>1. ctx'.state \in Heading /\ scanned' = <<>>
    BY <1>1, <1>4, <1>11 DEF Heading
  <2>2. HeadInv'
    BY <1>11, <1>15, <2>1 DEF HeadInv
  <2>. QED
    BY <2>1, <2>2
<1>. QED
  BY <1>1, <1>16, HeadTracks

(* The empty line is where a line could begin, and only there is its first *)
(* symbol the end of a line.                                               *)
LEMMA LinesBegin ==
  ASSUME NEW r \in Responses, r.sound, Headed(r, r.wire),
         NEW p \in 1..Len(r.cookies) + 2
  PROVE  r.wire[LineStart(r, p) + 1] = "CR" <=> p = Len(r.cookies) + 2
<1>. DEFINE n == Len(r.cookies)
            w == r.wire
            s == LineStart(r, p)
            text == LineOf(r, p)
            cr == "CR"
<1>1. n \in Nat
  BY SoundIs, Zenon
<1>2. CASE p = n + 2
  <2>1. s \in Nat
    BY <1>1, <1>2 DEF LineStart
  <2>2. Laid(w, s, CRLF)
    BY <1>2, Zenon DEF Headed
  <2>3. w[s + 1] = cr
    BY <2>1, <2>2, EolBehind, Zenon
  <2>. QED
    BY <1>2, <2>3
<1>3. CASE p # n + 2
  <2>1. p \in 0..n + 1
    BY <1>1, <1>3
  <2>2. Laid(w, s, text)
    BY <2>1, Zenon DEF Headed
  <2>3. Len(text) \in Nat \ {0} /\ \A j \in 1..Len(text) : text[j] # cr
    BY <2>1, LinesFollow, Zenon
  <2>4. 1 \in 1..Len(text)
    BY <2>3
  <2>. HIDE DEF text, cr, s, w
  <2>5. w[s + 1] # cr
    BY <2>2, <2>3, <2>4 DEF Laid
  <2>. QED
    BY <1>3, <2>5, Zenon DEF cr, s, w
<1>. QED
  BY <1>2, <1>3

(* LINE_LF at the empty line, which nothing else is taken for.             *)
LEMMA EndOfHeadersTracks ==
  ASSUME ResponseTypeOK, StreamInv, TrackInv, response.sound, EndOfHeaders
  PROVE  TrackInv'
<1>. DEFINE n == Len(response.cookies)
            w == response.wire
            cr == "CR"
<1>1. /\ TakesByte /\ response' = response /\ jar' = jar /\ scanned' = scanned
      /\ ctx.state = "LINE_LF" /\ packet # <<>> /\ Head(packet) = cr
  BY DEF EndOfHeaders, Next, In, TakesByte, connectionVars, bodyVars
<1>2. /\ ctx \in ContextOf /\ response \in Responses
      /\ n \in Nat /\ Headed(response, w)
  BY <1>1, ByteIs, WireHeaded DEF ResponseTypeOK
<1>3. HeadInv
  BY <1>1 DEF TrackInv, Heading
<1>4. scanned = <<>>
  BY <1>3 DEF HeadInv
<1>5. PICK p \in 1..n + 2 : BeforeLine(p) /\ Stored(p - 1)
  BY <1>1, <1>3, Zenon DEF HeadInv
<1>. HIDE DEF n, w, cr
<1>6. /\ Behind = LineStart(response, p) /\ Behind' = Behind + 1
      /\ Head(packet) = w[Behind + 1]
  BY <1>1, <1>5, ByteIs DEF BeforeLine, w
<1>7. w[LineStart(response, p) + 1] = cr
  BY <1>1, <1>6, Zenon
<1>8. p = n + 2
  BY <1>2, <1>7, LinesBegin, Zenon DEF n, w, cr
<1>9. p - 1 = n + 1
  BY <1>2, <1>8
<1>10. ctx' = [ctx EXCEPT !.state = "END_HEADER_CR"]
  BY DEF EndOfHeaders, Next
<1>11. /\ ctx'.state = "END_HEADER_CR"
       /\ ctx'.chunked = ctx.chunked /\ ctx'.length = ctx.length
  BY <1>2, <1>10 DEF ContextOf
<1>12. Stored(n + 1)'
  <2>1. Stored(n + 1)
    BY <1>5, <1>9
  <2>2. Stored(p - 1)'
    BY <1>1, <1>5, <1>11, StaysStored
  <2>. QED
    BY <1>1, <1>9, <2>2, Zenon DEF n
<1>13. Behind' = LineStart(response', Len(response'.cookies) + 2) + 1
  BY <1>1, <1>6, <1>8, Zenon DEF n
<1>14. ctx'.state \in Heading /\ scanned' = <<>>
  BY <1>1, <1>4, <1>11 DEF Heading
<1>15. HeadInv'
  <2>1. Stored(Len(response.cookies) + 1)'
    BY <1>1, <1>12, Zenon DEF n
  <2>. QED
    BY <1>11, <1>13, <1>14, <2>1 DEF HeadInv
<1>. QED
  BY <1>1, <1>14, <1>15, HeadTracks

(* requester_cookie_add keeps the jar right.                               *)
LEMMA CookieStored ==
  ASSUME NEW i \in 1..Len(response.cookies), Len(response.cookies) \in Nat,
         Jarred(i - 1), response' = response,
         jar' = CookieAdd(jar, response.cookies[i][1], response.cookies[i][2])
  PROVE  Jarred(i)'
<1>. DEFINE name(j) == response.cookies[j][1]
            value(j) == response.cookies[j][2]
<1>1. SUFFICES ASSUME NEW k \in 1..i, \A j \in k + 1..i : name(j) # name(k)
               PROVE  name(k) \in DOMAIN jar' /\ jar'[name(k)] = value(k)
  BY Zenon DEF Jarred
<1>. HIDE DEF name, value
<1>2. jar' = [x \in DOMAIN jar \cup {name(i)} |-> IF x = name(i) THEN value(i) ELSE jar[x]]
  BY Zenon DEF CookieAdd, name, value
<1>3. CASE k = i
  BY <1>2, <1>3, Zenon
<1>4. CASE k # i
  <2>1. k \in 1..i - 1 /\ i \in k + 1..i /\ \A j \in k + 1..i - 1 : j \in k + 1..i
    BY <1>4
  <2>2. \A j \in k + 1..i - 1 : name(j) # name(k)
    BY <1>1, <2>1, Zenon
  <2>3. name(k) \in DOMAIN jar /\ jar[name(k)] = value(k)
    BY <2>1, <2>2, Zenon DEF Jarred, name, value
  <2>4. name(i) # name(k)
    BY <1>1, <2>1, Zenon
  <2>. QED
    BY <1>2, <2>3, <2>4, Zenon
<1>. QED
  BY <1>3, <1>4

(* A cookie's line, or the one about the body.                             *)
LEMMA HeaderIs ==
  ASSUME response \in Responses, response.sound,
         NEW p \in 1..Len(response.cookies) + 1
  PROVE  \/ /\ p \in 1..Len(response.cookies) /\ p - 1 <= Len(response.cookies)
            /\ LineOf(response, p) = CookieText(response, p)
         \/ /\ p = Len(response.cookies) + 1 /\ p - 1 = Len(response.cookies)
            /\ ~(p <= Len(response.cookies))
            /\ LineOf(response, p) = IF response.chunked THEN ChunkedText
                                     ELSE LengthText(response)
<1>. DEFINE n == Len(response.cookies)
<1>1. n \in Nat /\ p \in 1..n + 1
  BY WireHeaded
<1>. HIDE DEF n
<1>2. CASE p <= n
  <2>1. p \in 1..n /\ p - 1 <= n /\ p # 0
    BY <1>1, <1>2
  <2>. QED
    BY <1>2, <2>1, Zenon DEF LineOf, n
<1>3. CASE ~(p <= n)
  <2>1. p = n + 1 /\ p - 1 = n /\ p # 0
    BY <1>1, <1>3
  <2>. QED
    BY <1>3, <2>1, Zenon DEF LineOf, n
<1>. QED
  BY <1>2, <1>3

(* process_header_line takes it.                                           *)
LEMMA HeaderTaken ==
  ASSUME response \in Responses, response.sound,
         NEW p \in 1..Len(response.cookies) + 1
  PROVE  IsHeaderLine(LineOf(response, p))
BY HeaderIs, CookieRead, ChunkedRead, LengthRead, Zenon

(* What process_header_line stores of a line of the head.                  *)
StoresLine ==
  /\ jar' = JarAfter(ctx.line)
  /\ ctx'.length = LengthAfter(ctx.line)
  /\ ctx'.chunked <=> (ctx.chunked \/ ctx.line[1] = "Transfer-Encoding: ")

(* It is in the jar, or how the body is framed is in the context.          *)
LEMMA HeaderStored ==
  ASSUME ctx \in ContextOf, response \in Responses, response.sound, response' = response,
         NEW p \in 1..Len(response.cookies) + 1, Stored(p - 1),
         ctx.line = LineOf(response, p), StoresLine
  PROVE  Stored(p)'
<1>. DEFINE n == Len(response.cookies)
            line == ctx.line
            te == "Transfer-Encoding: "
            cl == "Content-Length: "
            sc == "Set-Cookie: "
<1>1. n \in Nat /\ p \in 1..n + 1
  BY WireHeaded, Zenon
<1>. HIDE DEF n, line, te, cl, sc
<1>2. CASE p <= n
  <2>1. p \in 1..n /\ p - 1 <= n
    BY <1>1, <1>2
  <2>2. line = CookieText(response, p)
    <3>1. p # 0
      BY <2>1
    <3>. QED
      BY <1>2, <3>1, Zenon DEF LineOf, n, line
  <2>3. /\ IsHeaderLine(line) /\ line[1] = sc
        /\ line[2] = response.cookies[p][1] /\ line[4] = response.cookies[p][2]
        /\ line[1] # cl /\ line[1] # te
    BY <2>2, CookieRead, Zenon DEF te, cl, sc
  <2>4. Jarred(p - 1) /\ ~ctx.chunked
    BY <2>1, Zenon DEF Stored, n, line
  <2>5. jar' = CookieAdd(jar, response.cookies[p][1], response.cookies[p][2])
    BY <2>3, Zenon DEF StoresLine, JarAfter, line, sc
  <2>6. Jarred(p)'
    BY <1>1, <2>1, <2>4, <2>5, CookieStored, Zenon DEF n
  <2>7. ~ctx'.chunked
    BY <2>3, <2>4, Zenon DEF StoresLine, te, line
  <2>. QED
    BY <1>2, <2>3, <2>6, <2>7, Zenon DEF Stored, n, line
<1>3. CASE ~(p <= n)
  <2>1. p = n + 1 /\ p - 1 = n /\ n <= n /\ p # 0
    BY <1>1, <1>3
  <2>2. Jarred(n) /\ ~ctx.chunked
    BY <2>1, Zenon DEF Stored, n
  <2>3. line = IF response.chunked THEN ChunkedText ELSE LengthText(response)
    BY <1>3, <2>1, Zenon DEF LineOf, n, line
  <2>4. CASE response.chunked
    <3>1. IsHeaderLine(line) /\ line[1] = te /\ line[1] # sc
      BY <2>3, <2>4, ChunkedRead, Zenon DEF te, sc
    <3>2. jar' = jar
      BY <3>1, Zenon DEF StoresLine, JarAfter, line, sc
    <3>3. ctx'.chunked
      BY <3>1, Zenon DEF StoresLine, te, line
    <3>4. Jarred(n)'
      BY <2>2, <3>2, Zenon DEF Jarred, n
    <3>5. ctx'.chunked <=> response.chunked
      BY <2>4, <3>3
    <3>. QED
      BY <1>3, <2>4, <3>1, <3>4, <3>5, Zenon DEF Stored, n, line
  <2>5. CASE ~response.chunked
    <3>1. /\ IsHeaderLine(line) /\ line[1] = cl /\ Len(line) > 1
          /\ line[1] # te /\ line[1] # sc
          /\ Number(line[2]) % LengthSize = Len(response.body)
      BY <2>3, <2>5, LengthRead, Zenon DEF te, sc, cl
    <3>2. jar' = jar
      BY <3>1, Zenon DEF StoresLine, JarAfter, line, sc
    <3>3. ctx'.length = Len(response.body)
      BY <3>1, Zenon DEF StoresLine, LengthAfter, line, cl
    <3>4. Jarred(n)'
      BY <2>2, <3>2, Zenon DEF Jarred, n
    <3>5. ctx'.chunked <=> response.chunked
      BY <2>2, <2>5, <3>1, Zenon DEF StoresLine, te, line
    <3>. QED
      BY <1>3, <3>1, <3>3, <3>4, <3>5, Zenon DEF Stored, n, line
  <2>. QED
    BY <2>4, <2>5, Zenon
<1>. QED
  BY <1>2, <1>3, Zenon

(* LINE_LF at a line, and HEADER_LINE: the line goes on, or is stored.     *)
LEMMA HeaderLineTracks ==
  ASSUME ResponseTypeOK, StreamInv, TrackInv, response.sound, HeaderLine
  PROVE  TrackInv'
<1>. DEFINE n == Len(response.cookies)
            w == response.wire
            cr == "CR"
            c == Head(packet)
<1>1. /\ TakesByte /\ response' = response /\ scanned' = scanned
      /\ \/ ctx.state = "HEADER_LINE"
         \/ ctx.state = "LINE_LF" /\ c # cr
  BY DEF HeaderLine, TakesByte, connectionVars, bodyVars
<1>2. /\ ctx \in ContextOf /\ response \in Responses /\ ctx.line \in Seq(Symbol)
      /\ n \in Nat /\ Headed(response, w)
  BY <1>1, ByteIs, WireHeaded DEF ResponseTypeOK
<1>3. HeadInv
  BY <1>1 DEF TrackInv, Heading
<1>4. scanned = <<>>
  BY <1>3 DEF HeadInv
<1>. HIDE DEF n, w, cr, c
<1>5. \E p \in 1..n + 1 : InLine(p) /\ Stored(p - 1)
  <2>1. CASE ctx.state = "HEADER_LINE"
    BY <1>3, <2>1, Zenon DEF HeadInv, n
  <2>2. CASE ctx.state = "LINE_LF" /\ c # cr
    <3>1. PICK p \in 1..n + 2 : BeforeLine(p) /\ Stored(p - 1)
      BY <1>3, <2>2, Zenon DEF HeadInv, n
    <3>2. Behind = LineStart(response, p) /\ ctx.line = <<>> /\ c = w[Behind + 1]
      BY <1>1, <3>1, ByteIs DEF BeforeLine, w, c
    <3>3. p # n + 2
      <4>1. w[LineStart(response, p) + 1] # cr
        BY <2>2, <3>2, Zenon
      <4>. QED
        BY <1>2, <4>1, LinesBegin, Zenon DEF n, w, cr
    <3>4. p \in 1..n + 1 /\ p \in 0..n + 1
      BY <1>2, <3>3
    <3>. DEFINE text == LineOf(response, p)
                s == LineStart(response, p)
    <3>5. Len(text) \in Nat /\ s \in Nat
      BY <1>2, <3>4, LinesFollow DEF n
    <3>. HIDE DEF text, s
    <3>6. Begun(ctx.line, text)
      <4>1. Len(ctx.line) = 0
        BY <3>2
      <4>. QED
        BY <3>5, <4>1 DEF Begun
    <3>7. Behind = s + Len(ctx.line)
      BY <3>2, <3>5 DEF s
    <3>8. InLine(p)
      BY <3>6, <3>7, Zenon DEF InLine, text, s
    <3>. QED
      BY <3>1, <3>4, <3>8
  <2>. QED
    BY <1>1, <2>1, <2>2
<1>6. PICK p \in 1..n + 1 : InLine(p) /\ Stored(p - 1)
  BY <1>5
<1>7. p \in 0..n + 1
  BY <1>2
<1>8. CASE c # cr
  <2>1. ctx' = [ctx EXCEPT !.state = "HEADER_LINE", !.line = Append(@, c)] /\ jar' = jar
    BY <1>8, Zenon DEF HeaderLine, c, cr
  <2>2. /\ ctx'.state = "HEADER_LINE" /\ ctx'.line = Append(ctx.line, c)
        /\ ctx'.chunked = ctx.chunked /\ ctx'.length = ctx.length
    BY <1>2, <2>1, WritesStateLine, Zenon
  <2>3. InLine(p)'
    BY <1>1, <1>6, <1>7, <1>8, <2>2, LineIsRead, Zenon DEF n, c, cr
  <2>4. Stored(p - 1)'
    BY <1>1, <1>6, <2>1, <2>2, StaysStored, Zenon
  <2>5. \E q \in 1..Len(response'.cookies) + 1 : InLine(q)' /\ Stored(q - 1)'
    BY <1>1, <1>6, <2>3, <2>4, Zenon DEF n
  <2>6. ctx'.state \in Heading /\ scanned' = <<>>
    BY <1>1, <1>4, <2>2 DEF Heading
  <2>7. HeadInv'
    BY <2>2, <2>5, <2>6 DEF HeadInv
  <2>. QED
    BY <1>1, <2>6, <2>7, HeadTracks
<1>9. CASE c = cr
  <2>1. ctx.line = LineOf(response, p) /\ AfterLine(p)'
    BY <1>1, <1>6, <1>7, <1>9, LineIsRead, Zenon DEF n, c, cr
  <2>. DEFINE length == LengthAfter(ctx.line)
              chunked == ctx.chunked \/ ctx.line[1] = "Transfer-Encoding: "
              Takes == /\ ctx' = [ctx EXCEPT !.state = "LINE_CR", !.length = length,
                                             !.chunked = chunked]
                       /\ jar' = JarAfter(ctx.line)
  <2>2. IsHeaderLine(ctx.line) => Takes
    BY <1>9, Zenon DEF HeaderLine, c, cr
  <2>3. IsHeaderLine(ctx.line)
    BY <1>2, <1>6, <2>1, HeaderTaken, Zenon DEF n
  <2>4. Takes
    BY <2>2, <2>3
  <2>. HIDE DEF length, chunked
  <2>5. /\ ctx'.state = "LINE_CR" /\ ctx'.length = length /\ ctx'.chunked = chunked
    BY <1>2, <2>4, WritesStateFraming, Zenon
  <2>6. StoresLine
    BY <2>4, <2>5, Zenon DEF StoresLine, length, chunked
  <2>7. Stored(p)'
    BY <1>1, <1>2, <1>6, <2>1, <2>6, HeaderStored, Zenon DEF n
  <2>8. \E q \in 0..Len(response'.cookies) + 1 : AfterLine(q)' /\ Stored(q)'
    BY <1>1, <1>7, <2>1, <2>7, Zenon DEF n
  <2>9. ctx'.state \in Heading /\ scanned' = <<>>
    BY <1>1, <1>4, <2>5 DEF Heading
  <2>10. HeadInv'
    BY <2>5, <2>8, <2>9 DEF HeadInv
  <2>. QED
    BY <1>1, <2>9, <2>10, HeadTracks
<1>. QED
  BY <1>8, <1>9

(* While the parser goes on in the body the invariant is about the body.   *)
LEMMA BodyTracks ==
  ASSUME ctx'.state \in Reading, response' = response, jar' = jar,
         Jarred(Len(response.cookies)), Begun(scanned', response.body), BodyInv'
  PROVE  TrackInv'
<1>1. ctx'.state # "IN_ERROR" /\ ~(ctx'.state \in Heading) /\ ctx'.state # "NOOP"
  BY DEF Heading, Reading
<1>2. Jarred(Len(response.cookies))'
  BY Zenon DEF Jarred
<1>. QED
  BY <1>1, <1>2, Zenon DEF TrackInv

(* And in the chunks, about some chunk.                                    *)
LEMMA ChunkTracks ==
  ASSUME ctx'.state \in Reading \ {"IN_BODY"}, response' = response, jar' = jar,
         Jarred(Len(response.cookies)), Begun(scanned', response.body),
         response.chunked, NEW at, ChunksLie(response, at),
         NEW q \in 1..Len(response.chunks) + 1, ChunkInv(at, q)'
  PROVE  TrackInv'
<1>1. ctx'.state \in Reading /\ ctx'.state # "IN_BODY"
  OBVIOUS
<1>2. BodyInv'
  BY <1>1, Zenon DEF BodyInv
<1>. QED
  BY <1>1, <1>2, BodyTracks, Zenon

(* What there is of a chunk in the response.                               *)
LEMMA ChunkIs ==
  ASSUME NEW r \in Responses, r.sound, r.chunked, NEW at, ChunksLie(r, at),
         NEW q \in 1..Len(r.chunks) + 1
  PROVE  /\ at[q] \in Nat /\ ChunkStart(r, at, q) \in Nat
         /\ SizeOf(r, q) \in 0..MaxNumber
         /\ r.wire[ChunkStart(r, at, q) + 1] = ToString(SizeOf(r, q))
         /\ r.wire[ChunkStart(r, at, q) + 2] = "CR"
         /\ r.wire[ChunkStart(r, at, q) + 3] = "LF"
         /\ SizeOf(r, q) = 0 => at[q] = Len(r.body)
         /\ SizeOf(r, q) # 0 =>
              /\ q \in 1..Len(r.chunks) /\ q <= Len(r.chunks)
              /\ q + 1 \in 1..Len(r.chunks) + 1
         /\ q <= Len(r.chunks) =>
              /\ SizeOf(r, q) = Len(r.chunks[q])
              /\ q + 1 \in 1..Len(r.chunks) + 1
              /\ at[q + 1] = at[q] + SizeOf(r, q)
              /\ ChunkStart(r, at, q + 1) = ChunkStart(r, at, q) + 3 + SizeOf(r, q) + 2
              /\ Laid(r.body, at[q], r.chunks[q])
              /\ Laid(r.wire, ChunkStart(r, at, q) + 3, r.chunks[q])
              /\ r.wire[ChunkStart(r, at, q) + 3 + SizeOf(r, q) + 1] = "CR"
              /\ r.wire[ChunkStart(r, at, q) + 3 + SizeOf(r, q) + 2] = "LF"
<1>. DEFINE m == Len(r.chunks)
            w == r.wire
            start == BodyStart(r)
            here == ChunkStart(r, at, q)
            size == SizeOf(r, q)
            chunk == r.chunks[q]
            text == ToString(size)
            cr == "CR"
            lf == "LF"
<1>1. m \in Nat /\ \A i \in 1..m : Len(r.chunks[i]) \in 1..MaxNumber
  <2>1. r.chunks \in Seq(Seq(Symbols))
    BY SoundIs, Zenon
  <2>2. m \in Nat
    BY <2>1, LenProperties
  <2>. QED
    BY <2>2, SoundIs, Zenon
<1>2. start \in Nat
  <2>1. Len(r.cookies) \in Nat
    BY SoundIs, Zenon
  <2>. QED
    BY <2>1 DEF BodyStart
<1>3. /\ at \in [1..m + 1 -> Nat]
      /\ at[m + 1] = Len(r.body)
      /\ \A i \in 1..m : /\ at[i + 1] = at[i] + Len(r.chunks[i])
                         /\ Laid(r.body, at[i], r.chunks[i])
                         /\ Laid(w, ChunkStart(r, at, i) + 3, r.chunks[i])
                         /\ Laid(w, ChunkStart(r, at, i) + 3 + Len(r.chunks[i]), CRLF)
      /\ Laid(w, here, <<text>>) /\ Laid(w, here + 1, CRLF)
  BY Zenon DEF ChunksLie
<1>4. q \in 1..m + 1
  OBVIOUS
<1>5. size = IF q <= m THEN Len(chunk) ELSE 0
  BY Zenon DEF SizeOf
<1>6. here = start + (at[q] + 5 * (q - 1))
      /\ ChunkStart(r, at, q + 1) = start + (at[q + 1] + 5 * ((q + 1) - 1))
  BY Zenon DEF ChunkStart
<1>. HIDE DEF m, w, start, here, size, text, cr, lf, chunk
<1>7. q \in Nat /\ q >= 1 /\ at[q] \in Nat
  BY <1>1, <1>3, <1>4
<1>8. here \in Nat
  BY <1>2, <1>6, <1>7
<1>9. w[here + 1] = text
  <2>. DEFINE one == <<text>>
  <2>1. one[1] = text /\ 1 \in 1..Len(one)
    OBVIOUS
  <2>2. Laid(w, here, one)
    BY <1>3
  <2>. HIDE DEF one
  <2>. QED
    BY <2>1, <2>2 DEF Laid
<1>10. w[here + 2] = cr /\ w[here + 3] = lf
  <2>1. here + 1 \in Nat /\ (here + 1) + 1 = here + 2 /\ (here + 1) + 2 = here + 3
    BY <1>8
  <2>2. w[(here + 1) + 1] = cr /\ w[(here + 1) + 2] = lf
    BY <1>3, <2>1, EolBehind, Zenon DEF cr, lf
  <2>. QED
    BY <2>1, <2>2
<1>11. CASE q <= m
  <2>1. q \in 1..m /\ q + 1 \in 1..m + 1
    BY <1>1, <1>4, <1>11
  <2>2. size = Len(chunk)
    BY <1>5, <1>11
  <2>3. Len(chunk) \in 1..MaxNumber
    BY <1>1, <2>1, Zenon DEF chunk
  <2>4. size \in Nat /\ size # 0 /\ size \in 0..MaxNumber
    BY <2>2, <2>3, ResponseAssumption
  <2>5. /\ at[q + 1] = at[q] + size
        /\ Laid(r.body, at[q], chunk)
        /\ Laid(w, here + 3, chunk)
        /\ Laid(w, here + 3 + size, CRLF)
    BY <1>3, <2>1, <2>2, Zenon DEF chunk, here
  <2>6. ChunkStart(r, at, q + 1) = here + 3 + size + 2
    <3>. DEFINE a == at[q]
                b == at[q + 1]
    <3>1. /\ here = start + (a + 5 * (q - 1)) /\ b = a + size /\ a \in Nat
          /\ ChunkStart(r, at, q + 1) = start + (b + 5 * ((q + 1) - 1))
      BY <1>6, <1>7, <2>5
    <3>. HIDE DEF a, b
    <3>. QED
      BY <1>2, <1>7, <2>4, <3>1
  <2>7. w[here + 3 + size + 1] = cr /\ w[here + 3 + size + 2] = lf
    <3>1. here + 3 + size \in Nat
      BY <1>8, <2>4
    <3>. QED
      BY <2>5, <3>1, EolBehind, Zenon DEF cr, lf
  <2>. QED
    BY <1>7, <1>8, <1>9, <1>10, <1>11, <2>1, <2>2, <2>4, <2>5, <2>6, <2>7, Zenon
       DEF m, w, here, size, text, cr, lf, chunk
<1>12. CASE ~(q <= m)
  <2>1. q = m + 1 /\ size = 0 /\ size \in 0..MaxNumber
    BY <1>1, <1>4, <1>5, <1>12, ResponseAssumption
  <2>2. at[q] = Len(r.body)
    BY <1>3, <2>1
  <2>. QED
    BY <1>7, <1>8, <1>9, <1>10, <1>12, <2>1, <2>2, Zenon
       DEF m, w, here, size, text, cr, lf
<1>. QED
  BY <1>11, <1>12

(* Where the body begins.                                                  *)
LEMMA BodyBegins ==
  ASSUME NEW r \in Responses, r.sound
  PROVE  /\ LineStart(r, Len(r.cookies) + 2) \in Nat
         /\ BodyStart(r) = LineStart(r, Len(r.cookies) + 2) + 2
         /\ r.wire[LineStart(r, Len(r.cookies) + 2) + 2] = "LF"
         /\ r.body \in Seq(Symbols) /\ Len(r.body) \in Nat
<1>. DEFINE n == Len(r.cookies)
            s == LineStart(r, n + 2)
<1>1. n \in Nat /\ Headed(r, r.wire)
  BY WireHeaded
<1>2. s = 8 * n + 10 /\ BodyStart(r) = 8 * n + 12
  <2>. HIDE DEF n
  <2>1. n + 2 # 0 /\ ~(n + 2 <= n + 1)
    BY <1>1
  <2>. QED
    BY <2>1, Zenon DEF LineStart, BodyStart, n
<1>3. Laid(r.wire, s, CRLF)
  BY <1>1, Zenon DEF Headed
<1>4. r.body \in Seq(Symbols)
  BY SizedIs, ChunkedIs, Zenon
<1>5. Len(r.body) \in Nat
  BY <1>4, LenProperties
<1>. HIDE DEF n, s
<1>6. s \in Nat /\ BodyStart(r) = s + 2
  BY <1>1, <1>2
<1>7. r.wire[s + 2] = "LF"
  BY <1>3, <1>6, EolBehind, Zenon
<1>. QED
  BY <1>4, <1>5, <1>6, <1>7, Zenon DEF s, n

(* END_HEADER_CR: the body begins, or the first of its chunks.             *)
LEMMA EndHeaderCrTracks ==
  ASSUME ResponseTypeOK, StreamInv, TrackInv, response.sound, EndHeaderCr
  PROVE  TrackInv'
<1>. DEFINE n == Len(response.cookies)
            w == response.wire
            s == LineStart(response, n + 2)
            body == response.body
<1>1. /\ TakesByte /\ response' = response /\ jar' = jar /\ scanned' = scanned
      /\ ctx.state = "END_HEADER_CR"
  BY DEF EndHeaderCr, In, TakesByte, connectionVars
<1>2. /\ ctx \in ContextOf /\ response \in Responses
  BY DEF ResponseTypeOK
<1>3. HeadInv
  BY <1>1 DEF TrackInv, Heading
<1>4. scanned = <<>> /\ Behind = s + 1 /\ Stored(n + 1)
  BY <1>1, <1>3 DEF HeadInv
<1>5. n \in Nat
  BY <1>2, WireHeaded
<1>6. /\ s \in Nat /\ BodyStart(response) = s + 2 /\ w[s + 2] = "LF"
      /\ Len(body) \in Nat
  BY <1>2, BodyBegins, Zenon
<1>7. /\ Jarred(n)
      /\ ctx.chunked <=> response.chunked
      /\ ~response.chunked => ctx.length = Len(body)
  <2>1. ~(n + 1 <= n)
    BY <1>5
  <2>. QED
    BY <1>4, <2>1, Zenon DEF Stored
<1>8. Head(packet) = w[Behind + 1] /\ Behind' = Behind + 1
  BY <1>1, ByteIs
<1>. HIDE DEF n, w, s, body
<1>9. Head(packet) = "LF" /\ Behind' = BodyStart(response)
  <2>1. Behind + 1 = s + 2
    BY <1>4, <1>6
  <2>. QED
    BY <1>6, <1>8, <2>1, Zenon
<1>. DEFINE state == IF ctx.chunked THEN "LENGTH" ELSE "IN_BODY"
<1>10. ctx' = [ctx EXCEPT !.state = state, !.line = <<>>]
  BY <1>9, Zenon DEF EndHeaderCr
<1>. HIDE DEF state
<1>11. /\ ctx'.state = state /\ ctx'.line = <<>> /\ ctx'.length = ctx.length
  BY <1>2, <1>10, WritesStateLine, Zenon
<1>12. Begun(scanned', response.body)
  <2>1. Len(scanned') = 0
    BY <1>1, <1>4
  <2>. QED
    BY <1>6, <2>1 DEF Begun, body
<1>13. CASE response.chunked
  <2>1. ctx'.state = "LENGTH"
    BY <1>7, <1>11, <1>13, Zenon DEF state
  <2>2. PICK at : ChunksLie(response, at)
    BY <1>2, <1>13, ChunkedIs, Zenon
  <2>3. 1 \in 1..Len(response.chunks) + 1
    <3>1. response.chunks \in Seq(Seq(Symbols))
      BY <1>2, <1>13, SoundIs, Zenon
    <3>. QED
      BY <3>1, LenProperties
  <2>4. at[1] = 0
    BY <2>2 DEF ChunksLie
  <2>5. ChunkStart(response, at, 1) = BodyStart(response)
    <3>1. BodyStart(response) \in Nat
      BY <1>6
    <3>. QED
      BY <2>4, <3>1 DEF ChunkStart
  <2>6. InSize(at, 1)'
    <3>. DEFINE text == <<ToString(SizeOf(response, 1))>>
                here == ChunkStart(response, at, 1)
    <3>1. Len(text) = 1
      OBVIOUS
    <3>. HIDE DEF text, here
    <3>2. Len(ctx'.line) = 0 /\ Len(scanned') = 0
      BY <1>1, <1>4, <1>11
    <3>3. Begun(ctx'.line, text)
      BY <3>1, <3>2 DEF Begun
    <3>4. Behind' = here + Len(ctx'.line)
      BY <1>6, <1>9, <2>5, <3>2 DEF here
    <3>. QED
      BY <1>1, <2>4, <3>2, <3>3, <3>4, Zenon DEF InSize, text, here
  <2>7. ChunkInv(at, 1)'
    BY <2>1, <2>6 DEF ChunkInv
  <2>8. ctx'.state \in Reading \ {"IN_BODY"}
    BY <2>1 DEF Reading
  <2>. QED
    BY <1>1, <1>7, <1>12, <1>13, <2>2, <2>3, <2>7, <2>8, ChunkTracks, Zenon DEF n
<1>14. CASE ~response.chunked
  <2>1. ctx'.state = "IN_BODY"
    BY <1>7, <1>11, <1>14, Zenon DEF state
  <2>2. ctx'.state \in Reading
    BY <2>1 DEF Reading
  <2>3. Len(scanned') = 0 /\ ctx'.length = Len(body) - Len(scanned')
        /\ Behind' = BodyStart(response) + Len(scanned')
    <3>1. Len(scanned') = 0
      BY <1>1, <1>4
    <3>2. ctx'.length = Len(body)
      BY <1>7, <1>11, <1>14
    <3>. QED
      BY <1>6, <1>9, <3>1, <3>2
  <2>4. BodyInv'
    BY <1>1, <1>14, <2>1, <2>3, Zenon DEF BodyInv, body
  <2>. QED
    BY <1>1, <1>7, <1>12, <2>2, <2>4, BodyTracks, Zenon DEF n
<1>. QED
  BY <1>13, <1>14

-----------------------------------------------------------------------------
(* IN THE CHUNKS                                                           *)

(* What a parser in the chunks stands by.                                  *)
LEMMA InChunks ==
  ASSUME ResponseTypeOK, TrackInv, response.sound, ctx.state \in Reading \ {"IN_BODY"}
  PROVE  /\ response \in Responses /\ response.chunked
         /\ Jarred(Len(response.cookies)) /\ Begun(scanned, response.body)
         /\ \E at : ChunksLie(response, at)
                    /\ \E q \in 1..Len(response.chunks) + 1 : ChunkInv(at, q)
<1>1. ctx.state \in Reading /\ ctx.state # "IN_BODY"
  OBVIOUS
<1>2. response \in Responses
  BY DEF ResponseTypeOK
<1>. QED
  BY <1>1, <1>2, Zenon DEF TrackInv, BodyInv

(* LENGTH: the size of the chunk, or the end of its line.                  *)
LEMMA LengthTracks ==
  ASSUME ResponseTypeOK, StreamInv, TrackInv, response.sound, Length
  PROVE  TrackInv'
<1>. DEFINE w == response.wire
            c == Head(packet)
            cr == "CR"
<1>1. /\ TakesByte /\ response' = response /\ jar' = jar /\ scanned' = scanned
      /\ ctx.state = "LENGTH"
  BY DEF Length, In, Next, Collect, TakesByte, connectionVars, bodyVars
<1>2. ctx.state \in Reading \ {"IN_BODY"}
  BY <1>1 DEF Reading
<1>3. /\ response \in Responses /\ response.chunked
      /\ Jarred(Len(response.cookies)) /\ Begun(scanned', response.body)
  BY <1>1, <1>2, InChunks, Zenon
<1>4. PICK at : ChunksLie(response, at)
                /\ \E q \in 1..Len(response.chunks) + 1 : ChunkInv(at, q)
  BY <1>2, InChunks, Zenon
<1>5. PICK q \in 1..Len(response.chunks) + 1 : ChunkInv(at, q)
  BY <1>4
<1>6. InSize(at, q)
  BY <1>1, <1>5 DEF ChunkInv
<1>. DEFINE here == ChunkStart(response, at, q)
            text == ToString(SizeOf(response, q))
            l == Len(ctx.line)
<1>7. /\ here \in Nat /\ w[here + 1] = text /\ w[here + 2] = cr /\ text # cr
  <2>1. /\ here \in Nat /\ w[here + 1] = text /\ w[here + 2] = cr
        /\ SizeOf(response, q) \in 0..MaxNumber
    BY <1>3, <1>4, ChunkIs
  <2>. QED
    BY <2>1, NumberAssumption, Zenon
<1>8. /\ Behind = here + l /\ Begun(ctx.line, <<text>>) /\ Len(scanned) = at[q]
  BY <1>6 DEF InSize
<1>9. /\ c \in Symbol /\ c = w[Behind + 1] /\ Behind' = Behind + 1
      /\ ctx \in ContextOf /\ ctx.line \in Seq(Symbol)
  BY <1>1, ByteIs
<1>10. ctx' = IF c = cr THEN [ctx EXCEPT !.state = "LENGTH_CR"]
              ELSE [ctx EXCEPT !.line = Append(@, c)]
  BY Zenon DEF Length, Next, Collect
<1>. HIDE DEF w, c, cr, here, text
<1>11. \/ l = 0 /\ ctx.line = <<>>
       \/ l = 1 /\ ctx.line = <<text>>
  <2>1. l \in Nat /\ l <= 1 /\ \A j \in 1..l : ctx.line[j] = <<text>>[j]
    BY <1>8, <1>9, LenProperties DEF Begun
  <2>2. CASE l = 0
    BY <1>9, <2>2, EmptySeq
  <2>3. CASE l = 1
    <3>1. ctx.line[1] = text
      BY <2>1, <2>3
    <3>2. ctx.line = [j \in 1..l |-> ctx.line[j]]
      BY <1>9
    <3>. QED
      BY <2>3, <3>1, <3>2
  <2>4. l = 0 \/ l = 1
    <3>1. l \in Nat /\ l <= 1
      BY <2>1
    <3>. HIDE DEF l
    <3>. QED
      BY <3>1
  <2>. QED
    BY <2>2, <2>3, <2>4, Zenon
<1>. HIDE DEF l
<1>12. CASE l = 0 /\ ctx.line = <<>>
  <2>1. Behind + 1 = here + 1
    BY <1>7, <1>8, <1>12
  <2>2. c = text /\ c # cr
    BY <1>7, <1>9, <2>1, Zenon
  <2>3. ctx' = [ctx EXCEPT !.line = Append(@, c)]
    BY <1>10, <2>2
  <2>4. ctx'.state = "LENGTH" /\ ctx'.line = Append(ctx.line, c)
    BY <1>1, <1>9, <2>3 DEF ContextOf
  <2>5. ctx'.line = <<text>>
    BY <1>12, <2>2, <2>4
  <2>6. Len(<<text>>) = 1 /\ Begun(<<text>>, <<text>>)
    BY DEF Begun
  <2>7. Behind' = here + Len(ctx'.line)
    BY <1>7, <1>9, <2>1, <2>5, <2>6
  <2>8. InSize(at, q)'
    BY <1>1, <1>8, <2>5, <2>6, <2>7, Zenon DEF InSize, here, text
  <2>9. ChunkInv(at, q)'
    BY <2>4, <2>8 DEF ChunkInv
  <2>10. ctx'.state \in Reading \ {"IN_BODY"}
    BY <2>4 DEF Reading
  <2>. QED
    BY <1>1, <1>3, <1>4, <2>9, <2>10, ChunkTracks, Zenon
<1>13. CASE l = 1 /\ ctx.line = <<text>>
  <2>1. Behind + 1 = here + 2
    BY <1>7, <1>8, <1>13
  <2>2. c = cr
    BY <1>7, <1>9, <2>1, Zenon
  <2>3. ctx' = [ctx EXCEPT !.state = "LENGTH_CR"]
    BY <1>10, <2>2
  <2>4. ctx'.state = "LENGTH_CR" /\ ctx'.line = ctx.line
    BY <1>9, <2>3 DEF ContextOf
  <2>5. AfterSize(at, q)'
    BY <1>1, <1>8, <1>9, <1>13, <2>1, <2>4, Zenon DEF AfterSize, here, text
  <2>6. ChunkInv(at, q)'
    BY <2>4, <2>5 DEF ChunkInv
  <2>7. ctx'.state \in Reading \ {"IN_BODY"}
    BY <2>4 DEF Reading
  <2>. QED
    BY <1>1, <1>3, <1>4, <2>6, <2>7, ChunkTracks, Zenon
<1>. QED
  BY <1>11, <1>12, <1>13

(* The parser has read the last chunk, or all of the body.                 *)
LEMMA NoopTracks ==
  ASSUME ctx'.state = "NOOP", response' = response, jar' = jar,
         Jarred(Len(response.cookies)), Begun(scanned', response.body),
         Len(scanned') = Len(response.body)
  PROVE  TrackInv'
<1>1. ctx'.state # "IN_ERROR" /\ ~(ctx'.state \in Heading) /\ ~(ctx'.state \in Reading)
  BY DEF Heading, Reading
<1>2. Jarred(Len(response.cookies))'
  BY Zenon DEF Jarred
<1>. QED
  BY <1>1, <1>2, Zenon DEF TrackInv

(* LENGTH_CR: the chunk begins, or it is the last one.                     *)
LEMMA LengthCrTracks ==
  ASSUME ResponseTypeOK, StreamInv, TrackInv, response.sound, LengthCr
  PROVE  TrackInv'
<1>. DEFINE w == response.wire
            c == Head(packet)
            lf == "LF"
<1>1. /\ response' = response /\ jar' = jar /\ scanned' = scanned /\ wire' = wire
      /\ ctx.state = "LENGTH_CR" /\ packet # <<>>
  BY DEF LengthCr, In, connectionVars, bodyVars
<1>2. ctx.state \in Reading \ {"IN_BODY"}
  BY <1>1 DEF Reading
<1>3. /\ response \in Responses /\ response.chunked
      /\ Jarred(Len(response.cookies)) /\ Begun(scanned', response.body)
  BY <1>1, <1>2, InChunks, Zenon
<1>4. PICK at : ChunksLie(response, at)
                /\ \E q \in 1..Len(response.chunks) + 1 : ChunkInv(at, q)
  BY <1>2, InChunks, Zenon
<1>5. PICK q \in 1..Len(response.chunks) + 1 : ChunkInv(at, q)
  BY <1>4
<1>6. AfterSize(at, q)
  BY <1>1, <1>5 DEF ChunkInv
<1>. DEFINE here == ChunkStart(response, at, q)
            size == SizeOf(response, q)
            text == ToString(size)
<1>7. /\ here \in Nat /\ w[here + 3] = lf /\ size \in 0..MaxNumber /\ at[q] \in Nat
      /\ size = 0 => at[q] = Len(response.body)
      /\ size # 0 => q <= Len(response.chunks)
  BY <1>3, <1>4, ChunkIs, Zenon
<1>8. Behind = here + 2 /\ ctx.line = <<text>> /\ Len(scanned) = at[q]
  BY <1>6 DEF AfterSize
<1>9. ctx \in ContextOf /\ packet \in Seq(Symbol)
  BY DEF ResponseTypeOK
<1>. HIDE DEF w, c, lf, here, size
<1>10. c = lf
  <2>1. /\ Len(packet) \in Nat /\ Len(packet) # 0 /\ c = packet[1]
    BY <1>1, <1>9, EmptySeq, LenProperties, HeadTailProperties DEF c
  <2>2. 1 \in 1..Len(packet)
    BY <2>1
  <2>3. packet[1] = w[Behind + 1]
    BY <2>2 DEF StreamInv, w
  <2>4. Behind + 1 = here + 3
    BY <1>7, <1>8
  <2>. QED
    BY <1>7, <2>1, <2>3, <2>4, Zenon
<1>11. IsNumber(text) /\ Number(text) = size
  BY <1>7, NumberReads, Zenon
<1>. HIDE DEF text
<1>12. ctx.line # <<>> /\ ctx.line[1] = text
  BY <1>8
<1>13. CASE size # 0
  <2>1. /\ ctx' = [ctx EXCEPT !.state = "IN_CHUNK", !.length = size]
        /\ packet' = Tail(packet)
    BY <1>10, <1>11, <1>12, <1>13, Zenon DEF LengthCr, Next, c, lf
  <2>2. size \in Int /\ size \in 1..size
    BY <1>7, <1>13, ResponseAssumption
  <2>3. ctx'.state = "IN_CHUNK" /\ ctx'.length = size
    <3>1. "IN_CHUNK" \in Heading \cup Reading \cup Done
      BY DEF Reading
    <3>. QED
      BY <1>9, <2>1, <2>2, <3>1, TakesLength, Zenon
  <2>4. Behind' = Behind + 1
    BY <1>1, <2>1, ByteTaken
  <2>5. InData(at, q)'
    <3>1. /\ Behind' = here + 3 + (size - ctx'.length)
          /\ Len(scanned') = at[q] + (size - ctx'.length)
          /\ ctx'.length \in 1..size
      BY <1>1, <1>7, <1>8, <2>2, <2>3, <2>4
    <3>. QED
      BY <1>1, <3>1, Zenon DEF InData, here, size
  <2>6. ChunkInv(at, q)'
    BY <1>1, <1>7, <1>13, <2>3, <2>5 DEF ChunkInv
  <2>7. ctx'.state \in Reading \ {"IN_BODY"}
    BY <2>3 DEF Reading
  <2>. QED
    BY <1>1, <1>3, <1>4, <2>6, <2>7, ChunkTracks, Zenon
<1>14. CASE size = 0
  <2>1. ctx' = [ctx EXCEPT !.state = "NOOP"]
    BY <1>10, <1>11, <1>12, <1>14, Zenon DEF LengthCr, Next, c, lf
  <2>2. ctx'.state = "NOOP"
    BY <1>9, <2>1 DEF ContextOf
  <2>3. Len(scanned') = Len(response.body)
    BY <1>1, <1>7, <1>8, <1>14, Zenon
  <2>. QED
    BY <1>1, <1>3, <2>2, <2>3, NoopTracks
<1>. QED
  BY <1>13, <1>14

(* What is handed on continues what was.                                   *)
LEMMA HandsOn ==
  ASSUME NEW S, NEW T, NEW s \in Seq(S), NEW data \in Seq(S), NEW body \in Seq(T),
         Begun(s, body), Len(s) + Len(data) <= Len(body),
         \A j \in 1..Len(data) : data[j] = body[Len(s) + j]
  PROVE  Begun(s \o data, body) /\ Len(s \o data) = Len(s) + Len(data)
<1>. DEFINE h == s \o data
            a == Len(s)
            b == Len(data)
<1>1. /\ a \in Nat /\ b \in Nat /\ Len(h) = a + b
      /\ \A j \in 1..a + b : h[j] = IF j <= a THEN s[j] ELSE data[j - a]
  BY ConcatProperties, LenProperties
<1>2. /\ \A j \in 1..a : s[j] = body[j]
      /\ a + b <= Len(body)
      /\ \A j \in 1..b : data[j] = body[a + j]
  BY DEF Begun
<1>. HIDE DEF h, a, b
<1>3. ASSUME NEW j \in 1..a + b PROVE h[j] = body[j]
  <2>1. CASE j <= a
    <3>1. j \in 1..a
      BY <1>1, <2>1
    <3>. QED
      BY <1>1, <1>2, <2>1, <3>1
  <2>2. CASE ~(j <= a)
    <3>1. j - a \in 1..b /\ a + (j - a) = j
      BY <1>1, <2>2
    <3>. QED
      BY <1>1, <1>2, <2>2, <3>1
  <2>. QED
    BY <2>1, <2>2
<1>. QED
  BY <1>1, <1>2, <1>3 DEF Begun, h, a, b

(* The data of a chunk is that of the body.                                *)
LEMMA ChunkData ==
  ASSUME ResponseTypeOK, StreamInv, response.sound, response.chunked,
         NEW at, ChunksLie(response, at), NEW q \in 1..Len(response.chunks) + 1,
         q <= Len(response.chunks), InData(at, q), Begun(scanned, response.body),
         NEW data \in Seq(Symbol), Len(data) <= Len(packet), Len(data) <= ctx.length,
         \A j \in 1..Len(data) : data[j] = packet[j]
  PROVE  /\ Begun(scanned \o data, response.body)
         /\ Len(scanned \o data) = Len(scanned) + Len(data)
<1>. DEFINE w == response.wire
            body == response.body
            here == ChunkStart(response, at, q)
            size == SizeOf(response, q)
            chunk == response.chunks[q]
            k == Len(data)
            p == Len(packet)
            left == ctx.length
            from == at[q]
            b == Behind
            s == Len(scanned)
<1>1. response \in Responses /\ scanned \in Seq(Symbol) /\ packet \in Seq(Symbol)
  BY DEF ResponseTypeOK
<1>2. /\ from \in Nat /\ here \in Nat /\ size \in 0..MaxNumber /\ size = Len(chunk)
      /\ Laid(body, from, chunk) /\ Laid(w, here + 3, chunk)
  <2>1. q \in 1..Len(response.chunks) + 1 /\ q <= Len(response.chunks) /\ ChunksLie(response, at)
        /\ response.sound /\ response.chunked
    OBVIOUS
  <2>2. /\ at[q] \in Nat /\ ChunkStart(response, at, q) \in Nat
        /\ SizeOf(response, q) \in 0..MaxNumber
    BY ONLY <1>1, <2>1, ChunkIs, Zenon
  <2>3. /\ SizeOf(response, q) = Len(response.chunks[q])
        /\ Laid(response.body, at[q], response.chunks[q])
        /\ Laid(response.wire, ChunkStart(response, at, q) + 3, response.chunks[q])
    BY ONLY <1>1, <2>1, ChunkIs, Zenon
  <2>. QED
    BY <2>2, <2>3, Zenon
<1>3. k \in Nat /\ p \in Nat /\ k <= p /\ k <= left
  BY <1>1, LenProperties
<1>4. /\ left \in 1..size /\ b = here + 3 + (size - left) /\ s = from + (size - left)
  BY DEF InData
<1>5. \A j \in 1..p : packet[j] = w[b + j]
  BY DEF StreamInv
<1>6. body \in Seq(Symbols) /\ Len(body) \in Nat
  BY <1>1, BodyBegins, Zenon
<1>7. size \in Nat
  BY <1>2, ResponseAssumption
<1>8. \A j \in 1..k : data[j] = packet[j]
  OBVIOUS
<1>. HIDE DEF w, body, here, size, chunk, k, p, left, from, b, s
<1>9. s + k <= Len(body)
  <2>1. from + size <= Len(body)
    BY <1>2 DEF Laid
  <2>2. (size - left) + k <= size
    BY <1>3, <1>4, <1>7
  <2>. QED
    BY <1>2, <1>3, <1>4, <1>6, <1>7, <2>1, <2>2
<1>10. ASSUME NEW j \in 1..k PROVE data[j] = body[s + j]
  <2>. DEFINE i == (size - left) + j
  <2>1. /\ i \in 1..size /\ j \in 1..p
        /\ b + j = (here + 3) + i /\ s + j = from + i
    BY <1>2, <1>3, <1>4, <1>7
  <2>. HIDE DEF i
  <2>2. w[(here + 3) + i] = chunk[i] /\ body[from + i] = chunk[i]
    BY <1>2, <2>1 DEF Laid
  <2>3. data[j] = packet[j] /\ packet[j] = w[b + j]
    BY <1>5, <1>8, <2>1
  <2>. QED
    BY <2>1, <2>2, <2>3, Zenon
<1>. QED
  <2>1. Begun(scanned, body) /\ Len(scanned) + Len(data) <= Len(body)
        /\ \A j \in 1..Len(data) : data[j] = body[Len(scanned) + j]
    BY <1>9, <1>10, Zenon DEF s, k, body
  <2>2. data \in Seq(Symbol) /\ scanned \in Seq(Symbol) /\ body \in Seq(Symbols)
    BY <1>1, <1>6
  <2>3. Begun(scanned \o data, body) /\ Len(scanned \o data) = Len(scanned) + Len(data)
    BY ONLY <2>1, <2>2, HandsOn, SMTT(30)
  <2>. QED
    BY <2>3, Zenon DEF body

(* IN_CHUNK: the chunk ends in this packet, or goes on in the next.        *)
LEMMA InChunkTracks ==
  ASSUME ResponseTypeOK, StreamInv, TrackInv, response.sound, InChunk
  PROVE  TrackInv'
<1>1. /\ response' = response /\ jar' = jar /\ wire' = wire
      /\ ctx.state = "IN_CHUNK" /\ packet # <<>>
  BY DEF InChunk, In, connectionVars
<1>2. ctx.state \in Reading \ {"IN_BODY"}
  BY <1>1 DEF Reading
<1>3. /\ response \in Responses /\ response.chunked
      /\ Jarred(Len(response.cookies)) /\ Begun(scanned, response.body)
  BY <1>2, InChunks, Zenon
<1>4. PICK at : ChunksLie(response, at)
                /\ \E q \in 1..Len(response.chunks) + 1 : ChunkInv(at, q)
  BY <1>2, InChunks, Zenon
<1>5. PICK q \in 1..Len(response.chunks) + 1 : ChunkInv(at, q)
  BY <1>4
<1>. DEFINE p == Len(packet)
            left == ctx.length
            here == ChunkStart(response, at, q)
            size == SizeOf(response, q)
            from == at[q]
            b == Behind
            s == Len(scanned)
<1>6. /\ q <= Len(response.chunks) /\ InData(at, q)
      /\ left \in 1..size /\ b = here + 3 + (size - left) /\ s = from + (size - left)
  BY <1>1, <1>5 DEF ChunkInv, InData
<1>7. /\ from \in Nat /\ here \in Nat /\ size \in 0..MaxNumber
      /\ at[q + 1] = from + size
  BY <1>3, <1>4, <1>6, ChunkIs
<1>8. ctx \in ContextOf /\ packet \in Seq(Symbol)
  BY DEF ResponseTypeOK
<1>9. p \in Nat /\ size \in Nat /\ \A i \in 1..p : packet[i] \in Symbol
  BY <1>7, <1>8, LenProperties, ElementOfSeq, ResponseAssumption
<1>10. left \in Nat /\ 1 <= left /\ left <= size
  <2>. HIDE DEF left, size
  <2>. QED
    BY <1>6, <1>9
<1>. HIDE DEF p, left, here, size, from, b, s
<1>11. CASE p >= left
  <2>. DEFINE data == SubSeq(packet, 1, left)
              rest == SubSeq(packet, left + 1, p)
  <2>1. /\ scanned' = scanned \o data /\ packet' = rest
        /\ ctx' = [ctx EXCEPT !.state = "CHUNK_CR", !.length = 0]
    <3>1. ~(p < left)
      BY <1>9, <1>10, <1>11
    <3>. QED
      BY <1>11, <3>1, Zenon DEF InChunk, Application, p, left
  <2>2. data \in Seq(Symbol) /\ Len(data) = left /\ \A j \in 1..left : data[j] = packet[j]
    <3>1. \A i \in 1..left : packet[i] \in Symbol
      BY <1>9, <1>10, <1>11
    <3>2. /\ data \in Seq(Symbol)
          /\ Len(data) = IF 1 <= left THEN left - 1 + 1 ELSE 0
          /\ \A i \in 1..left - 1 + 1 : data[i] = packet[1 + i - 1]
      BY <1>9, <1>10, <3>1, SubSeqProperties
    <3>. HIDE DEF data
    <3>. QED
      BY <1>10, <3>2
  <2>3. /\ rest \in Seq(Symbol) /\ Len(rest) = p - left
        /\ \A j \in 1..p - left : rest[j] = packet[left + j]
    <3>1. \A i \in left + 1..p : packet[i] \in Symbol
      BY <1>9, <1>10
    <3>2. /\ rest \in Seq(Symbol)
          /\ Len(rest) = IF left + 1 <= p THEN p - (left + 1) + 1 ELSE 0
          /\ \A i \in 1..p - (left + 1) + 1 : rest[i] = packet[(left + 1) + i - 1]
      BY <1>9, <1>10, <3>1, SubSeqProperties
    <3>. HIDE DEF rest
    <3>. QED
      BY <1>9, <1>10, <1>11, <3>2
  <2>. HIDE DEF data, rest
  <2>4. left \in 0..p
    BY <1>9, <1>10, <1>11
  <2>5. Behind' = b + left
    <3>1. /\ packet' \in Seq(Symbol) /\ Len(packet') = p - left
          /\ \A j \in 1..p - left : packet'[j] = packet[left + j]
      BY <2>1, <2>3, Zenon
    <3>. QED
      BY <1>1, <2>4, <3>1, StreamTaken, Zenon DEF p, b
  <2>6. Begun(scanned', response.body) /\ Len(scanned') = s + left
    <3>1. Len(data) <= p /\ Len(data) <= left
      BY <1>9, <1>10, <1>11, <2>2
    <3>2. \A j \in 1..Len(data) : data[j] = packet[j]
      BY <2>2, Zenon
    <3>3. Begun(scanned \o data, response.body) /\ Len(scanned \o data) = s + left
      BY <1>3, <1>4, <1>6, <2>2, <3>1, <3>2, ChunkData, Zenon DEF p, left, s
    <3>. QED
      BY <2>1, <3>3, Zenon
  <2>7. ctx'.state = "CHUNK_CR"
    <3>1. "CHUNK_CR" \in Heading \cup Reading \cup Done /\ 0 \in Int
      BY DEF Reading
    <3>. QED
      BY <1>8, <2>1, <3>1, TakesLength, Zenon
  <2>8. AfterData(at, q)'
    <3>1. Behind' = here + 3 + size /\ Len(scanned') = at[q + 1]
      BY <1>6, <1>7, <1>9, <1>10, <2>5, <2>6
    <3>. QED
      BY <1>1, <3>1, Zenon DEF AfterData, here, size
  <2>9. ChunkInv(at, q)'
    BY <1>1, <1>6, <2>7, <2>8 DEF ChunkInv
  <2>10. ctx'.state \in Reading \ {"IN_BODY"}
    BY <2>7 DEF Reading
  <2>. QED
    BY <1>1, <1>3, <1>4, <2>6, <2>9, <2>10, ChunkTracks, Zenon
<1>12. CASE ~(p >= left)
  <2>1. /\ scanned' = scanned \o packet /\ packet' = <<>>
        /\ ctx' = [ctx EXCEPT !.length = @ - p]
    BY <1>12, Zenon DEF InChunk, Application, p, left
  <2>2. Behind' = b + p
    BY <1>1, <2>1, PacketTaken, Zenon DEF p, b
  <2>3. Begun(scanned', response.body) /\ Len(scanned') = s + p
    <3>1. p <= p /\ p <= left /\ \A j \in 1..p : packet[j] = packet[j]
      BY <1>9, <1>10, <1>12
    <3>2. Begun(scanned \o packet, response.body) /\ Len(scanned \o packet) = s + p
      BY <1>3, <1>4, <1>6, <1>8, <3>1, ChunkData, Zenon DEF p, left, s
    <3>. QED
      BY <2>1, <3>2, Zenon
  <2>4. ctx'.state = ctx.state /\ ctx'.length = left - p
    BY <1>8, <2>1 DEF ContextOf, left
  <2>5. InData(at, q)'
    <3>1. /\ ctx'.length \in 1..size
          /\ Behind' = here + 3 + (size - ctx'.length)
          /\ Len(scanned') = from + (size - ctx'.length)
      BY <1>6, <1>7, <1>9, <1>10, <1>12, <2>2, <2>3, <2>4
    <3>. QED
      BY <1>1, <3>1, Zenon DEF InData, here, size, from
  <2>6. ChunkInv(at, q)'
    BY <1>1, <1>6, <2>4, <2>5 DEF ChunkInv
  <2>7. ctx'.state \in Reading \ {"IN_BODY"}
    BY <1>1, <2>4 DEF Reading
  <2>. QED
    BY <1>1, <1>3, <1>4, <2>3, <2>6, <2>7, ChunkTracks, Zenon
<1>. QED
  BY <1>11, <1>12

(* CHUNK_CR: the end of line behind a chunk.                               *)
LEMMA ChunkCrTracks ==
  ASSUME ResponseTypeOK, StreamInv, TrackInv, response.sound, ChunkCr
  PROVE  TrackInv'
<1>. DEFINE w == response.wire
            c == Head(packet)
            cr == "CR"
<1>1. /\ TakesByte /\ response' = response /\ jar' = jar /\ scanned' = scanned
      /\ ctx.state = "CHUNK_CR"
  BY DEF ChunkCr, In, Next, TakesByte, connectionVars, bodyVars
<1>2. ctx.state \in Reading \ {"IN_BODY"}
  BY <1>1 DEF Reading
<1>3. /\ response \in Responses /\ response.chunked /\ response.sound
      /\ Jarred(Len(response.cookies)) /\ Begun(scanned', response.body)
  BY <1>1, <1>2, InChunks, Zenon
<1>4. PICK at : ChunksLie(response, at)
                /\ \E q \in 1..Len(response.chunks) + 1 : ChunkInv(at, q)
  BY <1>2, InChunks, Zenon
<1>5. PICK q \in 1..Len(response.chunks) + 1 : ChunkInv(at, q)
  BY <1>4
<1>6. AfterData(at, q) /\ q <= Len(response.chunks)
  BY <1>1, <1>5 DEF ChunkInv
<1>. DEFINE end == ChunkStart(response, at, q) + 3 + SizeOf(response, q)
<1>7. w[end + 1] = cr
  <2>1. response.wire[ChunkStart(response, at, q) + 3 + SizeOf(response, q) + 1] = "CR"
    BY ONLY <1>3, <1>4, <1>6, ChunkIs, SMTT(30)
  <2>. QED
    BY <2>1
<1>8. Behind = end /\ Len(scanned) = at[q + 1]
  BY <1>6 DEF AfterData
<1>9. c = w[Behind + 1] /\ Behind' = Behind + 1 /\ ctx \in ContextOf
  BY <1>1, ByteIs
<1>. HIDE DEF w, c, cr, end
<1>10. c = cr
  BY <1>7, <1>8, <1>9, Zenon
<1>11. ctx' = [ctx EXCEPT !.state = "CHUNK_LF"]
  BY <1>10, Zenon DEF ChunkCr, Next, c, cr
<1>12. ctx'.state = "CHUNK_LF"
  BY <1>9, <1>11 DEF ContextOf
<1>13. AfterCr(at, q)'
  BY <1>1, <1>8, <1>9, Zenon DEF AfterCr, end
<1>14. ChunkInv(at, q)'
  BY <1>1, <1>6, <1>12, <1>13 DEF ChunkInv
<1>15. ctx'.state \in Reading \ {"IN_BODY"}
  BY <1>12 DEF Reading
<1>. QED
  BY <1>1, <1>3, <1>4, <1>14, <1>15, ChunkTracks, Zenon

(* CHUNK_LF: the next chunk begins.                                        *)
LEMMA ChunkLfTracks ==
  ASSUME ResponseTypeOK, StreamInv, TrackInv, response.sound, ChunkLf
  PROVE  TrackInv'
<1>. DEFINE w == response.wire
            c == Head(packet)
            lf == "LF"
<1>1. /\ TakesByte /\ response' = response /\ jar' = jar /\ scanned' = scanned
      /\ ctx.state = "CHUNK_LF"
  BY DEF ChunkLf, In, Next, TakesByte, connectionVars, bodyVars
<1>2. ctx.state \in Reading \ {"IN_BODY"}
  BY <1>1 DEF Reading
<1>3. /\ response \in Responses /\ response.chunked /\ response.sound
      /\ Jarred(Len(response.cookies)) /\ Begun(scanned', response.body)
  BY <1>1, <1>2, InChunks, Zenon
<1>4. PICK at : ChunksLie(response, at)
                /\ \E q \in 1..Len(response.chunks) + 1 : ChunkInv(at, q)
  BY <1>2, InChunks, Zenon
<1>5. PICK q \in 1..Len(response.chunks) + 1 : ChunkInv(at, q)
  BY <1>4
<1>6. AfterCr(at, q) /\ q <= Len(response.chunks)
  BY <1>1, <1>5 DEF ChunkInv
<1>. DEFINE end == ChunkStart(response, at, q) + 3 + SizeOf(response, q)
            next == ChunkStart(response, at, q + 1)
            n == q + 1
<1>7. w[end + 2] = lf /\ next = end + 2 /\ n \in 1..Len(response.chunks) + 1
  <2>1. /\ response.wire[ChunkStart(response, at, q) + 3 + SizeOf(response, q) + 2] = "LF"
        /\ ChunkStart(response, at, q + 1)
             = ChunkStart(response, at, q) + 3 + SizeOf(response, q) + 2
        /\ q + 1 \in 1..Len(response.chunks) + 1
    BY ONLY <1>3, <1>4, <1>6, ChunkIs, SMTT(30)
  <2>. QED
    BY <2>1, Zenon
<1>8. Behind = end + 1 /\ Len(scanned) = at[n]
  BY <1>6 DEF AfterCr
<1>9. /\ c = w[Behind + 1] /\ Behind' = Behind + 1
      /\ ctx \in ContextOf
  BY <1>1, ByteIs
<1>10. end \in Nat
  <2>1. /\ ChunkStart(response, at, q) \in Nat /\ SizeOf(response, q) \in 0..MaxNumber
    BY <1>3, <1>4, ChunkIs
  <2>. QED
    BY <2>1, ResponseAssumption
<1>. HIDE DEF w, c, lf, end, next, n
<1>11. Behind + 1 = end + 2
  BY <1>8, <1>10
<1>12. c = lf
  BY <1>7, <1>9, <1>11, Zenon
<1>13. ctx' = [ctx EXCEPT !.state = "LENGTH", !.line = <<>>]
  BY <1>12, Zenon DEF ChunkLf, c, lf
<1>14. ctx'.state = "LENGTH" /\ ctx'.line = <<>>
  BY <1>9, <1>13, WritesStateLine, Zenon
<1>15. InSize(at, n)'
  <2>. DEFINE text == <<ToString(SizeOf(response, n))>>
  <2>1. Len(text) = 1 /\ Len(ctx'.line) = 0
    BY <1>14
  <2>. HIDE DEF text
  <2>2. Begun(ctx'.line, text)
    BY <2>1 DEF Begun
  <2>3. Behind' = next + Len(ctx'.line)
    BY <1>7, <1>9, <1>10, <1>11, <2>1
  <2>. QED
    BY <1>1, <1>8, <2>2, <2>3, Zenon DEF InSize, text, next, n
<1>16. ChunkInv(at, n)'
  BY <1>14, <1>15 DEF ChunkInv
<1>17. ctx'.state \in Reading \ {"IN_BODY"}
  BY <1>14 DEF Reading
<1>. QED
  BY <1>1, <1>3, <1>4, <1>7, <1>16, <1>17, ChunkTracks, Zenon

(* The length is counted down.                                             *)
LEMMA WritesLengthState ==
  ASSUME ctx \in ContextOf, NEW state, NEW length,
         ctx' = [ctx EXCEPT !.length = length, !.state = state]
  PROVE  ctx'.state = state /\ ctx'.length = length
<1>1. ctx = [state |-> ctx.state, line |-> ctx.line, code |-> ctx.code,
             length |-> ctx.length, chunked |-> ctx.chunked]
  BY DEF ContextOf
<1>2. ctx' = [state |-> state, line |-> ctx.line, code |-> ctx.code,
              length |-> length, chunked |-> ctx.chunked]
  BY <1>1
<1>. QED
  BY <1>2

(* IN_BODY: all of the packet is of the body, and it is no more than is    *)
(* missing.                                                                *)
LEMMA InBodyTracks ==
  ASSUME ResponseTypeOK, StreamInv, TrackInv, response.sound, InBody
  PROVE  TrackInv'
<1>. DEFINE w == response.wire
            body == response.body
            p == Len(packet)
            left == ctx.length - p
            state == IF left <= 0 THEN "NOOP" ELSE "IN_BODY"
            start == BodyStart(response)
            s == Len(scanned)
            b == Behind
<1>1. /\ response' = response /\ jar' = jar /\ wire' = wire
      /\ ctx.state = "IN_BODY" /\ packet # <<>>
      /\ scanned' = scanned \o packet /\ packet' = <<>>
      /\ ctx' = [ctx EXCEPT !.length = left, !.state = state]
  BY DEF InBody, In, Application, connectionVars
<1>2. ctx.state \in Reading
  BY <1>1 DEF Reading
<1>3. /\ Jarred(Len(response.cookies)) /\ Begun(scanned, body)
      /\ ~response.chunked /\ b = start + s /\ ctx.length = Len(body) - s
  BY <1>1, <1>2, Zenon DEF TrackInv, BodyInv
<1>4. /\ response \in Responses /\ ctx \in ContextOf
      /\ packet \in Seq(Symbol) /\ scanned \in Seq(Symbol)
  BY DEF ResponseTypeOK
<1>5. /\ body \in Seq(Symbols) /\ Laid(w, start, body) /\ Len(w) = start + Len(body)
  BY <1>3, <1>4, SizedIs, Zenon
<1>6. Behind' = b + p /\ b + p <= Len(w)
  BY <1>1, PacketTaken, Zenon
<1>7. \A j \in 1..p : packet[j] = w[b + j]
  BY DEF StreamInv
<1>8. start \in Nat /\ Len(body) \in Nat
  BY <1>4, BodyBegins
<1>9. p \in Nat /\ s \in Nat
  BY <1>4, LenProperties
<1>10. left \in Int
  BY <1>3, <1>8, <1>9
<1>11. ctx'.state = state /\ ctx'.length = left
  <2>. HIDE DEF left, state
  <2>. QED
    BY <1>1, <1>4, WritesLengthState, Zenon
<1>. HIDE DEF w, body, p, left, state, start, s, b
<1>12. s + p <= Len(body)
  BY <1>3, <1>5, <1>6, <1>8, <1>9
<1>13. ASSUME NEW j \in 1..p PROVE packet[j] = body[s + j]
  <2>1. s + j \in 1..Len(body) /\ b + j = start + (s + j)
    BY <1>3, <1>8, <1>9, <1>12
  <2>2. w[start + (s + j)] = body[s + j]
    BY <1>5, <2>1 DEF Laid
  <2>. QED
    BY <1>7, <2>1, <2>2, Zenon
<1>14. Begun(scanned', body) /\ Len(scanned') = s + p
  <2>1. Begun(scanned, body) /\ Len(scanned) + Len(packet) <= Len(body)
        /\ \A j \in 1..Len(packet) : packet[j] = body[Len(scanned) + j]
    BY <1>3, <1>12, <1>13, Zenon DEF s, p
  <2>2. Begun(scanned \o packet, body)
        /\ Len(scanned \o packet) = Len(scanned) + Len(packet)
    BY ONLY <1>4, <1>5, <2>1, HandsOn, SMTT(30)
  <2>. QED
    BY <1>1, <2>2, Zenon DEF s, p
<1>15. left = Len(body) - Len(scanned') /\ Behind' = start + Len(scanned')
  BY <1>3, <1>6, <1>8, <1>9, <1>14 DEF left
<1>16. CASE left <= 0
  <2>1. ctx'.state = "NOOP"
    BY <1>11, <1>16, Zenon DEF state
  <2>2. Len(scanned') = Len(body)
    BY <1>8, <1>9, <1>12, <1>14, <1>15, <1>16
  <2>. QED
    BY <1>1, <1>3, <1>14, <2>1, <2>2, NoopTracks, Zenon DEF body
<1>17. CASE ~(left <= 0)
  <2>1. ctx'.state = "IN_BODY"
    BY <1>11, <1>17, Zenon DEF state
  <2>2. ctx'.state \in Reading
    BY <2>1 DEF Reading
  <2>3. BodyInv'
    BY <1>1, <1>3, <1>11, <1>15, <2>1, Zenon DEF BodyInv, body, start
  <2>. QED
    BY <1>1, <1>3, <1>14, <2>2, <2>3, BodyTracks, Zenon DEF body
<1>. QED
  BY <1>16, <1>17

-----------------------------------------------------------------------------
(* WHAT THE APPLICATION GETS                                               *)

(* A step in which the parser takes nothing leaves it where it is.         *)
LEMMA QuietTracks ==
  ASSUME TrackInv, Behind' = Behind, UNCHANGED <<response, ctx, jar, scanned>>
  PROVE  TrackInv'
<1>1. \A p : /\ InLine(p) => InLine(p)'
             /\ AfterLine(p) => AfterLine(p)'
             /\ BeforeLine(p) => BeforeLine(p)'
             /\ Stored(p) => Stored(p)'
             /\ Jarred(p) => Jarred(p)'
  BY Zenon DEF InLine, AfterLine, BeforeLine, Stored, Jarred
<1>2. HeadInv => HeadInv'
  BY <1>1, Zenon DEF HeadInv
<1>3. \A at, q : ChunkInv(at, q) => ChunkInv(at, q)'
  <2>1. \A at, q : /\ InSize(at, q) => InSize(at, q)'
                   /\ AfterSize(at, q) => AfterSize(at, q)'
    BY Zenon DEF InSize, AfterSize
  <2>2. \A at, q : InData(at, q) => InData(at, q)'
    BY Zenon DEF InData
  <2>3. \A at, q : /\ AfterData(at, q) => AfterData(at, q)'
                   /\ AfterCr(at, q) => AfterCr(at, q)'
    BY Zenon DEF AfterData, AfterCr
  <2>. QED
    BY <2>1, <2>2, <2>3, Zenon DEF ChunkInv
<1>4. ASSUME BodyInv PROVE BodyInv'
  <2>1. CASE ctx.state = "IN_BODY"
    BY <1>4, <2>1, Zenon DEF BodyInv
  <2>2. CASE ctx.state # "IN_BODY"
    <3>1. PICK at : ChunksLie(response, at)
                    /\ \E q \in 1..Len(response.chunks) + 1 : ChunkInv(at, q)
      BY <1>4, <2>2, Zenon DEF BodyInv
    <3>2. PICK q \in 1..Len(response.chunks) + 1 : ChunkInv(at, q)
      BY <3>1
    <3>3. ChunkInv(at, q)'
      BY <1>3, <3>2
    <3>. QED
      BY <1>4, <2>2, <3>1, <3>3, Zenon DEF BodyInv
  <2>. QED
    BY <2>1, <2>2
<1>. QED
  BY <1>1, <1>2, <1>4, Zenon DEF TrackInv

(* What is received is the response in order: every step of the receiver   *)
(* takes the next bytes of it.                                             *)
LEMMA StreamKept ==
  ASSUME ResponseTypeOK, StreamInv, ScanInv, [ResponseNext]_responseVars
  PROVE  /\ StreamInv'
         /\ UNCHANGED <<response, wire, packet>> => Behind' = Behind
<1>1. UNCHANGED <<response, wire, packet>> => StreamInv' /\ Behind' = Behind
  <2>. SUFFICES ASSUME response' = response, wire' = wire, packet' = packet
                PROVE  StreamInv' /\ Behind' = Behind
    BY Zenon
  <2>1. Behind' = Behind
    BY Zenon DEF Behind
  <2>. QED
    BY <2>1, Zenon DEF StreamInv
<1>2. CASE PacketArrives
  BY <1>1, <1>2, StreamGoesOn
<1>3. TakesByte => StreamInv'
  BY ByteTaken, Zenon DEF TakesByte
<1>4. response' = response /\ wire' = wire /\ packet' = <<>> => StreamInv'
  BY PacketTaken, Zenon
<1>5. CASE StatusLine \/ LineCr \/ EndOfHeaders \/ HeaderLine \/ EndHeaderCr \/ Length
             \/ ChunkCr \/ ChunkLf
  <2>1. TakesByte
    BY <1>5 DEF StatusLine, LineCr, EndOfHeaders, HeaderLine, EndHeaderCr, Length,
                ChunkCr, ChunkLf, In, Next, Collect, TakesByte, connectionVars
  <2>. QED
    BY <1>1, <1>3, <2>1
<1>6. CASE LengthCr
  <2>1. TakesByte \/ (response' = response /\ wire' = wire /\ packet' = <<>>)
    BY <1>6 DEF LengthCr, In, Next, TakesByte, connectionVars
  <2>. QED
    BY <1>1, <1>3, <1>4, <2>1
<1>7. CASE InChunk
  <2>1. response' = response /\ wire' = wire /\ ctx.state = "IN_CHUNK"
    BY <1>7 DEF InChunk, In, connectionVars
  <2>. DEFINE left == ctx.length
              p == Len(packet)
              rest == SubSeq(packet, left + 1, p)
  <2>2. left \in Int /\ left > 0
    BY <2>1 DEF ResponseTypeOK, ContextOf, ScanInv
  <2>3. packet \in Seq(Symbol) /\ p \in Nat /\ \A i \in 1..p : packet[i] \in Symbol
    BY LenProperties, ElementOfSeq DEF ResponseTypeOK
  <2>4. packet' = <<>> \/ (p >= left /\ packet' = rest)
    BY <1>7 DEF InChunk
  <2>. HIDE DEF left, p
  <2>5. CASE p >= left /\ packet' = rest
    <3>1. \A i \in left + 1..p : packet[i] \in Symbol
      BY <2>2, <2>3
    <3>2. /\ rest \in Seq(Symbol)
          /\ Len(rest) = IF left + 1 <= p THEN p - (left + 1) + 1 ELSE 0
          /\ \A i \in 1..p - (left + 1) + 1 : rest[i] = packet[(left + 1) + i - 1]
      BY <2>2, <2>3, <3>1, SubSeqProperties
    <3>. HIDE DEF rest
    <3>3. /\ packet' \in Seq(Symbol) /\ Len(packet') = p - left
          /\ \A j \in 1..p - left : packet'[j] = packet[left + j]
      BY <2>2, <2>3, <2>5, <3>2
    <3>4. left \in 0..p
      BY <2>2, <2>3, <2>5
    <3>5. StreamInv'
      BY <2>1, <3>3, <3>4, StreamTaken, Zenon DEF p
    <3>. QED
      BY <1>1, <3>5
  <2>. QED
    BY <1>1, <1>4, <2>1, <2>4, <2>5
<1>8. CASE InBody \/ InError \/ Noop
  <2>1. response' = response /\ wire' = wire /\ packet' = <<>>
    BY <1>8 DEF InBody, InError, Noop, connectionVars
  <2>. QED
    BY <1>1, <1>4, <2>1
<1>9. CASE Timeout \/ CloseConnection \/ ServerCloses \/ UNCHANGED responseVars
  <2>1. UNCHANGED <<response, wire, packet>>
    BY <1>9 DEF Timeout, CloseConnection, ServerCloses, responseVars
  <2>. QED
    BY <1>1, <2>1
<1>. QED
  BY <1>2, <1>5, <1>6, <1>7, <1>8, <1>9, Zenon DEF ResponseNext, Receive

(* So does what the parser stands by.                                      *)
LEMMA TrackKept ==
  ASSUME ResponseTypeOK, ScanInv, StreamInv, TrackInv, [ResponseNext]_responseVars
  PROVE  TrackInv'
<1>1. response' = response
  BY DEF ResponseNext, Receive, PacketArrives, StatusLine, LineCr, EndOfHeaders,
         HeaderLine, EndHeaderCr, Length, LengthCr, InChunk, ChunkCr, ChunkLf, InBody,
         InError, Noop, Timeout, CloseConnection, ServerCloses, connectionVars,
         responseVars
<1>2. CASE ~response.sound
  BY <1>1, <1>2, Zenon DEF TrackInv
<1>. SUFFICES ASSUME response.sound PROVE TrackInv'
  BY <1>2
<1>3. ctx.state # "IN_ERROR"
  BY DEF TrackInv
<1>4. CASE PacketArrives
  <2>1. Behind' = Behind /\ UNCHANGED <<response, ctx, jar, scanned>>
    BY <1>4, StreamGoesOn DEF PacketArrives
  <2>. QED
    BY <2>1, QuietTracks
<1>5. CASE Timeout \/ CloseConnection \/ ServerCloses \/ UNCHANGED responseVars
  <2>1. UNCHANGED <<response, wire, packet>> /\ UNCHANGED <<response, ctx, jar, scanned>>
    BY <1>5 DEF Timeout, CloseConnection, ServerCloses, responseVars, bodyVars
  <2>2. Behind' = Behind
    BY <2>1, StreamKept
  <2>. QED
    BY <2>1, <2>2, QuietTracks
<1>6. CASE Noop
  <2>1. /\ response' = response /\ jar' = jar /\ scanned' = scanned /\ ctx' = ctx
        /\ ctx.state = "NOOP"
    BY <1>6 DEF Noop, In, connectionVars, bodyVars
  <2>2. /\ Jarred(Len(response.cookies)) /\ Begun(scanned, response.body)
        /\ Len(scanned) = Len(response.body)
    BY <2>1, Zenon DEF TrackInv
  <2>. QED
    BY <2>1, <2>2, NoopTracks, Zenon
<1>7. CASE InError
  BY <1>3, <1>7 DEF InError
<1>. QED
  BY <1>4, <1>5, <1>6, <1>7, StatusLineTracks, LineCrTracks, EndOfHeadersTracks,
     HeaderLineTracks, EndHeaderCrTracks, LengthTracks, LengthCrTracks, InChunkTracks,
     ChunkCrTracks, ChunkLfTracks, InBodyTracks, Zenon DEF ResponseNext, Receive

(* The invariant of the parser, for every sound response.                  *)
LEMMA TrackInvariant ==
  ResponseSpec => [](ResponseTypeOK /\ StreamInv /\ TrackInv)
<1>1. ResponseInit => StreamInv /\ TrackInv
  <2> SUFFICES ASSUME ResponseInit PROVE StreamInv /\ TrackInv
    OBVIOUS
  <2>1. /\ response \in Responses /\ wire = response.wire /\ packet = <<>>
        /\ scanned = <<>> /\ ctx.state = "STATUS_LINE" /\ ctx.line = <<>>
        /\ ctx.chunked = FALSE
    BY DEF ResponseInit
  <2>2. Len(wire) \in Nat /\ Len(packet) = 0 /\ Len(ctx.line) = 0 /\ Len(scanned) = 0
    <3>1. wire \in Seq(STRING)
      BY <2>1, WireAssumption
    <3>. QED
      BY <2>1, <3>1, LenProperties
  <2>3. Behind = 0
    <3>1. Behind = Len(wire) - Len(wire) - Len(packet)
      BY <2>1, Zenon DEF Behind
    <3>. QED
      BY <2>2, <3>1
  <2>4. StreamInv
    <3>1. \A j \in 1..Len(wire) : 0 + Len(packet) + j = j
      BY <2>2
    <3>2. \A j \in 1..Len(wire) : wire[j] = response.wire[Behind + Len(packet) + j]
      BY <2>1, <2>3, <3>1, Zenon
    <3>3. Behind \in Nat /\ \A j \in 1..Len(packet) : packet[j] = response.wire[Behind + j]
      BY <2>2, <2>3
    <3>. QED
      BY <3>2, <3>3, Zenon DEF StreamInv
  <2>5. ASSUME response.sound PROVE TrackInv
    <3>1. Len(response.cookies) \in Nat /\ Len(response.body) \in Nat
      BY <2>1, <2>5, WireHeaded, BodyBegins
    <3>2. Begun(scanned, response.body)
      BY <2>2, <3>1 DEF Begun
    <3>3. Stored(0)
      <4>1. 0 <= Len(response.cookies) /\ 1..0 = {}
        BY <3>1
      <4>. QED
        BY <2>1, <4>1, Zenon DEF Stored, Jarred
    <3>4. InLine(0)
      <4>. DEFINE text == LineOf(response, 0)
      <4>1. 0 \in 0..Len(response.cookies) + 1
        BY <3>1
      <4>2. Len(text) \in Nat
        BY <2>1, <2>5, <4>1, LinesFollow
      <4>. HIDE DEF text
      <4>3. Begun(ctx.line, text)
        BY <2>2, <4>2 DEF Begun
      <4>4. Behind = LineStart(response, 0) + Len(ctx.line)
        BY <2>2, <2>3 DEF LineStart
      <4>. QED
        BY <4>3, <4>4, Zenon DEF InLine, text
    <3>5. HeadInv
      BY <2>1, <3>3, <3>4 DEF HeadInv
    <3>6. ~(ctx.state \in Reading) /\ ctx.state # "NOOP" /\ ctx.state # "IN_ERROR"
      BY <2>1 DEF Reading
    <3>. QED
      BY <3>2, <3>5, <3>6, Zenon DEF TrackInv
  <2>6. ~response.sound => TrackInv
    BY Zenon DEF TrackInv
  <2>. QED
    BY <2>4, <2>5, <2>6
<1>2. ResponseTypeOK /\ ScanInv /\ StreamInv /\ TrackInv /\ [ResponseNext]_responseVars
        => StreamInv' /\ TrackInv'
  BY StreamKept, TrackKept
<1>. QED
  BY <1>1, <1>2, ResponseInvariant, PTL DEF ResponseSpec

(* Begun is what IsPrefix says.                                            *)
LEMMA BegunIsPrefix ==
  ASSUME NEW S, NEW T, NEW s \in Seq(S), NEW t \in Seq(T), Begun(s, t)
  PROVE  IsPrefix(s, t) /\ (Len(s) = Len(t) => s = t)
<1>. DEFINE l == Len(s)
            m == Len(t)
            a == SubSeq(s, 1, l)
            b == SubSeq(t, 1, l)
<1>1. l \in Nat /\ m \in Nat /\ l <= m /\ \A j \in 1..l : s[j] = t[j]
  BY LenProperties DEF Begun
<1>2. a = s
  BY SubSeqFull
<1>3. b \in Seq(T) /\ Len(b) = l /\ \A j \in 1..l : b[j] = t[j]
  <2>1. \A j \in 1..l : t[j] \in T
    <3>1. \A j \in 1..m : t[j] \in T
      BY ElementOfSeq
    <3>. QED
      BY <1>1, <3>1
  <2>2. /\ b \in Seq(T) /\ Len(b) = IF 1 <= l THEN l - 1 + 1 ELSE 0
        /\ \A j \in 1..l - 1 + 1 : b[j] = t[1 + j - 1]
    BY <1>1, <2>1, SubSeqProperties
  <2>. HIDE DEF b, l
  <2>. QED
    BY <1>1, <2>2
<1>4. a = b
  <2>1. \A j \in 1..l : s[j] = b[j]
    BY <1>1, <1>3
  <2>2. s = b
    BY <1>3, <2>1, SeqEqual
  <2>. QED
    BY <1>2, <2>2
<1>5. l = m => s = t
  BY <1>1, SeqEqual
<1>. QED
  BY <1>1, <1>4, <1>5, Zenon DEF IsPrefix

(* The application is given the body, the whole body and nothing but the   *)
(* body: without the lengths of the chunks, however the packets are cut,   *)
(* and in order; when the parser closes the connection it has had all of   *)
(* it (receivecb).                                                         *)
THEOREM BodyAsFramedHolds == ResponseSpec => []BodyAsFramed
<1>1. ResponseTypeOK /\ TrackInv => BodyAsFramed
  <2> SUFFICES ASSUME ResponseTypeOK, TrackInv, response.sound
               PROVE  /\ IsPrefix(scanned, response.body)
                      /\ ctx.state = "NOOP" => scanned = response.body
    BY Zenon DEF BodyAsFramed, Read
  <2>1. response \in Responses /\ scanned \in Seq(Symbol)
    BY DEF ResponseTypeOK
  <2>2. response.body \in Seq(Symbols)
    BY <2>1, BodyBegins
  <2>3. /\ Begun(scanned, response.body)
        /\ ctx.state = "NOOP" => Len(scanned) = Len(response.body)
    BY Zenon DEF TrackInv
  <2>. QED
    BY <2>1, <2>2, <2>3, BegunIsPrefix
<1>. QED
  BY <1>1, TrackInvariant, PTL

(* When the parser is done the jar has, for each name, the value the       *)
(* server gave it last (process_header_line, requester_cookie_add).        *)
THEOREM CookiesAsSetHolds == ResponseSpec => []CookiesAsSet
<1>1. ResponseTypeOK /\ TrackInv => CookiesAsSet
  <2> SUFFICES ASSUME ResponseTypeOK, TrackInv, response.sound, ctx.state = "NOOP",
                      NEW i \in DOMAIN response.cookies,
                      \A j \in i + 1..Len(response.cookies) :
                        response.cookies[j][1] # response.cookies[i][1]
               PROVE  jar[response.cookies[i][1]] = response.cookies[i][2]
    BY Zenon DEF CookiesAsSet, Read
  <2>1. Jarred(Len(response.cookies))
    BY Zenon DEF TrackInv
  <2>2. DOMAIN response.cookies = 1..Len(response.cookies)
    BY SoundIs, Zenon DEF ResponseTypeOK
  <2>. QED
    BY <2>1, <2>2, Zenon DEF Jarred
<1>. QED
  BY <1>1, TrackInvariant, PTL
=============================================================================
