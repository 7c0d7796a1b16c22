--------------------------- MODULE LineWriterProofs ---------------------------
(***************************************************************************)
(* What LineWriter writes, for lines of any length: the recursive functions *)
(* of the model have values, and a line that still has the folds it was     *)
(* read with comes out as its text with the folds woven in.  And a text     *)
(* whose terminators are made alike reads as the same lines.                *)
(*                                                                         *)
(* Induction is by least elements: a set of naturals without a least        *)
(* element is empty.                                                        *)
(***************************************************************************)
EXTENDS LineReading, SequenceTheorems, FiniteSetTheorems, WellFoundedInduction, TLAPS

-----------------------------------------------------------------------------
(* Induction and recursion.                                                *)

LEMMA LeastElement ==
  ASSUME NEW T \in SUBSET Nat, T # {}
  PROVE  \E n \in T : \A m \in T : n <= m
<1> DEFINE R == OpToRel(<, Nat)
<1>1. \A x, y : <<x, y>> \in R <=> x \in Nat /\ y \in Nat /\ x < y
  BY DEF OpToRel
<1>2. IsWellFoundedOn(R, Nat)
  BY NatLessThanWellFounded
<1> HIDE DEF R
<1>3. PICK n \in T : \A m \in T : ~(<<m, n>> \in R)
  BY <1>2, WFMin
<1>4. ASSUME NEW m \in T PROVE n <= m
  <2>1. m \in Nat /\ n \in Nat
    OBVIOUS
  <2>2. ~(m < n)
    BY <1>1, <1>3, <2>1
  <2>3. QED
    BY <2>1, <2>2
<1>5. QED
  BY <1>4

(* Induction up to a bound, for what can be collected in a set.            *)
LEMMA UpToInduction ==
  ASSUME NEW n \in Nat, NEW T, 0 \in T, \A i \in 1..n : i - 1 \in T => i \in T
  PROVE  \A i \in 0..n : i \in T
<1>1. SUFFICES ASSUME NEW i \in 0..n, i \notin T PROVE FALSE
  OBVIOUS
<1> DEFINE Out == {j \in 0..n : j \notin T}
<1>2. Out \in SUBSET Nat /\ Out # {}
  BY <1>1
<1>3. PICK j \in Out : \A k \in Out : j <= k
  BY <1>2, LeastElement
<1>4. j \in 0..n /\ j \notin T /\ j # 0
  BY <1>3
<1>5. j \in 1..n /\ j - 1 \in 0..n /\ ~(j <= j - 1)
  BY <1>4
<1>6. j - 1 \in T
  BY <1>3, <1>5
<1>7. QED
  BY <1>4, <1>5, <1>6

(* A function whose value at each position is computed from the one before *)
(* exists, and keeps what every step keeps.                                *)
Walks(f, n, T, a, g) ==
  /\ f = [i \in 0..n |-> IF i = 0 THEN a ELSE g[<<f[i - 1], i>>]]
  /\ \A i \in 0..n : f[i] \in T[i]

(* A recursive function is chosen by its equations, so that it has a value *)
(* needs one that keeps them: here is one, when every step leads from one  *)
(* set of the family T into the next.                                      *)
LEMMA WalkExists ==
  ASSUME NEW n \in Nat, NEW T, NEW g, NEW a \in T[0],
         \A i \in 1..n : \A s \in T[i - 1] : g[<<s, i>>] \in T[i]
  PROVE  \E f : Walks(f, n, T, a, g)
<1> DEFINE Is(f, k) == /\ f = [i \in 0..k |-> IF i = 0 THEN a ELSE g[<<f[i - 1], i>>]]
                       /\ \A i \in 0..k : f[i] \in T[i]
           Done == {k \in 0..n : \E f : Is(f, k)}
<1>1. 0 \in Done
  <2>1. Is([i \in 0..0 |-> a], 0)
    OBVIOUS
  <2> HIDE DEF Is
  <2>2. \E f : Is(f, 0)
    BY <2>1, Zenon
  <2>3. QED
    BY <2>2
<1>2. ASSUME NEW k \in 1..n, k - 1 \in Done PROVE k \in Done
  <2>1. PICK f : Is(f, k - 1)
    BY <1>2
  <2> DEFINE h == [i \in 0..k |-> IF i = k THEN g[<<f[k - 1], k>>] ELSE f[i]]
  <2>2. DOMAIN f = 0..(k - 1) /\ k - 1 \in 0..(k - 1) /\ k \in 0..k
    BY <2>1
  <2>3. \A i \in 0..(k - 1) : i \in 0..k /\ i # k /\ h[i] = f[i]
    OBVIOUS
  <2>4. h[k] = g[<<h[k - 1], k>>]
    BY <2>2, <2>3
  <2>5. ASSUME NEW i \in 0..k PROVE h[i] = IF i = 0 THEN a ELSE g[<<h[i - 1], i>>]
    <3>1. CASE i = k
      BY <2>4, <3>1
    <3>2. CASE i # k
      <4>1. i \in 0..(k - 1) /\ h[i] = f[i]
        BY <2>3, <3>2
      <4>2. f[i] = IF i = 0 THEN a ELSE g[<<f[i - 1], i>>]
        BY <2>1, <4>1
      <4>3. i # 0 => i - 1 \in 0..(k - 1) /\ h[i - 1] = f[i - 1]
        BY <2>3, <4>1
      <4>4. QED
        BY <4>1, <4>2, <4>3
    <3>3. QED
      BY <3>1, <3>2
  <2>6. ASSUME NEW i \in 0..k PROVE h[i] \in T[i]
    <3>1. CASE i = k
      BY <2>1, <2>2, <2>3, <2>4, <3>1
    <3>2. CASE i # k
      BY <2>1, <2>3, <3>2
    <3>3. QED
      BY <3>1, <3>2
  <2>7. h = [i \in 0..k |-> h[i]]
    OBVIOUS
  <2> HIDE DEF h
  <2>8. h = [i \in 0..k |-> IF i = 0 THEN a ELSE g[<<h[i - 1], i>>]]
    BY <2>5, <2>7
  <2>9. Is(h, k)
    BY <2>6, <2>8
  <2> HIDE DEF Is
  <2>10. \E any : Is(any, k)
    BY <2>9, Zenon
  <2>11. QED
    BY <2>10
<1> HIDE DEF Done
<1>3. n \in Done
  BY <1>1, <1>2, UpToInduction
<1>4. PICK f : Is(f, n)
  BY <1>3 DEF Done
<1>5. Walks(f, n, T, a, g)
  BY <1>4 DEF Walks
<1>6. QED
  BY <1>5, Zenon

(* The steps of such a function, one by one.                               *)
LEMMA WalkSteps ==
  ASSUME NEW n \in Nat, NEW T, NEW g, NEW a, NEW f, Walks(f, n, T, a, g)
  PROVE  /\ f[0] = a /\ f[0] \in T[0] /\ f = [i \in 0..n |-> f[i]]
         /\ \A i \in 0..n : f[i] \in T[i]
         /\ \A i \in 1..n : f[i] = g[<<f[i - 1], i>>] /\ f[i - 1] \in T[i - 1]
<1>1. 0 \in 0..n /\ \A i \in 1..n : i \in 0..n /\ i - 1 \in 0..n /\ i # 0
  OBVIOUS
<1>2. f = [i \in 0..n |-> IF i = 0 THEN a ELSE g[<<f[i - 1], i>>]]
  BY DEF Walks
<1>3. \A i \in 0..n : f[i] = IF i = 0 THEN a ELSE g[<<f[i - 1], i>>]
  BY <1>2
<1>4. QED
  BY <1>1, <1>2, <1>3 DEF Walks

-----------------------------------------------------------------------------
(* Slices of a sequence: the octets behind the first p, up to the q-th.    *)

LEMMA SliceReads ==
  ASSUME NEW S, NEW t \in Seq(S), NEW p \in Nat, NEW q \in Nat, p <= q, q <= Len(t)
  PROVE  /\ SubSeq(t, p + 1, q) \in Seq(S) /\ Len(SubSeq(t, p + 1, q)) = q - p
         /\ \A i \in 1..(q - p) : SubSeq(t, p + 1, q)[i] = t[p + i]
<1>1. \A i \in (p + 1)..q : t[i] \in S
  BY LenProperties
<1>2. p + 1 \in Int /\ q \in Int
  OBVIOUS
<1>3. /\ SubSeq(t, p + 1, q) \in Seq(S)
      /\ Len(SubSeq(t, p + 1, q)) = IF p + 1 <= q THEN q - (p + 1) + 1 ELSE 0
      /\ \A i \in 1..(q - (p + 1) + 1) : SubSeq(t, p + 1, q)[i] = t[(p + 1) + i - 1]
  BY <1>1, <1>2, SubSeqProperties
<1>4. \A i \in 1..(q - p) : i \in 1..(q - (p + 1) + 1) /\ (p + 1) + i - 1 = p + i
  OBVIOUS
<1>5. QED
  BY <1>3, <1>4

(* Two slices of a text that meet are one slice.                           *)
LEMMA SlicesJoin ==
  ASSUME NEW S, NEW t \in Seq(S), NEW p \in Nat, NEW q \in Nat, NEW r \in Nat,
         p <= q, q <= r, r <= Len(t)
  PROVE  SubSeq(t, p + 1, q) \o SubSeq(t, q + 1, r) = SubSeq(t, p + 1, r)
<1>1. /\ p + 1 \in 1..(Len(t) + 1) /\ q \in ((p + 1) - 1)..Len(t) /\ r \in q..Len(t)
  BY LenProperties
<1>2. QED
  BY <1>1, ConcatAdjacentSubSeq

(* A slice of a slice is one of the text.                                  *)
LEMMA SliceOfSlice ==
  ASSUME NEW S, NEW t \in Seq(S), NEW p \in Nat, NEW q \in Nat, p <= q, q <= Len(t),
         NEW a \in Nat, NEW b \in Nat, a <= b, b <= q - p
  PROVE  SubSeq(SubSeq(t, p + 1, q), a + 1, b) = SubSeq(t, p + a + 1, p + b)
<1> DEFINE u == SubSeq(t, p + 1, q)
           v == SubSeq(u, a + 1, b)
           w == SubSeq(t, p + a + 1, p + b)
<1>1. /\ u \in Seq(S) /\ Len(u) = q - p /\ \A i \in 1..(q - p) : u[i] = t[p + i]
  BY SliceReads
<1>2. p + a \in Nat /\ p + b \in Nat /\ p + a <= p + b /\ p + b <= Len(t)
  BY LenProperties
<1>3. /\ w \in Seq(S) /\ Len(w) = (p + b) - (p + a)
      /\ \A i \in 1..((p + b) - (p + a)) : w[i] = t[(p + a) + i]
  BY <1>2, SliceReads
<1> HIDE DEF u, w
<1>4. /\ v \in Seq(S) /\ Len(v) = b - a /\ \A i \in 1..(b - a) : v[i] = u[a + i]
  BY <1>1, SliceReads
<1> HIDE DEF v
<1>5. (p + b) - (p + a) = b - a
  OBVIOUS
<1>6. ASSUME NEW i \in 1..(b - a) PROVE v[i] = w[i]
  <2>1. a + i \in 1..(q - p) /\ (p + a) + i = p + (a + i)
    OBVIOUS
  <2>2. v[i] = u[a + i] /\ u[a + i] = t[p + (a + i)]
    BY <1>1, <1>4, <2>1
  <2>3. (p + b) - (p + a) = b - a
    OBVIOUS
  <2>4. w[i] = t[(p + a) + i]
    BY <1>3, <2>3
  <2>5. QED
    BY <2>1, <2>2, <2>4
<1>7. v = w
  BY <1>3, <1>4, <1>5, <1>6, SeqEqual
<1>8. QED
  BY <1>7 DEF u, v, w

(* A sequence and one it begins have the same slices as far as it goes.    *)
LEMMA SliceOfBeginning ==
  ASSUME NEW S, NEW t \in Seq(S), NEW n \in Nat, n <= Len(t),
         NEW p \in Nat, NEW q \in Nat, p <= q, q <= n
  PROVE  SubSeq(SubSeq(t, 1, n), p + 1, q) = SubSeq(t, p + 1, q)
<1>1. 0 \in Nat /\ 0 <= n /\ q <= n - 0 /\ 0 + 1 = 1 /\ 0 + p + 1 = p + 1 /\ 0 + q = q
  OBVIOUS
<1>2. SubSeq(SubSeq(t, 0 + 1, n), p + 1, q) = SubSeq(t, 0 + p + 1, 0 + q)
  BY <1>1, SliceOfSlice
<1>3. QED
  BY <1>1, <1>2

(* What is joined can be cut apart again.                                  *)
LEMMA ConcatSlices ==
  ASSUME NEW S, NEW s \in Seq(S), NEW t \in Seq(S)
  PROVE  /\ s \o t \in Seq(S) /\ Len(s \o t) = Len(s) + Len(t)
         /\ Len(s) \in Nat /\ Len(t) \in Nat
         /\ SubSeq(s \o t, 1, Len(s)) = s
         /\ SubSeq(s \o t, Len(s) + 1, Len(s) + Len(t)) = t
<1> DEFINE u == s \o t
           v == SubSeq(u, 0 + 1, Len(s))
           w == SubSeq(u, Len(s) + 1, Len(s) + Len(t))
<1>1. Len(s) \in Nat /\ Len(t) \in Nat
  BY LenProperties
<1>2. /\ u \in Seq(S) /\ Len(u) = Len(s) + Len(t)
      /\ \A i \in 1..(Len(s) + Len(t)) : u[i] = IF i <= Len(s) THEN s[i] ELSE t[i - Len(s)]
  BY ConcatProperties
<1> HIDE DEF u
<1>3. /\ v \in Seq(S) /\ Len(v) = Len(s) - 0 /\ \A i \in 1..(Len(s) - 0) : v[i] = u[0 + i]
  <2>1. 0 \in Nat /\ 0 <= Len(s) /\ Len(s) <= Len(u)
    BY <1>1, <1>2
  <2>2. QED
    BY <1>1, <1>2, <2>1, SliceReads
<1>4. /\ w \in Seq(S) /\ Len(w) = (Len(s) + Len(t)) - Len(s)
      /\ \A i \in 1..((Len(s) + Len(t)) - Len(s)) : w[i] = u[Len(s) + i]
  <2>1. Len(s) + Len(t) \in Nat /\ Len(s) <= Len(s) + Len(t) /\ Len(s) + Len(t) <= Len(u)
    BY <1>1, <1>2
  <2>2. QED
    BY <1>1, <1>2, <2>1, SliceReads
<1> HIDE DEF v, w
<1>5. v = s
  <2>1. Len(v) = Len(s) /\ \A i \in 1..Len(v) : v[i] = s[i]
    BY <1>1, <1>2, <1>3
  <2>2. QED
    BY <1>3, <2>1, SeqEqual
<1>6. w = t
  <2>1. Len(w) = Len(t)
    BY <1>1, <1>4
  <2>2. ASSUME NEW i \in 1..Len(w) PROVE w[i] = t[i]
    <3>1. /\ i \in 1..((Len(s) + Len(t)) - Len(s)) /\ Len(s) + i \in 1..(Len(s) + Len(t))
          /\ ~(Len(s) + i <= Len(s)) /\ (Len(s) + i) - Len(s) = i
      BY <1>1, <2>1
    <3>2. w[i] = u[Len(s) + i]
      BY <1>4, <3>1
    <3>3. u[Len(s) + i] = t[(Len(s) + i) - Len(s)]
      BY <1>2, <3>1
    <3>4. QED
      BY <3>1, <3>2, <3>3
  <2>3. QED
    BY <1>4, <2>1, <2>2, SeqEqual
<1>7. 0 + 1 = 1
  OBVIOUS
<1>8. QED
  BY <1>1, <1>2, <1>5, <1>6, <1>7 DEF u, v, w

(* Joining one octet, two, or none.                                        *)
LEMMA ConcatFew ==
  ASSUME NEW S, NEW s \in Seq(S), NEW a \in S, NEW b \in S
  PROVE  /\ s \o <<a>> = Append(s, a) /\ s \o <<a, b>> = Append(Append(s, a), b)
         /\ s \o << >> = s /\ << >> \o s = s
<1>1. s \o <<a>> = Append(s, a)
  OBVIOUS
<1>2. s \o <<a, b>> = Append(Append(s, a), b)
  OBVIOUS
<1>3. QED
  BY <1>1, <1>2, ConcatEmptySeq

(* A pair is its two elements, joined (BreakLine writes a terminator and a *)
(* blank).                                                                 *)
LEMMA PairOf ==
  ASSUME NEW a, NEW b
  PROVE  <<a>> \o <<b>> = <<a, b>>
<1> DEFINE S == {a, b}
           s == <<a>>
           t == <<b>>
<1>1. s \in Seq(S) /\ t \in Seq(S) /\ Len(s) = 1 /\ Len(t) = 1 /\ s[1] = a /\ t[1] = b
  OBVIOUS
<1>2. a \in S /\ b \in S
  OBVIOUS
<1> HIDE DEF S, s, t
<1> DEFINE u == s \o t
<1>3. /\ u \in Seq(S) /\ Len(u) = Len(s) + Len(t)
      /\ \A i \in 1..(Len(s) + Len(t)) : u[i] = IF i <= Len(s) THEN s[i] ELSE t[i - Len(s)]
  BY <1>1, ConcatProperties, Zenon
<1> HIDE DEF u
<1>4. Len(u) = 2 /\ u[1] = a /\ u[2] = b
  BY <1>1, <1>3
<1> DEFINE v == <<a, b>>
<1>5. v \in Seq(S) /\ Len(v) = 2 /\ v[1] = a /\ v[2] = b
  BY <1>2
<1> HIDE DEF v
<1>6. \A i \in 1..Len(u) : u[i] = v[i]
  BY <1>4, <1>5
<1>7. u = v
  BY <1>3, <1>4, <1>5, <1>6, SeqEqual
<1>8. QED
  BY <1>7 DEF s, t, u, v

-----------------------------------------------------------------------------
(* A line's text with the first c of its folds woven in.                   *)

(* An octet, or what At and TerminatorAt answer besides.                   *)
Kinds == Octets \cup {"none", "CRLF"}
Newlines == {"CRLF", "CR", "LF"}
Fold == [offset : Nat, tab : BOOLEAN, newline : Newlines]

FoldOctets(fold) == NewlineOctets(fold.newline) \o <<IF fold.tab THEN "TAB" ELSE "SP">>
FoldedAt(folds, c) == IF c = 0 THEN 0 ELSE folds[c].offset

(* The folds stand in the line in their order.                             *)
Within(folds, len) ==
  /\ \A i \in DOMAIN folds : folds[i].offset \in 0..len
  /\ \A i, j \in DOMAIN folds : i <= j => folds[i].offset <= folds[j].offset

(* The text up to each fold, with the folds up to there.                   *)
Weaving(text, folds) ==
  LET upTo[c \in 0..Len(folds)] ==
        IF c = 0 THEN << >>
        ELSE upTo[c - 1] \o SubSeq(text, FoldedAt(folds, c - 1) + 1, folds[c].offset)
               \o FoldOctets(folds[c])
  IN  upTo

(* What is out when c folds and p octets of the text are.                  *)
WovenTo(text, folds, c, p) ==
  Weaving(text, folds)[c] \o SubSeq(text, FoldedAt(folds, c) + 1, p)

(* Terminators and folds are written as octets.                            *)
LEMMA NewlineIsOctets ==
  /\ \A newline \in Newlines \cup {"none"} : NewlineOctets(newline) \in Seq(Kinds)
  /\ \A fold \in Fold : FoldOctets(fold) \in Seq(Kinds)
<1>1. ASSUME NEW newline \in Newlines \cup {"none"} PROVE NewlineOctets(newline) \in Seq(Kinds)
  <2>1. "CR" \in Kinds /\ "LF" \in Kinds
    BY DEF Kinds, Octets
  <2>2. CASE newline = "CRLF"
    BY <2>1, <2>2 DEF NewlineOctets
  <2>3. CASE newline = "CR"
    BY <2>1, <2>3 DEF NewlineOctets
  <2>4. CASE newline = "LF"
    BY <2>1, <2>4 DEF NewlineOctets
  <2>5. CASE newline = "none"
    BY <2>5 DEF NewlineOctets
  <2>6. QED
    BY <2>2, <2>3, <2>4, <2>5 DEF Newlines
<1>2. ASSUME NEW fold \in Fold PROVE FoldOctets(fold) \in Seq(Kinds)
  <2>1. NewlineOctets(fold.newline) \in Seq(Kinds)
    BY <1>1 DEF Fold
  <2>2. "TAB" \in Kinds /\ "SP" \in Kinds
    BY DEF Kinds, Octets
  <2>3. <<IF fold.tab THEN "TAB" ELSE "SP">> \in Seq(Kinds)
    BY <2>2
  <2>4. QED
    BY <2>1, <2>3, ConcatProperties DEF FoldOctets
<1>3. QED
  BY <1>1, <1>2

(* Folds that stand in their order, one by one.                            *)
LEMMA FoldedInOrder ==
  ASSUME NEW folds \in Seq(Fold), NEW len \in Nat, Within(folds, len)
  PROVE  /\ Len(folds) \in Nat /\ DOMAIN folds = 1..Len(folds)
         /\ \A c \in 0..Len(folds) : FoldedAt(folds, c) \in 0..len
         /\ \A c \in 1..Len(folds) :
              /\ folds[c] \in Fold /\ folds[c].offset = FoldedAt(folds, c)
              /\ FoldedAt(folds, c - 1) <= folds[c].offset
<1>1. Len(folds) \in Nat /\ DOMAIN folds = 1..Len(folds) /\ \A c \in 1..Len(folds) : folds[c] \in Fold
  BY LenProperties
<1>2. ASSUME NEW c \in 0..Len(folds) PROVE FoldedAt(folds, c) \in 0..len
  BY <1>1 DEF FoldedAt, Within
<1>3. ASSUME NEW c \in 1..Len(folds) PROVE FoldedAt(folds, c - 1) <= folds[c].offset
  <2>1. folds[c].offset \in 0..len
    BY <1>1 DEF Within
  <2>2. CASE c = 1
    BY <2>1, <2>2 DEF FoldedAt
  <2>3. CASE c # 1
    <3>1. c - 1 \in 1..Len(folds) /\ c - 1 <= c /\ c - 1 # 0
      BY <1>1, <2>3
    <3>2. folds[c - 1].offset <= folds[c].offset
      BY <1>1, <3>1 DEF Within
    <3>3. QED
      BY <3>1, <3>2 DEF FoldedAt
  <2>4. QED
    BY <2>2, <2>3
<1>4. QED
  BY <1>1, <1>2, <1>3 DEF FoldedAt

(* The weaving has a value, and each fold adds the text before it and      *)
(* itself.                                                                 *)
LEMMA WeavingSteps ==
  ASSUME NEW text \in Seq(Kinds), NEW folds \in Seq(Fold), Within(folds, Len(text))
  PROVE  /\ Weaving(text, folds)[0] = << >>
         /\ \A c \in 0..Len(folds) : Weaving(text, folds)[c] \in Seq(Kinds)
         /\ \A c \in 1..Len(folds) :
              Weaving(text, folds)[c] =
                Weaving(text, folds)[c - 1]
                  \o SubSeq(text, FoldedAt(folds, c - 1) + 1, folds[c].offset)
                  \o FoldOctets(folds[c])
<1> DEFINE n == Len(folds)
           upTo[c \in 0..n] ==
             IF c = 0 THEN << >>
             ELSE upTo[c - 1] \o SubSeq(text, FoldedAt(folds, c - 1) + 1, folds[c].offset)
                    \o FoldOctets(folds[c])
           g == [p \in Seq(Kinds) \X (1..n) |->
                   p[1] \o SubSeq(text, FoldedAt(folds, p[2] - 1) + 1, folds[p[2]].offset)
                     \o FoldOctets(folds[p[2]])]
           T == [c \in 0..n |-> Seq(Kinds)]
           a == << >>
<1>0. Weaving(text, folds) = upTo
  BY DEF Weaving
<1>1. n \in Nat /\ 0 \in 0..n /\ a \in T[0]
  BY LenProperties
<1>2. ASSUME NEW c \in 1..n
      PROVE  /\ SubSeq(text, FoldedAt(folds, c - 1) + 1, folds[c].offset) \in Seq(Kinds)
             /\ FoldOctets(folds[c]) \in Seq(Kinds)
  <2>1. Len(text) \in Nat
    BY LenProperties
  <2>2. /\ FoldedAt(folds, c - 1) \in Nat /\ folds[c].offset \in Nat /\ folds[c] \in Fold
        /\ FoldedAt(folds, c - 1) <= folds[c].offset /\ folds[c].offset <= Len(text)
    BY <1>1, <2>1, FoldedInOrder
  <2>3. QED
    BY <2>2, SliceReads, NewlineIsOctets
<1>3. ASSUME NEW c \in 1..n, NEW s \in T[c - 1] PROVE g[<<s, c>>] \in T[c]
  <2>1. s \in Seq(Kinds) /\ c \in 0..n /\ <<s, c>> \in Seq(Kinds) \X (1..n)
    BY <1>1
  <2>2. g[<<s, c>>] = s \o SubSeq(text, FoldedAt(folds, c - 1) + 1, folds[c].offset)
                        \o FoldOctets(folds[c])
    BY <2>1
  <2>3. g[<<s, c>>] \in Seq(Kinds)
    BY <1>2, <2>1, <2>2, ConcatProperties
  <2>4. QED
    BY <2>1, <2>3
<1> HIDE DEF g, T, a, n
<1>4. PICK f : Walks(f, n, T, a, g)
  BY <1>1, <1>3, WalkExists
<1>5. /\ f[0] = a /\ f = [c \in 0..n |-> f[c]] /\ \A c \in 0..n : f[c] \in T[c]
      /\ \A c \in 1..n : f[c] = g[<<f[c - 1], c>>] /\ f[c - 1] \in T[c - 1]
  BY <1>1, <1>4, WalkSteps
<1>6. f = [c \in 0..n |->
             IF c = 0 THEN << >>
             ELSE f[c - 1] \o SubSeq(text, FoldedAt(folds, c - 1) + 1, folds[c].offset)
                    \o FoldOctets(folds[c])]
  <2>1. ASSUME NEW c \in 0..n
        PROVE  f[c] = IF c = 0 THEN << >>
                      ELSE f[c - 1] \o SubSeq(text, FoldedAt(folds, c - 1) + 1, folds[c].offset)
                             \o FoldOctets(folds[c])
    <3>1. CASE c = 0
      BY <1>5, <3>1 DEF a
    <3>2. CASE c # 0
      <4>1. c \in 1..n /\ c - 1 \in 0..n
        BY <1>1, <3>2
      <4>2. f[c] = g[<<f[c - 1], c>>] /\ f[c - 1] \in Seq(Kinds)
        BY <1>5, <4>1 DEF T
      <4>3. QED
        BY <3>2, <4>1, <4>2 DEF g
    <3>3. QED
      BY <3>1, <3>2
  <2>2. QED
    BY <1>5, <2>1
<1>7. upTo = [c \in 0..n |->
             IF c = 0 THEN << >>
             ELSE upTo[c - 1] \o SubSeq(text, FoldedAt(folds, c - 1) + 1, folds[c].offset)
                    \o FoldOctets(folds[c])]
  BY <1>6
<1> HIDE DEF upTo
<1>8. /\ DOMAIN upTo = 0..n /\ upTo[0] = << >>
      /\ \A c \in 0..n : c # 0 =>
           upTo[c] = upTo[c - 1] \o SubSeq(text, FoldedAt(folds, c - 1) + 1, folds[c].offset)
                       \o FoldOctets(folds[c])
  BY <1>1, <1>7
<1>9. upTo = f
  <2>1. f[0] = upTo[0]
    BY <1>5, <1>8 DEF a
  <2>2. ASSUME NEW c \in 1..n, f[c - 1] = upTo[c - 1] PROVE f[c] = upTo[c]
    <3>1. c \in 0..n /\ c # 0
      BY <1>1
    <3>2. QED
      BY <1>6, <1>8, <2>2, <3>1
  <2> DEFINE Alike == {c \in 0..n : f[c] = upTo[c]}
  <2>3. 0 \in Alike /\ \A c \in 1..n : c - 1 \in Alike => c \in Alike
    BY <1>1, <2>1, <2>2
  <2> HIDE DEF Alike
  <2>4. \A c \in 0..n : f[c] = upTo[c]
    <3>1. \A c \in 0..n : c \in Alike
      BY <1>1, <2>3, UpToInduction
    <3>2. QED
      BY <3>1 DEF Alike
  <2>5. upTo = [c \in 0..n |-> upTo[c]]
    BY <1>7
  <2>6. QED
    BY <1>5, <2>4, <2>5
<1>10. \A c \in 0..n : upTo[c] \in Seq(Kinds)
  BY <1>5, <1>9 DEF T
<1>11. ASSUME NEW c \in 1..n
       PROVE  upTo[c] = upTo[c - 1] \o SubSeq(text, FoldedAt(folds, c - 1) + 1, folds[c].offset)
                          \o FoldOctets(folds[c])
  <2>1. c \in 0..n /\ c # 0
    BY <1>1
  <2>2. QED
    BY <1>8, <2>1
<1>12. QED
  BY <1>0, <1>8, <1>10, <1>11 DEF n

(* Octets of the text are written as they are (Put).                       *)
LEMMA WovenText ==
  ASSUME NEW text \in Seq(Kinds), NEW folds \in Seq(Fold), Within(folds, Len(text)),
         NEW c \in 0..Len(folds), NEW p \in Nat, NEW q \in Nat,
         FoldedAt(folds, c) <= p, p <= q, q <= Len(text)
  PROVE  /\ WovenTo(text, folds, c, p) \in Seq(Kinds)
         /\ WovenTo(text, folds, c, p) \o SubSeq(text, p + 1, q) = WovenTo(text, folds, c, q)
<1> DEFINE at == FoldedAt(folds, c)
<1>1. Len(text) \in Nat
  BY LenProperties
<1>2. at \in Nat /\ at <= p /\ at <= q /\ p <= Len(text)
  BY <1>1, FoldedInOrder
<1> HIDE DEF at
<1>3. Weaving(text, folds)[c] \in Seq(Kinds)
  BY WeavingSteps
<1>4. SubSeq(text, at + 1, p) \in Seq(Kinds) /\ SubSeq(text, p + 1, q) \in Seq(Kinds)
  BY <1>1, <1>2, SliceReads
<1>5. SubSeq(text, at + 1, p) \o SubSeq(text, p + 1, q) = SubSeq(text, at + 1, q)
  BY <1>1, <1>2, SlicesJoin
<1>6. (Weaving(text, folds)[c] \o SubSeq(text, at + 1, p)) \o SubSeq(text, p + 1, q)
        = Weaving(text, folds)[c] \o (SubSeq(text, at + 1, p) \o SubSeq(text, p + 1, q))
  <2> DEFINE a == Weaving(text, folds)[c]
             b == SubSeq(text, at + 1, p)
             d == SubSeq(text, p + 1, q)
  <2>1. a \in Seq(Kinds) /\ b \in Seq(Kinds) /\ d \in Seq(Kinds)
    BY <1>3, <1>4
  <2> HIDE DEF a, b, d
  <2>2. (a \o b) \o d = a \o (b \o d)
    BY ONLY <2>1
  <2>3. QED
    BY <2>2 DEF a, b, d
<1>7. WovenTo(text, folds, c, p) \in Seq(Kinds)
  BY <1>3, <1>4, ConcatProperties DEF WovenTo, at
<1>8. QED
  BY <1>5, <1>6, <1>7 DEF WovenTo, at

(* Nothing lies between a place and itself.                                *)
LEMMA EmptySlice ==
  ASSUME NEW S, NEW t \in Seq(S), NEW p \in Nat, p <= Len(t)
  PROVE  SubSeq(t, p + 1, p) = << >>
<1>1. SubSeq(t, p + 1, p) \in Seq(S) /\ Len(SubSeq(t, p + 1, p)) = p - p
  BY SliceReads
<1>2. QED
  BY <1>1, EmptySeq

(* A fold is written when the text is out to where it stands (BreakLine).  *)
LEMMA WovenFold ==
  ASSUME NEW text \in Seq(Kinds), NEW folds \in Seq(Fold), Within(folds, Len(text)),
         NEW c \in 1..Len(folds)
  PROVE  WovenTo(text, folds, c - 1, folds[c].offset) \o FoldOctets(folds[c])
           = WovenTo(text, folds, c, folds[c].offset)
<1> DEFINE at == folds[c].offset
           woven == Weaving(text, folds)
<1>1. Len(text) \in Nat /\ Len(folds) \in Nat /\ c \in 0..Len(folds)
  BY LenProperties
<1>2. /\ at \in Nat /\ at <= Len(text) /\ FoldedAt(folds, c) = at
  BY <1>1, FoldedInOrder
<1>3. /\ woven[c] = woven[c - 1] \o SubSeq(text, FoldedAt(folds, c - 1) + 1, at) \o FoldOctets(folds[c])
      /\ woven[c] \in Seq(Kinds)
  BY <1>1, WeavingSteps
<1> HIDE DEF at, woven
<1>4. SubSeq(text, at + 1, at) = << >>
  BY <1>2, EmptySlice
<1>5. woven[c] \o << >> = woven[c]
  BY <1>3, ConcatEmptySeq
<1>6. QED
  BY <1>2, <1>3, <1>4, <1>5 DEF WovenTo, at, woven

(* Nothing is woven of nothing.                                            *)
LEMMA WovenNothing ==
  ASSUME NEW text \in Seq(Kinds), NEW folds \in Seq(Fold), Within(folds, Len(text))
  PROVE  WovenTo(text, folds, 0, 0) = << >>
<1>1. FoldedAt(folds, 0) = 0 /\ Weaving(text, folds)[0] = << >>
  BY WeavingSteps DEF FoldedAt
<1>2. SubSeq(text, 0 + 1, 0) = << >>
  BY EmptySlice, LenProperties
<1>3. << >> \o << >> = << >>
  OBVIOUS
<1>4. QED
  BY <1>1, <1>2, <1>3 DEF WovenTo

(* What is out does not depend on what is read of the line later.          *)
LEMMA WovenStays ==
  ASSUME NEW text \in Seq(Kinds), NEW folds \in Seq(Fold), Within(folds, Len(text)),
         NEW text2 \in Seq(Kinds), NEW folds2 \in Seq(Fold), Within(folds2, Len(text2)),
         Len(text) <= Len(text2), SubSeq(text2, 1, Len(text)) = text,
         Len(folds) <= Len(folds2), \A i \in 1..Len(folds) : folds2[i] = folds[i],
         NEW c \in 0..Len(folds), NEW p \in Nat, FoldedAt(folds, c) <= p, p <= Len(text)
  PROVE  WovenTo(text2, folds2, c, p) = WovenTo(text, folds, c, p)
<1> DEFINE n == Len(folds)
           Alike == {i \in 0..n : Weaving(text2, folds2)[i] = Weaving(text, folds)[i]}
<1>1. n \in Nat /\ Len(folds2) \in Nat /\ Len(text) \in Nat /\ Len(text2) \in Nat
  BY LenProperties
<1>2. \A i \in 0..n : FoldedAt(folds2, i) = FoldedAt(folds, i)
  BY <1>1 DEF FoldedAt
<1>3. \A from, to \in Nat : from <= to /\ to <= Len(text) =>
        SubSeq(text2, from + 1, to) = SubSeq(text, from + 1, to)
  <2>1. SUFFICES ASSUME NEW from \in Nat, NEW to \in Nat, from <= to, to <= Len(text)
                 PROVE  SubSeq(text2, from + 1, to) = SubSeq(text, from + 1, to)
    OBVIOUS
  <2>2. SubSeq(SubSeq(text2, 1, Len(text)), from + 1, to) = SubSeq(text2, from + 1, to)
    BY <1>1, <2>1, SliceOfBeginning
  <2>3. QED
    BY <2>2
<1>4. 0 \in Alike
  <2>1. Weaving(text2, folds2)[0] = << >> /\ Weaving(text, folds)[0] = << >>
    BY WeavingSteps
  <2>2. QED
    BY <1>1, <2>1
<1>5. ASSUME NEW i \in 1..n, i - 1 \in Alike PROVE i \in Alike
  <2> DEFINE from == FoldedAt(folds, i - 1)
             to == folds[i].offset
  <2>1. i \in 1..Len(folds2) /\ i - 1 \in 0..n /\ i \in 0..n
    BY <1>1
  <2>2. from \in Nat /\ to \in Nat /\ from <= to /\ to <= Len(text)
    BY <1>1, <2>1, FoldedInOrder, SMTT(40)
  <2>3. Weaving(text, folds)[i] =
          Weaving(text, folds)[i - 1] \o SubSeq(text, from + 1, to) \o FoldOctets(folds[i])
    BY WeavingSteps
  <2>4. Weaving(text2, folds2)[i] =
          Weaving(text2, folds2)[i - 1]
            \o SubSeq(text2, FoldedAt(folds2, i - 1) + 1, folds2[i].offset)
            \o FoldOctets(folds2[i])
    BY <2>1, WeavingSteps
  <2>5. FoldedAt(folds2, i - 1) = from /\ folds2[i] = folds[i] /\ folds2[i].offset = to
    BY <1>2, <2>1
  <2> HIDE DEF from, to
  <2>6. SubSeq(text2, from + 1, to) = SubSeq(text, from + 1, to)
    BY <1>3, <2>2
  <2>7. Weaving(text2, folds2)[i - 1] = Weaving(text, folds)[i - 1]
    BY <1>5
  <2>8. QED
    BY <2>1, <2>3, <2>4, <2>5, <2>6, <2>7
<1> HIDE DEF Alike
<1>6. \A i \in 0..n : i \in Alike
  BY <1>1, <1>4, <1>5, UpToInduction
<1>7. Weaving(text2, folds2)[c] = Weaving(text, folds)[c]
  BY <1>6 DEF Alike
<1>8. FoldedAt(folds, c) \in Nat
  BY <1>1, FoldedInOrder
<1>9. SubSeq(text2, FoldedAt(folds, c) + 1, p) = SubSeq(text, FoldedAt(folds, c) + 1, p)
  BY <1>3, <1>8
<1>10. QED
  BY <1>2, <1>7, <1>9 DEF WovenTo

-----------------------------------------------------------------------------
(* A line while it is read: what is out of it once all of it is.           *)
WovenAll(text, folds) == WovenTo(text, folds, Len(folds), Len(text))

(* A woven line is octets.                                                 *)
LEMMA WovenAllIsOctets ==
  ASSUME NEW text \in Seq(Kinds), NEW folds \in Seq(Fold), Within(folds, Len(text))
  PROVE  WovenAll(text, folds) \in Seq(Kinds)
<1>1. Len(text) \in Nat /\ Len(folds) \in Nat /\ Len(folds) \in 0..Len(folds)
  BY LenProperties
<1>2. FoldedAt(folds, Len(folds)) \in 0..Len(text)
  BY <1>1, FoldedInOrder
<1>3. FoldedAt(folds, Len(folds)) <= Len(text) /\ Len(text) <= Len(text)
  BY <1>1, <1>2
<1>4. QED
  BY <1>1, <1>3, WovenText DEF WovenAll

(* An octet that is kept comes behind everything (Keeps, ValueOctet).      *)
LEMMA WovenAllText ==
  ASSUME NEW text \in Seq(Kinds), NEW folds \in Seq(Fold), Within(folds, Len(text)),
         NEW o \in Kinds
  PROVE  /\ Append(text, o) \in Seq(Kinds) /\ Len(Append(text, o)) = Len(text) + 1
         /\ WovenAll(Append(text, o), folds) = WovenAll(text, folds) \o <<o>>
<1> DEFINE u == Append(text, o)
           n == Len(folds)
           one == <<o>>
<1>1. Len(text) \in Nat /\ n \in Nat /\ n \in 0..Len(folds) /\ one \in Seq(Kinds) /\ Len(one) = 1
  BY LenProperties
<1>2. FoldedAt(folds, n) \in 0..Len(text)
  BY <1>1, FoldedInOrder
<1>3. u \in Seq(Kinds) /\ Len(u) = Len(text) + 1 /\ u = text \o one
  BY ConcatFew
<1>4. /\ SubSeq(text \o one, 1, Len(text)) = text
      /\ SubSeq(text \o one, Len(text) + 1, Len(text) + Len(one)) = one
  <2> HIDE DEF one
  <2>1. QED
    BY <1>1, ConcatSlices
<1>5. SubSeq(u, 1, Len(text)) = text /\ SubSeq(u, Len(text) + 1, Len(text) + 1) = one
  BY <1>1, <1>3, <1>4
<1> HIDE DEF u, one
<1>6. Within(folds, Len(u))
  BY <1>1, <1>3 DEF Within
<1>7. /\ FoldedAt(folds, n) <= Len(text) /\ Len(text) <= Len(u) /\ Len(text) <= Len(text)
      /\ Len(text) + 1 \in Nat /\ Len(text) <= Len(text) + 1 /\ Len(text) + 1 <= Len(u)
      /\ FoldedAt(folds, n) \in Nat /\ Len(folds) <= Len(folds)
      /\ \A i \in 1..Len(folds) : folds[i] = folds[i]
  BY <1>1, <1>2, <1>3
<1> HIDE DEF n
<1>8. WovenTo(u, folds, n, Len(text)) = WovenTo(text, folds, n, Len(text))
  <2>1. /\ u \in Seq(Kinds) /\ Within(folds, Len(u)) /\ Len(text) <= Len(u)
        /\ SubSeq(u, 1, Len(text)) = text /\ n \in 0..Len(folds)
        /\ FoldedAt(folds, n) <= Len(text) /\ Len(text) <= Len(text)
        /\ Len(text) \in Nat /\ Len(folds) <= Len(folds)
    BY <1>1, <1>3, <1>5, <1>6, <1>7
  <2>2. QED
    BY <2>1, WovenStays
<1>9. WovenTo(u, folds, n, Len(text)) \o SubSeq(u, Len(text) + 1, Len(text) + 1)
        = WovenTo(u, folds, n, Len(text) + 1)
  <2> DEFINE q == Len(text) + 1
             p == Len(text)
  <2>1. /\ u \in Seq(Kinds) /\ Within(folds, Len(u)) /\ n \in 0..Len(folds)
        /\ p \in Nat /\ q \in Nat /\ FoldedAt(folds, n) <= p /\ p <= q /\ q <= Len(u)
    BY <1>1, <1>3, <1>6, <1>7
  <2> HIDE DEF q, p
  <2>2. WovenTo(u, folds, n, p) \o SubSeq(u, p + 1, q) = WovenTo(u, folds, n, q)
    BY <2>1, WovenText
  <2>3. QED
    BY <2>2 DEF q, p
<1>10. WovenTo(u, folds, n, Len(u)) = WovenTo(text, folds, n, Len(text)) \o one
  BY <1>3, <1>5, <1>8, <1>9
<1>11. QED
  BY <1>3, <1>10 DEF WovenAll, u, one, n

(* So does a fold that is recorded at the end of what is kept (TakeFold).  *)
LEMMA WovenAllFold ==
  ASSUME NEW text \in Seq(Kinds), NEW folds \in Seq(Fold), Within(folds, Len(text)),
         NEW fold \in Fold, fold.offset = Len(text)
  PROVE  WovenAll(text, Append(folds, fold)) = WovenAll(text, folds) \o FoldOctets(fold)
<1> DEFINE more == Append(folds, fold)
           n == Len(folds)
           p == Len(text)
<1>1. p \in Nat /\ n \in Nat /\ n \in 0..n
  BY LenProperties
<1>2. /\ more \in Seq(Fold) /\ Len(more) = n + 1 /\ more[n + 1] = fold
      /\ \A i \in 1..n : more[i] = folds[i]
  OBVIOUS
<1>3. FoldedAt(folds, n) \in 0..p
  BY <1>1, FoldedInOrder
<1> HIDE DEF more
<1>4. Within(more, p)
  <2>1. ASSUME NEW i \in DOMAIN more PROVE more[i].offset \in 0..p
    <3>1. i \in 1..n \/ i = n + 1
      BY <1>1, <1>2
    <3>2. QED
      BY <1>1, <1>2, <3>1 DEF Within
  <2>2. ASSUME NEW i \in DOMAIN more, NEW j \in DOMAIN more, i <= j
        PROVE  more[i].offset <= more[j].offset
    <3>1. CASE j = n + 1
      <4>1. more[j].offset = p
        BY <1>2, <3>1
      <4>2. QED
        BY <1>1, <2>1, <4>1
    <3>2. CASE j # n + 1
      <4>1. i \in 1..n /\ j \in 1..n
        BY <1>1, <1>2, <2>2, <3>2
      <4>2. folds[i].offset <= folds[j].offset
        BY <1>1, <2>2, <4>1 DEF Within
      <4>3. QED
        BY <1>2, <4>1, <4>2
    <3>3. QED
      BY <3>1, <3>2
  <2>3. QED
    BY <2>1, <2>2 DEF Within
<1>5. /\ n + 1 \in 1..Len(more) /\ (n + 1) - 1 = n /\ more[n + 1].offset = p
      /\ n <= Len(more) /\ FoldedAt(folds, n) <= p /\ p <= p
  BY <1>1, <1>2, <1>3
<1>6. SubSeq(text, 1, p) = text
  OBVIOUS
<1> HIDE DEF p
<1>7. WovenTo(text, more, n, p) = WovenTo(text, folds, n, p)
  BY <1>1, <1>2, <1>4, <1>5, <1>6, WovenStays DEF p
<1>8. WovenTo(text, more, (n + 1) - 1, more[n + 1].offset) \o FoldOctets(more[n + 1])
        = WovenTo(text, more, n + 1, more[n + 1].offset)
  BY <1>2, <1>4, <1>5, WovenFold DEF p
<1>9. WovenTo(text, more, n + 1, p) = WovenTo(text, folds, n, p) \o FoldOctets(fold)
  BY <1>2, <1>5, <1>7, <1>8
<1>10. QED
  BY <1>2, <1>9 DEF WovenAll, more, p

(* What is written, a and then b, is the beginning of t, up to p.          *)
Spells(a, b, t, p) == a \o b = SubSeq(t, 1, p)

(* What spells a text so far goes on spelling it with its next octets.     *)
LEMMA SpellsOn ==
  ASSUME NEW S, NEW t \in Seq(S), NEW p \in Nat, NEW q \in Nat, p <= q, q <= Len(t),
         NEW a \in Seq(S), NEW b \in Seq(S), NEW c \in Seq(S),
         Spells(a, b, t, p), c = SubSeq(t, p + 1, q)
  PROVE  Spells(a, b \o c, t, q)
<1>1. 0 \in Nat /\ 0 <= p /\ 0 + 1 = 1
  OBVIOUS
<1>2. SubSeq(t, 0 + 1, p) \o SubSeq(t, p + 1, q) = SubSeq(t, 0 + 1, q)
  BY <1>1, SlicesJoin
<1>3. (a \o b) \o c = SubSeq(t, 1, q)
  BY <1>1, <1>2 DEF Spells
<1>4. (a \o b) \o c = a \o (b \o c)
  BY ONLY a \in Seq(S), b \in Seq(S), c \in Seq(S)
<1>5. QED
  BY <1>3, <1>4 DEF Spells

-----------------------------------------------------------------------------
(* The writer, with the folds a line was read with.                        *)

Writer == [out : Seq(Kinds), pending : Seq(Fold), position : Nat, column : Nat]

(* c folds and p octets are out, and no fold that is due by then is not.   *)
IsAt(w, text, folds, c, p) ==
  /\ w \in Writer /\ c \in 0..Len(folds) /\ p \in 0..Len(text)
  /\ FoldedAt(folds, c) <= p
  /\ c < Len(folds) => p <= folds[c + 1].offset
  /\ w.out = WovenTo(text, folds, c, p)
  /\ w.pending = SubSeq(folds, c + 1, Len(folds))
  /\ w.position = p

(* What Put changes of the writer.                                         *)
LEMMA PutFields ==
  ASSUME NEW w \in Writer, NEW bytes \in Seq(Kinds)
  PROVE  /\ Put(w, bytes) \in Writer /\ Put(w, bytes).out = w.out \o bytes
         /\ Put(w, bytes).pending = w.pending
         /\ Put(w, bytes).position = w.position + Len(bytes)
         /\ Put(w, bytes).column = w.column + Len(bytes)
<1> DEFINE out == w.out \o bytes
           position == w.position + Len(bytes)
           column == w.column + Len(bytes)
<1>1. w.out \in Seq(Kinds) /\ w.position \in Nat /\ w.column \in Nat /\ Len(bytes) \in Nat
  BY LenProperties DEF Writer
<1>2. out \in Seq(Kinds) /\ position \in Nat /\ column \in Nat
  BY <1>1, ConcatProperties
<1>3. Put(w, bytes) = [w EXCEPT !.out = out, !.position = position, !.column = column]
  BY DEF Put
<1> HIDE DEF out, position, column
<1>4. /\ Put(w, bytes) \in Writer /\ Put(w, bytes).out = out /\ Put(w, bytes).pending = w.pending
      /\ Put(w, bytes).position = position /\ Put(w, bytes).column = column
  BY <1>2, <1>3 DEF Writer
<1>5. QED
  BY <1>4 DEF out, position, column

(* What BreakLine changes of the writer.                                   *)
LEMMA BreakFields ==
  ASSUME NEW w \in Writer, NEW newline \in Newlines, NEW blank \in Kinds
  PROVE  /\ BreakLine(w, newline, blank) \in Writer
         /\ BreakLine(w, newline, blank).out = w.out \o (NewlineOctets(newline) \o <<blank>>)
         /\ BreakLine(w, newline, blank).pending = w.pending
         /\ BreakLine(w, newline, blank).position = w.position
<1> DEFINE a == w.out
           b == NewlineOctets(newline)
           d == <<blank>>
           out == a \o b \o d
           column == 0
<1>1. a \in Seq(Kinds) /\ b \in Seq(Kinds) /\ d \in Seq(Kinds)
  BY NewlineIsOctets DEF Writer
<1>2. BreakLine(w, newline, blank) = [w EXCEPT !.out = out, !.column = column]
  BY DEF BreakLine
<1>0. column \in Nat
  OBVIOUS
<1> HIDE DEF a, b, d, column
<1>3. out = a \o (b \o d) /\ b \o d \in Seq(Kinds) /\ out \in Seq(Kinds)
  BY <1>1
<1> HIDE DEF out
<1>4. /\ BreakLine(w, newline, blank) \in Writer /\ BreakLine(w, newline, blank).out = out
      /\ BreakLine(w, newline, blank).pending = w.pending
      /\ BreakLine(w, newline, blank).position = w.position
  BY <1>0, <1>2, <1>3 DEF Writer
<1>5. QED
  BY <1>3, <1>4 DEF a, b, d

(* A line begins at its own beginning, all its folds pending               *)
(* (write_parts).                                                          *)
LEMMA OpenedIsAt ==
  ASSUME NEW text \in Seq(Kinds), NEW line, line.folds \in Seq(Fold),
         Within(line.folds, Len(text))
  PROVE  IsAt(Opened(line), text, line.folds, 0, 0)
<1> DEFINE folds == line.folds
           w == Opened(line)
<1>1. Len(folds) \in Nat /\ Len(text) \in Nat
  BY LenProperties
<1>2. /\ w \in Writer /\ w.out = << >> /\ w.pending = folds /\ w.position = 0
  BY DEF Opened, Writer
<1>3. WovenTo(text, folds, 0, 0) = << >>
  BY WovenNothing
<1>4. FoldedAt(folds, 0) = 0
  BY DEF FoldedAt
<1>5. 0 < Len(folds) => 0 <= folds[0 + 1].offset
  <2>1. SUFFICES ASSUME 0 < Len(folds) PROVE 0 <= folds[1].offset
    OBVIOUS
  <2>2. 1 \in 1..Len(folds)
    BY <1>1, <2>1
  <2>3. folds[1].offset = FoldedAt(folds, 1) /\ FoldedAt(folds, 1) \in 0..Len(text)
    BY <1>1, <2>2, FoldedInOrder
  <2>4. QED
    BY <2>3
<1>6. SubSeq(folds, 0 + 1, Len(folds)) = folds
  BY <1>1
<1> HIDE DEF w, folds
<1>7. IsAt(w, text, folds, 0, 0)
  BY <1>1, <1>2, <1>3, <1>4, <1>5, <1>6 DEF IsAt
<1>8. QED
  BY <1>7 DEF w, folds

(* Text that reaches no further than the next fold is written through.     *)
LEMMA PutIsAt ==
  ASSUME NEW text \in Seq(Kinds), NEW folds \in Seq(Fold), Within(folds, Len(text)),
         NEW w, NEW c, NEW p, IsAt(w, text, folds, c, p),
         NEW q \in Nat, p <= q, q <= Len(text),
         c < Len(folds) => q <= folds[c + 1].offset
  PROVE  IsAt(Put(w, SubSeq(text, p + 1, q)), text, folds, c, q)
<1> DEFINE bytes == SubSeq(text, p + 1, q)
           v == Put(w, bytes)
<1>1. /\ Len(text) \in Nat /\ p \in Nat /\ c \in 0..Len(folds) /\ w \in Writer
      /\ FoldedAt(folds, c) <= p /\ FoldedAt(folds, c) \in Nat
      /\ w.out = WovenTo(text, folds, c, p) /\ w.position = p
      /\ w.pending = SubSeq(folds, c + 1, Len(folds))
  <2>1. Len(text) \in Nat
    BY LenProperties
  <2>2. QED
    BY <2>1, FoldedInOrder DEF IsAt
<1>2. /\ WovenTo(text, folds, c, p) \in Seq(Kinds)
      /\ WovenTo(text, folds, c, p) \o bytes = WovenTo(text, folds, c, q)
  BY <1>1, WovenText
<1>3. bytes \in Seq(Kinds) /\ Len(bytes) = q - p
  BY <1>1, SliceReads
<1>4. /\ v \in Writer /\ v.out = w.out \o bytes /\ v.pending = w.pending
      /\ v.position = w.position + Len(bytes)
  BY <1>1, <1>3, PutFields
<1> HIDE DEF bytes, v
<1>5. v.position = q /\ v.out = WovenTo(text, folds, c, q)
  BY <1>1, <1>2, <1>3, <1>4
<1>6. q \in 0..Len(text) /\ FoldedAt(folds, c) <= q
  BY <1>1
<1>7. IsAt(v, text, folds, c, q)
  BY <1>1, <1>4, <1>5, <1>6 DEF IsAt
<1>8. QED
  BY <1>7 DEF v, bytes

(* The fold that is due is written, and no longer pending.                 *)
LEMMA BreakIsAt ==
  ASSUME NEW text \in Seq(Kinds), NEW folds \in Seq(Fold), Within(folds, Len(text)),
         NEW w, NEW c, NEW p, IsAt(w, text, folds, c, p),
         c < Len(folds), folds[c + 1].offset = p
  PROVE  IsAt([BreakLine(w, folds[c + 1].newline, IF folds[c + 1].tab THEN "TAB" ELSE "SP")
                 EXCEPT !.pending = Tail(@)],
              text, folds, c + 1, p)
<1> DEFINE fold == folds[c + 1]
           blank == IF fold.tab THEN "TAB" ELSE "SP"
           v == [BreakLine(w, fold.newline, blank) EXCEPT !.pending = Tail(@)]
<1>1. /\ Len(text) \in Nat /\ Len(folds) \in Nat /\ p \in Nat /\ c \in Nat /\ w \in Writer
      /\ p \in 0..Len(text) /\ w.out = WovenTo(text, folds, c, p) /\ w.position = p
      /\ w.pending = SubSeq(folds, c + 1, Len(folds))
  BY LenProperties DEF IsAt
<1>2. c + 1 \in 1..Len(folds) /\ (c + 1) - 1 = c
  BY <1>1
<1>3. fold \in Fold /\ fold.offset = p /\ FoldedAt(folds, c + 1) = p
  BY <1>1, <1>2, FoldedInOrder
<1>4. WovenTo(text, folds, c, p) \o FoldOctets(fold) = WovenTo(text, folds, c + 1, p)
  <2>1. WovenTo(text, folds, (c + 1) - 1, folds[c + 1].offset) \o FoldOctets(folds[c + 1])
          = WovenTo(text, folds, c + 1, folds[c + 1].offset)
    BY <1>2, WovenFold
  <2>2. QED
    BY <1>2, <2>1
<1>5. fold.newline \in Newlines /\ blank \in Kinds
  <2>1. "TAB" \in Kinds /\ "SP" \in Kinds
    BY DEF Kinds, Octets
  <2>2. QED
    BY <1>3, <2>1 DEF Fold
<1>6. FoldOctets(fold) = NewlineOctets(fold.newline) \o <<blank>>
  BY DEF FoldOctets
<1> HIDE DEF blank, fold
<1> DEFINE broken == BreakLine(w, fold.newline, blank)
<1>7. /\ broken \in Writer /\ broken.out = w.out \o FoldOctets(fold)
      /\ broken.pending = w.pending /\ broken.position = w.position
  BY <1>1, <1>5, <1>6, BreakFields
<1>8. v = [broken EXCEPT !.pending = Tail(broken.pending)]
  OBVIOUS
<1> HIDE DEF broken, v
<1>9. /\ Tail(w.pending) \in Seq(Fold)
      /\ Tail(w.pending) = SubSeq(folds, (c + 1) + 1, Len(folds))
  <2> DEFINE due == SubSeq(folds, c + 1, Len(folds))
             rest == SubSeq(folds, c + 1 + 1, Len(folds))
  <2>1. due \in Seq(Fold) /\ Len(due) = Len(folds) - c /\ 1 <= Len(folds) - c
    BY <1>1, <1>2, SliceReads
  <2>2. SubSeq(due, 1 + 1, Len(folds) - c) = SubSeq(folds, c + 1 + 1, c + (Len(folds) - c))
    BY <1>1, <1>2, SliceOfSlice
  <2>3. c + (Len(folds) - c) = Len(folds) /\ 1 + 1 = 2
    BY <1>1
  <2>4. rest \in Seq(Fold)
    BY <1>1, <1>2, SliceReads
  <2>5. w.pending = due
    BY <1>1
  <2>6. SubSeq(due, 2, Len(due)) = rest
    BY <2>1, <2>2, <2>3
  <2> HIDE DEF due, rest
  <2>7. Tail(due) = SubSeq(due, 2, Len(due))
    BY <1>1, <2>1
  <2>8. QED
    BY <2>4, <2>5, <2>6, <2>7 DEF rest
<1>10. /\ v \in Writer /\ v.out = broken.out /\ v.position = broken.position
       /\ v.pending = Tail(w.pending)
  <2> DEFINE rest == Tail(broken.pending)
  <2>1. rest \in Seq(Fold) /\ rest = Tail(w.pending)
    BY <1>7, <1>9
  <2>2. v = [broken EXCEPT !.pending = rest]
    BY <1>8
  <2> HIDE DEF rest
  <2>3. v \in Writer /\ v.out = broken.out /\ v.position = broken.position /\ v.pending = rest
    BY <1>7, <2>1, <2>2 DEF Writer
  <2>4. QED
    BY <2>1, <2>3
<1>11. v.out = WovenTo(text, folds, c + 1, p) /\ v.position = p
  BY <1>1, <1>4, <1>7, <1>10
<1>12. v.pending = SubSeq(folds, (c + 1) + 1, Len(folds))
  BY <1>9, <1>10
<1>13. c + 1 < Len(folds) => p <= folds[(c + 1) + 1].offset
  <2>1. SUFFICES ASSUME c + 1 < Len(folds) PROVE p <= folds[(c + 1) + 1].offset
    OBVIOUS
  <2>2. (c + 1) + 1 \in 1..Len(folds) /\ ((c + 1) + 1) - 1 = c + 1
    BY <1>1, <2>1
  <2>3. FoldedAt(folds, ((c + 1) + 1) - 1) <= folds[(c + 1) + 1].offset
    BY <1>1, <2>2, FoldedInOrder
  <2>4. QED
    BY <1>3, <2>2, <2>3
<1>14. IsAt(v, text, folds, c + 1, p)
  <2>1. c + 1 \in 0..Len(folds) /\ FoldedAt(folds, c + 1) <= p
    BY <1>1, <1>2, <1>3
  <2>2. QED
    BY <1>1, <1>10, <1>11, <1>12, <1>13, <2>1 DEF IsAt
<1>15. QED
  BY <1>14 DEF v, blank, fold

(* One fold of those that were pending when a piece came (PushRecorded).   *)
Pushing == [w : Writer, rest : Seq(Kinds), stuck : BOOLEAN]
Past(s, fold) ==
  LET taken == Larger(fold.offset - s.w.position, 0)
  IN  IF s.stuck \/ taken > Len(s.rest) THEN [s EXCEPT !.stuck = TRUE]
      ELSE [w |-> [BreakLine(Put(s.w, Taken(s.rest, taken)), fold.newline,
                             IF fold.tab THEN "TAB" ELSE "SP")
                     EXCEPT !.pending = Tail(@)],
            rest |-> Dropped(s.rest, taken), stuck |-> FALSE]

(* The piece is out to where the writer is, and the writer waits for a fold*)
(* only if it stands behind the piece.                                     *)
PushesTo(s, text, folds, d, q) ==
  /\ IsAt(s.w, text, folds, d, s.w.position)
  /\ s.w.position <= q /\ s.rest = SubSeq(text, s.w.position + 1, q)
  /\ s.stuck => d < Len(folds) /\ q < folds[d + 1].offset

(* One fold: it is woven in if the piece reaches it, and otherwise the     *)
(* writer waits.                                                           *)
LEMMA PastPushes ==
  ASSUME NEW text \in Seq(Kinds), NEW folds \in Seq(Fold), Within(folds, Len(text)),
         NEW q \in 0..Len(text), NEW s \in Pushing, NEW d, PushesTo(s, text, folds, d, q),
         d < Len(folds)
  PROVE  /\ Past(s, folds[d + 1]) \in Pushing
         /\ \/ Past(s, folds[d + 1]).stuck /\ PushesTo(Past(s, folds[d + 1]), text, folds, d, q)
            \/ ~s.stuck /\ ~Past(s, folds[d + 1]).stuck
                 /\ PushesTo(Past(s, folds[d + 1]), text, folds, d + 1, q)
<1> DEFINE fold == folds[d + 1]
           at == s.w.position
           taken == Larger(fold.offset - at, 0)
           v == [BreakLine(Put(s.w, SubSeq(text, at + 1, fold.offset)), fold.newline,
                           IF fold.tab THEN "TAB" ELSE "SP")
                   EXCEPT !.pending = Tail(@)]
           next == Past(s, fold)
<1>1. /\ Len(text) \in Nat /\ Len(folds) \in Nat /\ d \in 0..Len(folds)
      /\ at \in Nat /\ at <= q /\ q \in Nat /\ q <= Len(text)
      /\ s.w \in Writer /\ s.rest \in Seq(Kinds) /\ s.stuck \in BOOLEAN
      /\ IsAt(s.w, text, folds, d, at) /\ s.rest = SubSeq(text, at + 1, q)
      /\ d < Len(folds) => at <= folds[d + 1].offset
  BY LenProperties DEF Pushing, PushesTo, IsAt
<1>2. d + 1 \in 1..Len(folds)
  BY <1>1
<1>3. fold \in Fold /\ fold.offset \in Nat /\ at <= fold.offset /\ fold.offset <= Len(text)
  <2>1. /\ fold \in Fold /\ fold.offset = FoldedAt(folds, d + 1)
        /\ FoldedAt(folds, d + 1) \in 0..Len(text)
    BY <1>1, <1>2, FoldedInOrder
  <2>2. at <= fold.offset
    BY <1>1
  <2>3. QED
    BY <1>1, <2>1, <2>2
<1>4. taken = fold.offset - at
  <2> HIDE DEF fold, at
  <2>1. QED
    BY <1>1, <1>3 DEF Larger
<1>5. Len(s.rest) = q - at
  <2> HIDE DEF at
  <2>1. QED
    BY <1>1, SliceReads
<1>6. CASE s.stuck \/ taken > Len(s.rest)
  <2>1. next = [s EXCEPT !.stuck = TRUE]
    BY <1>6 DEF Past
  <2>2. next \in Pushing /\ next.w = s.w /\ next.rest = s.rest /\ next.stuck
    BY <2>1 DEF Pushing
  <2>3. q < folds[d + 1].offset
    <3>1. CASE s.stuck
      BY <3>1 DEF PushesTo
    <3>2. CASE taken > Len(s.rest)
      <4> HIDE DEF at, taken
      <4>1. QED
        BY <1>1, <1>3, <1>4, <1>5, <3>2
    <3>3. QED
      BY <1>6, <3>1, <3>2
  <2> HIDE DEF next
  <2>4. PushesTo(next, text, folds, d, q)
    BY <2>2, <2>3 DEF PushesTo
  <2>5. QED
    BY <2>2, <2>4 DEF next
<1>7. CASE ~(s.stuck \/ taken > Len(s.rest))
  <2>1. fold.offset <= q
    <3> HIDE DEF at, taken, fold
    <3>1. QED
      BY <1>1, <1>3, <1>4, <1>5, <1>7
  <2>2. /\ Taken(s.rest, taken) = SubSeq(text, at + 1, fold.offset)
        /\ Dropped(s.rest, taken) = SubSeq(text, fold.offset + 1, q)
        /\ SubSeq(text, fold.offset + 1, q) \in Seq(Kinds)
    <3> DEFINE off == fold.offset
    <3>1. off \in Nat /\ at <= off /\ off <= q
      BY <1>3, <2>1
    <3> HIDE DEF at, off, taken
    <3>2. taken = off - at
      BY <1>4 DEF off
    <3>3. /\ 0 \in Nat /\ taken \in Nat /\ 0 <= taken /\ taken <= q - at /\ q - at \in Nat
          /\ at + 0 + 1 = at + 1 /\ at + taken = off /\ at + taken + 1 = off + 1
          /\ at + (q - at) = q
      BY <1>1, <3>1, <3>2
    <3>4. SubSeq(SubSeq(text, at + 1, q), 0 + 1, taken) = SubSeq(text, at + 0 + 1, at + taken)
      BY <1>1, <3>3, SliceOfSlice
    <3>5. SubSeq(SubSeq(text, at + 1, q), taken + 1, q - at)
            = SubSeq(text, at + taken + 1, at + (q - at))
      BY <1>1, <3>3, SliceOfSlice
    <3>6. SubSeq(text, off + 1, q) \in Seq(Kinds)
      BY <1>1, <3>1, SliceReads
    <3>7. Taken(s.rest, taken) = SubSeq(text, at + 1, off)
      BY <1>1, <3>3, <3>4 DEF Taken
    <3>8. Dropped(s.rest, taken) = SubSeq(text, off + 1, q)
      BY <1>1, <1>5, <3>3, <3>5 DEF Dropped
    <3>9. QED
      BY <3>6, <3>7, <3>8 DEF off
  <2>3. next = [w |-> v, rest |-> SubSeq(text, fold.offset + 1, q), stuck |-> FALSE]
    <3>1. next = [w |-> [BreakLine(Put(s.w, Taken(s.rest, taken)), fold.newline,
                                   IF fold.tab THEN "TAB" ELSE "SP")
                           EXCEPT !.pending = Tail(@)],
                  rest |-> Dropped(s.rest, taken), stuck |-> FALSE]
      BY <1>7 DEF Past
    <3>2. QED
      BY <2>2, <3>1
  <2>4. IsAt(Put(s.w, SubSeq(text, at + 1, fold.offset)), text, folds, d, fold.offset)
    <3> DEFINE off == fold.offset
    <3>1. off \in Nat /\ at <= off /\ off <= Len(text) /\ off <= folds[d + 1].offset
      BY <1>3
    <3> HIDE DEF at, off
    <3>2. IsAt(Put(s.w, SubSeq(text, at + 1, off)), text, folds, d, off)
      BY <1>1, <3>1, PutIsAt
    <3>3. QED
      BY <3>2 DEF off
  <2>5. IsAt(v, text, folds, d + 1, fold.offset)
    <3> DEFINE u == Put(s.w, SubSeq(text, at + 1, fold.offset))
    <3>1. IsAt(u, text, folds, d, fold.offset)
      BY <2>4
    <3> HIDE DEF u
    <3>2. IsAt([BreakLine(u, folds[d + 1].newline, IF folds[d + 1].tab THEN "TAB" ELSE "SP")
                  EXCEPT !.pending = Tail(@)],
               text, folds, d + 1, folds[d + 1].offset)
      BY <3>1, BreakIsAt
    <3>3. QED
      BY <3>2 DEF u
  <2> HIDE DEF v, next
  <2>6. v \in Writer /\ v.position = fold.offset
    BY <2>5 DEF IsAt
  <2>7. next \in Pushing /\ next.w = v /\ next.rest = SubSeq(text, fold.offset + 1, q) /\ ~next.stuck
    <3> DEFINE rest == SubSeq(text, fold.offset + 1, q)
    <3>1. rest \in Seq(Kinds)
      BY <2>2
    <3> HIDE DEF rest
    <3>2. next = [w |-> v, rest |-> rest, stuck |-> FALSE]
      BY <2>3 DEF rest
    <3>3. next \in Pushing /\ next.w = v /\ next.rest = rest /\ ~next.stuck
      BY <2>6, <3>1, <3>2 DEF Pushing
    <3>4. QED
      BY <3>3 DEF rest
  <2>8. PushesTo(next, text, folds, d + 1, q)
    BY <2>1, <2>5, <2>6, <2>7 DEF PushesTo
  <2>9. ~s.stuck
    BY <1>7
  <2>10. QED
    BY <2>7, <2>8, <2>9 DEF next
<1>8. QED
  BY <1>6, <1>7

(* A piece of the text is written with the folds that fall into it, or     *)
(* right behind it.                                                        *)
LEMMA PushIsAt ==
  ASSUME NEW text \in Seq(Kinds), NEW folds \in Seq(Fold), Within(folds, Len(text)),
         NEW w, NEW c, NEW p, IsAt(w, text, folds, c, p),
         NEW q \in 0..Len(text), p <= q
  PROVE  \E d : /\ IsAt(PushRecorded(w, SubSeq(text, p + 1, q)), text, folds, d, q)
                /\ d < Len(folds) => q < folds[d + 1].offset
<1> DEFINE bytes == SubSeq(text, p + 1, q)
           m == Len(w.pending)
           a == [w |-> w, rest |-> bytes, stuck |-> FALSE]
           step[k \in 0..m] ==
             IF k = 0 THEN [w |-> w, rest |-> bytes, stuck |-> FALSE]
             ELSE LET s     == step[k - 1]
                      fold  == w.pending[k]
                      taken == Larger(fold.offset - s.w.position, 0)
                  IN  IF s.stuck \/ taken > Len(s.rest) THEN [s EXCEPT !.stuck = TRUE]
                      ELSE [w |-> [BreakLine(Put(s.w, Taken(s.rest, taken)), fold.newline,
                                             IF fold.tab THEN "TAB" ELSE "SP")
                                     EXCEPT !.pending = Tail(@)],
                            rest |-> Dropped(s.rest, taken), stuck |-> FALSE]
           g == [x \in Pushing \X (1..m) |-> Past(x[1], w.pending[x[2]])]
           T == [k \in 0..m |->
                   {s \in Pushing : \E d \in 0..Len(folds) :
                      PushesTo(s, text, folds, d, q) /\ (~s.stuck => d = c + k)}]
<1>0. PushRecorded(w, bytes) = Put(step[m].w, step[m].rest)
  BY DEF PushRecorded
<1>1. /\ Len(text) \in Nat /\ Len(folds) \in Nat /\ p \in Nat /\ q \in Nat /\ q <= Len(text)
      /\ w \in Writer /\ c \in 0..Len(folds) /\ w.position = p
      /\ w.pending = SubSeq(folds, c + 1, Len(folds))
  BY LenProperties DEF IsAt
<1>2. /\ m = Len(folds) - c /\ m \in Nat
      /\ \A k \in 1..m : w.pending[k] = folds[c + k]
  BY <1>1, SliceReads
<1>3. a \in Pushing /\ a.w = w /\ a.rest = bytes /\ ~a.stuck
  <2>1. bytes \in Seq(Kinds)
    BY <1>1, SliceReads
  <2> HIDE DEF bytes
  <2>2. QED
    BY <1>1, <2>1 DEF Pushing
<1>4. a \in T[0]
  <2>1. PushesTo(a, text, folds, c, q)
    BY <1>1, <1>3 DEF PushesTo
  <2>2. c = c + 0 /\ 0 \in 0..m
    BY <1>1, <1>2
  <2> HIDE DEF a, m
  <2>3. QED
    BY <1>1, <1>3, <2>1, <2>2
<1> HIDE DEF bytes, m
<1>5. ASSUME NEW k \in 1..m, NEW s \in T[k - 1]
      PROVE  Past(s, w.pending[k]) \in T[k]
  <2> DEFINE next == Past(s, w.pending[k])
  <2>1. k \in 0..m /\ k - 1 \in 0..m
    BY <1>2
  <2>2. PICK d \in 0..Len(folds) : PushesTo(s, text, folds, d, q) /\ (~s.stuck => d = c + (k - 1))
    BY <2>1
  <2>3. s \in Pushing
    BY <2>1
  <2>4. CASE s.stuck
    <3>1. next = [s EXCEPT !.stuck = TRUE]
      BY <2>4 DEF Past
    <3>2. next = s
      BY <2>3, <2>4, <3>1 DEF Pushing
    <3> HIDE DEF next
    <3>3. next \in T[k]
      BY <2>1, <2>2, <2>3, <2>4, <3>2
    <3>4. QED
      BY <3>3 DEF next
  <2>5. CASE ~s.stuck
    <3>1. d = c + (k - 1) /\ d < Len(folds) /\ d + 1 = c + k /\ d + 1 \in 0..Len(folds)
      BY <1>1, <1>2, <2>1, <2>2, <2>5
    <3>2. w.pending[k] = folds[d + 1]
      BY <1>2, <3>1
    <3>3. /\ next \in Pushing
          /\ \/ next.stuck /\ PushesTo(next, text, folds, d, q)
             \/ ~next.stuck /\ PushesTo(next, text, folds, d + 1, q)
      BY <2>2, <2>3, <3>1, <3>2, PastPushes
    <3> HIDE DEF next
    <3>4. next \in T[k]
      BY <2>1, <2>2, <3>1, <3>3
    <3>5. QED
      BY <3>4 DEF next
  <2>6. QED
    BY <2>4, <2>5
<1>6. \A k \in 1..m : \A s \in T[k - 1] : s \in Pushing /\ g[<<s, k>>] = Past(s, w.pending[k])
  BY <1>2
<1> HIDE DEF a, g, T
<1>7. \A k \in 1..m : \A s \in T[k - 1] : g[<<s, k>>] \in T[k]
  BY <1>5, <1>6
<1>8. PICK f : Walks(f, m, T, a, g)
  BY <1>2, <1>4, <1>7, WalkExists
<1>9. /\ f[0] = a /\ f = [k \in 0..m |-> f[k]] /\ \A k \in 0..m : f[k] \in T[k]
      /\ \A k \in 1..m : f[k] = g[<<f[k - 1], k>>] /\ f[k - 1] \in T[k - 1]
  BY <1>2, <1>8, WalkSteps
<1>10. f = [k \in 0..m |->
             IF k = 0 THEN [w |-> w, rest |-> bytes, stuck |-> FALSE]
             ELSE LET s     == f[k - 1]
                      fold  == w.pending[k]
                      taken == Larger(fold.offset - s.w.position, 0)
                  IN  IF s.stuck \/ taken > Len(s.rest) THEN [s EXCEPT !.stuck = TRUE]
                      ELSE [w |-> [BreakLine(Put(s.w, Taken(s.rest, taken)), fold.newline,
                                             IF fold.tab THEN "TAB" ELSE "SP")
                                     EXCEPT !.pending = Tail(@)],
                            rest |-> Dropped(s.rest, taken), stuck |-> FALSE]]
  <2>1. ASSUME NEW k \in 0..m PROVE f[k] = IF k = 0 THEN a ELSE Past(f[k - 1], w.pending[k])
    <3>1. CASE k = 0
      BY <1>9, <3>1
    <3>2. CASE k # 0
      <4>1. k \in 1..m
        BY <1>2, <3>2
      <4>2. f[k] = g[<<f[k - 1], k>>] /\ f[k - 1] \in T[k - 1]
        BY <1>9, <4>1
      <4>3. QED
        BY <1>6, <3>2, <4>1, <4>2
    <3>3. QED
      BY <3>1, <3>2
  <2>2. QED
    BY <1>9, <2>1 DEF a, Past
<1>11. step = [k \in 0..m |->
             IF k = 0 THEN [w |-> w, rest |-> bytes, stuck |-> FALSE]
             ELSE LET s     == step[k - 1]
                      fold  == w.pending[k]
                      taken == Larger(fold.offset - s.w.position, 0)
                  IN  IF s.stuck \/ taken > Len(s.rest) THEN [s EXCEPT !.stuck = TRUE]
                      ELSE [w |-> [BreakLine(Put(s.w, Taken(s.rest, taken)), fold.newline,
                                             IF fold.tab THEN "TAB" ELSE "SP")
                                     EXCEPT !.pending = Tail(@)],
                            rest |-> Dropped(s.rest, taken), stuck |-> FALSE]]
  BY <1>10
<1> HIDE DEF step
<1>12. \A k \in 0..m : step[k] = IF k = 0 THEN a ELSE Past(step[k - 1], w.pending[k])
  BY <1>11 DEF a, Past
<1>13. step[m] \in T[m]
  <2> DEFINE Typed == {k \in 0..m : step[k] \in T[k]}
  <2>1. 0 \in Typed
    BY <1>2, <1>4, <1>12
  <2>2. ASSUME NEW k \in 1..m, k - 1 \in Typed PROVE k \in Typed
    <3>1. k \in 0..m /\ k # 0
      BY <1>2
    <3>2. step[k] = Past(step[k - 1], w.pending[k])
      BY <1>12, <3>1
    <3>3. QED
      BY <1>5, <2>2, <3>1, <3>2
  <2> HIDE DEF Typed
  <2>3. \A k \in 0..m : k \in Typed
    BY <1>2, <2>1, <2>2, UpToInduction
  <2>4. QED
    BY <1>2, <2>3 DEF Typed
<1> DEFINE all == step[m]
<1>14. PICK d \in 0..Len(folds) : PushesTo(all, text, folds, d, q) /\ (~all.stuck => d = c + m)
  BY <1>2, <1>13 DEF T
<1> HIDE DEF all
<1>15. /\ IsAt(Put(all.w, all.rest), text, folds, d, q)
       /\ d < Len(folds) => q < folds[d + 1].offset
  <2>1. /\ IsAt(all.w, text, folds, d, all.w.position) /\ all.w.position <= q
        /\ all.rest = SubSeq(text, all.w.position + 1, q)
    BY <1>14 DEF PushesTo
  <2>2. d < Len(folds) => q < folds[d + 1].offset /\ q <= folds[d + 1].offset
    <3>1. SUFFICES ASSUME d < Len(folds)
                   PROVE  q < folds[d + 1].offset /\ q <= folds[d + 1].offset
      OBVIOUS
    <3>2. all.stuck
      BY <1>1, <1>2, <1>14, <3>1
    <3>3. q < folds[d + 1].offset
      BY <1>14, <3>2 DEF PushesTo
    <3>4. d + 1 \in 1..Len(folds)
      BY <1>1, <3>1
    <3>5. folds[d + 1].offset \in Nat
      <4>1. folds[d + 1] \in Fold
        BY <1>1, <3>4, FoldedInOrder
      <4>2. QED
        BY <4>1 DEF Fold
    <3>6. QED
      BY <1>1, <3>3, <3>5
  <2>3. QED
    BY <1>1, <2>1, <2>2, PutIsAt
<1>16. PushRecorded(w, bytes) = Put(all.w, all.rest)
  BY <1>0 DEF all
<1>17. QED
  BY <1>15, <1>16 DEF bytes

-----------------------------------------------------------------------------
(* The pieces of a line are its text, cut.                                 *)
CutAt(pieces, text, e) ==
  /\ e \in [0..Len(pieces) -> 0..Len(text)]
  /\ e[0] = 0 /\ e[Len(pieces)] = Len(text)
  /\ \A i \in 1..Len(pieces) :
       e[i - 1] <= e[i] /\ pieces[i] = SubSeq(text, e[i - 1] + 1, e[i])
(* Pieces are the text cut where e says.                                   *)
IsCut(pieces, text) ==
  /\ pieces \in Seq(Seq(Kinds)) /\ text \in Seq(Kinds)
  /\ \E e \in [0..Len(pieces) -> 0..Len(text)] : CutAt(pieces, text, e)

(* No pieces are the empty text.                                           *)
LEMMA CutNothing == IsCut(<< >>, << >>)
<1> DEFINE e == [i \in 0..0 |-> 0]
<1>1. Len(<< >>) = 0 /\ << >> \in Seq(Kinds) /\ << >> \in Seq(Seq(Kinds))
  OBVIOUS
<1>2. e \in [0..0 -> 0..0] /\ e[0] = 0
  OBVIOUS
<1> HIDE DEF e
<1>3. CutAt(<< >>, << >>, e)
  BY <1>1, <1>2 DEF CutAt
<1>4. e \in [0..Len(<< >>) -> 0..Len(<< >>)]
  BY <1>1, <1>2
<1>5. QED
  BY <1>1, <1>3, <1>4, Zenon DEF IsCut

(* One more piece, and the text longer by it.                              *)
LEMMA CutMore ==
  ASSUME NEW pieces, NEW text, IsCut(pieces, text), NEW b \in Seq(Kinds)
  PROVE  IsCut(Append(pieces, b), text \o b)
<1>1. pieces \in Seq(Seq(Kinds)) /\ text \in Seq(Kinds)
  BY DEF IsCut
<1>2. PICK e \in [0..Len(pieces) -> 0..Len(text)] : CutAt(pieces, text, e)
  BY DEF IsCut
<1> DEFINE n == Len(pieces)
           more == Append(pieces, b)
           whole == text \o b
           f == [i \in 0..(n + 1) |-> IF i <= n THEN e[i] ELSE Len(whole)]
<1>3. /\ whole \in Seq(Kinds) /\ Len(whole) = Len(text) + Len(b)
      /\ Len(text) \in Nat /\ Len(b) \in Nat
      /\ SubSeq(whole, 1, Len(text)) = text
      /\ SubSeq(whole, Len(text) + 1, Len(text) + Len(b)) = b
  BY <1>1, ConcatSlices
<1>4. /\ n \in Nat /\ more \in Seq(Seq(Kinds)) /\ Len(more) = n + 1
      /\ \A i \in 1..n : more[i] = pieces[i]
      /\ more[n + 1] = b
  BY <1>1
<1>5. e[0] = 0 /\ e[n] = Len(text) /\ \A i \in 0..n : e[i] \in 0..Len(text)
  BY <1>2 DEF CutAt
<1> HIDE DEF whole, more
<1>6. f \in [0..(n + 1) -> 0..Len(whole)] /\ f[0] = 0 /\ f[n + 1] = Len(whole)
  BY <1>3, <1>4, <1>5
<1>7. \A i \in 0..n : f[i] = e[i]
  BY <1>4
<1> HIDE DEF f
<1>8. ASSUME NEW i \in 1..(n + 1)
      PROVE  f[i - 1] <= f[i] /\ more[i] = SubSeq(whole, f[i - 1] + 1, f[i])
  <2>1. CASE i \in 1..n
    <3>1. i \in 0..n /\ i - 1 \in 0..n
      BY <1>4, <2>1
    <3>2. f[i] = e[i] /\ f[i - 1] = e[i - 1] /\ e[i] \in 0..Len(text) /\ e[i - 1] \in 0..Len(text)
      BY <1>5, <1>7, <3>1
    <3>3. e[i - 1] <= e[i] /\ pieces[i] = SubSeq(text, e[i - 1] + 1, e[i])
      BY <1>2, <2>1 DEF CutAt
    <3>4. Len(text) <= Len(whole) /\ e[i] <= Len(text) /\ e[i] \in Nat /\ e[i - 1] \in Nat
      BY <1>3, <3>2
    <3>5. SubSeq(SubSeq(whole, 1, Len(text)), e[i - 1] + 1, e[i]) = SubSeq(whole, e[i - 1] + 1, e[i])
      <4>1. whole \in Seq(Kinds) /\ Len(text) \in Nat /\ Len(text) <= Len(whole)
        BY <1>3, <3>4
      <4>2. e[i - 1] \in Nat /\ e[i] \in Nat /\ e[i - 1] <= e[i] /\ e[i] <= Len(text)
        BY <3>3, <3>4
      <4>3. QED
        BY ONLY <4>1, <4>2, SliceOfBeginning, SMTT(40)
    <3>6. QED
      BY <1>3, <1>4, <2>1, <3>2, <3>3, <3>5
  <2>2. CASE i = n + 1
    <3>1. i - 1 = n /\ n \in 0..n
      BY <1>4, <2>2
    <3>2. f[i - 1] = Len(text) /\ f[i] = Len(whole)
      BY <1>5, <1>6, <1>7, <2>2, <3>1
    <3>3. QED
      BY <1>3, <1>4, <2>2, <3>2
  <2>3. QED
    BY <1>4, <2>1, <2>2
<1>9. CutAt(more, whole, f)
  BY <1>4, <1>6, <1>8 DEF CutAt
<1>10. f \in [0..Len(more) -> 0..Len(whole)]
  BY <1>4, <1>6
<1>11. IsCut(more, whole)
  BY <1>3, <1>4, <1>9, <1>10, Zenon DEF IsCut
<1>12. QED
  BY <1>11 DEF more, whole

(* A parameter is its separator, its name and, behind a "=", its value.    *)
ParameterPieces(p) ==
  <<<<";">>, p.name>> \o (IF p.hasValue THEN <<<<"=">>, p.value>> ELSE << >>)
IsParameter(p) ==
  p.name \in Seq(Kinds) /\ p.hasValue \in BOOLEAN /\ (p.hasValue => p.value \in Seq(Kinds))
Extends(t, p, u) ==
  IF p.hasValue THEN (((t \o <<";">>) \o p.name) \o <<"=">>) \o p.value = u
  ELSE (t \o <<";">>) \o p.name = u

(* The pieces of one parameter more.                                       *)
LEMMA ParameterCut ==
  ASSUME NEW ps, NEW t, NEW p, NEW u, IsCut(ps, t), IsParameter(p), Extends(t, p, u)
  PROVE  IsCut(ps \o ParameterPieces(p), u) /\ ps \o ParameterPieces(p) \in Seq(Seq(Kinds))
<1> DEFINE P == Seq(Kinds)
           a == <<";">>
           c == <<"=">>
<1>1. ps \in Seq(P) /\ a \in P /\ c \in P /\ p.name \in P
  <2>1. ";" \in Kinds /\ "=" \in Kinds
    BY DEF Kinds, Octets
  <2>2. \A x \in Kinds : <<x>> \in Seq(Kinds)
    OBVIOUS
  <2>3. a \in P /\ c \in P
    BY <2>1, <2>2, Zenon
  <2>4. QED
    BY <2>3 DEF IsCut, IsParameter
<1> HIDE DEF P, a, c
<1>2. ps \o <<a, p.name>> = Append(Append(ps, a), p.name)
  BY <1>1, ConcatFew
<1>3. IsCut(Append(Append(ps, a), p.name), (t \o a) \o p.name)
  <2>1. IsCut(Append(ps, a), t \o a)
    BY <1>1, CutMore DEF P
  <2>2. QED
    BY <1>1, <2>1, CutMore DEF P
<1>4. Append(Append(ps, a), p.name) \in Seq(P)
  BY <1>1
<1>5. CASE ~p.hasValue
  <2>1. ParameterPieces(p) = <<a, p.name>>
    <3>1. ParameterPieces(p) = <<a, p.name>> \o << >>
      BY <1>5 DEF ParameterPieces, a
    <3>2. <<a, p.name>> \in Seq(P)
      BY <1>1
    <3>3. <<a, p.name>> \o << >> = <<a, p.name>>
      BY <3>2, ConcatEmptySeq
    <3>4. QED
      BY <3>1, <3>3
  <2>2. (t \o a) \o p.name = u
    BY <1>5 DEF Extends, a
  <2>3. QED
    BY <1>2, <1>3, <1>4, <2>1, <2>2 DEF P
<1>6. CASE p.hasValue
  <2>1. p.value \in P
    BY <1>6 DEF IsParameter, P
  <2> DEFINE first == <<a, p.name>>
             rest == <<c, p.value>>
  <2>2. first \in Seq(P) /\ rest \in Seq(P)
    BY <1>1, <2>1
  <2>3. ParameterPieces(p) = first \o rest
    BY <1>6 DEF ParameterPieces, a, c
  <2>4. (ps \o first) \o rest = ps \o ParameterPieces(p)
    <3> HIDE DEF first, rest
    <3>1. (ps \o first) \o rest = ps \o (first \o rest)
      BY <1>1, <2>2
    <3>2. QED
      BY <2>3, <3>1
  <2> DEFINE mid == Append(Append(ps, a), p.name)
  <2>5. mid \in Seq(P) /\ ps \o first = mid
    BY <1>2, <1>4
  <2>6. IsCut(mid, (t \o a) \o p.name)
    BY <1>3
  <2> HIDE DEF mid, first
  <2>7. mid \o rest = Append(Append(mid, c), p.value)
    BY <1>1, <2>1, <2>5, ConcatFew
  <2>8. IsCut(Append(Append(mid, c), p.value), (((t \o a) \o p.name) \o c) \o p.value)
    <3>1. IsCut(Append(mid, c), ((t \o a) \o p.name) \o c)
      BY <1>1, <2>6, CutMore DEF P
    <3>2. QED
      BY <2>1, <3>1, CutMore DEF P
  <2>9. (((t \o a) \o p.name) \o c) \o p.value = u
    BY <1>6 DEF Extends, a, c
  <2>10. Append(Append(mid, c), p.value) \in Seq(P)
    BY <1>1, <2>1, <2>5
  <2>11. QED
    BY <2>4, <2>5, <2>7, <2>8, <2>9, <2>10 DEF P
<1>7. QED
  BY <1>5, <1>6 DEF IsParameter

(* The pieces of a line are its text, when each parameter takes its header *)
(* from h[i - 1] to h[i].                                                  *)
LEMMA PiecesCut ==
  ASSUME NEW line, NEW h, Len(line.parameters) \in Nat,
         line.name \in Seq(Kinds), h[0] = line.name, line.value \in Seq(Kinds),
         line.hasSeparator \in BOOLEAN,
         \A i \in 1..Len(line.parameters) :
           IsParameter(line.parameters[i]) /\ Extends(h[i - 1], line.parameters[i], h[i])
  PROVE  /\ IsCut(PiecesOf(line),
                  h[Len(line.parameters)]
                    \o (IF line.hasSeparator THEN <<":">> ELSE << >>) \o line.value)
         /\ PiecesOf(line) # << >>
<1> DEFINE n == Len(line.parameters)
           ofParameter(p) ==
             <<<<";">>, p.name>> \o (IF p.hasValue THEN <<<<"=">>, p.value>> ELSE << >>)
           upTo[i \in 0..n] ==
             IF i = 0 THEN <<line.name>> ELSE upTo[i - 1] \o ofParameter(line.parameters[i])
           T == [i \in 0..n |-> {ps \in Seq(Seq(Kinds)) : IsCut(ps, h[i])}]
           g == [x \in Seq(Seq(Kinds)) \X (1..n) |-> x[1] \o ofParameter(line.parameters[x[2]])]
           a == <<line.name>>
<1>0. PiecesOf(line) = upTo[n] \o (IF line.hasSeparator THEN <<<<":">>>> ELSE << >>) \o <<line.value>>
  BY DEF PiecesOf
<1>1. n \in Nat
  OBVIOUS
<1>2. \A i \in 1..n : ofParameter(line.parameters[i]) = ParameterPieces(line.parameters[i])
  BY DEF ParameterPieces
<1> HIDE DEF n, ofParameter
<1>3. a \in Seq(Seq(Kinds)) /\ IsCut(a, h[0])
  <2>1. IsCut(Append(<< >>, line.name), << >> \o line.name)
    BY CutNothing, CutMore
  <2>2. Append(<< >>, line.name) = <<line.name>>
    OBVIOUS
  <2>3. << >> \o line.name = line.name
    BY ConcatEmptySeq
  <2>4. a \in Seq(Seq(Kinds))
    OBVIOUS
  <2>5. QED
    BY <2>1, <2>2, <2>3, <2>4
<1>4. a \in T[0]
  BY <1>1, <1>3
<1>5. ASSUME NEW i \in 1..n, NEW s \in T[i - 1]
      PROVE  /\ s \in Seq(Seq(Kinds)) /\ g[<<s, i>>] = s \o ofParameter(line.parameters[i])
             /\ s \o ofParameter(line.parameters[i]) \in T[i]
  <2>1. i - 1 \in 0..n /\ i \in 0..n
    BY <1>1
  <2>2. s \in Seq(Seq(Kinds)) /\ IsCut(s, h[i - 1])
    BY <2>1
  <2>3. <<s, i>> \in Seq(Seq(Kinds)) \X (1..n)
    BY <2>2
  <2>4. g[<<s, i>>] = s \o ofParameter(line.parameters[i])
    BY <2>3
  <2>5. IsParameter(line.parameters[i]) /\ Extends(h[i - 1], line.parameters[i], h[i])
    BY DEF n
  <2>6. /\ IsCut(s \o ParameterPieces(line.parameters[i]), h[i])
        /\ s \o ParameterPieces(line.parameters[i]) \in Seq(Seq(Kinds))
    BY <2>2, <2>5, ParameterCut
  <2>7. QED
    BY <1>2, <2>1, <2>2, <2>4, <2>6
<1> HIDE DEF g, a
<1>6. T[n] = {ps \in Seq(Seq(Kinds)) : IsCut(ps, h[n])}
  BY <1>1
<1> HIDE DEF T
<1>7. PICK f : Walks(f, n, T, a, g)
  BY <1>1, <1>4, <1>5, WalkExists
<1>8. /\ f[0] = a /\ f = [i \in 0..n |-> f[i]] /\ \A i \in 0..n : f[i] \in T[i]
      /\ \A i \in 1..n : f[i] = g[<<f[i - 1], i>>] /\ f[i - 1] \in T[i - 1]
  BY <1>1, <1>7, WalkSteps
<1>9. f = [i \in 0..n |->
             IF i = 0 THEN <<line.name>> ELSE f[i - 1] \o ofParameter(line.parameters[i])]
  <2>1. ASSUME NEW i \in 0..n
        PROVE  f[i] = IF i = 0 THEN <<line.name>> ELSE f[i - 1] \o ofParameter(line.parameters[i])
    <3>1. CASE i = 0
      BY <1>8, <3>1 DEF a
    <3>2. CASE i # 0
      <4>1. i \in 1..n
        BY <1>1, <3>2
      <4>2. f[i] = f[i - 1] \o ofParameter(line.parameters[i])
        BY <1>5, <1>8, <4>1
      <4>3. QED
        BY <3>2, <4>2
    <3>3. QED
      BY <3>1, <3>2
  <2>2. QED
    BY <1>8, <2>1
<1>10. upTo = [i \in 0..n |->
             IF i = 0 THEN <<line.name>> ELSE upTo[i - 1] \o ofParameter(line.parameters[i])]
  BY <1>9
<1> HIDE DEF upTo
<1>11. \A i \in 0..n : upTo[i] =
         IF i = 0 THEN <<line.name>> ELSE upTo[i - 1] \o ofParameter(line.parameters[i])
  BY <1>10
<1>12. upTo[n] \in T[n]
  <2> DEFINE Typed == {i \in 0..n : upTo[i] \in T[i]}
  <2>1. 0 \in Typed
    BY <1>1, <1>4, <1>11 DEF a
  <2>2. ASSUME NEW i \in 1..n, i - 1 \in Typed PROVE i \in Typed
    <3>1. i \in 0..n /\ i # 0 /\ upTo[i - 1] \in T[i - 1]
      BY <1>1, <2>2
    <3>2. upTo[i] = upTo[i - 1] \o ofParameter(line.parameters[i])
      BY <1>11, <3>1
    <3>3. QED
      BY <1>5, <3>1, <3>2
  <2> HIDE DEF Typed
  <2>3. \A i \in 0..n : i \in Typed
    BY <1>1, <2>1, <2>2, UpToInduction
  <2>4. QED
    BY <1>1, <2>3 DEF Typed
<1> DEFINE P == Seq(Kinds)
           header == upTo[n]
           colon == <<":">>
           separator == IF line.hasSeparator THEN <<colon>> ELSE << >>
           between == IF line.hasSeparator THEN colon ELSE << >>
           value == line.value
<1>13. header \in Seq(P) /\ IsCut(header, h[n]) /\ value \in P
  BY <1>6, <1>12
<1>14. colon \in P
  <2>1. ":" \in Kinds
    BY DEF Kinds, Octets
  <2>2. QED
    BY <2>1
<1>15. /\ PiecesOf(line) = header \o separator \o <<value>>
       /\ h[Len(line.parameters)] \o (IF line.hasSeparator THEN <<":">> ELSE << >>) \o line.value
            = h[n] \o between \o value
  BY <1>0 DEF n
<1> HIDE DEF header, colon, P, value
<1>16. header \o separator \in Seq(P) /\ IsCut(header \o separator, h[n] \o between)
  <2>1. CASE line.hasSeparator
    <3>1. header \o separator = Append(header, colon) /\ Append(header, colon) \in Seq(P)
      BY <1>13, <1>14, <2>1
    <3>2. IsCut(Append(header, colon), h[n] \o colon)
      BY <1>13, <1>14, CutMore DEF P
    <3>3. QED
      BY <2>1, <3>1, <3>2
  <2>2. CASE ~line.hasSeparator
    <3>1. h[n] \in P
      BY <1>13 DEF IsCut, P
    <3>2. header \o << >> = header /\ h[n] \o << >> = h[n]
      BY <1>13, <3>1, ConcatEmptySeq
    <3>3. QED
      BY <1>13, <2>2, <3>2
  <2>3. QED
    BY <2>1, <2>2
<1> HIDE DEF separator, between
<1> DEFINE most == header \o separator
           text == h[n] \o between
<1>17. most \in Seq(P) /\ IsCut(most, text)
  BY <1>16
<1> HIDE DEF most, text
<1>18. most \o <<value>> = Append(most, value) /\ Append(most, value) # << >>
  BY <1>13, <1>17
<1>19. IsCut(Append(most, value), text \o value)
  BY <1>13, <1>17, CutMore DEF P
<1>20. QED
  BY <1>15, <1>18, <1>19 DEF most, text

(* A line that was read, and not changed since, is written as its text with*)
(* its folds woven in, then its terminator (write_property).               *)
LEMMA WriteLineWoven ==
  ASSUME NEW text, NEW line, IsCut(PiecesOf(line), text), PiecesOf(line) # << >>,
         line.refolded = FALSE,
         line.folds \in Seq(Fold), Within(line.folds, Len(text))
  PROVE  WriteLine(line)
           = WovenTo(text, line.folds, Len(line.folds), Len(text)) \o NewlineOctets(line.ending)
<1> DEFINE pieces == PiecesOf(line)
           folds == line.folds
           n == Len(pieces)
           a == Opened(line)
           pushed[i \in 0..n] ==
             IF i = 0 THEN Opened(line)
             ELSE IF line.refolded THEN PushRefolded(pushed[i - 1], pieces[i])
             ELSE PushRecorded(pushed[i - 1], pieces[i])
<1>0. WriteLine(line) = pushed[n].out \o NewlineOctets(line.ending)
  BY DEF WriteLine
<1>1. pieces \in Seq(Seq(Kinds)) /\ text \in Seq(Kinds) /\ n \in Nat /\ Len(text) \in Nat
  <2>1. pieces \in Seq(Seq(Kinds)) /\ text \in Seq(Kinds)
    BY DEF IsCut
  <2>2. QED
    BY <2>1, LenProperties
<1>2. PICK e \in [0..n -> 0..Len(text)] : CutAt(pieces, text, e)
  BY DEF IsCut
<1> DEFINE g == [x \in Writer \X (1..n) |-> PushRecorded(x[1], pieces[x[2]])]
           T == [i \in 0..n |-> {w \in Writer : \E d :
                      /\ IsAt(w, text, folds, d, e[i])
                      /\ i # 0 /\ d < Len(folds) => e[i] < folds[d + 1].offset}]
<1>3. a \in T[0]
  <2>1. IsAt(a, text, folds, 0, 0)
    BY <1>1, OpenedIsAt
  <2>2. e[0] = 0 /\ a \in Writer /\ 0 \in 0..n
    BY <1>1, <1>2, <2>1 DEF CutAt, IsAt
  <2> HIDE DEF a, n, folds, pieces
  <2>3. QED
    BY <2>1, <2>2
<1> HIDE DEF n, folds, pieces, a
<1>4. ASSUME NEW i \in 1..n, NEW w \in T[i - 1] PROVE PushRecorded(w, pieces[i]) \in T[i]
  <2>1. i \in 0..n /\ i - 1 \in 0..n /\ i \in 1..Len(pieces)
    BY <1>1 DEF n
  <2>2. e[i - 1] <= e[i] /\ pieces[i] = SubSeq(text, e[i - 1] + 1, e[i])
    BY <1>2, <2>1 DEF CutAt
  <2>3. e[i] \in 0..Len(text)
    BY <2>1
  <2>4. PICK c : IsAt(w, text, folds, c, e[i - 1])
    BY <2>1
  <2>5. \E d : /\ IsAt(PushRecorded(w, SubSeq(text, e[i - 1] + 1, e[i])), text, folds, d, e[i])
               /\ d < Len(folds) => e[i] < folds[d + 1].offset
    BY <1>1, <2>2, <2>3, <2>4, PushIsAt DEF folds
  <2> DEFINE v == PushRecorded(w, pieces[i])
  <2>6. PICK d : IsAt(v, text, folds, d, e[i]) /\ (d < Len(folds) => e[i] < folds[d + 1].offset)
    BY <2>2, <2>5
  <2> HIDE DEF v
  <2>7. v \in Writer
    BY <2>6 DEF IsAt
  <2>8. v \in T[i]
    BY <2>1, <2>6, <2>7
  <2>9. QED
    BY <2>8 DEF v
<1>5. \A i \in 1..n : \A w \in T[i - 1] : w \in Writer /\ g[<<w, i>>] = PushRecorded(w, pieces[i])
  BY <1>1, SMTT(40)
<1> HIDE DEF g, T
<1>6. \A i \in 1..n : \A w \in T[i - 1] : g[<<w, i>>] \in T[i]
  BY <1>4, <1>5
<1>7. PICK f : Walks(f, n, T, a, g)
  BY <1>1, <1>3, <1>6, WalkExists
<1>8. /\ f[0] = a /\ f = [i \in 0..n |-> f[i]] /\ \A i \in 0..n : f[i] \in T[i]
      /\ \A i \in 1..n : f[i] = g[<<f[i - 1], i>>] /\ f[i - 1] \in T[i - 1]
  BY <1>1, <1>7, WalkSteps
<1>9. f = [i \in 0..n |->
             IF i = 0 THEN Opened(line)
             ELSE IF line.refolded THEN PushRefolded(f[i - 1], pieces[i])
             ELSE PushRecorded(f[i - 1], pieces[i])]
  <2>1. ASSUME NEW i \in 0..n PROVE f[i] = IF i = 0 THEN a ELSE PushRecorded(f[i - 1], pieces[i])
    <3>1. CASE i = 0
      BY <1>8, <3>1
    <3>2. CASE i # 0
      <4>1. i \in 1..n
        BY <1>1, <3>2
      <4>2. f[i] = g[<<f[i - 1], i>>] /\ f[i - 1] \in T[i - 1]
        BY <1>8, <4>1
      <4>3. QED
        BY <1>5, <3>2, <4>1, <4>2
    <3>3. QED
      BY <3>1, <3>2
  <2>2. QED
    BY <1>8, <2>1 DEF a
<1>10. pushed = [i \in 0..n |->
             IF i = 0 THEN Opened(line)
             ELSE IF line.refolded THEN PushRefolded(pushed[i - 1], pieces[i])
             ELSE PushRecorded(pushed[i - 1], pieces[i])]
  BY <1>9
<1> HIDE DEF pushed
<1>11. \A i \in 0..n : pushed[i] = IF i = 0 THEN a ELSE PushRecorded(pushed[i - 1], pieces[i])
  BY <1>10 DEF a
<1>12. pushed[n] \in T[n]
  <2> DEFINE Typed == {i \in 0..n : pushed[i] \in T[i]}
  <2>1. 0 \in Typed
    BY <1>1, <1>3, <1>11
  <2>2. ASSUME NEW i \in 1..n, i - 1 \in Typed PROVE i \in Typed
    <3>1. i \in 0..n /\ i # 0
      BY <1>1
    <3>2. pushed[i] = PushRecorded(pushed[i - 1], pieces[i])
      BY <1>11, <3>1
    <3>3. QED
      BY <1>4, <2>2, <3>1, <3>2
  <2> HIDE DEF Typed
  <2>3. \A i \in 0..n : i \in Typed
    BY <1>1, <2>1, <2>2, UpToInduction
  <2>4. QED
    BY <1>1, <2>3 DEF Typed
<1>13. PICK d : /\ IsAt(pushed[n], text, folds, d, e[n])
                /\ d < Len(folds) => e[n] < folds[d + 1].offset
  <2>1. n # 0
    <3>1. n = 0 => pieces = << >>
      BY <1>1, EmptySeq DEF n
    <3>2. QED
      BY <3>1 DEF pieces
  <2>2. QED
    BY <1>1, <1>12, <2>1 DEF T
<1>14. e[n] = Len(text)
  BY <1>2 DEF CutAt, n
<1>15. d = Len(folds) /\ pushed[n].out = WovenTo(text, folds, d, Len(text))
  <2>1. /\ d \in 0..Len(folds) /\ Len(folds) \in Nat
        /\ pushed[n].out = WovenTo(text, folds, d, Len(text))
    <3>1. Len(folds) \in Nat
      BY LenProperties DEF folds
    <3>2. d \in 0..Len(folds) /\ pushed[n].out = WovenTo(text, folds, d, e[n])
      BY <1>13 DEF IsAt
    <3>3. QED
      BY <1>14, <3>1, <3>2
  <2>2. ~(d < Len(folds))
    <3>1. SUFFICES ASSUME d < Len(folds) PROVE FALSE
      OBVIOUS
    <3>2. d + 1 \in 1..Len(folds)
      BY <2>1, <3>1
    <3>3. folds[d + 1].offset \in 0..Len(text)
      <4>1. folds \in Seq(Fold) /\ Within(folds, Len(text))
        BY DEF folds
      <4>2. folds[d + 1].offset = FoldedAt(folds, d + 1) /\ d + 1 \in 0..Len(folds)
        BY <1>1, <2>1, <3>2, <4>1, FoldedInOrder
      <4>3. QED
        BY <1>1, <4>1, <4>2, FoldedInOrder
    <3>4. QED
      <4>1. e[n] < folds[d + 1].offset
        BY <1>13, <3>1
      <4>2. Len(text) < folds[d + 1].offset
        BY <1>14, <4>1
      <4> DEFINE at == folds[d + 1].offset
      <4> HIDE DEF at
      <4>3. at \in 0..Len(text) /\ Len(text) < at
        BY <3>3, <4>2 DEF at
      <4>4. QED
        BY <1>1, <4>3
  <2>3. QED
    BY <2>1, <2>2
<1>16. QED
  BY <1>0, <1>15 DEF folds

-----------------------------------------------------------------------------
(* Lines are written one behind the other; one that ended without a        *)
(* terminator is owed none as long as it is the last.                      *)
LinesWrite(ls) ==
  /\ Len(ls) \in Nat
  /\ \A i \in 1..Len(ls) : WriteLine(ls[i]) \in Seq(Kinds)
  /\ \A i \in 1..(Len(ls) - 1) : ls[i].ending # "none"

(* What has been written after each of the lines.                          *)
Running(ls, u) ==
  /\ u[0] = << >>
  /\ \A i \in 0..Len(ls) : u[i] \in Seq(Kinds)
  /\ \A i \in 1..Len(ls) : u[i] = u[i - 1] \o WriteLine(ls[i])
  /\ WriteLines(ls) = u[Len(ls)]

(* Writing a list of lines has a value, line by line (write_items).        *)
LEMMA WriteLinesRuns ==
  ASSUME NEW ls, LinesWrite(ls)
  PROVE  \E u : Running(ls, u)
<1> DEFINE n == Len(ls)
           owed(i) == i > 1 /\ ls[i - 1].ending = "none"
           upTo[i \in 0..n] ==
             IF i = 0 THEN << >>
             ELSE upTo[i - 1] \o (IF owed(i) THEN <<"CR", "LF">> ELSE << >>) \o WriteLine(ls[i])
           g == [x \in Seq(Kinds) \X (1..n) |-> x[1] \o WriteLine(ls[x[2]])]
           T == [i \in 0..n |-> Seq(Kinds)]
           a == << >>
<1>0. WriteLines(ls) = upTo[n]
  BY DEF WriteLines
<1>1. /\ n \in Nat /\ a \in Seq(Kinds) /\ a \in T[0]
      /\ \A i \in 1..n : WriteLine(ls[i]) \in Seq(Kinds)
  BY DEF LinesWrite
<1>2. \A i \in 1..n : ~owed(i)
  BY DEF LinesWrite
<1> HIDE DEF n, owed
<1>3. ASSUME NEW i \in 1..n, NEW s \in T[i - 1]
      PROVE  s \in Seq(Kinds) /\ g[<<s, i>>] = s \o WriteLine(ls[i])
  <2>1. i - 1 \in 0..n
    BY <1>1
  <2>2. s \in Seq(Kinds)
    BY <2>1
  <2>3. <<s, i>> \in Seq(Kinds) \X (1..n)
    BY <2>2
  <2>4. QED
    BY <2>2, <2>3
<1>4. ASSUME NEW i \in 1..n, NEW s \in T[i - 1] PROVE g[<<s, i>>] \in T[i]
  <2>1. s \in Seq(Kinds) /\ WriteLine(ls[i]) \in Seq(Kinds) /\ i \in 0..n
    BY <1>1, <1>3
  <2>2. s \o WriteLine(ls[i]) \in Seq(Kinds)
    BY <2>1, ConcatProperties
  <2>3. QED
    BY <1>3, <2>1, <2>2
<1> HIDE DEF g, T, a
<1>5. PICK f : Walks(f, n, T, a, g)
  BY <1>1, <1>4, WalkExists
<1>6. /\ f[0] = a /\ f = [i \in 0..n |-> f[i]] /\ \A i \in 0..n : f[i] \in T[i]
      /\ \A i \in 1..n : f[i] = g[<<f[i - 1], i>>] /\ f[i - 1] \in T[i - 1]
  BY <1>1, <1>5, WalkSteps
<1>7. f = [i \in 0..n |->
             IF i = 0 THEN << >>
             ELSE f[i - 1] \o (IF owed(i) THEN <<"CR", "LF">> ELSE << >>) \o WriteLine(ls[i])]
  <2>1. ASSUME NEW i \in 0..n
        PROVE  f[i] = IF i = 0 THEN << >>
                      ELSE f[i - 1] \o (IF owed(i) THEN <<"CR", "LF">> ELSE << >>)
                             \o WriteLine(ls[i])
    <3>1. CASE i = 0
      BY <1>6, <3>1 DEF a
    <3>2. CASE i # 0
      <4>1. i \in 1..n
        BY <1>1, <3>2
      <4>2. f[i] = f[i - 1] \o WriteLine(ls[i]) /\ f[i - 1] \in Seq(Kinds)
        BY <1>3, <1>6, <4>1
      <4>3. f[i - 1] \o << >> = f[i - 1]
        BY <4>2, ConcatEmptySeq
      <4>4. QED
        BY <1>2, <3>2, <4>1, <4>2, <4>3
    <3>3. QED
      BY <3>1, <3>2
  <2>2. QED
    BY <1>6, <2>1
<1>8. upTo = [i \in 0..n |->
             IF i = 0 THEN << >>
             ELSE upTo[i - 1] \o (IF owed(i) THEN <<"CR", "LF">> ELSE << >>) \o WriteLine(ls[i])]
  BY <1>7
<1> HIDE DEF upTo
<1>9. \A i \in 0..n : upTo[i] =
        IF i = 0 THEN << >>
        ELSE upTo[i - 1] \o (IF owed(i) THEN <<"CR", "LF">> ELSE << >>) \o WriteLine(ls[i])
  BY <1>8
<1>10. upTo[0] = << >>
  BY <1>1, <1>9
<1>11. ASSUME NEW i \in 1..n, upTo[i - 1] \in Seq(Kinds)
       PROVE  upTo[i] = upTo[i - 1] \o WriteLine(ls[i]) /\ upTo[i] \in Seq(Kinds)
  <2>1. i \in 0..n /\ i # 0
    BY <1>1
  <2>2. upTo[i] = upTo[i - 1] \o << >> \o WriteLine(ls[i])
    BY <1>2, <1>9, <2>1
  <2>3. upTo[i - 1] \o << >> = upTo[i - 1]
    BY <1>11, ConcatEmptySeq
  <2>4. upTo[i - 1] \o WriteLine(ls[i]) \in Seq(Kinds)
    BY <1>1, <1>11, ConcatProperties
  <2>5. QED
    BY <2>2, <2>3, <2>4
<1> DEFINE Typed == {i \in 0..n : upTo[i] \in Seq(Kinds)}
<1>12. \A i \in 0..n : upTo[i] \in Seq(Kinds)
  <2>1. 0 \in Typed
    <3>1. << >> \in Seq(Kinds) /\ 0 \in 0..n
      BY <1>1
    <3>2. QED
      BY <1>10, <3>1
  <2>2. ASSUME NEW i \in 1..n, i - 1 \in Typed PROVE i \in Typed
    <3>1. i \in 0..n /\ upTo[i - 1] \in Seq(Kinds)
      BY <1>1, <2>2
    <3>2. QED
      BY <1>11, <3>1
  <2> HIDE DEF Typed
  <2>3. \A i \in 0..n : i \in Typed
    BY <1>1, <2>1, <2>2, UpToInduction
  <2>4. QED
    BY <2>3 DEF Typed
<1>13. ASSUME NEW i \in 1..n PROVE upTo[i] = upTo[i - 1] \o WriteLine(ls[i])
  <2>1. i - 1 \in 0..n
    BY <1>1
  <2>2. QED
    BY <1>11, <1>12, <2>1
<1>14. Running(ls, upTo)
  BY <1>0, <1>10, <1>12, <1>13 DEF Running, n
<1>15. QED
  BY <1>14, Zenon

(* One line more is written behind the others.                             *)
LEMMA WriteLinesMore ==
  ASSUME NEW ls, NEW more, NEW l, LinesWrite(ls), LinesWrite(more), Len(more) = Len(ls) + 1,
         \A i \in 1..Len(ls) : more[i] = ls[i], more[Len(ls) + 1] = l
  PROVE  WriteLines(more) = WriteLines(ls) \o WriteLine(l)
<1> DEFINE n == Len(ls)
<1>1. PICK u : Running(ls, u)
  BY WriteLinesRuns
<1>2. PICK v : Running(more, v)
  BY WriteLinesRuns
<1>3. n \in Nat /\ n + 1 \in 1..Len(more) /\ (n + 1) - 1 = n
  BY DEF LinesWrite
<1> DEFINE Alike == {i \in 0..n : v[i] = u[i]}
<1>4. 0 \in Alike
  BY <1>1, <1>2, <1>3 DEF Running
<1>5. ASSUME NEW i \in 1..n, i - 1 \in Alike PROVE i \in Alike
  <2>1. i \in 0..n /\ i \in 1..Len(more)
    BY <1>3
  <2>2. v[i] = v[i - 1] \o WriteLine(more[i]) /\ u[i] = u[i - 1] \o WriteLine(ls[i])
    BY <1>1, <1>2, <2>1 DEF Running
  <2>3. v[i - 1] = u[i - 1] /\ more[i] = ls[i]
    BY <1>5
  <2>4. QED
    BY <2>1, <2>2, <2>3
<1> HIDE DEF Alike
<1>6. \A i \in 0..n : i \in Alike
  BY <1>3, <1>4, <1>5, UpToInduction
<1>7. v[n] = u[n]
  BY <1>3, <1>6 DEF Alike
<1>8. v[n + 1] = v[(n + 1) - 1] \o WriteLine(more[n + 1])
  BY <1>2, <1>3 DEF Running
<1>9. v[n + 1] = u[n] \o WriteLine(l)
  BY <1>3, <1>7, <1>8
<1>10. WriteLines(more) = v[n + 1] /\ WriteLines(ls) = u[n]
  BY <1>1, <1>2 DEF Running
<1>11. QED
  BY <1>9, <1>10

-----------------------------------------------------------------------------
(* Import normalization.                                                   *)
(*                                                                         *)
(* Each octet of a text has its place in the normalized one: where it is   *)
(* now or, for a terminator that was replaced, where its CRLF begins.      *)
(* Places keep the order, and what a line is made of keeps its place.      *)

(* A terminator to be replaced (normalize_line_endings).                   *)
Paired(t, p) == p > 1 /\ t[p - 1] = "CR" /\ t[p] = "LF"
Lone(t, p) == t[p] \in {"CR", "LF"} /\ ~Paired(t, p) /\ ~(p < Len(t) /\ Paired(t, p + 1))

Normalized == [text : Seq(Kinds), changes : Seq(Nat)]
NormalizeOne(t, before, p) ==
  IF Lone(t, p)
  THEN [text |-> before.text \o <<"CR", "LF">>, changes |-> Append(before.changes, p - 1)]
  ELSE [before EXCEPT !.text = Append(@, t[p])]

(* The octets of a text are octets.                                        *)
LEMMA NormalizeOneTypes ==
  ASSUME NEW t \in Seq(Kinds), NEW p \in 1..Len(t), NEW before \in Normalized
  PROVE  NormalizeOne(t, before, p) \in Normalized
<1>1. t[p] \in Kinds /\ "CR" \in Kinds /\ "LF" \in Kinds /\ p - 1 \in Nat
  <2>1. "CR" \in Kinds /\ "LF" \in Kinds
    BY DEF Kinds, Octets
  <2>2. QED
    BY <2>1, LenProperties
<1>2. before.text \in Seq(Kinds) /\ before.changes \in Seq(Nat)
  BY DEF Normalized
<1>3. <<"CR", "LF">> \in Seq(Kinds)
  BY <1>1
<1>4. /\ before.text \o <<"CR", "LF">> \in Seq(Kinds)
      /\ Append(before.text, t[p]) \in Seq(Kinds) /\ Append(before.changes, p - 1) \in Seq(Nat)
  BY <1>1, <1>2, <1>3, ConcatProperties
<1>5. QED
  BY <1>2, <1>4 DEF Normalized, NormalizeOne

(* Normalize, step by step.                                                *)
Normalizing(t, f) ==
  /\ f[0] = [text |-> << >>, changes |-> << >>]
  /\ \A p \in 0..Len(t) : f[p] \in Normalized
  /\ \A p \in 1..Len(t) : f[p] = NormalizeOne(t, f[p - 1], p)
  /\ Normalize(t) = f[Len(t)]

(* Normalize has a value, and it is reached step by step.                  *)
LEMMA NormalizeSteps ==
  ASSUME NEW t \in Seq(Kinds)
  PROVE  \E f : Normalizing(t, f)
<1> DEFINE n == Len(t)
           a == [text |-> << >>, changes |-> << >>]
           g == [x \in Normalized \X (1..n) |-> NormalizeOne(t, x[1], x[2])]
           T == [p \in 0..n |-> Normalized]
           upTo[p \in 0..Len(t)] ==
             IF p = 0 THEN [text |-> << >>, changes |-> << >>]
             ELSE NormalizeOne(t, upTo[p - 1], p)
<1>1. Normalize(t) = upTo[n]
  BY DEF Normalize, NormalizeOne, Lone, Paired
<1>2. n \in Nat /\ 0 \in 0..n /\ n \in 0..n /\ a \in T[0]
  <2>1. n \in Nat
    BY LenProperties
  <2>2. a \in Normalized
    BY EmptySeq DEF Normalized
  <2>3. QED
    BY <2>1, <2>2
<1>3. ASSUME NEW p \in 1..n, NEW s \in T[p - 1] PROVE g[<<s, p>>] \in T[p]
  <2>1. s \in Normalized /\ p \in 0..n
    BY <1>2
  <2>2. g[<<s, p>>] = NormalizeOne(t, s, p)
    BY <2>1
  <2>3. QED
    BY <2>1, <2>2, NormalizeOneTypes
<1> HIDE DEF g, T, a, n
<1>4. PICK f : Walks(f, n, T, a, g)
  BY <1>2, <1>3, WalkExists
<1>5. /\ f[0] = a /\ f = [p \in 0..n |-> f[p]] /\ \A p \in 0..n : f[p] \in T[p]
      /\ \A p \in 1..n : f[p] = g[<<f[p - 1], p>>] /\ f[p - 1] \in T[p - 1]
  BY <1>2, <1>4, WalkSteps
<1>6. ASSUME NEW p \in 1..n PROVE f[p] = NormalizeOne(t, f[p - 1], p)
  <2>1. f[p - 1] \in Normalized
    BY <1>2, <1>5 DEF T
  <2>2. QED
    BY <1>5, <2>1 DEF g
<1>7. f = [p \in 0..Len(t) |-> IF p = 0 THEN [text |-> << >>, changes |-> << >>]
                          ELSE NormalizeOne(t, f[p - 1], p)]
  <2>1. ASSUME NEW p \in 0..n
        PROVE  f[p] = IF p = 0 THEN [text |-> << >>, changes |-> << >>]
                      ELSE NormalizeOne(t, f[p - 1], p)
    <3>1. CASE p = 0
      BY <1>5, <3>1 DEF a
    <3>2. CASE p # 0
      <4>1. p \in 1..n
        BY <1>2, <3>2
      <4>2. QED
        BY <1>6, <3>2, <4>1
    <3>3. QED
      BY <3>1, <3>2
  <2>2. QED
    BY <1>5, <2>1 DEF n
<1>8. upTo = [p \in 0..Len(t) |-> IF p = 0 THEN [text |-> << >>, changes |-> << >>]
                             ELSE NormalizeOne(t, upTo[p - 1], p)]
  BY <1>7
<1> HIDE DEF upTo
<1>9. /\ upTo[0] = a
      /\ \A p \in 1..n : upTo[p] = NormalizeOne(t, upTo[p - 1], p)
  BY <1>2, <1>8 DEF a, n
<1> DEFINE Typed == {p \in 0..n : upTo[p] \in Normalized}
<1>10. 0 \in Typed
  BY <1>2, <1>9 DEF T
<1>11. ASSUME NEW p \in 1..n, p - 1 \in Typed PROVE p \in Typed
  <2>1. upTo[p] \in Normalized
    BY <1>9, <1>11, NormalizeOneTypes DEF n
  <2>2. QED
    BY <1>2, <2>1
<1> HIDE DEF Typed
<1>12. \A p \in 0..n : p \in Typed
  BY <1>2, <1>10, <1>11, UpToInduction
<1>13. Normalizing(t, upTo)
  BY <1>1, <1>2, <1>9, <1>12 DEF Normalizing, Typed, a, n
<1>14. QED
  BY <1>13, Zenon

(* Up to the q-th octet, every octet has been written behind the ones      *)
(* before it.                                                              *)
WrittenTo(t, u, at, q) ==
  /\ at[0] = 0 /\ at[q] = Len(u) /\ \A p \in 0..q : at[p] \in 0..Len(u)
  /\ \A p \in 1..q :
       IF Lone(t, p)
       THEN at[p] = at[p - 1] + 2 /\ u[at[p - 1] + 1] = "CR" /\ u[at[p]] = "LF"
       ELSE at[p] = at[p - 1] + 1 /\ u[at[p]] = t[p]

WritesOne(t, old, new, q) ==
  /\ \A k \in 1..Len(old) : new[k] = old[k]
  /\ IF Lone(t, q)
     THEN Len(new) = Len(old) + 2 /\ new[Len(old) + 1] = "CR" /\ new[Len(old) + 2] = "LF"
     ELSE Len(new) = Len(old) + 1 /\ new[Len(old) + 1] = t[q]

(* What one more octet adds.                                               *)
LEMMA NormalizeOneWrites ==
  ASSUME NEW t \in Seq(Kinds), NEW p \in 1..Len(t), NEW before \in Normalized
  PROVE  WritesOne(t, before.text, NormalizeOne(t, before, p).text, p)
<1> DEFINE old == before.text
           new == NormalizeOne(t, before, p).text
<1>1. old \in Seq(Kinds) /\ Len(old) \in Nat
  BY LenProperties DEF Normalized
<1>2. "CR" \in Kinds /\ "LF" \in Kinds
  BY DEF Kinds, Octets
<1>3. CASE Lone(t, p)
  <2> DEFINE two == <<"CR", "LF">>
  <2>1. two \in Seq(Kinds) /\ Len(two) = 2 /\ two[1] = "CR" /\ two[2] = "LF"
    BY <1>2
  <2>2. new = old \o two
    BY <1>3 DEF NormalizeOne
  <2> HIDE DEF two, old, new
  <2>3. /\ Len(new) = Len(old) + Len(two)
        /\ \A i \in 1..(Len(old) + Len(two)) :
             new[i] = IF i <= Len(old) THEN old[i] ELSE two[i - Len(old)]
    BY <1>1, <2>1, <2>2, ConcatProperties
  <2>4. /\ \A k \in 1..Len(old) : new[k] = old[k]
        /\ new[Len(old) + 1] = two[1] /\ new[Len(old) + 2] = two[2]
    BY <1>1, <2>1, <2>3
  <2>5. QED
    BY <1>3, <2>1, <2>3, <2>4 DEF WritesOne, old, new
<1>4. CASE ~Lone(t, p)
  <2>1. new = Append(old, t[p])
    BY <1>4 DEF NormalizeOne, Normalized
  <2>2. t[p] \in Kinds
    BY LenProperties
  <2> HIDE DEF WritesOne, old, new
  <2>3. /\ Len(new) = Len(old) + 1 /\ new[Len(old) + 1] = t[p]
        /\ \A k \in 1..Len(old) : new[k] = old[k]
    BY <1>1, <2>1, <2>2
  <2>4. QED
    BY <1>4, <2>3 DEF WritesOne, old, new
<1>5. QED
  BY <1>3, <1>4

(* One more octet is written behind the others.                            *)
LEMMA WrittenOneMore ==
  ASSUME NEW t, NEW q \in Nat \ {0}, NEW old \in Seq(Kinds), NEW new \in Seq(Kinds),
         WritesOne(t, old, new, q),
         NEW at, WrittenTo(t, old, at, q - 1), at[q] = Len(new)
  PROVE  WrittenTo(t, new, at, q)
<1>1. Len(old) \in Nat /\ Len(new) \in Nat /\ Len(old) <= Len(new)
  <2>1. Len(old) \in Nat /\ Len(new) \in Nat
    BY LenProperties
  <2>2. QED
    BY <2>1 DEF WritesOne
<1>2. /\ at[0] = 0 /\ at[q - 1] = Len(old)
      /\ \A p \in 0..(q - 1) : at[p] \in 0..Len(old)
  BY DEF WrittenTo
<1>3. ASSUME NEW p \in 0..q PROVE at[p] \in 0..Len(new)
  <2>1. p = q \/ p \in 0..(q - 1)
    OBVIOUS
  <2>2. QED
    BY <1>1, <1>2, <2>1
<1>4. ASSUME NEW p \in 1..(q - 1)
      PROVE  IF Lone(t, p)
             THEN at[p] = at[p - 1] + 2 /\ new[at[p - 1] + 1] = "CR" /\ new[at[p]] = "LF"
             ELSE at[p] = at[p - 1] + 1 /\ new[at[p]] = t[p]
  <2>1. /\ p - 1 \in 0..(q - 1) /\ p \in 0..(q - 1)
        /\ at[p - 1] \in Nat /\ at[p] \in Nat /\ at[p] <= Len(old)
    BY <1>1, <1>2
  <2>2. IF Lone(t, p)
        THEN at[p] = at[p - 1] + 2 /\ old[at[p - 1] + 1] = "CR" /\ old[at[p]] = "LF"
        ELSE at[p] = at[p - 1] + 1 /\ old[at[p]] = t[p]
    BY DEF WrittenTo
  <2>3. \A k \in 1..Len(old) : new[k] = old[k]
    BY DEF WritesOne
  <2>4. CASE Lone(t, p)
    <3>1. at[p - 1] + 1 \in 1..Len(old) /\ at[p] \in 1..Len(old)
      BY <1>1, <2>1, <2>2, <2>4
    <3>2. QED
      BY <2>2, <2>3, <2>4, <3>1
  <2>5. CASE ~Lone(t, p)
    <3>1. at[p] \in 1..Len(old)
      BY <1>1, <2>1, <2>2, <2>5
    <3>2. QED
      BY <2>2, <2>3, <2>5, <3>1
  <2>6. QED
    BY <2>4, <2>5
<1>5. IF Lone(t, q)
      THEN at[q] = at[q - 1] + 2 /\ new[at[q - 1] + 1] = "CR" /\ new[at[q]] = "LF"
      ELSE at[q] = at[q - 1] + 1 /\ new[at[q]] = t[q]
  BY <1>2 DEF WritesOne
<1>6. \A p \in 1..q :
        IF Lone(t, p)
        THEN at[p] = at[p - 1] + 2 /\ new[at[p - 1] + 1] = "CR" /\ new[at[p]] = "LF"
        ELSE at[p] = at[p - 1] + 1 /\ new[at[p]] = t[p]
  <2>1. \A p \in 1..q : p = q \/ p \in 1..(q - 1)
    OBVIOUS
  <2>2. QED
    BY <1>4, <1>5, <2>1, Zenon
<1>7. QED
  BY <1>2, <1>3, <1>6 DEF WrittenTo

(* So normalizing writes the whole text.                                   *)
LEMMA NormalizedWritten ==
  ASSUME NEW t \in Seq(Kinds), NEW f, Normalizing(t, f)
  PROVE  LET at == [p \in 0..Len(t) |-> Len(f[p].text)]
         IN  /\ at \in [0..Len(t) -> Nat] /\ Normalize(t).text \in Seq(Kinds)
             /\ WrittenTo(t, Normalize(t).text, at, Len(t))
<1> DEFINE n == Len(t)
           at == [p \in 0..n |-> Len(f[p].text)]
           Done == {q \in 0..n : WrittenTo(t, f[q].text, at, q)}
<1>1. /\ n \in Nat /\ 0 \in 0..n /\ n \in 0..n
      /\ \A p \in 0..n : f[p] \in Normalized /\ f[p].text \in Seq(Kinds)
      /\ \A p \in 0..n : at[p] = Len(f[p].text) /\ at[p] \in Nat
      /\ \A p \in 1..n : f[p] = NormalizeOne(t, f[p - 1], p)
      /\ f[0].text = << >> /\ Normalize(t) = f[n]
  <2>1. n \in Nat
    BY LenProperties
  <2>2. \A p \in 0..n : f[p] \in Normalized /\ at[p] = Len(f[p].text)
    BY DEF Normalizing
  <2>3. \A p \in 0..n : f[p].text \in Seq(Kinds)
    BY <2>2 DEF Normalized
  <2>4. \A p \in 0..n : Len(f[p].text) \in Nat
    BY <2>3, LenProperties
  <2>5. QED
    BY <2>1, <2>2, <2>3, <2>4 DEF Normalizing
<1>2. at \in [0..n -> Nat]
  BY <1>1
<1> HIDE DEF at
<1>3. 0 \in Done
  <2>1. at[0] = 0 /\ Len(f[0].text) = 0
    BY <1>1
  <2>2. QED
    BY <1>1, <2>1 DEF WrittenTo
<1>4. ASSUME NEW q \in 1..n, q - 1 \in Done PROVE q \in Done
  <2> DEFINE old == f[q - 1].text
             new == f[q].text
  <2>1. /\ q - 1 \in 0..n /\ q \in 0..n /\ q \in Nat \ {0}
        /\ WrittenTo(t, old, at, q - 1)
    BY <1>1, <1>4
  <2>2. /\ f[q - 1] \in Normalized /\ old \in Seq(Kinds) /\ new \in Seq(Kinds)
        /\ at[q] = Len(new) /\ f[q] = NormalizeOne(t, f[q - 1], q)
    BY <1>1, <2>1
  <2>3. WritesOne(t, old, new, q)
    <3>1. WritesOne(t, old, NormalizeOne(t, f[q - 1], q).text, q)
      BY <2>2, NormalizeOneWrites
    <3>2. QED
      BY <2>2, <3>1
  <2> HIDE DEF old, new, n
  <2>4. WrittenTo(t, new, at, q)
    BY <2>1, <2>2, <2>3, WrittenOneMore
  <2>5. QED
    BY <2>1, <2>4 DEF new
<1> HIDE DEF Done
<1>5. n \in Done
  BY <1>1, <1>3, <1>4, UpToInduction
<1>6. QED
  BY <1>1, <1>2, <1>5 DEF Done, at

(* Where each octet of a text is found in the normalized text.             *)
Places(t, u, place) ==
  /\ place \in [1..(Len(t) + 1) -> 1..(Len(u) + 1)]
  /\ place[1] = 1 /\ place[Len(t) + 1] = Len(u) + 1
  /\ \A p, q \in 1..(Len(t) + 1) : p < q => place[p] < place[q]
  /\ \A p \in 1..Len(t) :
       IF Lone(t, p)
       THEN place[p + 1] = place[p] + 2 /\ u[place[p]] = "CR" /\ u[place[p] + 1] = "LF"
       ELSE place[p + 1] = place[p] + 1 /\ u[place[p]] = t[p]
  /\ \A k \in 1..Len(u) : \E p \in 1..Len(t) : place[p] <= k /\ k < place[p + 1]

(* What is written like that has its places.                               *)
LEMMA WrittenInPlaces ==
  ASSUME NEW t \in Seq(Kinds), NEW u \in Seq(Kinds), NEW at \in [0..Len(t) -> Nat],
         WrittenTo(t, u, at, Len(t))
  PROVE  Places(t, u, [p \in 1..(Len(t) + 1) |-> at[p - 1] + 1])
<1> DEFINE n == Len(t)
           place == [p \in 1..(n + 1) |-> at[p - 1] + 1]
<1>1. /\ n \in Nat /\ Len(u) \in Nat /\ 0 \in 0..n /\ n \in 0..n
      /\ \A p \in 1..n : p - 1 \in 0..n /\ p \in 0..n
  BY LenProperties
<1> HIDE DEF n
<1>2. /\ at[0] = 0 /\ at[n] = Len(u) /\ \A p \in 0..n : at[p] \in 0..Len(u)
      /\ \A p \in 1..n :
           IF Lone(t, p)
           THEN at[p] = at[p - 1] + 2 /\ u[at[p - 1] + 1] = "CR" /\ u[at[p]] = "LF"
           ELSE at[p] = at[p - 1] + 1 /\ u[at[p]] = t[p]
  BY DEF WrittenTo, n
<1>3. ASSUME NEW p \in 1..n
      PROVE  at[p - 1] \in Nat /\ at[p] \in Nat /\ at[p - 1] < at[p] /\ at[p] <= at[p - 1] + 2
  <2>1. at[p - 1] \in Nat /\ at[p] \in Nat
    BY <1>1, <1>2
  <2>2. at[p] = at[p - 1] + 1 \/ at[p] = at[p - 1] + 2
    BY <1>2
  <2>3. QED
    BY <2>1, <2>2
<1> DEFINE Ahead == {q \in 0..n : \A p \in 0..n : p < q => at[p] < at[q]}
<1>4. ASSUME NEW q \in 1..n, q - 1 \in Ahead PROVE q \in Ahead
  <2>1. ASSUME NEW p \in 0..n, p < q PROVE at[p] < at[q]
    <3>1. p = q - 1 \/ p < q - 1
      BY <1>1, <2>1
    <3>2. at[p] \in Nat /\ at[q - 1] \in Nat /\ at[q] \in Nat /\ at[q - 1] < at[q]
      BY <1>2, <1>3
    <3>3. CASE p = q - 1
      BY <3>2, <3>3
    <3>4. CASE p < q - 1
      <4>1. at[p] < at[q - 1]
        BY <1>4, <3>4
      <4>2. QED
        BY <3>2, <4>1
    <3>5. QED
      BY <3>1, <3>3, <3>4
  <2>2. QED
    BY <1>1, <2>1
<1>5. 0 \in Ahead
  BY <1>1
<1> HIDE DEF Ahead
<1>6. \A q \in 0..n : q \in Ahead
  BY <1>1, <1>4, <1>5, UpToInduction
<1> DEFINE Covered == {q \in 0..n : \A k \in 1..at[q] :
                         \E p \in 1..n : at[p - 1] + 1 <= k /\ k <= at[p]}
<1>7. ASSUME NEW q \in 1..n, q - 1 \in Covered PROVE q \in Covered
  <2>1. ASSUME NEW k \in 1..at[q] PROVE \E p \in 1..n : at[p - 1] + 1 <= k /\ k <= at[p]
    <3>1. k \in 1..at[q - 1] \/ at[q - 1] + 1 <= k
      BY <1>3, <2>1
    <3>2. CASE k \in 1..at[q - 1]
      BY <1>7, <3>2
    <3>3. CASE at[q - 1] + 1 <= k
      BY <2>1, <3>3
    <3>4. QED
      BY <3>1, <3>2, <3>3
  <2>2. QED
    BY <1>1, <2>1
<1>8. 0 \in Covered
  BY <1>1, <1>2
<1> HIDE DEF Covered
<1>9. \A q \in 0..n : q \in Covered
  BY <1>1, <1>7, <1>8, UpToInduction
<1>10. /\ \A p \in 1..(n + 1) : p - 1 \in 0..n /\ place[p] = at[p - 1] + 1
       /\ \A p \in 1..n : p \in 1..(n + 1) /\ p + 1 \in 1..(n + 1) /\ place[p + 1] = at[p] + 1
       /\ n + 1 \in 1..(n + 1) /\ place[n + 1] = Len(u) + 1 /\ place[1] = 1
  BY <1>1, <1>2
<1>11. place \in [1..(n + 1) -> 1..(Len(u) + 1)]
  BY <1>1, <1>2
<1> HIDE DEF place
<1>12. ASSUME NEW p \in 1..(n + 1), NEW q \in 1..(n + 1), p < q PROVE place[p] < place[q]
  <2>1. p - 1 \in 0..n /\ q - 1 \in 0..n /\ p - 1 < q - 1
    BY <1>1, <1>12
  <2>2. at[p - 1] < at[q - 1] /\ at[p - 1] \in Nat /\ at[q - 1] \in Nat
    <3>1. q - 1 \in Ahead
      BY <1>6, <2>1
    <3>2. at[p - 1] < at[q - 1]
      BY <2>1, <3>1 DEF Ahead
    <3>3. QED
      BY <1>2, <2>1, <3>2
  <2>3. place[p] = at[p - 1] + 1 /\ place[q] = at[q - 1] + 1
    BY <1>10
  <2> HIDE DEF Ahead, Covered
  <2>4. QED
    BY <2>2, <2>3
<1>13. ASSUME NEW p \in 1..n
       PROVE  IF Lone(t, p)
              THEN place[p + 1] = place[p] + 2 /\ u[place[p]] = "CR" /\ u[place[p] + 1] = "LF"
              ELSE place[p + 1] = place[p] + 1 /\ u[place[p]] = t[p]
  <2>1. /\ place[p] = at[p - 1] + 1 /\ place[p + 1] = at[p] + 1
        /\ at[p - 1] \in Nat /\ at[p] \in Nat
    BY <1>3, <1>10
  <2>2. CASE Lone(t, p)
    <3>1. at[p] = at[p - 1] + 2 /\ u[at[p - 1] + 1] = "CR" /\ u[at[p]] = "LF"
      BY <1>2, <2>2
    <3>2. place[p] + 1 = at[p]
      BY <2>1, <3>1
    <3>3. QED
      BY <2>1, <2>2, <3>1, <3>2
  <2>3. CASE ~Lone(t, p)
    <3>1. at[p] = at[p - 1] + 1 /\ u[at[p]] = t[p]
      BY <1>2, <2>3
    <3>2. QED
      BY <2>1, <2>3, <3>1
  <2>4. QED
    BY <2>2, <2>3
<1>14. ASSUME NEW k \in 1..Len(u) PROVE \E p \in 1..n : place[p] <= k /\ k < place[p + 1]
  <2>1. PICK p \in 1..n : at[p - 1] + 1 <= k /\ k <= at[p]
    <3>1. n \in Covered /\ k \in 1..at[n]
      BY <1>1, <1>2, <1>9
    <3>2. QED
      BY <3>1 DEF Covered
  <2>2. place[p] <= k /\ k < place[p + 1]
    <3>1. place[p] = at[p - 1] + 1 /\ place[p + 1] = at[p] + 1
      BY <1>1, <1>10
    <3>2. at[p - 1] \in Nat /\ at[p] \in Nat
      BY <1>3
    <3>3. QED
      BY <2>1, <3>1, <3>2
  <2>3. QED
    BY <2>2
<1>15. QED
  BY <1>10, <1>11, <1>12, <1>13, <1>14 DEF Places, n, place

(* The normalized text has the octets of the text in their places.         *)
LEMMA NormalizedPlaces ==
  ASSUME NEW t \in Seq(Kinds)
  PROVE  /\ Normalize(t).text \in Seq(Kinds)
         /\ \E place : Places(t, Normalize(t).text, place)
<1>1. PICK f : Normalizing(t, f)
  BY NormalizeSteps
<1> DEFINE at == [p \in 0..Len(t) |-> Len(f[p].text)]
<1>2. /\ at \in [0..Len(t) -> Nat] /\ Normalize(t).text \in Seq(Kinds)
      /\ WrittenTo(t, Normalize(t).text, at, Len(t))
  BY <1>1, NormalizedWritten
<1> HIDE DEF at
<1>3. Places(t, Normalize(t).text, [p \in 1..(Len(t) + 1) |-> at[p - 1] + 1])
  BY <1>2, WrittenInPlaces
<1>4. QED
  BY <1>2, <1>3, Zenon

(* Each change names one terminator that was replaced.                     *)
LEMMA ChangesNameTerminators ==
  ASSUME NEW t \in Seq(Kinds)
  PROVE  LET changes == Normalize(t).changes
         IN  {changes[i] : i \in DOMAIN changes} = {p - 1 : p \in {q \in 1..Len(t) : Lone(t, q)}}
<1>1. PICK f : Normalizing(t, f)
  BY NormalizeSteps
<1> DEFINE n == Len(t)
           Named(c) == {c[i] : i \in DOMAIN c}
           Upto(q) == {p - 1 : p \in {r \in 1..q : Lone(t, r)}}
           Done == {q \in 0..n : Named(f[q].changes) = Upto(q)}
<1>2. /\ n \in Nat /\ 0 \in 0..n /\ n \in 0..n
      /\ \A p \in 0..n : f[p] \in Normalized /\ f[p].changes \in Seq(Nat)
      /\ \A p \in 1..n : p - 1 \in 0..n /\ p \in 0..n /\ f[p] = NormalizeOne(t, f[p - 1], p)
      /\ f[0].changes = << >> /\ Normalize(t) = f[n]
  <2>1. n \in Nat
    BY LenProperties
  <2>2. \A p \in 0..n : f[p] \in Normalized
    BY <1>1 DEF Normalizing
  <2>3. \A p \in 0..n : f[p].changes \in Seq(Nat)
    BY <2>2 DEF Normalized
  <2>4. \A p \in 1..n : f[p] = NormalizeOne(t, f[p - 1], p)
    BY ONLY <1>1, Zenon DEF Normalizing
  <2>5. f[0].changes = << >> /\ Normalize(t) = f[n]
    <3>1. f[0] = [text |-> << >>, changes |-> << >>] /\ Normalize(t) = f[n]
      BY ONLY <1>1, Zenon DEF Normalizing
    <3>2. QED
      BY ONLY <3>1
  <2>6. \A p \in 1..n : p - 1 \in 0..n /\ p \in 0..n
    BY ONLY <2>1
  <2>7. 0 \in 0..n /\ n \in 0..n
    BY ONLY <2>1
  <2>8. QED
    BY ONLY <2>1, <2>2, <2>3, <2>4, <2>5, <2>6, <2>7, Zenon
<1>3. 0 \in Done
  <2>1. Named(f[0].changes) = {} /\ Upto(0) = {}
    BY <1>2
  <2>2. QED
    BY <1>2, <2>1
<1>4. ASSUME NEW q \in 1..n, q - 1 \in Done PROVE q \in Done
  <2> DEFINE old == f[q - 1].changes
             new == f[q].changes
  <2>1. /\ q - 1 \in 0..n /\ q \in 0..n /\ old \in Seq(Nat) /\ f[q - 1] \in Normalized
        /\ f[q] = NormalizeOne(t, f[q - 1], q) /\ Named(old) = Upto(q - 1)
    BY <1>2, <1>4
  <2>2. 1..q = 1..(q - 1) \cup {q}
    BY <1>2
  <2>3. CASE Lone(t, q)
    <3>1. new = Append(old, q - 1)
      BY <2>1, <2>3 DEF NormalizeOne
    <3> HIDE DEF new, old
    <3>2. Named(new) = Named(old) \cup {q - 1}
      <4>1. /\ Len(new) = Len(old) + 1 /\ new[Len(old) + 1] = q - 1 /\ Len(old) \in Nat
            /\ DOMAIN new = 1..(Len(old) + 1) /\ DOMAIN old = 1..Len(old)
            /\ \A i \in 1..Len(old) : new[i] = old[i]
        BY <2>1, <3>1, LenProperties
      <4>2. 1..(Len(old) + 1) = 1..Len(old) \cup {Len(old) + 1}
        BY <4>1
      <4>3. QED
        BY <4>1, <4>2
    <3>3. Upto(q) = Upto(q - 1) \cup {q - 1}
      BY <2>2, <2>3
    <3>4. QED
      BY <2>1, <3>2, <3>3 DEF new
  <2>4. CASE ~Lone(t, q)
    <3>1. new = old
      BY <2>1, <2>4 DEF NormalizeOne, Normalized
    <3>2. Upto(q) = Upto(q - 1)
      BY <2>2, <2>4
    <3>3. QED
      BY <2>1, <3>1, <3>2
  <2>5. QED
    BY <2>3, <2>4
<1> HIDE DEF Done
<1>5. n \in Done
  BY <1>2, <1>3, <1>4, UpToInduction
<1>6. QED
  BY <1>2, <1>5 DEF Done

(* A text without such a terminator is normal.                             *)
LEMMA NormalIsKept ==
  ASSUME NEW t \in Seq(Kinds), \A p \in 1..Len(t) : ~Lone(t, p)
  PROVE  Normalize(t) = [text |-> t, changes |-> << >>]
<1>1. PICK f : Normalizing(t, f)
  BY NormalizeSteps
<1> DEFINE n == Len(t)
           Done == {q \in 0..n : f[q] = [text |-> SubSeq(t, 1, q), changes |-> << >>]}
<1>2. n \in Nat /\ 0 \in 0..n /\ n \in 0..n
  BY LenProperties
<1>3. 0 \in Done
  <2>1. SubSeq(t, 1, 0) = << >>
    BY SubSeqEmpty
  <2>2. QED
    BY <1>1, <1>2, <2>1 DEF Normalizing
<1>4. ASSUME NEW q \in 1..n, q - 1 \in Done PROVE q \in Done
  <2>1. f[q] = NormalizeOne(t, f[q - 1], q) /\ f[q - 1] = [text |-> SubSeq(t, 1, q - 1), changes |-> << >>]
    BY <1>1, <1>4 DEF Normalizing
  <2>2. f[q] = [text |-> Append(SubSeq(t, 1, q - 1), t[q]), changes |-> << >>]
    <3> DEFINE x == SubSeq(t, 1, q - 1)
               r == [text |-> x, changes |-> << >>]
    <3>1. ~Lone(t, q)
      BY <1>2
    <3>2. NormalizeOne(t, r, q) = [r EXCEPT !.text = Append(r.text, t[q])]
      BY <3>1 DEF NormalizeOne
    <3> HIDE DEF x
    <3>3. [r EXCEPT !.text = Append(r.text, t[q])] = [text |-> Append(x, t[q]), changes |-> << >>]
      <4>1. r.text = x
        OBVIOUS
      <4>2. \A y : [[text |-> x, changes |-> << >>] EXCEPT !.text = y]
                    = [text |-> y, changes |-> << >>]
        OBVIOUS
      <4>3. QED
        BY <4>1, <4>2, Zenon
    <3>4. QED
      BY <2>1, <3>2, <3>3 DEF x
  <2>3. Append(SubSeq(t, 1, q - 1), t[q]) = SubSeq(t, 1, q)
    <3>1. /\ 1 \in 1..Len(t) /\ q \in 1..Len(t)
      BY <1>2
    <3>2. SubSeq(t, 1, q) = SubSeq(t, 1, q - 1) \o <<t[q]>>
      BY <3>1, SubSeqRecursiveSecond
    <3>3. SubSeq(t, 1, q - 1) \in Seq(Kinds) /\ t[q] \in Kinds
      <4>1. \A i \in 1..(q - 1) : t[i] \in Kinds
        BY <1>2, LenProperties
      <4>2. QED
        BY <1>2, <4>1, LenProperties, SubSeqProperties
    <3>4. QED
      BY <3>2, <3>3, ConcatFew
  <2>4. f[q] = [text |-> SubSeq(t, 1, q), changes |-> << >>]
    BY <2>2, <2>3, Zenon
  <2>5. q \in 0..n
    BY <1>2
  <2>6. QED
    BY <2>4, <2>5, Zenon
<1> HIDE DEF Done
<1>5. n \in Done
  BY <1>2, <1>3, <1>4, UpToInduction
<1>6. SubSeq(t, 1, n) = t
  BY SubSeqFull
<1>7. QED
  BY <1>1, <1>5, <1>6 DEF Done, Normalizing

-----------------------------------------------------------------------------
(* What is in its place.                                                   *)

(* An octet of a normalized text is the first of its place, or the second  *)
(* of a CRLF put in place of a lone terminator.                            *)
LEMMA PlaceOf ==
  ASSUME NEW t \in Seq(Kinds), NEW u \in Seq(Kinds), NEW place, Places(t, u, place)
  PROVE  /\ Len(t) \in Nat /\ Len(u) \in Nat
         /\ \A p \in 1..(Len(t) + 1) : place[p] \in 1..(Len(u) + 1)
         /\ \A p, q \in 1..(Len(t) + 1) : /\ p < q <=> place[p] < place[q]
                                          /\ p = q <=> place[p] = place[q]
         /\ \A p \in 1..Len(t) :
              /\ p \in 1..(Len(t) + 1) /\ p + 1 \in 1..(Len(t) + 1)
              /\ place[p] \in 1..Len(u) /\ u[place[p]] = IF Lone(t, p) THEN "CR" ELSE t[p]
         /\ \A k \in 1..Len(u) : \E p \in 1..Len(t) :
              \/ k = place[p]
              \/ /\ Lone(t, p) /\ k = place[p] + 1 /\ u[k] = "LF" /\ u[k - 1] = "CR"
                 /\ place[p] \in 1..Len(u)
<1>1. Len(t) \in Nat /\ Len(u) \in Nat
  BY LenProperties
<1>2. /\ \A p \in 1..(Len(t) + 1) : place[p] \in 1..(Len(u) + 1)
      /\ place[Len(t) + 1] = Len(u) + 1
      /\ \A p, q \in 1..(Len(t) + 1) : p < q => place[p] < place[q]
  BY DEF Places
<1>3. ASSUME NEW p \in 1..(Len(t) + 1), NEW q \in 1..(Len(t) + 1)
      PROVE  (p < q <=> place[p] < place[q]) /\ (p = q <=> place[p] = place[q])
  <2>1. p < q \/ p = q \/ q < p
    BY <1>1
  <2>2. place[p] \in Nat /\ place[q] \in Nat
    BY <1>1, <1>2
  <2>3. (p < q => place[p] < place[q]) /\ (q < p => place[q] < place[p])
    BY <1>2
  <2>4. QED
    BY <2>1, <2>2, <2>3
<1>4. ASSUME NEW p \in 1..Len(t)
      PROVE  /\ p \in 1..(Len(t) + 1) /\ p + 1 \in 1..(Len(t) + 1)
             /\ place[p] \in 1..Len(u) /\ u[place[p]] = IF Lone(t, p) THEN "CR" ELSE t[p]
  <2>1. p \in 1..(Len(t) + 1) /\ p + 1 \in 1..(Len(t) + 1) /\ p < p + 1
    BY <1>1
  <2>2. place[p] < place[p + 1] /\ place[p] \in 1..(Len(u) + 1) /\ place[p + 1] \in 1..(Len(u) + 1)
    BY <1>2, <2>1
  <2>3. u[place[p]] = IF Lone(t, p) THEN "CR" ELSE t[p]
    BY DEF Places
  <2>4. QED
    BY <1>1, <2>1, <2>2, <2>3
<1>5. ASSUME NEW k \in 1..Len(u)
      PROVE  \E p \in 1..Len(t) :
               \/ k = place[p]
               \/ /\ Lone(t, p) /\ k = place[p] + 1 /\ u[k] = "LF" /\ u[k - 1] = "CR"
                  /\ place[p] \in 1..Len(u)
  <2>1. PICK p \in 1..Len(t) : place[p] <= k /\ k < place[p + 1]
    BY DEF Places
  <2>2. place[p] \in 1..Len(u) /\ place[p + 1] \in Nat
    BY <1>1, <1>2, <1>4
  <2>3. IF Lone(t, p)
        THEN place[p + 1] = place[p] + 2 /\ u[place[p]] = "CR" /\ u[place[p] + 1] = "LF"
        ELSE place[p + 1] = place[p] + 1
    BY DEF Places
  <2>4. CASE Lone(t, p)
    <3>1. k = place[p] \/ k = place[p] + 1
      <4>1. place[p + 1] = place[p] + 2
        BY ONLY <2>3, <2>4, Zenon
      <4>2. k \in Nat /\ place[p] \in Nat
        BY <1>1, <2>2
      <4>3. QED
        BY ONLY <2>1, <4>1, <4>2
    <3>2. k = place[p] + 1 => k - 1 = place[p]
      BY <2>2
    <3>3. QED
      BY <2>2, <2>3, <2>4, <3>1, <3>2
  <2>5. CASE ~Lone(t, p)
    <3>1. k = place[p]
      BY <2>1, <2>2, <2>3, <2>5
    <3>2. QED
      BY <3>1
  <2>6. QED
    BY <2>4, <2>5
<1>6. QED
  BY <1>1, <1>2, <1>3, <1>4, <1>5

(* Places keep the order.                                                  *)
LEMMA PlacesKeepOrder ==
  ASSUME NEW t \in Seq(Kinds), NEW u \in Seq(Kinds), NEW place, Places(t, u, place)
  PROVE  \A p, q \in 1..(Len(t) + 1) : p < q <=> place[p] < place[q]
<1>1. \A p, q \in 1..(Len(t) + 1) : /\ p < q <=> place[p] < place[q]
                                    /\ p = q <=> place[p] = place[q]
  BY PlaceOf
<1>2. ASSUME NEW p \in 1..(Len(t) + 1), NEW q \in 1..(Len(t) + 1)
      PROVE  p < q <=> place[p] < place[q]
  BY <1>1
<1>3. QED
  BY <1>2

(* A terminator is replaced, or an octet of a CRLF.                        *)
LEMMA LoneOrPaired ==
  ASSUME NEW t \in Seq(Kinds), NEW p \in 1..Len(t)
  PROVE  /\ Lone(t, p) => t[p] \in {"CR", "LF"} /\ ~(t[p] = "CR" /\ p < Len(t) /\ t[p + 1] = "LF")
                          /\ ~(t[p] = "LF" /\ p > 1 /\ t[p - 1] = "CR")
         /\ t[p] = "CR" /\ ~Lone(t, p) => p < Len(t) /\ t[p + 1] = "LF" /\ ~Lone(t, p + 1)
         /\ t[p] = "LF" /\ ~Lone(t, p) => p > 1 /\ t[p - 1] = "CR" /\ ~Lone(t, p - 1)
<1>1. Len(t) \in Nat /\ p \in Nat /\ p >= 1 /\ p <= Len(t) /\ (p + 1) - 1 = p /\ (p - 1) + 1 = p
  BY LenProperties
<1>2. Lone(t, p) => t[p] \in {"CR", "LF"} /\ ~(t[p] = "CR" /\ p < Len(t) /\ t[p + 1] = "LF")
                    /\ ~(t[p] = "LF" /\ p > 1 /\ t[p - 1] = "CR")
  BY <1>1 DEF Lone, Paired
<1>3. t[p] = "CR" /\ ~Lone(t, p) => p < Len(t) /\ t[p + 1] = "LF" /\ ~Lone(t, p + 1)
  BY <1>1 DEF Lone, Paired
<1>4. t[p] = "LF" /\ ~Lone(t, p) => p > 1 /\ t[p - 1] = "CR" /\ ~Lone(t, p - 1)
  BY <1>1 DEF Lone, Paired
<1>5. QED
  BY <1>2, <1>3, <1>4

(* A CRLF of the text is a CRLF in its place.                              *)
LEMMA PairInPlace ==
  ASSUME NEW t \in Seq(Kinds), NEW u \in Seq(Kinds), NEW place, Places(t, u, place),
         NEW p \in 1..Len(t), p < Len(t), t[p] = "CR", t[p + 1] = "LF"
  PROVE  /\ ~Lone(t, p) /\ ~Lone(t, p + 1) /\ p + 1 \in 1..Len(t) /\ p + 2 \in 1..(Len(t) + 1)
         /\ u[place[p]] = "CR" /\ u[place[p] + 1] = "LF"
         /\ place[p + 1] = place[p] + 1 /\ place[p + 2] = place[p] + 2
<1>1. Len(t) \in Nat /\ p + 1 \in 1..Len(t) /\ p + 2 \in 1..(Len(t) + 1) /\ (p + 1) + 1 = p + 2
  BY LenProperties
<1>2. ~Lone(t, p) /\ ~Lone(t, p + 1)
  BY <1>1, LoneOrPaired
<1>3. /\ place[p + 1] = place[p] + 1 /\ u[place[p]] = "CR"
      /\ place[p + 2] = place[p + 1] + 1 /\ u[place[p + 1]] = "LF"
  BY <1>1, <1>2 DEF Places
<1>4. place[p] \in Nat
  BY PlaceOf
<1>5. QED
  BY <1>1, <1>2, <1>3, <1>4

(* Nothing is left to replace.                                             *)
LEMMA PlacesAreNormal ==
  ASSUME NEW t \in Seq(Kinds), NEW u \in Seq(Kinds), NEW place, Places(t, u, place),
         NEW k \in 1..Len(u)
  PROVE  ~Lone(u, k)
<1>1. Len(t) \in Nat /\ Len(u) \in Nat
  BY LenProperties
<1>2. PICK p \in 1..Len(t) :
        \/ k = place[p]
        \/ /\ Lone(t, p) /\ k = place[p] + 1 /\ u[k] = "LF" /\ u[k - 1] = "CR"
           /\ place[p] \in 1..Len(u)
  BY PlaceOf
<1>3. place[p] \in 1..Len(u) /\ u[place[p]] = IF Lone(t, p) THEN "CR" ELSE t[p]
  BY PlaceOf
<1>4. SUFFICES ASSUME Lone(u, k) PROVE FALSE
  OBVIOUS
<1>5. /\ u[k] \in {"CR", "LF"} /\ ~(u[k] = "CR" /\ k < Len(u) /\ u[k + 1] = "LF")
      /\ ~(u[k] = "LF" /\ k > 1 /\ u[k - 1] = "CR")
  BY <1>4, LoneOrPaired
<1>6. k = place[p]
  BY <1>1, <1>2, <1>5
<1>7. CASE Lone(t, p)
  <2>1. place[p + 1] = place[p] + 2 /\ u[place[p] + 1] = "LF" /\ u[place[p]] = "CR"
    BY <1>7 DEF Places
  <2>2. p + 1 \in 1..(Len(t) + 1)
    BY <1>1
  <2>3. place[p + 1] \in 1..(Len(u) + 1)
    BY <2>2 DEF Places
  <2>4. QED
    BY <1>1, <1>3, <1>5, <1>6, <2>1, <2>3
<1>8. CASE ~Lone(t, p) /\ t[p] = "CR"
  <2>1. p < Len(t) /\ t[p + 1] = "LF"
    BY <1>8, LoneOrPaired
  <2>2. u[place[p]] = "CR" /\ u[place[p] + 1] = "LF" /\ place[p + 2] = place[p] + 2 /\ p + 2 \in 1..(Len(t) + 1)
    BY <1>8, <2>1, PairInPlace
  <2>3. place[p + 2] <= Len(u) + 1
    BY <1>1, <2>2, PlaceOf
  <2>4. QED
    BY <1>1, <1>5, <1>6, <2>2, <2>3
<1>9. CASE ~Lone(t, p) /\ t[p] = "LF"
  <2>1. p > 1 /\ t[p - 1] = "CR"
    BY <1>9, LoneOrPaired
  <2> DEFINE q == p - 1
  <2>2. q \in 1..Len(t) /\ q < Len(t) /\ q + 1 = p
    BY <1>1, <2>1
  <2>3. t[q] = "CR" /\ t[q + 1] = "LF"
    BY <1>9, <2>1, <2>2
  <2> HIDE DEF q
  <2>4. u[place[q]] = "CR" /\ place[q + 1] = place[q] + 1 /\ u[place[q] + 1] = "LF"
    BY <2>2, <2>3, PairInPlace
  <2>5. place[q] \in 1..Len(u)
    BY <2>2, PlaceOf
  <2>6. k = place[q] + 1 /\ k - 1 = place[q] /\ k > 1
    BY <1>6, <2>2, <2>4, <2>5
  <2>7. QED
    BY <1>5, <2>4, <2>6
<1>10. CASE ~Lone(t, p) /\ t[p] \notin {"CR", "LF"}
  BY <1>3, <1>5, <1>6, <1>10
<1>11. QED
  BY <1>7, <1>8, <1>9, <1>10

(* The terminators are where they were, and each is followed by what       *)
(* followed it.                                                            *)
LEMMA TerminatorsInPlace ==
  ASSUME NEW t \in Seq(Kinds), NEW u \in Seq(Kinds), NEW place, Places(t, u, place)
  PROVE  /\ Terminators(t) \subseteq 1..Len(t) /\ Terminators(u) = {place[p] : p \in Terminators(t)}
         /\ \A p \in Terminators(t) : /\ After(t, p) \in 1..(Len(t) + 1)
                                      /\ After(u, place[p]) = place[After(t, p)]
<1>1. Len(t) \in Nat /\ Len(u) \in Nat /\ DOMAIN t = 1..Len(t) /\ DOMAIN u = 1..Len(u)
  BY LenProperties
<1>2. Terminators(t) \subseteq 1..Len(t)
  BY <1>1 DEF Terminators
<1>3. ASSUME NEW p \in Terminators(t)
      PROVE  /\ place[p] \in Terminators(u) /\ After(t, p) \in 1..(Len(t) + 1)
             /\ After(u, place[p]) = place[After(t, p)]
  <2>1. /\ p \in 1..Len(t) /\ t[p] \in {"CR", "LF"}
        /\ t[p] = "LF" => p = 1 \/ t[p - 1] # "CR"
    BY <1>1 DEF Terminators
  <2>2. place[p] \in 1..Len(u) /\ p + 1 \in 1..(Len(t) + 1)
    BY <2>1, PlaceOf
  <2>3. CASE Lone(t, p)
    <3>1. place[p + 1] = place[p] + 2 /\ u[place[p]] = "CR" /\ u[place[p] + 1] = "LF"
      BY <2>1, <2>3 DEF Places
    <3>2. place[p + 1] <= Len(u) + 1
      BY <1>1, <2>2, PlaceOf
    <3>3. place[p] < Len(u)
      BY <1>1, <2>2, <3>1, <3>2
    <3>4. After(t, p) = p + 1
      BY <2>1, <2>3, LoneOrPaired DEF After
    <3>5. After(u, place[p]) = place[p] + 2
      BY <3>1, <3>3 DEF After
    <3>6. place[p] \in Terminators(u)
      BY <1>1, <2>2, <3>1 DEF Terminators
    <3>7. QED
      BY <2>2, <3>1, <3>4, <3>5, <3>6
  <2>4. CASE ~Lone(t, p)
    <3>1. t[p] = "CR"
      BY <1>1, <2>1, <2>4, LoneOrPaired
    <3>2. p < Len(t) /\ t[p + 1] = "LF"
      BY <2>1, <2>4, <3>1, LoneOrPaired
    <3>3. /\ u[place[p]] = "CR" /\ u[place[p] + 1] = "LF" /\ place[p + 2] = place[p] + 2
          /\ p + 2 \in 1..(Len(t) + 1)
      BY <2>1, <3>1, <3>2, PairInPlace
    <3>4. place[p + 2] <= Len(u) + 1
      BY <1>1, <3>3, PlaceOf
    <3>5. place[p] < Len(u)
      BY <1>1, <2>2, <3>3, <3>4
    <3>6. After(t, p) = p + 2
      BY <3>1, <3>2 DEF After
    <3>7. After(u, place[p]) = place[p] + 2
      BY <3>3, <3>5 DEF After
    <3>8. place[p] \in Terminators(u)
      BY <1>1, <2>2, <3>3 DEF Terminators
    <3>9. QED
      BY <3>3, <3>6, <3>7, <3>8
  <2>5. QED
    BY <2>3, <2>4
<1>4. ASSUME NEW k \in Terminators(u) PROVE \E p \in Terminators(t) : k = place[p]
  <2>1. k \in 1..Len(u) /\ u[k] \in {"CR", "LF"} /\ (u[k] = "LF" => k = 1 \/ u[k - 1] # "CR")
    BY <1>1 DEF Terminators
  <2>2. PICK p \in 1..Len(t) :
          \/ k = place[p]
          \/ /\ Lone(t, p) /\ k = place[p] + 1 /\ u[k] = "LF" /\ u[k - 1] = "CR"
             /\ place[p] \in 1..Len(u)
    BY <2>1, PlaceOf
  <2>3. k = place[p]
    BY <2>1, <2>2
  <2>4. u[k] = IF Lone(t, p) THEN "CR" ELSE t[p]
    BY <2>3, PlaceOf
  <2>5. CASE Lone(t, p)
    <3>1. t[p] \in {"CR", "LF"} /\ ~(t[p] = "LF" /\ p > 1 /\ t[p - 1] = "CR")
      BY <2>5, LoneOrPaired
    <3>2. p \in Terminators(t)
      BY <1>1, <3>1 DEF Terminators
    <3>3. QED
      BY <2>3, <3>2
  <2>6. CASE ~Lone(t, p) /\ t[p] = "CR"
    <3>1. p \in Terminators(t)
      BY <1>1, <2>6 DEF Terminators
    <3>2. QED
      BY <2>3, <3>1
  <2>7. CASE ~Lone(t, p) /\ t[p] = "LF"
    <3>1. p > 1 /\ t[p - 1] = "CR"
      BY <2>7, LoneOrPaired
    <3> DEFINE q == p - 1
    <3>2. q \in 1..Len(t) /\ q < Len(t) /\ q + 1 = p
      BY <1>1, <3>1
    <3>3. t[q] = "CR" /\ t[q + 1] = "LF"
      BY <2>7, <3>1, <3>2
    <3> HIDE DEF q
    <3>4. u[place[q]] = "CR" /\ place[q + 1] = place[q] + 1
      BY <3>2, <3>3, PairInPlace
    <3>5. place[q] \in 1..Len(u)
      BY <3>2, PlaceOf
    <3>6. k - 1 = place[q] /\ k # 1
      BY <2>3, <3>2, <3>4, <3>5
    <3>7. u[k] = "LF"
      BY <2>4, <2>7
    <3>8. QED
      BY <2>1, <3>4, <3>6, <3>7
  <2>8. QED
    BY <2>1, <2>4, <2>5, <2>6, <2>7
<1>5. Terminators(u) = {place[p] : p \in Terminators(t)}
  BY <1>3, <1>4
<1>6. QED
  BY <1>2, <1>3, <1>5

(* So are the folds, and the terminators that end a line.                  *)
LEMMA FoldsInPlace ==
  ASSUME NEW t \in Seq(Kinds), NEW u \in Seq(Kinds), NEW place, Places(t, u, place)
  PROVE  /\ Folds(u) = {place[p] : p \in Folds(t)} /\ Folds(t) \subseteq Terminators(t)
         /\ Ends(u) = {place[p] : p \in Ends(t)} /\ Ends(t) \subseteq Terminators(t)
<1>1. /\ Len(t) \in Nat /\ Len(u) \in Nat /\ DOMAIN t = 1..Len(t) /\ DOMAIN u = 1..Len(u)
      /\ place[Len(t) + 1] = Len(u) + 1
  BY LenProperties DEF Places
<1>2. /\ Terminators(t) \subseteq 1..Len(t) /\ Terminators(u) = {place[p] : p \in Terminators(t)}
      /\ \A p \in Terminators(t) : /\ After(t, p) \in 1..(Len(t) + 1)
                                   /\ After(u, place[p]) = place[After(t, p)]
  BY TerminatorsInPlace
<1>3. Folds(t) \subseteq Terminators(t) /\ Ends(t) \subseteq Terminators(t)
  BY DEF Folds, Ends
<1>4. ASSUME NEW p \in Terminators(t) PROVE place[p] \in Folds(u) <=> p \in Folds(t)
  <2> DEFINE a == After(t, p)
  <2>1. a \in 1..(Len(t) + 1) /\ After(u, place[p]) = place[a] /\ place[p] \in Terminators(u)
    BY <1>2
  <2> HIDE DEF a
  <2>2. CASE a = Len(t) + 1
    <3>1. a \notin DOMAIN t /\ place[a] \notin DOMAIN u
      BY <1>1, <2>2
    <3>2. QED
      BY <2>1, <3>1 DEF Folds, a
  <2>3. CASE a \in 1..Len(t)
    <3>1. place[a] \in 1..Len(u) /\ u[place[a]] = IF Lone(t, a) THEN "CR" ELSE t[a]
      BY <2>3, PlaceOf
    <3>2. Lone(t, a) => t[a] \in {"CR", "LF"}
      BY <2>3, LoneOrPaired
    <3>3. IsFoldWhitespace(u[place[a]]) <=> IsFoldWhitespace(t[a])
      BY <3>1, <3>2 DEF IsFoldWhitespace
    <3>4. QED
      BY <1>1, <2>1, <2>3, <3>1, <3>3 DEF Folds, a
  <2>4. QED
    BY <1>1, <2>1, <2>2, <2>3
<1>5. Folds(u) \subseteq Terminators(u)
  BY DEF Folds
<1>6. Folds(u) = {place[p] : p \in Folds(t)}
  BY <1>2, <1>3, <1>4, <1>5
<1>7. ASSUME NEW p \in Terminators(t) PROVE place[p] \in Ends(u) <=> p \in Ends(t)
  BY <1>2, <1>4 DEF Ends
<1>8. Ends(u) = {place[p] : p \in Ends(t)}
  BY <1>2, <1>3, <1>7 DEF Ends
<1>9. QED
  BY <1>3, <1>6, <1>8

(* So is every octet that unfolding keeps.                                 *)
LEMMA KeptInPlace ==
  ASSUME NEW t \in Seq(Kinds), NEW u \in Seq(Kinds), NEW place, Places(t, u, place)
  PROVE  /\ Kept(u) = {place[p] : p \in Kept(t)} /\ Kept(t) \subseteq 1..Len(t)
         /\ \A p \in Kept(t) : u[place[p]] = t[p]
<1>1. /\ Len(t) \in Nat /\ Len(u) \in Nat /\ DOMAIN t = 1..Len(t) /\ DOMAIN u = 1..Len(u)
  BY LenProperties
<1>2. /\ Folds(u) = {place[p] : p \in Folds(t)}
      /\ \A p \in Folds(t) : /\ After(t, p) \in 1..(Len(t) + 1)
                             /\ After(u, place[p]) = place[After(t, p)]
  BY FoldsInPlace, TerminatorsInPlace
<1> DEFINE spaces(s) == {After(s, f) : f \in Folds(s)}
<1>3. \A p \in 1..Len(t) : place[p] \in spaces(u) <=> p \in spaces(t)
  <2>1. ASSUME NEW p \in 1..Len(t) PROVE place[p] \in spaces(u) <=> p \in spaces(t)
    <3>1. \A f \in Folds(t) : place[p] = place[After(t, f)] <=> p = After(t, f)
      BY <1>2, PlaceOf
    <3>2. QED
      BY <1>2, <3>1
  <2>2. QED
    BY <2>1
<1> HIDE DEF spaces
<1>4. Kept(t) = {p \in 1..Len(t) : t[p] \notin {"CR", "LF"} /\ p \notin spaces(t)}
  BY <1>1 DEF Kept, spaces
<1>5. Kept(u) = {k \in 1..Len(u) : u[k] \notin {"CR", "LF"} /\ k \notin spaces(u)}
  BY <1>1 DEF Kept, spaces
<1>6. ASSUME NEW p \in 1..Len(t)
      PROVE  /\ place[p] \in Kept(u) <=> p \in Kept(t)
             /\ p \in Kept(t) => u[place[p]] = t[p]
  <2>1. place[p] \in 1..Len(u) /\ u[place[p]] = IF Lone(t, p) THEN "CR" ELSE t[p]
    BY PlaceOf
  <2>2. Lone(t, p) => t[p] \in {"CR", "LF"}
    BY LoneOrPaired
  <2>3. QED
    BY <1>3, <1>4, <1>5, <2>1, <2>2
<1>7. ASSUME NEW k \in Kept(u) PROVE \E p \in Kept(t) : k = place[p]
  <2>1. k \in 1..Len(u) /\ u[k] \notin {"CR", "LF"}
    BY <1>5
  <2>2. PICK p \in 1..Len(t) : k = place[p] \/ u[k] = "LF"
    BY <2>1, PlaceOf
  <2>3. QED
    BY <1>6, <2>1, <2>2
<1>8. Kept(t) \subseteq 1..Len(t)
  BY <1>4
<1>9. QED
  BY <1>6, <1>7, <1>8

(* Moving octets to their places loses none.                               *)
LEMMA CountInPlace ==
  ASSUME NEW t \in Seq(Kinds), NEW u \in Seq(Kinds), NEW place, Places(t, u, place),
         NEW S \in SUBSET (1..Len(t))
  PROVE  Cardinality({place[p] : p \in S}) = Cardinality(S)
<1> DEFINE T == {place[p] : p \in S}
           f == [p \in S |-> place[p]]
<1>1. Len(t) \in Nat
  BY LenProperties
<1>2. IsFiniteSet(S)
  <2>1. IsFiniteSet(1..Len(t))
    BY <1>1, FS_Interval
  <2>2. QED
    BY <2>1, FS_Subset
<1>3. \A p, q \in S : place[p] = place[q] => p = q
  <2>1. \A p \in S : p \in 1..(Len(t) + 1)
    BY <1>1
  <2>2. QED
    BY <2>1, PlaceOf
<1>4. f \in Bijection(S, T)
  BY <1>3 DEF Bijection, Injection, Surjection, IsInjective
<1>5. ExistsBijection(S, T)
  BY <1>4 DEF ExistsBijection
<1>6. QED
  BY <1>2, <1>5, FS_Bijection

(* The octets of a line, and the lines.                                    *)
Mine(t, i) == {p \in Kept(t) : 1 + Cardinality({e \in Ends(t) : e < p}) = i}

(* A text has as many lines as before, and each the octets it had.         *)
LEMMA LinesInPlace ==
  ASSUME NEW t \in Seq(Kinds), NEW u \in Seq(Kinds), NEW place, Places(t, u, place)
  PROVE  /\ LineCount(u) = LineCount(t)
         /\ \A i : /\ Mine(t, i) \subseteq Kept(t) /\ Kept(t) \subseteq 1..Len(t)
                   /\ Mine(u, i) = {place[p] : p \in Mine(t, i)}
<1>1. Len(t) \in Nat /\ Len(u) \in Nat /\ (t = << >> <=> Len(t) = 0) /\ (u = << >> <=> Len(u) = 0)
  BY LenProperties, EmptySeq
<1>2. Ends(u) = {place[p] : p \in Ends(t)} /\ Ends(t) \subseteq 1..Len(t) /\ Ends(t) \subseteq Terminators(t)
  BY FoldsInPlace, TerminatorsInPlace
<1>3. Kept(u) = {place[p] : p \in Kept(t)} /\ Kept(t) \subseteq 1..Len(t)
  BY KeptInPlace
<1>4. ASSUME NEW p \in 1..Len(t)
      PROVE  Cardinality({e \in Ends(u) : e < place[p]}) = Cardinality({e \in Ends(t) : e < p})
  <2> DEFINE before == {e \in Ends(t) : e < p}
  <2>1. \A e \in Ends(t) : place[e] < place[p] <=> e < p
    <3>1. \A e \in Ends(t) : e \in 1..(Len(t) + 1)
      BY <1>1, <1>2
    <3>2. p \in 1..(Len(t) + 1)
      BY <1>1
    <3>3. \A x, y \in 1..(Len(t) + 1) : x < y <=> place[x] < place[y]
      BY PlacesKeepOrder
    <3>4. QED
      BY <3>1, <3>2, <3>3
  <2>2. {e \in Ends(u) : e < place[p]} = {place[e] : e \in before}
    BY <1>2, <2>1
  <2>3. before \in SUBSET (1..Len(t))
    BY <1>2
  <2>4. QED
    BY <2>2, <2>3, CountInPlace
<1>5. ASSUME NEW i PROVE Mine(u, i) = {place[p] : p \in Mine(t, i)}
  <2> DEFINE number(s, p) == 1 + Cardinality({e \in Ends(s) : e < p})
  <2>1. \A s : Mine(s, i) = {p \in Kept(s) : number(s, p) = i}
    BY DEF Mine
  <2>2. \A p \in Kept(t) : number(u, place[p]) = number(t, p)
    BY <1>3, <1>4
  <2> HIDE DEF number
  <2>3. QED
    BY <1>3, <2>1, <2>2
<1>6. Cardinality(Ends(u)) = Cardinality(Ends(t))
  BY <1>2, CountInPlace
<1> DEFINE open(s) == s # << >> /\ \A p \in Ends(s) : After(s, p) <= Len(s)
<1>7. open(u) <=> open(t)
  <2>1. u # << >> <=> t # << >>
    <3>1. place[1] = 1 /\ place[Len(t) + 1] = Len(u) + 1
      BY DEF Places
    <3>2. /\ 1 \in 1..(Len(t) + 1) /\ Len(t) + 1 \in 1..(Len(t) + 1)
          /\ (1 = Len(t) + 1 <=> place[1] = place[Len(t) + 1])
      <4>1. 1 \in 1..(Len(t) + 1) /\ Len(t) + 1 \in 1..(Len(t) + 1)
        BY <1>1
      <4>2. QED
        BY <4>1, PlaceOf
    <3>3. QED
      BY <1>1, <3>1, <3>2
  <2>2. ASSUME NEW p \in Ends(t) PROVE After(u, place[p]) <= Len(u) <=> After(t, p) <= Len(t)
    <3>1. After(t, p) \in 1..(Len(t) + 1) /\ After(u, place[p]) = place[After(t, p)]
      BY <1>2, TerminatorsInPlace
    <3>2. CASE After(t, p) = Len(t) + 1
      <4>1. place[After(t, p)] = Len(u) + 1
        BY <3>2 DEF Places
      <4>2. QED
        BY <1>1, <3>1, <3>2, <4>1
    <3>3. CASE After(t, p) \in 1..Len(t)
      <4>1. place[After(t, p)] \in 1..Len(u)
        BY <3>3, PlaceOf
      <4>2. QED
        BY <1>1, <3>1, <3>3, <4>1
    <3>4. QED
      BY <1>1, <3>1, <3>2, <3>3
  <2>3. QED
    BY <1>2, <2>1, <2>2
<1>8. \A s : LineCount(s) = Cardinality(Ends(s)) + (IF open(s) THEN 1 ELSE 0)
  BY DEF LineCount
<1> HIDE DEF open
<1>9. LineCount(u) = LineCount(t)
  BY <1>6, <1>7, <1>8
<1>10. ASSUME NEW i PROVE Mine(t, i) \subseteq Kept(t)
  BY DEF Mine
<1>11. QED
  BY <1>3, <1>5, <1>9, <1>10

-----------------------------------------------------------------------------
(* The octets of a line in their order, collected octet by octet           *)
(* (PositionsOf).                                                          *)
Lists(S, n, f) ==
  /\ f[0] = << >> /\ \A p \in 0..n : f[p] \in Seq(S)
  /\ \A p \in 1..n : f[p] = IF p \in S THEN Append(f[p - 1], p) ELSE f[p - 1]

(* The positions of a line are such a list.                                *)
LEMMA PositionsListed ==
  ASSUME NEW t \in Seq(Kinds), NEW i
  PROVE  \E f : Lists(Mine(t, i), Len(t), f) /\ PositionsOf(t, i) = f[Len(t)]
<1> DEFINE n == Len(t)
           S == Mine(t, i)
           a == << >>
           next(s, p) == IF p \in S THEN Append(s, p) ELSE s
           g == [x \in Seq(S) \X (1..n) |-> next(x[1], x[2])]
           T == [p \in 0..n |-> Seq(S)]
           upTo[p \in 0..Len(t)] ==
             IF p = 0 THEN << >>
             ELSE IF p \in Mine(t, i) THEN Append(upTo[p - 1], p) ELSE upTo[p - 1]
<1>1. PositionsOf(t, i) = upTo[n]
  BY DEF PositionsOf, Mine
<1>2. n \in Nat /\ 0 \in 0..n /\ n \in 0..n
  BY LenProperties
<1>3. a \in Seq(S)
  BY EmptySeq
<1> HIDE DEF S, n
<1>4. ASSUME NEW s \in Seq(S), NEW p \in 1..n PROVE next(s, p) \in Seq(S)
  OBVIOUS
<1> HIDE DEF next
<1>5. ASSUME NEW p \in 1..n, NEW s \in T[p - 1] PROVE g[<<s, p>>] \in T[p]
  <2>1. s \in Seq(S) /\ p \in 0..n
    BY <1>2
  <2>2. g[<<s, p>>] = next(s, p)
    BY <2>1
  <2>3. QED
    BY <1>4, <2>1, <2>2
<1>6. a \in T[0]
  BY <1>2, <1>3
<1> HIDE DEF g, T, a
<1>7. PICK f : Walks(f, n, T, a, g)
  BY <1>2, <1>5, <1>6, WalkExists
<1>8. /\ f[0] = a /\ f = [p \in 0..n |-> f[p]] /\ \A p \in 0..n : f[p] \in T[p]
      /\ \A p \in 1..n : f[p] = g[<<f[p - 1], p>>] /\ f[p - 1] \in T[p - 1]
  BY <1>2, <1>7, WalkSteps
<1>9. ASSUME NEW p \in 1..n PROVE f[p] = IF p \in S THEN Append(f[p - 1], p) ELSE f[p - 1]
  <2>1. f[p - 1] \in Seq(S)
    BY <1>2, <1>8 DEF T
  <2>2. f[p] = next(f[p - 1], p)
    BY <1>8, <2>1 DEF g
  <2>3. QED
    BY <2>2 DEF next
<1>10. f = [p \in 0..Len(t) |->
              IF p = 0 THEN << >>
              ELSE IF p \in Mine(t, i) THEN Append(f[p - 1], p) ELSE f[p - 1]]
  <2>1. ASSUME NEW p \in 0..n
        PROVE  f[p] = IF p = 0 THEN << >> ELSE IF p \in S THEN Append(f[p - 1], p) ELSE f[p - 1]
    <3>1. CASE p = 0
      BY <1>8, <3>1 DEF a
    <3>2. CASE p # 0
      <4>1. p \in 1..n
        BY <1>2, <3>2
      <4>2. QED
        BY <1>9, <3>2, <4>1
    <3>3. QED
      BY <3>1, <3>2
  <2>2. QED
    BY <1>8, <2>1 DEF n, S
<1>11. upTo = [p \in 0..Len(t) |->
                 IF p = 0 THEN << >>
                 ELSE IF p \in Mine(t, i) THEN Append(upTo[p - 1], p) ELSE upTo[p - 1]]
  BY <1>10
<1> HIDE DEF upTo
<1>12. /\ upTo[0] = << >>
       /\ \A p \in 1..n : upTo[p] = IF p \in S THEN Append(upTo[p - 1], p) ELSE upTo[p - 1]
  <2>1. upTo[0] = << >>
    BY <1>2, <1>11 DEF n
  <2>2. ASSUME NEW p \in 1..n PROVE upTo[p] = IF p \in S THEN Append(upTo[p - 1], p) ELSE upTo[p - 1]
    <3>1. p \in 0..Len(t) /\ p # 0
      BY <1>2 DEF n
    <3>2. QED
      BY <1>11, <3>1 DEF S
  <2>3. QED
    BY <2>1, <2>2
<1> DEFINE Typed == {p \in 0..n : upTo[p] \in Seq(S)}
<1>13. 0 \in Typed
  BY <1>2, <1>3, <1>12 DEF a
<1>14. ASSUME NEW p \in 1..n, p - 1 \in Typed PROVE p \in Typed
  <2>1. upTo[p] = next(upTo[p - 1], p) /\ p \in 0..n /\ upTo[p - 1] \in Seq(S)
    BY <1>2, <1>12, <1>14 DEF next
  <2>2. QED
    BY <1>4, <2>1
<1> HIDE DEF Typed
<1>15. \A p \in 0..n : p \in Typed
  BY <1>2, <1>13, <1>14, UpToInduction
<1>16. Lists(S, n, upTo)
  BY <1>12, <1>15 DEF Lists, Typed
<1>17. QED
  BY <1>1, <1>16, Zenon DEF n, S

(* Each octet of the list in its place.                                    *)
Placed(place, s) == [k \in 1..Len(s) |-> place[s[k]]]

(* One more octet of the list.                                             *)
LEMMA PlacedMore ==
  ASSUME NEW S, NEW s \in Seq(S), NEW p \in S, NEW place
  PROVE  Placed(place, Append(s, p)) = Append(Placed(place, s), place[p])
<1> DEFINE v == Append(s, p)
           old == Placed(place, s)
           new == Placed(place, v)
           more == Append(old, place[p])
           R == {place[x] : x \in S}
<1>1. /\ Len(s) \in Nat /\ v \in Seq(S) /\ Len(v) = Len(s) + 1 /\ v[Len(s) + 1] = p
      /\ \A k \in 1..Len(s) : v[k] = s[k]
  BY LenProperties
<1>2. \A k \in 1..Len(s) : s[k] \in S
  BY LenProperties
<1> HIDE DEF v
<1>3. old = [k \in 1..Len(s) |-> place[s[k]]] /\ new = [k \in 1..(Len(s) + 1) |-> place[v[k]]]
  BY <1>1 DEF Placed
<1>4. old \in Seq(R) /\ Len(old) = Len(s) /\ \A k \in 1..Len(s) : old[k] = place[s[k]]
  BY <1>1, <1>2, <1>3
<1> HIDE DEF old, new
<1>5. more \in Seq(R) /\ Len(more) = Len(s) + 1 /\ more[Len(s) + 1] = place[p]
      /\ \A k \in 1..Len(s) : more[k] = old[k]
  BY <1>1, <1>4
<1> HIDE DEF more
<1>6. \A k \in 1..(Len(s) + 1) : k = Len(s) + 1 \/ k \in 1..Len(s)
  BY <1>1
<1>7. \A k \in 1..(Len(s) + 1) : new[k] = more[k]
  BY <1>1, <1>3, <1>4, <1>5, <1>6
<1>8. more = [k \in 1..(Len(s) + 1) |-> more[k]]
  BY <1>5, LenProperties
<1>9. new = more
  BY <1>3, <1>7, <1>8
<1>10. QED
  BY <1>9 DEF new, more, old, v

(* The list of a line's octets is that of their places.                    *)
LEMMA ListsInPlace ==
  ASSUME NEW t \in Seq(Kinds), NEW u \in Seq(Kinds), NEW place, Places(t, u, place),
         NEW S \in SUBSET (1..Len(t)), NEW R, R = {place[p] : p \in S},
         NEW f, Lists(S, Len(t), f), NEW g, Lists(R, Len(u), g)
  PROVE  g[Len(u)] = Placed(place, f[Len(t)])
<1> DEFINE n == Len(t)
           Done == {p \in 0..n : g[place[p + 1] - 1] = Placed(place, f[p])}
<1>1. /\ n \in Nat /\ Len(u) \in Nat /\ 0 \in 0..n /\ n \in 0..n
      /\ place[1] = 1 /\ place[n + 1] = Len(u) + 1
  BY LenProperties DEF Places
<1>2. /\ f[0] = << >> /\ \A p \in 0..n : f[p] \in Seq(S)
      /\ \A p \in 1..n : f[p] = IF p \in S THEN Append(f[p - 1], p) ELSE f[p - 1]
  BY DEF Lists
<1>3. /\ g[0] = << >>
      /\ \A k \in 1..Len(u) : g[k] = IF k \in R THEN Append(g[k - 1], k) ELSE g[k - 1]
  BY DEF Lists
<1>4. \A p \in S : place[p] \in R
  OBVIOUS
<1>5. ASSUME NEW p \in 1..n PROVE place[p] \in R <=> p \in S
  <2>1. \A q \in S : place[p] = place[q] => p = q
    <3>1. p \in 1..(Len(t) + 1) /\ \A q \in S : q \in 1..(Len(t) + 1)
      BY <1>1
    <3>2. \A x, y \in 1..(Len(t) + 1) : /\ x < y <=> place[x] < place[y]
                                        /\ x = y <=> place[x] = place[y]
      BY PlaceOf
    <3>3. QED
      BY <3>1, <3>2
  <2>2. QED
    BY <1>4, <2>1
<1>6. 0 \in Done
  <2>1. Placed(place, << >>) = << >>
    BY EmptySeq DEF Placed
  <2>2. place[0 + 1] - 1 = 0
    BY <1>1
  <2>3. QED
    BY <1>1, <1>2, <1>3, <2>1, <2>2
<1>7. ASSUME NEW p \in 1..n, p - 1 \in Done PROVE p \in Done
  <2> DEFINE k == place[p]
             s == f[p - 1]
  <2>1. /\ p - 1 \in 0..n /\ p \in 0..n /\ (p - 1) + 1 = p
        /\ p \in 1..(Len(t) + 1) /\ p + 1 \in 1..(Len(t) + 1)
    BY <1>1
  <2>2. k \in 1..Len(u) /\ k \in Nat
    BY <1>1, PlaceOf
  <2>3. g[k - 1] = Placed(place, s) /\ s \in Seq(S)
    BY <1>2, <1>7, <2>1
  <2>4. g[k] = IF p \in S THEN Append(Placed(place, s), k) ELSE Placed(place, s)
    BY <1>3, <1>5, <2>2, <2>3
  <2>5. g[k] = Placed(place, f[p])
    <3>1. CASE p \in S
      <4>1. Placed(place, Append(s, p)) = Append(Placed(place, s), place[p])
        <5>1. \A v \in Seq(S), x \in S :
                Placed(place, Append(v, x)) = Append(Placed(place, v), place[x])
          BY PlacedMore
        <5> HIDE DEF s, k
        <5>2. QED
          BY <2>3, <3>1, <5>1
      <4>2. f[p] = Append(s, p)
        BY <1>2, <3>1
      <4>3. QED
        BY <2>4, <3>1, <4>1, <4>2
    <3>2. CASE p \notin S
      <4>1. f[p] = s
        BY <1>2, <3>2
      <4>2. QED
        BY <2>4, <3>2, <4>1
    <3>3. QED
      BY <3>1, <3>2
  <2>6. CASE ~Lone(t, p)
    <3>1. place[p + 1] = k + 1
      BY <2>6 DEF Places
    <3>2. place[p + 1] - 1 = k
      BY <2>2, <3>1
    <3>3. QED
      BY <2>1, <2>5, <3>2
  <2>7. CASE Lone(t, p)
    <3>1. place[p + 1] = k + 2
      BY <2>7 DEF Places
    <3>2. place[p + 1] \in 1..(Len(u) + 1)
      BY <2>1 DEF Places
    <3>3. k + 1 \in 1..Len(u) /\ place[p + 1] - 1 = k + 1 /\ (k + 1) - 1 = k
      <4>1. k + 2 \in 1..(Len(u) + 1)
        BY <3>1, <3>2
      <4> HIDE DEF k
      <4>2. QED
        BY <1>1, <2>2, <3>1, <4>1
    <3>4. k + 1 \notin R
      <4>1. SUFFICES ASSUME NEW q \in S, place[q] = k + 1 PROVE FALSE
        OBVIOUS
      <4>2. q \in 1..(Len(t) + 1) /\ q \in Nat /\ p \in Nat
        BY <1>1
      <4>3. \A x, y \in 1..(Len(t) + 1) : x < y <=> place[x] < place[y]
        BY PlacesKeepOrder
      <4>4. place[p] < place[q] /\ place[q] < place[p + 1]
        BY <2>2, <3>1, <4>1
      <4>5. p < q /\ q < p + 1
        BY <2>1, <4>2, <4>3, <4>4
      <4>6. QED
        BY <4>2, <4>5
    <3>5. g[k + 1] = g[k]
      BY <1>3, <3>3, <3>4
    <3>6. QED
      BY <2>1, <2>5, <3>3, <3>5
  <2>8. QED
    BY <2>6, <2>7
<1> HIDE DEF Done
<1>8. n \in Done
  BY <1>1, <1>6, <1>7, UpToInduction
<1>9. place[n + 1] - 1 = Len(u)
  BY <1>1
<1>10. QED
  BY <1>8, <1>9 DEF Done

(* Each line reads as it did.                                              *)
LEMMA TextsInPlace ==
  ASSUME NEW t \in Seq(Kinds), NEW u \in Seq(Kinds), NEW place, Places(t, u, place), NEW i
  PROVE  TextOf(u, i) = TextOf(t, i)
<1> DEFINE S == Mine(t, i)
           K == PositionsOf(t, i)
           L == PositionsOf(u, i)
<1>1. PICK f : Lists(S, Len(t), f) /\ K = f[Len(t)]
  BY PositionsListed
<1>2. PICK g : Lists(Mine(u, i), Len(u), g) /\ L = g[Len(u)]
  BY PositionsListed
<1>3. S \subseteq Kept(t) /\ Kept(t) \subseteq 1..Len(t) /\ Mine(u, i) = {place[p] : p \in S}
  BY LinesInPlace
<1>4. Len(t) \in Nat /\ Len(t) \in 0..Len(t)
  BY LenProperties
<1>5. K \in Seq(S)
  BY <1>1, <1>4 DEF Lists
<1>6. S \in SUBSET (1..Len(t))
  BY <1>3
<1> HIDE DEF S, K, L
<1>7. L = Placed(place, K)
  BY <1>1, <1>2, <1>3, <1>6, ListsInPlace
<1>8. /\ Len(K) \in Nat /\ DOMAIN K = 1..Len(K) /\ \A k \in 1..Len(K) : K[k] \in S
      /\ DOMAIN L = 1..Len(K) /\ \A k \in 1..Len(K) : L[k] = place[K[k]]
  BY <1>5, <1>7, LenProperties DEF Placed
<1>9. \A p \in Kept(t) : u[place[p]] = t[p]
  BY KeptInPlace
<1>10. \A k \in 1..Len(K) : u[L[k]] = t[K[k]]
  BY <1>3, <1>8, <1>9
<1>11. TextOf(u, i) = [k \in DOMAIN L |-> u[L[k]]] /\ TextOf(t, i) = [k \in DOMAIN K |-> t[K[k]]]
  BY DEF TextOf, K, L
<1>12. QED
  BY <1>8, <1>10, <1>11

(* The text reads as the same lines.                                       *)
LEMMA PlacesReadAlike ==
  ASSUME NEW t \in Seq(Kinds), NEW u \in Seq(Kinds), NEW place, Places(t, u, place)
  PROVE  ReadLines(u) = ReadLines(t)
<1>1. LineCount(u) = LineCount(t)
  BY LinesInPlace
<1>2. \A i : TextOf(u, i) = TextOf(t, i)
  BY TextsInPlace
<1>3. \A i : Meaning(TextOf(u, i)) = Meaning(TextOf(t, i))
  BY <1>2
<1>4. QED
  BY <1>1, <1>3 DEF ReadLines

(* What the changes name.                                                  *)
LEMMA LoneTerminators ==
  ASSUME NEW t \in Seq(Kinds)
  PROVE  {q \in Terminators(t) : After(t, q) = q + 1} = {q \in 1..Len(t) : Lone(t, q)}
<1>1. Len(t) \in Nat /\ DOMAIN t = 1..Len(t)
  BY LenProperties
<1>2. ASSUME NEW q \in 1..Len(t)
      PROVE  q \in Terminators(t) /\ After(t, q) = q + 1 <=> Lone(t, q)
  <2>1. q \in Nat /\ q + 2 # q + 1 /\ q >= 1 /\ (q = 1 <=> ~(q > 1))
    BY <1>1
  <2>2. After(t, q) = q + 1 <=> ~(t[q] = "CR" /\ q < Len(t) /\ t[q + 1] = "LF")
    BY <2>1 DEF After
  <2>3. q \in Terminators(t) <=> t[q] = "CR" \/ (t[q] = "LF" /\ (q = 1 \/ t[q - 1] # "CR"))
    BY <1>1 DEF Terminators
  <2>4. /\ Lone(t, q) => t[q] \in {"CR", "LF"} /\ ~(t[q] = "CR" /\ q < Len(t) /\ t[q + 1] = "LF")
                          /\ ~(t[q] = "LF" /\ q > 1 /\ t[q - 1] = "CR")
        /\ t[q] = "CR" /\ ~Lone(t, q) => q < Len(t) /\ t[q + 1] = "LF"
        /\ t[q] = "LF" /\ ~Lone(t, q) => q > 1 /\ t[q - 1] = "CR"
    BY LoneOrPaired
  <2>5. QED
    BY <2>1, <2>2, <2>3, <2>4
<1>3. Terminators(t) \subseteq 1..Len(t)
  BY <1>1 DEF Terminators
<1>4. QED
  BY <1>2, <1>3
=============================================================================
