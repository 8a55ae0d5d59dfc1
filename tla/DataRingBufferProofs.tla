------------------------ MODULE DataRingBufferProofs ------------------------
(* The ring buffer with its prepend buffer is a FIFO queue, for all sizes   *)
(* with 0 < bufSize_ <= SSH_TUNNEL_PREPEND_CAPACITY.                        *)
EXTENDS DataRingBuffer, SequenceTheorems, TLAPS

-----------------------------------------------------------------------------
\* Concatenation and sub-sequences, as the proofs about byte streams use them.

\* Two sequences of equal length and equal elements are equal.
LEMMA SameElements ==
  ASSUME NEW S, NEW s \in Seq(S), NEW t \in Seq(S), Len(s) = Len(t),
         \A i \in 1..Len(s) : s[i] = t[i]
  PROVE  s = t
BY SeqEqual

\* Length and elements of a concatenation.
LEMMA CatFacts ==
  ASSUME NEW S, NEW a \in Seq(S), NEW b \in Seq(S)
  PROVE  /\ a \o b \in Seq(S)
         /\ Len(a) \in Nat /\ Len(b) \in Nat
         /\ Len(a \o b) = Len(a) + Len(b)
         /\ \A i \in 1..(Len(a) + Len(b)) :
              (a \o b)[i] = IF i <= Len(a) THEN a[i] ELSE b[i - Len(a)]
BY ConcatProperties, LenProperties

\* Length and elements of a sub-sequence.
LEMMA SubFacts ==
  ASSUME NEW S, NEW s \in Seq(S), NEW m \in 1..(Len(s) + 1), NEW n \in Nat,
         m - 1 <= n, n <= Len(s)
  PROVE  /\ SubSeq(s, m, n) \in Seq(S)
         /\ Len(s) \in Nat
         /\ Len(SubSeq(s, m, n)) = n - m + 1
         /\ \A i \in 1..(n - m + 1) : SubSeq(s, m, n)[i] = s[m + i - 1]
<1>1. Len(s) \in Nat
  BY LenProperties
<1>2. CASE m <= n
  BY <1>1, <1>2, SubSeqProperties
<1>3. CASE m = n + 1
  BY <1>1, <1>3, SubSeqEmpty
<1> QED
  BY <1>1, <1>2, <1>3

\* Concatenation of byte sequences is associative.
LEMMA CatAssoc ==
  \A a, b, c \in Seq(Nat) : (a \o b) \o c = a \o (b \o c)
BY ConcatAssociative

\* The two pieces a sequence falls into at position n.
LEMMA HeadFacts ==
  ASSUME NEW S, NEW s \in Seq(S), NEW n \in Nat, n <= Len(s)
  PROVE  /\ SubSeq(s, 1, n) \in Seq(S)
         /\ Len(SubSeq(s, 1, n)) = n
         /\ \A i \in 1..n : SubSeq(s, 1, n)[i] = s[i]
<1>1. Len(s) \in Nat
  BY LenProperties
<1> QED BY <1>1, SubFacts

LEMMA TailFacts ==
  ASSUME NEW S, NEW s \in Seq(S), NEW n \in Nat, n <= Len(s)
  PROVE  /\ SubSeq(s, n + 1, Len(s)) \in Seq(S)
         /\ Len(SubSeq(s, n + 1, Len(s))) = Len(s) - n
         /\ \A i \in 1..(Len(s) - n) : SubSeq(s, n + 1, Len(s))[i] = s[n + i]
<1>1. Len(s) \in Nat
  BY LenProperties
<1> QED BY <1>1, SubFacts

\* A function on 1..n is a sequence of length n.
LEMMA FcnIsSeq ==
  ASSUME NEW S, NEW n \in Nat, NEW f \in [1..n -> S]
  PROVE  f \in Seq(S) /\ Len(f) = n
OBVIOUS

\* Reading a head that spans two consecutive pieces: first all it can take of
\* p, and of r only once p is used up.
LEMMA SplitHead ==
  ASSUME NEW S, NEW p \in Seq(S), NEW r \in Seq(S),
         NEW a \in Nat, a <= Len(p), NEW k \in Nat, k <= Len(r),
         a < Len(p) => k = 0
  PROVE  SubSeq(p, 1, a) \o SubSeq(r, 1, k) = SubSeq(p \o r, 1, a + k)
<1> DEFINE x == SubSeq(p, 1, a)
           y == SubSeq(r, 1, k)
           q == p \o r
           z == SubSeq(q, 1, a + k)
<1>1. Len(p) \in Nat /\ Len(r) \in Nat
  BY LenProperties
<1>2. x \in Seq(S) /\ Len(x) = a /\ \A i \in 1..a : x[i] = p[i]
  BY <1>1, SubFacts
<1>3. y \in Seq(S) /\ Len(y) = k /\ \A i \in 1..k : y[i] = r[i]
  BY <1>1, SubFacts
<1>4. /\ q \in Seq(S) /\ Len(q) = Len(p) + Len(r)
      /\ \A i \in 1..(Len(p) + Len(r)) :
           q[i] = IF i <= Len(p) THEN p[i] ELSE r[i - Len(p)]
  BY CatFacts
<1> HIDE DEF x, y, q
<1>5. z \in Seq(S) /\ Len(z) = a + k /\ \A i \in 1..(a + k) : z[i] = q[i]
  BY <1>1, <1>4, SubFacts
<1>6. /\ x \o y \in Seq(S) /\ Len(x \o y) = a + k
      /\ \A i \in 1..(a + k) : (x \o y)[i] = IF i <= a THEN x[i] ELSE y[i - a]
  BY <1>2, <1>3, CatFacts
<1> HIDE DEF z
<1>7. ASSUME NEW i \in 1..(a + k) PROVE (x \o y)[i] = z[i]
  <2>0. i \in Nat /\ i >= 1 /\ i <= a + k /\ i \in 1..(Len(p) + Len(r))
    BY <1>1
  <2>1. CASE i <= a
    <3>1. i \in 1..a /\ i <= Len(p)
      BY <2>0, <2>1, <1>1
    <3> QED BY <3>1, <2>0, <2>1, <1>2, <1>4, <1>5, <1>6
  <2>2. CASE i > a
    <3>1. a = Len(p) /\ i - a \in 1..k /\ ~(i <= Len(p)) /\ ~(i <= a)
      BY <2>0, <2>2, <1>1
    <3>2. (x \o y)[i] = y[i - a] /\ y[i - a] = r[i - a]
      BY <3>1, <1>3, <1>6
    <3>3. z[i] = r[i - a]
      BY <3>1, <2>0, <1>4, <1>5
    <3> QED BY <3>2, <3>3
  <2>3. i <= a \/ i > a
    BY <2>0
  <2> QED BY <2>1, <2>2, <2>3
<1> QED
  BY <1>5, <1>6, <1>7, SameElements DEF x, y, z, q

\* What is left of the two pieces is the tail of their concatenation.
LEMMA SplitTail ==
  ASSUME NEW S, NEW p \in Seq(S), NEW r \in Seq(S),
         NEW a \in Nat, a <= Len(p), NEW k \in Nat, k <= Len(r),
         a < Len(p) => k = 0
  PROVE  SubSeq(p, a + 1, Len(p)) \o SubSeq(r, k + 1, Len(r))
           = SubSeq(p \o r, a + k + 1, Len(p \o r))
<1> DEFINE x == SubSeq(p, a + 1, Len(p))
           y == SubSeq(r, k + 1, Len(r))
           q == p \o r
           z == SubSeq(q, a + k + 1, Len(q))
           n == (Len(p) + Len(r)) - (a + k)
<1>1. Len(p) \in Nat /\ Len(r) \in Nat /\ n \in Nat
  BY LenProperties
<1>2. /\ x \in Seq(S) /\ Len(x) = Len(p) - a
      /\ \A i \in 1..(Len(p) - a) : x[i] = p[a + i]
  BY <1>1, SubFacts
<1>3. /\ y \in Seq(S) /\ Len(y) = Len(r) - k
      /\ \A i \in 1..(Len(r) - k) : y[i] = r[k + i]
  BY <1>1, SubFacts
<1>4. /\ q \in Seq(S) /\ Len(q) = Len(p) + Len(r)
      /\ \A i \in 1..(Len(p) + Len(r)) :
           q[i] = IF i <= Len(p) THEN p[i] ELSE r[i - Len(p)]
  BY CatFacts
<1> HIDE DEF x, y, q
<1>5. z \in Seq(S) /\ Len(z) = n /\ \A i \in 1..n : z[i] = q[a + k + i]
  BY <1>1, <1>4, SubFacts
<1>6. /\ x \o y \in Seq(S) /\ Len(x \o y) = n
      /\ \A i \in 1..n : (x \o y)[i] = IF i <= Len(p) - a THEN x[i]
                                       ELSE y[i - (Len(p) - a)]
  <2>1. /\ x \o y \in Seq(S) /\ Len(x \o y) = Len(x) + Len(y)
        /\ \A i \in 1..(Len(x) + Len(y)) :
             (x \o y)[i] = IF i <= Len(x) THEN x[i] ELSE y[i - Len(x)]
    BY <1>2, <1>3, CatFacts
  <2>2. Len(x) = Len(p) - a /\ Len(x) + Len(y) = n
    BY <1>1, <1>2, <1>3
  <2> QED BY <2>1, <2>2
<1> HIDE DEF z
<1>7. ASSUME NEW i \in 1..n PROVE (x \o y)[i] = z[i]
  <2>0. /\ i \in Nat /\ i >= 1 /\ i <= n
        /\ a + k + i \in 1..(Len(p) + Len(r))
    BY <1>1
  <2>1. CASE i <= Len(p) - a
    <3>1. k = 0 /\ i \in 1..(Len(p) - a) /\ a + k + i <= Len(p)
      BY <2>0, <2>1, <1>1
    <3>2. (x \o y)[i] = p[a + i]
      BY <3>1, <2>1, <1>2, <1>6
    <3>3. z[i] = p[a + k + i]
      BY <3>1, <2>0, <1>4, <1>5
    <3> QED BY <3>1, <3>2, <3>3
  <2>2. CASE i > Len(p) - a
    <3> DEFINE j == i - (Len(p) - a)
    <3>1. /\ j \in 1..(Len(r) - k) /\ ~(i <= Len(p) - a)
          /\ ~(a + k + i <= Len(p)) /\ (a + k + i) - Len(p) = k + j
      BY <2>0, <2>2, <1>1
    <3>2. (x \o y)[i] = y[j] /\ y[j] = r[k + j]
      BY <3>1, <1>3, <1>6
    <3>3. z[i] = r[k + j]
      BY <3>1, <2>0, <1>4, <1>5
    <3> QED BY <3>2, <3>3
  <2>3. i <= Len(p) - a \/ i > Len(p) - a
    BY <2>0, <1>1
  <2> QED BY <2>1, <2>2, <2>3
<1> QED
  BY <1>5, <1>6, <1>7, SameElements DEF x, y, z, q

\* Putting the unsent tail of a head h of q back before the rest of q.
LEMMA PutBack ==
  ASSUME NEW S, NEW q \in Seq(S), NEW h \in Nat, h <= Len(q),
         NEW s \in Nat, s <= h
  PROVE  /\ SubSeq(SubSeq(q, 1, h), s + 1, h) \o SubSeq(q, h + 1, Len(q))
              = SubSeq(q, s + 1, Len(q))
         /\ SubSeq(SubSeq(q, 1, h), 1, s) = SubSeq(q, 1, s)
<1> DEFINE g == SubSeq(q, 1, h)
           t == SubSeq(g, s + 1, h)
           u == SubSeq(q, h + 1, Len(q))
           w == SubSeq(q, s + 1, Len(q))
           v == SubSeq(g, 1, s)
           x == SubSeq(q, 1, s)
<1>1. Len(q) \in Nat
  BY LenProperties
<1>2. g \in Seq(S) /\ Len(g) = h /\ \A i \in 1..h : g[i] = q[i]
  BY <1>1, SubFacts
<1>3. /\ u \in Seq(S) /\ Len(u) = Len(q) - h
      /\ \A i \in 1..(Len(q) - h) : u[i] = q[h + i]
  BY <1>1, SubFacts
<1>4. /\ w \in Seq(S) /\ Len(w) = Len(q) - s
      /\ \A i \in 1..(Len(q) - s) : w[i] = q[s + i]
  BY <1>1, SubFacts
<1>5. x \in Seq(S) /\ Len(x) = s /\ \A i \in 1..s : x[i] = q[i]
  BY <1>1, SubFacts
<1> HIDE DEF g
<1>6. t \in Seq(S) /\ Len(t) = h - s /\ \A i \in 1..(h - s) : t[i] = g[s + i]
  BY <1>2, SubFacts
<1>7. v \in Seq(S) /\ Len(v) = s /\ \A i \in 1..s : v[i] = g[i]
  BY <1>2, SubFacts
<1> HIDE DEF t, u, w, v, x
<1>8. v = x
  <2>1. ASSUME NEW i \in 1..s PROVE v[i] = x[i]
    <3>1. i \in 1..h
      OBVIOUS
    <3> QED BY <3>1, <1>2, <1>5, <1>7
  <2> QED BY <2>1, <1>5, <1>7, SameElements
<1>9. /\ t \o u \in Seq(S) /\ Len(t \o u) = Len(q) - s
      /\ \A i \in 1..(Len(q) - s) : (t \o u)[i] = IF i <= h - s THEN t[i]
                                                ELSE u[i - (h - s)]
  <2>1. /\ t \o u \in Seq(S) /\ Len(t \o u) = Len(t) + Len(u)
        /\ \A i \in 1..(Len(t) + Len(u)) :
             (t \o u)[i] = IF i <= Len(t) THEN t[i] ELSE u[i - Len(t)]
    BY <1>3, <1>6, CatFacts
  <2>2. Len(t) = h - s /\ Len(t) + Len(u) = Len(q) - s
    BY <1>1, <1>3, <1>6
  <2> QED BY <2>1, <2>2
<1>10. ASSUME NEW i \in 1..(Len(q) - s) PROVE (t \o u)[i] = w[i]
  <2>0. i \in Nat /\ i >= 1 /\ i <= Len(q) - s
    BY <1>1
  <2>1. CASE i <= h - s
    <3>1. i \in 1..(h - s) /\ s + i \in 1..h
      BY <2>0, <2>1
    <3>2. (t \o u)[i] = g[s + i]
      BY <3>1, <2>1, <1>6, <1>9
    <3>3. g[s + i] = q[s + i] /\ w[i] = q[s + i]
      BY <3>1, <1>2, <1>4
    <3> QED BY <3>2, <3>3
  <2>2. CASE i > h - s
    <3> DEFINE j == i - (h - s)
    <3>1. j \in 1..(Len(q) - h) /\ ~(i <= h - s) /\ h + j = s + i
      BY <2>0, <2>2, <1>1
    <3>2. (t \o u)[i] = u[j] /\ u[j] = q[h + j]
      BY <3>1, <1>3, <1>9
    <3>3. w[i] = q[s + i]
      BY <1>4
    <3> QED BY <3>1, <3>2, <3>3
  <2>3. i <= h - s \/ i > h - s
    BY <2>0
  <2> QED BY <2>1, <2>2, <2>3
<1>11. t \o u = w
  BY <1>4, <1>9, <1>10, SameElements
<1> QED
  BY <1>8, <1>11 DEF g, t, u, w, v, x

-----------------------------------------------------------------------------

\* The queue q holds the newest Len(q) of a accepted bytes.
Suffix(q, a) == Len(q) <= a /\ \A i \in 1..Len(q) : q[i] = a - Len(q) + i

\* The delivered stream d is strictly increasing and stays below bound b.
Ordered(d, b) ==
  /\ \A i \in 1..Len(d) : d[i] \in 1..b
  /\ \A i, j \in 1..Len(d) : i < j => d[i] < d[j]

\* Appending the next n stream positions keeps the suffix property.
LEMMA SuffixPut ==
  ASSUME NEW q \in Seq(Nat), NEW a \in Nat, NEW n \in Nat, Suffix(q, a)
  PROVE  LET r == q \o [i \in 1..n |-> a + i]
         IN  /\ r \in Seq(Nat) /\ Len(r) = Len(q) + n
             /\ Suffix(r, a + n)
<1> DEFINE new == [i \in 1..n |-> a + i]
           r == q \o new
<1>1. new \in Seq(Nat) /\ Len(new) = n /\ \A i \in 1..n : new[i] = a + i
  OBVIOUS
<1> HIDE DEF new
<1>2. /\ r \in Seq(Nat) /\ Len(q) \in Nat /\ Len(r) = Len(q) + n
      /\ \A i \in 1..(Len(q) + n) :
            r[i] = IF i <= Len(q) THEN q[i] ELSE new[i - Len(q)]
  BY <1>1, CatFacts
<1> HIDE DEF r
<1>3. ASSUME NEW i \in 1..Len(r) PROVE r[i] = (a + n) - Len(r) + i
  <2>0. i \in Nat /\ Len(r) = Len(q) + n
    BY <1>2
  <2>1. CASE i <= Len(q)
    <3>1. i \in 1..Len(q) /\ r[i] = q[i]
      BY <2>1, <1>2
    <3>2. q[i] = a - Len(q) + i
      BY <3>1 DEF Suffix
    <3>3. a - Len(q) + i = (a + n) - Len(r) + i
      BY <2>0, <1>2
    <3> QED BY <3>1, <3>2, <3>3
  <2>2. CASE i > Len(q)
    <3>1. i - Len(q) \in 1..n /\ r[i] = new[i - Len(q)]
      BY <2>2, <1>2
    <3>2. r[i] = a + (i - Len(q))
      BY <3>1, <1>1
    <3>3. a + (i - Len(q)) = (a + n) - Len(r) + i
      BY <2>0, <1>2
    <3> QED BY <3>2, <3>3
  <2> QED BY <2>1, <2>2, <1>2
<1>4. Suffix(r, a + n)
  BY <1>2, <1>3 DEF Suffix
<1> QED
  BY <1>2, <1>4 DEF r, new

\* Taking n bytes off the head keeps it too.
LEMMA SuffixTake ==
  ASSUME NEW q \in Seq(Nat), NEW a \in Nat, NEW n \in 0..Len(q), Suffix(q, a)
  PROVE  LET r == SubSeq(q, n + 1, Len(q))
         IN  /\ r \in Seq(Nat) /\ Len(r) = Len(q) - n
             /\ Suffix(r, a)
<1> DEFINE r == SubSeq(q, n + 1, Len(q))
<1>0. Len(q) \in Nat
  BY LenProperties
<1>1. /\ r \in Seq(Nat) /\ Len(r) = Len(q) - n
      /\ \A i \in 1..(Len(q) - n) : r[i] = q[n + i]
  BY <1>0, SubFacts
<1> HIDE DEF r
<1>2. ASSUME NEW i \in 1..Len(r) PROVE r[i] = a - Len(r) + i
  BY <1>0, <1>1 DEF Suffix
<1>3. Suffix(r, a)
  BY <1>0, <1>1, <1>2 DEF Suffix
<1> QED
  BY <1>1, <1>3 DEF r

\* Delivering the first n bytes of the queue extends the ordered stream.
LEMMA OrderedDeliver ==
  ASSUME NEW q \in Seq(Nat), NEW a \in Nat, NEW n \in 0..Len(q), Suffix(q, a),
         NEW d \in Seq(Nat), Ordered(d, a - Len(q))
  PROVE  LET e == d \o SubSeq(q, 1, n)
         IN  /\ e \in Seq(Nat) /\ Len(e) = Len(d) + n
             /\ Ordered(e, a - Len(q) + n)
<1> DEFINE out == SubSeq(q, 1, n)
           e == d \o out
<1>0. Len(q) \in Nat /\ Len(d) \in Nat /\ n \in Nat
  BY LenProperties
<1>1. out \in Seq(Nat) /\ Len(out) = n /\ \A i \in 1..n : out[i] = q[i]
  BY <1>0, SubFacts
<1> HIDE DEF out
<1>2. ASSUME NEW i \in 1..n PROVE out[i] = a - Len(q) + i
  <2>1. i \in 1..Len(q) /\ out[i] = q[i]
    BY <1>0, <1>1
  <2> QED BY <2>1 DEF Suffix
<1>3. /\ e \in Seq(Nat) /\ Len(e) = Len(d) + n
      /\ \A i \in 1..(Len(d) + n) :
            e[i] = IF i <= Len(d) THEN d[i] ELSE out[i - Len(d)]
  BY <1>1, CatFacts
<1> HIDE DEF e
<1>4. ASSUME NEW i \in 1..Len(e)
      PROVE  /\ e[i] \in 1..(a - Len(q) + n)
             /\ i <= Len(d) => e[i] = d[i] /\ e[i] <= a - Len(q)
             /\ i > Len(d) => e[i] = a - Len(q) + (i - Len(d))
  <2>1. CASE i <= Len(d)
    BY <2>1, <1>0, <1>3 DEF Ordered, Suffix
  <2>2. CASE i > Len(d)
    <3>1. i - Len(d) \in 1..n /\ e[i] = out[i - Len(d)]
      BY <2>2, <1>0, <1>3
    <3>2. e[i] = a - Len(q) + (i - Len(d))
      BY <3>1, <1>2
    <3> QED BY <2>2, <3>1, <3>2, <1>0 DEF Suffix
  <2> QED BY <2>1, <2>2, <1>0, <1>3
<1>5. ASSUME NEW i \in 1..Len(e), NEW j \in 1..Len(e), i < j
      PROVE  e[i] < e[j]
  <2>1. CASE j <= Len(d)
    <3>1. /\ i \in 1..Len(d) /\ j \in 1..Len(d)
          /\ e[i] = d[i] /\ e[j] = d[j]
      BY <2>1, <1>5, <1>0, <1>3
    <3> QED BY <3>1, <1>5 DEF Ordered
  <2>2. CASE i <= Len(d) /\ j > Len(d)
    <3>1. e[i] <= a - Len(q) /\ e[i] \in Nat
      BY <2>2, <1>4, <1>0
    <3>2. e[j] = a - Len(q) + (j - Len(d))
      BY <2>2, <1>4
    <3> QED BY <3>1, <3>2, <2>2, <1>0, <1>3
  <2>3. CASE i > Len(d)
    <3>1. e[i] = a - Len(q) + (i - Len(d))
      BY <2>3, <1>4
    <3>2. e[j] = a - Len(q) + (j - Len(d))
      BY <2>3, <1>5, <1>4, <1>0, <1>3
    <3> QED BY <3>1, <3>2, <1>5, <1>0, <1>3
  <2> QED BY <2>1, <2>2, <2>3, <1>0, <1>3
<1>6. Ordered(e, a - Len(q) + n)
  BY <1>4, <1>5 DEF Ordered
<1> QED
  BY <1>3, <1>6 DEF e, out

\* A larger bound is a weaker statement.
LEMMA OrderedWeaken ==
  ASSUME NEW d, NEW b \in Nat, NEW n \in Nat, Ordered(d, b)
  PROVE  Ordered(d, b + n)
<1>1. ASSUME NEW i \in 1..Len(d) PROVE d[i] \in 1..(b + n)
  <2>1. d[i] \in 1..b
    BY DEF Ordered
  <2> QED BY <2>1
<1> QED BY <1>1 DEF Ordered

\* The invariant of ByteFifo, of a queue q after a accepted bytes of which d
\* were delivered and x dropped.
StreamKept(q, a, d, x) ==
  /\ q \in Seq(Nat) /\ a \in Nat /\ d \in Seq(Nat) /\ x \in Nat
  /\ Suffix(q, a)
  /\ Ordered(d, a - Len(q))
  /\ a = Len(d) + Len(q) + x

\* Put keeps it.
LEMMA PutKept ==
  ASSUME NEW q, NEW a, NEW d, NEW x, StreamKept(q, a, d, x), NEW n \in Nat
  PROVE  StreamKept(q \o [i \in 1..n |-> a + i], a + n, d, x)
<1> DEFINE r == q \o [i \in 1..n |-> a + i]
<1>1. /\ q \in Seq(Nat) /\ a \in Nat /\ d \in Seq(Nat) /\ x \in Nat
      /\ Suffix(q, a) /\ Ordered(d, a - Len(q))
      /\ a = Len(d) + Len(q) + x
      /\ Len(q) \in Nat /\ Len(d) \in Nat
  BY LenProperties DEF StreamKept
<1>2. r \in Seq(Nat) /\ Len(r) = Len(q) + n /\ Suffix(r, a + n)
  BY <1>1, SuffixPut
<1> HIDE DEF r
<1>3. (a + n) - Len(r) = a - Len(q) /\ a + n = Len(d) + Len(r) + x /\ a + n \in Nat
  BY <1>1, <1>2
<1>4. Ordered(d, (a + n) - Len(r))
  BY <1>1, <1>3
<1>5. StreamKept(r, a + n, d, x)
  BY <1>1, <1>2, <1>3, <1>4 DEF StreamKept
<1> QED BY <1>5 DEF r

\* Deliver keeps it.
LEMMA DeliverKept ==
  ASSUME NEW q, NEW a, NEW d, NEW x, StreamKept(q, a, d, x), NEW n \in 0..Len(q)
  PROVE  StreamKept(SubSeq(q, n + 1, Len(q)), a, d \o SubSeq(q, 1, n), x)
<1> DEFINE r == SubSeq(q, n + 1, Len(q))
           e == d \o SubSeq(q, 1, n)
<1>1. /\ q \in Seq(Nat) /\ a \in Nat /\ d \in Seq(Nat) /\ x \in Nat
      /\ Suffix(q, a) /\ Ordered(d, a - Len(q))
      /\ a = Len(d) + Len(q) + x
      /\ Len(q) \in Nat /\ Len(d) \in Nat /\ n \in Nat /\ n <= Len(q)
  BY LenProperties DEF StreamKept
<1>2. r \in Seq(Nat) /\ Len(r) = Len(q) - n /\ Suffix(r, a)
  BY <1>1, SuffixTake
<1>3. e \in Seq(Nat) /\ Len(e) = Len(d) + n /\ Ordered(e, a - Len(q) + n)
  BY <1>1, OrderedDeliver
<1> HIDE DEF r, e
<1>4. a - Len(r) = a - Len(q) + n /\ a = Len(e) + Len(r) + x
  BY <1>1, <1>2, <1>3
<1>5. Ordered(e, a - Len(r))
  BY <1>3, <1>4
<1>6. StreamKept(r, a, e, x)
  BY <1>1, <1>2, <1>3, <1>4, <1>5 DEF StreamKept
<1> QED BY <1>6 DEF r, e

\* Discard keeps it.
LEMMA DiscardKept ==
  ASSUME NEW q, NEW a, NEW d, NEW x, StreamKept(q, a, d, x), NEW n \in 0..Len(q)
  PROVE  StreamKept(SubSeq(q, n + 1, Len(q)), a, d, x + n)
<1> DEFINE r == SubSeq(q, n + 1, Len(q))
<1>1. /\ q \in Seq(Nat) /\ a \in Nat /\ d \in Seq(Nat) /\ x \in Nat
      /\ Suffix(q, a) /\ Ordered(d, a - Len(q)) /\ Len(q) <= a
      /\ a = Len(d) + Len(q) + x
      /\ Len(q) \in Nat /\ Len(d) \in Nat /\ n \in Nat /\ n <= Len(q)
  BY LenProperties DEF StreamKept, Suffix
<1>2. r \in Seq(Nat) /\ Len(r) = Len(q) - n /\ Suffix(r, a)
  BY <1>1, SuffixTake
<1> HIDE DEF r
<1>3. /\ a - Len(q) \in Nat /\ a - Len(r) = (a - Len(q)) + n
      /\ a = Len(d) + Len(r) + (x + n) /\ x + n \in Nat
  BY <1>1, <1>2
<1>4. Ordered(d, a - Len(r))
  BY <1>1, <1>3, OrderedWeaken
<1>5. StreamKept(r, a, d, x + n)
  BY <1>1, <1>2, <1>3, <1>4 DEF StreamKept
<1> QED BY <1>5 DEF r

-----------------------------------------------------------------------------
\* The queue of the buffered bytes.

Buffered == PendingBytes(prep) \o ring

\* The invariant of ByteFifo in these terms, in a state and in the next one.
LEMMA FifoInvUnfolded ==
  /\ Fifo!FifoInv <=> StreamKept(Buffered, accepted, delivered, dropped)
  /\ Fifo!FifoInv' <=> StreamKept(Buffered', accepted', delivered', dropped')
BY DEF Fifo!FifoInv, Fifo!TypeOK, Fifo!QueueIsStreamSuffix, Fifo!InOrder,
       Fifo!Conservation, Suffix, Ordered, StreamKept, Buffered

\* Whatever is put, delivered and discarded in whatever order: the stream
\* stays in order, without duplicates, and every byte is accounted for.
THEOREM FifoInvariant == Fifo!Spec => []Fifo!FifoInv
<1>0. BufSize \in Nat
  BY SizesAssumption
<1>1. Fifo!Init => Fifo!FifoInv
  BY DEF Fifo!Init, Fifo!FifoInv, Fifo!TypeOK, Fifo!QueueIsStreamSuffix,
         Fifo!Conservation, Fifo!InOrder
<1>2. Fifo!FifoInv /\ [Fifo!Next]_(Fifo!fifoVars) => Fifo!FifoInv'
  <2> SUFFICES ASSUME Fifo!FifoInv, [Fifo!Next]_(Fifo!fifoVars)
               PROVE  Fifo!FifoInv'
    OBVIOUS
  <2>0. StreamKept(Buffered, accepted, delivered, dropped)
    BY FifoInvUnfolded
  <2>1. ASSUME NEW n \in 0..BufSize, Fifo!Put(n) PROVE Fifo!FifoInv'
    <3>1. /\ Buffered' = Buffered \o [i \in 1..n |-> accepted + i]
          /\ accepted' = accepted + n
          /\ delivered' = delivered /\ dropped' = dropped
      BY <2>1 DEF Fifo!Put, Buffered
    <3>2. n \in Nat
      BY <1>0
    <3>3. StreamKept(Buffered', accepted', delivered', dropped')
      BY <3>1, <3>2, <2>0, PutKept
    <3> QED BY <3>3, FifoInvUnfolded
  <2>2. ASSUME NEW n \in 0..Len(Buffered), Fifo!Deliver(n) PROVE Fifo!FifoInv'
    <3>1. /\ Buffered' = SubSeq(Buffered, n + 1, Len(Buffered))
          /\ delivered' = delivered \o SubSeq(Buffered, 1, n)
          /\ accepted' = accepted /\ dropped' = dropped
      BY <2>2 DEF Fifo!Deliver, Buffered
    <3>2. StreamKept(Buffered', accepted', delivered', dropped')
      BY <3>1, <2>0, DeliverKept
    <3> QED BY <3>2, FifoInvUnfolded
  <2>3. ASSUME NEW n \in 0..Len(Buffered), Fifo!Discard(n) PROVE Fifo!FifoInv'
    <3>1. /\ Buffered' = SubSeq(Buffered, n + 1, Len(Buffered))
          /\ dropped' = dropped + n
          /\ accepted' = accepted /\ delivered' = delivered
      BY <2>3 DEF Fifo!Discard, Buffered
    <3>2. StreamKept(Buffered', accepted', delivered', dropped')
      BY <3>1, <2>0, DiscardKept
    <3> QED BY <3>2, FifoInvUnfolded
  <2>4. CASE UNCHANGED Fifo!fifoVars
    <3>1. /\ Buffered' = Buffered /\ accepted' = accepted
          /\ delivered' = delivered /\ dropped' = dropped
      BY <2>4 DEF Fifo!fifoVars, Buffered
    <3> QED BY <3>1, <2>0, FifoInvUnfolded
  <2> QED
    BY <2>1, <2>2, <2>3, <2>4 DEF Fifo!Next, Buffered
<1> QED
  BY <1>1, <1>2, PTL DEF Fifo!Spec

-----------------------------------------------------------------------------
\* The prepend buffer and the ring.

PendingIn(p) ==
  /\ p \in PrependType
  /\ p.off <= p.len
  /\ p.len <= PrependCap

\* The pending bytes form a sequence of length pending(p).
LEMMA PendingFacts ==
  ASSUME NEW p, PendingIn(p)
  PROVE  /\ pending(p) \in Nat /\ pending(p) <= PrependCap
         /\ pending(p) = p.len - p.off
         /\ PendingBytes(p) \in Seq(Nat)
         /\ Len(PendingBytes(p)) = pending(p)
         /\ \A i \in 1..pending(p) : PendingBytes(p)[i] = p.buf[p.off + i]
<1>1. /\ p.len \in Nat /\ p.off \in Nat /\ p.buf \in [1..PrependCap -> Nat]
      /\ p.off <= p.len /\ p.len <= PrependCap /\ PrependCap \in Nat
  BY SizesAssumption DEF PendingIn, PrependType
<1>2. pending(p) = p.len - p.off /\ pending(p) \in Nat /\ pending(p) <= PrependCap
  BY <1>1 DEF pending
<1>3. \A i \in 1..pending(p) : p.buf[p.off + i] \in Nat
  <2>1. ASSUME NEW i \in 1..pending(p) PROVE p.off + i \in 1..PrependCap
    BY <1>1, <1>2
  <2> QED BY <2>1, <1>1
<1>4. PendingBytes(p) \in [1..pending(p) -> Nat]
  BY <1>3 DEF PendingBytes
<1>5. PendingBytes(p) \in Seq(Nat) /\ Len(PendingBytes(p)) = pending(p)
  BY <1>2, <1>4, FcnIsSeq
<1> QED
  BY <1>2, <1>5 DEF PendingBytes

\* PrependBuffer::read consumes exactly the first n pending bytes.
LEMMA PrependReadFacts ==
  ASSUME NEW p, PendingIn(p), NEW n \in Nat, n <= pending(p)
  PROVE  LET t == PrependAfterRead(p, n)
         IN  /\ PendingIn(t)
             /\ pending(t) = pending(p) - n
             /\ PendingBytes(t) = SubSeq(PendingBytes(p), n + 1, pending(p))
<1> DEFINE t == PrependAfterRead(p, n)
           P == PendingBytes(p)
           w == SubSeq(P, n + 1, pending(p))
           done == p.off + n >= p.len
<1>0. p \in PrependType
  BY DEF PendingIn
<1>1. /\ p.len \in Nat /\ p.off \in Nat /\ p.off <= p.len /\ p.len <= PrependCap
      /\ PrependCap \in Nat
      /\ pending(p) \in Nat /\ pending(p) = p.len - p.off
  BY SizesAssumption, PendingFacts DEF PendingIn, PrependType
<1>2. P \in Seq(Nat) /\ Len(P) = pending(p)
  BY PendingFacts
<1>3. \A i \in 1..pending(p) : P[i] = p.buf[p.off + i]
  BY PendingFacts
<1>4. /\ t \in PrependType
      /\ t.buf = p.buf
      /\ done => t.len = 0 /\ t.off = 0
      /\ ~done => t.len = p.len /\ t.off = p.off + n
  <2>1. CASE done
    BY <2>1, <1>0 DEF PrependAfterRead, PrependType
  <2>2. CASE ~done
    BY <2>2, <1>0, <1>1 DEF PrependAfterRead, PrependType
  <2> QED BY <2>1, <2>2
<1> HIDE DEF t, P
<1>5. PendingIn(t) /\ t.len - t.off = pending(p) - n
  <2>1. CASE done
    <3>1. t.len = 0 /\ t.off = 0
      BY <2>1, <1>4
    <3>2. n = pending(p)
      BY <2>1, <1>1
    <3> QED BY <3>1, <3>2, <1>1, <1>4 DEF PendingIn
  <2>2. CASE ~done
    <3>1. t.len = p.len /\ t.off = p.off + n
      BY <2>2, <1>4
    <3>2. p.off + n <= p.len /\ p.len - (p.off + n) = pending(p) - n
      BY <2>2, <1>1
    <3> QED BY <3>1, <3>2, <1>1, <1>4 DEF PendingIn
  <2> QED BY <2>1, <2>2
<1>6. pending(t) = pending(p) - n
  <2>1. pending(t) = t.len - t.off
    BY <1>5, PendingFacts
  <2> QED BY <2>1, <1>5
<1>7. PendingBytes(t) \in Seq(Nat) /\ Len(PendingBytes(t)) = pending(p) - n
  BY <1>5, <1>6, PendingFacts
<1>8. \A i \in 1..(pending(p) - n) : PendingBytes(t)[i] = t.buf[t.off + i]
  BY <1>5, <1>6, PendingFacts
<1>9. /\ w \in Seq(Nat) /\ Len(w) = pending(p) - n
      /\ \A i \in 1..(pending(p) - n) : w[i] = P[n + i]
  <2>1. n <= Len(P) /\ pending(p) = Len(P)
    BY <1>2
  <2>2. /\ SubSeq(P, n + 1, Len(P)) \in Seq(Nat)
        /\ Len(SubSeq(P, n + 1, Len(P))) = Len(P) - n
        /\ \A i \in 1..(Len(P) - n) : SubSeq(P, n + 1, Len(P))[i] = P[n + i]
    BY <2>1, <1>2, TailFacts
  <2> QED BY <2>1, <2>2
<1> HIDE DEF w
<1>10. ASSUME NEW i \in 1..(pending(p) - n) PROVE PendingBytes(t)[i] = w[i]
  <2>0. i \in Nat /\ i >= 1 /\ i <= pending(p) - n
    BY <1>1
  <2>1. n + i \in 1..pending(p) /\ ~done /\ p.off + (n + i) = (p.off + n) + i
    BY <2>0, <1>1
  <2>2. w[i] = p.buf[p.off + (n + i)]
    BY <2>1, <1>3, <1>9
  <2>3. t.off = p.off + n /\ t.buf = p.buf
    BY <2>1, <1>4
  <2>4. PendingBytes(t)[i] = p.buf[(p.off + n) + i]
    BY <2>3, <1>8
  <2> QED BY <2>1, <2>2, <2>4
<1>11. PendingBytes(t) = w
  BY <1>7, <1>9, <1>10, SameElements
<1> QED
  BY <1>5, <1>6, <1>11 DEF t, w, P

\* PrependBuffer::writeToFront puts the data before what was pending.
LEMMA WriteToFrontFacts ==
  ASSUME NEW p, PendingIn(p), NEW d \in Seq(Nat),
         Len(d) + pending(p) <= PrependCap
  PROVE  LET t == writeToFront(p, d)
         IN  /\ PendingIn(t)
             /\ PendingBytes(t) = d \o PendingBytes(p)
<1> DEFINE t == writeToFront(p, d)
           P == PendingBytes(p)
           w == d \o P
<1>1. /\ p.len \in Nat /\ p.off \in Nat /\ p.off <= p.len /\ p.len <= PrependCap
      /\ PrependCap \in Nat /\ Len(d) \in Nat
      /\ pending(p) \in Nat /\ pending(p) = p.len - p.off
  BY SizesAssumption, PendingFacts, LenProperties DEF PendingIn, PrependType
<1>2. p.buf \in [1..PrependCap -> Nat]
  BY DEF PendingIn, PrependType
<1>3. P \in Seq(Nat) /\ Len(P) = pending(p)
  BY PendingFacts
<1>4. \A i \in 1..pending(p) : P[i] = p.buf[p.off + i]
  BY PendingFacts
<1>5. /\ t = [buf |-> t.buf, len |-> t.len, off |-> t.off]
      /\ t.len = Len(d) + pending(p) /\ t.off = 0
  BY DEF writeToFront
<1>6. t.buf = [i \in 1..PrependCap |->
                 IF i <= Len(d) THEN d[i]
                 ELSE IF i <= Len(d) + pending(p)
                      THEN p.buf[p.off + i - Len(d)] ELSE p.buf[i]]
  BY DEF writeToFront
<1> HIDE DEF t, P
<1>7. ASSUME NEW i \in 1..PrependCap
      PROVE  /\ t.buf[i] \in Nat
             /\ i <= Len(d) => t.buf[i] = d[i]
             /\ i > Len(d) /\ i <= Len(d) + pending(p)
                  => t.buf[i] = p.buf[p.off + (i - Len(d))]
  <2>0. i \in Nat /\ i >= 1 /\ i <= PrependCap
    BY <1>1
  <2>1. CASE i <= Len(d)
    <3>1. i \in 1..Len(d) /\ ~(i > Len(d))
      BY <2>0, <2>1, <1>1
    <3>2. d[i] \in Nat
      BY <3>1, ElementOfSeq
    <3>3. t.buf[i] = d[i]
      BY <2>1, <1>6
    <3> QED BY <3>1, <3>2, <3>3
  <2>2. CASE i > Len(d) /\ i <= Len(d) + pending(p)
    <3>1. ~(i <= Len(d))
      BY <2>0, <2>2, <1>1
    <3>2. p.off + i - Len(d) = p.off + (i - Len(d))
      BY <2>0, <1>1
    <3>3. p.off + (i - Len(d)) \in 1..PrependCap
      BY <2>0, <2>2, <1>1
    <3>4. t.buf[i] = p.buf[p.off + (i - Len(d))]
      BY <3>1, <3>2, <2>2, <1>6
    <3> QED BY <3>1, <3>3, <3>4, <1>2
  <2>3. CASE i > Len(d) + pending(p)
    <3>1. ~(i <= Len(d)) /\ ~(i <= Len(d) + pending(p))
      BY <2>0, <2>3, <1>1
    <3>2. t.buf[i] = p.buf[i]
      BY <3>1, <1>6
    <3> QED BY <3>1, <3>2, <1>2
  <2>4. i <= Len(d) \/ (i > Len(d) /\ i <= Len(d) + pending(p))
          \/ i > Len(d) + pending(p)
    BY <2>0, <1>1
  <2> QED BY <2>1, <2>2, <2>3, <2>4
<1>8. PendingIn(t) /\ t.len - t.off = Len(d) + pending(p)
  <2>1. t.buf \in [1..PrependCap -> Nat]
    BY <1>6, <1>7
  <2>2. /\ t.len \in Nat /\ t.off \in Nat
        /\ t.off <= t.len /\ t.len <= PrependCap
        /\ t.len - t.off = Len(d) + pending(p)
    BY <1>1, <1>5
  <2>3. t \in PrependType
    BY <2>1, <2>2, <1>5 DEF PrependType
  <2> QED BY <2>2, <2>3 DEF PendingIn
<1>9. /\ pending(t) = Len(d) + pending(p)
      /\ PendingBytes(t) \in Seq(Nat)
      /\ Len(PendingBytes(t)) = Len(d) + pending(p)
  <2>1. /\ pending(t) = t.len - t.off
        /\ PendingBytes(t) \in Seq(Nat) /\ Len(PendingBytes(t)) = pending(t)
    BY <1>8, PendingFacts
  <2> QED BY <2>1, <1>8
<1>10. \A i \in 1..(Len(d) + pending(p)) : PendingBytes(t)[i] = t.buf[t.off + i]
  BY <1>8, <1>9, PendingFacts
<1>11. /\ w \in Seq(Nat) /\ Len(w) = Len(d) + pending(p)
       /\ \A i \in 1..(Len(d) + pending(p)) :
            w[i] = IF i <= Len(d) THEN d[i] ELSE P[i - Len(d)]
  <2>1. /\ w \in Seq(Nat) /\ Len(w) = Len(d) + Len(P)
        /\ \A i \in 1..(Len(d) + Len(P)) :
             w[i] = IF i <= Len(d) THEN d[i] ELSE P[i - Len(d)]
    BY <1>3, CatFacts
  <2> QED BY <2>1, <1>3
<1> HIDE DEF w
<1>12. ASSUME NEW i \in 1..(Len(d) + pending(p)) PROVE PendingBytes(t)[i] = w[i]
  <2>0. i \in Nat /\ i >= 1 /\ i \in 1..PrependCap /\ i <= Len(d) + pending(p)
    BY <1>1
  <2>1. PendingBytes(t)[i] = t.buf[i]
    <3>1. t.off + i = i
      BY <1>5, <2>0
    <3> QED BY <3>1, <1>10
  <2>2. CASE i <= Len(d)
    <3>1. w[i] = d[i]
      BY <2>2, <1>11
    <3> QED BY <3>1, <2>0, <2>1, <2>2, <1>7
  <2>3. CASE i > Len(d)
    <3>1. ~(i <= Len(d)) /\ i - Len(d) \in 1..pending(p)
      BY <2>0, <2>3, <1>1
    <3>2. w[i] = P[i - Len(d)]
      BY <3>1, <1>11
    <3>3. P[i - Len(d)] = p.buf[p.off + (i - Len(d))]
      BY <3>1, <1>4
    <3>4. t.buf[i] = p.buf[p.off + (i - Len(d))]
      BY <2>0, <2>3, <1>7
    <3> QED BY <3>2, <3>3, <3>4, <2>1
  <2>4. i <= Len(d) \/ i > Len(d)
    BY <2>0, <1>1
  <2> QED BY <2>2, <2>3, <2>4
<1>13. PendingBytes(t) = w
  BY <1>9, <1>11, <1>12, SameElements
<1> QED
  BY <1>8, <1>13 DEF t, w, P

\* One read() of at most len bytes takes a head of the queue, and leaves room
\* for all of it in the prepend buffer: either the prepend buffer was emptied
\* (and len <= bufSize_ <= capacity), or only pending bytes were read.
LEMMA ReadFacts ==
  ASSUME NEW p, PendingIn(p), NEW r \in Seq(Nat), NEW len \in 1..BufSize,
         NEW k \in ReceiveUpTo(r, len - Minimum(len, pending(p)))
  PROVE  LET a   == Minimum(len, pending(p))
             P   == PendingBytes(p)
             q   == P \o r
             got == SubSeq(P, 1, a) \o SubSeq(r, 1, k)
             p1  == PrependAfterRead(p, a)
             r1  == SubSeq(r, k + 1, Len(r))
         IN  /\ a + k \in Nat /\ a + k <= Len(q)
             /\ q \in Seq(Nat)
             /\ got = SubSeq(q, 1, a + k)
             /\ got \in Seq(Nat) /\ Len(got) = a + k
             /\ PendingIn(p1)
             /\ (a + k) + pending(p1) <= PrependCap
             /\ r1 \in Seq(Nat) /\ Len(r1) <= Len(r)
             /\ PendingBytes(p1) \o r1 = SubSeq(q, a + k + 1, Len(q))
<1> DEFINE a   == Minimum(len, pending(p))
           P   == PendingBytes(p)
           q   == P \o r
           got == SubSeq(P, 1, a) \o SubSeq(r, 1, k)
           p1  == PrependAfterRead(p, a)
           r1  == SubSeq(r, k + 1, Len(r))
<1>0. /\ len \in Nat /\ len >= 1 /\ len <= BufSize /\ BufSize \in Nat
      /\ BufSize <= PrependCap /\ PrependCap \in Nat
      /\ Len(r) \in Nat
  BY SizesAssumption, LenProperties
<1>1. pending(p) \in Nat /\ pending(p) <= PrependCap
  BY PendingFacts
<1>2. P \in Seq(Nat) /\ Len(P) = pending(p)
  BY PendingFacts
<1>3. /\ a \in Nat /\ a <= len /\ a <= pending(p)
      /\ a < pending(p) => a = len
  BY <1>0, <1>1 DEF Minimum
<1> HIDE DEF a, P
<1>4. /\ k \in Nat /\ k <= Len(r) /\ k <= len - a
  <2>1. k \in ReceiveUpTo(r, len - a)
    BY DEF a
  <2>2. len - a \in Nat
    BY <1>0, <1>3
  <2> HIDE DEF a
  <2> QED BY <2>1, <2>2, <1>0 DEF ReceiveUpTo, Minimum
<1>5. a < pending(p) => k = 0
  BY <1>0, <1>1, <1>3, <1>4
<1>6. a + k \in Nat /\ a + k <= len /\ a + k <= pending(p) + Len(r)
  BY <1>0, <1>1, <1>3, <1>4
<1>7. q \in Seq(Nat) /\ Len(q) = pending(p) + Len(r)
  BY <1>2, CatFacts
<1>8. got = SubSeq(q, 1, a + k)
  BY <1>2, <1>3, <1>4, <1>5, SplitHead
<1>9. got \in Seq(Nat) /\ Len(got) = a + k
  <2> HIDE DEF got, q
  <2>1. a + k <= Len(q)
    BY <1>6, <1>7
  <2>2. SubSeq(q, 1, a + k) \in Seq(Nat) /\ Len(SubSeq(q, 1, a + k)) = a + k
    BY <2>1, <1>6, <1>7, HeadFacts
  <2> QED BY <2>2, <1>8
<1>10. /\ PendingIn(p1) /\ pending(p1) = pending(p) - a
       /\ PendingBytes(p1) = SubSeq(P, a + 1, pending(p))
  BY <1>3, PrependReadFacts DEF P
<1>11. (a + k) + pending(p1) <= PrependCap
  <2> HIDE DEF p1
  <2>0. pending(p1) = pending(p) - a
    BY <1>10
  <2>1. CASE a < pending(p)
    BY <2>0, <2>1, <1>1, <1>3, <1>5
  <2>2. CASE a = pending(p)
    BY <2>0, <2>2, <1>0, <1>1, <1>3, <1>6
  <2> QED BY <2>1, <2>2, <1>1, <1>3
<1>12. r1 \in Seq(Nat) /\ Len(r1) <= Len(r)
  <2>1. r1 \in Seq(Nat) /\ Len(r1) = Len(r) - k
    BY <1>4, TailFacts
  <2> QED BY <2>1, <1>0, <1>4
<1>13. PendingBytes(p1) \o r1 = SubSeq(q, a + k + 1, Len(q))
  <2>1. SubSeq(P, a + 1, Len(P)) \o r1 = SubSeq(q, a + k + 1, Len(q))
    BY <1>2, <1>3, <1>4, <1>5, SplitTail
  <2> QED BY <2>1, <1>2, <1>10
<1>14. a + k <= Len(q)
  BY <1>6, <1>7
<1> HIDE DEF q, got, p1, r1
<1>15. /\ a + k \in Nat /\ a + k <= Len(q)
       /\ q \in Seq(Nat)
       /\ got = SubSeq(q, 1, a + k)
       /\ got \in Seq(Nat) /\ Len(got) = a + k
       /\ PendingIn(p1)
       /\ (a + k) + pending(p1) <= PrependCap
       /\ r1 \in Seq(Nat) /\ Len(r1) <= Len(r)
       /\ PendingBytes(p1) \o r1 = SubSeq(q, a + k + 1, Len(q))
  BY <1>6, <1>7, <1>8, <1>9, <1>10, <1>11, <1>12, <1>13, <1>14
<1> QED
  BY <1>15 DEF a, P, q, got, p1, r1

-----------------------------------------------------------------------------
(* The inductive invariant: TypeOK alone does not exclude a prepend buffer  *)
(* filled beyond its storage, and FIFO order needs that the fallback of     *)
(* restoreUnsent is never taken.                                            *)
RingInv == TypeOK /\ InBounds /\ NoFallback

q == PendingBytes(prep) \o ring

LEMMA RingInvFacts ==
  ASSUME RingInv
  PROVE  /\ PendingIn(prep) /\ ring \in Seq(Nat) /\ Len(ring) <= RingCap
         /\ Len(ring) \in Nat /\ RingCap \in Nat
         /\ PendingBytes(prep) \in Seq(Nat)
         /\ q \in Seq(Nat)
         /\ Len(q) = size(prep, ring)
         /\ accepted \in Nat /\ delivered \in Seq(Nat) /\ dropped \in Nat
<1>1. PendingIn(prep) /\ ring \in Seq(Nat) /\ Len(ring) <= RingCap
  BY DEF RingInv, TypeOK, InBounds, PendingIn
<1>2. /\ PendingBytes(prep) \in Seq(Nat)
      /\ Len(PendingBytes(prep)) = pending(prep)
  BY <1>1, PendingFacts
<1>3. q \in Seq(Nat) /\ Len(q) = pending(prep) + Len(ring)
  BY <1>1, <1>2, CatFacts DEF q
<1> QED
  BY <1>1, <1>2, <1>3, SizesAssumption, LenProperties
     DEF size, RingInv, TypeOK

\* A producer's write() is a Put of all its bytes.
LEMMA WriteStep ==
  ASSUME RingInv, NEW rc \in 1..BufSize, Write(rc)
  PROVE  RingInv' /\ Fifo!Put(rc)
<1> DEFINE new == [i \in 1..rc |-> accepted + i]
<1>0. /\ PendingIn(prep) /\ ring \in Seq(Nat) /\ Len(ring) <= RingCap
      /\ Len(ring) \in Nat /\ RingCap \in Nat /\ accepted \in Nat
      /\ PendingBytes(prep) \in Seq(Nat)
  BY RingInvFacts
<1>1. rc \in Nat /\ rc <= RingCap - Len(ring) /\ rc \in 0..BufSize
  BY <1>0, SizesAssumption DEF Write, Minimum, available
<1>2. new \in Seq(Nat) /\ Len(new) = rc
  BY <1>0, <1>1
<1>3. /\ ring' = ring \o Fitting(ring, new) /\ accepted' = accepted + rc
      /\ prep' = prep /\ delivered' = delivered /\ dropped' = dropped
      /\ handle' = handle /\ fellBack' = fellBack
  BY DEF Write
<1> HIDE DEF new
<1>4. Fitting(ring, new) = new
  <2>1. Minimum(Len(new), available(ring)) = Len(new)
    BY <1>0, <1>1, <1>2 DEF Minimum, available
  <2>2. SubSeq(new, 1, Len(new)) = new
    BY <1>2, SubSeqFull
  <2> QED BY <2>1, <2>2 DEF Fitting
<1>5. ring' \in Seq(Nat) /\ Len(ring') = Len(ring) + rc
  <2>1. ring' = ring \o new
    BY <1>3, <1>4
  <2> QED BY <2>1, <1>0, <1>2, CatFacts
<1>6. RingInv'
  <2>1. Len(ring') <= RingCap
    BY <1>0, <1>1, <1>5
  <2>2. accepted' \in Nat
    BY <1>0, <1>1, <1>3
  <2> QED BY <2>1, <2>2, <1>3, <1>5 DEF RingInv, TypeOK, InBounds, NoFallback
<1>7. PendingBytes(prep)' \o ring' = (PendingBytes(prep) \o ring) \o new
  <2>1. PendingBytes(prep') = PendingBytes(prep)
    BY <1>3
  <2>2. PendingBytes(prep) \o (ring \o new) = (PendingBytes(prep) \o ring) \o new
    <3>1. ring \in Seq(Nat) /\ PendingBytes(prep) \in Seq(Nat) /\ new \in Seq(Nat)
      BY <1>0, <1>2
    <3> QED BY <3>1, CatAssoc, Zenon
  <2>3. ring' = ring \o new
    BY <1>3, <1>4
  <2> QED BY <2>1, <2>2, <2>3
<1> QED
  BY <1>1, <1>3, <1>6, <1>7 DEF Fifo!Put, new

\* A drained chunk of which the peer took `sent` bytes is a Deliver(sent):
\* the rest goes back to the front of the queue, nothing is dropped.
LEMMA DrainChunkStep ==
  ASSUME RingInv, NEW len \in 1..BufSize, NEW k \in 0..len, NEW sent \in 0..len,
         DrainChunk(len, k, sent)
  PROVE  RingInv' /\ sent \in 0..Len(q) /\ Fifo!Deliver(sent)
<1> DEFINE a   == Minimum(len, pending(prep))
           h   == a + k
           got == ReadBytes(len, k)
           rest == SubSeq(got, sent + 1, Len(got))
           p1  == PrependAfter(len)
           r1  == RingAfter(k)
           res == Restored(p1, r1, rest)
<1>0. /\ PendingIn(prep) /\ ring \in Seq(Nat) /\ Len(ring) <= RingCap
      /\ Len(ring) \in Nat /\ RingCap \in Nat
      /\ accepted \in Nat /\ delivered \in Seq(Nat) /\ dropped \in Nat
  BY RingInvFacts
<1>1. /\ k \in ReceiveUpTo(ring, len - Minimum(len, pending(prep)))
      /\ sent \in 0..Len(got)
      /\ prep' = res.prep /\ ring' = res.ring
      /\ delivered' = delivered \o SubSeq(got, 1, sent)
      /\ dropped' = dropped + RestoreDrop(Len(rest), res.kept)
      /\ fellBack' = (fellBack \/ res.fallback)
      /\ handle' = handle /\ accepted' = accepted
  BY DEF DrainChunk, CanRead
<1>2. /\ h \in Nat /\ h <= Len(q)
      /\ q \in Seq(Nat)
      /\ got = SubSeq(q, 1, h)
      /\ got \in Seq(Nat) /\ Len(got) = h
      /\ PendingIn(p1)
      /\ h + pending(p1) <= PrependCap
      /\ r1 \in Seq(Nat) /\ Len(r1) <= Len(ring)
      /\ PendingBytes(p1) \o r1 = SubSeq(q, h + 1, Len(q))
  BY <1>0, <1>1, ReadFacts DEF q, ReadBytes, PrependAfter, RingAfter
<1> HIDE DEF h, got, p1, r1, a
<1>3. sent \in Nat /\ sent <= h /\ Len(q) \in Nat /\ sent <= Len(q)
  BY <1>1, <1>2, LenProperties
<1>4. rest \in Seq(Nat) /\ Len(rest) = h - sent
  <2>1. sent <= Len(got)
    BY <1>2, <1>3
  <2>2. rest \in Seq(Nat) /\ Len(rest) = Len(got) - sent
    BY <2>1, <1>2, <1>3, TailFacts
  <2> QED BY <2>2, <1>2
<1>5. /\ rest \o SubSeq(q, h + 1, Len(q)) = SubSeq(q, sent + 1, Len(q))
      /\ SubSeq(got, 1, sent) = SubSeq(q, 1, sent)
  <2>1. /\ SubSeq(SubSeq(q, 1, h), sent + 1, h) \o SubSeq(q, h + 1, Len(q))
             = SubSeq(q, sent + 1, Len(q))
        /\ SubSeq(SubSeq(q, 1, h), 1, sent) = SubSeq(q, 1, sent)
    BY <1>2, <1>3, PutBack
  <2>2. rest = SubSeq(SubSeq(q, 1, h), sent + 1, h)
    BY <1>2
  <2> QED BY <2>1, <2>2, <1>2
<1> HIDE DEF rest
<1>6. /\ pending(p1) \in Nat /\ PendingBytes(p1) \in Seq(Nat)
      /\ PrependCap \in Nat
  BY <1>2, PendingFacts, SizesAssumption
<1>7. /\ PendingIn(res.prep) /\ res.ring = r1
      /\ res.kept = Len(rest) /\ res.fallback = FALSE
      /\ PendingBytes(res.prep) \o res.ring = SubSeq(q, sent + 1, Len(q))
  <2>1. CASE Len(rest) = 0
    <3>1. res = [prep |-> p1, ring |-> r1, kept |-> 0, fallback |-> FALSE]
      BY <2>1 DEF Restored
    <3>2. sent = h
      BY <2>1, <1>2, <1>3, <1>4
    <3> QED BY <3>1, <3>2, <2>1, <1>2
  <2>2. CASE Len(rest) # 0
    <3>1. Len(rest) + pending(p1) <= PrependCap
      <4>1. Len(rest) <= h /\ Len(rest) \in Nat
        BY <1>2, <1>3, <1>4
      <4> QED BY <4>1, <1>2, <1>6
    <3>2. FitsInFront(p1, rest)
      <4>1. Len(rest) \in Nat
        BY <1>4, LenProperties
      <4> QED BY <3>1, <4>1, <1>6 DEF FitsInFront
    <3>3. res = [prep |-> writeToFront(p1, rest), ring |-> r1,
                 kept |-> Len(rest), fallback |-> FALSE]
      BY <2>2, <3>2 DEF Restored
    <3>4. /\ PendingIn(writeToFront(p1, rest))
          /\ PendingBytes(writeToFront(p1, rest)) = rest \o PendingBytes(p1)
      BY <3>1, <1>2, <1>4, WriteToFrontFacts
    <3>5. (rest \o PendingBytes(p1)) \o r1 = rest \o (PendingBytes(p1) \o r1)
      <4>1. r1 \in Seq(Nat) /\ PendingBytes(p1) \in Seq(Nat) /\ rest \in Seq(Nat)
        BY <1>2, <1>4, <1>6
      <4> QED BY <4>1, CatAssoc, Zenon
    <3>6. (rest \o PendingBytes(p1)) \o r1 = SubSeq(q, sent + 1, Len(q))
      BY <3>5, <1>2, <1>5
    <3>7. /\ res.prep = writeToFront(p1, rest) /\ res.ring = r1
          /\ res.kept = Len(rest) /\ res.fallback = FALSE
      BY <3>3
    <3> QED BY <3>4, <3>6, <3>7, Zenon
  <2> QED BY <2>1, <2>2
<1> HIDE DEF res
<1>8. dropped' = dropped
  <2>1. Len(rest) \in Nat
    BY <1>4, LenProperties
  <2> QED BY <2>1, <1>0, <1>1, <1>7 DEF RestoreDrop
<1>9. delivered' \in Seq(Nat)
  <2>1. SubSeq(got, 1, sent) \in Seq(Nat)
    BY <1>2, <1>3, HeadFacts
  <2> QED BY <2>1, <1>0, <1>1, ConcatProperties
<1>10. RingInv'
  <2>1. ring' \in Seq(Nat) /\ Len(ring') <= RingCap
    <3>1. ring' = r1 /\ Len(r1) \in Nat
      BY <1>1, <1>2, <1>7, LenProperties
    <3> QED BY <3>1, <1>0, <1>2
  <2>2. PendingIn(prep')
    BY <1>1, <1>7
  <2>3. fellBack' = FALSE
    BY <1>1, <1>7 DEF RingInv, NoFallback
  <2> QED BY <2>1, <2>2, <2>3, <1>0, <1>1, <1>8, <1>9
          DEF RingInv, TypeOK, InBounds, NoFallback, PendingIn
<1>11. PendingBytes(prep)' \o ring' = SubSeq(q, sent + 1, Len(q))
  BY <1>1, <1>7
<1>12. delivered' = delivered \o SubSeq(q, 1, sent)
  BY <1>1, <1>5
<1>13. sent \in 0..Len(q)
  BY <1>3
<1> QED
  BY <1>1, <1>8, <1>10, <1>11, <1>12, <1>13 DEF Fifo!Deliver, q

\* A chunk lost to a failed local send is a Discard of the head it was.
LEMMA DrainErrorStep ==
  ASSUME RingInv, NEW len \in 1..BufSize, NEW k \in 0..len, DrainError(len, k)
  PROVE  RingInv' /\ \E n \in 0..Len(q) : Fifo!Discard(n)
<1> DEFINE a   == Minimum(len, pending(prep))
           h   == a + k
           got == ReadBytes(len, k)
           p1  == PrependAfter(len)
           r1  == RingAfter(k)
<1>0. /\ PendingIn(prep) /\ ring \in Seq(Nat) /\ Len(ring) <= RingCap
      /\ Len(ring) \in Nat /\ RingCap \in Nat
      /\ accepted \in Nat /\ delivered \in Seq(Nat) /\ dropped \in Nat
  BY RingInvFacts
<1>1. /\ k \in ReceiveUpTo(ring, len - Minimum(len, pending(prep)))
      /\ prep' = p1 /\ ring' = r1
      /\ dropped' = dropped + Len(got)
      /\ delivered' = delivered /\ fellBack' = fellBack
      /\ handle' = handle /\ accepted' = accepted
  BY DEF DrainError, CanRead
<1>2. /\ h \in Nat /\ h <= Len(q)
      /\ q \in Seq(Nat) /\ Len(got) = h
      /\ PendingIn(p1)
      /\ r1 \in Seq(Nat) /\ Len(r1) <= Len(ring)
      /\ PendingBytes(p1) \o r1 = SubSeq(q, h + 1, Len(q))
  BY <1>0, <1>1, ReadFacts DEF q, ReadBytes, PrependAfter, RingAfter
<1> HIDE DEF h, got, p1, r1, a
<1>3. Len(q) \in Nat /\ h \in 0..Len(q) /\ Len(r1) \in Nat
  BY <1>2, LenProperties
<1>4. RingInv'
  <2>1. Len(ring') <= RingCap /\ dropped' \in Nat
    BY <1>0, <1>1, <1>2, <1>3
  <2> QED BY <2>1, <1>0, <1>1, <1>2
          DEF RingInv, TypeOK, InBounds, NoFallback, PendingIn
<1>5. Fifo!Discard(h)
  <2>1. PendingBytes(prep)' \o ring' = SubSeq(q, h + 1, Len(q))
    BY <1>1, <1>2
  <2>2. dropped' = dropped + h
    BY <1>1, <1>2
  <2> QED BY <2>1, <2>2, <1>1, <1>3 DEF Fifo!Discard, q
<1> QED
  BY <1>3, <1>4, <1>5

\* Deleting the buffer discards, and counts, everything it still holds.
LEMMA DestroyStep ==
  ASSUME RingInv, Destroy
  PROVE  RingInv' /\ \E n \in 0..Len(q) : Fifo!Discard(n)
<1>0. /\ PendingIn(prep) /\ q \in Seq(Nat) /\ Len(q) = size(prep, ring)
      /\ dropped \in Nat /\ Len(q) \in Nat /\ RingCap \in Nat
  BY RingInvFacts, LenProperties
<1>1. /\ prep' = [prep EXCEPT !.len = 0, !.off = 0] /\ ring' = <<>>
      /\ dropped' = dropped + Len(q) /\ handle' = FALSE
      /\ accepted' = accepted /\ delivered' = delivered /\ fellBack' = fellBack
  BY <1>0 DEF Destroy
<1>2. PendingIn(prep') /\ prep'.len = 0 /\ prep'.off = 0
  <2>1. prep \in PrependType
    BY <1>0 DEF PendingIn
  <2>2. prep' \in PrependType /\ prep'.len = 0 /\ prep'.off = 0
    BY <2>1, <1>1 DEF PrependType
  <2>3. 0 <= PrependCap
    BY SizesAssumption
  <2> QED BY <2>2, <2>3 DEF PendingIn
<1>3. pending(prep') = 0
  BY <1>2 DEF pending
<1>4. PendingBytes(prep') \in Seq(Nat) /\ Len(PendingBytes(prep')) = 0
  BY <1>2, <1>3, PendingFacts
<1>5. PendingBytes(prep)' \o ring' = <<>>
  <2>1. PendingBytes(prep') = <<>>
    BY <1>4, EmptySeq
  <2> QED BY <2>1, <1>1
<1>6. SubSeq(q, Len(q) + 1, Len(q)) = <<>>
  BY <1>0, SubSeqEmpty
<1>7. RingInv'
  <2>1. ring' \in Seq(Nat) /\ Len(ring') = 0
    BY <1>1
  <2>2. Len(ring') <= RingCap /\ dropped' \in Nat
    BY <2>1, <1>0, <1>1
  <2> QED BY <2>1, <2>2, <1>1, <1>2
          DEF RingInv, TypeOK, InBounds, NoFallback, PendingIn
<1>8. Fifo!Discard(Len(q))
  BY <1>0, <1>1, <1>5, <1>6 DEF Fifo!Discard, q
<1> QED
  BY <1>0, <1>7, <1>8

-----------------------------------------------------------------------------
\* Every step keeps the invariant and is a step of the FIFO queue or leaves it
\* as it is.
LEMMA RingStep ==
  ASSUME RingInv, [Next]_vars
  PROVE  RingInv' /\ [Fifo!Next]_(Fifo!fifoVars)
<1>1. ASSUME NEW rc \in 1..BufSize, Write(rc)
      PROVE  RingInv' /\ Fifo!Next
  <2>1. RingInv' /\ Fifo!Put(rc) /\ rc \in 0..BufSize
    BY <1>1, WriteStep
  <2> QED BY <2>1 DEF Fifo!Next
<1>2. ASSUME NEW len \in 1..BufSize, NEW k \in 0..len, NEW sent \in 0..len,
             DrainChunk(len, k, sent)
      PROVE  RingInv' /\ Fifo!Next
  BY <1>2, DrainChunkStep DEF Fifo!Next, q
<1>3. ASSUME NEW len \in 1..BufSize, NEW k \in 0..len, DrainError(len, k)
      PROVE  RingInv' /\ Fifo!Next
  BY <1>3, DrainErrorStep DEF Fifo!Next, q
<1>4. CASE Destroy
  BY <1>4, DestroyStep DEF Fifo!Next, q
<1>5. CASE UNCHANGED vars
  BY <1>5 DEF vars, RingInv, TypeOK, InBounds, NoFallback, Fifo!fifoVars,
              PendingBytes, pending
<1> QED
  BY <1>1, <1>2, <1>3, <1>4, <1>5 DEF Next

LEMMA RingInit ==
  ASSUME Init
  PROVE  RingInv /\ Fifo!Init
<1>1. PrependCap \in Nat /\ RingCap \in Nat /\ 0 <= PrependCap /\ 0 <= RingCap
  BY SizesAssumption
<1>2. prep = EmptyPrepend /\ prep.len = 0 /\ prep.off = 0
  BY DEF Init, EmptyPrepend
<1>3. prep \in PrependType
  BY <1>1, <1>2 DEF EmptyPrepend, PrependType
<1>4. PendingIn(prep) /\ pending(prep) = 0
  BY <1>1, <1>2, <1>3 DEF PendingIn, pending
<1>5. PendingBytes(prep) = <<>>
  BY <1>4, PendingFacts, EmptySeq
<1>6. PendingBytes(prep) \o ring = <<>>
  BY <1>5 DEF Init
<1>7. /\ handle \in BOOLEAN /\ accepted = 0 /\ delivered = <<>>
      /\ dropped = 0 /\ fellBack = FALSE /\ ring = <<>>
  BY DEF Init
<1>8. TypeOK
  <2>1. <<>> \in Seq(Nat)
    OBVIOUS
  <2>2. accepted \in Nat /\ dropped \in Nat
    BY <1>7
  <2>3. handle \in BOOLEAN /\ fellBack \in BOOLEAN
    BY <1>7, Zenon
  <2> QED BY <2>1, <2>2, <2>3, <1>3, <1>7, Zenon DEF TypeOK
<1>9. InBounds /\ NoFallback
  BY <1>1, <1>2, <1>7 DEF InBounds, NoFallback
<1>10. Fifo!Init
  BY <1>6, <1>7 DEF Fifo!Init
<1> QED
  BY <1>8, <1>9, <1>10 DEF RingInv

\* Type correctness of the ring buffer, for all sizes.
THEOREM RingTypeCorrect == Spec => []TypeOK
<1>1. RingInv /\ [Next]_vars => RingInv'
  BY RingStep
<1>2. Init => RingInv
  BY RingInit
<1>3. RingInv => TypeOK
  BY DEF RingInv
<1> QED
  BY <1>1, <1>2, <1>3, PTL DEF Spec

\* writeToFront and the ring never leave their storage, and restoreUnsent never
\* falls back to appending old bytes behind newer ones.
THEOREM RingSafe == Spec => [](InBounds /\ NoFallback)
<1>1. RingInv /\ [Next]_vars => RingInv'
  BY RingStep
<1>2. Init => RingInv
  BY RingInit
<1>3. RingInv => InBounds /\ NoFallback
  BY DEF RingInv
<1> QED
  BY <1>1, <1>2, <1>3, PTL DEF Spec

\* The buffer implements the FIFO queue: on EAGAIN, partial sends, send errors
\* and deletion alike.
THEOREM RingIsFifo == Spec => RefinesFifo
<1>1. RingInv /\ [Next]_vars => RingInv' /\ [Fifo!Next]_(Fifo!fifoVars)
  BY RingStep
<1>2. Init => RingInv /\ Fifo!Init
  BY RingInit
<1> QED
  BY <1>1, <1>2, PTL DEF Spec, RefinesFifo, Fifo!Spec

\* The peer of either ring receives the stream in order and without
\* duplicates, and every byte is buffered, delivered or counted as dropped.
THEOREM RingStreamIntact == Spec => []StreamIntact
<1>1. Fifo!FifoInv => StreamIntact
  BY DEF Fifo!FifoInv, StreamIntact, Fifo!InOrder, Fifo!Conservation
<1> QED
  BY <1>1, RingIsFifo, FifoInvariant, PTL DEF RefinesFifo
=============================================================================
