------------------------- MODULE ConfigButtonProofs -------------------------
(* The BOOT button raises an action only for the presses it stands for,     *)
(* for all thresholds with 0 < click < window < hold.                       *)
EXTENDS ConfigButton, SequenceTheorems, TLAPS

\* The time between the n + 1 latest clicks.
Span(gs, n) == IF n = 0 THEN 0
               ELSE IF n = 1 THEN gs[1]
               ELSE IF n = 2 THEN gs[1] + gs[2]
               ELSE IF n = 3 THEN gs[1] + gs[2] + gs[3]
               ELSE gs[1] + gs[2] + gs[3] + gs[4]

\* The finger made m + 1 clicks since the window started ...
Backed(m, gs, q, age) == Len(gs) >= m /\ Span(gs, m) + q <= age

\* ... so many that at most `slack' of the counted ones were none, as long as
\* the window is open.
CountBacked(slack, n, gs, q, age) ==
  slack < n /\ age <= ClickWindow => Backed(n - 1 - slack, gs, q, age)

\* The latest of n clicks is not newer than the window says.
CountOld(n, gs, q, age) ==
  0 < n => Len(gs) >= n - 1 /\ Span(gs, n - 1) + q >= age

\* A registered press is the one the finger makes, or too long for a click.
PressSound == wasPressed => (down /\ pressedAge = downFor) \/ pressedAge = EditHold

Stamps ==
  /\ pressedAge <= uptime /\ windowAge <= uptime
  /\ down => wasPressed

\* What an action that waits to be polled leaves behind.
Pending ==
  /\ polling = 1 => pending \in {"Edit", "WifiReset"}
  /\ polling = 7 => pending # "None"
  /\ pending # "FactoryReset" => clickCount <= 4
  /\ pending = "Edit" => clickCount = 0
  /\ pending = "WifiReset" => clickCount = 0 \/ windowAge = WindowCap
  /\ pending # "None" /\ wasPressed => pressedAge = EditHold

CountSound == CountBacked(0, clickCount, gaps, quiet, windowAge)
CountOffByOne == CountBacked(1, clickCount, gaps, quiet, windowAge)

\* At most one counted click was a bounce, and only after an interrupted reset;
\* while the press that would be taken for one is still open, none was.
Earned ==
  pending = "None" =>
    \/ CountSound /\ PressSound
    \/ /\ interrupted /\ polling \in {0, 6}
       /\ CountSound \/ (CountOffByOne /\ PressSound)

\* Without an interrupted reset the sampler knows the press and the clicks.
Tracked ==
  pending = "None" /\ ~interrupted =>
    /\ polling = 0 /\ wasPressed =>
         down /\ pressedAge = downFor /\ ~holdTriggered
    /\ polling = 0 => CountOld(clickCount, gaps, quiet, windowAge)
    /\ polling \in 3..6 => clickCount = 0
    /\ polling \in 5..6 => ~wasPressed

ButtonInv == TypeOK /\ Stamps /\ Pending /\ Earned /\ Tracked

-----------------------------------------------------------------------------
\* Ages.

LEMMA Thresholds ==
  /\ ClickMin \in Nat /\ ClickWindow \in Nat /\ EditHold \in Nat
  /\ MaxRefusals \in Nat /\ WindowCap \in Nat
  /\ 0 < ClickMin /\ ClickMin < ClickWindow /\ WindowCap = ClickWindow + 1
  /\ WindowCap <= EditHold
BY ButtonAssumption DEF WindowCap

\* A sample later an age is one larger, up to its cap.
LEMMA OlderFacts ==
  ASSUME NEW cap \in Nat, NEW age \in 0..cap
  PROVE  /\ Older(age, cap) \in 0..cap
         /\ age < cap => Older(age, cap) = age + 1
         /\ age = cap => Older(age, cap) = cap
         /\ age <= Older(age, cap) /\ Older(age, cap) <= age + 1
BY DEF Older

\* The smaller of two numbers.
LEMMA AtMostFacts ==
  ASSUME NEW a \in Nat, NEW b \in Nat
  PROVE  /\ AtMost(a, b) \in 0..b /\ AtMost(a, b) <= a
         /\ \A m \in Nat : m <= a /\ m <= b => m <= AtMost(a, b)
BY DEF AtMost

\* The order of two ages is kept.
LEMMA OlderMonotone ==
  ASSUME NEW c \in Nat, NEW d \in Nat, c <= d,
         NEW a \in 0..c, NEW b \in 0..d, a <= b
  PROVE  Older(a, c) <= Older(b, d)
BY DEF Older

-----------------------------------------------------------------------------
\* Gaps between clicks.

\* A gap in front of the others.
LEMMA ConsFacts ==
  ASSUME NEW S, NEW s \in S, NEW g \in Seq(S)
  PROVE  LET t == <<s>> \o g
         IN  /\ t \in Seq(S) /\ Len(t) = Len(g) + 1 /\ t[1] = s
             /\ \A k \in 1..Len(g) : t[k + 1] = g[k]
<1>1. <<s>> \in Seq(S) /\ Len(<<s>>) = 1 /\ <<s>>[1] = s
  OBVIOUS
<1>2. Len(g) \in Nat
  BY LenProperties
<1> QED BY <1>1, <1>2, ConcatProperties

\* Spans of a new click and of the older ones.
LEMMA SpanFacts ==
  ASSUME NEW c \in Nat, NEW s \in 1..c, NEW g \in Seq(1..c), NEW m \in 0..3,
         m <= Len(g)
  PROVE  /\ Span(g, m) \in Nat
         /\ Span(<<s>> \o g, m + 1) = s + Span(g, m)
         /\ Span(<<s>> \o g, m + 1) \in Nat
<1> DEFINE t == <<s>> \o g
<1>1. /\ t[1] = s /\ \A k \in 1..Len(g) : t[k + 1] = g[k]
      /\ Len(g) \in Nat
  BY ConsFacts, LenProperties
<1>2. \A k \in 1..Len(g) : g[k] \in Nat
  BY ElementOfSeq
<1> HIDE DEF t
<1>3. CASE m = 0
  BY <1>1, <1>3 DEF Span
<1>4. CASE m = 1
  <2>1. t[2] = g[1] /\ g[1] \in Nat
    BY <1>1, <1>2, <1>4
  <2>2. Span(g, 1) = g[1] /\ Span(t, 2) = t[1] + t[2]
    BY DEF Span
  <2> QED BY <2>1, <2>2, <1>1, <1>4 DEF t
<1>5. CASE m = 2
  <2>1. t[2] = g[1] /\ g[1] \in Nat /\ t[3] = g[2] /\ g[2] \in Nat
    <3>1. 1 \in 1..Len(g) /\ 2 \in 1..Len(g)
      BY <1>1, <1>5
    <3> QED BY <3>1, <1>1, <1>2
  <2>2. Span(g, 2) = g[1] + g[2] /\ Span(t, 3) = t[1] + t[2] + t[3]
    BY DEF Span
  <2> QED BY <2>1, <2>2, <1>1, <1>5 DEF t
<1>6. CASE m = 3
  <2>1. /\ t[2] = g[1] /\ g[1] \in Nat /\ t[3] = g[2] /\ g[2] \in Nat
        /\ t[4] = g[3] /\ g[3] \in Nat
    <3>1. 1 \in 1..Len(g) /\ 2 \in 1..Len(g) /\ 3 \in 1..Len(g)
      BY <1>1, <1>6
    <3> QED BY <3>1, <1>1, <1>2
  <2>2. /\ Span(g, 3) = g[1] + g[2] + g[3]
        /\ Span(t, 4) = t[1] + t[2] + t[3] + t[4]
    BY DEF Span
  <2>3. Span(t, 4) = s + g[1] + g[2] + g[3] /\ s \in Nat
    BY <2>1, <2>2, <1>1
  <2>4. Span(t, 4) = s + Span(g, 3) /\ Span(g, 3) \in Nat /\ Span(t, 4) \in Nat
    <3> DEFINE x == g[1]
               y == g[2]
               z == g[3]
    <3>0. x \in Nat /\ y \in Nat /\ z \in Nat /\ s \in Nat
      BY <2>1, <2>3
    <3> HIDE DEF x, y, z
    <3>1. s + x + y + z = s + (x + y + z) /\ s + x + y + z \in Nat /\ x + y + z \in Nat
      BY <3>0
    <3> QED BY <3>1, <2>2, <2>3, Zenon DEF x, y, z
  <2>5. m + 1 = 4
    BY <1>6
  <2> QED BY <2>4, <2>5, <1>6 DEF t
<1> QED
  BY <1>3, <1>4, <1>5, <1>6 DEF t

\* More clicks take longer.
LEMMA SpanGrows ==
  ASSUME NEW c \in Nat, NEW g \in Seq(1..c), NEW m \in 1..4, m <= Len(g)
  PROVE  /\ Span(g, m) \in Nat /\ Span(g, m - 1) \in Nat
         /\ Span(g, m - 1) < Span(g, m)
         /\ \A k \in 1..m : g[k] \in Nat /\ 1 <= g[k] /\ g[k] <= Span(g, m)
<1>1. \A k \in 1..Len(g) : g[k] \in Nat /\ 1 <= g[k]
  BY ElementOfSeq
<1>2. \A k \in 1..m : k \in 1..Len(g)
  BY LenProperties
<1>3. \A k \in 1..m : g[k] \in Nat /\ 1 <= g[k]
  BY <1>1, <1>2
<1>4. CASE m = 1
  BY <1>3, <1>4 DEF Span
<1>5. CASE m = 2
  <2>1. g[1] \in Nat /\ 1 <= g[1] /\ g[2] \in Nat /\ 1 <= g[2]
    BY <1>3, <1>5
  <2>2. Span(g, 2) = g[1] + g[2] /\ Span(g, 1) = g[1]
    BY DEF Span
  <2>3. \A k \in 1..2 : k = 1 \/ k = 2
    OBVIOUS
  <2> QED BY <2>1, <2>2, <2>3, <1>3, <1>5
<1>6. CASE m = 3
  <2>1. /\ g[1] \in Nat /\ 1 <= g[1] /\ g[2] \in Nat /\ 1 <= g[2]
        /\ g[3] \in Nat /\ 1 <= g[3]
    BY <1>3, <1>6
  <2>2. Span(g, 3) = g[1] + g[2] + g[3] /\ Span(g, 2) = g[1] + g[2]
    BY DEF Span
  <2>3. /\ Span(g, 3) \in Nat /\ Span(g, 2) \in Nat /\ Span(g, 2) < Span(g, 3)
        /\ g[1] <= Span(g, 3) /\ g[2] <= Span(g, 3) /\ g[3] <= Span(g, 3)
    <3> DEFINE p == g[1]
               q == g[2]
               r == g[3]
               sum == Span(g, 3)
               less == Span(g, 2)
    <3>1. p \in Nat /\ q \in Nat /\ r \in Nat /\ 1 <= r
      BY <2>1
    <3>2. sum = p + q + r /\ less = p + q
      BY <2>2
    <3> HIDE DEF p, q, r, sum, less
    <3>3. /\ sum \in Nat /\ less \in Nat /\ less < sum
          /\ p <= sum /\ q <= sum /\ r <= sum
      BY <3>1, <3>2
    <3> QED BY <3>3 DEF p, q, r, sum, less
  <2>4. m - 1 = 2 /\ \A k \in 1..m : k = 1 \/ k = 2 \/ k = 3
    BY <1>6
  <2> QED BY <2>1, <2>3, <2>4, <1>6
<1>7. CASE m = 4
  <2>1. /\ g[1] \in Nat /\ 1 <= g[1] /\ g[2] \in Nat /\ 1 <= g[2]
        /\ g[3] \in Nat /\ 1 <= g[3] /\ g[4] \in Nat /\ 1 <= g[4]
    BY <1>3, <1>7
  <2>2. Span(g, 4) = g[1] + g[2] + g[3] + g[4] /\ Span(g, 3) = g[1] + g[2] + g[3]
    BY DEF Span
  <2>3. /\ Span(g, 4) \in Nat /\ Span(g, 3) \in Nat /\ Span(g, 3) < Span(g, 4)
        /\ g[1] <= Span(g, 4) /\ g[2] <= Span(g, 4) /\ g[3] <= Span(g, 4)
        /\ g[4] <= Span(g, 4)
    <3> DEFINE p == g[1]
               q == g[2]
               r == g[3]
               s == g[4]
               sum == Span(g, 4)
               less == Span(g, 3)
    <3>1. p \in Nat /\ q \in Nat /\ r \in Nat /\ s \in Nat /\ 1 <= s
      BY <2>1
    <3>2. sum = p + q + r + s /\ less = p + q + r
      BY <2>2
    <3> HIDE DEF p, q, r, s, sum, less
    <3>3. /\ sum \in Nat /\ less \in Nat /\ less < sum
          /\ p <= sum /\ q <= sum /\ r <= sum /\ s <= sum
      BY <3>1, <3>2
    <3> QED BY <3>3 DEF p, q, r, s, sum, less
  <2>4. m - 1 = 3 /\ \A k \in 1..m : k = 1 \/ k = 2 \/ k = 3 \/ k = 4
    BY <1>7
  <2> QED BY <2>1, <2>3, <2>4, <1>7
<1> QED
  BY <1>4, <1>5, <1>6, <1>7

\* A span only looks at the clicks it spans.
LEMMA SpanOfHead ==
  ASSUME NEW c \in Nat, NEW g \in Seq(1..c), NEW n \in 0..4, n <= Len(g),
         NEW m \in 0..n
  PROVE  Span(SubSeq(g, 1, n), m) = Span(g, m)
<1> DEFINE h == SubSeq(g, 1, n)
<1>1. \A k \in 1..n : h[k] = g[k]
  BY LenProperties, SubSeqProperties
<1> HIDE DEF h
<1>2. m = 0 \/ m = 1 \/ m = 2 \/ m = 3 \/ m = 4
  OBVIOUS
<1>3. \A k \in 1..m : k \in 1..n
  OBVIOUS
<1>4. \A k \in 1..m : h[k] = g[k]
  BY <1>1, <1>3
<1> QED
  BY <1>2, <1>4 DEF Span, h

\* The clicks of one window are kept, and no others.
LEMMA WithinFacts ==
  ASSUME NEW gs \in Seq(1..WindowCap)
  PROVE  LET w == WithinWindow(gs)
         IN  /\ w \in Seq(1..ClickWindow) /\ Len(w) <= 4
             /\ \A m \in 0..4 : m <= Len(gs) /\ Span(gs, m) <= ClickWindow =>
                  m <= Len(w) /\ Span(w, m) = Span(gs, m)
<1> DEFINE top == AtMost(Len(gs), 4)
           fits == {k \in 0..top : Span(gs, k) <= ClickWindow}
           n == CHOOSE k \in fits : \A j \in fits : j <= k
           w == SubSeq(gs, 1, n)
<1>0. Len(gs) \in Nat /\ WindowCap \in Nat /\ ClickWindow \in Nat
  BY LenProperties, Thresholds
<1>1. WithinWindow(gs) = w
  BY DEF WithinWindow, Span
<1>2. top \in 0..4 /\ top <= Len(gs)
  BY <1>0, AtMostFacts
<1>3. ASSUME NEW m \in 0..4, m <= Len(gs) PROVE m <= top
  <2>1. m \in Nat /\ m <= 4 /\ 4 \in Nat
    OBVIOUS
  <2>2. \A k \in Nat : k <= Len(gs) /\ k <= 4 => k <= AtMost(Len(gs), 4)
    BY <1>0, AtMostFacts
  <2> QED BY <2>1, <2>2, <1>3
<1>4. 0 \in fits
  BY <1>0, <1>2 DEF Span
<1>5. \A k \in fits : k \in 0..4 /\ k <= Len(gs)
  BY <1>0, <1>2
<1>6. ASSUME NEW m \in 0..4, m <= Len(gs), Span(gs, m) <= ClickWindow
      PROVE  m \in fits
  <2>1. m \in 0..top
    BY <1>2, <1>3, <1>6
  <2> QED BY <2>1, <1>6
<1>7. Span(gs, n) <= ClickWindow \/ n \notin fits
  OBVIOUS
<1> HIDE DEF top, fits, n
<1>8. \E k \in fits : \A j \in fits : j <= k
  <2>1. \A k \in fits : k = 0 \/ k = 1 \/ k = 2 \/ k = 3 \/ k = 4
    BY <1>5
  <2>2. CASE 4 \in fits
    BY <2>1, <2>2
  <2>3. CASE 4 \notin fits /\ 3 \in fits
    BY <2>1, <2>3
  <2>4. CASE 4 \notin fits /\ 3 \notin fits /\ 2 \in fits
    BY <2>1, <2>4
  <2>5. CASE 4 \notin fits /\ 3 \notin fits /\ 2 \notin fits /\ 1 \in fits
    BY <2>1, <2>5
  <2>6. CASE 4 \notin fits /\ 3 \notin fits /\ 2 \notin fits /\ 1 \notin fits
    BY <2>1, <2>6, <1>4
  <2> QED BY <2>2, <2>3, <2>4, <2>5, <2>6
<1>9. n \in fits /\ \A j \in fits : j <= n
  BY <1>8 DEF n
<1>10. n \in 0..4 /\ n <= Len(gs) /\ Span(gs, n) <= ClickWindow
  BY <1>5, <1>7, <1>9
<1> HIDE DEF w
<1>11. Len(w) = n /\ \A k \in 1..n : w[k] = gs[k]
  BY <1>0, <1>10, SubSeqProperties DEF w
<1>12. w \in Seq(1..ClickWindow)
  <2>1. CASE n = 0
    <3>1. w = <<>>
      BY <2>1, <1>0, SubSeqEmpty DEF w
    <3> QED BY <3>1
  <2>2. CASE n > 0
    <3>1. n \in 1..4
      BY <2>2, <1>10
    <3>2. \A k \in 1..n : gs[k] \in Nat /\ 1 <= gs[k] /\ gs[k] <= Span(gs, n)
      BY <3>1, <1>0, <1>10, SpanGrows
    <3>3. Span(gs, n) \in Nat
      BY <3>1, <1>0, <1>10, SpanGrows
    <3>4. \A k \in 1..n : gs[k] \in 1..ClickWindow
      BY <3>2, <3>3, <1>0, <1>10
    <3>5. SubSeq(gs, 1, n) \in Seq(1..ClickWindow)
      BY <3>4, <1>10, SubSeqProperties
    <3> QED BY <3>5 DEF w
  <2> QED BY <2>1, <2>2, <1>10
<1>13. ASSUME NEW m \in 0..4, m <= Len(gs), Span(gs, m) <= ClickWindow
       PROVE  m <= Len(w) /\ Span(w, m) = Span(gs, m)
  <2>1. m \in fits /\ m <= n
    BY <1>13, <1>6, <1>9
  <2>2. m \in 0..n
    BY <2>1, <1>10
  <2> QED BY <2>1, <2>2, <1>0, <1>10, <1>11, SpanOfHead DEF w
<1> QED
  BY <1>1, <1>10, <1>11, <1>12, <1>13

-----------------------------------------------------------------------------
\* What a count of clicks says about the gaps.

GapSeqs == {g \in Seq(1..ClickWindow) : Len(g) <= 4}

\* The gaps after a click, q after the one before.
AfterClick(g, q) == WithinWindow(<<Older(q, WindowCap)>> \o g)

LEMMA AfterClickFacts ==
  ASSUME NEW g \in GapSeqs, NEW q \in 0..WindowCap
  PROVE  /\ AfterClick(g, q) \in GapSeqs
         /\ \A m \in 0..3 :
              m <= Len(g) /\ Older(q, WindowCap) + Span(g, m) <= ClickWindow =>
                /\ m + 1 <= Len(AfterClick(g, q))
                /\ Span(AfterClick(g, q), m + 1) = Older(q, WindowCap) + Span(g, m)
<1> DEFINE s == Older(q, WindowCap)
           t == <<s>> \o g
<1>0. ClickWindow \in Nat /\ WindowCap \in Nat /\ WindowCap = ClickWindow + 1
  BY Thresholds
<1>1. g \in Seq(1..WindowCap) /\ Len(g) \in Nat
  <2>1. 1..ClickWindow \subseteq 1..WindowCap
    BY <1>0
  <2>2. g \in Seq(1..ClickWindow) /\ Len(g) \in Nat
    BY LenProperties DEF GapSeqs
  <2> QED BY <2>1, <2>2, SeqMonotonic
<1>2. s \in 1..WindowCap
  BY <1>0 DEF Older
<1>3. t \in Seq(1..WindowCap) /\ Len(t) = Len(g) + 1
  BY <1>1, <1>2, ConsFacts
<1> HIDE DEF s
<1>4. ASSUME NEW m \in 0..3, m <= Len(g), s + Span(g, m) <= ClickWindow
      PROVE  /\ m + 1 <= Len(WithinWindow(t))
             /\ Span(WithinWindow(t), m + 1) = s + Span(g, m)
  <2>1. Span(t, m + 1) = s + Span(g, m)
    BY <1>0, <1>1, <1>2, <1>4, SpanFacts
  <2>2. m + 1 \in 0..4 /\ m + 1 <= Len(t)
    BY <1>1, <1>3, <1>4
  <2> QED BY <2>1, <2>2, <1>3, <1>4, WithinFacts
<1>5. WithinWindow(t) \in GapSeqs
  BY <1>3, WithinFacts DEF GapSeqs
<1> QED
  BY <1>4, <1>5 DEF AfterClick, s

\* Spans of backed counts.
LEMMA SpanInNat ==
  ASSUME NEW g \in GapSeqs, NEW m \in 0..4, m <= Len(g)
  PROVE  Span(g, m) \in Nat
<1>1. CASE m = 0
  BY <1>1 DEF Span
<1>2. CASE m # 0
  BY <1>2, SpanGrows, Thresholds DEF GapSeqs
<1> QED BY <1>1, <1>2

\* Time passes and no click is made.
LEMMA BackedLater ==
  ASSUME NEW g \in GapSeqs, NEW q \in 0..WindowCap, NEW a \in Nat,
         NEW m \in 0..4, Backed(m, g, q, a)
  PROVE  Backed(m, g, Older(q, WindowCap), a + 1)
<1>1. Span(g, m) \in Nat /\ Span(g, m) + q <= a /\ Len(g) >= m
  BY SpanInNat, LenProperties DEF Backed, GapSeqs
<1>2. Older(q, WindowCap) \in 0..WindowCap /\ Older(q, WindowCap) <= q + 1
  <2>1. WindowCap \in Nat
    BY Thresholds
  <2> QED BY <2>1, OlderFacts
<1>3. WindowCap \in Nat
  BY Thresholds
<1> QED BY <1>1, <1>2, <1>3 DEF Backed

\* A click is one more.
LEMMA BackedClick ==
  ASSUME NEW g \in GapSeqs, NEW q \in 0..WindowCap, NEW a \in Nat,
         a + 1 <= ClickWindow, NEW m \in 0..3, Backed(m, g, q, a)
  PROVE  /\ Backed(m + 1, AfterClick(g, q), 0, a + 1)
         /\ Span(AfterClick(g, q), m + 1) = q + 1 + Span(g, m)
<1>1. Span(g, m) \in Nat /\ Span(g, m) + q <= a /\ m <= Len(g)
  BY SpanInNat, LenProperties DEF Backed, GapSeqs
<1>2. q < WindowCap
  BY <1>1, Thresholds
<1>3. Older(q, WindowCap) = q + 1
  BY <1>2 DEF Older
<1>4. Older(q, WindowCap) + Span(g, m) <= ClickWindow
  BY <1>1, <1>3, Thresholds
<1>5. /\ m + 1 <= Len(AfterClick(g, q))
      /\ Span(AfterClick(g, q), m + 1) = q + 1 + Span(g, m)
  BY <1>1, <1>3, <1>4, AfterClickFacts
<1>6. AfterClick(g, q) \in GapSeqs /\ Len(AfterClick(g, q)) \in Nat
  BY AfterClickFacts, LenProperties DEF GapSeqs
<1> QED BY <1>1, <1>5, <1>6 DEF Backed

\* A click that is not counted takes nothing away.
LEMMA BackedExtra ==
  ASSUME NEW g \in GapSeqs, NEW q \in 0..WindowCap, NEW a \in Nat,
         a + 1 <= ClickWindow, NEW m \in 0..4, Backed(m, g, q, a)
  PROVE  Backed(m, AfterClick(g, q), 0, a + 1)
<1>1. CASE m = 0
  <2>1. AfterClick(g, q) \in GapSeqs /\ Len(AfterClick(g, q)) \in Nat
    BY AfterClickFacts, LenProperties DEF GapSeqs
  <2> QED BY <2>1, <1>1 DEF Backed, Span
<1>2. CASE m # 0
  <2>1. m - 1 \in 0..3 /\ (m - 1) + 1 = m /\ m \in 1..4
    BY <1>2
  <2>2. /\ Span(g, m) \in Nat /\ Span(g, m - 1) \in Nat
        /\ Span(g, m - 1) < Span(g, m)
    BY <2>1, SpanGrows, Thresholds DEF GapSeqs, Backed
  <2>3. Len(g) \in Nat
    BY LenProperties DEF GapSeqs
  <2>4. Backed(m - 1, g, q, a)
    BY <2>1, <2>2, <2>3 DEF Backed
  <2> QED BY <2>1, <2>4, BackedClick
<1> QED BY <1>1, <1>2

\* The count and the age of its window after a sample, and after a click.
Counted(n, a) == IF n > 0 /\ Older(a, WindowCap) > ClickWindow THEN 0 ELSE n
ClickAge(n, a) == IF Counted(n, a) = 0 THEN 0 ELSE Older(a, WindowCap)

\* An open window is younger than its cap.
LEMMA OpenWindow ==
  ASSUME NEW a \in 0..WindowCap, Older(a, WindowCap) <= ClickWindow
  PROVE  /\ a \in Nat /\ a + 1 <= ClickWindow /\ a <= ClickWindow
         /\ Older(a, WindowCap) = a + 1
BY Thresholds DEF Older

LEMMA CountLater ==
  ASSUME NEW g \in GapSeqs, NEW q \in 0..WindowCap, NEW a \in 0..WindowCap,
         NEW n \in 0..4, NEW k \in 0..1, CountBacked(k, n, g, q, a)
  PROVE  /\ CountBacked(k, n, g, Older(q, WindowCap), Older(a, WindowCap))
         /\ CountBacked(k, n, AfterClick(g, q), 0, Older(a, WindowCap))
<1> SUFFICES ASSUME k < n, Older(a, WindowCap) <= ClickWindow
             PROVE  /\ Backed(n - 1 - k, g, Older(q, WindowCap), Older(a, WindowCap))
                    /\ Backed(n - 1 - k, AfterClick(g, q), 0, Older(a, WindowCap))
  BY DEF CountBacked
<1>1. /\ a \in Nat /\ a + 1 <= ClickWindow /\ a <= ClickWindow
      /\ Older(a, WindowCap) = a + 1
  BY OpenWindow
<1>2. n - 1 - k \in 0..4 /\ Backed(n - 1 - k, g, q, a)
  BY <1>1 DEF CountBacked
<1> QED BY <1>1, <1>2, BackedLater, BackedExtra

\* A counted click that the finger made.
LEMMA CountClick ==
  ASSUME NEW g \in GapSeqs, NEW q \in 0..WindowCap, NEW a \in 0..WindowCap,
         NEW n \in 0..4, NEW k \in 0..1, CountBacked(k, n, g, q, a)
  PROVE  CountBacked(k, Counted(n, a) + 1, AfterClick(g, q), 0, ClickAge(n, a))
<1>0. AfterClick(g, q) \in GapSeqs /\ Len(AfterClick(g, q)) \in Nat
  BY AfterClickFacts, LenProperties DEF GapSeqs
<1>1. CASE Counted(n, a) = 0
  <2>1. Backed(0, AfterClick(g, q), 0, 0)
    BY <1>0 DEF Backed, Span
  <2> QED BY <2>1, <1>1 DEF CountBacked, ClickAge
<1>2. CASE Counted(n, a) # 0
  <2>1. /\ Counted(n, a) = n /\ n \in 1..4 /\ Older(a, WindowCap) \in 0..WindowCap
        /\ ~(Older(a, WindowCap) > ClickWindow)
    <3>1. WindowCap \in Nat
      BY Thresholds
    <3>2. Older(a, WindowCap) \in 0..WindowCap
      BY <3>1, OlderFacts
    <3> QED BY <1>2, <3>2 DEF Counted
  <2>2. Older(a, WindowCap) <= ClickWindow
    BY <2>1, Thresholds
  <2>3. /\ a \in Nat /\ a + 1 <= ClickWindow /\ a <= ClickWindow
        /\ Older(a, WindowCap) = a + 1 /\ ClickAge(n, a) = a + 1
    BY <2>2, <1>2, OpenWindow DEF ClickAge
  <2>4. CASE k < n
    <3>1. n - 1 - k \in 0..3 /\ Backed(n - 1 - k, g, q, a)
      BY <2>1, <2>3, <2>4 DEF CountBacked
    <3>2. Backed((n - 1 - k) + 1, AfterClick(g, q), 0, a + 1)
      BY <3>1, <2>3, BackedClick
    <3>3. (n - 1 - k) + 1 = (n + 1) - 1 - k
      BY <2>1
    <3> QED BY <3>2, <3>3, <2>1, <2>3 DEF CountBacked
  <2>5. CASE ~(k < n)
    <3>1. n = 1 /\ k = 1
      BY <2>1, <2>5
    <3>2. Backed(0, AfterClick(g, q), 0, a + 1)
      BY <1>0, <2>3 DEF Backed, Span
    <3> QED BY <3>1, <3>2, <2>1, <2>3 DEF CountBacked
  <2> QED BY <2>4, <2>5
<1> QED BY <1>1, <1>2

\* A counted click that the finger did not make.
LEMMA CountBounce ==
  ASSUME NEW g \in GapSeqs, NEW q \in 0..WindowCap, NEW a \in 0..WindowCap,
         NEW n \in 0..4, CountBacked(0, n, g, q, a)
  PROVE  CountBacked(1, Counted(n, a) + 1, g, Older(q, WindowCap), ClickAge(n, a))
<1>1. CASE Counted(n, a) = 0
  BY <1>1 DEF CountBacked
<1>2. CASE Counted(n, a) # 0
  <2>1. Counted(n, a) = n /\ ClickAge(n, a) = Older(a, WindowCap) /\ n \in 1..4
    BY <1>2 DEF Counted, ClickAge
  <2>2. CountBacked(0, n, g, Older(q, WindowCap), Older(a, WindowCap))
    BY CountLater
  <2>3. n - 1 - 0 = (n + 1) - 1 - 1 /\ 0 < n /\ 1 < n + 1
    BY <2>1
  <2> QED BY <2>1, <2>2, <2>3 DEF CountBacked
<1> QED BY <1>1, <1>2

\* A window that seems older than it is.
LEMMA CountAged ==
  ASSUME NEW g \in GapSeqs, NEW q \in 0..WindowCap, NEW a \in 0..WindowCap,
         NEW b \in 0..WindowCap, a <= b,
         NEW n \in 0..4, NEW k \in 0..1, CountBacked(k, n, g, q, a)
  PROVE  CountBacked(k, n, g, q, b)
<1> SUFFICES ASSUME k < n, b <= ClickWindow
             PROVE  Backed(n - 1 - k, g, q, b)
  BY DEF CountBacked
<1>0. WindowCap \in Nat /\ ClickWindow \in Nat
  BY Thresholds
<1>1. n - 1 - k \in 0..4 /\ Backed(n - 1 - k, g, q, a)
  BY <1>0 DEF CountBacked
<1>2. Span(g, n - 1 - k) \in Nat
  BY <1>1, SpanInNat, LenProperties DEF Backed, GapSeqs
<1> QED BY <1>0, <1>1, <1>2 DEF Backed

\* The clicks lie as far back as the window says: time passes, a click is made.
LEMMA OldLater ==
  ASSUME NEW g \in GapSeqs, NEW q \in 0..WindowCap, NEW a \in 0..WindowCap,
         NEW n \in 0..4, CountOld(n, g, q, a)
  PROVE  CountOld(n, g, Older(q, WindowCap), Older(a, WindowCap))
<1> SUFFICES ASSUME 0 < n
             PROVE  /\ Len(g) >= n - 1
                    /\ Span(g, n - 1) + Older(q, WindowCap) >= Older(a, WindowCap)
  BY DEF CountOld
<1>1. Len(g) >= n - 1 /\ Span(g, n - 1) + q >= a
  BY DEF CountOld
<1>2. n - 1 \in 0..4 /\ Span(g, n - 1) \in Nat
  BY <1>1, SpanInNat, LenProperties DEF GapSeqs
<1>3. WindowCap \in Nat
  BY Thresholds
<1> HIDE DEF Span
<1> QED BY <1>1, <1>2, <1>3 DEF Older

LEMMA OldClick ==
  ASSUME NEW g \in GapSeqs, NEW q \in 0..WindowCap, NEW a \in 0..WindowCap,
         NEW n \in 0..4, CountBacked(0, n, g, q, a), CountOld(n, g, q, a)
  PROVE  CountOld(Counted(n, a) + 1, AfterClick(g, q), 0, ClickAge(n, a))
<1>0. AfterClick(g, q) \in GapSeqs /\ Len(AfterClick(g, q)) \in Nat
  BY AfterClickFacts, LenProperties DEF GapSeqs
<1>1. CASE Counted(n, a) = 0
  BY <1>0, <1>1 DEF CountOld, ClickAge, Span
<1>2. CASE Counted(n, a) # 0
  <2>1. /\ Counted(n, a) = n /\ n \in 1..4 /\ Older(a, WindowCap) \in 0..WindowCap
        /\ ~(Older(a, WindowCap) > ClickWindow)
    <3>1. WindowCap \in Nat
      BY Thresholds
    <3>2. Older(a, WindowCap) \in 0..WindowCap
      BY <3>1, OlderFacts
    <3> QED BY <1>2, <3>2 DEF Counted
  <2>2. Older(a, WindowCap) <= ClickWindow
    BY <2>1, Thresholds
  <2>3. /\ a \in Nat /\ a + 1 <= ClickWindow /\ a <= ClickWindow
        /\ Older(a, WindowCap) = a + 1 /\ ClickAge(n, a) = a + 1
    BY <2>2, <1>2, OpenWindow DEF ClickAge
  <2>4. n - 1 \in 0..3 /\ Backed(n - 1, g, q, a)
    <3>1. n - 1 - 0 = n - 1 /\ 0 < n /\ n - 1 \in 0..3
      BY <2>1
    <3> QED BY <3>1, <2>3 DEF CountBacked
  <2>5. /\ Backed((n - 1) + 1, AfterClick(g, q), 0, a + 1)
        /\ Span(AfterClick(g, q), (n - 1) + 1) = q + 1 + Span(g, n - 1)
    BY <2>3, <2>4, BackedClick
  <2>6. (n - 1) + 1 = n /\ (n + 1) - 1 = n /\ 0 < n + 1
    BY <2>1
  <2>7. Len(AfterClick(g, q)) >= n /\ Span(AfterClick(g, q), n) = q + 1 + Span(g, n - 1)
    BY <2>5, <2>6 DEF Backed
  <2>8. Span(g, n - 1) \in Nat /\ Span(g, n - 1) + q >= a /\ q \in Nat
    <3>1. Len(g) >= n - 1 /\ Span(g, n - 1) + q >= a
      BY <2>1 DEF CountOld
    <3> QED BY <3>1, <2>4, SpanInNat, LenProperties, Thresholds DEF GapSeqs
  <2>9. Span(AfterClick(g, q), n) + 0 >= a + 1
    BY <2>3, <2>7, <2>8
  <2> QED BY <2>1, <2>3, <2>6, <2>7, <2>9 DEF CountOld
<1> QED BY <1>1, <1>2

-----------------------------------------------------------------------------
\* Samples.

\* What the type invariant says about the numbers and the gaps.
LEMMA Types ==
  ASSUME TypeOK
  PROVE  /\ uptime \in 0..EditHold /\ pressedAge \in 0..EditHold
         /\ downFor \in 0..EditHold
         /\ windowAge \in 0..WindowCap /\ quiet \in 0..WindowCap
         /\ clickCount \in 0..5 /\ polling \in 0..7
         /\ gaps \in GapSeqs
BY DEF TypeOK, GapSeqs

\* A quiet sampler polls nothing and has counted four clicks at most.
LEMMA Watching ==
  ASSUME ButtonInv, pending = "None"
  PROVE  /\ polling \in {0, 2, 3, 4, 5, 6} /\ clickCount \in 0..4
         /\ polling \notin 2..6 => polling = 0
<1>1. clickCount \in 0..5 /\ polling \in 0..7
  BY Types DEF ButtonInv
<1>2. polling # 1 /\ polling # 7 /\ clickCount <= 4
  BY DEF ButtonInv, Pending
<1> QED BY <1>1, <1>2

\* When a sample falls between two assignments of the reset, and how long that
\* is remembered.
LEMMA Interruption ==
  ASSUME ButtonInv, Sample
  PROVE  /\ interrupted' \in BOOLEAN
         /\ polling \in 2..6 => interrupted'
         /\ interrupted /\ ~interrupted' =>
              ~wasPressed' /\ ~(clickCount' > 0) /\ pending' = "None"
         /\ polling' = polling /\ refusals' = refusals
         /\ uptime' = Older(uptime, EditHold)
<1>1. /\ interrupted' = (polling \in 2..6 \/
                          (interrupted /\ (wasPressed' \/ clickCount' > 0
                                            \/ pending' # "None")))
      /\ polling' = polling /\ refusals' = refusals
      /\ uptime' = Older(uptime, EditHold)
  BY DEF Sample
<1> QED BY <1>1, Zenon

\* Earned is kept when the count and the press are.
LEMMA EarnedStep ==
  ASSUME ButtonInv, Sample, pending = "None", clickCount' \in Nat,
         CountSound /\ PressSound => CountSound' /\ PressSound',
         CountSound => CountSound' \/ (CountOffByOne' /\ PressSound'),
         CountOffByOne /\ PressSound => CountOffByOne' /\ PressSound'
  PROVE  Earned'
<1> SUFFICES ASSUME pending' = "None"
             PROVE  \/ CountSound' /\ PressSound'
                    \/ /\ interrupted' /\ polling' \in {0, 6}
                       /\ CountSound' \/ (CountOffByOne' /\ PressSound')
  BY Zenon DEF Earned
<1>1. \/ CountSound /\ PressSound
      \/ /\ interrupted /\ polling \in {0, 6}
         /\ CountSound \/ (CountOffByOne /\ PressSound)
  BY Zenon DEF ButtonInv, Earned
<1>2. polling' = polling
  BY Interruption
<1>3. CASE CountSound /\ PressSound
  BY <1>3
<1>4. CASE interrupted /\ ~interrupted'
  <2>1. ~wasPressed' /\ ~(clickCount' > 0)
    BY <1>4, Interruption, Zenon
  <2>2. PressSound'
    BY <2>1 DEF PressSound
  <2>3. CountSound'
    BY <2>1 DEF CountSound, CountBacked
  <2> QED BY <2>2, <2>3
<1>5. CASE /\ interrupted /\ polling \in {0, 6} /\ interrupted'
           /\ CountSound \/ (CountOffByOne /\ PressSound)
  BY <1>2, <1>5, Zenon
<1> QED BY <1>1, <1>3, <1>4, <1>5, Zenon

\* What may be assumed of a sample that is remembered as undisturbed.
LEMMA Undisturbed ==
  ASSUME ButtonInv, Sample, pending = "None", ~interrupted',
         clickCount' \in Nat
  PROVE  /\ polling = 0 /\ polling' = 0
         /\ \/ ~wasPressed' /\ clickCount' = 0 /\ pending' = "None"
            \/ /\ ~interrupted /\ CountSound /\ PressSound
               /\ wasPressed => down /\ pressedAge = downFor /\ ~holdTriggered
               /\ CountOld(clickCount, gaps, quiet, windowAge)
<1>1. polling \notin 2..6 /\ polling' = polling
  BY Interruption, Zenon
<1>2. polling = 0
  BY <1>1, Watching
<1>3. CASE interrupted
  <2>1. ~wasPressed' /\ ~(clickCount' > 0) /\ pending' = "None"
    BY <1>3, Interruption, Zenon
  <2> QED BY <1>1, <1>2, <2>1
<1>4. CASE ~interrupted
  <2>1. CountSound /\ PressSound
    BY <1>4, Zenon DEF ButtonInv, Earned
  <2>2. /\ wasPressed => down /\ pressedAge = downFor /\ ~holdTriggered
        /\ CountOld(clickCount, gaps, quiet, windowAge)
    BY <1>2, <1>4, Zenon DEF ButtonInv, Tracked
  <2> QED BY <1>1, <1>2, <1>4, <2>1, <2>2, Zenon
<1> QED BY <1>3, <1>4

\* Samples while an action waits.
LEMMA SampleBlockedStep ==
  ASSUME ButtonInv, Sample, SampleBlocked
  PROVE  ButtonInv'
<1>1. /\ pending # "None" /\ pending' = pending
      /\ down' = FALSE /\ downFor' = 0 /\ gaps' = gaps
      /\ quiet' = Older(quiet, WindowCap)
      /\ pressedAge' = Older(pressedAge, EditHold)
      /\ windowAge' = Older(windowAge, WindowCap)
      /\ wasPressed' = wasPressed /\ clickCount' = clickCount
      /\ holdTriggered' = holdTriggered
  BY DEF SampleBlocked, FingerUnwatched
<1>2. /\ polling' = polling /\ refusals' = refusals
      /\ uptime' = Older(uptime, EditHold) /\ interrupted' \in BOOLEAN
  BY Interruption
<1>3. WindowCap \in Nat /\ EditHold \in Nat /\ WindowCap <= EditHold
  BY Thresholds
<1>4. /\ uptime \in 0..EditHold /\ pressedAge \in 0..EditHold
      /\ windowAge \in 0..WindowCap /\ quiet \in 0..WindowCap
  BY Types DEF ButtonInv
<1>5. /\ uptime' \in 0..EditHold /\ pressedAge' \in 0..EditHold
      /\ windowAge' \in 0..WindowCap /\ quiet' \in 0..WindowCap
      /\ windowAge = WindowCap => windowAge' = WindowCap
      /\ pressedAge = EditHold => pressedAge' = EditHold
  BY <1>1, <1>2, <1>3, <1>4, OlderFacts
<1>6. TypeOK'
  <2>1. downFor' \in 0..EditHold
    BY <1>1, <1>3
  <2>2. TypeOK
    BY DEF ButtonInv
  <2>3. down' \in BOOLEAN
    BY <1>1, Zenon
  <2> QED BY <2>1, <2>2, <2>3, <1>1, <1>2, <1>5, Zenon DEF TypeOK
<1>7. Stamps'
  <2>1. pressedAge <= uptime /\ windowAge <= uptime
    BY DEF ButtonInv, Stamps
  <2>2. pressedAge' <= uptime' /\ windowAge' <= uptime'
    BY <2>1, <1>1, <1>2, <1>3, <1>4, OlderMonotone
  <2> QED BY <2>2, <1>1 DEF Stamps
<1>8. Pending'
  BY <1>1, <1>2, <1>5 DEF ButtonInv, Pending
<1>9. Earned' /\ Tracked'
  BY <1>1, Zenon DEF Earned, Tracked
<1> QED BY <1>6, <1>7, <1>8, <1>9 DEF ButtonInv

\* The ages a sample leaves, when the finger is watched.
LEMMA SampleAges ==
  ASSUME ButtonInv, Sample
  PROVE  /\ uptime' \in 0..EditHold
         /\ Older(pressedAge, EditHold) \in 0..EditHold
         /\ Older(downFor, EditHold) \in 0..EditHold
         /\ Older(windowAge, WindowCap) \in 0..WindowCap
         /\ Older(quiet, WindowCap) \in 0..WindowCap
         /\ Older(pressedAge, EditHold) <= uptime'
         /\ Older(windowAge, WindowCap) <= uptime'
         /\ pressedAge = EditHold => Older(pressedAge, EditHold) = EditHold
<1>1. uptime' = Older(uptime, EditHold)
  BY Interruption
<1>2. WindowCap \in Nat /\ EditHold \in Nat /\ WindowCap <= EditHold
  BY Thresholds
<1>3. /\ uptime \in 0..EditHold /\ pressedAge \in 0..EditHold
      /\ windowAge \in 0..WindowCap /\ quiet \in 0..WindowCap
      /\ downFor \in 0..EditHold
  BY Types DEF ButtonInv
<1>4. pressedAge <= uptime /\ windowAge <= uptime
  BY DEF ButtonInv, Stamps
<1>5. /\ Older(pressedAge, EditHold) <= uptime'
      /\ Older(windowAge, WindowCap) <= uptime'
  BY <1>1, <1>2, <1>3, <1>4, OlderMonotone
<1>6. /\ uptime' \in 0..EditHold
      /\ Older(pressedAge, EditHold) \in 0..EditHold
      /\ Older(downFor, EditHold) \in 0..EditHold
      /\ pressedAge = EditHold => Older(pressedAge, EditHold) = EditHold
  BY <1>1, <1>2, <1>3, OlderFacts
<1>7. /\ Older(windowAge, WindowCap) \in 0..WindowCap
      /\ Older(quiet, WindowCap) \in 0..WindowCap
  BY <1>2, <1>3, OlderFacts
<1> QED BY <1>5, <1>6, <1>7

\* A sample that changes neither the finger's clicks nor the count.
LEMMA QuietCount ==
  ASSUME ButtonInv, pending = "None",
         gaps' = gaps, quiet' = Older(quiet, WindowCap),
         windowAge' = Older(windowAge, WindowCap),
         clickCount' = clickCount \/ clickCount' = 0
  PROVE  /\ CountSound => CountSound'
         /\ CountOffByOne => CountOffByOne'
         /\ CountOld(clickCount, gaps, quiet, windowAge) =>
              CountOld(clickCount', gaps', quiet', windowAge')
<1>1. /\ gaps \in GapSeqs /\ quiet \in 0..WindowCap /\ windowAge \in 0..WindowCap
      /\ clickCount \in 0..4 /\ 0 \in 0..1 /\ 1 \in 0..1
  BY Types, Watching DEF ButtonInv
<1>2. CASE clickCount' = clickCount
  <2>1. CountSound => CountSound'
    BY <1>1, <1>2, CountLater DEF CountSound
  <2>2. CountOffByOne => CountOffByOne'
    BY <1>1, <1>2, CountLater DEF CountOffByOne
  <2>3. CountOld(clickCount, gaps, quiet, windowAge) =>
          CountOld(clickCount', gaps', quiet', windowAge')
    BY <1>1, <1>2, OldLater
  <2> QED BY <2>1, <2>2, <2>3
<1>3. CASE clickCount' = 0
  <2>1. CountSound' /\ CountOffByOne'
    BY <1>3 DEF CountSound, CountOffByOne, CountBacked
  <2>2. CountOld(clickCount', gaps', quiet', windowAge')
    BY <1>3 DEF CountOld
  <2> QED BY <2>1, <2>2
<1> QED BY <1>2, <1>3

\* A sample that finds the button up as before.
LEMMA SampleIdleStep ==
  ASSUME ButtonInv, Sample, SampleIdle
  PROVE  ButtonInv'
<1> DEFINE expired == clickCount > 0 /\ Older(windowAge, WindowCap) > ClickWindow
<1>0. /\ pending = "None" /\ ~wasPressed /\ wasPressed' = wasPressed
      /\ holdTriggered' = holdTriggered /\ FingerUp
      /\ pressedAge' = Older(pressedAge, EditHold)
      /\ windowAge' = Older(windowAge, WindowCap)
      /\ pending' = IF expired /\ clickCount = 3 THEN "WifiReset" ELSE "None"
      /\ clickCount' = IF expired /\ clickCount # 3 THEN 0 ELSE clickCount
  BY DEF SampleIdle
<1>1. ~down /\ down' = FALSE /\ downFor' = 0 /\ gaps' = gaps
      /\ quiet' = Older(quiet, WindowCap)
  <2>1. ~down
    BY <1>0 DEF ButtonInv, Stamps
  <2> QED BY <2>1, <1>0 DEF FingerUp
<1>2. /\ polling' = polling /\ refusals' = refusals /\ interrupted' \in BOOLEAN
  BY Interruption
<1>3. /\ polling \in {0, 2, 3, 4, 5, 6} /\ clickCount \in 0..4
      /\ WindowCap = ClickWindow + 1 /\ WindowCap \in Nat /\ EditHold \in Nat
      /\ ClickWindow \in Nat
  BY <1>0, Watching, Thresholds
<1>4. /\ uptime' \in 0..EditHold /\ pressedAge' \in 0..EditHold
      /\ windowAge' \in 0..WindowCap /\ quiet' \in 0..WindowCap
      /\ pressedAge' <= uptime' /\ windowAge' <= uptime'
  BY <1>0, <1>1, SampleAges
<1>5. /\ clickCount' \in 0..4 /\ (clickCount' = clickCount \/ clickCount' = 0)
      /\ pending' \in {"None", "WifiReset"}
      /\ pending' = "WifiReset" => windowAge' = WindowCap
  BY <1>0, <1>3, <1>4
<1>6. TypeOK'
  <2>1. downFor' \in 0..EditHold /\ clickCount' \in 0..5
    BY <1>1, <1>3, <1>5
  <2>2. TypeOK
    BY DEF ButtonInv
  <2>3. down' \in BOOLEAN /\ pending' \in ButtonActions
    BY <1>1, <1>5, Zenon DEF ButtonActions
  <2> QED BY <2>1, <2>2, <2>3, <1>0, <1>1, <1>2, <1>4, Zenon DEF TypeOK
<1>7. Stamps'
  BY <1>1, <1>4, Zenon DEF Stamps
<1>8. Pending'
  <2>1. polling' # 1 /\ polling' # 7 /\ clickCount' <= 4 /\ pending' # "Edit"
    BY <1>2, <1>3, <1>5
  <2> QED BY <2>1, <1>0, <1>5, Zenon DEF Pending
<1>9. Earned'
  <2>1. /\ CountSound => CountSound'
        /\ CountOffByOne => CountOffByOne'
    BY <1>0, <1>1, <1>5, QuietCount
  <2>2. PressSound'
    BY <1>0 DEF PressSound
  <2>3. clickCount' \in Nat
    BY <1>5
  <2> QED BY <2>1, <2>2, <2>3, <1>0, EarnedStep
<1>10. Tracked'
  <2> SUFFICES ASSUME pending' = "None", ~interrupted'
               PROVE  /\ ~wasPressed' /\ polling' = 0
                      /\ CountOld(clickCount', gaps', quiet', windowAge')
    BY DEF Tracked
  <2>1. clickCount' \in Nat
    BY <1>5
  <2>2. polling' = 0 /\ (clickCount' = 0 \/
                         CountOld(clickCount, gaps, quiet, windowAge))
    BY <2>1, <1>0, Undisturbed
  <2>3. CountOld(clickCount', gaps', quiet', windowAge')
    <3>1. CASE clickCount' = 0
      BY <3>1 DEF CountOld
    <3>2. CASE CountOld(clickCount, gaps, quiet, windowAge)
      BY <3>2, <1>0, <1>1, <1>5, QuietCount
    <3> QED BY <2>2, <3>1, <3>2
  <2> QED BY <2>2, <2>3, <1>0
<1> QED BY <1>6, <1>7, <1>8, <1>9, <1>10 DEF ButtonInv

\* A sample that finds the button pressed anew.
LEMMA SamplePressStep ==
  ASSUME ButtonInv, Sample, SamplePress
  PROVE  ButtonInv'
<1>0. /\ pending = "None" /\ ~wasPressed /\ FingerDown
      /\ wasPressed' = TRUE /\ pressedAge' = 0 /\ holdTriggered' = FALSE
      /\ windowAge' = Older(windowAge, WindowCap)
      /\ clickCount' = clickCount /\ pending' = pending
  BY DEF SamplePress
<1>1. /\ down' = TRUE /\ downFor' = 0 /\ gaps' = gaps
      /\ quiet' = Older(quiet, WindowCap)
  <2>1. ~down
    BY <1>0 DEF ButtonInv, Stamps
  <2> QED BY <2>1, <1>0 DEF FingerDown
<1>2. /\ polling' = polling /\ refusals' = refusals /\ interrupted' \in BOOLEAN
  BY Interruption
<1>3. /\ polling \in {0, 2, 3, 4, 5, 6} /\ clickCount \in 0..4
      /\ WindowCap \in Nat /\ EditHold \in Nat
  BY <1>0, Watching, Thresholds
<1>4. /\ uptime' \in 0..EditHold /\ pressedAge' \in 0..EditHold
      /\ windowAge' \in 0..WindowCap /\ quiet' \in 0..WindowCap
      /\ pressedAge' <= uptime' /\ windowAge' <= uptime'
  <2>1. /\ uptime' \in 0..EditHold /\ windowAge' \in 0..WindowCap
        /\ quiet' \in 0..WindowCap /\ windowAge' <= uptime'
    BY <1>0, <1>1, SampleAges
  <2> QED BY <2>1, <1>0, <1>3
<1>6. TypeOK'
  <2>1. downFor' \in 0..EditHold
    BY <1>1, <1>3
  <2>2. TypeOK
    BY DEF ButtonInv
  <2>3. down' \in BOOLEAN /\ wasPressed' \in BOOLEAN /\ holdTriggered' \in BOOLEAN
    BY <1>0, <1>1, Zenon
  <2> QED BY <2>1, <2>2, <2>3, <1>0, <1>1, <1>2, <1>4, Zenon DEF TypeOK
<1>7. Stamps'
  BY <1>0, <1>4, Zenon DEF Stamps
<1>8. Pending'
  <2>1. polling' # 1 /\ polling' # 7 /\ clickCount' <= 4 /\ pending' = "None"
    BY <1>0, <1>2, <1>3
  <2> QED BY <2>1 DEF Pending
<1>9. Earned'
  <2>1. /\ CountSound => CountSound'
        /\ CountOffByOne => CountOffByOne'
    BY <1>0, <1>1, QuietCount
  <2>2. PressSound'
    BY <1>0, <1>1 DEF PressSound
  <2>3. clickCount' \in Nat
    BY <1>0, <1>3
  <2> QED BY <2>1, <2>2, <2>3, <1>0, EarnedStep
<1>10. Tracked'
  <2> SUFFICES ASSUME pending' = "None", ~interrupted'
               PROVE  /\ down' /\ pressedAge' = downFor' /\ ~holdTriggered'
                      /\ polling' = 0
                      /\ CountOld(clickCount', gaps', quiet', windowAge')
    BY DEF Tracked
  <2>1. clickCount' \in Nat
    BY <1>0, <1>3
  <2>2. polling' = 0 /\ CountOld(clickCount, gaps, quiet, windowAge)
    BY <2>1, <1>0, Undisturbed
  <2>3. CountOld(clickCount', gaps', quiet', windowAge')
    BY <2>2, <1>0, <1>1, QuietCount
  <2> QED BY <2>2, <2>3, <1>0, <1>1
<1> QED BY <1>6, <1>7, <1>8, <1>9, <1>10 DEF ButtonInv

\* A sample that finds the button still pressed.
LEMMA SampleHeldStep ==
  ASSUME ButtonInv, Sample, SampleHeld
  PROVE  ButtonInv'
<1>0. /\ pending = "None" /\ wasPressed /\ FingerDown
      /\ wasPressed' = wasPressed /\ pressedAge' = Older(pressedAge, EditHold)
      /\ holdTriggered' = (holdTriggered \/ HoldReached)
      /\ windowAge' = Older(windowAge, WindowCap)
      /\ clickCount' = IF HoldReached THEN 0 ELSE clickCount
      /\ pending' = IF HoldReached THEN "Edit" ELSE "None"
  BY DEF SampleHeld
<1>1. /\ down' = TRUE /\ gaps' = gaps /\ quiet' = Older(quiet, WindowCap)
      /\ downFor' = IF down THEN Older(downFor, EditHold) ELSE 0
  BY <1>0 DEF FingerDown
<1>2. /\ polling' = polling /\ refusals' = refusals /\ interrupted' \in BOOLEAN
  BY Interruption
<1>3. /\ polling \in {0, 2, 3, 4, 5, 6} /\ clickCount \in 0..4
      /\ WindowCap \in Nat /\ EditHold \in Nat
  BY <1>0, Watching, Thresholds
<1>4. /\ uptime' \in 0..EditHold /\ pressedAge' \in 0..EditHold
      /\ windowAge' \in 0..WindowCap /\ quiet' \in 0..WindowCap
      /\ pressedAge' <= uptime' /\ windowAge' <= uptime'
      /\ pressedAge = EditHold => pressedAge' = EditHold
      /\ Older(downFor, EditHold) \in 0..EditHold
  BY <1>0, <1>1, SampleAges
<1>5. /\ clickCount' \in 0..4 /\ (clickCount' = clickCount \/ clickCount' = 0)
      /\ pending' \in {"None", "Edit"}
      /\ pending' = "Edit" => clickCount' = 0 /\ pressedAge' = EditHold
      /\ pending' = "None" => ~HoldReached
  <2>1. HoldReached => pressedAge' = EditHold
    BY <1>0, <1>3, <1>4 DEF HoldReached
  <2> QED BY <2>1, <1>0, <1>3
<1>6. TypeOK'
  <2>1. downFor' \in 0..EditHold /\ clickCount' \in 0..5
    BY <1>1, <1>3, <1>4, <1>5
  <2>2. TypeOK
    BY DEF ButtonInv
  <2>3. down' \in BOOLEAN /\ pending' \in ButtonActions /\ holdTriggered' \in BOOLEAN
    BY <1>0, <1>1, <1>5, Zenon DEF ButtonActions
  <2> QED BY <2>1, <2>2, <2>3, <1>0, <1>1, <1>2, <1>4, Zenon DEF TypeOK
<1>7. Stamps'
  BY <1>0, <1>4, Zenon DEF Stamps
<1>8. Pending'
  <2>1. polling' # 1 /\ polling' # 7 /\ clickCount' <= 4 /\ pending' # "WifiReset"
    BY <1>2, <1>3, <1>5
  <2> QED BY <2>1, <1>5 DEF Pending
<1>9. Earned'
  <2>1. /\ CountSound => CountSound'
        /\ CountOffByOne => CountOffByOne'
    BY <1>0, <1>1, <1>5, QuietCount
  <2>2. PressSound => PressSound'
    BY <1>0, <1>1, <1>4 DEF PressSound
  <2>3. clickCount' \in Nat
    BY <1>5
  <2> QED BY <2>1, <2>2, <2>3, <1>0, EarnedStep
<1>10. Tracked'
  <2> SUFFICES ASSUME pending' = "None", ~interrupted'
               PROVE  /\ down' /\ pressedAge' = downFor' /\ ~holdTriggered'
                      /\ polling' = 0
                      /\ CountOld(clickCount', gaps', quiet', windowAge')
    BY DEF Tracked
  <2>1. clickCount' \in Nat
    BY <1>5
  <2>2. /\ polling' = 0 /\ CountOld(clickCount, gaps, quiet, windowAge)
        /\ down /\ pressedAge = downFor /\ ~holdTriggered
    BY <2>1, <1>0, Undisturbed
  <2>3. CountOld(clickCount', gaps', quiet', windowAge')
    BY <2>2, <1>0, <1>1, <1>5, QuietCount
  <2>4. ~holdTriggered'
    BY <2>2, <1>0, <1>5
  <2> QED BY <2>2, <2>3, <2>4, <1>0, <1>1
<1> QED BY <1>6, <1>7, <1>8, <1>9, <1>10 DEF ButtonInv

\* A release that the code takes for a click, and one that is a click.
CodeClick ==
  LET duration == Older(pressedAge, EditHold)
  IN  ~holdTriggered /\ ClickMin <= duration /\ duration < EditHold

FingerClick ==
  LET held == Older(downFor, EditHold)
  IN  down /\ ClickMin <= held /\ held < EditHold

\* What a sample does that finds the button released.
LEMMA ReleaseFacts ==
  ASSUME ButtonInv, Sample, SampleRelease
  PROVE  /\ pending = "None" /\ wasPressed /\ wasPressed' = FALSE
         /\ down' = FALSE /\ downFor' = 0 /\ holdTriggered' = FALSE
         /\ pressedAge' = uptime'
         /\ FingerClick => gaps' = AfterClick(gaps, quiet) /\ quiet' = 0
         /\ ~FingerClick => gaps' = gaps /\ quiet' = Older(quiet, WindowCap)
         /\ CodeClick => /\ clickCount' = Counted(clickCount, windowAge) + 1
                         /\ windowAge' = ClickAge(clickCount, windowAge)
         /\ ~CodeClick => /\ clickCount' = clickCount
                          /\ windowAge' = Older(windowAge, WindowCap)
         /\ pending' = IF CodeClick /\ Counted(clickCount, windowAge) + 1 >= 5
                       THEN "FactoryReset" ELSE "None"
         /\ PressSound /\ CodeClick => FingerClick
<1>1. CountedClicks = Counted(clickCount, windowAge)
  BY DEF CountedClicks, Counted
<1>2. uptime' = Older(uptime, EditHold)
  BY Interruption
<1>3. /\ pending = "None" /\ wasPressed /\ wasPressed' = FALSE
      /\ holdTriggered' = FALSE /\ pressedAge' = uptime' /\ FingerUp
  BY <1>2 DEF SampleRelease
<1>4. /\ down' = FALSE /\ downFor' = 0
      /\ FingerClick => gaps' = AfterClick(gaps, quiet) /\ quiet' = 0
      /\ ~FingerClick => gaps' = gaps /\ quiet' = Older(quiet, WindowCap)
  BY <1>3 DEF FingerUp, FingerClick, AfterClick
<1>5. /\ clickCount' = IF CodeClick THEN CountedClicks + 1 ELSE clickCount
      /\ windowAge' = IF CodeClick /\ CountedClicks = 0 THEN 0
                      ELSE Older(windowAge, WindowCap)
      /\ pending' = IF CodeClick /\ CountedClicks + 1 >= 5
                    THEN "FactoryReset" ELSE "None"
  BY DEF SampleRelease, CodeClick, LimitReached
<1>6. PressSound /\ CodeClick => FingerClick
  <2> SUFFICES ASSUME PressSound, CodeClick PROVE FingerClick
    OBVIOUS
  <2>1. EditHold \in Nat
    BY Thresholds
  <2>2. pressedAge # EditHold
    BY <2>1 DEF CodeClick, Older
  <2>3. down /\ pressedAge = downFor
    BY <2>2, <1>3 DEF PressSound
  <2> QED BY <2>3 DEF CodeClick, FingerClick
<1>7. CodeClick => /\ clickCount' = Counted(clickCount, windowAge) + 1
                   /\ windowAge' = ClickAge(clickCount, windowAge)
  BY <1>1, <1>5 DEF ClickAge
<1>8. ~CodeClick => /\ clickCount' = clickCount
                    /\ windowAge' = Older(windowAge, WindowCap)
  BY <1>5
<1>9. pending' = IF CodeClick /\ Counted(clickCount, windowAge) + 1 >= 5
                 THEN "FactoryReset" ELSE "None"
  BY <1>1, <1>5
<1> QED BY <1>3, <1>4, <1>6, <1>7, <1>8, <1>9

\* A release keeps the count backed; only a bounce taken for a click costs one.
LEMMA ReleaseCounts ==
  ASSUME ButtonInv, Sample, SampleRelease
  PROVE  /\ CountSound /\ (CodeClick => FingerClick) => CountSound'
         /\ CountSound => CountSound' \/ CountOffByOne'
         /\ CountOffByOne /\ (CodeClick => FingerClick) => CountOffByOne'
<1>1. /\ gaps \in GapSeqs /\ quiet \in 0..WindowCap /\ windowAge \in 0..WindowCap
      /\ clickCount \in 0..4 /\ 0 \in 0..1 /\ 1 \in 0..1
  BY Types, Watching, ReleaseFacts DEF ButtonInv
<1>2. CASE CodeClick /\ FingerClick
  <2>1. /\ gaps' = AfterClick(gaps, quiet) /\ quiet' = 0
        /\ clickCount' = Counted(clickCount, windowAge) + 1
        /\ windowAge' = ClickAge(clickCount, windowAge)
    BY <1>2, ReleaseFacts, Zenon
  <2>2. CountSound => CountSound'
    BY <2>1, <1>1, CountClick DEF CountSound
  <2>3. CountOffByOne => CountOffByOne'
    BY <2>1, <1>1, CountClick DEF CountOffByOne
  <2> QED BY <2>2, <2>3
<1>3. CASE CodeClick /\ ~FingerClick
  <2>1. /\ gaps' = gaps /\ quiet' = Older(quiet, WindowCap)
        /\ clickCount' = Counted(clickCount, windowAge) + 1
        /\ windowAge' = ClickAge(clickCount, windowAge)
    BY <1>3, ReleaseFacts, Zenon
  <2>2. CountSound => CountOffByOne'
    BY <2>1, <1>1, CountBounce DEF CountSound, CountOffByOne
  <2> QED BY <2>2, <1>3
<1>4. CASE ~CodeClick /\ FingerClick
  <2>1. /\ gaps' = AfterClick(gaps, quiet) /\ quiet' = 0
        /\ clickCount' = clickCount /\ windowAge' = Older(windowAge, WindowCap)
    BY <1>4, ReleaseFacts, Zenon
  <2>2. CountSound => CountSound'
    BY <2>1, <1>1, CountLater DEF CountSound
  <2>3. CountOffByOne => CountOffByOne'
    BY <2>1, <1>1, CountLater DEF CountOffByOne
  <2> QED BY <2>2, <2>3
<1>5. CASE ~CodeClick /\ ~FingerClick
  <2>1. /\ gaps' = gaps /\ quiet' = Older(quiet, WindowCap)
        /\ clickCount' = clickCount /\ windowAge' = Older(windowAge, WindowCap)
    BY <1>5, ReleaseFacts, Zenon
  <2>2. CountSound => CountSound'
    BY <2>1, <1>1, CountLater DEF CountSound
  <2>3. CountOffByOne => CountOffByOne'
    BY <2>1, <1>1, CountLater DEF CountOffByOne
  <2> QED BY <2>2, <2>3
<1> QED BY <1>2, <1>3, <1>4, <1>5

\* A sample that finds the button released.
LEMMA SampleReleaseStep ==
  ASSUME ButtonInv, Sample, SampleRelease
  PROVE  ButtonInv'
<1>0. /\ pending = "None" /\ wasPressed /\ wasPressed' = FALSE
      /\ down' = FALSE /\ downFor' = 0 /\ holdTriggered' = FALSE
      /\ pressedAge' = uptime'
  BY ReleaseFacts
<1>1. /\ gaps \in GapSeqs /\ quiet \in 0..WindowCap /\ windowAge \in 0..WindowCap
      /\ clickCount \in 0..4
  BY <1>0, Types, Watching DEF ButtonInv
<1>2. /\ polling' = polling /\ refusals' = refusals /\ interrupted' \in BOOLEAN
  BY Interruption
<1>3. /\ polling \in {0, 2, 3, 4, 5, 6} /\ WindowCap \in Nat /\ EditHold \in Nat
      /\ Counted(clickCount, windowAge) \in 0..4
  <2>1. Counted(clickCount, windowAge) \in 0..4
    BY <1>1 DEF Counted
  <2> QED BY <2>1, <1>0, Watching, Thresholds
<1>4. /\ uptime' \in 0..EditHold /\ pressedAge' \in 0..EditHold
      /\ windowAge' \in 0..WindowCap /\ quiet' \in 0..WindowCap
      /\ pressedAge' <= uptime' /\ windowAge' <= uptime'
  <2>1. /\ uptime' \in 0..EditHold /\ Older(windowAge, WindowCap) \in 0..WindowCap
        /\ Older(quiet, WindowCap) \in 0..WindowCap
        /\ Older(windowAge, WindowCap) <= uptime'
    BY SampleAges
  <2>2. windowAge' = 0 \/ windowAge' = Older(windowAge, WindowCap)
    BY ReleaseFacts DEF ClickAge
  <2>3. quiet' = 0 \/ quiet' = Older(quiet, WindowCap)
    BY ReleaseFacts, Zenon
  <2> QED BY <2>1, <2>2, <2>3, <1>0, <1>3
<1>5. /\ clickCount' \in 0..5 /\ pending' \in {"None", "FactoryReset"}
      /\ pending' = "None" => clickCount' <= 4
  <2>1. CASE CodeClick
    <3>1. /\ clickCount' = Counted(clickCount, windowAge) + 1
          /\ pending' = IF clickCount' >= 5 THEN "FactoryReset" ELSE "None"
      BY <2>1, ReleaseFacts
    <3> QED BY <3>1, <1>3
  <2>2. CASE ~CodeClick
    <3>1. clickCount' = clickCount /\ pending' = "None"
      BY <2>2, ReleaseFacts
    <3> QED BY <3>1, <1>1
  <2> QED BY <2>1, <2>2
<1>6. TypeOK'
  <2>1. downFor' \in 0..EditHold
    BY <1>0, <1>3
  <2>2. TypeOK
    BY DEF ButtonInv
  <2>3. /\ down' \in BOOLEAN /\ wasPressed' \in BOOLEAN
        /\ holdTriggered' \in BOOLEAN /\ pending' \in ButtonActions
    BY <1>0, <1>5, Zenon DEF ButtonActions
  <2>4. gaps' \in GapSeqs
    BY <1>1, ReleaseFacts, AfterClickFacts
  <2>5. gaps' \in Seq(1..ClickWindow) /\ Len(gaps') <= 4
    BY <2>4 DEF GapSeqs
  <2> QED BY <2>1, <2>2, <2>3, <2>5, <1>2, <1>4, <1>5, Zenon DEF TypeOK
<1>7. Stamps'
  BY <1>0, <1>4, Zenon DEF Stamps
<1>8. Pending'
  <2>1. /\ polling' # 1 /\ polling' # 7
        /\ pending' # "Edit" /\ pending' # "WifiReset" /\ ~wasPressed'
    BY <1>0, <1>2, <1>3, <1>5
  <2> QED BY <2>1, <1>5, Zenon DEF Pending
<1>9. Earned'
  <2>1. PressSound'
    BY <1>0 DEF PressSound
  <2>2. PressSound /\ CodeClick => FingerClick
    BY ReleaseFacts, Zenon
  <2>3. clickCount' \in Nat
    BY <1>5
  <2>4. /\ CountSound /\ PressSound => CountSound'
        /\ CountSound => CountSound' \/ CountOffByOne'
        /\ CountOffByOne /\ PressSound => CountOffByOne'
    BY <2>2, ReleaseCounts, Zenon
  <2> QED BY <2>1, <2>3, <2>4, <1>0, EarnedStep
<1>10. Tracked'
  <2> SUFFICES ASSUME pending' = "None", ~interrupted'
               PROVE  /\ ~wasPressed' /\ polling' = 0
                      /\ CountOld(clickCount', gaps', quiet', windowAge')
    BY DEF Tracked
  <2>1. clickCount' \in Nat
    BY <1>5
  <2>2. /\ polling' = 0
        /\ \/ clickCount' = 0
           \/ /\ CountOld(clickCount, gaps, quiet, windowAge) /\ CountSound
              /\ down /\ pressedAge = downFor /\ ~holdTriggered
    BY <2>1, <1>0, Undisturbed
  <2>3. CountOld(clickCount', gaps', quiet', windowAge')
    <3>1. CASE clickCount' = 0
      BY <3>1 DEF CountOld
    <3>2. CASE /\ CountOld(clickCount, gaps, quiet, windowAge) /\ CountSound
               /\ down /\ pressedAge = downFor /\ ~holdTriggered
      <4>1. CodeClick <=> FingerClick
        BY <3>2 DEF CodeClick, FingerClick
      <4>2. CASE CodeClick
        <5>1. /\ gaps' = AfterClick(gaps, quiet) /\ quiet' = 0
              /\ clickCount' = Counted(clickCount, windowAge) + 1
              /\ windowAge' = ClickAge(clickCount, windowAge)
          BY <4>1, <4>2, ReleaseFacts, Zenon
        <5> QED BY <5>1, <3>2, <1>1, OldClick DEF CountSound
      <4>3. CASE ~CodeClick
        <5>1. /\ gaps' = gaps /\ quiet' = Older(quiet, WindowCap)
              /\ clickCount' = clickCount
              /\ windowAge' = Older(windowAge, WindowCap)
          BY <4>1, <4>3, ReleaseFacts, Zenon
        <5> QED BY <5>1, <3>2, <1>1, OldLater
      <4> QED BY <4>2, <4>3
    <3> QED BY <2>2, <3>1, <3>2
  <2> QED BY <2>2, <2>3, <1>0
<1> QED BY <1>6, <1>7, <1>8, <1>9, <1>10 DEF ButtonInv

-----------------------------------------------------------------------------
\* The main task.

\* A request that is served or refused waits where it is.
LEMMA PollStep ==
  ASSUME ButtonInv, PollServed \/ PollRefused
  PROVE  ButtonInv'
<1>1. /\ uptime' = uptime /\ wasPressed' = wasPressed /\ pressedAge' = pressedAge
      /\ clickCount' = clickCount /\ windowAge' = windowAge
      /\ holdTriggered' = holdTriggered /\ pending' = pending
      /\ down' = down /\ downFor' = downFor /\ gaps' = gaps /\ quiet' = quiet
      /\ interrupted' = interrupted /\ pending # "None"
  BY DEF PollServed, PollRefused, sampler, finger
<1>2. /\ polling' \in 0..7 /\ refusals' \in 0..MaxRefusals
      /\ polling' = 1 => pending \in {"Edit", "WifiReset"}
  BY Thresholds DEF PollServed, PollRefused, ButtonInv, TypeOK
<1>3. TypeOK'
  BY <1>1, <1>2, Zenon DEF ButtonInv, TypeOK
<1>4. Stamps' /\ Pending'
  BY <1>1, <1>2, Zenon DEF ButtonInv, Stamps, Pending
<1>5. Earned' /\ Tracked'
  BY <1>1, Zenon DEF Earned, Tracked
<1> QED BY <1>3, <1>4, <1>5 DEF ButtonInv

\* The count does not change with what the reset leaves alone.
LEMMA CountSame ==
  ASSUME clickCount' = clickCount, gaps' = gaps, quiet' = quiet,
         windowAge' = windowAge
  PROVE  /\ CountSound => CountSound'
         /\ CountOffByOne => CountOffByOne'
         /\ CountOld(clickCount, gaps, quiet, windowAge) =>
              CountOld(clickCount', gaps', quiet', windowAge')
BY DEF CountSound, CountOffByOne

\* Each assignment of the reset.
LEMMA ResetFieldStep ==
  ASSUME ButtonInv, ResetField
  PROVE  ButtonInv'
<1>0. /\ polling \in 1..6
      /\ polling' = IF polling = 6 THEN 0 ELSE polling + 1
      /\ uptime' = uptime /\ refusals' = refusals /\ gaps' = gaps
      /\ quiet' = quiet /\ interrupted' = interrupted
  BY DEF ResetField
<1>1. /\ uptime \in 0..EditHold /\ pressedAge \in 0..EditHold
      /\ downFor \in 0..EditHold
      /\ windowAge \in 0..WindowCap /\ quiet \in 0..WindowCap
      /\ clickCount \in 0..5 /\ gaps \in GapSeqs
      /\ pressedAge <= uptime /\ windowAge <= uptime /\ (down => wasPressed)
      /\ TypeOK /\ Pending /\ Earned /\ Tracked
  BY Types DEF ButtonInv, Stamps
<1>2. /\ WindowCap \in Nat /\ EditHold \in Nat /\ ClickWindow \in Nat
      /\ WindowCap = ClickWindow + 1
  BY Thresholds
<1>3. CASE polling = 1
  <2>1. /\ polling' = 2 /\ pending' = "None" /\ clickCount' = clickCount
        /\ windowAge' = windowAge /\ wasPressed' = wasPressed
        /\ pressedAge' = pressedAge /\ holdTriggered' = holdTriggered
        /\ down' = (down /\ TRUE) /\ downFor' = downFor
    BY <1>3 DEF ResetField
  <2>2. pending \in {"Edit", "WifiReset"} /\ clickCount <= 4
    BY <1>1, <1>3 DEF Pending
  <2>3. TypeOK' /\ (down' => wasPressed')
    <3>1. down' \in BOOLEAN /\ (down' => down) /\ pending' \in ButtonActions
      BY <2>1, Zenon DEF ButtonActions
    <3>2. polling' \in 0..7
      BY <2>1
    <3>3. clickCount' \in 0..5
      BY <2>1, <1>1
    <3> QED BY <3>1, <3>2, <3>3, <2>1, <1>0, <1>1, Zenon DEF TypeOK
  <2>4. CountSound'
    <3>1. clickCount = 0 \/ windowAge = WindowCap
      BY <2>2, <1>1 DEF Pending
    <3>2. clickCount' = 0 \/ ~(windowAge' <= ClickWindow)
      BY <3>1, <2>1, <1>1, <1>2
    <3> QED BY <3>2 DEF CountSound, CountBacked
  <2>5. PressSound'
    <3>1. wasPressed => pressedAge = EditHold
      BY <2>2, <1>1 DEF Pending
    <3> QED BY <3>1, <2>1 DEF PressSound
  <2>6. Earned' /\ Tracked'
    BY <2>1, <2>4, <2>5 DEF Earned, Tracked
  <2>7. Pending'
    BY <2>1, <2>2 DEF Pending
  <2>8. Stamps'
    BY <2>1, <2>3, <1>0, <1>1 DEF Stamps
  <2> QED BY <2>3, <2>6, <2>7, <2>8 DEF ButtonInv
<1>4. CASE polling = 2
  <2>1. /\ polling' = 3 /\ pending' = pending /\ clickCount' = 0
        /\ windowAge' = windowAge /\ wasPressed' = wasPressed
        /\ pressedAge' = pressedAge /\ holdTriggered' = holdTriggered
        /\ down' = (down /\ TRUE) /\ downFor' = downFor
    BY <1>4 DEF ResetField
  <2>2. CountSound'
    BY <2>1 DEF CountSound, CountBacked
  <2>3. pending = "None" => PressSound /\ CountSound
    BY <1>1, <1>4 DEF Earned
  <2>4. down' = down
    BY <2>1, <1>1, Zenon DEF TypeOK
  <2>5. PressSound => PressSound'
    BY <2>1, <2>4 DEF PressSound
  <2>6. Earned' /\ Tracked'
    BY <2>1, <2>2, <2>3, <2>5 DEF Earned, Tracked
  <2>7. TypeOK'
    <3>1. polling' \in 0..7 /\ clickCount' \in 0..5
      BY <2>1
    <3> QED BY <3>1, <2>1, <2>4, <1>0, <1>1, Zenon DEF TypeOK
  <2>8. Stamps' /\ Pending'
    BY <2>1, <2>4, <1>0, <1>1 DEF Stamps, Pending
  <2> QED BY <2>6, <2>7, <2>8 DEF ButtonInv
<1>5. CASE polling = 3
  <2>1. /\ polling' = 4 /\ pending' = pending /\ clickCount' = clickCount
        /\ windowAge' = AtMost(uptime, WindowCap) /\ wasPressed' = wasPressed
        /\ pressedAge' = pressedAge /\ holdTriggered' = holdTriggered
        /\ down' = (down /\ TRUE) /\ downFor' = downFor
    BY <1>5 DEF ResetField
  <2>2. /\ windowAge' \in 0..WindowCap /\ windowAge' <= uptime
        /\ windowAge <= windowAge'
    <3>1. uptime \in Nat /\ windowAge \in Nat /\ windowAge <= WindowCap
      BY <1>1, <1>2
    <3> QED BY <3>1, <2>1, <1>1, <1>2, AtMostFacts
  <2>3. pending = "None" => PressSound /\ CountSound /\ clickCount <= 4
    BY <1>1, <1>5 DEF Earned, Pending
  <2>4. down' = down
    BY <2>1, <1>1, Zenon DEF TypeOK
  <2>5. PressSound => PressSound'
    BY <2>1, <2>4 DEF PressSound
  <2>6. pending = "None" => CountSound'
    <3> SUFFICES ASSUME pending = "None" PROVE CountSound'
      OBVIOUS
    <3>1. CountSound /\ clickCount \in 0..4 /\ 0 \in 0..1
      BY <2>3, <1>1
    <3> QED BY <3>1, <2>1, <2>2, <1>0, <1>1, CountAged DEF CountSound
  <2>7. pending = "None" /\ ~interrupted => clickCount = 0
    BY <1>1, <1>5 DEF Tracked
  <2>8. Earned' /\ Tracked'
    BY <2>1, <2>3, <2>5, <2>6, <2>7, <1>0 DEF Earned, Tracked
  <2>9. TypeOK'
    <3>1. polling' \in 0..7
      BY <2>1
    <3> QED BY <3>1, <2>1, <2>2, <2>4, <1>0, <1>1, Zenon DEF TypeOK
  <2>10. windowAge = WindowCap => windowAge' = WindowCap
    BY <2>2, <1>2
  <2>11. Stamps' /\ Pending'
    BY <2>1, <2>2, <2>4, <2>10, <1>0, <1>1 DEF Stamps, Pending
  <2> QED BY <2>8, <2>9, <2>11 DEF ButtonInv
<1>6. CASE polling = 4
  <2>1. /\ polling' = 5 /\ pending' = pending /\ clickCount' = clickCount
        /\ windowAge' = windowAge /\ wasPressed' = FALSE
        /\ pressedAge' = pressedAge /\ holdTriggered' = holdTriggered
        /\ down' = FALSE /\ downFor' = 0
    <3>1. down' = FALSE
      BY <1>6, Zenon DEF ResetField
    <3> QED BY <3>1, <1>6 DEF ResetField
  <2>2. pending = "None" => CountSound
    BY <1>1, <1>6 DEF Earned
  <2>3. pending = "None" => CountSound'
    BY <2>1, <2>2, <1>0, CountSame
  <2>4. PressSound'
    BY <2>1 DEF PressSound
  <2>5. pending = "None" /\ ~interrupted => clickCount = 0
    BY <1>1, <1>6 DEF Tracked
  <2>6. Earned' /\ Tracked'
    BY <2>1, <2>3, <2>4, <2>5, <1>0 DEF Earned, Tracked
  <2>7. TypeOK'
    <3>1. polling' \in 0..7 /\ downFor' \in 0..EditHold
      BY <2>1, <1>2
    <3>2. wasPressed' \in BOOLEAN /\ down' \in BOOLEAN
      BY <2>1, Zenon
    <3> QED BY <3>1, <3>2, <2>1, <1>0, <1>1, Zenon DEF TypeOK
  <2>8. Stamps' /\ Pending'
    BY <2>1, <1>0, <1>1 DEF Stamps, Pending
  <2> QED BY <2>6, <2>7, <2>8 DEF ButtonInv
<1>7. CASE polling = 5
  <2>1. /\ polling' = 6 /\ pending' = pending /\ clickCount' = clickCount
        /\ windowAge' = windowAge /\ wasPressed' = wasPressed
        /\ pressedAge' = uptime /\ holdTriggered' = holdTriggered
        /\ down' = (down /\ TRUE) /\ downFor' = downFor
    BY <1>7 DEF ResetField
  <2>2. pending = "None" => CountSound
    BY <1>1, <1>7 DEF Earned
  <2>3. pending = "None" => CountSound'
    BY <2>1, <2>2, <1>0, CountSame
  <2>4. down' = down
    BY <2>1, <1>1, Zenon DEF TypeOK
  <2>5. pending = "None" /\ ~interrupted => clickCount = 0 /\ ~wasPressed
    BY <1>1, <1>7 DEF Tracked
  <2>6. ~wasPressed => PressSound'
    BY <2>1 DEF PressSound
  <2>7. Earned' /\ Tracked'
    BY <2>1, <2>3, <2>5, <2>6, <1>0 DEF Earned, Tracked
  <2>8. TypeOK'
    <3>1. polling' \in 0..7
      BY <2>1
    <3> QED BY <3>1, <2>1, <2>4, <1>0, <1>1, Zenon DEF TypeOK
  <2>9. pressedAge = EditHold => pressedAge' = EditHold
    BY <2>1, <1>1, <1>2
  <2>10. Stamps' /\ Pending'
    BY <2>1, <2>4, <2>9, <1>0, <1>1 DEF Stamps, Pending
  <2> QED BY <2>7, <2>8, <2>10 DEF ButtonInv
<1>8. CASE polling = 6
  <2>1. /\ polling' = 0 /\ pending' = pending /\ clickCount' = clickCount
        /\ windowAge' = windowAge /\ wasPressed' = wasPressed
        /\ pressedAge' = pressedAge /\ holdTriggered' = FALSE
        /\ down' = (down /\ TRUE) /\ downFor' = downFor
    BY <1>8 DEF ResetField
  <2>2. down' = down
    BY <2>1, <1>1, Zenon DEF TypeOK
  <2>3. /\ CountSound => CountSound'
        /\ CountOffByOne => CountOffByOne'
        /\ PressSound => PressSound'
    BY <2>1, <2>2, <1>0, CountSame DEF PressSound
  <2>4. Earned'
    BY <2>1, <2>3, <1>0, <1>1, <1>8 DEF Earned
  <2>5. Tracked'
    <3>1. pending = "None" /\ ~interrupted => clickCount = 0 /\ ~wasPressed
      BY <1>1, <1>8 DEF Tracked
    <3>2. clickCount = 0 => CountOld(clickCount', gaps', quiet', windowAge')
      BY <2>1 DEF CountOld
    <3> QED BY <3>1, <3>2, <2>1, <1>0 DEF Tracked
  <2>6. TypeOK'
    <3>1. polling' \in 0..7
      BY <2>1
    <3>2. holdTriggered' \in BOOLEAN
      BY <2>1, Zenon
    <3> QED BY <3>1, <3>2, <2>1, <2>2, <1>0, <1>1, Zenon DEF TypeOK
  <2>7. Stamps' /\ Pending'
    BY <2>1, <2>2, <1>0, <1>1 DEF Stamps, Pending
  <2> QED BY <2>4, <2>5, <2>6, <2>7 DEF ButtonInv
<1> QED BY <1>0, <1>3, <1>4, <1>5, <1>6, <1>7, <1>8

\* After a restart everything is as after power-up.
LEMMA RestartStep ==
  ASSUME ButtonInv, Restart
  PROVE  ButtonInv'
<1>1. /\ uptime' = 0 /\ wasPressed' = FALSE /\ pressedAge' = 0
      /\ clickCount' = 0 /\ windowAge' = 0 /\ holdTriggered' = FALSE
      /\ pending' = "None" /\ polling' = 0 /\ interrupted' = FALSE
      /\ down' = FALSE /\ downFor' = 0 /\ gaps' = <<>> /\ quiet' = WindowCap
      /\ refusals' = refusals
  BY DEF Restart, PoweredUp
<1>2. TypeOK'
  <2>1. /\ uptime' \in 0..EditHold /\ pressedAge' \in 0..EditHold
        /\ clickCount' \in 0..5 /\ windowAge' \in 0..WindowCap
        /\ polling' \in 0..7 /\ downFor' \in 0..EditHold
        /\ quiet' \in 0..WindowCap
        /\ gaps' \in Seq(1..ClickWindow) /\ Len(gaps') <= 4
    BY <1>1, Thresholds
  <2>2. /\ wasPressed' \in BOOLEAN /\ holdTriggered' \in BOOLEAN
        /\ down' \in BOOLEAN /\ interrupted' \in BOOLEAN
        /\ pending' \in ButtonActions
    BY <1>1, Zenon DEF ButtonActions
  <2> QED BY <2>1, <2>2, <1>1, Zenon DEF ButtonInv, TypeOK
<1>3. Stamps' /\ Pending'
  BY <1>1 DEF Stamps, Pending
<1>4. CountSound' /\ PressSound' /\ CountOld(clickCount', gaps', quiet', windowAge')
  BY <1>1 DEF CountSound, CountBacked, PressSound, CountOld
<1>5. Earned' /\ Tracked'
  BY <1>1, <1>4 DEF Earned, Tracked
<1> QED BY <1>2, <1>3, <1>5 DEF ButtonInv

LEMMA ButtonInit == Init => ButtonInv
<1> SUFFICES ASSUME Init PROVE ButtonInv
  OBVIOUS
<1>1. TypeOK
  <2>1. /\ uptime \in 0..EditHold /\ pressedAge \in 0..EditHold
        /\ clickCount \in 0..5 /\ windowAge \in 0..WindowCap
        /\ polling \in 0..7 /\ downFor \in 0..EditHold
        /\ refusals \in 0..MaxRefusals /\ quiet \in 0..WindowCap
        /\ gaps \in Seq(1..ClickWindow) /\ Len(gaps) <= 4
    BY Thresholds DEF Init
  <2>2. /\ wasPressed \in BOOLEAN /\ holdTriggered \in BOOLEAN
        /\ down \in BOOLEAN /\ interrupted \in BOOLEAN
        /\ pending \in ButtonActions
    BY Zenon DEF Init, ButtonActions
  <2> QED BY <2>1, <2>2, Zenon DEF TypeOK
<1>2. Stamps /\ Pending
  BY DEF Init, Stamps, Pending
<1>3. CountSound /\ PressSound /\ CountOld(clickCount, gaps, quiet, windowAge)
  BY DEF Init, CountSound, CountBacked, PressSound, CountOld
<1>4. Earned /\ Tracked
  BY <1>3 DEF Init, Earned, Tracked
<1> QED BY <1>1, <1>2, <1>4 DEF ButtonInv

LEMMA ButtonStep == ButtonInv /\ [Next]_vars => ButtonInv'
<1> SUFFICES ASSUME ButtonInv, [Next]_vars PROVE ButtonInv'
  OBVIOUS
<1>1. CASE Sample
  <2>1. SampleBlocked \/ SampleRelease \/ SampleIdle \/ SamplePress \/ SampleHeld
    BY <1>1 DEF Sample
  <2> QED BY <1>1, <2>1, SampleBlockedStep, SampleReleaseStep, SampleIdleStep,
             SamplePressStep, SampleHeldStep
<1>2. CASE PollServed \/ PollRefused
  BY <1>2, PollStep
<1>3. CASE ResetField
  BY <1>3, ResetFieldStep
<1>4. CASE Restart
  BY <1>4, RestartStep
<1>5. CASE UNCHANGED vars
  <2>1. /\ uptime' = uptime /\ wasPressed' = wasPressed /\ pressedAge' = pressedAge
        /\ clickCount' = clickCount /\ windowAge' = windowAge
        /\ holdTriggered' = holdTriggered /\ pending' = pending
        /\ polling' = polling /\ refusals' = refusals
        /\ down' = down /\ downFor' = downFor /\ gaps' = gaps /\ quiet' = quiet
        /\ interrupted' = interrupted
    BY <1>5 DEF vars, sampler, finger
  <2> QED BY <2>1, Zenon DEF ButtonInv, TypeOK, Stamps, Pending, Earned, Tracked,
             CountSound, CountOffByOne, PressSound
<1> QED BY <1>1, <1>2, <1>3, <1>4, <1>5 DEF Next

-----------------------------------------------------------------------------

\* The fields of the sampler stay in range; buttonClickCount never exceeds 5.
THEOREM ButtonTypeCorrect == Spec => []TypeOK
<1>1. ButtonInv => TypeOK
  BY DEF ButtonInv
<1> QED
  BY <1>1, ButtonInit, ButtonStep, PTL DEF Spec

\* Five counted clicks: as many made, or all but one after an interruption.
LEMMA FactoryResetEarned ==
  ASSUME ButtonInv, Sample, SampleRelease, pending' = "FactoryReset"
  PROVE  \/ Len(gaps') >= 4 /\ quiet' = 0
         \/ Len(gaps') >= 3 /\ interrupted'
<1>1. /\ pending = "None" /\ CodeClick
      /\ Counted(clickCount, windowAge) + 1 >= 5
      /\ clickCount' = Counted(clickCount, windowAge) + 1
      /\ windowAge' = ClickAge(clickCount, windowAge)
  BY ReleaseFacts
<1>2. clickCount \in 0..4 /\ windowAge \in 0..WindowCap
  BY <1>1, Watching, Types DEF ButtonInv
<1>3. clickCount = 4 /\ Counted(clickCount, windowAge) = 4
  BY <1>1, <1>2 DEF Counted
<1>4. clickCount' = 5 /\ windowAge' = Older(windowAge, WindowCap)
  BY <1>1, <1>3 DEF ClickAge
<1>5. windowAge' <= ClickWindow
  <2>1. ~(Older(windowAge, WindowCap) > ClickWindow)
    BY <1>3 DEF Counted
  <2>2. Older(windowAge, WindowCap) \in 0..WindowCap
    BY SampleAges
  <2> QED BY <2>1, <2>2, <1>4, Thresholds
<1>6. Len(gaps') \in Nat
  <2>1. gaps' \in GapSeqs
    BY Types, ReleaseFacts, AfterClickFacts DEF ButtonInv
  <2> QED BY <2>1, LenProperties DEF GapSeqs
<1>7. CountSound' => Len(gaps') >= 4
  <2> SUFFICES ASSUME CountSound' PROVE Len(gaps') >= 4
    OBVIOUS
  <2>1. Backed(clickCount' - 1 - 0, gaps', quiet', windowAge')
    BY <1>4, <1>5 DEF CountSound, CountBacked
  <2>2. clickCount' - 1 - 0 = 4
    BY <1>4
  <2> QED BY <2>1, <2>2 DEF Backed
<1>8. CountOffByOne' => Len(gaps') >= 3
  <2> SUFFICES ASSUME CountOffByOne' PROVE Len(gaps') >= 3
    OBVIOUS
  <2>1. Backed(clickCount' - 1 - 1, gaps', quiet', windowAge')
    BY <1>4, <1>5 DEF CountOffByOne, CountBacked
  <2>2. clickCount' - 1 - 1 = 3
    BY <1>4
  <2> QED BY <2>1, <2>2 DEF Backed
<1>9. /\ PressSound => FingerClick
      /\ FingerClick => quiet' = 0
  BY <1>1, ReleaseFacts, Zenon
<1>10. interrupted => interrupted'
  <2>1. pending' # "None"
    OBVIOUS
  <2> QED BY <2>1, Interruption, Zenon
<1>11. \/ CountSound /\ PressSound
       \/ interrupted /\ (CountSound \/ (CountOffByOne /\ PressSound))
  BY <1>1, Zenon DEF ButtonInv, Earned
<1>12. CASE CountSound /\ FingerClick
  <2>1. CountSound'
    BY <1>12, ReleaseCounts, Zenon
  <2> QED BY <2>1, <1>7, <1>9, <1>12
<1>13. CASE interrupted /\ CountSound /\ ~FingerClick
  <2>1. CountSound' \/ CountOffByOne'
    BY <1>13, ReleaseCounts, Zenon
  <2> QED BY <2>1, <1>6, <1>7, <1>8, <1>10, <1>13
<1>14. CASE interrupted /\ CountOffByOne /\ PressSound
  <2>1. CountOffByOne'
    BY <1>9, <1>14, ReleaseCounts, Zenon
  <2> QED BY <2>1, <1>8, <1>10, <1>14
<1> QED BY <1>9, <1>11, <1>12, <1>13, <1>14, Zenon

\* Three counted clicks in a window that is over.
LEMMA WifiResetEarned ==
  ASSUME ButtonInv, Sample, SampleIdle, pending' = "WifiReset"
  PROVE  \/ Len(gaps') >= 2 /\ gaps'[1] + gaps'[2] + quiet' > ClickWindow
         \/ interrupted'
<1> SUFFICES ASSUME ~interrupted'
             PROVE  Len(gaps') >= 2 /\ gaps'[1] + gaps'[2] + quiet' > ClickWindow
  OBVIOUS
<1>1. /\ pending = "None" /\ ~wasPressed /\ clickCount = 3 /\ clickCount' = 3
      /\ Older(windowAge, WindowCap) > ClickWindow
  BY DEF SampleIdle
<1>2. ~down /\ gaps' = gaps /\ quiet' = Older(quiet, WindowCap)
  <2>1. ~down
    BY <1>1 DEF ButtonInv, Stamps
  <2> QED BY <2>1 DEF SampleIdle, FingerUp
<1>3. CountOld(3, gaps, quiet, windowAge)
  BY <1>1, Undisturbed
<1>4. Len(gaps) >= 3 - 1 /\ Span(gaps, 3 - 1) + quiet >= windowAge
  BY <1>3 DEF CountOld
<1>5. gaps \in GapSeqs /\ quiet \in 0..WindowCap /\ windowAge \in 0..WindowCap
  BY Types DEF ButtonInv
<1>6. Len(gaps) >= 2 /\ Span(gaps, 2) + quiet >= windowAge
      /\ Span(gaps, 2) = gaps[1] + gaps[2] /\ Span(gaps, 2) \in Nat
  <2>1. Len(gaps) >= 2 /\ Span(gaps, 2) + quiet >= windowAge
    BY <1>4
  <2>2. Span(gaps, 2) = gaps[1] + gaps[2]
    BY DEF Span
  <2>3. Len(gaps) \in Nat
    BY <1>5, LenProperties DEF GapSeqs
  <2> QED BY <2>1, <2>2, <2>3, <1>5, SpanInNat
<1>7. Span(gaps, 2) + quiet' > ClickWindow
  <2>1. WindowCap \in Nat /\ ClickWindow \in Nat /\ WindowCap = ClickWindow + 1
    BY Thresholds
  <2> HIDE DEF Span
  <2> QED BY <2>1, <1>1, <1>2, <1>5, <1>6 DEF Older
<1> QED BY <1>2, <1>6, <1>7

\* A press of the full length.
LEMMA EditEarned ==
  ASSUME ButtonInv, Sample, SampleHeld, pending' = "Edit"
  PROVE  downFor' >= EditHold \/ interrupted'
<1> SUFFICES ASSUME ~interrupted' PROVE downFor' >= EditHold
  OBVIOUS
<1>1. /\ pending = "None" /\ wasPressed /\ wasPressed' = wasPressed /\ HoldReached
      /\ clickCount' = 0
      /\ downFor' = IF down THEN Older(downFor, EditHold) ELSE 0
  BY DEF SampleHeld, FingerDown
<1>2. down /\ pressedAge = downFor
  BY <1>1, Undisturbed
<1> QED BY <1>1, <1>2 DEF HoldReached

\* No action is raised without the presses it stands for, however the resets of
\* the main task interleave with the sampler; after an interrupted reset, no
\* factory reset without four clicks within one window.
THEOREM ButtonActionsEarned == Spec => ActionsEarned
<1> DEFINE A == pending = "None" =>
                  /\ pending' = "FactoryReset" =>
                       \/ Len(gaps') >= 4 /\ quiet' = 0
                       \/ Len(gaps') >= 3 /\ interrupted'
                  /\ pending' = "WifiReset" =>
                       \/ Len(gaps') >= 2 /\ gaps'[1] + gaps'[2] + quiet' > ClickWindow
                       \/ interrupted'
                  /\ pending' = "Edit" => downFor' >= EditHold \/ interrupted'
<1>1. ButtonInv /\ [Next]_vars => [A]_vars
  <2> SUFFICES ASSUME ButtonInv, Next, pending = "None", pending' # "None"
               PROVE  A
    OBVIOUS
  <2>1. CASE Sample
    <3>1. CASE SampleBlocked
      BY <3>1 DEF SampleBlocked
    <3>2. CASE SampleRelease
      <4>1. pending' # "WifiReset" /\ pending' # "Edit"
        BY <3>2 DEF SampleRelease
      <4> QED BY <4>1, <3>2, <2>1, FactoryResetEarned
    <3>3. CASE SampleIdle
      <4>1. pending' # "FactoryReset" /\ pending' # "Edit"
        BY <3>3 DEF SampleIdle
      <4> QED BY <4>1, <3>3, <2>1, WifiResetEarned
    <3>4. CASE SamplePress
      BY <3>4 DEF SamplePress
    <3>5. CASE SampleHeld
      <4>1. pending' # "FactoryReset" /\ pending' # "WifiReset"
        BY <3>5 DEF SampleHeld
      <4> QED BY <4>1, <3>5, <2>1, EditEarned
    <3> QED BY <2>1, <3>1, <3>2, <3>3, <3>4, <3>5 DEF Sample
  <2>2. CASE PollServed \/ PollRefused
    BY <2>2 DEF PollServed, PollRefused
  <2>3. CASE ResetField
    BY <2>3 DEF ResetField
  <2>4. CASE Restart
    BY <2>4 DEF Restart, PoweredUp
  <2> QED BY <2>1, <2>2, <2>3, <2>4 DEF Next
<1> QED
  BY <1>1, ButtonInit, ButtonStep, PTL DEF Spec, ActionsEarned
=============================================================================
