--------------------------- MODULE SpectrumProofs ---------------------------
(***************************************************************************)
(* Proofs about SpectrumHistory, for rings of any depth, spectra of any    *)
(* size and any number of them: the ring of rows implements RowHistory,    *)
(* and what is drawn of it, through the coordinates of a texture or from   *)
(* memory, is that history; and about SpectrumAccumulation, for any number *)
(* of sinks: a histogram and every trace implement RowHistory too.         *)
(***************************************************************************)
EXTENDS SpectrumHistory, SpectrumAccumulation, SequenceTheorems, TLAPS

-----------------------------------------------------------------------------
(* Arithmetic of the ring.                                                 *)

\* A position is wrapped at most once.
LEMMA WrapOnce ==
  ASSUME NEW h \in Nat \ {0}, NEW x \in 0..(2 * h - 1)
  PROVE  x % h = (IF x < h THEN x ELSE x - h) /\ x % h \in 0..(h - 1)
BY SMT

\* The middle of the p-th of f bands lies in the row with p - 1 rows before it.
LEMMA BandOfRow ==
  ASSUME NEW f \in Nat \ {0}, NEW p \in 1..f
  PROVE  ((2 * p - 1) * (f - 1) + f) \div (2 * f) = p - 1
BY SMT

-----------------------------------------------------------------------------
(* Rings and their rows.                                                   *)

\* A ring of rows, whose contents and times are the same.
RingOK(r) ==
  /\ r \in [width : Nat, height : Nat, writeRow : Nat, filled : 0..r.height,
            cells : {r.times}, times : [0..(r.height - 1) -> Nat]]
  /\ r.height > 0 => r.writeRow < r.height
  /\ r.width > 0 => r.height > 0

\* The rows of a ring are a sequence, and each is in the ring.
LEMMA RowsOfRing ==
  ASSUME NEW r, RingOK(r)
  PROVE  /\ RowsOf(r) \in Seq(Nat) /\ Len(RowsOf(r)) = r.filled
         /\ \A k \in 1..r.filled : \A x \in Int :
              x = r.writeRow + r.height - r.filled + (k - 1) =>
                /\ x \in 0..(2 * r.height - 1) /\ x % r.height \in 0..(r.height - 1)
                /\ RowsOf(r)[k] = r.times[x % r.height]
<1>1. ASSUME NEW k \in 1..r.filled, NEW x \in Int,
             x = r.writeRow + r.height - r.filled + (k - 1)
      PROVE  /\ x \in 0..(2 * r.height - 1) /\ x % r.height \in 0..(r.height - 1)
             /\ RowAmongLast(r, r.filled, k - 1) = x % r.height
  <2>1. r.height \in Nat \ {0} /\ x \in 0..(2 * r.height - 1)
    BY <1>1 DEF RingOK
  <2>2. x % r.height \in 0..(r.height - 1)
    BY <2>1, WrapOnce
  <2>3. RowAmongLast(r, r.filled, k - 1) = x % r.height
    BY <1>1 DEF RowAmongLast
  <2> QED BY <2>1, <2>2, <2>3
<1>2. ASSUME NEW k \in 1..r.filled
      PROVE  r.times[RowAmongLast(r, r.filled, k - 1)] \in Nat
  <2> DEFINE x == r.writeRow + r.height - r.filled + (k - 1)
  <2>1. x \in Int
    BY DEF RingOK
  <2>2. RowAmongLast(r, r.filled, k - 1) \in 0..(r.height - 1)
    BY <1>1, <2>1
  <2> QED BY <2>2 DEF RingOK
<1>3. r.filled \in Nat
  BY DEF RingOK
<1>4. RowsOf(r) \in Seq(Nat)
  BY <1>2, <1>3, IsASeq DEF RowsOf
<1>5. Len(RowsOf(r)) = r.filled
  BY <1>2, <1>3, <1>4 DEF RowsOf
<1>6. \A k \in 1..r.filled : RowsOf(r)[k] = r.times[RowAmongLast(r, r.filled, k - 1)]
  BY DEF RowsOf
<1> QED BY <1>1, <1>4, <1>5, <1>6

\* The last n elements of a sequence, from the last one backwards.
LEMMA LastOfSeq ==
  ASSUME NEW s \in Seq(Nat), NEW n \in Nat
  PROVE  LET t == History!LastOf(n, s)
         IN /\ t \in Seq(Nat) /\ Len(t) = IF Len(s) <= n THEN Len(s) ELSE n
            /\ \A k \in 1..Len(t) : t[k] = s[k + Len(s) - Len(t)]
<1> DEFINE t == History!LastOf(n, s)
<1>1. CASE Len(s) <= n
  <2>1. t = s
    BY <1>1 DEF History!LastOf
  <2>2. Len(s) \in Nat /\ \A k \in 1..Len(s) : k + Len(s) - Len(s) = k
    OBVIOUS
  <2> QED BY <1>1, <2>1, <2>2
<1>2. CASE ~(Len(s) <= n)
  <2> DEFINE m == Len(s) - n + 1
  <2>1. t = SubSeq(s, m, Len(s))
    BY <1>2 DEF History!LastOf
  <2>2. m \in 1..(Len(s) + 1) /\ Len(s) \in Nat /\ m \in Int /\ Len(s) - m + 1 = n
    BY <1>2
  <2>3. /\ t \in Seq(Nat)
        /\ Len(t) = IF m <= Len(s) THEN Len(s) - m + 1 ELSE 0
        /\ \A i \in 1..(Len(s) - m + 1) : t[i] = s[m + i - 1]
    BY <2>1, <2>2, SubSeqProperties
  <2> HIDE DEF t
  <2>4. Len(t) = n
    BY <2>2, <2>3
  <2>5. \A k \in 1..n : m + k - 1 = k + Len(s) - n
    BY <2>2
  <2>6. \A k \in 1..n : t[k] = s[k + Len(s) - n]
    BY <2>2, <2>3, <2>5
  <2> QED BY <1>2, <2>3, <2>4, <2>6 DEF t
<1> QED BY <1>1, <1>2

\* A ring that begins anew has no rows.
LEMMA EmptyRingRows ==
  ASSUME NEW width \in Nat, NEW height \in Nat, width > 0 => height > 0
  PROVE  LET r == EmptyRing(width, height)
         IN /\ RingOK(r) /\ r.width = width /\ r.height = height /\ r.filled = 0
            /\ RowsOf(r) = <<>> /\ r.cells = BlankRows(height) /\ r.writeRow = 0
<1> DEFINE r == EmptyRing(width, height)
<1>1. r.width = width /\ r.height = height /\ r.filled = 0 /\ r.cells = BlankRows(height)
      /\ r.writeRow = 0 /\ r.times = BlankRows(height)
  BY DEF EmptyRing
<1>2. BlankRows(height) \in [0..(height - 1) -> Nat]
  BY DEF BlankRows, Blank
<1>3. RingOK(r)
  BY <1>2 DEF RingOK, EmptyRing
<1> HIDE DEF r
<1>4. RowsOf(r) \in Seq(Nat) /\ Len(RowsOf(r)) = 0
  BY <1>1, <1>3, RowsOfRing
<1>5. RowsOf(r) = <<>>
  BY <1>4
<1> QED BY <1>1, <1>3, <1>5 DEF r

\* A row that is pushed is the newest one; the oldest one leaves a ring that is full.
LEMMA PushedRows ==
  ASSUME NEW r, RingOK(r), r.width > 0, NEW stamp \in Nat
  PROVE  LET p == Pushed(r, stamp)
         IN /\ RingOK(p) /\ p.width = r.width /\ p.height = r.height
            /\ RowsOf(p) = History!LastOf(r.height, Append(RowsOf(r), stamp))
            /\ p.cells = [r.cells EXCEPT ![r.writeRow] = stamp]
<1> DEFINE h == r.height
           w == r.writeRow
           f == r.filled
           v == (w + 1) % h
           p == Pushed(r, stamp)
           rows == RowsOf(r)
           all == Append(rows, stamp)
           last == History!LastOf(h, all)
<1>1. /\ h \in Nat \ {0} /\ w \in 0..(h - 1) /\ f \in 0..h
      /\ r.times \in [0..(h - 1) -> Nat] /\ r.cells = r.times
  BY DEF RingOK
<1>2. /\ rows \in Seq(Nat) /\ Len(rows) = f
      /\ \A k \in 1..f : \A x \in Int :
           x = w + h - f + (k - 1) => rows[k] = r.times[x % h]
  BY RowsOfRing
<1>3. /\ p.width = r.width /\ p.height = h
      /\ p.cells = [r.cells EXCEPT ![w] = stamp] /\ p.times = [r.times EXCEPT ![w] = stamp]
      /\ p.writeRow = v
      /\ p.filled = IF f < h THEN f + 1 ELSE f
      /\ p \in [width : {p.width}, height : {p.height}, writeRow : {p.writeRow},
                filled : {p.filled}, cells : {p.cells}, times : {p.times}]
  <2>1. r = [width |-> r.width, height |-> r.height, writeRow |-> r.writeRow,
             filled |-> r.filled, cells |-> r.cells, times |-> r.times]
    BY DEF RingOK
  <2>2. r.width # 0 /\ h # 0
    BY <1>1
  <2>3. p = [width |-> r.width, height |-> h, writeRow |-> v,
             filled |-> IF f < h THEN f + 1 ELSE f,
             cells |-> [r.cells EXCEPT ![w] = stamp], times |-> [r.times EXCEPT ![w] = stamp]]
    BY <2>1, <2>2 DEF Pushed
  <2> HIDE DEF p, v
  <2> QED BY <2>3
<1>4. v \in 0..(h - 1) /\ (v = w + 1 \/ v + h = w + 1)
  <2> HIDE DEF h, w
  <2> DEFINE x == w + 1
  <2>1. x \in 0..(2 * h - 1)
    BY <1>1
  <2> HIDE DEF x
  <2>2. x % h \in 0..(h - 1) /\ x % h = IF x < h THEN x ELSE x - h
    BY <1>1, <2>1, WrapOnce
  <2>3. x % h = x \/ (x % h) + h = x
    BY <1>1, <2>1, <2>2
  <2> QED BY <2>2, <2>3 DEF x
<1> HIDE DEF h, w, f, p, v, rows
<1>5. RingOK(p)
  <2>1. p.times \in [0..(h - 1) -> Nat] /\ p.cells = p.times
    BY <1>1, <1>3
  <2>2. p.filled \in 0..h
    BY <1>1, <1>3
  <2>3. p.writeRow \in Nat /\ p.writeRow < h
    BY <1>1, <1>3, <1>4
  <2>4. r.width \in Nat
    BY DEF RingOK
  <2>5. p \in [width : Nat, height : Nat, writeRow : Nat, filled : 0..p.height,
              cells : {p.times}, times : [0..(p.height - 1) -> Nat]]
    BY <1>1, <1>3, <2>1, <2>2, <2>3, <2>4
  <2> QED BY <1>1, <1>3, <2>3, <2>5 DEF RingOK
<1>6. /\ RowsOf(p) \in Seq(Nat) /\ Len(RowsOf(p)) = p.filled
      /\ \A k \in 1..p.filled : \A x \in Int :
           x = v + h - p.filled + (k - 1) =>
             /\ x \in 0..(2 * h - 1) /\ x % h \in 0..(h - 1)
             /\ RowsOf(p)[k] = p.times[x % h]
  <2>1. p.height = h /\ p.writeRow = v
    BY <1>3
  <2>2. \A k \in 1..p.filled : \A x \in Int :
           x = p.writeRow + p.height - p.filled + (k - 1) =>
             /\ x \in 0..(2 * p.height - 1) /\ x % p.height \in 0..(p.height - 1)
             /\ RowsOf(p)[k] = p.times[x % p.height]
    BY <1>5, RowsOfRing
  <2> HIDE DEF RowsOf
  <2>3. RowsOf(p) \in Seq(Nat) /\ Len(RowsOf(p)) = p.filled
    BY <1>5, RowsOfRing
  <2> QED BY <2>1, <2>2, <2>3
<1>7. /\ all \in Seq(Nat) /\ Len(all) = f + 1 /\ all[f + 1] = stamp
      /\ \A k \in 1..f : all[k] = rows[k]
  BY <1>1, <1>2
<1> HIDE DEF all
<1>8. /\ last \in Seq(Nat) /\ Len(last) = IF Len(all) <= h THEN Len(all) ELSE h
      /\ \A k \in 1..Len(last) : last[k] = all[k + Len(all) - Len(last)]
  BY <1>1, <1>7, LastOfSeq
<1> HIDE DEF last
<1> DEFINE n == p.filled
           lost == f + 1 - n
<1>9. /\ n \in 1..h /\ Len(last) = n /\ lost \in 0..1
      /\ (f < h => lost = 0) /\ (~(f < h) => lost = 1 /\ f = h)
  BY <1>1, <1>3, <1>7, <1>8
<1> HIDE DEF n, lost
<1>10. ASSUME NEW k \in 1..n
       PROVE  RowsOf(p)[k] = last[k]
  <2> DEFINE i == k + lost
             x == v + h - n + (k - 1)
             y == w + h - f + (i - 1)
  <2>0. n = f + 1 - lost /\ n \in Nat
    BY <1>1, <1>9 DEF lost
  <2>1. i \in 1..(f + 1) /\ x \in Int /\ y \in 0..(2 * h - 1) /\ (x = y \/ x + h = y)
    <3>1. i \in 1..(f + 1)
      BY <1>1, <1>9, <2>0
    <3>2. v \in Int /\ h \in Int /\ w \in Int
      BY <1>1, <1>4
    <3>3. x \in Int
      BY <2>0, <3>2
    <3>4. y \in 0..(2 * h - 1)
      <4> HIDE DEF i
      <4> QED BY <1>1, <3>1
    <3>5. y = w + h - f + k + lost - 1 /\ x = v + h - n + k - 1
      BY <1>1, <1>9, <2>0, <3>2
    <3>6. x = v + h - f - 1 + lost + k - 1
      BY <1>1, <1>9, <2>0, <3>2, <3>5
    <3> HIDE DEF x, y, i
    <3>7. x = y \/ x + h = y
      BY <1>1, <1>4, <1>9, <3>2, <3>5, <3>6
    <3> QED BY <3>1, <3>3, <3>4, <3>7
  <2>2. last[k] = all[i]
    <3>1. k + Len(all) - Len(last) = i
      BY <1>1, <1>7, <1>9, <2>0
    <3> QED BY <1>8, <1>9, <3>1
  <2>3. f < h \/ i > 1
    BY <1>1, <1>9
  <2> HIDE DEF i
  <2>10. i = f + 1 => y = w + h
    BY <1>1
  <2>4. i # f + 1 => y # w /\ y # w + h /\ i \in 1..f
    <3>1. ASSUME i # f + 1 PROVE i \in 1..f
      BY <1>1, <2>1, <3>1
    <3>2. ASSUME i \in 1..f PROVE y # w /\ y # w + h
      BY <1>1, <2>3, <3>2
    <3> QED BY <3>1, <3>2
  <2>5. x \in 0..(2 * h - 1) /\ x % h \in 0..(h - 1) /\ RowsOf(p)[k] = p.times[x % h]
    <3>1. n = p.filled
      BY DEF n
    <3>2. x = v + h - p.filled + (k - 1) /\ k \in 1..p.filled
      BY <3>1
    <3> HIDE DEF x
    <3> QED BY <1>6, <2>1, <3>2
  <2>6. i \in 1..f => rows[i] = r.times[y % h]
    <3>1. y \in Int
      BY <1>1, <2>1
    <3> QED BY <1>2, <3>1
  <2> HIDE DEF x, y
  <2>7. x % h = y % h /\ y % h = IF y < h THEN y ELSE y - h
    <3>1. x % h = IF x < h THEN x ELSE x - h
      BY <1>1, <2>5, WrapOnce
    <3>2. y % h = IF y < h THEN y ELSE y - h
      BY <1>1, <2>1, WrapOnce
    <3>3. CASE x = y
      BY <3>2, <3>3
    <3>4. CASE x + h = y
      <4>1. x < h /\ ~(y < h) /\ y - h = x
        BY <1>1, <2>1, <2>5, <3>4
      <4> QED BY <3>1, <3>2, <4>1
    <3> QED BY <2>1, <3>3, <3>4
  <2>8. CASE i = f + 1
    <3>1. x % h = w
      BY <1>1, <2>1, <2>10, <2>7, <2>8
    <3> QED BY <1>1, <1>3, <1>7, <2>2, <2>5, <2>8, <3>1
  <2>9. CASE i # f + 1
    <3>0. y % h # w
      <4>1. y - h # w
        BY <1>1, <2>1, <2>4, <2>9
      <4> QED BY <2>4, <2>7, <2>9, <4>1
    <3>1. x % h # w
      BY <2>7, <3>0
    <3>2. p.times[x % h] = r.times[x % h]
      BY <1>1, <1>3, <2>5, <3>1
    <3> QED BY <1>7, <2>2, <2>4, <2>5, <2>6, <2>7, <2>9, <3>2
  <2> QED BY <2>8, <2>9
<1>11. RowsOf(p) = last
  BY <1>6, <1>8, <1>9, <1>10, SeqEqual DEF n
<1> QED BY <1>3, <1>5, <1>11 DEF p, last, all, rows, h, w

\* A ring that is made deeper keeps its rows, one that is made less deep the newest ones.
LEMMA ResizedRows ==
  ASSUME NEW r, RingOK(r), r.width > 0, NEW height \in Nat \ {0}
  PROVE  LET z == ResizedHistory(r, height)
         IN /\ RingOK(z) /\ z.width = r.width /\ z.height = height
            /\ RowsOf(z) = History!LastOf(height, RowsOf(r))
<1> DEFINE z == ResizedHistory(r, height)
           h == r.height
           w == r.writeRow
           f == r.filled
           rows == RowsOf(r)
           last == History!LastOf(height, rows)
<1>1. /\ h \in Nat \ {0} /\ w \in 0..(h - 1) /\ f \in 0..h
      /\ r.times \in [0..(h - 1) -> Nat] /\ r.cells = r.times /\ r.width \in Nat
  BY DEF RingOK
<1>2. /\ rows \in Seq(Nat) /\ Len(rows) = f
      /\ \A k \in 1..f : \A x \in Int :
           x = w + h - f + (k - 1) => /\ x % h \in 0..(h - 1)
                                      /\ rows[k] = r.times[x % h]
  BY RowsOfRing
<1>3. /\ last \in Seq(Nat) /\ Len(last) = IF f <= height THEN f ELSE height
      /\ \A k \in 1..Len(last) : last[k] = rows[k + f - Len(last)]
  <2>1. rows \in Seq(Nat) /\ Len(rows) = f
    BY <1>2
  <2> HIDE DEF rows, f
  <2> QED BY <2>1, LastOfSeq
<1>4. CASE height = h
  <2>1. z = r
    BY <1>4 DEF ResizedHistory
  <2>2. Len(last) = f /\ \A k \in 1..f : k + f - f = k
    BY <1>1, <1>3, <1>4
  <2> HIDE DEF last, rows
  <2>3. \A k \in 1..Len(rows) : last[k] = rows[k]
    BY <1>2, <1>3, <2>2
  <2>4. last = rows
    BY <1>2, <1>3, <2>2, <2>3, SeqEqual
  <2> QED BY <1>4, <2>1, <2>4 DEF last, rows
<1>5. CASE height # h
  <2> DEFINE kept == IF f < height THEN f ELSE height
             old(row) == RowAmongLast(r, kept, row - (height - kept))
             copied == [row \in 0..(height - 1) |->
                          IF row < height - kept THEN Blank ELSE r.times[old(row)]]
  <2>1. kept \in Nat /\ kept <= height /\ kept <= f
    BY <1>1
  <2>2. /\ z.width = r.width /\ z.height = height /\ z.writeRow = 0 /\ z.filled = kept
        /\ z.cells = copied /\ z.times = copied
        /\ z \in [width : {z.width}, height : {z.height}, writeRow : {z.writeRow},
                  filled : {z.filled}, cells : {z.cells}, times : {z.times}]
    <3>1. r = [width |-> r.width, height |-> r.height, writeRow |-> r.writeRow,
               filled |-> r.filled, cells |-> r.cells, times |-> r.times]
      BY DEF RingOK
    <3>2. r.width # 0 /\ r.cells = r.times
      BY <1>1
    <3>3. z = [width |-> r.width, height |-> height, writeRow |-> 0, filled |-> kept,
               cells |-> copied, times |-> copied]
      BY <1>5, <3>1, <3>2 DEF ResizedHistory
    <3> HIDE DEF z, kept, copied
    <3> QED BY <3>3
  <2>3. Len(last) = kept
    BY <1>1, <1>3
  <2> HIDE DEF z, last, rows, kept, h, w, f
  <2>4. ASSUME NEW row \in 0..(height - 1), ~(row < height - kept),
               NEW k \in 1..kept, row = height - kept + (k - 1)
        PROVE  copied[row] = last[k] /\ copied[row] \in Nat
    <3> DEFINE i == k + f - kept
               x == w + h - f + (i - 1)
    <3>0. i \in 1..f
      BY <1>1, <2>1
    <3>1. i \in 1..f /\ x \in Int
      <4> HIDE DEF i
      <4> QED BY <1>1, <3>0
    <3>2. x = w + h - kept + (row - (height - kept))
      BY <1>1, <2>1, <2>4
    <3>3. last[k] = rows[i]
      BY <1>3, <2>3
    <3> HIDE DEF i
    <3>4. x % h \in 0..(h - 1) /\ rows[i] = r.times[x % h]
      BY <1>2, <3>1
    <3> HIDE DEF x
    <3>5. old(row) = x % h
      BY <3>2 DEF RowAmongLast, h, w
    <3>6. copied[row] = r.times[x % h]
      BY <2>4, <3>5
    <3> QED BY <1>1, <3>3, <3>4, <3>6
  <2>5. \A row \in 0..(height - 1) : copied[row] \in Nat
    <3>1. ASSUME NEW row \in 0..(height - 1), ~(row < height - kept)
          PROVE  copied[row] \in Nat
      <4> DEFINE k == row - (height - kept) + 1
      <4>1. k \in 1..kept /\ row = height - kept + (k - 1)
        BY <2>1, <3>1
      <4> HIDE DEF k, copied
      <4> QED BY <2>4, <3>1, <4>1
    <3> QED BY <3>1 DEF Blank
  <2>6. RingOK(z)
    <3>1. copied \in [0..(height - 1) -> Nat]
      BY <2>5
    <3> HIDE DEF copied
    <3>2. z \in [width : Nat, height : Nat, writeRow : Nat, filled : 0..z.height,
                cells : {z.times}, times : [0..(z.height - 1) -> Nat]]
      BY <1>1, <2>1, <2>2, <3>1
    <3> QED BY <2>2, <3>2 DEF RingOK
  <2> HIDE DEF copied
  <2>7. /\ RowsOf(z) \in Seq(Nat) /\ Len(RowsOf(z)) = kept
        /\ \A k \in 1..kept : \A x \in Int :
             x = 0 + height - kept + (k - 1) => RowsOf(z)[k] = copied[x % height]
    <3> HIDE DEF RowsOf
    <3>1. RowsOf(z) \in Seq(Nat) /\ Len(RowsOf(z)) = z.filled
      BY <2>6, RowsOfRing
    <3>2. \A k \in 1..z.filled : \A x \in Int :
            x = z.writeRow + z.height - z.filled + (k - 1) =>
              RowsOf(z)[k] = z.times[x % z.height]
      BY <2>6, RowsOfRing
    <3> QED BY <2>2, <3>1, <3>2
  <2>8. ASSUME NEW k \in 1..kept
        PROVE  RowsOf(z)[k] = last[k]
    <3> DEFINE row == height - kept + (k - 1)
    <3>1. /\ row \in 0..(height - 1) /\ ~(row < height - kept)
          /\ row = 0 + height - kept + (k - 1) /\ row \in 0..(2 * height - 1) /\ row < height
      BY <2>1
    <3>2. copied[row] = last[k]
      BY <2>4, <3>1
    <3>3. RowsOf(z)[k] = copied[row % height]
      BY <2>7, <3>1
    <3> HIDE DEF row
    <3>4. row % height = row
      BY <3>1, WrapOnce
    <3> QED BY <3>2, <3>3, <3>4
  <2>9. RowsOf(z) = last
    BY <1>3, <2>3, <2>7, <2>8, SeqEqual
  <2> QED BY <2>2, <2>6, <2>9 DEF z, last, rows
<1> QED BY <1>4, <1>5

-----------------------------------------------------------------------------
(* What is drawn of a ring.                                                *)

\* The row of a ring that a position leads to.
LEMMA RowAt ==
  ASSUME NEW r, RingOK(r), NEW k \in 1..r.filled, NEW x \in Int,
         x = r.writeRow + r.height - r.filled + (k - 1)
  PROVE  r.times[x % r.height] = RowsOf(r)[k]
<1> HIDE DEF RowsOf
<1> QED BY RowsOfRing

\* The p-th band of the texture shows the p-th newest row.
LEMMA BandShows ==
  ASSUME NEW r, RingOK(r), NEW p \in 1..r.filled
  PROVE  r.times[SampledRow(r, p)] = RowsOf(r)[r.filled + 1 - p]
<1> DEFINE f == r.filled
           h == r.height
           w == r.writeRow
           x == w + h - 1 - (p - 1)
<1>1. f \in Nat \ {0} /\ h \in Nat /\ w \in Nat /\ p \in 1..f
  BY DEF RingOK
<1> HIDE DEF f
<1>2. SampledRow(r, p) = x % h
  <2>1. ((2 * p - 1) * (f - 1) + f) \div (2 * f) = p - 1
    BY <1>1, BandOfRow
  <2> QED BY <2>1 DEF SampledRow, f
<1>3. /\ x \in Int /\ f + 1 - p \in 1..f
      /\ x = w + h - f + ((f + 1 - p) - 1)
  BY <1>1
<1> HIDE DEF x
<1> QED BY <1>2, <1>3, RowAt DEF f

\* The same row, counted from the newest in memory.
LEMMA RowFromNewest ==
  ASSUME NEW r, RingOK(r), NEW k \in 1..r.filled
  PROVE  r.times[(r.writeRow + r.height - 1 - (r.filled - k)) % r.height] = RowsOf(r)[k]
<1> DEFINE x == r.writeRow + r.height - 1 - (r.filled - k)
<1>1. x \in Int /\ x = r.writeRow + r.height - r.filled + (k - 1)
  BY DEF RingOK
<1> HIDE DEF x
<1>2. r.times[x % r.height] = RowsOf(r)[k]
  BY <1>1, RowAt
<1> QED BY <1>2 DEF x

\* The images show the rows or, for the other direction, the rows reversed; the bounds of
\* the time axis are the times of the oldest and of the newest row.
LEMMA DrawnRows ==
  ASSUME RingOK(ring), ring.filled > 0
  PROVE  /\ ~IsSurface /\ texels = ring.cells =>
              \A leading, horizontal \in BOOLEAN :
                Image(leading, horizontal) = IF leading THEN RowsOf(ring) ELSE Reverse(RowsOf(ring))
         /\ RawTimeBounds(ring) = <<Head(RowsOf(ring)), Last(RowsOf(ring))>>
         /\ SurfaceArrays = RowsOf(ring)
<1> DEFINE f == ring.filled
           rows == RowsOf(ring)
           flipped == [k \in 1..f |-> rows[f + 1 - k]]
<1>1. f \in Nat \ {0} /\ ring.cells = ring.times
  BY DEF RingOK
<1>2. /\ rows \in Seq(Nat) /\ Len(rows) = f
      /\ rows = [k \in 1..f |-> rows[k]]
  <2>1. rows \in Seq(Nat) /\ Len(rows) = f
    BY RowsOfRing
  <2>2. rows = [k \in 1..f |-> rows[k]]
    BY DEF RowsOf
  <2> QED BY <2>1, <2>2
<1>3. \A k \in 1..f : ring.times[RowAmongLast(ring, f, k - 1)] = rows[k]
  BY DEF RowsOf
<1> HIDE DEF rows
<1>4. Reverse(rows) = flipped
  <2>1. \A k \in 1..f : f + 1 - k = (f - k) + 1
    BY <1>1
  <2>2. flipped = [k \in 1..f |-> rows[(f - k) + 1]]
    BY <2>1
  <2> QED BY <1>2, <2>2 DEF Reverse
<1>5. \A k \in 1..f : /\ f + 1 - k \in 1..f /\ f + 1 - (f + 1 - k) = k
                      /\ f - k = (f + 1 - k) - 1
  BY <1>1
<1>6. ASSUME texels = ring.cells, NEW leading \in BOOLEAN
      PROVE  TextureImage(leading) = IF leading THEN rows ELSE flipped
  <2>1. \A p \in 1..f : texels[SampledRow(ring, p)] = rows[f + 1 - p]
    BY <1>1, <1>6, BandShows DEF rows
  <2>2. \A k \in 1..f : texels[SampledRow(ring, k)] = rows[f + 1 - k]
    BY <2>1
  <2>3. \A k \in 1..f : texels[SampledRow(ring, f + 1 - k)] = rows[k]
    BY <1>5, <2>1
  <2> HIDE DEF f
  <2>4. CASE leading
    <3>1. TextureImage(leading) = [k \in 1..f |-> texels[SampledRow(ring, f + 1 - k)]]
      BY <2>4 DEF TextureImage, f
    <3> QED BY <1>2, <2>3, <2>4, <3>1
  <2>5. CASE ~leading
    <3>1. TextureImage(leading) = [k \in 1..f |-> texels[SampledRow(ring, k)]]
      BY <2>5 DEF TextureImage, f
    <3> QED BY <2>2, <2>5, <3>1
  <2> QED BY <2>4, <2>5
<1>7. ASSUME NEW leading \in BOOLEAN
      PROVE  CpuImage(leading) = IF leading THEN rows ELSE flipped
  <2> DEFINE cellOf(k) == (ring.writeRow + ring.height - 1 - (f - k)) % ring.height
  <2>1. \A k \in 1..f : ring.cells[cellOf(k)] = rows[k]
    BY <1>1, RowFromNewest DEF rows
  <2>2. \A k \in 1..f : ring.cells[RowAmongLast(ring, f, f - k)] = rows[f + 1 - k]
    <3> HIDE DEF f
    <3> QED BY <1>1, <1>3, <1>5
  <2>3. CASE leading
    <3>1. CpuImage(leading) = [k \in 1..f |-> ring.cells[cellOf(k)]]
      BY <2>3 DEF CpuImage
    <3> HIDE DEF f, cellOf
    <3> QED BY <1>2, <2>1, <2>3, <3>1
  <2>4. CASE ~leading
    <3>1. CpuImage(leading) = [k \in 1..f |-> ring.cells[RowAmongLast(ring, f, f - k)]]
      BY <2>4 DEF CpuImage
    <3> HIDE DEF f
    <3> QED BY <2>2, <2>4, <3>1
  <2> QED BY <2>3, <2>4
<1>8. ASSUME NEW leading \in BOOLEAN
      PROVE  CpuImageHorizontal(leading) = IF leading THEN rows ELSE flipped
  <2>1. CASE leading
    <3>1. CpuImageHorizontal(leading) = [k \in 1..f |-> ring.cells[RowAmongLast(ring, f, k - 1)]]
      BY <2>1 DEF CpuImageHorizontal
    <3> HIDE DEF f
    <3> QED BY <1>1, <1>2, <1>3, <2>1, <3>1
  <2>2. CASE ~leading
    <3>1. CpuImageHorizontal(leading) = [k \in 1..f |-> ring.cells[RowAmongLast(ring, f, f - k)]]
      BY <2>2 DEF CpuImageHorizontal
    <3> HIDE DEF f
    <3>2. \A k \in 1..f : ring.cells[RowAmongLast(ring, f, f - k)] = rows[f + 1 - k]
      BY <1>1, <1>3, <1>5
    <3> QED BY <2>2, <3>1, <3>2
  <2> QED BY <2>1, <2>2
<1>9. ASSUME texels = ring.cells, NEW leading \in BOOLEAN, NEW horizontal \in BOOLEAN
      PROVE  Image(leading, horizontal) = IF leading THEN rows ELSE Reverse(rows)
  <2> HIDE DEF flipped
  <2> QED BY <1>4, <1>6, <1>7, <1>8, <1>9 DEF Image
<1>10. RawTimeBounds(ring) = <<Head(rows), Last(rows)>>
  <2>1. ring.times[RowAmongLast(ring, f, 0)] = rows[1]
    <3> HIDE DEF f
    <3>1. 1 \in 1..f /\ 1 - 1 = 0
      BY <1>1
    <3> QED BY <1>3, <3>1
  <2>2. ring.times[RowAmongLast(ring, 1, 0)] = rows[f]
    <3>1. /\ f \in 1..f
          /\ ring.writeRow + ring.height - 1 - (f - f) = ring.writeRow + ring.height - 1 + 0
      BY <1>1 DEF RingOK
    <3>2. ring.times[(ring.writeRow + ring.height - 1 - (f - f)) % ring.height] = rows[f]
      BY <3>1, RowFromNewest DEF rows
    <3> QED BY <3>1, <3>2 DEF RowAmongLast
  <2>3. Head(rows) = rows[1] /\ Last(rows) = rows[f]
    BY <1>2 DEF Last
  <2> QED BY <2>1, <2>2, <2>3 DEF RawTimeBounds
<1>11. SurfaceArrays = rows
  <2>1. SurfaceArrays = [k \in 1..f |-> ring.times[RowAmongLast(ring, f, k - 1)]]
    BY <1>1 DEF SurfaceArrays
  <2> QED BY <2>1 DEF RowsOf, rows
<1> QED BY <1>9, <1>10, <1>11 DEF rows

-----------------------------------------------------------------------------
(* The invariant.                                                          *)

\* The ring has rows of one width, that of the spectrum taken over last; every row is older
\* than a spectrum that is still to be taken over; the texture, and a mesh that is not
\* marked, hold what the ring holds.
HistoryInv ==
  /\ RingOK(ring) /\ ring.width = lastWidth /\ resets \in Nat
  /\ settings \in [depth : Depths, gpu : BOOLEAN, log : BOOLEAN]
  /\ latest \in [stamp : Nat, count : Nat, bins : Nat]
  /\ latest.count > 0 => latest.bins > 0
  /\ \A k \in 1..ring.filled : /\ RowsOf(ring)[k] <= latest.stamp
                               /\ latest.count # lastCount => RowsOf(ring)[k] < latest.stamp
  /\ ~IsSurface => texels = ring.cells
  /\ IsSurface /\ ~meshDirty /\ ring.filled >= 2 => mesh = MeshOf(ring)

\* A step of the history that RowHistory allows, or none.
HistoryStep == [History!HistoryNext]_<<RowsOf(ring), ring.height,
                                       <<ring.width, preferGpu, lastLog, resets>>>>

\* Initially there is no row.
LEMMA InitHistory ==
  ASSUME SpectrumHistoryInit
  PROVE  HistoryInv /\ History!HistoryInit
<1>1. /\ RingOK(ring) /\ ring.width = 0 /\ ring.height = 0 /\ ring.filled = 0
      /\ RowsOf(ring) = <<>> /\ ring.cells = BlankRows(0)
  BY EmptyRingRows DEF SpectrumHistoryInit
<1>2. settings \in [depth : Depths, gpu : BOOLEAN, log : BOOLEAN]
  BY DEF SpectrumHistoryInit
<1>3. latest \in [stamp : Nat, count : Nat, bins : Nat] /\ latest.count = 0
  BY DEF SpectrumHistoryInit
<1>4. lastWidth = 0 /\ texels = BlankRows(0) /\ resets \in Nat
  BY DEF SpectrumHistoryInit
<1>5. HistoryInv
  BY <1>1, <1>2, <1>3, <1>4 DEF HistoryInv
<1> QED BY <1>1, <1>5 DEF History!HistoryInit

\* What leaves the ring alone, and with it what is drawn of it.
LEMMA KeepsHistory ==
  ASSUME HistoryInv, UNCHANGED <<kind, chartStateVars>>, UNCHANGED resets,
         settings' \in [depth : Depths, gpu : BOOLEAN, log : BOOLEAN],
         \/ UNCHANGED latest
         \/ /\ latest' \in [stamp : Nat, count : Nat, bins : Nat]
            /\ latest'.stamp > latest.stamp /\ latest'.bins > 0
  PROVE  HistoryInv' /\ HistoryStep
<1>1. ring' = ring /\ RowsOf(ring)' = RowsOf(ring)
  BY DEF chartStateVars, RowsOf, RowAmongLast
<1>2. HistoryStep
  BY <1>1 DEF HistoryStep, chartStateVars
<1>3. RowsOf(ring) \in Seq(Nat) /\ Len(RowsOf(ring)) = ring.filled /\ latest.stamp \in Nat
  BY RowsOfRing DEF HistoryInv
<1>4. \A k \in 1..ring.filled :
        /\ RowsOf(ring)[k] <= latest'.stamp
        /\ latest'.count # lastCount => RowsOf(ring)[k] < latest'.stamp
  <2> HIDE DEF RowsOf
  <2>1. ASSUME NEW k \in 1..ring.filled
        PROVE  /\ RowsOf(ring)[k] \in Nat /\ RowsOf(ring)[k] <= latest.stamp
               /\ latest.count # lastCount => RowsOf(ring)[k] < latest.stamp
    BY <1>3 DEF HistoryInv
  <2>2. CASE UNCHANGED latest
    BY <2>1, <2>2
  <2>3. CASE ~UNCHANGED latest
    <3>1. latest'.stamp \in Nat /\ latest'.stamp > latest.stamp
      BY <2>3
    <3> QED BY <1>3, <2>1, <3>1
  <2> QED BY <2>2, <2>3
<1>5. latest' \in [stamp : Nat, count : Nat, bins : Nat] /\ (latest'.count > 0 => latest'.bins > 0)
  BY DEF HistoryInv
<1>6. /\ lastCount' = lastCount /\ lastWidth' = lastWidth /\ texels' = texels /\ mesh' = mesh
      /\ meshDirty' = meshDirty /\ kind' = kind
  BY DEF chartStateVars
<1>7. (IsSurface <=> IsSurface') /\ MeshOf(ring)' = MeshOf(ring)
  BY <1>1, <1>6 DEF IsSurface, MeshOf, RowAmongLast
<1> QED BY <1>1, <1>2, <1>4, <1>5, <1>6, <1>7 DEF HistoryInv

\* A history that does not get deeper than it is keeps its rows.
LEMMA LastOfAll ==
  ASSUME NEW s \in Seq(Nat), NEW n \in Nat, Len(s) <= n
  PROVE  History!LastOf(n, s) = s
BY DEF History!LastOf

\* A spectrum that arrives is newer than every row.
LEMMA ArriveHistory ==
  ASSUME HistoryInv, Arrive
  PROVE  HistoryInv' /\ HistoryStep
<1>1. latest.stamp \in Nat /\ latest.count \in Nat
  BY DEF HistoryInv
<1>2. PICK bins \in SpectrumBins, carriesTime \in BOOLEAN :
        latest' = [stamp |-> latest.stamp + 1, bins |-> bins,
                   count |-> IF carriesTime THEN 1 ELSE latest.count + 1]
  BY DEF Arrive
<1>3. bins \in Nat /\ bins > 0
  BY SpectrumHistoryAssumption
<1>4. /\ latest' \in [stamp : Nat, count : Nat, bins : Nat]
      /\ latest'.stamp > latest.stamp /\ latest'.bins > 0
  <2>1. (IF carriesTime THEN 1 ELSE latest.count + 1) \in Nat
    BY <1>1
  <2> QED BY <1>1, <1>2, <1>3, <2>1
<1>5. settings' = settings /\ resets' = resets /\ UNCHANGED <<kind, chartStateVars>>
  BY DEF Arrive, userVars
<1>6. settings' \in [depth : Depths, gpu : BOOLEAN, log : BOOLEAN]
  BY <1>5 DEF HistoryInv
<1> QED BY <1>4, <1>5, <1>6, KeepsHistory

\* What the user sets is followed in a frame.
LEMMA AdjustHistory ==
  ASSUME HistoryInv, MoveHistorySlider \/ ChangeSettings \/ SkipFetch
  PROVE  HistoryInv' /\ HistoryStep
<1>1. settings \in [depth : Depths, gpu : BOOLEAN, log : BOOLEAN]
  BY DEF HistoryInv
<1>2. UNCHANGED <<kind, chartStateVars>> /\ UNCHANGED resets /\ UNCHANGED latest
  BY DEF MoveHistorySlider, ChangeSettings, SkipFetch, Adjust
<1>3. settings' \in [depth : Depths, gpu : BOOLEAN, log : BOOLEAN]
  <2>1. CASE SkipFetch
    BY <1>1, <2>1 DEF SkipFetch, userVars
  <2>2. CASE \E depth \in Depths : settings' = [settings EXCEPT !.depth = depth]
    BY <1>1, <2>2
  <2>3. CASE settings' = [settings EXCEPT !.gpu = ~@]
    BY <1>1, <2>3
  <2>4. CASE settings' = [settings EXCEPT !.log = ~@]
    BY <1>1, <2>4
  <2> QED BY <2>1, <2>2, <2>3, <2>4 DEF MoveHistorySlider, ChangeSettings
<1> QED BY <1>2, <1>3, KeepsHistory

\* A reset leaves no row.
LEMMA ResetHistoryKeeps ==
  ASSUME HistoryInv, ResetHistory
  PROVE  HistoryInv' /\ HistoryStep
<1>1. /\ ring' = EmptyRing(ring.width, ring.height) /\ resets' = resets + 1
      /\ UNCHANGED <<kind, latest, settings, lastWidth>>
      /\ ~IsSurface => texels' = BlankRows(ring.height)
  BY DEF ResetHistory, Cleared, userVars
<1>2. /\ ring.width \in Nat /\ ring.height \in Nat /\ (ring.width > 0 => ring.height > 0)
      /\ resets \in Nat
  BY DEF HistoryInv, RingOK
<1>3. /\ RingOK(ring') /\ ring'.width = ring.width /\ ring'.filled = 0
      /\ RowsOf(ring') = <<>> /\ ring'.cells = BlankRows(ring.height)
  BY <1>1, <1>2, EmptyRingRows
<1>4. RowsOf(ring)' = RowsOf(ring') /\ RingOK(ring)' = RingOK(ring')
  BY DEF RowsOf, RowAmongLast, RingOK
<1>5. (IsSurface <=> IsSurface')
  BY <1>1 DEF IsSurface
<1>6. HistoryInv'
  BY <1>1, <1>2, <1>3, <1>4, <1>5 DEF HistoryInv
<1>7. History!Discard
  BY <1>1, <1>2, <1>3, <1>4 DEF History!Discard
<1> QED BY <1>6, <1>7 DEF HistoryStep, History!HistoryNext

\* A ring made as deep as is set: the newest rows, or none if it was begun anew.
LEMMA PreparedRows ==
  ASSUME HistoryInv, NEW wanted \in BOOLEAN
  PROVE  LET current == IF IsSurface \/ settings.gpu = preferGpu THEN ring ELSE Cleared(ring)
             prepared == Prepared(wanted)
         IN /\ RingOK(prepared) /\ prepared.width = ring.width
            /\ RowsOf(prepared) = History!LastOf(prepared.height, RowsOf(current))
            /\ prepared.height = current.height => prepared = current
            /\ current = ring \/ RowsOf(current) = <<>>
<1> DEFINE current == IF IsSurface \/ settings.gpu = preferGpu THEN ring ELSE Cleared(ring)
           prepared == Prepared(wanted)
<1>1. /\ RingOK(ring) /\ ring.width \in Nat /\ ring.height \in Nat
      /\ ring.width > 0 => ring.height > 0
      /\ settings.depth \in Nat \ {0}
  BY SpectrumHistoryAssumption DEF HistoryInv, RingOK
<1>2. /\ RingOK(current) /\ current.width = ring.width
      /\ current = ring \/ RowsOf(current) = <<>>
  <2>1. CASE IsSurface \/ settings.gpu = preferGpu
    BY <1>1, <2>1
  <2>2. CASE ~(IsSurface \/ settings.gpu = preferGpu)
    <3>1. current = EmptyRing(ring.width, ring.height)
      BY <2>2 DEF Cleared
    <3> HIDE DEF current
    <3> QED BY <1>1, <3>1, EmptyRingRows
  <2> QED BY <2>1, <2>2
<1>3. prepared = IF wanted /\ current.width > 0
                 THEN ResizedHistory(current, settings.depth) ELSE current
  BY DEF Prepared
<1> HIDE DEF current, prepared
<1>4. CASE wanted /\ current.width > 0
  <2>1. /\ RingOK(prepared) /\ prepared.width = current.width
        /\ prepared.height = settings.depth
        /\ RowsOf(prepared) = History!LastOf(settings.depth, RowsOf(current))
    BY <1>1, <1>2, <1>3, <1>4, ResizedRows
  <2>2. prepared.height = current.height => prepared = current
    BY <1>3, <1>4, <2>1 DEF ResizedHistory
  <2> QED BY <1>2, <2>1, <2>2 DEF current, prepared
<1>5. CASE ~(wanted /\ current.width > 0)
  <2>1. prepared = current
    BY <1>3, <1>5
  <2>2. /\ RowsOf(current) \in Seq(Nat) /\ Len(RowsOf(current)) <= current.height
        /\ current.height \in Nat
    <3>1. current.filled \in 0..current.height /\ current.height \in Nat
      BY <1>2 DEF RingOK
    <3>2. RowsOf(current) \in Seq(Nat) /\ Len(RowsOf(current)) = current.filled
      BY <1>2, RowsOfRing
    <3> HIDE DEF RowsOf
    <3> QED BY <3>1, <3>2
  <2>3. History!LastOf(current.height, RowsOf(current)) = RowsOf(current)
    BY <2>2, LastOfAll
  <2> QED BY <1>2, <2>1, <2>3 DEF current, prepared
<1> QED BY <1>4, <1>5

\* The rows that a ring has are bounded by what they are the newest of.
LEMMA LastOfBounded ==
  ASSUME NEW s \in Seq(Nat), NEW n \in Nat, NEW P,
         NEW b \in Nat, \A k \in 1..Len(s) : s[k] <= b /\ (P => s[k] < b)
  PROVE  LET t == History!LastOf(n, s)
         IN \A k \in 1..Len(t) : t[k] <= b /\ (P => t[k] < b)
<1> DEFINE t == History!LastOf(n, s)
<1>1. /\ t \in Seq(Nat) /\ Len(t) = IF Len(s) <= n THEN Len(s) ELSE n
      /\ \A k \in 1..Len(t) : t[k] = s[k + Len(s) - Len(t)]
  BY LastOfSeq
<1> HIDE DEF t
<1>2. ASSUME NEW k \in 1..Len(t)
      PROVE  k + Len(s) - Len(t) \in 1..Len(s)
  BY <1>1
<1> QED BY <1>1, <1>2 DEF t

\* A frame begins with the rows that there were, or with none in another memory.
LEMMA BeginDrawHistory ==
  ASSUME HistoryInv, BeginDraw
  PROVE  HistoryInv' /\ HistoryStep
<1> DEFINE wanted == ~resizePending'
           current == IF IsSurface \/ settings.gpu = preferGpu THEN ring ELSE Cleared(ring)
           rows == RowsOf(ring)
<1>1. /\ ring' = Prepared(wanted) /\ wanted \in BOOLEAN
      /\ UNCHANGED <<kind, latest, settings, resets, lastCount, lastWidth, lastLog, mesh>>
      /\ IsSurface => /\ meshDirty' = (meshDirty \/ ring'.height # ring.height)
                      /\ preferGpu' = preferGpu
      /\ ~IsSurface => /\ texels' = IF ring' = ring THEN texels ELSE ring'.cells
                       /\ preferGpu' = settings.gpu
  BY DEF BeginDraw
<1>2. /\ RingOK(ring') /\ ring'.width = ring.width
      /\ RowsOf(ring') = History!LastOf(ring'.height, RowsOf(current))
      /\ ring'.height = current.height => ring' = current
      /\ current = ring \/ RowsOf(current) = <<>>
  <2> HIDE DEF wanted
  <2> QED BY <1>1, PreparedRows
<1>3. RowsOf(ring)' = RowsOf(ring') /\ RingOK(ring)' = RingOK(ring')
  BY DEF RowsOf, RowAmongLast, RingOK
<1>4. (IsSurface <=> IsSurface') /\ MeshOf(ring)' = MeshOf(ring')
  BY <1>1 DEF IsSurface, MeshOf, RowAmongLast
<1>5. /\ ring'.height \in Nat /\ latest.stamp \in Nat
      /\ rows \in Seq(Nat) /\ Len(rows) = ring.filled
      /\ RowsOf(ring') \in Seq(Nat) /\ Len(RowsOf(ring')) = ring'.filled
  <2>1. ring'.height \in Nat /\ latest.stamp \in Nat
    BY <1>2 DEF HistoryInv, RingOK
  <2>2. RingOK(ring)
    BY DEF HistoryInv
  <2> QED BY <1>2, <2>1, <2>2, RowsOfRing
<1> HIDE DEF wanted
<1>6. \A k \in 1..ring'.filled : /\ RowsOf(ring')[k] <= latest.stamp
                                 /\ latest.count # lastCount => RowsOf(ring')[k] < latest.stamp
  <2>1. CASE current = ring
    <3>1. \A k \in 1..Len(rows) : rows[k] <= latest.stamp
                                  /\ (latest.count # lastCount => rows[k] < latest.stamp)
      BY <1>5 DEF HistoryInv
    <3> HIDE DEF rows
    <3>2. RowsOf(ring') = History!LastOf(ring'.height, rows)
      BY <1>2, <2>1 DEF rows
    <3> QED BY <1>5, <3>1, <3>2, LastOfBounded
  <2>2. CASE RowsOf(current) = <<>>
    <3>1. RowsOf(ring') = <<>>
      BY <1>2, <1>5, <2>2 DEF History!LastOf
    <3>2. ring'.filled = 0
      BY <1>5, <3>1
    <3> QED BY <3>2
  <2> QED BY <1>2, <2>1, <2>2
<1>7. ~IsSurface' => texels' = ring'.cells
  BY <1>1, <1>4 DEF HistoryInv
<1>8. IsSurface' /\ ~meshDirty' /\ ring'.filled >= 2 => mesh' = MeshOf(ring')
  <2> SUFFICES ASSUME IsSurface', ~meshDirty', ring'.filled >= 2
               PROVE  mesh' = MeshOf(ring')
    OBVIOUS
  <2>1. IsSurface /\ ~meshDirty /\ ring'.height = ring.height /\ current = ring
    BY <1>1, <1>4
  <2>2. ring' = ring
    BY <1>2, <2>1
  <2> QED BY <1>1, <2>1, <2>2 DEF HistoryInv
<1>9. HistoryInv'
  BY <1>1, <1>2, <1>3, <1>4, <1>6, <1>7, <1>8 DEF HistoryInv
<1>10. CASE current = ring /\ preferGpu' = preferGpu
  <2>1. History!Resize
    BY <1>1, <1>2, <1>3, <1>10 DEF History!Resize
  <2> QED BY <2>1, <1>9 DEF HistoryStep, History!HistoryNext
<1>11. CASE ~(current = ring /\ preferGpu' = preferGpu)
  <2>1. ~IsSurface /\ settings.gpu # preferGpu
    BY <1>1, <1>11
  <2>2. preferGpu' # preferGpu
    BY <1>1, <2>1
  <2>3. RowsOf(current) = <<>>
    <3>1. current = EmptyRing(ring.width, ring.height)
      BY <2>1 DEF Cleared
    <3>2. ring.width \in Nat /\ ring.height \in Nat /\ (ring.width > 0 => ring.height > 0)
      BY DEF HistoryInv, RingOK
    <3> HIDE DEF current
    <3> QED BY <3>1, <3>2, EmptyRingRows
  <2>4. Len(RowsOf(ring)') <= 1
    BY <1>2, <1>3, <1>5, <2>3 DEF History!LastOf
  <2>5. History!Discard
    BY <2>2, <2>4 DEF History!Discard
  <2> QED BY <1>9, <2>5 DEF HistoryStep, History!HistoryNext
<1> QED BY <1>10, <1>11

\* A spectrum that is taken over is the newest row, of the rows that there were or of a ring
\* that begins anew, because its rows get another width or another scale.
LEMMA PushHistory ==
  ASSUME HistoryInv, PushSpectrum, latest.count > 0, latest.count # lastCount,
         UNCHANGED <<kind, latest, settings, resets>>
  PROVE  /\ RingOK(ring') /\ ring'.width = lastWidth'
         /\ \A k \in 1..ring'.filled : RowsOf(ring')[k] <= latest.stamp
         /\ latest.count = lastCount'
         /\ ~IsSurface => texels' = ring'.cells
         /\ HistoryStep
<1> DEFINE width == IF settings.log THEN LogColumns ELSE latest.bins
           begun == RingFor(width)
           rows == RowsOf(ring)
           stamp == latest.stamp
           new == RowsOf(ring')
<1>1. /\ lastCount' = latest.count /\ lastWidth' = width
      /\ ring' = Pushed(begun, stamp)
      /\ IsSurface => lastLog' = settings.log /\ preferGpu' = preferGpu
      /\ ~IsSurface => /\ texels' = [(IF begun = ring THEN texels ELSE begun.cells)
                                       EXCEPT ![begun.writeRow] = stamp]
                       /\ preferGpu' = IF begun = ring THEN preferGpu ELSE settings.gpu
                       /\ lastLog' = lastLog
  BY DEF PushSpectrum
<1>2. /\ settings.depth \in Nat \ {0} /\ stamp \in Nat /\ RingOK(ring) /\ ring.width = lastWidth
      /\ width \in Nat /\ width > 0
  <2>1. settings.depth \in Nat \ {0} /\ LogColumns \in Nat /\ LogColumns > 0
    <3>1. settings.depth \in Depths
      BY DEF HistoryInv
    <3>2. settings.depth \in Nat \ {0}
      BY <3>1, SpectrumHistoryAssumption
    <3>3. LogColumns \in Nat /\ LogColumns # 0
      BY SpectrumHistoryAssumption
    <3>4. LogColumns > 0
      BY <3>3
    <3> QED BY <3>2, <3>3, <3>4
  <2>2. latest.stamp \in Nat /\ latest.bins \in Nat /\ latest.bins > 0
    BY DEF HistoryInv
  <2>3. width \in Nat /\ width > 0
    BY <2>1, <2>2
  <2> QED BY <2>1, <2>2, <2>3 DEF HistoryInv
<1> HIDE DEF width
<1>3. /\ RingOK(begun) /\ begun.width = width
      /\ \/ /\ begun = ring /\ lastWidth = width /\ (IsSurface => lastLog = settings.log)
         \/ /\ begun # ring \/ (IsSurface /\ lastLog # settings.log)
            /\ begun.filled = 0 /\ RowsOf(begun) = <<>>
            /\ lastWidth # width \/ (IsSurface /\ lastLog # settings.log)
  <2>1. CASE lastWidth # width \/ (IsSurface /\ lastLog # settings.log)
    <3>1. begun = EmptyRing(width, settings.depth)
      BY <2>1 DEF RingFor
    <3> HIDE DEF begun
    <3>2. /\ RingOK(begun) /\ begun.width = width /\ begun.filled = 0 /\ RowsOf(begun) = <<>>
      BY <1>2, <3>1, EmptyRingRows
    <3> QED BY <1>2, <2>1, <3>2
  <2>2. CASE ~(lastWidth # width \/ (IsSurface /\ lastLog # settings.log))
    <3>1. begun = ring
      BY <2>2 DEF RingFor
    <3> QED BY <1>2, <2>2, <3>1
  <2> QED BY <2>1, <2>2
<1> HIDE DEF begun
<1>4. /\ RingOK(ring') /\ ring'.width = width /\ ring'.height = begun.height
      /\ new = History!LastOf(begun.height, Append(RowsOf(begun), stamp))
      /\ ring'.cells = [begun.cells EXCEPT ![begun.writeRow] = stamp]
  BY <1>1, <1>2, <1>3, PushedRows
<1>5. /\ begun.height \in Nat \ {0} /\ begun.filled \in 0..begun.height
      /\ RowsOf(begun) \in Seq(Nat) /\ Len(RowsOf(begun)) = begun.filled
      /\ new \in Seq(Nat) /\ Len(new) = ring'.filled
  <2>1. begun.height \in Nat \ {0} /\ begun.filled \in 0..begun.height
    BY <1>2, <1>3 DEF RingOK
  <2> QED BY <1>3, <1>4, <2>1, RowsOfRing
<1>6. \A k \in 1..begun.filled : RowsOf(begun)[k] < stamp
  <2>1. CASE begun = ring
    BY <2>1 DEF HistoryInv
  <2>2. CASE begun.filled = 0
    BY <2>2
  <2> QED BY <1>3, <2>1, <2>2
<1> DEFINE all == Append(RowsOf(begun), stamp)
<1>7. /\ all \in Seq(Nat) /\ Len(all) = begun.filled + 1 /\ all[begun.filled + 1] = stamp
      /\ \A k \in 1..begun.filled : all[k] = RowsOf(begun)[k]
  BY <1>2, <1>5
<1>8. \A k \in 1..Len(all) : all[k] <= stamp /\ (FALSE => all[k] < stamp)
  <2> HIDE DEF all
  <2>1. ASSUME NEW k \in 1..Len(all) PROVE all[k] <= stamp
    <3>1. CASE k = begun.filled + 1
      BY <1>2, <1>7, <3>1
    <3>2. CASE k # begun.filled + 1
      <4>1. k \in 1..begun.filled
        BY <1>5, <1>7, <3>2
      <4>2. RowsOf(begun)[k] \in Nat
        BY <1>5, <4>1
      <4> QED BY <1>2, <1>6, <1>7, <4>1, <4>2
    <3> QED BY <3>1, <3>2
  <2> QED BY <2>1
<1>9. \A k \in 1..Len(new) : new[k] <= stamp
  <2> HIDE DEF all
  <2> QED BY <1>2, <1>4, <1>5, <1>7, <1>8, LastOfBounded DEF all
<1>16. /\ Len(new) = IF Len(all) <= begun.height THEN Len(all) ELSE begun.height
       /\ \A k \in 1..Len(new) : new[k] = all[k + Len(all) - Len(new)]
  <2> DEFINE kept == History!LastOf(begun.height, all)
  <2>1. new = kept
    BY <1>4
  <2> HIDE DEF all, new
  <2>2. /\ Len(kept) = IF Len(all) <= begun.height THEN Len(all) ELSE begun.height
        /\ \A k \in 1..Len(kept) : kept[k] = all[k + Len(all) - Len(kept)]
    BY <1>5, <1>7, LastOfSeq
  <2> QED BY <2>1, <2>2
<1>10. Len(new) \in 1..Len(new) /\ new[Len(new)] = stamp
  <2> HIDE DEF all
  <2>2. Len(new) \in 1..Len(new) /\ Len(new) + Len(all) - Len(new) = begun.filled + 1
    BY <1>5, <1>7, <1>16
  <2> QED BY <1>7, <1>16, <2>2
<1>11. ~IsSurface => texels' = ring'.cells
  <2> SUFFICES ASSUME ~IsSurface PROVE texels' = ring'.cells
    OBVIOUS
  <2>1. (IF begun = ring THEN texels ELSE begun.cells) = begun.cells
    BY DEF HistoryInv
  <2> QED BY <1>1, <1>4, <2>1
<1>12. RowsOf(ring)' = new
  BY DEF RowsOf, RowAmongLast
<1>13. ASSUME begun = ring, lastWidth = width, IsSurface => lastLog = settings.log
       PROVE  HistoryStep
  <2>1. /\ ring'.height = ring.height /\ ring'.width = ring.width /\ preferGpu' = preferGpu
        /\ lastLog' = lastLog /\ resets' = resets
    BY <1>1, <1>2, <1>4, <1>13
  <2>2. new = History!LastOf(ring.height, Append(rows, new[Len(new)]))
    BY <1>4, <1>10, <1>13
  <2>3. \A k \in DOMAIN rows : rows[k] < new[Len(new)]
    BY <1>5, <1>6, <1>10, <1>13
  <2>4. History!Add(new[Len(new)])
    BY <1>12, <2>1, <2>2, <2>3 DEF History!Add
  <2>5. Len(new) \in DOMAIN new
    BY <1>5, <1>10
  <2> HIDE DEF new
  <2>6. \E k \in DOMAIN new : History!Add(new[k])
    BY <2>4, <2>5
  <2>7. History!HistoryNext
    BY <1>12, <2>6 DEF History!HistoryNext
  <2> QED BY <2>7 DEF HistoryStep
<1>14. ASSUME begun.filled = 0, RowsOf(begun) = <<>>,
              lastWidth # width \/ (IsSurface /\ lastLog # settings.log)
       PROVE  HistoryStep
  <2>1. ring'.width # ring.width \/ lastLog' # lastLog
    BY <1>1, <1>2, <1>4, <1>14
  <2>2. Len(new) <= 1
    <3> HIDE DEF all, new
    <3>1. Len(all) = 1
      BY <1>7, <1>14
    <3>2. Len(new) = 1
      BY <1>5, <1>16, <3>1
    <3> QED BY <3>2
  <2>3. History!Discard
    BY <1>12, <2>1, <2>2 DEF History!Discard
  <2> QED BY <2>3 DEF HistoryStep, History!HistoryNext
<1>15. HistoryStep
  BY <1>3, <1>13, <1>14
<1> QED BY <1>1, <1>4, <1>5, <1>9, <1>11, <1>15

\* The spectrum of a frame is taken over, and then a mesh may be built of the rows.
LEMMA FetchHistory ==
  ASSUME HistoryInv, FetchAndPushData
  PROVE  HistoryInv' /\ HistoryStep
<1>1. UNCHANGED <<kind, latest, settings, resets>>
  BY DEF FetchAndPushData, userVars
<1>2. /\ RowsOf(ring)' = RowsOf(ring') /\ RingOK(ring)' = RingOK(ring')
      /\ MeshOf(ring)' = MeshOf(ring') /\ (IsSurface <=> IsSurface')
  BY <1>1 DEF RowsOf, RowAmongLast, RingOK, MeshOf, IsSurface
<1>3. CASE latest.count > 0 /\ latest.count # lastCount /\ PushSpectrum /\ UploadMesh(TRUE)
  <2>1. /\ RingOK(ring') /\ ring'.width = lastWidth'
        /\ \A k \in 1..ring'.filled : RowsOf(ring')[k] <= latest.stamp
        /\ latest.count = lastCount'
        /\ ~IsSurface => texels' = ring'.cells
        /\ HistoryStep
    BY <1>1, <1>3, PushHistory
  <2>2. IsSurface /\ ~meshDirty' /\ ring'.filled >= 2 => mesh' = MeshOf(ring')
    BY <1>3 DEF UploadMesh
  <2>3. HistoryInv'
    BY <1>1, <1>2, <2>1, <2>2 DEF HistoryInv
  <2> QED BY <2>1, <2>3
<1>4. CASE NothingNew /\ UploadMesh(FALSE)
  <2>1. /\ ring' = ring /\ texels' = texels /\ preferGpu' = preferGpu
        /\ lastCount' = lastCount /\ lastWidth' = lastWidth /\ lastLog' = lastLog
    BY <1>4 DEF NothingNew
  <2>2. IsSurface /\ ~meshDirty' /\ ring'.filled >= 2 => mesh' = MeshOf(ring')
    BY <1>4, <2>1 DEF UploadMesh, HistoryInv
  <2>3. HistoryInv'
    BY <1>1, <1>2, <2>1, <2>2 DEF HistoryInv
  <2>4. HistoryStep
    BY <1>1, <1>2, <2>1 DEF HistoryStep
  <2> QED BY <2>3, <2>4
<1> QED BY <1>3, <1>4 DEF FetchAndPushData

\* Every step keeps the invariant, and is a step of RowHistory or none.
LEMMA HistorySteps ==
  ASSUME HistoryInv, [SpectrumHistoryNext]_spectrumVars
  PROVE  HistoryInv' /\ HistoryStep
<1>1. CASE UNCHANGED spectrumVars
  <2>1. /\ UNCHANGED <<kind, chartStateVars>> /\ UNCHANGED resets /\ UNCHANGED latest
        /\ settings' = settings
    BY <1>1 DEF spectrumVars, userVars
  <2>2. settings' \in [depth : Depths, gpu : BOOLEAN, log : BOOLEAN]
    BY <2>1 DEF HistoryInv
  <2> QED BY <2>1, <2>2, KeepsHistory
<1> QED
  BY <1>1, ArriveHistory, AdjustHistory, ResetHistoryKeeps, BeginDrawHistory, FetchHistory
  DEF SpectrumHistoryNext

-----------------------------------------------------------------------------
\* The ring with its write position, its fill level and its resizing implements the history
\* of a chart: Pushed, ResizedHistory and Cleared lose, repeat and swap no spectrum but the
\* ones that RowHistory lets go.
THEOREM RingImplementsHistory == SpectrumHistorySpec => History!HistorySpec
<1>1. SpectrumHistoryInit => HistoryInv /\ History!HistoryInit
  BY InitHistory
<1>2. HistoryInv /\ [SpectrumHistoryNext]_spectrumVars => HistoryInv' /\ HistoryStep
  BY HistorySteps
<1> QED
  BY <1>1, <1>2, PTL
  DEF SpectrumHistorySpec, History!HistorySpec, HistoryStep, History!historyVars

\* What is drawn, of a texture or from memory and as a mesh, is the rows of the ring.
THEOREM RowsAreAlwaysDrawn == SpectrumHistorySpec => []RowsAreDrawn
<1>1. SpectrumHistoryInit => HistoryInv
  BY InitHistory
<1>2. HistoryInv /\ [SpectrumHistoryNext]_spectrumVars => HistoryInv'
  BY HistorySteps
<1>3. HistoryInv => RowsAreDrawn
  <2> SUFFICES ASSUME HistoryInv PROVE RowsAreDrawn
    OBVIOUS
  <2>1. RingOK(ring) /\ (~IsSurface => texels = ring.cells)
    BY DEF HistoryInv
  <2>2. ring.filled = 0 => SurfaceArrays = RowsOf(ring)
    BY DEF SurfaceArrays, RowsOf
  <2>3. ring.filled \in Nat
    BY <2>1 DEF RingOK
  <2>4. ring.filled > 0 =>
          /\ ~IsSurface => \A leading, horizontal \in BOOLEAN :
               Image(leading, horizontal) =
                 IF leading THEN RowsOf(ring) ELSE Reverse(RowsOf(ring))
          /\ RawTimeBounds(ring) = <<Head(RowsOf(ring)), Last(RowsOf(ring))>>
          /\ SurfaceArrays = RowsOf(ring)
    BY <2>1, DrawnRows
  <2>5. IsSurface /\ ~meshDirty /\ ring.filled >= 2 => mesh = MeshOf(ring)
    BY DEF HistoryInv
  <2> QED BY <2>2, <2>3, <2>4, <2>5 DEF RowsAreDrawn
<1> QED BY <1>1, <1>2, <1>3, PTL DEF SpectrumHistorySpec

\* The charts show the last spectra they were given, each once and in order.
THEOREM HistoryIsAlwaysShown == SpectrumHistorySpec => HistoryIsShown
BY RingImplementsHistory, RowsAreAlwaysDrawn, PTL DEF HistoryIsShown

-----------------------------------------------------------------------------
(* The histogram of accumulated spectra.                                    *)

\* What a histogram has accumulated.
Sum(d) == IF d.available THEN d.textures[d.ping] ELSE d.memory

\* A histogram without bins, or whose memory was not yet chosen, holds nothing.
DensityOK(d) ==
  /\ d \in [bins : Nat, range : {d.range}, prefer : BOOLEAN, attempted : BOOLEAN,
            available : BOOLEAN, ping : {0, 1}, textures : [{0, 1} -> Seq(Nat)],
            memory : Seq(Nat), image : Seq(Nat)]
  /\ d.bins = 0 => d.textures[0] = <<>> /\ d.textures[1] = <<>> /\ d.memory = <<>> /\ d.image = <<>>
  /\ ~d.attempted => d.bins = 0 /\ ~d.available

\* The image is coloured of the sum, or of a sum that was reset since.
ImageOK(d) == d.image = Sum(d) \/ (d.available /\ Sum(d) = <<>>)

\* A histogram that is given by its fields.
Density(b, r, p, a, v, g, t, m, i) ==
  [bins |-> b, range |-> r, prefer |-> p, attempted |-> a, available |-> v, ping |-> g,
   textures |-> t, memory |-> m, image |-> i]

\* What its fields may be.
FieldsOK(b, p, a, v, g, t, m, i) ==
  /\ b \in Nat /\ p \in BOOLEAN /\ a \in BOOLEAN /\ v \in BOOLEAN /\ g \in {0, 1}
  /\ t \in [{0, 1} -> Seq(Nat)] /\ m \in Seq(Nat) /\ i \in Seq(Nat)
  /\ b = 0 => t[0] = <<>> /\ t[1] = <<>> /\ m = <<>> /\ i = <<>>
  /\ a = FALSE => b = 0 /\ v = FALSE

LEMMA DensityFields ==
  ASSUME NEW d, DensityOK(d)
  PROVE  /\ d = Density(d.bins, d.range, d.prefer, d.attempted, d.available, d.ping,
                        d.textures, d.memory, d.image)
         /\ FieldsOK(d.bins, d.prefer, d.attempted, d.available, d.ping,
                     d.textures, d.memory, d.image)
BY DEF DensityOK, Density, FieldsOK

LEMMA DensityOfFields ==
  ASSUME NEW b, NEW r, NEW p, NEW a, NEW v, NEW g, NEW t, NEW m, NEW i,
         FieldsOK(b, p, a, v, g, t, m, i),
         NEW d, d = Density(b, r, p, a, v, g, t, m, i)
  PROVE  /\ DensityOK(d) /\ d.bins = b /\ d.range = r /\ d.prefer = p /\ d.attempted = a
         /\ d.available = v /\ d.ping = g /\ d.textures = t /\ d.memory = m /\ d.image = i
<1>1. /\ d.bins = b /\ d.range = r /\ d.prefer = p /\ d.attempted = a
      /\ d.available = v /\ d.ping = g /\ d.textures = t /\ d.memory = m /\ d.image = i
  BY DEF Density
<1>2. d \in [bins : Nat, range : {d.range}, prefer : BOOLEAN, attempted : BOOLEAN,
            available : BOOLEAN, ping : {0, 1}, textures : [{0, 1} -> Seq(Nat)],
            memory : Seq(Nat), image : Seq(Nat)]
  BY DEF Density, FieldsOK
<1> QED BY <1>1, <1>2 DEF DensityOK, FieldsOK

\* Whether the memory of a histogram was chosen.
Attempted(d) == d.attempted = TRUE

\* The first histogram holds nothing.
LEMMA NoDensityIsOK == DensityOK(NoDensity) /\ Sum(NoDensity) = <<>> /\ ImageOK(NoDensity)
<1>1. 0..1 = {0, 1}
  OBVIOUS
<1>2. DensityOK(NoDensity)
  BY <1>1 DEF DensityOK, NoDensity
<1> QED BY <1>2 DEF NoDensity, Sum, ImageOK

\* Textures and memory that were cleared.
NoTextures == [t \in 0..1 |-> <<>>]

LEMMA ClearedTextures ==
  NoTextures \in [{0, 1} -> Seq(Nat)] /\ NoTextures[0] = <<>> /\ NoTextures[1] = <<>>
  /\ <<>> \in Seq(Nat)
<1>1. 0..1 = {0, 1}
  OBVIOUS
<1> QED BY <1>1 DEF NoTextures

\* A reset leaves nothing in the memory that is used.
LEMMA DensityResetIsOK ==
  ASSUME NEW d, DensityOK(d)
  PROVE  LET n == DensityReset(d)
         IN /\ DensityOK(n) /\ Sum(n) = <<>> /\ ImageOK(n)
            /\ n.bins = d.bins /\ n.range = d.range /\ n.prefer = d.prefer
            /\ n.available = d.available /\ n.attempted = d.attempted
<1> DEFINE n == DensityReset(d)
<1>1. /\ FieldsOK(d.bins, d.prefer, d.attempted, d.available, d.ping, d.textures, d.memory, d.image)
      /\ d = Density(d.bins, d.range, d.prefer, d.attempted, d.available, d.ping,
                     d.textures, d.memory, d.image)
  BY DensityFields
<1>2. CASE d.available /\ d.bins = 0
  <2>1. n = d
    BY <1>2 DEF DensityReset, GpuReset
  <2>2. Sum(d) = <<>>
    BY <1>1, <1>2 DEF Sum, FieldsOK
  <2> QED BY <1>2, <2>1, <2>2 DEF ImageOK
<1>3. CASE d.available /\ d.bins # 0
  <2>1. n = Density(d.bins, d.range, d.prefer, d.attempted, d.available, 0,
                    NoTextures, d.memory, d.image)
    <3>1. n = [d EXCEPT !.textures = NoTextures, !.ping = 0]
      BY <1>3 DEF DensityReset, GpuReset, NoTextures
    <3> QED BY <1>1, <3>1 DEF Density
  <2>2. FieldsOK(d.bins, d.prefer, d.attempted, d.available, 0, NoTextures, d.memory, d.image)
    BY <1>1, <1>3, ClearedTextures DEF FieldsOK
  <2> HIDE DEF n
  <2>3. /\ DensityOK(n) /\ n.bins = d.bins /\ n.range = d.range /\ n.prefer = d.prefer
        /\ n.available = d.available /\ n.attempted = d.attempted
        /\ n.ping = 0 /\ n.textures = NoTextures
    BY <2>1, <2>2, DensityOfFields
  <2>4. Sum(n) = <<>>
    BY <1>3, <2>3, ClearedTextures DEF Sum
  <2> QED BY <1>3, <2>3, <2>4 DEF ImageOK, n
<1>4. CASE ~d.available
  <2>1. n = Density(d.bins, d.range, d.prefer, d.attempted, d.available, d.ping,
                    d.textures, <<>>, <<>>)
    <3>1. n = [d EXCEPT !.memory = <<>>, !.image = <<>>]
      BY <1>4 DEF DensityReset, CpuReset
    <3> QED BY <1>1, <3>1 DEF Density
  <2>2. FieldsOK(d.bins, d.prefer, d.attempted, d.available, d.ping, d.textures, <<>>, <<>>)
    BY <1>1, ClearedTextures DEF FieldsOK
  <2> HIDE DEF n
  <2>3. /\ DensityOK(n) /\ n.bins = d.bins /\ n.range = d.range /\ n.prefer = d.prefer
        /\ n.available = d.available /\ n.attempted = d.attempted
        /\ n.memory = <<>> /\ n.image = <<>>
    BY <2>1, <2>2, DensityOfFields
  <2> QED BY <1>4, <2>3 DEF ImageOK, Sum, n
<1> QED BY <1>2, <1>3, <1>4

\* A histogram of another size or range is begun anew, of the same ones it is kept.
LEMMA ShapedIsOK ==
  ASSUME NEW d, DensityOK(d), Attempted(d), NEW bins \in Nat \ {0}, NEW range
  PROVE  LET n == ShapedFor(d, bins, range)
         IN /\ DensityOK(n) /\ n.bins = bins /\ n.range = range /\ n.prefer = d.prefer
            /\ n.available = d.available /\ n.attempted = d.attempted
            /\ \/ d.bins = bins /\ d.range = range /\ n = d
               \/ (d.bins # bins \/ d.range # range) /\ Sum(n) = <<>>
<1> DEFINE n == ShapedFor(d, bins, range)
<1>1. /\ FieldsOK(d.bins, d.prefer, d.attempted, d.available, d.ping, d.textures, d.memory, d.image)
      /\ d = Density(d.bins, d.range, d.prefer, d.attempted, d.available, d.ping,
                     d.textures, d.memory, d.image)
  BY DensityFields
<1>2. CASE d.bins # bins
  <2> DEFINE sized == IF d.available THEN GpuResize(d, bins) ELSE CpuResize(d, bins)
             e == [sized EXCEPT !.range = range]
  <2>1. /\ DensityOK(e) /\ e.bins = bins /\ e.range = range /\ e.prefer = d.prefer
        /\ e.available = d.available /\ e.attempted = d.attempted /\ Sum(e) = <<>>
    <3>1. CASE d.available
      <4>1. sized = [d EXCEPT !.bins = bins, !.ping = 0, !.textures = NoTextures, !.image = <<>>]
        BY <3>1 DEF GpuResize, NoTextures
      <4> HIDE DEF sized
      <4>5. sized = Density(bins, d.range, d.prefer, d.attempted, d.available, 0,
                            NoTextures, d.memory, <<>>)
        BY <1>1, <4>1 DEF Density
      <4>2. e = Density(bins, range, d.prefer, d.attempted, d.available, 0,
                        NoTextures, d.memory, <<>>)
        BY <4>5 DEF Density
      <4>3. FieldsOK(bins, d.prefer, d.attempted, d.available, 0, NoTextures, d.memory, <<>>)
        BY <1>1, ClearedTextures DEF FieldsOK, Attempted
      <4> HIDE DEF e
      <4>4. /\ DensityOK(e) /\ e.bins = bins /\ e.range = range /\ e.prefer = d.prefer
            /\ e.available = d.available /\ e.attempted = d.attempted
            /\ e.ping = 0 /\ e.textures = NoTextures
        BY <4>2, <4>3, DensityOfFields
      <4> QED BY <3>1, <4>4, ClearedTextures DEF Sum
    <3>2. CASE ~d.available
      <4>1. sized = [d EXCEPT !.bins = bins, !.memory = <<>>, !.image = <<>>]
        BY <3>2 DEF CpuResize
      <4> HIDE DEF sized
      <4>5. sized = Density(bins, d.range, d.prefer, d.attempted, d.available, d.ping,
                            d.textures, <<>>, <<>>)
        BY <1>1, <4>1 DEF Density
      <4>2. e = Density(bins, range, d.prefer, d.attempted, d.available, d.ping,
                        d.textures, <<>>, <<>>)
        BY <4>5 DEF Density
      <4>3. FieldsOK(bins, d.prefer, d.attempted, d.available, d.ping, d.textures, <<>>, <<>>)
        BY <1>1, ClearedTextures DEF FieldsOK, Attempted
      <4> HIDE DEF e
      <4>4. /\ DensityOK(e) /\ e.bins = bins /\ e.range = range /\ e.prefer = d.prefer
            /\ e.available = d.available /\ e.attempted = d.attempted /\ e.memory = <<>>
        BY <4>2, <4>3, DensityOfFields
      <4> QED BY <3>2, <4>4 DEF Sum
    <3> QED BY <3>1, <3>2
  <2>2. n = IF e.range = range THEN e ELSE [DensityReset(e) EXCEPT !.range = range]
    BY <1>2 DEF ShapedFor
  <2> HIDE DEF e, n
  <2>3. n = e
    BY <2>1, <2>2
  <2> QED BY <1>2, <2>1, <2>3 DEF n
<1>3. CASE d.bins = bins /\ d.range = range
  BY <1>3 DEF ShapedFor
<1>4. CASE d.bins = bins /\ d.range # range
  <2> DEFINE r == DensityReset(d)
  <2>1. n = [r EXCEPT !.range = range]
    BY <1>4 DEF ShapedFor
  <2>2. /\ DensityOK(r) /\ Sum(r) = <<>> /\ r.bins = d.bins /\ r.prefer = d.prefer
        /\ r.available = d.available /\ r.attempted = d.attempted
    BY DensityResetIsOK
  <2> HIDE DEF r, n
  <2>3. /\ FieldsOK(r.bins, r.prefer, r.attempted, r.available, r.ping, r.textures, r.memory, r.image)
        /\ r = Density(r.bins, r.range, r.prefer, r.attempted, r.available, r.ping,
                       r.textures, r.memory, r.image)
    BY <2>2, DensityFields
  <2>4. n = Density(r.bins, range, r.prefer, r.attempted, r.available, r.ping,
                    r.textures, r.memory, r.image)
    BY <2>1, <2>3 DEF Density
  <2>5. /\ DensityOK(n) /\ n.bins = r.bins /\ n.range = range /\ n.prefer = r.prefer
        /\ n.available = r.available /\ n.attempted = r.attempted
        /\ n.ping = r.ping /\ n.textures = r.textures /\ n.memory = r.memory
    BY <2>3, <2>4, DensityOfFields
  <2>6. Sum(n) = <<>>
    BY <2>2, <2>5 DEF Sum
  <2> QED BY <1>4, <2>2, <2>5, <2>6 DEF n
<1> QED BY <1>2, <1>3, <1>4

\* A spectrum is added to the sum, of which the image is coloured.
LEMMA AddedIsOK ==
  ASSUME NEW d, DensityOK(d), d.bins # 0, NEW stamp \in Nat
  PROVE  LET n == IF d.available THEN GpuUpdate(d, stamp) ELSE CpuUpdate(d, stamp)
         IN /\ DensityOK(n) /\ Sum(n) = Append(Sum(d), stamp) /\ ImageOK(n)
            /\ n.bins = d.bins /\ n.range = d.range /\ n.prefer = d.prefer
            /\ n.available = d.available
<1> DEFINE n == IF d.available THEN GpuUpdate(d, stamp) ELSE CpuUpdate(d, stamp)
           sum == Append(Sum(d), stamp)
<1>1. /\ FieldsOK(d.bins, d.prefer, d.attempted, d.available, d.ping, d.textures, d.memory, d.image)
      /\ d = Density(d.bins, d.range, d.prefer, d.attempted, d.available, d.ping,
                     d.textures, d.memory, d.image)
  BY DensityFields
<1>2. sum \in Seq(Nat)
  <2>1. Sum(d) \in Seq(Nat)
    BY <1>1 DEF Sum, FieldsOK
  <2> QED BY <2>1
<1>3. CASE d.available
  <2> DEFINE t == [d.textures EXCEPT ![1 - d.ping] = sum]
  <2>1. d.ping \in {0, 1} /\ 1 - d.ping \in {0, 1} /\ Sum(d) = d.textures[d.ping]
    BY <1>1, <1>3 DEF Sum, FieldsOK
  <2>2. n = [d EXCEPT !.textures[1 - d.ping] = sum, !.ping = 1 - d.ping, !.image = sum]
    BY <1>3, <2>1 DEF GpuUpdate
  <2> HIDE DEF sum, n
  <2>3. t \in [{0, 1} -> Seq(Nat)] /\ t[1 - d.ping] = sum
    BY <1>1, <1>2, <2>1 DEF FieldsOK
  <2>4. n = Density(d.bins, d.range, d.prefer, d.attempted, d.available, 1 - d.ping,
                    t, d.memory, sum)
    BY <1>1, <2>2 DEF Density
  <2> HIDE DEF t
  <2>5. FieldsOK(d.bins, d.prefer, d.attempted, d.available, 1 - d.ping, t, d.memory, sum)
    BY <1>1, <1>2, <1>3, <2>1, <2>3 DEF FieldsOK
  <2>6. /\ DensityOK(n) /\ n.bins = d.bins /\ n.range = d.range /\ n.prefer = d.prefer
        /\ n.available = d.available /\ n.ping = 1 - d.ping /\ n.textures = t /\ n.image = sum
    BY <2>4, <2>5, DensityOfFields
  <2>7. Sum(n) = sum
    BY <1>3, <2>3, <2>6 DEF Sum
  <2> QED BY <2>6, <2>7 DEF ImageOK, sum, n
<1>4. CASE ~d.available
  <2>1. n = [d EXCEPT !.memory = sum, !.image = sum]
    BY <1>4 DEF CpuUpdate, Sum
  <2> HIDE DEF sum, n
  <2>2. n = Density(d.bins, d.range, d.prefer, d.attempted, d.available, d.ping,
                    d.textures, sum, sum)
    BY <1>1, <2>1 DEF Density
  <2>3. FieldsOK(d.bins, d.prefer, d.attempted, d.available, d.ping, d.textures, sum, sum)
    BY <1>1, <1>2 DEF FieldsOK
  <2>4. /\ DensityOK(n) /\ n.bins = d.bins /\ n.range = d.range /\ n.prefer = d.prefer
        /\ n.available = d.available /\ n.memory = sum /\ n.image = sum
    BY <2>2, <2>3, DensityOfFields
  <2>5. Sum(n) = sum
    BY <1>4, <2>4 DEF Sum
  <2> QED BY <2>4, <2>5 DEF ImageOK, sum, n
<1> QED BY <1>3, <1>4

\* What a histogram is of: another one begins anew.
ShapeOf(d) == <<d.bins, d.range, d.prefer, d.available>>

\* A spectrum is counted with those before it, or as the first of another histogram.
LEMMA UpdatedIsOK ==
  ASSUME DensityOK(density), chosen.gpu \in BOOLEAN, gpuServes \in BOOLEAN,
         NEW frame, frame.bins \in Nat \ {0}, frame.stamp \in Nat, NEW range
  PROVE  LET n == DensityUpdate(frame, range)
         IN /\ DensityOK(n) /\ ImageOK(n) /\ n.bins = frame.bins
            /\ \/ ShapeOf(n) = ShapeOf(density) /\ Sum(n) = Append(Sum(density), frame.stamp)
               \/ ShapeOf(n) # ShapeOf(density) /\ Sum(n) = <<frame.stamp>>
<1> DEFINE kept == IF density.prefer = chosen.gpu THEN density
                   ELSE [DestroyAllResources(density) EXCEPT !.prefer = chosen.gpu]
           begun == DensityInit(kept)
           shaped == ShapedFor(begun, frame.bins, range)
           n == DensityUpdate(frame, range)
<1>1. n = IF shaped.available THEN GpuUpdate(shaped, frame.stamp)
          ELSE CpuUpdate(shaped, frame.stamp)
  BY DEF DensityUpdate
<1>2. /\ FieldsOK(density.bins, density.prefer, density.attempted, density.available,
                  density.ping, density.textures, density.memory, density.image)
      /\ density = Density(density.bins, density.range, density.prefer, density.attempted,
                           density.available, density.ping, density.textures,
                           density.memory, density.image)
  BY DensityFields
<1>3. /\ DensityOK(kept) /\ kept.prefer = chosen.gpu
      /\ density.prefer = chosen.gpu => kept = density
  <2>1. CASE density.prefer = chosen.gpu
    BY <2>1
  <2>2. CASE density.prefer # chosen.gpu
    <3> DEFINE no == FALSE
    <3>1. kept = Density(0, density.range, chosen.gpu, no, no, density.ping,
                         NoTextures, <<>>, <<>>)
      BY <2>2 DEF DestroyAllResources, NoDensity, Density, NoTextures
    <3>2. FieldsOK(0, chosen.gpu, no, no, density.ping, NoTextures, <<>>, <<>>)
      BY <1>2, ClearedTextures DEF FieldsOK
    <3> HIDE DEF kept, no
    <3>3. DensityOK(kept) /\ kept.prefer = chosen.gpu
      BY <3>1, <3>2, DensityOfFields
    <3> QED BY <2>2, <3>3
  <2> QED BY <2>1, <2>2
<1> HIDE DEF kept, n
<1>4. /\ DensityOK(begun) /\ Attempted(begun) /\ begun.prefer = kept.prefer
      /\ \/ begun = kept
         \/ kept.bins = 0 /\ begun.bins = 0
  <2>1. /\ FieldsOK(kept.bins, kept.prefer, kept.attempted, kept.available,
                    kept.ping, kept.textures, kept.memory, kept.image)
        /\ kept = Density(kept.bins, kept.range, kept.prefer, kept.attempted,
                          kept.available, kept.ping, kept.textures, kept.memory, kept.image)
    BY <1>3, DensityFields
  <2>2. CASE kept.attempted = TRUE
    <3>1. begun = kept
      BY <2>2 DEF DensityInit
    <3> QED BY <1>3, <2>2, <3>1 DEF Attempted
  <2>3. CASE kept.attempted = FALSE
    <3> DEFINE v == kept.prefer /\ gpuServes
    <3>1. begun = [kept EXCEPT !.attempted = TRUE, !.available = v]
      BY <2>3 DEF DensityInit
    <3>2. v \in BOOLEAN
      OBVIOUS
    <3> HIDE DEF v, begun
    <3> DEFINE yes == TRUE
    <3>3. begun = Density(kept.bins, kept.range, kept.prefer, yes, v, kept.ping,
                          kept.textures, kept.memory, kept.image)
      BY <2>1, <3>1 DEF Density
    <3>4. FieldsOK(kept.bins, kept.prefer, yes, v, kept.ping, kept.textures, kept.memory, kept.image)
      BY <2>1, <3>2 DEF FieldsOK
    <3> HIDE DEF yes
    <3>7. yes = TRUE
      BY DEF yes
    <3>5. /\ DensityOK(begun) /\ begun.attempted = yes /\ begun.prefer = kept.prefer
          /\ begun.bins = kept.bins
      BY <3>3, <3>4, DensityOfFields
    <3>6. kept.bins = 0
      BY <2>1, <2>3 DEF FieldsOK
    <3> QED BY <3>5, <3>6, <3>7 DEF begun, Attempted
  <2> QED BY <2>1, <2>2, <2>3 DEF FieldsOK
<1> HIDE DEF begun
<1>5. /\ DensityOK(shaped) /\ shaped.bins = frame.bins /\ shaped.prefer = begun.prefer
      /\ \/ begun.bins = frame.bins /\ begun.range = range /\ shaped = begun
         \/ (begun.bins # frame.bins \/ begun.range # range) /\ Sum(shaped) = <<>>
            /\ shaped.range = range
  BY <1>4, ShapedIsOK
<1> HIDE DEF shaped
<1>6. /\ DensityOK(n) /\ Sum(n) = Append(Sum(shaped), frame.stamp) /\ ImageOK(n)
      /\ n.bins = shaped.bins /\ n.range = shaped.range /\ n.prefer = shaped.prefer
      /\ n.available = shaped.available
  BY <1>1, <1>5, AddedIsOK
<1>7. ASSUME shaped = density
      PROVE  ShapeOf(n) = ShapeOf(density) /\ Sum(n) = Append(Sum(density), frame.stamp)
  BY <1>6, <1>7 DEF ShapeOf
<1>8. ASSUME shaped # density
      PROVE  ShapeOf(n) # ShapeOf(density) /\ Sum(n) = <<frame.stamp>>
  <2>1. CASE density.prefer # chosen.gpu
    <3>1. Sum(shaped) = <<>>
      <4>1. kept.bins = 0
        BY <2>1, DensityFields DEF kept, DestroyAllResources, NoDensity
      <4> QED BY <1>4, <1>5, <4>1
    <3> QED BY <1>3, <1>4, <1>5, <1>6, <2>1, <3>1 DEF ShapeOf
  <2>2. CASE density.prefer = chosen.gpu /\ begun = kept
    <3>1. (density.bins # frame.bins \/ density.range # range) /\ Sum(shaped) = <<>>
          /\ shaped.range = range
      BY <1>3, <1>5, <1>8, <2>2
    <3> QED BY <1>5, <1>6, <3>1 DEF ShapeOf
  <2>3. CASE density.prefer = chosen.gpu /\ kept.bins = 0 /\ begun.bins = 0
    <3>1. density.bins # frame.bins /\ Sum(shaped) = <<>>
      BY <1>3, <1>5, <2>3
    <3> QED BY <1>5, <1>6, <3>1 DEF ShapeOf
  <2> QED BY <1>4, <2>1, <2>2, <2>3
<1> QED BY <1>5, <1>6, <1>7, <1>8 DEF n

-----------------------------------------------------------------------------
(* What the histogram and the traces have counted.                         *)

\* Stamps that increase, of which the last one is at most that of a frame, and less if the
\* frame has another count than the one consumed.
CountedTo(rows, frame, count) ==
  \A k \in 1..Len(rows) : /\ k <= rows[k] /\ rows[k] <= frame.stamp
                          /\ frame.count # count => rows[k] < frame.stamp

\* The sinks whose spectra the traces under a key may be of.
TracedSinks(k) ==
  {s \in (IF accKind = "SpectrumDensity" THEN DensitySinks ELSE Valid) : Key(s) = k}

\* What is known of the spectra of the sinks; of those that arrived the last one is there.
SinksOK ==
  /\ newest \in [TraceSinks -> [stamp : 0..MaxFrames, count : Nat, bins : Nat]]
  /\ \A s \in TraceSinks :
       newest[s].count > 0 => newest[s].stamp \in 1..MaxFrames /\ newest[s].bins \in Nat \ {0}
  /\ \E s \in TraceSinks : \A t \in TraceSinks : newest[t].stamp <= newest[s].stamp

ChoicesOK ==
  /\ chosen \in [gpu : BOOLEAN, overlays : BOOLEAN, mode : {"Spectrum", "Density"}]
  /\ gpuServes \in BOOLEAN /\ accKind \in AccumulationKinds /\ accResets \in Nat
  /\ accKind = "SpectrumPlot" => chosen.mode = "Spectrum"
  /\ accKind = "SpectrumDensity" => chosen.mode = "Density"

\* What was counted is older than what a sink still has to be counted.
AccumulationInv ==
  /\ SinksOK /\ ChoicesOK
  /\ DensityOK(density) /\ ImageOK(density)
  /\ accKind = "SpectrumPlot" => density = NoDensity
  /\ Sum(density) # <<>> =>
       \E s \in DensitySinks : CountedTo(Sum(density), newest[s], counts[Key(s)])
  /\ traces \in [TraceSinks -> [size : Nat, frames : Seq(Nat)]]
  /\ \A k \in TraceSinks : traces[k].frames # <<>> =>
       \E s \in TracedSinks(k) : CountedTo(traces[k].frames, newest[s], counts[Key(s)])

TraceStep == \A s \in TraceSinks : [Trace(s)!HistoryNext]_(Trace(s)!historyVars)

HistogramStep == [Histogram!HistoryNext]_(Histogram!historyVars)

\* One sink is the first of those that have a spectrum.
LEMMA OneDensitySink ==
  ASSUME NEW s \in DensitySinks, NEW t \in DensitySinks
  PROVE  s = t /\ s \in Valid /\ s \in TraceSinks
<1>1. s \in Valid /\ t \in Valid /\ s <= t /\ t <= s
  BY DEF DensitySinks
<1>2. s \in Int /\ t \in Int /\ s \in TraceSinks
  BY <1>1, SpectrumAccumulationAssumption DEF Valid, TraceSinks
<1> QED BY <1>1, <1>2

\* A spectrum that is newer than those that were counted is counted after them, and there
\* are never more than arrive.
LEMMA AppendCounted ==
  ASSUME NEW rows \in Seq(Nat), NEW n \in 1..MaxFrames,
         \A k \in 1..Len(rows) : k <= rows[k] /\ rows[k] < n
  PROVE  LET all == Append(rows, n)
         IN /\ all \in Seq(Nat) /\ Len(all) \in 1..MaxFrames /\ all[Len(all)] = n
            /\ \A k \in 1..Len(all) : k <= all[k] /\ all[k] <= n
<1> DEFINE all == Append(rows, n)
<1>1. MaxFrames \in Nat /\ n \in Nat
  BY SpectrumAccumulationAssumption
<1>2. /\ all \in Seq(Nat) /\ Len(all) = Len(rows) + 1 /\ all[Len(rows) + 1] = n
      /\ \A k \in 1..Len(rows) : all[k] = rows[k]
  BY <1>1
<1>3. Len(rows) \in Nat /\ Len(rows) < n
  <2>1. CASE Len(rows) = 0
    BY <1>1, <2>1
  <2>2. CASE Len(rows) # 0
    <3>1. Len(rows) \in 1..Len(rows) /\ rows[Len(rows)] \in Nat
      BY <2>2
    <3> QED BY <1>1, <3>1
  <2> QED BY <2>1, <2>2
<1> HIDE DEF all
<1>4. ASSUME NEW k \in 1..Len(all)
      PROVE  k <= all[k] /\ all[k] <= n
  <2>1. CASE k = Len(rows) + 1
    BY <1>1, <1>2, <1>3, <2>1
  <2>2. CASE k # Len(rows) + 1
    <3>1. k \in 1..Len(rows) /\ rows[k] \in Nat
      BY <1>2, <1>3, <2>2
    <3> QED BY <1>1, <1>2, <3>1
  <2> QED BY <2>1, <2>2
<1>5. Len(all) \in 1..MaxFrames /\ all[Len(all)] = n
  BY <1>1, <1>2, <1>3
<1> QED BY <1>2, <1>4, <1>5 DEF all

\* A spectrum that is the only one that was counted.
LEMMA FirstCounted ==
  ASSUME NEW n \in 1..MaxFrames
  PROVE  /\ <<n>> \in Seq(Nat) /\ Len(<<n>>) = 1 /\ <<n>> # <<>>
         /\ \A k \in 1..Len(<<n>>) : k <= <<n>>[k] /\ <<n>>[k] <= n
BY SpectrumAccumulationAssumption

\* What was counted when the count is consumed.
LEMMA CountedUpTo ==
  ASSUME NEW rows, NEW frame, \A k \in 1..Len(rows) : k <= rows[k] /\ rows[k] <= frame.stamp
  PROVE  CountedTo(rows, frame, frame.count)
BY DEF CountedTo

\* A spectrum that arrives is newer than everything that was counted.
LEMMA CountedOnArrival ==
  ASSUME SinksOK, NEW rows \in Seq(Nat), NEW s \in TraceSinks, NEW count,
         CountedTo(rows, newest[s], count), SpectrumArrives
  PROVE  \E s0 \in TraceSinks :
           /\ newest'[s0].count > 0
           /\ \A t \in TraceSinks \ {s0} : newest'[t] = newest[t]
           /\ \A other : CountedTo(rows, newest'[s0], other)
           /\ s # s0 => CountedTo(rows, newest'[s], count)
<1>1. PICK s0 \in TraceSinks, bins \in FrameBins :
        newest' = [newest EXCEPT ![s0] = [stamp |-> LatestStamp + 1, count |-> @.count + 1,
                                          bins |-> bins]]
  BY DEF SpectrumArrives
<1>2. /\ newest'[s0] = [stamp |-> LatestStamp + 1, count |-> newest[s0].count + 1, bins |-> bins]
      /\ \A t \in TraceSinks \ {s0} : newest'[t] = newest[t]
  BY <1>1 DEF SinksOK
<1>3. LatestStamp \in Nat /\ newest[s].stamp <= LatestStamp /\ newest[s].stamp \in Nat
  <2>1. PICK m \in TraceSinks : \A t \in TraceSinks : newest[t].stamp <= newest[m].stamp
    BY DEF SinksOK
  <2>2. \E stamp \in Stamps : \A other \in Stamps : other <= stamp
    BY <2>1 DEF Stamps
  <2>3. LatestStamp \in Stamps /\ \A other \in Stamps : other <= LatestStamp
    BY <2>2 DEF LatestStamp
  <2> QED BY <2>3 DEF Stamps, SinksOK
<1>4. newest[s0].count \in Nat
  BY DEF SinksOK
<1>5. newest'[s0].stamp = LatestStamp + 1 /\ newest'[s0].count > 0
  BY <1>2, <1>4
<1>6. \A k \in 1..Len(rows) : k <= rows[k] /\ rows[k] \in Nat /\ rows[k] <= newest[s].stamp
  BY DEF CountedTo
<1>7. \A k \in 1..Len(rows) : k <= rows[k] /\ rows[k] < newest'[s0].stamp /\ rows[k] <= newest'[s0].stamp
  BY <1>3, <1>5, <1>6
<1>8. \A other : CountedTo(rows, newest'[s0], other)
  BY <1>7 DEF CountedTo
<1> QED BY <1>2, <1>5, <1>8

\* What leaves the histogram and the traces alone.
LEMMA StutterAccumulation ==
  ASSUME UNCHANGED <<density, traces, accResets>>
  PROVE  HistogramStep /\ TraceStep
BY DEF HistogramStep, TraceStep, Histogram!historyVars, Trace!historyVars, Accumulated

\* An arrival keeps what is known of the sinks.
LEMMA SinksOnArrival ==
  ASSUME SinksOK, SpectrumArrives
  PROVE  SinksOK'
<1>1. PICK s0 \in TraceSinks, bins \in FrameBins :
        newest' = [newest EXCEPT ![s0] = [stamp |-> LatestStamp + 1, count |-> @.count + 1,
                                          bins |-> bins]]
  BY DEF SpectrumArrives
<1>2. bins \in Nat \ {0} /\ MaxFrames \in Nat
  BY SpectrumAccumulationAssumption
<1>3. LatestStamp \in Nat /\ \A t \in TraceSinks : newest[t].stamp <= LatestStamp
  <2>1. PICK m \in TraceSinks : \A t \in TraceSinks : newest[t].stamp <= newest[m].stamp
    BY DEF SinksOK
  <2>2. \E stamp \in Stamps : \A other \in Stamps : other <= stamp
    BY <2>1 DEF Stamps
  <2>3. LatestStamp \in Stamps /\ \A other \in Stamps : other <= LatestStamp
    BY <2>2 DEF LatestStamp
  <2> QED BY <2>3 DEF Stamps, SinksOK
<1> DEFINE frame == [stamp |-> LatestStamp + 1, count |-> newest[s0].count + 1, bins |-> bins]
<1>4. LatestStamp + 1 \in 1..MaxFrames /\ LatestStamp + 1 \in 0..MaxFrames
  BY <1>2, <1>3 DEF SpectrumArrives
<1>5. newest[s0].count \in Nat
  BY DEF SinksOK
<1>6. frame \in [stamp : 0..MaxFrames, count : Nat, bins : Nat]
  BY <1>2, <1>4, <1>5
<1>7. frame.stamp = LatestStamp + 1 /\ frame.bins = bins
  OBVIOUS
<1>8. newest' = [newest EXCEPT ![s0] = frame]
  BY <1>1
<1> HIDE DEF frame
<1>9. /\ newest' \in [TraceSinks -> [stamp : 0..MaxFrames, count : Nat, bins : Nat]]
      /\ newest'[s0] = frame /\ \A t \in TraceSinks \ {s0} : newest'[t] = newest[t]
  BY <1>6, <1>8 DEF SinksOK
<1>10. \A s \in TraceSinks :
         newest'[s].count > 0 => newest'[s].stamp \in 1..MaxFrames /\ newest'[s].bins \in Nat \ {0}
  BY <1>2, <1>4, <1>7, <1>9 DEF SinksOK
<1>11. \A t \in TraceSinks : newest'[t].stamp <= newest'[s0].stamp
  <2>1. ASSUME NEW t \in TraceSinks
        PROVE  newest'[t].stamp <= newest'[s0].stamp
    <3>1. CASE t = s0
      BY <1>2, <1>4, <1>7, <1>9, <3>1
    <3>2. CASE t # s0
      <4>1. newest'[t] = newest[t] /\ newest[t].stamp \in Nat /\ newest[t].stamp <= LatestStamp
        BY <1>2, <1>3, <1>9, <3>2 DEF SinksOK
      <4> QED BY <1>3, <1>7, <1>9, <4>1
    <3> QED BY <3>1, <3>2
  <2> QED BY <2>1
<1> QED BY <1>9, <1>10, <1>11 DEF SinksOK

LEMMA ArriveAccumulation ==
  ASSUME AccumulationInv, SpectrumArrives
  PROVE  AccumulationInv' /\ HistogramStep /\ TraceStep
<1>1. UNCHANGED <<accKind, gpuServes, chosen, accResets, counts, density, traces>>
  BY DEF SpectrumArrives, accumulatorVars
<1>2. ChoicesOK'
  BY <1>1 DEF AccumulationInv, ChoicesOK
<1>3. SinksOK'
  BY SinksOnArrival DEF AccumulationInv
<1>10. SinksOK
  BY DEF AccumulationInv
<1>4. \A s : Key(s)' = Key(s)
  BY <1>1 DEF Key
<1>5. /\ DensityOK(density)' /\ ImageOK(density)' /\ Sum(density)' = Sum(density)
      /\ Sum(density) \in Seq(Nat)
  BY <1>1, DensityFields DEF AccumulationInv, DensityOK, ImageOK, Sum, FieldsOK
<1>6. ASSUME NEW rows \in Seq(Nat), NEW s \in DensitySinks,
             CountedTo(rows, newest[s], counts[Key(s)])
      PROVE  \E t \in DensitySinks' : CountedTo(rows, newest'[t], counts'[Key(t)'])
  <2>1. s \in TraceSinks /\ s \in Valid /\ \A other \in Valid : s <= other
    BY DEF DensitySinks, Valid
  <2>2. PICK s0 \in TraceSinks :
          /\ newest'[s0].count > 0
          /\ \A t \in TraceSinks \ {s0} : newest'[t] = newest[t]
          /\ \A other : CountedTo(rows, newest'[s0], other)
          /\ s # s0 => CountedTo(rows, newest'[s], counts[Key(s)])
    BY <1>6, <1>10, <2>1, CountedOnArrival
  <2>3. Valid' \subseteq Valid \cup {s0} /\ s0 \in Valid' /\ s \in Valid'
    BY <2>1, <2>2 DEF Valid
  <2>4. s \in Int /\ s0 \in Int /\ Valid' \subseteq Int
    BY <2>1, <2>2, SpectrumAccumulationAssumption DEF TraceSinks, Valid
  <2>5. CASE s0 <= s
    <3>1. \A other \in Valid' : s0 <= other
      BY <2>1, <2>3, <2>4, <2>5
    <3>2. s0 \in DensitySinks'
      BY <2>3, <3>1 DEF DensitySinks
    <3> QED BY <2>2, <3>2
  <2>6. CASE ~(s0 <= s)
    <3>1. \A other \in Valid' : s <= other
      BY <2>1, <2>3, <2>4, <2>6
    <3>2. s \in DensitySinks' /\ s # s0
      BY <2>3, <2>4, <2>6, <3>1 DEF DensitySinks
    <3> QED BY <1>1, <1>4, <2>2, <3>2
  <2> QED BY <2>5, <2>6
<1>7. Sum(density)' # <<>> =>
        \E s \in DensitySinks' : CountedTo(Sum(density)', newest'[s], counts'[Key(s)'])
  BY <1>5, <1>6 DEF AccumulationInv
<1>8. ASSUME NEW k \in TraceSinks, traces'[k].frames # <<>>
      PROVE  \E s \in TracedSinks(k)' : CountedTo(traces'[k].frames, newest'[s], counts'[Key(s)'])
  <2> DEFINE rows == traces[k].frames
  <2>1. PICK s \in TracedSinks(k) : CountedTo(rows, newest[s], counts[Key(s)])
    BY <1>1, <1>8 DEF AccumulationInv
  <2>2. rows \in Seq(Nat) /\ traces'[k].frames = rows
    BY <1>1 DEF AccumulationInv
  <2> HIDE DEF rows
  <2>3. CASE accKind = "SpectrumDensity"
    <3>1. s \in DensitySinks /\ k = 1
      BY <2>1, <2>3 DEF TracedSinks, Key
    <3>2. PICK t \in DensitySinks' : CountedTo(rows, newest'[t], counts'[Key(t)'])
      BY <1>6, <2>1, <2>2, <3>1
    <3>3. t \in TracedSinks(k)'
      BY <1>1, <2>3, <3>1, <3>2 DEF TracedSinks, Key
    <3> QED BY <2>2, <3>2, <3>3
  <2>4. CASE accKind # "SpectrumDensity"
    <3>1. s \in Valid /\ s = k /\ s \in TraceSinks
      BY <2>1, <2>4 DEF TracedSinks, Key, Valid
    <3>2. PICK s0 \in TraceSinks :
            /\ newest'[s0].count > 0
            /\ \A t \in TraceSinks \ {s0} : newest'[t] = newest[t]
            /\ \A other : CountedTo(rows, newest'[s0], other)
            /\ s # s0 => CountedTo(rows, newest'[s], counts[Key(s)])
      BY <1>10, <2>1, <2>2, <3>1, CountedOnArrival
    <3>3. CountedTo(rows, newest'[s], counts'[Key(s)'])
      BY <1>1, <1>4, <3>2
    <3>4. s \in Valid'
      BY <3>1, <3>2 DEF Valid
    <3>5. s \in TracedSinks(k)'
      BY <1>1, <2>4, <3>1, <3>4 DEF TracedSinks, Key
    <3> QED BY <2>2, <3>3, <3>5
  <2> QED BY <2>3, <2>4
<1>9. AccumulationInv'
  BY <1>1, <1>2, <1>3, <1>5, <1>7, <1>8 DEF AccumulationInv, CountedTo
<1> QED BY <1>1, <1>9, StutterAccumulation

\* Whatever is chosen, the histogram and the traces are what they were.
LEMMA KeepsAccumulation ==
  ASSUME AccumulationInv, ChoicesOK', UNCHANGED <<accKind, newest, accumulatorVars, accResets>>
  PROVE  AccumulationInv' /\ HistogramStep /\ TraceStep
<1>1. UNCHANGED <<accKind, newest, counts, density, traces, accResets>>
  BY DEF accumulatorVars
<1>2. SinksOK'
  BY <1>1 DEF AccumulationInv, SinksOK
<1>3. /\ DensityOK(density)' /\ ImageOK(density)' /\ Sum(density)' = Sum(density)
  BY <1>1 DEF AccumulationInv, DensityOK, ImageOK, Sum
<1>4. Valid' = Valid /\ DensitySinks' = DensitySinks
  BY <1>1 DEF Valid, DensitySinks
<1>5. /\ \A s : Key(s)' = Key(s)
      /\ \A k : TracedSinks(k)' = TracedSinks(k)
  BY <1>1, <1>4 DEF Key, TracedSinks
<1>6. AccumulationInv'
  BY <1>1, <1>2, <1>3, <1>4, <1>5 DEF AccumulationInv, CountedTo
<1> QED BY <1>1, <1>6, StutterAccumulation

LEMMA ChooseAccumulation ==
  ASSUME AccumulationInv, ChooseSetting \/ ChooseRange \/ Zoom
  PROVE  AccumulationInv' /\ HistogramStep /\ TraceStep
<1>1. UNCHANGED <<accKind, newest, accumulatorVars, accResets>> /\ UNCHANGED gpuServes
  BY DEF ChooseSetting, ChooseRange, Zoom, Change
<1>2. chosen \in [gpu : BOOLEAN, overlays : BOOLEAN, mode : {"Spectrum", "Density"}]
  BY DEF AccumulationInv, ChoicesOK
<1>3. /\ chosen' \in [gpu : BOOLEAN, overlays : BOOLEAN, mode : {"Spectrum", "Density"}]
      /\ accKind # "SpectrumView" => chosen'.mode = chosen.mode
  <2>1. CASE UNCHANGED chosen
    BY <1>2, <2>1
  <2>2. CASE chosen' = [chosen EXCEPT !.gpu = ~@]
    BY <1>2, <2>2
  <2>3. CASE chosen' = [chosen EXCEPT !.overlays = ~@]
    BY <1>2, <2>3
  <2>4. CASE /\ accKind = "SpectrumView"
             /\ chosen' = [chosen EXCEPT !.mode = IF @ = "Density" THEN "Spectrum" ELSE "Density"]
    BY <1>2, <2>4
  <2> QED BY <2>1, <2>2, <2>3, <2>4 DEF ChooseSetting, ChooseRange, Zoom
<1>4. ChoicesOK'
  BY <1>1, <1>3 DEF AccumulationInv, ChoicesOK
<1> QED BY <1>1, <1>4, KeepsAccumulation

\* A reset leaves nothing.
LEMMA ResetAccumulationKeeps ==
  ASSUME AccumulationInv, ResetAccumulation
  PROVE  AccumulationInv' /\ HistogramStep /\ TraceStep
<1>1. /\ UNCHANGED <<accKind, gpuServes, chosen, newest>> /\ accResets' = accResets + 1
      /\ traces' = [s \in TraceSinks |-> NoTraces]
      /\ density' = IF accKind = "SpectrumPlot" THEN density ELSE DensityReset(density)
  BY DEF ResetAccumulation
<1>2. accResets \in Nat /\ accResets' # accResets
  BY <1>1 DEF AccumulationInv, ChoicesOK
<1>3. SinksOK' /\ ChoicesOK'
  BY <1>1, <1>2 DEF AccumulationInv, SinksOK, ChoicesOK
<1>4. /\ DensityOK(density') /\ ImageOK(density') /\ Sum(density') = <<>>
      /\ accKind = "SpectrumPlot" => density' = NoDensity
  <2>1. CASE accKind = "SpectrumPlot"
    <3>1. density' = NoDensity
      BY <1>1, <2>1 DEF AccumulationInv
    <3> QED BY <3>1, NoDensityIsOK
  <2>2. CASE accKind # "SpectrumPlot"
    <3>1. density' = DensityReset(density) /\ DensityOK(density)
      BY <1>1, <2>2 DEF AccumulationInv
    <3> QED BY <2>2, <3>1, DensityResetIsOK
  <2> QED BY <2>1, <2>2
<1>5. /\ DensityOK(density)' /\ ImageOK(density)' /\ Sum(density)' = <<>>
  BY <1>4 DEF DensityOK, ImageOK, Sum
<1>6. /\ traces' \in [TraceSinks -> [size : Nat, frames : Seq(Nat)]]
      /\ \A k \in TraceSinks : traces'[k].frames = <<>>
  BY <1>1 DEF NoTraces
<1>7. AccumulationInv'
  BY <1>1, <1>3, <1>4, <1>5, <1>6 DEF AccumulationInv
<1>8. Accumulated' = <<>>
  BY <1>5 DEF Accumulated, Sum
<1>9. Histogram!Discard
  BY <1>2, <1>8 DEF Histogram!Discard
<1>10. \A s \in TraceSinks : Trace(s)!Discard
  BY <1>2, <1>6 DEF Trace!Discard
<1> QED BY <1>7, <1>9, <1>10 DEF HistogramStep, Histogram!HistoryNext, TraceStep, Trace!HistoryNext

\* In a frame each sink that is shown has its new spectrum added to the traces, once.
LEMMA DrawnTraces ==
  ASSUME AccumulationInv, NEW shown \in SUBSET Valid, DrawTraces(shown),
         \A s, t \in shown : Key(s) = Key(t) => s = t,
         accKind = "SpectrumDensity" => shown = DensitySinks
  PROVE  /\ TraceStep
         /\ traces' \in [TraceSinks -> [size : Nat, frames : Seq(Nat)]]
         /\ \A k \in TraceSinks : traces'[k].frames # <<>> =>
              \E s \in TracedSinks(k) : CountedTo(traces'[k].frames, newest[s], counts'[Key(s)])
         /\ \A s \in shown : counts'[Key(s)] = newest[s].count
         /\ \A k \in TraceSinks : (\A s \in shown : Key(s) # k) => counts'[k] = counts[k]
<1> DEFINE CountedTrace(k) ==
      traces'[k].frames # <<>> =>
        \E s \in TracedSinks(k) : CountedTo(traces'[k].frames, newest[s], counts'[Key(s)])
<1>1. \A s \in Valid : s \in TraceSinks /\ Key(s) \in TraceSinks /\ newest[s].count > 0
  BY SpectrumAccumulationAssumption DEF Valid, Key, TraceSinks
<1>2. /\ \A k \in TraceSinks : counts'[k] =
           IF \E s \in shown : Key(s) = k THEN newest[CHOOSE s \in shown : Key(s) = k].count
           ELSE counts[k]
      /\ \A k \in TraceSinks : traces'[k] =
           IF \E s \in NewSinks(shown) : Key(s) = k
           THEN TracesUpdate(traces[k], newest[CHOOSE s \in shown : Key(s) = k]) ELSE traces[k]
      /\ DOMAIN traces' = TraceSinks /\ traces' = [k \in TraceSinks |-> traces'[k]]
  BY DEF DrawTraces
<1>3. UNCHANGED <<accKind, newest, accResets>>
  BY DEF DrawTraces
<1>4. ASSUME NEW s \in shown
      PROVE  (CHOOSE t \in shown : Key(t) = Key(s)) = s
  OBVIOUS
<1>5. \A s \in shown : counts'[Key(s)] = newest[s].count
  BY <1>1, <1>2, <1>4
<1>6. \A k \in TraceSinks : (\A s \in shown : Key(s) # k) => counts'[k] = counts[k]
  BY <1>2
<1>7. ASSUME NEW s \in shown, NEW k, k = Key(s), NEW t \in TracedSinks(k)
      PROVE  t = s
  <2>1. CASE accKind = "SpectrumDensity"
    <3>1. t \in DensitySinks /\ s \in DensitySinks
      BY <1>7, <2>1 DEF TracedSinks
    <3> QED BY <3>1, OneDensitySink
  <2>2. CASE accKind # "SpectrumDensity"
    BY <1>7, <2>2 DEF TracedSinks, Key
  <2> QED BY <2>1, <2>2
<1>8. ASSUME NEW s \in shown
      PROVE  s \in TracedSinks(Key(s))
  BY <1>8 DEF TracedSinks
<1>9. ASSUME NEW k \in TraceSinks
      PROVE  traces[k] \in [size : Nat, frames : Seq(Nat)] /\ traces[k].frames \in Seq(Nat)
             /\ (traces[k].frames # <<>> =>
                   \E s \in TracedSinks(k) : CountedTo(traces[k].frames, newest[s], counts[Key(s)]))
  BY DEF AccumulationInv
<1>10. ASSUME NEW k \in TraceSinks, NEW s \in shown, k = Key(s), s \in NewSinks(shown)
       PROVE  /\ traces'[k] \in [size : Nat, frames : Seq(Nat)] /\ CountedTrace(k)
              /\ [Trace(k)!HistoryNext]_(Trace(k)!historyVars)
  <2> DEFINE n == newest[s].stamp
             rows == traces[k].frames
             new == traces'[k].frames
  <2>1. traces'[k] = TracesUpdate(traces[k], newest[s])
    BY <1>2, <1>4, <1>10
  <2>2. n \in 1..MaxFrames /\ newest[s].bins \in Nat \ {0}
    BY <1>1 DEF AccumulationInv, SinksOK
  <2>3. s \in TracedSinks(k) /\ counts'[Key(s)] = newest[s].count
    BY <1>5, <1>8, <1>10
  <2>4. ASSUME \A i \in 1..Len(new) : i <= new[i] /\ new[i] <= n
        PROVE  CountedTrace(k)
    <3>1. CountedTo(new, newest[s], newest[s].count)
      BY <2>4, CountedUpTo
    <3> QED BY <2>3, <3>1
  <2>5. \A i \in 1..Len(rows) : i <= rows[i] /\ rows[i] < n
    <3>1. CASE rows = <<>>
      BY <3>1
    <3>2. CASE rows # <<>>
      <4>1. PICK t \in TracedSinks(k) : CountedTo(rows, newest[t], counts[Key(t)])
        BY <1>9, <3>2
      <4>2. t = s
        BY <1>7, <1>10
      <4>3. newest[s].count # counts[Key(s)]
        BY <1>10 DEF NewSinks, ConsumesNewData
      <4> HIDE DEF rows
      <4> QED BY <4>1, <4>2, <4>3 DEF CountedTo
    <3> QED BY <3>1, <3>2
  <2>6. rows \in Seq(Nat) /\ n \in Nat
    BY <1>9, <2>2
  <2>7. CASE ~chosen.overlays
    <3>1. traces'[k] = traces[k]
      BY <2>1, <2>7 DEF TracesUpdate
    <3>2. \A i \in 1..Len(new) : i <= new[i] /\ new[i] <= n
      BY <2>5, <2>6, <3>1
    <3>3. [Trace(k)!HistoryNext]_(Trace(k)!historyVars)
      BY <1>3, <3>1 DEF Trace!historyVars
    <3> HIDE DEF CountedTrace
    <3> QED BY <1>9, <2>4, <3>1, <3>2, <3>3
  <2>8. CASE chosen.overlays /\ traces[k].size # newest[s].bins
    <3>1. traces'[k] = [size |-> newest[s].bins, frames |-> <<n>>]
      BY <2>1, <2>8 DEF TracesUpdate
    <3>2. new = <<n>> /\ traces'[k].size = newest[s].bins
      BY <3>1
    <3>3. /\ new \in Seq(Nat) /\ Len(new) = 1
          /\ \A i \in 1..Len(new) : i <= new[i] /\ new[i] <= n
      <4> HIDE DEF n, new
      <4> QED BY <2>2, <3>2, FirstCounted
    <3>4. traces'[k] \in [size : Nat, frames : Seq(Nat)]
      BY <2>2, <3>1, <3>2, <3>3
    <3>5. Trace(k)!Discard
      BY <2>8, <3>2, <3>3 DEF Trace!Discard
    <3>6. [Trace(k)!HistoryNext]_(Trace(k)!historyVars)
      BY <3>5 DEF Trace!HistoryNext
    <3> HIDE DEF CountedTrace
    <3> QED BY <2>4, <3>3, <3>4, <3>6
  <2>9. CASE chosen.overlays /\ traces[k].size = newest[s].bins
    <3>1. traces'[k] = [traces[k] EXCEPT !.frames = Append(@, n)]
      BY <2>1, <2>9 DEF TracesUpdate
    <3>2. new = Append(rows, n) /\ traces'[k].size = traces[k].size
      BY <1>9, <3>1
    <3> DEFINE all == Append(rows, n)
    <3>3. /\ all \in Seq(Nat) /\ Len(all) \in 1..MaxFrames /\ all[Len(all)] = n
          /\ \A i \in 1..Len(all) : i <= all[i] /\ all[i] <= n
      <4> HIDE DEF n, rows
      <4> QED BY <2>2, <2>5, <2>6, AppendCounted
    <3>4. traces'[k] \in [size : Nat, frames : Seq(Nat)]
      BY <1>9, <3>1, <3>2, <3>3
    <3>5. Trace(k)!Add(n)
      <4>0. DOMAIN rows = 1..Len(rows)
        BY <2>6
      <4>1. \A i \in DOMAIN rows : rows[i] < n
        <5> HIDE DEF rows, n
        <5> QED BY <2>5, <4>0
      <4>2. Len(all) <= MaxFrames
        BY <3>3, SpectrumAccumulationAssumption
      <4> HIDE DEF all, n
      <4> QED BY <1>3, <3>2, <4>1, <4>2 DEF Trace!Add, Trace!LastOf, all
    <3>6. Len(new) \in DOMAIN new /\ new[Len(new)] = n
      <4> HIDE DEF n, new, rows
      <4> QED BY <3>2, <3>3
    <3>7. \E i \in DOMAIN new : Trace(k)!Add(new[i])
      BY <3>5, <3>6
    <3>8. [Trace(k)!HistoryNext]_(Trace(k)!historyVars)
      BY <3>7 DEF Trace!HistoryNext
    <3>9. \A i \in 1..Len(new) : i <= new[i] /\ new[i] <= n
      BY <3>2, <3>3
    <3> HIDE DEF CountedTrace
    <3> QED BY <2>4, <3>4, <3>8, <3>9
  <2> QED BY <2>7, <2>8, <2>9
<1>11. ASSUME NEW k \in TraceSinks, ~\E s \in NewSinks(shown) : Key(s) = k
       PROVE  /\ traces'[k] \in [size : Nat, frames : Seq(Nat)] /\ CountedTrace(k)
              /\ [Trace(k)!HistoryNext]_(Trace(k)!historyVars)
  <2>1. traces'[k] = traces[k]
    BY <1>2, <1>11
  <2>2. CountedTrace(k)
    <3> SUFFICES ASSUME traces'[k].frames # <<>>
                 PROVE  \E s \in TracedSinks(k) :
                          CountedTo(traces'[k].frames, newest[s], counts'[Key(s)])
      OBVIOUS
    <3>1. PICK s \in TracedSinks(k) : CountedTo(traces[k].frames, newest[s], counts[Key(s)])
      BY <1>9, <2>1
    <3>2. Key(s) = k
      BY DEF TracedSinks
    <3>3. CASE \E t \in shown : Key(t) = k
      <4>1. s \in shown
        BY <1>7, <3>3
      <4>2. counts'[Key(s)] = newest[s].count
        BY <1>5, <4>1
      <4>3. CountedTo(traces[k].frames, newest[s], counts'[Key(s)])
        BY <3>1, <4>2 DEF CountedTo
      <4> QED BY <2>1, <4>3
    <3>4. CASE ~\E t \in shown : Key(t) = k
      <4>1. counts'[Key(s)] = counts[Key(s)]
        BY <1>6, <3>2, <3>4
      <4> QED BY <2>1, <3>1, <4>1
    <3> QED BY <3>3, <3>4
  <2>3. [Trace(k)!HistoryNext]_(Trace(k)!historyVars)
    BY <1>3, <2>1 DEF Trace!historyVars
  <2> QED BY <1>9, <2>1, <2>2, <2>3
<1>12. \A k \in TraceSinks : /\ traces'[k] \in [size : Nat, frames : Seq(Nat)] /\ CountedTrace(k)
                             /\ [Trace(k)!HistoryNext]_(Trace(k)!historyVars)
  <2> HIDE DEF CountedTrace
  <2>1. \A s \in NewSinks(shown) : s \in shown
    BY DEF NewSinks
  <2> QED BY <1>10, <1>11, <2>1
<1>13. traces' \in [TraceSinks -> [size : Nat, frames : Seq(Nat)]]
  <2> HIDE DEF CountedTrace
  <2>1. \A k \in TraceSinks : traces'[k] \in [size : Nat, frames : Seq(Nat)]
    BY <1>12
  <2> QED BY <1>2, <2>1
<1>14. TraceStep
  <2> HIDE DEF CountedTrace
  <2> QED BY <1>12 DEF TraceStep
<1> QED BY <1>5, <1>6, <1>12, <1>13, <1>14

\* The traces of the upper pane leave the histogram alone, whose spectra have been consumed.
LEMMA DrawSpectrumAccumulation ==
  ASSUME AccumulationInv, DrawSpectrumSignals
  PROVE  AccumulationInv' /\ HistogramStep /\ TraceStep
<1>1. /\ DrawTraces(Valid) /\ UNCHANGED density /\ chosen.mode = "Spectrum"
      /\ UNCHANGED <<accKind, gpuServes, chosen, newest, accResets>>
  BY DEF DrawSpectrumSignals, DrawTraces
<1>2. accKind # "SpectrumDensity"
  BY <1>1 DEF AccumulationInv, ChoicesOK
<1>3. \A s : Key(s) = s
  BY <1>2 DEF Key
<1>4. /\ TraceStep
      /\ traces' \in [TraceSinks -> [size : Nat, frames : Seq(Nat)]]
      /\ \A k \in TraceSinks : traces'[k].frames # <<>> =>
           \E s \in TracedSinks(k) : CountedTo(traces'[k].frames, newest[s], counts'[Key(s)])
      /\ \A s \in Valid : counts'[Key(s)] = newest[s].count
  BY <1>1, <1>2, <1>3, DrawnTraces
<1>5. SinksOK' /\ ChoicesOK'
  BY <1>1 DEF AccumulationInv, SinksOK, ChoicesOK
<1>6. DensityOK(density)' /\ ImageOK(density)' /\ Sum(density)' = Sum(density)
  BY <1>1 DEF AccumulationInv, DensityOK, ImageOK, Sum
<1>7. /\ Valid' = Valid /\ DensitySinks' = DensitySinks
      /\ \A s : Key(s)' = Key(s)
      /\ \A k : TracedSinks(k)' = TracedSinks(k)
  BY <1>1 DEF Valid, DensitySinks, Key, TracedSinks
<1>8. Sum(density)' # <<>> =>
        \E s \in DensitySinks' : CountedTo(Sum(density)', newest'[s], counts'[Key(s)'])
  <2> SUFFICES ASSUME Sum(density) # <<>>
               PROVE  \E s \in DensitySinks : CountedTo(Sum(density), newest[s], counts'[Key(s)])
    BY <1>1, <1>6, <1>7
  <2>1. PICK s \in DensitySinks : CountedTo(Sum(density), newest[s], counts[Key(s)])
    BY DEF AccumulationInv
  <2>2. counts'[Key(s)] = newest[s].count
    BY <1>4, OneDensitySink
  <2>3. CountedTo(Sum(density), newest[s], counts'[Key(s)])
    BY <2>1, <2>2 DEF CountedTo
  <2> QED BY <2>3
<1>9. AccumulationInv'
  BY <1>1, <1>4, <1>5, <1>6, <1>7, <1>8 DEF AccumulationInv, CountedTo
<1> QED
  BY <1>1, <1>4, <1>9 DEF HistogramStep, Histogram!historyVars, Accumulated

\* The histogram counts the new spectrum of the sink it is of, once.
LEMMA DrawDensityAccumulation ==
  ASSUME AccumulationInv, DrawDensitySignals
  PROVE  AccumulationInv' /\ HistogramStep /\ TraceStep
<1>1. /\ DrawTraces(DensitySinks) /\ chosen.mode = "Density"
      /\ UNCHANGED <<accKind, gpuServes, chosen, newest, accResets>>
      /\ density' = IF NewSinks(DensitySinks) = {} THEN density
                    ELSE DensityUpdate(newest[CHOOSE s \in DensitySinks : TRUE], yRange')
  BY DEF DrawDensitySignals, DrawTraces
<1>2. accKind # "SpectrumPlot"
  BY <1>1 DEF AccumulationInv, ChoicesOK
<1>3. DensitySinks \in SUBSET Valid
  BY DEF DensitySinks
<1>4. /\ TraceStep
      /\ traces' \in [TraceSinks -> [size : Nat, frames : Seq(Nat)]]
      /\ \A k \in TraceSinks : traces'[k].frames # <<>> =>
           \E s \in TracedSinks(k) : CountedTo(traces'[k].frames, newest[s], counts'[Key(s)])
      /\ \A s \in DensitySinks : counts'[Key(s)] = newest[s].count
  BY <1>1, <1>3, OneDensitySink, DrawnTraces
<1>5. SinksOK' /\ ChoicesOK'
  BY <1>1 DEF AccumulationInv, SinksOK, ChoicesOK
<1>6. /\ Valid' = Valid /\ DensitySinks' = DensitySinks
      /\ \A s : Key(s)' = Key(s)
      /\ \A k : TracedSinks(k)' = TracedSinks(k)
  BY <1>1 DEF Valid, DensitySinks, Key, TracedSinks
<1>7. ASSUME DensityOK(density'), ImageOK(density'),
             Sum(density') # <<>> => \E s \in DensitySinks : \A k \in 1..Len(Sum(density')) :
               k <= Sum(density')[k] /\ Sum(density')[k] <= newest[s].stamp
      PROVE  AccumulationInv'
  <2>1. DensityOK(density)' /\ ImageOK(density)' /\ Sum(density)' = Sum(density')
    BY <1>7 DEF DensityOK, ImageOK, Sum
  <2>2. Sum(density') # <<>> =>
          \E s \in DensitySinks : CountedTo(Sum(density'), newest[s], counts'[Key(s)])
    <3> SUFFICES ASSUME Sum(density') # <<>>
                 PROVE  \E s \in DensitySinks :
                          CountedTo(Sum(density'), newest[s], counts'[Key(s)])
      OBVIOUS
    <3>1. PICK s \in DensitySinks : \A k \in 1..Len(Sum(density')) :
               k <= Sum(density')[k] /\ Sum(density')[k] <= newest[s].stamp
      BY <1>7
    <3>2. CountedTo(Sum(density'), newest[s], newest[s].count)
      BY <3>1, CountedUpTo
    <3> QED BY <1>4, <3>2
  <2> QED BY <1>1, <1>2, <1>4, <1>5, <1>6, <2>1, <2>2 DEF AccumulationInv, CountedTo
<1>8. DensityOK(density) /\ ImageOK(density)
  BY DEF AccumulationInv
<1>9. Sum(density) \in Seq(Nat)
  BY <1>8, DensityFields DEF Sum, FieldsOK
<1>10. CASE NewSinks(DensitySinks) = {}
  <2>1. density' = density
    BY <1>1, <1>10
  <2>2. Sum(density) # <<>> => \E s \in DensitySinks : \A k \in 1..Len(Sum(density)) :
               k <= Sum(density)[k] /\ Sum(density)[k] <= newest[s].stamp
    BY DEF AccumulationInv, CountedTo
  <2>3. AccumulationInv'
    BY <1>7, <1>8, <2>1, <2>2
  <2>4. HistogramStep
    BY <1>1, <2>1 DEF HistogramStep, Histogram!historyVars, Accumulated
  <2> QED BY <1>4, <2>3, <2>4
<1>11. CASE NewSinks(DensitySinks) # {}
  <2>1. PICK s \in DensitySinks : newest[s].count # counts[Key(s)]
    BY <1>11 DEF NewSinks, ConsumesNewData
  <2>2. (CHOOSE t \in DensitySinks : TRUE) = s
    BY OneDensitySink
  <2> DEFINE n == newest[s].stamp
             rows == Sum(density)
             new == Sum(density')
  <2>3. n \in 1..MaxFrames /\ n \in Nat /\ newest[s].bins \in Nat \ {0}
    <3>1. s \in TraceSinks /\ newest[s].count > 0
      BY OneDensitySink DEF Valid
    <3> QED BY <3>1, SpectrumAccumulationAssumption DEF AccumulationInv, SinksOK
  <2>4. /\ DensityOK(density') /\ ImageOK(density')
        /\ \/ ShapeOf(density') = ShapeOf(density) /\ new = Append(rows, n)
           \/ ShapeOf(density') # ShapeOf(density) /\ new = <<n>>
    <3>1. chosen.gpu \in BOOLEAN /\ gpuServes \in BOOLEAN
      BY DEF AccumulationInv, ChoicesOK
    <3>2. density' = DensityUpdate(newest[s], yRange')
      BY <1>1, <1>11, <2>2
    <3> QED BY <1>8, <2>3, <3>1, <3>2, UpdatedIsOK
  <2>5. \A k \in 1..Len(rows) : k <= rows[k] /\ rows[k] < n
    <3>1. CASE rows = <<>>
      BY <3>1
    <3>2. CASE rows # <<>>
      <4>1. PICK t \in DensitySinks : CountedTo(rows, newest[t], counts[Key(t)])
        BY <3>2 DEF AccumulationInv
      <4>2. t = s
        BY OneDensitySink
      <4> HIDE DEF rows
      <4> QED BY <2>1, <4>1, <4>2 DEF CountedTo
    <3> QED BY <3>1, <3>2
  <2>6. Accumulated' = new /\ Accumulated = rows
    BY DEF Accumulated, Sum
  <2>7. CASE ShapeOf(density') = ShapeOf(density) /\ new = Append(rows, n)
    <3> DEFINE all == Append(rows, n)
    <3>1. /\ all \in Seq(Nat) /\ Len(all) \in 1..MaxFrames /\ all[Len(all)] = n
          /\ \A i \in 1..Len(all) : i <= all[i] /\ all[i] <= n
      <4> HIDE DEF n, rows
      <4> QED BY <1>9, <2>3, <2>5, AppendCounted DEF rows
    <3>2. Histogram!Add(n)
      <4>0. DOMAIN rows = 1..Len(rows)
        BY <1>9
      <4>1. \A i \in DOMAIN rows : rows[i] < n
        <5> HIDE DEF rows, n
        <5> QED BY <2>5, <4>0
      <4>2. Len(all) <= MaxFrames
        BY <3>1, SpectrumAccumulationAssumption
      <4>3. /\ density'.bins = density.bins /\ density'.range = density.range
            /\ density'.prefer = density.prefer /\ density'.available = density.available
        BY <2>7 DEF ShapeOf
      <4> HIDE DEF all, n, rows, new
      <4> QED BY <1>1, <2>6, <2>7, <4>1, <4>2, <4>3 DEF Histogram!Add, Histogram!LastOf, all
    <3>3. Len(new) \in DOMAIN new /\ new[Len(new)] = n
      <4> HIDE DEF n, new, rows
      <4> QED BY <2>7, <3>1
    <3>4. HistogramStep
      <4> HIDE DEF new, n
      <4>1. \E i \in DOMAIN new : Histogram!Add(new[i])
        BY <3>2, <3>3
      <4> QED BY <2>6, <4>1 DEF HistogramStep, Histogram!HistoryNext
    <3>5. AccumulationInv'
      <4> HIDE DEF new, rows
      <4> QED BY <1>7, <2>4, <2>7, <3>1 DEF new
    <3> QED BY <1>4, <3>4, <3>5
  <2>8. CASE ShapeOf(density') # ShapeOf(density) /\ new = <<n>>
    <3>1. /\ Len(new) = 1 /\ \A k \in 1..Len(new) : k <= new[k] /\ new[k] <= n
      <4> HIDE DEF n, new
      <4> QED BY <2>3, <2>8, FirstCounted
    <3>2. Histogram!Discard
      <4> HIDE DEF new
      <4> QED BY <2>6, <2>8, <3>1 DEF Histogram!Discard, ShapeOf
    <3>3. AccumulationInv'
      BY <1>7, <2>4, <3>1
    <3> QED BY <1>4, <3>2, <3>3 DEF HistogramStep, Histogram!HistoryNext
  <2> QED BY <2>4, <2>7, <2>8
<1> QED BY <1>10, <1>11

\* Initially nothing was counted.
LEMMA InitAccumulation ==
  ASSUME AccumulationInit
  PROVE  AccumulationInv /\ Histogram!HistoryInit
<1>1. NumSinks \in Nat \ {0} /\ MaxFrames \in Nat /\ 1 \in TraceSinks /\ 0 \in 0..MaxFrames
  BY SpectrumAccumulationAssumption DEF TraceSinks
<1>2. newest = [s \in TraceSinks |-> [stamp |-> 0, count |-> 0, bins |-> 0]]
  BY DEF AccumulationInit
<1>3. SinksOK
  BY <1>1, <1>2 DEF SinksOK
<1>4. ChoicesOK
  BY DEF AccumulationInit, ChoicesOK, AccumulationKinds
<1>5. density = NoDensity /\ traces = [s \in TraceSinks |-> NoTraces]
  BY DEF AccumulationInit
<1>6. DensityOK(density) /\ ImageOK(density) /\ Sum(density) = <<>>
  BY <1>5, NoDensityIsOK
<1>7. AccumulationInv
  BY <1>3, <1>4, <1>5, <1>6 DEF AccumulationInv, NoTraces
<1>8. Accumulated = <<>>
  BY <1>6 DEF Accumulated, Sum
<1> QED BY <1>1, <1>7, <1>8 DEF Histogram!HistoryInit

\* Every step keeps the invariant, and is one of RowHistory, or none, for the histogram and
\* for every trace.
LEMMA AccumulationSteps ==
  ASSUME AccumulationInv, [AccumulationNext]_accumulationVars
  PROVE  AccumulationInv' /\ HistogramStep /\ TraceStep
<1>1. CASE UNCHANGED accumulationVars
  <2>1. UNCHANGED <<accKind, newest, accumulatorVars, accResets>> /\ UNCHANGED <<gpuServes, chosen>>
    BY <1>1 DEF accumulationVars
  <2>2. ChoicesOK'
    BY <2>1 DEF AccumulationInv, ChoicesOK
  <2> QED BY <2>1, <2>2, KeepsAccumulation
<1> QED
  BY <1>1, ArriveAccumulation, ChooseAccumulation, ResetAccumulationKeeps,
     DrawSpectrumAccumulation, DrawDensityAccumulation
  DEF AccumulationNext

-----------------------------------------------------------------------------
\* The histogram, in two textures or in memory, implements the history of a chart.
THEOREM DensityImplementsHistory == AccumulationSpec => Histogram!HistorySpec
<1>1. AccumulationInit => AccumulationInv /\ Histogram!HistoryInit
  BY InitAccumulation
<1>2. AccumulationInv /\ [AccumulationNext]_accumulationVars => AccumulationInv' /\ HistogramStep
  BY AccumulationSteps
<1> QED
  BY <1>1, <1>2, PTL DEF AccumulationSpec, Histogram!HistorySpec, HistogramStep

\* Each spectrum is counted once, in the histogram and in every trace, whatever the user
\* chooses between, and the image is of what was counted.
THEOREM SpectraAreCountedOnce == AccumulationSpec => CountedOnce
<1>1. AccumulationInit => AccumulationInv
  BY InitAccumulation
<1>2. AccumulationInv /\ [AccumulationNext]_accumulationVars =>
        AccumulationInv' /\ [TraceStep]_<<traces, accResets>>
  BY AccumulationSteps
<1>3. AccumulationInv => (density.image = Accumulated \/ (density.available /\ Accumulated = <<>>))
  BY DEF AccumulationInv, ImageOK, Accumulated, Sum
<1> QED
  BY <1>1, <1>2, <1>3, DensityImplementsHistory, PTL DEF AccumulationSpec, CountedOnce, TraceStep
=============================================================================
