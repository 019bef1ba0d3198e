-------------------------- MODULE UsbConsole_proofs --------------------------
(***************************************************************************)
(* What the USB console keeps of the bytes that go through it, for every   *)
(* size of ring, FIFO, chunk and buffer.                                   *)
(***************************************************************************)
EXTENDS UsbConsole, SequenceTheorems, TLAPS

-----------------------------------------------------------------------------
(* Rings.                                                                   *)
LEMMA Wraps ==
  ASSUME NEW n \in Nat, NEW x \in Nat, x < 2 * n
  PROVE  x % n = IF x < n THEN x ELSE x - n
<1>1. CASE x < n  BY <1>1
<1>2. CASE x >= n
  <2>1. x = (x - n) + n * 1 /\ x - n \in 0 .. n - 1  BY <1>2
  <2>2. QED  BY <1>2, <2>1
<1>3. QED  BY <1>1, <1>2

(* Where the i-th place after t is, and how far j is from h.                *)
Place(t, i, n) == IF t + i - 1 < n THEN t + i - 1 ELSE t + i - 1 - n
Behind(h, j, n) == IF j < h THEN j + n - h ELSE j - h

LEMMA PlaceIs ==
  ASSUME NEW n \in Nat, NEW t \in Nat, t < n, NEW i \in Nat, 1 <= i, i <= n
  PROVE  /\ (t + i - 1) % n = Place(t, i, n)
         /\ Place(t, i, n) \in Nat /\ Place(t, i, n) < n
<1>1. t + i - 1 \in Nat /\ t + i - 1 < 2 * n  OBVIOUS
<1>2. \A x \in Nat : x < 2 * n => x % n = IF x < n THEN x ELSE x - n  BY Wraps
<1>3. QED  BY <1>1, <1>2 DEF Place

LEMMA BehindIs ==
  ASSUME NEW n \in Nat, NEW h \in Nat, h < n, NEW j \in Nat, j < n
  PROVE  /\ (j + n - h) % n = Behind(h, j, n)
         /\ Behind(h, j, n) \in Nat /\ Behind(h, j, n) < n
<1>1. j + n - h \in Nat /\ j + n - h < 2 * n  OBVIOUS
<1>2. \A x \in Nat : x < 2 * n => x % n = IF x < n THEN x ELSE x - n  BY Wraps
<1>3. QED  BY <1>1, <1>2 DEF Behind

(* h is u places after t.                                                   *)
Reaches(t, u, h, n) == h = IF t + u < n THEN t + u ELSE t + u - n

LEMMA ReachWraps ==
  ASSUME NEW n \in Nat, NEW t \in Nat, t < n, NEW u \in Nat, u < n, NEW g, g = (t + u) % n
  PROVE  g \in Nat /\ g < n /\ Reaches(t, u, g, n)
<1>1. t + u \in Nat /\ t + u < 2 * n  OBVIOUS
<1>2. \A x \in Nat : x < 2 * n => x % n = IF x < n THEN x ELSE x - n  BY Wraps
<1>3. QED  BY <1>1, <1>2 DEF Reaches

LEMMA ReachUnique ==
  ASSUME NEW n \in Nat, NEW t \in Nat, t < n, NEW h \in Nat, NEW u \in Nat, u < n, NEW v \in Nat, v < n,
         Reaches(t, u, h, n), Reaches(t, v, h, n)
  PROVE  u = v
  BY DEF Reaches

LEMMA ReachOn ==
  ASSUME NEW n \in Nat, NEW t \in Nat, t < n, NEW h \in Nat, NEW g \in Nat,
         NEW u \in Nat, NEW k \in Nat, u + k < n,
         Reaches(t, u, h, n), Reaches(h, k, g, n)
  PROVE  Reaches(t, u + k, g, n)
  BY DEF Reaches

LEMMA ReachLess ==
  ASSUME NEW n \in Nat, NEW t \in Nat, t < n, NEW h \in Nat, NEW g \in Nat,
         NEW u \in Nat, NEW k \in Nat, u < n, k <= u,
         Reaches(t, u, h, n), Reaches(t, k, g, n)
  PROVE  Reaches(g, u - k, h, n)
  BY DEF Reaches

LEMMA BehindPlace ==
  ASSUME NEW n \in Nat, NEW t \in Nat, t < n, NEW u \in Nat, u < n, NEW h \in Nat,
         Reaches(t, u, h, n), NEW i \in Nat, 1 <= i, i <= n
  PROVE  Behind(h, Place(t, i, n), n) = IF i <= u THEN n - (u - i + 1) ELSE i - 1 - u
  BY DEF Behind, Place, Reaches

LEMMA PlaceMoves ==
  ASSUME NEW n \in Nat, NEW t \in Nat, t < n, NEW k \in Nat, k < n, NEW g \in Nat,
         Reaches(t, k, g, n), NEW i \in Nat, 1 <= i, k + i <= n
  PROVE  Place(g, i, n) = Place(t, k + i, n)
  BY DEF Place, Reaches

LEMMA UsedIs ==
  ASSUME NEW n \in Nat \ {0}, NEW max, NEW r \in RingType(n, max)
  PROVE  /\ r.head \in Nat /\ r.head < n /\ r.tail \in Nat /\ r.tail < n
         /\ Used(r, n) \in Nat /\ Used(r, n) < n
         /\ Reaches(r.tail, Used(r, n), r.head, n)
         /\ Free(r, n) = n - 1 - Used(r, n) /\ Free(r, n) \in Nat
<1>1. r.head \in 0 .. n - 1 /\ r.tail \in 0 .. n - 1  BY DEF RingType
<1>2. r.head \in Nat /\ r.head < n /\ r.tail \in Nat /\ r.tail < n  BY <1>1
<1>3. /\ Used(r, n) \in Nat /\ Used(r, n) < n
      /\ Reaches(r.tail, Used(r, n), r.head, n)
  BY <1>2 DEF Used, Reaches
<1>4. QED  BY <1>2, <1>3 DEF Free

LEMMA ContentsIs ==
  ASSUME NEW n \in Nat \ {0}, NEW max \in Nat, NEW r \in RingType(n, max)
  PROVE  /\ Contents(r, n) \in Seq(0 .. max) /\ Len(Contents(r, n)) = Used(r, n)
         /\ \A i \in 1 .. Used(r, n) : Contents(r, n)[i] = r.data[Place(r.tail, i, n)]
<1>1. /\ r.tail \in Nat /\ r.tail < n /\ Used(r, n) \in Nat /\ Used(r, n) < n
  BY UsedIs
<1>2. ASSUME NEW i \in 1 .. Used(r, n)
      PROVE  /\ (r.tail + i - 1) % n = Place(r.tail, i, n)
             /\ r.data[Place(r.tail, i, n)] \in 0 .. max
  <2>1. i \in Nat /\ 1 <= i /\ i <= n  BY <1>1
  <2>2. /\ (r.tail + i - 1) % n = Place(r.tail, i, n)
        /\ Place(r.tail, i, n) \in Nat /\ Place(r.tail, i, n) < n
    BY <1>1, <2>1, PlaceIs
  <2>3. Place(r.tail, i, n) \in 0 .. n - 1  BY <2>2
  <2>4. r.data \in [0 .. n - 1 -> 0 .. max]  BY DEF RingType
  <2>5. QED  BY <2>2, <2>3, <2>4
<1>3. Contents(r, n) = [ i \in 1 .. Used(r, n) |-> r.data[(r.tail + i - 1) % n] ]
  BY DEF Contents
<1>4. Contents(r, n) \in [1 .. Used(r, n) -> 0 .. max]  BY <1>2, <1>3
<1>5. Contents(r, n) \in Seq(0 .. max) /\ Len(Contents(r, n)) = Used(r, n)
  BY <1>1, <1>4
<1>6. \A i \in 1 .. Used(r, n) : Contents(r, n)[i] = r.data[(r.tail + i - 1) % n]  BY <1>3
<1>7. \A i \in 1 .. Used(r, n) : Contents(r, n)[i] = r.data[Place(r.tail, i, n)]  BY <1>2, <1>6
<1>8. QED  BY <1>5, <1>7

LEMMA LeastIs ==
  ASSUME NEW a \in Nat, NEW b \in Nat
  PROVE  Least(a, b) \in Nat /\ Least(a, b) <= a /\ Least(a, b) <= b /\ Least(a, b) \in {a, b}
  BY DEF Least

(* What a ring holds after a loop of stores: what it held, and as much of   *)
(* the rest as there was room for.                                          *)
LEMMA PushedIs ==
  ASSUME NEW n \in Nat \ {0}, NEW max \in Nat, NEW r \in RingType(n, max),
         NEW s \in Seq(0 .. max)
  PROVE  LET k == Least(Len(s), Free(r, n))
             q == Pushed(r, s, n)
         IN  /\ q \in RingType(n, max) /\ Used(q, n) = Used(r, n) + k
             /\ \A i \in 1 .. Used(r, n) : Contents(q, n)[i] = Contents(r, n)[i]
             /\ \A i \in 1 .. k : Contents(q, n)[Used(r, n) + i] = s[i]
<1> DEFINE k == Least(Len(s), Free(r, n))
           q == Pushed(r, s, n)
           u == Used(r, n)
<1>1. /\ r.head \in Nat /\ r.head < n /\ r.tail \in Nat /\ r.tail < n /\ u \in Nat /\ u < n
      /\ Reaches(r.tail, u, r.head, n)
  BY UsedIs
<1>2. Len(s) \in Nat /\ \A i \in 1 .. Len(s) : s[i] \in 0 .. max  BY LenProperties
<1>3. k \in Nat /\ k <= Len(s) /\ k <= n - 1 - u
  <2>1. Free(r, n) = n - 1 - u /\ Free(r, n) \in Nat  BY UsedIs
  <2>2. k \in Nat /\ k <= Len(s) /\ k <= Free(r, n)  BY <1>2, <2>1, LeastIs
  <2> HIDE DEF k, u
  <2>3. QED  BY <2>1, <2>2
<1>4. /\ q.head = (r.head + k) % n /\ q.tail = r.tail
      /\ q.data = [ i \in 0 .. n - 1 |-> IF (i + n - r.head) % n < k THEN s[((i + n - r.head) % n) + 1]
                                                                     ELSE r.data[i] ]
      /\ q = [head |-> q.head, tail |-> q.tail, data |-> q.data]
  BY DEF Pushed
<1> HIDE DEF q, k, u
<1>5. q.head \in Nat /\ q.head < n /\ Reaches(r.head, k, q.head, n)
  <2>1. q.head = (r.head + k) % n /\ k < n  BY <1>1, <1>3, <1>4
  <2>2. n \in Nat  OBVIOUS
  <2>3. QED  BY ONLY <1>1, <1>3, <2>1, <2>2, ReachWraps
<1>6. \A j \in 0 .. n - 1 : /\ (j + n - r.head) % n = Behind(r.head, j, n)
                            /\ Behind(r.head, j, n) \in Nat
  <2>1. \A j \in 0 .. n - 1 : j \in Nat /\ j < n  OBVIOUS
  <2>2. QED  BY <1>1, <2>1, BehindIs
<1>7. \A j \in 0 .. n - 1 : q.data[j] = IF Behind(r.head, j, n) < k THEN s[Behind(r.head, j, n) + 1]
                                                                    ELSE r.data[j]
  BY <1>4, <1>6
<1>8. q \in RingType(n, max)
  <2>1. q.head \in 0 .. n - 1 /\ q.tail \in 0 .. n - 1  BY <1>1, <1>4, <1>5
  <2>2. \A j \in 0 .. n - 1 : q.data[j] \in 0 .. max
    <3>1. r.data \in [0 .. n - 1 -> 0 .. max]  BY DEF RingType
    <3>2. ASSUME NEW j \in 0 .. n - 1, Behind(r.head, j, n) < k
          PROVE  s[Behind(r.head, j, n) + 1] \in 0 .. max
      <4>1. Behind(r.head, j, n) \in Nat  BY <1>6
      <4>2. Behind(r.head, j, n) + 1 \in 1 .. Len(s)  BY <1>2, <1>3, <3>2, <4>1
      <4>3. QED  BY <1>2, <4>2
    <3>3. QED  BY <1>7, <3>1, <3>2
  <2>3. q.data \in [0 .. n - 1 -> 0 .. max]  BY <1>4, <2>2
  <2>4. QED  BY <1>4, <2>1, <2>3 DEF RingType
<1>9. Used(q, n) = u + k
  <2>1. u + k \in Nat /\ u + k < n /\ q.tail = r.tail  BY <1>1, <1>3, <1>4
  <2>2. Reaches(r.tail, u + k, q.head, n)  BY <1>1, <1>3, <1>5, <2>1, ReachOn
  <2>3. Reaches(r.tail, Used(q, n), q.head, n) /\ Used(q, n) \in Nat /\ Used(q, n) < n
    BY <1>8, <2>1, UsedIs
  <2> DEFINE v == Used(q, n)
             w == u + k
  <2> HIDE DEF v, w
  <2>4. v = w  BY <1>1, <1>5, <2>1, <2>2, <2>3, ReachUnique DEF v, w
  <2>5. QED  BY <2>4 DEF v, w
<1>10. ASSUME NEW i \in 1 .. u + k
       PROVE  /\ Place(r.tail, i, n) \in 0 .. n - 1
              /\ Behind(r.head, Place(r.tail, i, n), n) = IF i <= u THEN n - (u - i + 1) ELSE i - 1 - u
  <2>1. i \in Nat /\ 1 <= i /\ i <= n  BY <1>1, <1>3
  <2>2. Place(r.tail, i, n) \in Nat /\ Place(r.tail, i, n) < n  BY <1>1, <2>1, PlaceIs
  <2>3. Place(r.tail, i, n) \in 0 .. n - 1  BY <2>2
  <2>4. QED  BY <1>1, <2>1, <2>3, BehindPlace
<1>11. \A i \in 1 .. u + k : Contents(q, n)[i] = q.data[Place(r.tail, i, n)]
  <2>1. \A i \in 1 .. Used(q, n) : Contents(q, n)[i] = q.data[Place(q.tail, i, n)]
    BY <1>8, ContentsIs
  <2>2. q.tail = r.tail  BY <1>4
  <2>3. QED  BY <1>9, <2>1, <2>2
<1>12. \A i \in 1 .. u : Contents(r, n)[i] = r.data[Place(r.tail, i, n)]
  BY ContentsIs DEF u
<1>13. ASSUME NEW i \in 1 .. u  PROVE Contents(q, n)[i] = Contents(r, n)[i]
  <2>1. i \in 1 .. u + k /\ i <= u /\ ~(n - (u - i + 1) < k)  BY <1>1, <1>3
  <2>2. Place(r.tail, i, n) \in 0 .. n - 1 /\ ~(Behind(r.head, Place(r.tail, i, n), n) < k)
    BY <1>10, <2>1
  <2>3. QED  BY <1>7, <1>11, <1>12, <2>1, <2>2
<1>14. ASSUME NEW i \in 1 .. k  PROVE Contents(q, n)[u + i] = s[i]
  <2>1. u + i \in 1 .. u + k /\ ~(u + i <= u) /\ (u + i) - 1 - u = i - 1 /\ i - 1 < k /\ i - 1 + 1 = i
    BY <1>1, <1>3
  <2>2. Place(r.tail, u + i, n) \in 0 .. n - 1 /\ Behind(r.head, Place(r.tail, u + i, n), n) = i - 1
    BY <1>10, <2>1
  <2>3. q.data[Place(r.tail, u + i, n)] = s[i]  BY <1>7, <2>1, <2>2
  <2>4. QED  BY <1>11, <2>1, <2>3
<1>15. QED  BY <1>8, <1>9, <1>13, <1>14 DEF q, k, u

(* What it holds after a loop of loads: the rest.                           *)
LEMMA PoppedIs ==
  ASSUME NEW n \in Nat \ {0}, NEW max \in Nat, NEW r \in RingType(n, max), NEW m \in Nat
  PROVE  LET k == Least(m, Used(r, n))
             q == Popped(r, m, n)
         IN  /\ k \in Nat /\ k <= Used(r, n)
             /\ q \in RingType(n, max) /\ Used(q, n) = Used(r, n) - k
             /\ \A i \in 1 .. Used(r, n) - k : Contents(q, n)[i] = Contents(r, n)[k + i]
             /\ Front(r, m, n) \in Seq(0 .. max) /\ Len(Front(r, m, n)) = k
             /\ \A i \in 1 .. k : Front(r, m, n)[i] = Contents(r, n)[i]
<1> DEFINE k == Least(m, Used(r, n))
           q == Popped(r, m, n)
           u == Used(r, n)
<1>1. /\ r.head \in Nat /\ r.head < n /\ r.tail \in Nat /\ r.tail < n /\ u \in Nat /\ u < n
      /\ Reaches(r.tail, u, r.head, n)
  BY UsedIs
<1>2. k \in Nat /\ k <= u  BY <1>1, LeastIs
<1>3. r.head \in 0 .. n - 1 /\ r.data \in [0 .. n - 1 -> 0 .. max]
      /\ r = [head |-> r.head, tail |-> r.tail, data |-> r.data]
  BY DEF RingType
<1>4. /\ q.head = r.head /\ q.tail = (r.tail + k) % n /\ q.data = r.data
      /\ q = [head |-> q.head, tail |-> q.tail, data |-> q.data]
  BY <1>3 DEF Popped
<1> HIDE DEF q, k, u
<1>5. q.tail \in Nat /\ q.tail < n /\ Reaches(r.tail, k, q.tail, n)
  <2>1. q.tail = (r.tail + k) % n /\ k < n  BY <1>1, <1>2, <1>4
  <2>2. n \in Nat  OBVIOUS
  <2>3. QED  BY ONLY <1>1, <1>2, <2>1, <2>2, ReachWraps
<1>6. q \in RingType(n, max)
  <2>1. q.tail \in 0 .. n - 1  BY <1>5
  <2>2. QED  BY <1>3, <1>4, <2>1 DEF RingType
<1>7. Used(q, n) = u - k
  <2>1. u - k \in Nat /\ u - k < n /\ q.head = r.head  BY <1>1, <1>2, <1>4
  <2>2. Reaches(q.tail, u - k, r.head, n)  BY <1>1, <1>2, <1>5, ReachLess
  <2>3. Reaches(q.tail, Used(q, n), r.head, n) /\ Used(q, n) \in Nat /\ Used(q, n) < n
    BY <1>6, <2>1, UsedIs
  <2> DEFINE v == Used(q, n)
             w == u - k
  <2> HIDE DEF v, w
  <2>4. v = w  BY <1>1, <1>5, <2>1, <2>2, <2>3, ReachUnique DEF v, w
  <2>5. QED  BY <2>4 DEF v, w
<1>8. ASSUME NEW i \in 1 .. u - k  PROVE Contents(q, n)[i] = Contents(r, n)[k + i]
  <2>1. Contents(q, n)[i] = q.data[Place(q.tail, i, n)]  BY <1>6, <1>7, ContentsIs
  <2>2. k + i \in 1 .. u /\ i \in Nat /\ 1 <= i /\ k + i <= n /\ k < n  BY <1>1, <1>2
  <2>3. Contents(r, n)[k + i] = r.data[Place(r.tail, k + i, n)]  BY <2>2, ContentsIs DEF u
  <2>4. Place(q.tail, i, n) = Place(r.tail, k + i, n)  BY <1>1, <1>2, <1>5, <2>2, PlaceMoves
  <2>5. QED  BY <1>4, <2>1, <2>3, <2>4
<1>9. /\ Front(r, m, n) \in Seq(0 .. max) /\ Len(Front(r, m, n)) = k
      /\ \A i \in 1 .. k : Front(r, m, n)[i] = Contents(r, n)[i]
  <2>1. Contents(r, n) \in Seq(0 .. max) /\ Len(Contents(r, n)) = u  BY ContentsIs DEF u
  <2>2. \A i \in 1 .. u : Contents(r, n)[i] \in 0 .. max  BY <2>1, LenProperties
  <2>3. \A i \in 1 .. k : i \in 1 .. u /\ 1 + i - 1 = i  BY <1>1, <1>2
  <2>4. Front(r, m, n) = SubSeq(Contents(r, n), 1, k)  BY DEF Front, k
  <2>5. k \in Int /\ 1 \in Int /\ k - 1 + 1 = k  BY <1>2
  <2>6. /\ SubSeq(Contents(r, n), 1, k) \in Seq(0 .. max)
        /\ Len(SubSeq(Contents(r, n), 1, k)) = IF 1 <= k THEN k - 1 + 1 ELSE 0
        /\ \A i \in 1 .. k - 1 + 1 : SubSeq(Contents(r, n), 1, k)[i] = Contents(r, n)[1 + i - 1]
    BY <2>2, <2>3, <2>5, SubSeqProperties
  <2>7. Len(SubSeq(Contents(r, n), 1, k)) = k  BY <1>2, <2>6
  <2>8. QED  BY <2>3, <2>4, <2>5, <2>6, <2>7
<1>10. QED  BY <1>2, <1>6, <1>7, <1>8, <1>9 DEF q, k, u
-----------------------------------------------------------------------------
(* Three sequences that are one after the other on the way of the bytes:    *)
(* numbers up to last, rising through all three ...                         *)
All(s, last) == Len(s) \in Nat /\ \A i \in 1 .. Len(s) : s[i] \in Nat /\ 1 <= s[i] /\ s[i] <= last
Up(s)        == \A i, j \in 1 .. Len(s) : i < j => s[i] < s[j]
Below(s, t)  == \A i \in 1 .. Len(s) : \A j \in 1 .. Len(t) : s[i] < t[j]

Pipe(a, b, c, last) ==
  /\ All(a, last) /\ All(b, last) /\ All(c, last)
  /\ Up(a) /\ Up(b) /\ Up(c)
  /\ Below(a, b) /\ Below(a, c) /\ Below(b, c)

(* ... and, where nothing is lost, every number after first.                *)
Counts(s, first)  == \A i \in 1 .. Len(s) : s[i] = first + i
Exact(a, b, c, first, last) ==
  /\ first + Len(a) + Len(b) + Len(c) = last
  /\ Counts(a, first) /\ Counts(b, first + Len(a)) /\ Counts(c, first + Len(a) + Len(b))

(* k leave the front of y, and the first j of them reach the end of x.      *)
Moved(x, y, x2, y2, j, k) ==
  /\ j \in Nat /\ k \in Nat /\ j <= k /\ k <= Len(y)
  /\ Len(x2) = Len(x) + j /\ Len(y2) = Len(y) - k
  /\ \A i \in 1 .. Len(x) : x2[i] = x[i]
  /\ \A i \in 1 .. j : x2[Len(x) + i] = y[i]
  /\ \A i \in 1 .. Len(y) - k : y2[i] = y[k + i]

(* k numbers after last reach the end of x.                                 *)
Grown(x, x2, last, k) ==
  /\ k \in Nat /\ Len(x2) = Len(x) + k
  /\ \A i \in 1 .. Len(x) : x2[i] = x[i]
  /\ \A i \in 1 .. k : x2[Len(x) + i] = last + i

LEMMA MovedFrom ==
  ASSUME NEW x, NEW y, NEW x2, NEW y2, NEW j, NEW k, Len(x) \in Nat, Len(y) \in Nat,
         Moved(x, y, x2, y2, j, k)
  PROVE  /\ \A i \in 1 .. Len(x2) : \/ i \in 1 .. Len(x) /\ x2[i] = x[i]
                                    \/ \E m \in 1 .. Len(y) : i = Len(x) + m /\ m <= k /\ x2[i] = y[m]
         /\ \A i \in 1 .. Len(y2) : \E m \in 1 .. Len(y) : m = k + i /\ y2[i] = y[m]
<1>1. ASSUME NEW i \in 1 .. Len(x2), i \notin 1 .. Len(x)
      PROVE  \E m \in 1 .. Len(y) : i = Len(x) + m /\ m <= k /\ x2[i] = y[m]
  <2> DEFINE m == i - Len(x)
  <2>1. m \in 1 .. j /\ m \in 1 .. Len(y) /\ m <= k /\ i = Len(x) + m  BY <1>1 DEF Moved
  <2> HIDE DEF m
  <2>2. x2[Len(x) + m] = y[m]  BY <2>1 DEF Moved
  <2>3. QED  BY <2>1, <2>2
<1>2. \A i \in 1 .. Len(x) : x2[i] = x[i]  BY DEF Moved
<1>3. ASSUME NEW i \in 1 .. Len(y2)  PROVE \E m \in 1 .. Len(y) : m = k + i /\ y2[i] = y[m]
  <2>1. i \in 1 .. Len(y) - k /\ k + i \in 1 .. Len(y)  BY DEF Moved
  <2>2. y2[i] = y[k + i]  BY <2>1 DEF Moved
  <2>3. QED  BY <2>1, <2>2
<1>4. QED  BY <1>1, <1>2, <1>3

LEMMA MoveKeeps ==
  ASSUME NEW x, NEW y, NEW x2, NEW y2, NEW j, NEW k, NEW last \in Nat,
         Moved(x, y, x2, y2, j, k), All(x, last), All(y, last), Up(x), Up(y), Below(x, y)
  PROVE  /\ All(x2, last) /\ All(y2, last) /\ Up(x2) /\ Up(y2) /\ Below(x2, y2)
         /\ \A z : Below(z, x) /\ Below(z, y) => Below(z, x2) /\ Below(z, y2)
         /\ \A z : Below(x, z) /\ Below(y, z) => Below(x2, z) /\ Below(y2, z)
<1>0. Len(x) \in Nat /\ Len(y) \in Nat  BY DEF All
<1>1. \A i \in 1 .. Len(x2) : \/ i \in 1 .. Len(x) /\ x2[i] = x[i]
                              \/ \E m \in 1 .. Len(y) : i = Len(x) + m /\ m <= k /\ x2[i] = y[m]
  BY <1>0, MovedFrom
<1>2. \A i \in 1 .. Len(y2) : \E m \in 1 .. Len(y) : m = k + i /\ y2[i] = y[m]
  BY <1>0, MovedFrom
<1>3. Len(x2) \in Nat /\ Len(y2) \in Nat /\ k \in Nat  BY <1>0 DEF Moved
<1>4. All(x2, last) /\ All(y2, last)  BY <1>1, <1>2, <1>3 DEF All
<1>5. ASSUME NEW i \in 1 .. Len(x2), NEW i2 \in 1 .. Len(x2), i < i2  PROVE x2[i] < x2[i2]
  <2>1. CASE i2 \in 1 .. Len(x) /\ x2[i2] = x[i2]
    <3>1. i \in 1 .. Len(x)  BY <1>0, <1>5, <2>1
    <3>2. x2[i] = x[i]  BY <3>1 DEF Moved
    <3>3. QED  BY <1>5, <2>1, <3>1, <3>2 DEF Up
  <2>2. CASE \E m \in 1 .. Len(y) : i2 = Len(x) + m /\ m <= k /\ x2[i2] = y[m]
    <3>1. PICK m \in 1 .. Len(y) : i2 = Len(x) + m /\ x2[i2] = y[m]  BY <2>2
    <3>2. CASE i \in 1 .. Len(x) /\ x2[i] = x[i]  BY <3>1, <3>2 DEF Below
    <3>3. CASE \E p \in 1 .. Len(y) : i = Len(x) + p /\ p <= k /\ x2[i] = y[p]
      <4>1. PICK p \in 1 .. Len(y) : i = Len(x) + p /\ x2[i] = y[p]  BY <3>3
      <4>2. p < m  BY <1>0, <1>5, <3>1, <4>1
      <4>3. QED  BY <3>1, <4>1, <4>2 DEF Up
    <3>4. QED  BY <1>1, <3>2, <3>3
  <2>3. QED  BY <1>1, <2>1, <2>2
<1>6. ASSUME NEW i \in 1 .. Len(y2), NEW i2 \in 1 .. Len(y2), i < i2  PROVE y2[i] < y2[i2]
  <2>1. PICK m \in 1 .. Len(y) : m = k + i /\ y2[i] = y[m]  BY <1>2
  <2>2. PICK p \in 1 .. Len(y) : p = k + i2 /\ y2[i2] = y[p]  BY <1>2
  <2>3. m < p  BY <1>3, <1>6, <2>1, <2>2
  <2>4. QED  BY <2>1, <2>2, <2>3 DEF Up
<1>7. ASSUME NEW i \in 1 .. Len(x2), NEW i2 \in 1 .. Len(y2)  PROVE x2[i] < y2[i2]
  <2>1. PICK p \in 1 .. Len(y) : p = k + i2 /\ y2[i2] = y[p]  BY <1>2
  <2>2. CASE i \in 1 .. Len(x) /\ x2[i] = x[i]  BY <2>1, <2>2 DEF Below
  <2>3. CASE \E m \in 1 .. Len(y) : i = Len(x) + m /\ m <= k /\ x2[i] = y[m]
    <3>1. PICK m \in 1 .. Len(y) : m <= k /\ x2[i] = y[m]  BY <2>3
    <3>2. m < p  BY <1>3, <2>1, <3>1
    <3>3. QED  BY <2>1, <3>1, <3>2 DEF Up
  <2>4. QED  BY <1>1, <2>2, <2>3
<1>8. Up(x2) /\ Up(y2) /\ Below(x2, y2)  BY <1>5, <1>6, <1>7 DEF Up, Below
<1>9. ASSUME NEW z, Below(z, x), Below(z, y)  PROVE Below(z, x2) /\ Below(z, y2)
  BY <1>1, <1>2, <1>9 DEF Below
<1>10. ASSUME NEW z, Below(x, z), Below(y, z)  PROVE Below(x2, z) /\ Below(y2, z)
  BY <1>1, <1>2, <1>10 DEF Below
<1>11. QED  BY <1>4, <1>8, <1>9, <1>10

LEMMA PipeMoves ==
  ASSUME NEW a, NEW b, NEW c, NEW last \in Nat, Pipe(a, b, c, last)
  PROVE  /\ \A b2, c2, j, k : Moved(b, c, b2, c2, j, k) => Pipe(a, b2, c2, last)
         /\ \A a2, b2, j, k : Moved(a, b, a2, b2, j, k) => Pipe(a2, b2, c, last)
<1>1. ASSUME NEW b2, NEW c2, NEW j, NEW k, Moved(b, c, b2, c2, j, k)  PROVE Pipe(a, b2, c2, last)
  <2>1. /\ All(b2, last) /\ All(c2, last) /\ Up(b2) /\ Up(c2) /\ Below(b2, c2)
        /\ Below(a, b) /\ Below(a, c) => Below(a, b2) /\ Below(a, c2)
    BY <1>1, MoveKeeps DEF Pipe
  <2>2. QED  BY <2>1 DEF Pipe
<1>2. ASSUME NEW a2, NEW b2, NEW j, NEW k, Moved(a, b, a2, b2, j, k)  PROVE Pipe(a2, b2, c, last)
  <2>1. /\ All(a2, last) /\ All(b2, last) /\ Up(a2) /\ Up(b2) /\ Below(a2, b2)
        /\ Below(a, c) /\ Below(b, c) => Below(a2, c) /\ Below(b2, c)
    BY <1>2, MoveKeeps DEF Pipe
  <2>2. QED  BY <2>1 DEF Pipe
<1>3. QED  BY <1>1, <1>2

LEMMA PipeGrows ==
  ASSUME NEW a, NEW b, NEW c, NEW last \in Nat, Pipe(a, b, c, last),
         NEW c2, NEW k, NEW m \in Nat, Grown(c, c2, last, k), k <= m
  PROVE  Pipe(a, b, c2, last + m)
<1>0. Len(a) \in Nat /\ Len(b) \in Nat /\ Len(c) \in Nat /\ k \in Nat  BY DEF Pipe, All, Grown
<1>1. ASSUME NEW i \in 1 .. Len(c2)
      PROVE  \/ i \in 1 .. Len(c) /\ c2[i] = c[i]
             \/ i > Len(c) /\ c2[i] = last + (i - Len(c)) /\ i - Len(c) <= k
  <2>1. CASE i \in 1 .. Len(c)  BY <2>1 DEF Grown
  <2>2. CASE i \notin 1 .. Len(c)
    <3> DEFINE p == i - Len(c)
    <3>1. p \in 1 .. k /\ i = Len(c) + p /\ i > Len(c)  BY <1>0, <2>2 DEF Grown
    <3> HIDE DEF p
    <3>2. c2[Len(c) + p] = last + p  BY <3>1 DEF Grown
    <3>3. QED  BY <1>0, <3>1, <3>2
  <2>3. QED  BY <2>1, <2>2
<1>2. All(a, last) /\ All(b, last) /\ All(c, last)  BY DEF Pipe
<1>3. All(a, last + m) /\ All(b, last + m)  BY <1>2 DEF All
<1>4. Len(c2) \in Nat  BY <1>0 DEF Grown
<1>5. ASSUME NEW i \in 1 .. Len(c2)  PROVE c2[i] \in Nat /\ 1 <= c2[i] /\ c2[i] <= last + m
  BY <1>0, <1>1, <1>2 DEF All
<1>6. ASSUME NEW i \in 1 .. Len(c2), NEW i2 \in 1 .. Len(c2), i < i2  PROVE c2[i] < c2[i2]
  <2>1. CASE i2 \in 1 .. Len(c)
    <3>1. i \in 1 .. Len(c) /\ c2[i] = c[i] /\ c2[i2] = c[i2]  BY <1>0, <1>1, <1>6, <2>1
    <3>2. QED  BY <1>6, <2>1, <3>1 DEF Pipe, Up
  <2>2. CASE i2 > Len(c)
    <3>1. c2[i2] = last + (i2 - Len(c))  BY <1>0, <1>1, <2>2
    <3>2. CASE i \in 1 .. Len(c) /\ c2[i] = c[i]
      BY <1>0, <1>2, <2>2, <3>1, <3>2 DEF All
    <3>3. CASE i > Len(c) /\ c2[i] = last + (i - Len(c))  BY <1>0, <1>6, <3>1, <3>3
    <3>4. QED  BY <1>1, <3>2, <3>3
  <2>3. QED  BY <1>0, <2>1, <2>2
<1>7. ASSUME NEW z, All(z, last), Below(z, c)  PROVE Below(z, c2)
  <2> SUFFICES ASSUME NEW i \in 1 .. Len(z), NEW i2 \in 1 .. Len(c2)  PROVE z[i] < c2[i2]
    BY DEF Below
  <2>1. z[i] \in Nat /\ z[i] <= last  BY <1>7 DEF All
  <2>2. CASE i2 \in 1 .. Len(c) /\ c2[i2] = c[i2]  BY <1>7, <2>2 DEF Below
  <2>3. CASE i2 > Len(c) /\ c2[i2] = last + (i2 - Len(c))  BY <1>0, <2>1, <2>3
  <2>4. QED  BY <1>1, <2>2, <2>3
<1>8. All(c2, last + m) /\ Up(c2)  BY <1>4, <1>5, <1>6 DEF All, Up
<1>9. QED  BY <1>2, <1>3, <1>7, <1>8 DEF Pipe

LEMMA ExactMoves ==
  ASSUME NEW a, NEW b, NEW c, NEW first \in Int, NEW last \in Int,
         Len(a) \in Nat, Len(b) \in Nat, Len(c) \in Nat, Exact(a, b, c, first, last)
  PROVE  /\ \A b2, c2, k : Moved(b, c, b2, c2, k, k) => Exact(a, b2, c2, first, last)
         /\ \A a2, b2, k : Moved(a, b, a2, b2, k, k) => Exact(a2, b2, c, first, last)
<1>1. ASSUME NEW b2, NEW c2, NEW k, Moved(b, c, b2, c2, k, k)  PROVE Exact(a, b2, c2, first, last)
  <2>1. k \in Nat /\ k <= Len(c) /\ Len(b2) = Len(b) + k /\ Len(c2) = Len(c) - k  BY <1>1 DEF Moved
  <2>2. ASSUME NEW i \in 1 .. Len(b2)  PROVE b2[i] = first + Len(a) + i
    <3>1. CASE i \in 1 .. Len(b) /\ b2[i] = b[i]  BY <3>1 DEF Exact, Counts
    <3>2. CASE \E m \in 1 .. Len(c) : i = Len(b) + m /\ m <= k /\ b2[i] = c[m]
      BY <3>2 DEF Exact, Counts
    <3>3. QED  BY <1>1, <3>1, <3>2, MovedFrom
  <2>3. ASSUME NEW i \in 1 .. Len(c2)  PROVE c2[i] = first + Len(a) + Len(b2) + i
    <3>1. PICK m \in 1 .. Len(c) : m = k + i /\ c2[i] = c[m]  BY <1>1, MovedFrom
    <3>2. c[m] = first + Len(a) + Len(b) + m  BY DEF Exact, Counts
    <3>3. QED  BY <2>1, <3>1, <3>2
  <2>4. first + Len(a) + Len(b2) + Len(c2) = last  BY <2>1 DEF Exact
  <2>5. Counts(a, first)  BY DEF Exact
  <2>6. QED  BY <2>2, <2>3, <2>4, <2>5 DEF Exact, Counts
<1>2. ASSUME NEW a2, NEW b2, NEW k, Moved(a, b, a2, b2, k, k)  PROVE Exact(a2, b2, c, first, last)
  <2>1. k \in Nat /\ k <= Len(b) /\ Len(a2) = Len(a) + k /\ Len(b2) = Len(b) - k  BY <1>2 DEF Moved
  <2>2. ASSUME NEW i \in 1 .. Len(a2)  PROVE a2[i] = first + i
    <3>1. CASE i \in 1 .. Len(a) /\ a2[i] = a[i]  BY <3>1 DEF Exact, Counts
    <3>2. CASE \E m \in 1 .. Len(b) : i = Len(a) + m /\ m <= k /\ a2[i] = b[m]
      BY <3>2 DEF Exact, Counts
    <3>3. QED  BY <1>2, <3>1, <3>2, MovedFrom
  <2>3. ASSUME NEW i \in 1 .. Len(b2)  PROVE b2[i] = first + Len(a2) + i
    <3>1. PICK m \in 1 .. Len(b) : m = k + i /\ b2[i] = b[m]  BY <1>2, MovedFrom
    <3>2. b[m] = first + Len(a) + m  BY DEF Exact, Counts
    <3>3. QED  BY <2>1, <3>1, <3>2
  <2>4. first + Len(a2) + Len(b2) + Len(c) = last  BY <2>1 DEF Exact
  <2>5. first + Len(a2) + Len(b2) = first + Len(a) + Len(b)  BY <2>1
  <2>6. \A i \in 1 .. Len(c) : c[i] = first + Len(a2) + Len(b2) + i  BY <2>5 DEF Exact, Counts
  <2>7. QED  BY <2>2, <2>3, <2>4, <2>6 DEF Exact, Counts
<1>3. QED  BY <1>1, <1>2
LEMMA ExactGrows ==
  ASSUME NEW a, NEW b, NEW c, NEW first \in Int, NEW last \in Int,
         Len(a) \in Nat, Len(b) \in Nat, Len(c) \in Nat, Exact(a, b, c, first, last),
         NEW c2, NEW m \in Nat, Grown(c, c2, last, m)
  PROVE  Exact(a, b, c2, first, last + m)
<1>1. Len(c2) = Len(c) + m  BY DEF Grown
<1>2. ASSUME NEW i \in 1 .. Len(c2)  PROVE c2[i] = first + Len(a) + Len(b) + i
  <2>1. CASE i \in 1 .. Len(c)  BY <2>1 DEF Exact, Counts, Grown
  <2>2. CASE i \notin 1 .. Len(c)
    <3> DEFINE p == i - Len(c)
    <3>1. p \in 1 .. m /\ i = Len(c) + p  BY <1>1, <2>2
    <3> HIDE DEF p
    <3>2. c2[Len(c) + p] = last + p  BY <3>1 DEF Grown
    <3>3. first + Len(a) + Len(b) + Len(c) = last  BY DEF Exact
    <3>4. QED  BY <3>1, <3>2, <3>3
  <2>3. QED  BY <2>1, <2>2
<1>3. first + Len(a) + Len(b) + Len(c2) = last + m  BY <1>1 DEF Exact
<1>4. QED  BY <1>2, <1>3 DEF Exact, Counts

(* The concatenation the properties speak of.                               *)
LEMMA PipeRises ==
  ASSUME NEW S, NEW a \in Seq(S), NEW b \in Seq(S), NEW c \in Seq(S), NEW last \in Nat,
         Pipe(a, b, c, last)
  PROVE  Rising(a \o (b \o c))
<1> DEFINE s == a \o (b \o c)
<1>0. Len(a) \in Nat /\ Len(b) \in Nat /\ Len(c) \in Nat  BY LenProperties
<1>1. /\ Len(s) = Len(a) + Len(b) + Len(c)
      /\ \A i \in 1 .. Len(s) : s[i] = IF i <= Len(a) THEN a[i]
                                       ELSE IF i <= Len(a) + Len(b) THEN b[i - Len(a)]
                                       ELSE c[i - Len(a) - Len(b)]
  OBVIOUS
<1> HIDE DEF s
<1>2. ASSUME NEW i \in 1 .. Len(s) - 1  PROVE s[i] < s[i+1]
  <2>0. i \in 1 .. Len(s) /\ i + 1 \in 1 .. Len(s)  BY <1>0, <1>1
  <2>1. CASE i + 1 <= Len(a)
    <3>1. s[i] = a[i] /\ s[i+1] = a[i+1] /\ i \in 1 .. Len(a) /\ i + 1 \in 1 .. Len(a) /\ i < i + 1
      BY <1>0, <1>1, <2>0, <2>1
    <3>2. QED  BY <3>1 DEF Pipe, Up
  <2>2. CASE i <= Len(a) /\ i + 1 > Len(a) /\ i + 1 <= Len(a) + Len(b)
    <3>1. s[i] = a[i] /\ s[i+1] = b[i + 1 - Len(a)] /\ i \in 1 .. Len(a) /\ i + 1 - Len(a) \in 1 .. Len(b)
      BY <1>0, <1>1, <2>0, <2>2
    <3>2. QED  BY <3>1 DEF Pipe, Below
  <2>3. CASE i <= Len(a) /\ i + 1 > Len(a) + Len(b)
    <3>1. /\ s[i] = a[i] /\ s[i+1] = c[i + 1 - Len(a) - Len(b)]
          /\ i \in 1 .. Len(a) /\ i + 1 - Len(a) - Len(b) \in 1 .. Len(c)
      BY <1>0, <1>1, <2>0, <2>3
    <3>2. QED  BY <3>1 DEF Pipe, Below
  <2>4. CASE i > Len(a) /\ i + 1 <= Len(a) + Len(b)
    <3>1. /\ s[i] = b[i - Len(a)] /\ s[i+1] = b[i + 1 - Len(a)]
          /\ i - Len(a) \in 1 .. Len(b) /\ i + 1 - Len(a) \in 1 .. Len(b) /\ i - Len(a) < i + 1 - Len(a)
      BY <1>0, <1>1, <2>0, <2>4
    <3>2. QED  BY <3>1 DEF Pipe, Up
  <2>5. CASE i > Len(a) /\ i <= Len(a) + Len(b) /\ i + 1 > Len(a) + Len(b)
    <3>1. /\ s[i] = b[i - Len(a)] /\ s[i+1] = c[i + 1 - Len(a) - Len(b)]
          /\ i - Len(a) \in 1 .. Len(b) /\ i + 1 - Len(a) - Len(b) \in 1 .. Len(c)
      BY <1>0, <1>1, <2>0, <2>5
    <3>2. QED  BY <3>1 DEF Pipe, Below
  <2>6. CASE i > Len(a) + Len(b)
    <3>1. /\ s[i] = c[i - Len(a) - Len(b)] /\ s[i+1] = c[i + 1 - Len(a) - Len(b)]
          /\ i - Len(a) - Len(b) \in 1 .. Len(c) /\ i + 1 - Len(a) - Len(b) \in 1 .. Len(c)
          /\ i - Len(a) - Len(b) < i + 1 - Len(a) - Len(b)
      BY <1>0, <1>1, <2>0, <2>6
    <3>2. QED  BY <3>1 DEF Pipe, Up
  <2>7. QED  BY <1>0, <2>1, <2>2, <2>3, <2>4, <2>5, <2>6
<1>3. QED  BY <1>2 DEF Rising, s

LEMMA ExactIs ==
  ASSUME NEW S, NEW a \in Seq(S), NEW b \in Seq(S), NEW c \in Seq(S),
         NEW first \in Int, NEW last \in Int, Exact(a, b, c, first, last)
  PROVE  a \o (b \o c) = Numbers(first + 1, last)
<1> DEFINE s == a \o (b \o c)
<1>0. Len(a) \in Nat /\ Len(b) \in Nat /\ Len(c) \in Nat  BY LenProperties
<1>1. /\ s \in Seq(S) /\ Len(s) = Len(a) + Len(b) + Len(c)
      /\ \A i \in 1 .. Len(s) : s[i] = IF i <= Len(a) THEN a[i]
                                       ELSE IF i <= Len(a) + Len(b) THEN b[i - Len(a)]
                                       ELSE c[i - Len(a) - Len(b)]
  OBVIOUS
<1> HIDE DEF s
<1>2. Len(s) = last - first  BY <1>0, <1>1 DEF Exact
<1>3. ASSUME NEW i \in 1 .. Len(s)  PROVE s[i] = first + i
  <2>1. CASE i <= Len(a)
    <3>1. s[i] = a[i] /\ i \in 1 .. Len(a)  BY <1>0, <1>1, <2>1
    <3>2. QED  BY <3>1 DEF Exact, Counts
  <2>2. CASE i > Len(a) /\ i <= Len(a) + Len(b)
    <3>1. s[i] = b[i - Len(a)] /\ i - Len(a) \in 1 .. Len(b)  BY <1>0, <1>1, <2>2
    <3>2. QED  BY <1>0, <3>1 DEF Exact, Counts
  <2>3. CASE i > Len(a) + Len(b)
    <3>1. s[i] = c[i - Len(a) - Len(b)] /\ i - Len(a) - Len(b) \in 1 .. Len(c)  BY <1>0, <1>1, <2>3
    <3>2. QED  BY <1>0, <3>1 DEF Exact, Counts
  <2>4. QED  BY <1>0, <2>1, <2>2, <2>3
<1>4. s = [i \in 1 .. last - first |-> s[i]]  BY <1>1, <1>2
<1>5. s = [i \in 1 .. last - first |-> first + i]  BY <1>2, <1>3, <1>4
<1>6. Numbers(first + 1, last) = [i \in 1 .. last - first |-> first + i]
  <2>1. last - (first + 1) + 1 = last - first  OBVIOUS
  <2>2. \A i \in 1 .. last - first : first + 1 + i - 1 = first + i  OBVIOUS
  <2>3. Numbers(first + 1, last) = [i \in 1 .. last - first |-> first + 1 + i - 1]
    BY <2>1 DEF Numbers
  <2>4. QED  BY <2>2, <2>3
<1>7. QED  BY <1>5, <1>6 DEF s

-----------------------------------------------------------------------------
(* The rings as the sequences of the way.                                   *)

(* A turn of a pump, from the ring r of size n to the ring q of size m.     *)
LEMMA PumpMoves ==
  ASSUME NEW n \in Nat \ {0}, NEW m \in Nat \ {0}, NEW max \in Nat, NEW chunk \in Nat,
         NEW r \in RingType(n, max), NEW q \in RingType(m, max)
  PROVE  LET f == Front(r, chunk, n)
             j == Least(Len(f), Free(q, m))
             k == Least(chunk, Used(r, n))
         IN  /\ Moved(Contents(q, m), Contents(r, n),
                      Contents(Pushed(q, f, m), m), Contents(Popped(r, chunk, n), n), j, k)
             /\ Len(f) = k /\ k \in Nat /\ k <= Used(r, n)
             /\ Pushed(q, f, m) \in RingType(m, max) /\ Popped(r, chunk, n) \in RingType(n, max)
             /\ Used(Pushed(q, f, m), m) = Used(q, m) + j /\ Used(Popped(r, chunk, n), n) = Used(r, n) - k
<1> DEFINE f == Front(r, chunk, n)
           j == Least(Len(f), Free(q, m))
           k == Least(chunk, Used(r, n))
           q2 == Pushed(q, f, m)
           r2 == Popped(r, chunk, n)
<1> HIDE DEF j, q2
<1>0. n \in Nat \ {0} /\ max \in Nat /\ chunk \in Nat /\ r \in RingType(n, max)  OBVIOUS
<1>1. /\ k \in Nat /\ k <= Used(r, n)
      /\ r2 \in RingType(n, max) /\ Used(r2, n) = Used(r, n) - k
      /\ \A i \in 1 .. Used(r, n) - k : Contents(r2, n)[i] = Contents(r, n)[k + i]
      /\ f \in Seq(0 .. max) /\ Len(f) = k
      /\ \A i \in 1 .. k : f[i] = Contents(r, n)[i]
  BY ONLY <1>0, PoppedIs
<1> HIDE DEF f
<1> USE DEF j, q2
<1>2. /\ q2 \in RingType(m, max) /\ Used(q2, m) = Used(q, m) + j
      /\ \A i \in 1 .. Used(q, m) : Contents(q2, m)[i] = Contents(q, m)[i]
      /\ \A i \in 1 .. j : Contents(q2, m)[Used(q, m) + i] = f[i]
  BY <1>1, PushedIs
<1>3. Free(q, m) \in Nat  BY UsedIs
<1>4. j \in Nat /\ j <= Len(f)  BY <1>1, <1>3, LeastIs
<1> HIDE DEF j, k, q2, r2
<1>5. \A i \in 1 .. j : Contents(q2, m)[Used(q, m) + i] = Contents(r, n)[i]  BY <1>1, <1>2, <1>4
<1>6. /\ Len(Contents(q, m)) = Used(q, m) /\ Len(Contents(r, n)) = Used(r, n)
      /\ Len(Contents(q2, m)) = Used(q2, m) /\ Len(Contents(r2, n)) = Used(r2, n)
  BY <1>1, <1>2, ContentsIs
<1>7. j <= k  BY <1>1, <1>4
<1>8. Moved(Contents(q, m), Contents(r, n), Contents(q2, m), Contents(r2, n), j, k)
  BY <1>1, <1>2, <1>4, <1>5, <1>6, <1>7 DEF Moved
<1>9. QED  BY <1>1, <1>2, <1>8 DEF f, j, k, q2, r2

(* What is taken out of a ring, put at the end of x.                        *)
LEMMA TakeMoves ==
  ASSUME NEW n \in Nat \ {0}, NEW max \in Nat, NEW chunk \in Nat, NEW r \in RingType(n, max),
         NEW x \in Seq(0 .. max)
  PROVE  LET f == Front(r, chunk, n)
             k == Least(chunk, Used(r, n))
         IN  /\ Moved(x, Contents(r, n), x \o f, Contents(Popped(r, chunk, n), n), k, k)
             /\ f \in Seq(0 .. max) /\ Len(f) = k /\ k \in Nat /\ k <= Used(r, n) /\ k <= chunk
             /\ Popped(r, chunk, n) \in RingType(n, max) /\ Used(Popped(r, chunk, n), n) = Used(r, n) - k
<1> DEFINE f == Front(r, chunk, n)
           k == Least(chunk, Used(r, n))
           r2 == Popped(r, chunk, n)
<1>0. n \in Nat \ {0} /\ max \in Nat /\ chunk \in Nat /\ r \in RingType(n, max)  OBVIOUS
<1>1. /\ k \in Nat /\ k <= Used(r, n)
      /\ r2 \in RingType(n, max) /\ Used(r2, n) = Used(r, n) - k
      /\ \A i \in 1 .. Used(r, n) - k : Contents(r2, n)[i] = Contents(r, n)[k + i]
      /\ f \in Seq(0 .. max) /\ Len(f) = k
      /\ \A i \in 1 .. k : f[i] = Contents(r, n)[i]
  BY ONLY <1>0, PoppedIs
<1>2. Used(r, n) \in Nat  BY UsedIs
<1>3. k <= chunk  BY <1>2, LeastIs
<1> HIDE DEF f, k, r2
<1>4. Len(Contents(r, n)) = Used(r, n) /\ Len(Contents(r2, n)) = Used(r2, n)  BY <1>1, ContentsIs
<1>5. /\ Len(x) \in Nat /\ Len(x \o f) = Len(x) + k
      /\ \A i \in 1 .. Len(x) : (x \o f)[i] = x[i]
      /\ \A i \in 1 .. k : (x \o f)[Len(x) + i] = f[i]
  <2>1. f \in Seq(0 .. max) /\ Len(f) = k /\ x \in Seq(0 .. max)  BY <1>1
  <2>2. Len(x) \in Nat /\ Len(f) \in Nat  BY <2>1, LenProperties
  <2>3. /\ Len(x \o f) = Len(x) + Len(f)
        /\ \A i \in 1 .. Len(x) + Len(f) : (x \o f)[i] = IF i <= Len(x) THEN x[i] ELSE f[i - Len(x)]
    BY ONLY <2>1, ConcatProperties
  <2>4. ASSUME NEW i \in 1 .. k  PROVE (x \o f)[Len(x) + i] = f[i]
    <3> DEFINE p == Len(x) + i
    <3>1. p \in 1 .. Len(x) + Len(f) /\ ~(p <= Len(x)) /\ p - Len(x) = i  BY <2>1, <2>2
    <3> HIDE DEF p
    <3>2. (x \o f)[p] = f[i]  BY <2>3, <3>1
    <3>3. QED  BY <3>2 DEF p
  <2>5. \A i \in 1 .. Len(x) : i \in 1 .. Len(x) + Len(f) /\ i <= Len(x)  BY <2>2
  <2>6. QED  BY <2>1, <2>2, <2>3, <2>4, <2>5
<1>6. \A i \in 1 .. k : (x \o f)[Len(x) + i] = Contents(r, n)[i]  BY <1>1, <1>5
<1>7. Moved(x, Contents(r, n), x \o f, Contents(r2, n), k, k)
  BY <1>1, <1>4, <1>5, <1>6 DEF Moved
<1>8. QED  BY <1>1, <1>3, <1>7 DEF f, k, r2

(* n new numbers stored into a ring.                                        *)
LEMMA StoreGrows ==
  ASSUME NEW n \in Nat \ {0}, NEW max \in Nat, NEW r \in RingType(n, max),
         NEW last \in Nat, NEW m \in Nat, last + m <= max,
         NEW s, s = Numbers(last + 1, last + m)
  PROVE  LET k == Least(m, Free(r, n))
         IN  /\ Grown(Contents(r, n), Contents(Pushed(r, s, n), n), last, k)
             /\ Pushed(r, s, n) \in RingType(n, max) /\ Used(Pushed(r, s, n), n) = Used(r, n) + k
             /\ k \in Nat /\ k <= m /\ (m <= Free(r, n) => k = m)
<1> DEFINE k == Least(m, Free(r, n))
           r2 == Pushed(r, s, n)
<1>1. /\ s \in Seq(0 .. max) /\ Len(s) = m /\ \A i \in 1 .. m : s[i] = last + i
  <2>1. last + m - (last + 1) + 1 = m  OBVIOUS
  <2>2. s = [i \in 1 .. m |-> last + 1 + i - 1]  BY <2>1 DEF Numbers
  <2>3. \A i \in 1 .. m : last + 1 + i - 1 = last + i /\ last + i \in 0 .. max  OBVIOUS
  <2>4. s \in [1 .. m -> 0 .. max]  BY <2>2, <2>3
  <2>5. QED  BY <2>2, <2>3, <2>4
<1>2. /\ r2 \in RingType(n, max) /\ Used(r2, n) = Used(r, n) + k
      /\ \A i \in 1 .. Used(r, n) : Contents(r2, n)[i] = Contents(r, n)[i]
      /\ \A i \in 1 .. k : Contents(r2, n)[Used(r, n) + i] = s[i]
  BY <1>1, PushedIs
<1>3. Free(r, n) \in Nat  BY UsedIs
<1>4. k \in Nat /\ k <= m /\ (m <= Free(r, n) => k = m)  BY <1>3 DEF Least
<1> HIDE DEF k, r2
<1>5. Len(Contents(r, n)) = Used(r, n) /\ Len(Contents(r2, n)) = Used(r2, n)  BY <1>2, ContentsIs
<1>6. \A i \in 1 .. k : Contents(r2, n)[Used(r, n) + i] = last + i  BY <1>1, <1>2, <1>4
<1>7. Grown(Contents(r, n), Contents(r2, n), last, k)  BY <1>2, <1>4, <1>5, <1>6 DEF Grown
<1>8. QED  BY <1>2, <1>4, <1>7 DEF k, r2
-----------------------------------------------------------------------------
(* The invariant.  Nothing has happened at "start".                         *)
StartInv == pc = "start" => /\ buf = <<>> /\ kinds = <<>> /\ got = 0 /\ printed = 0
                            /\ ~connected /\ ~setup.inited

InInv ==
  /\ Pipe(buf, Contents(rx, RxRing), Contents(s_rx, RxSize), Len(kinds))
  /\ got + Used(rx, RxRing) + Used(s_rx, RxSize) <= Len(kinds)
  /\ pc # "line" => buf = <<>>
  /\ ~port.overran =>
       /\ Exact(buf, Contents(rx, RxRing), Contents(s_rx, RxSize), got - Len(buf), Len(kinds))
       /\ Used(rx, RxRing) + Used(s_rx, RxSize) <= RxRing - 1

OutInv ==
  /\ Pipe(port.received, Contents(s_tx, TxSize), Contents(tx, TxRing), printed)
  /\ port.from <= printed
  /\ ~connected => port.received = <<>> /\ port.lagged
  /\ ~port.lagged =>
       /\ Exact(port.received, Contents(s_tx, TxSize), Contents(tx, TxRing), port.from, printed)
       /\ Used(tx, TxRing) + Used(s_tx, TxSize) <= TxSize - 1

PortType == [ sessions : 0 .. MaxSessions, overran : BOOLEAN, lagged : BOOLEAN,
              from : 0 .. MaxOut, closed : BOOLEAN, received : Seq(1 .. MaxOut) ]

UsbInv == TypeOK /\ StartInv /\ InInv /\ OutInv

LEMMA SizesHold ==
  /\ RxSize \in Nat \ {0, 1} /\ TxSize \in Nat \ {0, 1}
  /\ RxRing \in Nat \ {0, 1} /\ TxRing \in Nat \ {0, 1} /\ LineSize \in Nat \ {0, 1}
  /\ RxSize <= RxRing /\ TxSize <= TxRing
  /\ Chunk \in Nat \ {0} /\ ReadLen \in Nat \ {0}
  /\ Bursts \subseteq Nat \ {0} /\ MaxIn \in Nat /\ MaxOut \in Nat /\ MaxSessions \in Nat
BY SizesAssumption, UsbBoundsAssumption

LEMMA EmptyIs ==
  ASSUME NEW n \in Nat \ {0}, NEW max \in Nat
  PROVE  /\ Empty(n) \in RingType(n, max) /\ Used(Empty(n), n) = 0
         /\ \A r \in RingType(n, max) :
              /\ [r EXCEPT !.head = 0, !.tail = 0] \in RingType(n, max)
              /\ Used([r EXCEPT !.head = 0, !.tail = 0], n) = 0
              /\ [r EXCEPT !.head = r.tail] \in RingType(n, max)
              /\ Used([r EXCEPT !.head = r.tail], n) = 0
<1>1. 0 \in 0 .. n - 1 /\ 0 \in 0 .. max  OBVIOUS
<1>2. Empty(n) \in RingType(n, max) /\ Used(Empty(n), n) = 0  BY <1>1 DEF Empty, RingType, Used
<1>3. ASSUME NEW r \in RingType(n, max)
      PROVE  /\ [r EXCEPT !.head = 0, !.tail = 0] \in RingType(n, max)
             /\ Used([r EXCEPT !.head = 0, !.tail = 0], n) = 0
             /\ [r EXCEPT !.head = r.tail] \in RingType(n, max)
             /\ Used([r EXCEPT !.head = r.tail], n) = 0
  <2>1. /\ r.head \in 0 .. n - 1 /\ r.tail \in 0 .. n - 1 /\ r.data \in [0 .. n - 1 -> 0 .. max]
        /\ r = [head |-> r.head, tail |-> r.tail, data |-> r.data]
    BY <1>3 DEF RingType
  <2> DEFINE q == [r EXCEPT !.head = 0, !.tail = 0]
             p == [r EXCEPT !.head = r.tail]
  <2>2. q.head = 0 /\ q.tail = 0 /\ p.head = r.tail /\ p.tail = r.tail
    BY <2>1
  <2>3. q \in RingType(n, max) /\ p \in RingType(n, max)  BY <1>1, <2>1, <1>3 DEF RingType
  <2> HIDE DEF q, p
  <2>4. Used(q, n) = 0 /\ Used(p, n) = 0  BY <2>1, <2>2 DEF Used
  <2>5. QED  BY <2>3, <2>4 DEF q, p
<1>4. QED  BY <1>2, <1>3

LEMMA EmptyPipe ==
  ASSUME NEW a, NEW b, NEW c, NEW last \in Nat, Len(a) = 0, Len(b) = 0, Len(c) = 0
  PROVE  Pipe(a, b, c, last) /\ Exact(a, b, c, last, last)
<1>1. \A i \in 1 .. 0 : FALSE  OBVIOUS
<1>2. QED  BY <1>1 DEF Pipe, Exact, Counts, All, Up, Below

LEMMA InitHolds == Init => UsbInv
<1> SUFFICES ASSUME Init PROVE UsbInv  OBVIOUS
<1>1. /\ rx \in RingType(RxRing, MaxIn) /\ Used(rx, RxRing) = 0
      /\ s_rx \in RingType(RxSize, MaxIn) /\ Used(s_rx, RxSize) = 0
      /\ tx \in RingType(TxRing, MaxOut) /\ Used(tx, TxRing) = 0
      /\ s_tx \in RingType(TxSize, MaxOut) /\ Used(s_tx, TxSize) = 0
  BY SizesHold, EmptyIs DEF Init
<1>2. /\ Len(Contents(rx, RxRing)) = 0 /\ Len(Contents(s_rx, RxSize)) = 0
      /\ Len(Contents(tx, TxRing)) = 0 /\ Len(Contents(s_tx, TxSize)) = 0
  BY <1>1, SizesHold, ContentsIs
<1>3. /\ buf = <<>> /\ line = <<>> /\ kinds = <<>> /\ got = 0 /\ printed = 0 /\ ran = NoLine
      /\ connected = FALSE /\ pc = "start"
      /\ usb_state \in {"OFF", "READY"} /\ setup \in [enabled : BOOLEAN, inited : BOOLEAN]
      /\ ~setup.inited
      /\ port = [ sessions |-> 0, overran |-> FALSE, lagged |-> TRUE, from |-> 0,
                  closed |-> FALSE, received |-> <<>> ]
  BY DEF Init
<1>4. /\ port.received = <<>> /\ port.lagged /\ port.from = 0 /\ ~port.overran
      /\ port \in [ sessions : 0 .. MaxSessions, overran : BOOLEAN, lagged : BOOLEAN,
                    from : 0 .. MaxOut, closed : BOOLEAN, received : Seq(1 .. MaxOut) ]
  BY <1>3, SizesHold
<1>5. TypeOK
  <2>1. /\ buf \in Seq(1 .. MaxIn) /\ Len(buf) <= ReadLen /\ line \in Seq(1 .. MaxIn) /\ Len(line) < LineSize
        /\ kinds \in Seq(Kinds) /\ Len(kinds) <= MaxIn
    <3>1. buf = <<>> /\ line = <<>> /\ kinds = <<>>  BY <1>3
    <3>2. QED  BY ONLY <3>1, SizesHold
  <2>2. ran \in [bytes : Seq(1 .. MaxIn), end : 0 .. MaxIn]
    <3>1. ran = NoLine  BY <1>3
    <3>2. QED  BY ONLY <3>1, SizesHold DEF NoLine
  <2>3. got \in 0 .. MaxIn /\ printed \in 0 .. MaxOut  BY <1>3, SizesHold
  <2>4. connected \in BOOLEAN /\ pc \in Pcs /\ usb_state \in {"OFF", "READY", "ACTIVE"}
    BY <1>3 DEF Pcs
  <2>5. QED  BY ONLY <1>1, <1>3, <1>4, <2>1, <2>2, <2>3, <2>4 DEF TypeOK
<1>6. /\ Pipe(buf, Contents(rx, RxRing), Contents(s_rx, RxSize), 0)
      /\ Exact(buf, Contents(rx, RxRing), Contents(s_rx, RxSize), 0, 0)
      /\ Pipe(port.received, Contents(s_tx, TxSize), Contents(tx, TxRing), 0)
  BY <1>2, <1>3, <1>4, EmptyPipe
<1>7. InInv
  <2>0. got = 0 /\ kinds = <<>> /\ buf = <<>>  BY <1>3
  <2>1. Len(kinds) = 0 /\ Len(buf) = 0 /\ got - Len(buf) = 0 /\ 0 <= RxRing - 1
    <3>1. Len(kinds) = 0 /\ Len(buf) = 0  BY ONLY <2>0
    <3>2. RxRing \in Nat \ {0, 1}  BY SizesHold
    <3>3. got = 0  BY <2>0
    <3>4. got - Len(buf) = 0  BY ONLY <3>1, <3>3
    <3>5. QED  BY ONLY <3>1, <3>2, <3>4
  <2>2. QED  BY <1>1, <1>3, <1>6, <2>1 DEF InInv
<1>8. OutInv  BY <1>3, <1>4, <1>6 DEF OutInv
<1>9. QED  BY <1>1, <1>3, <1>5, <1>7, <1>8 DEF UsbInv, StartInv
-----------------------------------------------------------------------------
(* The way in.                                                              *)
LEMMA Widen ==
  ASSUME NEW s, NEW max \in Nat, s \in Seq(1 .. max)
  PROVE  s \in Seq(0 .. max) /\ Len(s) \in Nat
OBVIOUS

LEMMA InParts ==
  ASSUME TypeOK
  PROVE  /\ rx \in RingType(RxRing, MaxIn) /\ s_rx \in RingType(RxSize, MaxIn)
         /\ Contents(rx, RxRing) \in Seq(0 .. MaxIn) /\ Len(Contents(rx, RxRing)) = Used(rx, RxRing)
         /\ Contents(s_rx, RxSize) \in Seq(0 .. MaxIn) /\ Len(Contents(s_rx, RxSize)) = Used(s_rx, RxSize)
         /\ Used(rx, RxRing) \in Nat /\ Used(s_rx, RxSize) \in Nat
         /\ buf \in Seq(0 .. MaxIn) /\ Len(buf) \in Nat
         /\ Len(kinds) \in Nat /\ Len(kinds) <= MaxIn /\ got \in Nat
<1>1. /\ rx \in RingType(RxRing, MaxIn) /\ s_rx \in RingType(RxSize, MaxIn)
      /\ buf \in Seq(1 .. MaxIn) /\ kinds \in Seq(Kinds) /\ Len(kinds) <= MaxIn /\ got \in 0 .. MaxIn
  BY DEF TypeOK
<1>2. Len(kinds) \in Nat /\ got \in Nat  BY <1>1, SizesHold, LenProperties
<1>3. buf \in Seq(0 .. MaxIn) /\ Len(buf) \in Nat  BY <1>1, SizesHold, Widen
<1>4. RxRing \in Nat \ {0} /\ RxSize \in Nat \ {0} /\ MaxIn \in Nat  BY SizesHold
<1>5. /\ Contents(rx, RxRing) \in Seq(0 .. MaxIn) /\ Len(Contents(rx, RxRing)) = Used(rx, RxRing)
      /\ Contents(s_rx, RxSize) \in Seq(0 .. MaxIn) /\ Len(Contents(s_rx, RxSize)) = Used(s_rx, RxSize)
  BY <1>1, <1>4, ContentsIs
<1>6. Used(rx, RxRing) \in Nat /\ Used(s_rx, RxSize) \in Nat  BY <1>1, <1>4, UsedIs
<1>7. QED  BY <1>1, <1>2, <1>3, <1>5, <1>6

LEMMA InQuiet ==
  ASSUME InInv, UNCHANGED <<rx, s_rx, kinds, got, buf>>, port'.overran = port.overran,
         pc' # "line" => buf = <<>>
  PROVE  InInv'
BY DEF InInv

LEMMA InFeed ==
  ASSUME TypeOK, InInv, Feed
  PROVE  /\ InInv' /\ s_rx' \in RingType(RxSize, MaxIn)
         /\ kinds' \in Seq(Kinds) /\ Len(kinds') <= MaxIn
<1> DEFINE B == Contents(rx, RxRing)
           C == Contents(s_rx, RxSize)
<1>1. PICK n \in Bursts : \E ks \in [1 .. n -> Kinds] :
        /\ Len(kinds) + n <= MaxIn
        /\ kinds' = kinds \o ks
        /\ s_rx' = Pushed(s_rx, Numbers(Len(kinds) + 1, Len(kinds) + n), RxSize)
        /\ port' = [port EXCEPT !.overran =
             \/ @
             \/ Used(s_rx, RxSize) + n > RxSize - 1
             \/ Used(rx, RxRing) + Used(s_rx, RxSize) + n > RxRing - 1]
  BY DEF Feed
<1>2. PICK ks \in [1 .. n -> Kinds] : kinds' = kinds \o ks  BY <1>1
<1>3. n \in Nat /\ Len(kinds) + n <= MaxIn  BY <1>1, SizesHold
<1>4. ks \in Seq(Kinds) /\ Len(ks) = n  BY <1>2, <1>3
<1>5. kinds' \in Seq(Kinds) /\ Len(kinds') = Len(kinds) + n
  <2>1. kinds \in Seq(Kinds)  BY DEF TypeOK
  <2>2. kinds \o ks \in Seq(Kinds) /\ Len(kinds \o ks) = Len(kinds) + Len(ks)
    BY ONLY <1>4, <2>1, ConcatProperties
  <2>3. QED  BY <1>2, <1>4, <2>2
<1>6. UNCHANGED <<rx, got, buf, pc>>  BY DEF Feed, conVars
<1>7. ~port'.overran => /\ ~port.overran
                        /\ ~(Used(s_rx, RxSize) + n > RxSize - 1)
                        /\ ~(Used(rx, RxRing) + Used(s_rx, RxSize) + n > RxRing - 1)
  <2>1. port \in [ sessions : 0 .. MaxSessions, overran : BOOLEAN, lagged : BOOLEAN,
                   from : 0 .. MaxOut, closed : BOOLEAN, received : Seq(1 .. MaxOut) ]
    BY DEF TypeOK
  <2>2. port'.overran = \/ port.overran
                        \/ Used(s_rx, RxSize) + n > RxSize - 1
                        \/ Used(rx, RxRing) + Used(s_rx, RxSize) + n > RxRing - 1
    BY <1>1, <2>1
  <2>3. QED  BY <2>2
<1> DEFINE k == Least(n, Free(s_rx, RxSize))
           C2 == Contents(s_rx', RxSize)
<1>8. /\ Grown(C, C2, Len(kinds), k)
      /\ s_rx' \in RingType(RxSize, MaxIn) /\ Used(s_rx', RxSize) = Used(s_rx, RxSize) + k
      /\ k \in Nat /\ k <= n /\ (n <= Free(s_rx, RxSize) => k = n)
  <2>1. RxSize \in Nat \ {0} /\ MaxIn \in Nat  BY SizesHold
  <2>2. s_rx \in RingType(RxSize, MaxIn) /\ Len(kinds) \in Nat  BY InParts
  <2>3. s_rx' = Pushed(s_rx, Numbers(Len(kinds) + 1, Len(kinds) + n), RxSize)  BY <1>1
  <2> DEFINE s == Numbers(Len(kinds) + 1, Len(kinds) + n)
  <2>4. s = Numbers(Len(kinds) + 1, Len(kinds) + n)  OBVIOUS
  <2> HIDE DEF s
  <2>5. s_rx' = Pushed(s_rx, s, RxSize)  BY <2>3, <2>4
  <2>6. QED  BY ONLY <1>3, <2>1, <2>2, <2>4, <2>5, StoreGrows
<1>9. Free(s_rx, RxSize) = RxSize - 1 - Used(s_rx, RxSize)  BY DEF Free
<1>10. /\ Pipe(buf, B, C, Len(kinds)) /\ got + Used(rx, RxRing) + Used(s_rx, RxSize) <= Len(kinds)
       /\ pc # "line" => buf = <<>>
       /\ ~port.overran => Exact(buf, B, C, got - Len(buf), Len(kinds))
  BY DEF InInv
<1> HIDE DEF B, C, C2, k
<1>11. Pipe(buf, B, C2, Len(kinds) + n)  BY <1>3, <1>8, <1>10, InParts, PipeGrows
<1>12. got + Used(rx, RxRing) + Used(s_rx', RxSize) <= Len(kinds) + n
  BY <1>3, <1>8, <1>10, InParts
<1>13. ASSUME ~port'.overran
       PROVE  /\ Exact(buf, B, C2, got - Len(buf), Len(kinds) + n)
              /\ Used(rx, RxRing) + Used(s_rx', RxSize) <= RxRing - 1
  <2>0. /\ Used(rx, RxRing) \in Nat /\ Used(s_rx, RxSize) \in Nat
        /\ RxRing \in Nat /\ RxSize \in Nat /\ Free(s_rx, RxSize) \in Int
    BY <1>9, InParts, SizesHold
  <2>n. /\ ~(Used(s_rx, RxSize) + n > RxSize - 1)
        /\ ~(Used(rx, RxRing) + Used(s_rx, RxSize) + n > RxRing - 1)
    BY <1>7, <1>13
  <2>1. k = n
    <3>1. n <= Free(s_rx, RxSize)  BY ONLY <1>3, <1>9, <2>0, <2>n
    <3>2. QED  BY <1>8, <3>1
  <2>2. /\ got - Len(buf) \in Int /\ Len(kinds) \in Int
        /\ Len(buf) \in Nat /\ Len(B) \in Nat /\ Len(C) \in Nat
    BY InParts DEF B, C
  <2>3. Exact(buf, B, C, got - Len(buf), Len(kinds))  BY <1>7, <1>10, <1>13
  <2>4. Grown(C, C2, Len(kinds), n)  BY <1>8, <2>1
  <2> DEFINE first == got - Len(buf)
             last == Len(kinds)
  <2>5. first \in Int /\ last \in Int /\ Exact(buf, B, C, first, last) /\ Grown(C, C2, last, n)
    BY <2>2, <2>3, <2>4
  <2> HIDE DEF first, last
  <2>6. Exact(buf, B, C2, first, last + n)  BY ONLY <1>3, <2>2, <2>5, ExactGrows
  <2>7. Used(rx, RxRing) + Used(s_rx', RxSize) <= RxRing - 1
    <3>1. Used(s_rx', RxSize) = Used(s_rx, RxSize) + n  BY <1>8, <2>1
    <3>2. QED  BY ONLY <1>3, <2>0, <2>n, <3>1
  <2>8. QED  BY <2>6, <2>7 DEF first, last
<1>14. InInv'
  BY <1>5, <1>6, <1>10, <1>11, <1>12, <1>13 DEF InInv, B, C2
<1>15. QED  BY <1>3, <1>5, <1>8, <1>14
LEMMA InPump ==
  ASSUME TypeOK, InInv, PumpRx
  PROVE  InInv' /\ rx' \in RingType(RxRing, MaxIn) /\ s_rx' \in RingType(RxSize, MaxIn)
<1> DEFINE B == Contents(rx, RxRing)
           C == Contents(s_rx, RxSize)
           B2 == Contents(rx', RxRing)
           C2 == Contents(s_rx', RxSize)
           f == Front(s_rx, Chunk, RxSize)
           j == Least(Len(f), Free(rx, RxRing))
           k == Least(Chunk, Used(s_rx, RxSize))
<1>1. rx' = Pushed(rx, f, RxRing) /\ s_rx' = Popped(s_rx, Chunk, RxSize)
  BY DEF PumpRx
<1>2. UNCHANGED <<kinds, got, buf, pc, port>>  BY DEF PumpRx, conVars
<1>3. /\ Moved(B, C, B2, C2, j, k) /\ Len(f) = k /\ k \in Nat /\ k <= Used(s_rx, RxSize)
      /\ rx' \in RingType(RxRing, MaxIn) /\ s_rx' \in RingType(RxSize, MaxIn)
      /\ Used(rx', RxRing) = Used(rx, RxRing) + j /\ Used(s_rx', RxSize) = Used(s_rx, RxSize) - k
  <2>1. /\ RxSize \in Nat \ {0} /\ RxRing \in Nat \ {0} /\ MaxIn \in Nat /\ Chunk \in Nat
        /\ s_rx \in RingType(RxSize, MaxIn) /\ rx \in RingType(RxRing, MaxIn)
    BY SizesHold, InParts
  <2>2. /\ Moved(Contents(rx, RxRing), Contents(s_rx, RxSize), Contents(Pushed(rx, f, RxRing), RxRing),
                 Contents(Popped(s_rx, Chunk, RxSize), RxSize), j, k)
        /\ Len(f) = k /\ k \in Nat /\ k <= Used(s_rx, RxSize)
        /\ Pushed(rx, f, RxRing) \in RingType(RxRing, MaxIn)
        /\ Popped(s_rx, Chunk, RxSize) \in RingType(RxSize, MaxIn)
        /\ Used(Pushed(rx, f, RxRing), RxRing) = Used(rx, RxRing) + j
        /\ Used(Popped(s_rx, Chunk, RxSize), RxSize) = Used(s_rx, RxSize) - k
    BY ONLY <2>1, PumpMoves
  <2>3. QED  BY <1>1, <2>2
<1>4. /\ Pipe(buf, B, C, Len(kinds)) /\ got + Used(rx, RxRing) + Used(s_rx, RxSize) <= Len(kinds)
      /\ pc # "line" => buf = <<>>
      /\ ~port.overran => /\ Exact(buf, B, C, got - Len(buf), Len(kinds))
                          /\ Used(rx, RxRing) + Used(s_rx, RxSize) <= RxRing - 1
  BY DEF InInv
<1>5. Free(rx, RxRing) = RxRing - 1 - Used(rx, RxRing) /\ Free(rx, RxRing) \in Nat
  BY InParts, SizesHold, UsedIs
<1>6. j \in Nat /\ j <= k /\ (k <= Free(rx, RxRing) => j = k)
  BY <1>3, <1>5 DEF Least
<1> HIDE DEF B, C, B2, C2, f, j, k
<1>7. Pipe(buf, B2, C2, Len(kinds))  BY <1>3, <1>4, InParts, PipeMoves
<1>8. got + Used(rx', RxRing) + Used(s_rx', RxSize) <= Len(kinds)
  BY <1>3, <1>4, <1>6, InParts
<1>9. ASSUME ~port.overran
      PROVE  /\ Exact(buf, B2, C2, got - Len(buf), Len(kinds))
             /\ Used(rx', RxRing) + Used(s_rx', RxSize) <= RxRing - 1
  <2>0. /\ Used(rx, RxRing) \in Nat /\ Used(s_rx, RxSize) \in Nat /\ RxRing \in Nat
        /\ Used(rx, RxRing) + Used(s_rx, RxSize) <= RxRing - 1
    BY <1>4, <1>9, InParts, SizesHold
  <2>1. j = k
    <3>1. k <= Free(rx, RxRing)  BY ONLY <1>3, <1>5, <2>0
    <3>2. QED  BY <1>6, <3>1
  <2>2. /\ got - Len(buf) \in Int /\ Len(kinds) \in Int
        /\ Len(buf) \in Nat /\ Len(B) \in Nat /\ Len(C) \in Nat
    BY InParts DEF B, C
  <2> DEFINE first == got - Len(buf)
  <2>3. first \in Int /\ Exact(buf, B, C, first, Len(kinds)) /\ Moved(B, C, B2, C2, k, k)
    BY <1>3, <1>4, <1>9, <2>1, <2>2
  <2> HIDE DEF first
  <2>4. Exact(buf, B2, C2, first, Len(kinds))  BY ONLY <2>2, <2>3, ExactMoves
  <2>5. Used(rx', RxRing) + Used(s_rx', RxSize) <= RxRing - 1
    BY ONLY <1>3, <1>6, <2>0
  <2>6. QED  BY <2>4, <2>5 DEF first
<1>10. InInv'  BY <1>2, <1>4, <1>7, <1>8, <1>9 DEF InInv, B2, C2
<1>11. QED  BY <1>3, <1>10

LEMMA InRead ==
  ASSUME TypeOK, InInv, Read
  PROVE  /\ InInv' /\ rx' \in RingType(RxRing, MaxIn) /\ got' \in Nat /\ got' <= MaxIn
         /\ buf' \in Seq(1 .. MaxIn) /\ Len(buf') <= ReadLen
         /\ Used(rx, RxRing) = 0 => got' = got /\ Used(rx', RxRing) = 0
<1> DEFINE B == Contents(rx, RxRing)
           C == Contents(s_rx, RxSize)
           B2 == Contents(rx', RxRing)
           f == Front(rx, ReadLen, RxRing)
           k == Least(ReadLen, Used(rx, RxRing))
<1>1. /\ pc = "read" /\ pc' = "line" /\ buf' = f /\ rx' = Popped(rx, ReadLen, RxRing)
      /\ got' = got + Len(buf') /\ UNCHANGED <<s_rx, kinds, port>>
  BY DEF Read, Go
<1>0. buf = <<>>  BY <1>1 DEF InInv
<1>2. /\ Len(buf) = 0 /\ Pipe(buf, B, C, Len(kinds))
      /\ got + Used(rx, RxRing) + Used(s_rx, RxSize) <= Len(kinds)
      /\ ~port.overran => /\ Exact(buf, B, C, got - Len(buf), Len(kinds))
                          /\ Used(rx, RxRing) + Used(s_rx, RxSize) <= RxRing - 1
  <2>1. Len(buf) = 0  BY ONLY <1>0
  <2>2. QED  BY <2>1 DEF InInv
<1>3. /\ Moved(buf, B, buf', B2, k, k) /\ f \in Seq(0 .. MaxIn) /\ Len(f) = k /\ k \in Nat
      /\ k <= Used(rx, RxRing) /\ k <= ReadLen
      /\ rx' \in RingType(RxRing, MaxIn) /\ Used(rx', RxRing) = Used(rx, RxRing) - k
  <2>1. /\ RxRing \in Nat \ {0} /\ MaxIn \in Nat /\ ReadLen \in Nat
        /\ rx \in RingType(RxRing, MaxIn) /\ buf \in Seq(0 .. MaxIn)
    BY SizesHold, InParts
  <2>2. /\ Moved(buf, Contents(rx, RxRing), buf \o f, Contents(Popped(rx, ReadLen, RxRing), RxRing), k, k)
        /\ f \in Seq(0 .. MaxIn) /\ Len(f) = k /\ k \in Nat /\ k <= Used(rx, RxRing) /\ k <= ReadLen
        /\ Popped(rx, ReadLen, RxRing) \in RingType(RxRing, MaxIn)
        /\ Used(Popped(rx, ReadLen, RxRing), RxRing) = Used(rx, RxRing) - k
    BY ONLY <2>1, TakeMoves
  <2> HIDE DEF f
  <2>3. buf \o f = f
    <3>1. f \in Seq(0 .. MaxIn)  BY <2>2
    <3>2. <<>> \o f = f  BY ONLY <3>1, ConcatEmptySeq
    <3>3. QED  BY ONLY <1>0, <3>2
  <2>4. QED  BY <1>1, <2>2, <2>3
<1> HIDE DEF B, C, B2, f, k
<1>4. Len(buf) = 0 /\ Len(buf') = k /\ got' = got + k  BY <1>1, <1>2, <1>3
<1>5. Pipe(buf', B2, C, Len(kinds))  BY <1>2, <1>3, InParts, PipeMoves
<1>6. got' + Used(rx', RxRing) + Used(s_rx, RxSize) <= Len(kinds) /\ got' \in Nat /\ got' <= MaxIn
  BY <1>2, <1>3, <1>4, InParts, SizesHold
<1>7. ASSUME ~port.overran
      PROVE  /\ Exact(buf', B2, C, got' - Len(buf'), Len(kinds))
             /\ Used(rx', RxRing) + Used(s_rx, RxSize) <= RxRing - 1
  <2>1. /\ got - Len(buf) \in Int /\ Len(kinds) \in Int
        /\ Len(buf) \in Nat /\ Len(B) \in Nat /\ Len(C) \in Nat
    BY InParts DEF B, C
  <2>2. got' - Len(buf') = got - Len(buf)  BY <1>3, <1>4, InParts
  <2> DEFINE first == got - Len(buf)
  <2>3. first \in Int /\ Exact(buf, B, C, first, Len(kinds))  BY <1>2, <1>7, <2>1
  <2> HIDE DEF first
  <2>4. Exact(buf', B2, C, first, Len(kinds))  BY ONLY <1>3, <2>1, <2>3, ExactMoves
  <2>5. Used(rx', RxRing) + Used(s_rx, RxSize) <= RxRing - 1
    BY <1>2, <1>3, <1>7, InParts, SizesHold
  <2>6. QED  BY <2>2, <2>4, <2>5 DEF first
<1>8. InInv'  BY <1>1, <1>5, <1>6, <1>7 DEF InInv, B2, C
<1>9. buf' \in Seq(1 .. MaxIn) /\ Len(buf') <= ReadLen
  <2>1. buf' \in Seq(0 .. MaxIn)  BY <1>1, <1>3
  <2>2. \A i \in 1 .. Len(buf') : buf'[i] \in 1 .. MaxIn
    BY <1>5, InParts, SizesHold DEF Pipe, All
  <2>3. buf' = [i \in 1 .. Len(buf') |-> buf'[i]] /\ Len(buf') \in Nat  BY <2>1, LenProperties
  <2>4. buf' \in [1 .. Len(buf') -> 1 .. MaxIn]  BY <2>2, <2>3
  <2>5. buf' \in Seq(1 .. MaxIn)
    <3>1. \A l \in Nat : [1 .. l -> 1 .. MaxIn] \subseteq Seq(1 .. MaxIn)  BY SeqDef
    <3>2. QED  BY ONLY <2>3, <2>4, <3>1
  <2>6. QED  BY ONLY <1>3, <1>4, <2>5
<1>10. Used(rx, RxRing) = 0 => got' = got /\ Used(rx', RxRing) = 0
  BY <1>3, <1>4, InParts
<1>11. QED  BY <1>3, <1>6, <1>8, <1>9, <1>10

(* A byte of the read buffer is looked at.                                  *)
LEMMA InLine ==
  ASSUME TypeOK, InInv, pc = "line", buf # <<>>, buf' = Tail(buf),
         UNCHANGED <<rx, s_rx, kinds, got, pc, port>>
  PROVE  InInv' /\ buf' \in Seq(1 .. MaxIn) /\ Len(buf') <= ReadLen /\ Head(buf) \in 1 .. MaxIn
<1> DEFINE B == Contents(rx, RxRing)
           C == Contents(s_rx, RxSize)
<1>0. buf \in Seq(1 .. MaxIn) /\ buf # <<>>  BY DEF TypeOK
<1>1. Len(buf) <= ReadLen /\ Len(buf) \in Nat  BY InParts DEF TypeOK
<1>2. /\ buf' \in Seq(1 .. MaxIn) /\ Len(buf') = Len(buf) - 1 /\ Head(buf) \in 1 .. MaxIn
      /\ Len(buf) >= 1
      /\ \A i \in 1 .. Len(buf) - 1 : buf'[i] = buf[i + 1]
  <2>1. /\ Tail(buf) \in Seq(1 .. MaxIn) /\ Len(Tail(buf)) = Len(buf) - 1
        /\ \A i \in 1 .. Len(buf) - 1 : Tail(buf)[i] = buf[i + 1]
    BY ONLY <1>0, HeadTailProperties
  <2>2. Head(buf) \in 1 .. MaxIn  BY ONLY <1>0, HeadTailProperties
  <2>3. Len(buf) >= 1  BY ONLY <1>0, <1>1, EmptySeq
  <2>4. buf' = Tail(buf)  OBVIOUS
  <2>5. QED  BY <2>1, <2>2, <2>3, <2>4
<1>3. /\ Pipe(buf, B, C, Len(kinds)) /\ got + Used(rx, RxRing) + Used(s_rx, RxSize) <= Len(kinds)
      /\ ~port.overran => /\ Exact(buf, B, C, got - Len(buf), Len(kinds))
                          /\ Used(rx, RxRing) + Used(s_rx, RxSize) <= RxRing - 1
  BY DEF InInv
<1> HIDE DEF B, C
<1>4. \A i \in 1 .. Len(buf') : \E m \in 1 .. Len(buf) : m = i + 1 /\ buf'[i] = buf[m]
  BY <1>1, <1>2
<1>5. All(buf', Len(kinds)) /\ Up(buf') /\ Below(buf', B) /\ Below(buf', C)
  <2>1. All(buf, Len(kinds)) /\ Up(buf) /\ Below(buf, B) /\ Below(buf, C)  BY <1>3 DEF Pipe
  <2>2. Len(buf') \in Nat  BY <1>1, <1>2
  <2>3. All(buf', Len(kinds))  BY <1>4, <2>1, <2>2 DEF All
  <2>4. Below(buf', B) /\ Below(buf', C)  BY <1>4, <2>1 DEF Below
  <2>5. Up(buf')
    <3> SUFFICES ASSUME NEW i \in 1 .. Len(buf'), NEW i2 \in 1 .. Len(buf'), i < i2
                 PROVE  buf'[i] < buf'[i2]
      BY DEF Up
    <3>1. PICK m \in 1 .. Len(buf) : m = i + 1 /\ buf'[i] = buf[m]  BY <1>4
    <3>2. PICK p \in 1 .. Len(buf) : p = i2 + 1 /\ buf'[i2] = buf[p]  BY <1>4
    <3>3. m < p  BY <3>1, <3>2
    <3>4. QED  BY <2>1, <3>1, <3>2, <3>3 DEF Up
  <2>6. QED  BY <2>3, <2>4, <2>5
<1>6. Pipe(buf', B, C, Len(kinds))  BY <1>3, <1>5 DEF Pipe
<1>7. ASSUME ~port.overran  PROVE Exact(buf', B, C, got - Len(buf'), Len(kinds))
  <2>1. /\ got - Len(buf) + Len(buf) + Len(B) + Len(C) = Len(kinds)
        /\ \A i \in 1 .. Len(buf) : buf[i] = got - Len(buf) + i
        /\ \A i \in 1 .. Len(B) : B[i] = got - Len(buf) + Len(buf) + i
        /\ \A i \in 1 .. Len(C) : C[i] = got - Len(buf) + Len(buf) + Len(B) + i
    BY <1>3, <1>7 DEF Exact, Counts
  <2>2. got \in Nat /\ Len(buf) \in Nat /\ Len(B) \in Nat /\ Len(C) \in Nat  BY InParts DEF B, C
  <2>3. /\ got - Len(buf') + Len(buf') = got /\ got - Len(buf) + Len(buf) = got
        /\ got - Len(buf') = got - Len(buf) + 1
    BY <1>2, <2>2
  <2>4. \A i \in 1 .. Len(buf') : buf'[i] = got - Len(buf') + i
    <3> SUFFICES ASSUME NEW i \in 1 .. Len(buf')  PROVE buf'[i] = got - Len(buf') + i
      OBVIOUS
    <3>1. PICK m \in 1 .. Len(buf) : m = i + 1 /\ buf'[i] = buf[m]  BY <1>4
    <3>2. buf[m] = got - Len(buf) + m  BY <2>1
    <3>3. QED  BY <2>2, <2>3, <3>1, <3>2
  <2>5. QED  BY <2>1, <2>3, <2>4 DEF Exact, Counts
<1>8. InInv'  BY <1>3, <1>6, <1>7 DEF InInv, B, C
<1>9. Len(buf') <= ReadLen
  <2>1. ReadLen \in Nat  BY SizesHold
  <2>2. QED  BY ONLY <1>1, <1>2, <2>1
<1>10. QED  BY ONLY <1>2, <1>8, <1>9
-----------------------------------------------------------------------------
(* The way out.                                                             *)
LEMMA OutParts ==
  ASSUME TypeOK
  PROVE  /\ tx \in RingType(TxRing, MaxOut) /\ s_tx \in RingType(TxSize, MaxOut)
         /\ Contents(tx, TxRing) \in Seq(0 .. MaxOut) /\ Len(Contents(tx, TxRing)) = Used(tx, TxRing)
         /\ Contents(s_tx, TxSize) \in Seq(0 .. MaxOut) /\ Len(Contents(s_tx, TxSize)) = Used(s_tx, TxSize)
         /\ Used(tx, TxRing) \in Nat /\ Used(s_tx, TxSize) \in Nat
         /\ port.received \in Seq(1 .. MaxOut) /\ port.received \in Seq(0 .. MaxOut)
         /\ Len(port.received) \in Nat
         /\ printed \in Nat /\ printed <= MaxOut /\ port.from \in Nat /\ port \in PortType
<1>1. /\ tx \in RingType(TxRing, MaxOut) /\ s_tx \in RingType(TxSize, MaxOut)
      /\ port \in PortType /\ printed \in 0 .. MaxOut
  BY DEF TypeOK, PortType
<1>2. port.received \in Seq(1 .. MaxOut) /\ port.from \in 0 .. MaxOut  BY <1>1 DEF PortType
<1>3. printed \in Nat /\ printed <= MaxOut /\ port.from \in Nat  BY <1>1, <1>2, SizesHold
<1>4. port.received \in Seq(0 .. MaxOut) /\ Len(port.received) \in Nat  BY <1>2, SizesHold, Widen
<1>5. TxRing \in Nat \ {0} /\ TxSize \in Nat \ {0} /\ MaxOut \in Nat  BY SizesHold
<1>6. /\ Contents(tx, TxRing) \in Seq(0 .. MaxOut) /\ Len(Contents(tx, TxRing)) = Used(tx, TxRing)
      /\ Contents(s_tx, TxSize) \in Seq(0 .. MaxOut) /\ Len(Contents(s_tx, TxSize)) = Used(s_tx, TxSize)
  BY <1>1, <1>5, ContentsIs
<1>7. Used(tx, TxRing) \in Nat /\ Used(s_tx, TxSize) \in Nat  BY <1>1, <1>5, UsedIs
<1>8. QED  BY <1>1, <1>2, <1>3, <1>4, <1>6, <1>7

LEMMA OutQuiet ==
  ASSUME OutInv, UNCHANGED <<tx, s_tx, printed, connected>>,
         port'.received = port.received, port'.from = port.from, port'.lagged = port.lagged
  PROVE  OutInv'
BY DEF OutInv

LEMMA OutTake ==
  ASSUME TypeOK, OutInv, Take
  PROVE  OutInv' /\ s_tx' \in RingType(TxSize, MaxOut) /\ port' \in PortType
<1> DEFINE A == port.received
           B == Contents(s_tx, TxSize)
           C == Contents(tx, TxRing)
           A2 == port'.received
           B2 == Contents(s_tx', TxSize)
<1>1. PICK n \in Bursts : /\ n <= Used(s_tx, TxSize)
                          /\ port' = [port EXCEPT !.received = @ \o Front(s_tx, n, TxSize)]
                          /\ s_tx' = Popped(s_tx, n, TxSize)
  BY DEF Take
<1>2. UNCHANGED <<tx, printed, connected>> /\ connected  BY DEF Take
<1>3. n \in Nat  BY SizesHold
<1> DEFINE f == Front(s_tx, n, TxSize)
           k == Least(n, Used(s_tx, TxSize))
<1>4. port \in PortType  BY OutParts
<1>5. /\ A2 = A \o f /\ port'.from = port.from /\ port'.lagged = port.lagged
      /\ port' = [port EXCEPT !.received = A2]
  BY <1>1, <1>4 DEF PortType
<1>6. /\ Moved(A, B, A2, B2, k, k) /\ f \in Seq(0 .. MaxOut) /\ k \in Nat /\ k <= Used(s_tx, TxSize)
      /\ s_tx' \in RingType(TxSize, MaxOut) /\ Used(s_tx', TxSize) = Used(s_tx, TxSize) - k
  <2>1. /\ TxSize \in Nat \ {0} /\ MaxOut \in Nat /\ s_tx \in RingType(TxSize, MaxOut)
        /\ A \in Seq(0 .. MaxOut)
    BY SizesHold, OutParts
  <2> HIDE DEF A
  <2>2. /\ Moved(A, Contents(s_tx, TxSize), A \o f, Contents(Popped(s_tx, n, TxSize), TxSize), k, k)
        /\ f \in Seq(0 .. MaxOut) /\ k \in Nat /\ k <= Used(s_tx, TxSize)
        /\ Popped(s_tx, n, TxSize) \in RingType(TxSize, MaxOut)
        /\ Used(Popped(s_tx, n, TxSize), TxSize) = Used(s_tx, TxSize) - k
    BY ONLY <1>3, <2>1, TakeMoves
  <2>3. QED  BY <1>1, <1>5, <2>2
<1>7. /\ Pipe(A, B, C, printed) /\ port.from <= printed
      /\ ~port.lagged => /\ Exact(A, B, C, port.from, printed)
                         /\ Used(tx, TxRing) + Used(s_tx, TxSize) <= TxSize - 1
  BY DEF OutInv
<1>8. Len(A) \in Nat /\ Len(B) \in Nat /\ Len(C) \in Nat  BY OutParts
<1>9. port.from \in Int /\ printed \in Int /\ printed \in Nat  BY OutParts
<1> HIDE DEF A, B, C, A2, B2, f, k
<1>10. Pipe(A2, B2, C, printed)  BY <1>6, <1>7, <1>9, PipeMoves
<1>11. ~port.lagged => Exact(A2, B2, C, port.from, printed)
  BY ONLY <1>6, <1>7, <1>8, <1>9, ExactMoves
<1>12. ~port.lagged => Used(tx, TxRing) + Used(s_tx', TxSize) <= TxSize - 1
  BY <1>6, <1>7, OutParts, SizesHold
<1>13. OutInv'  BY <1>2, <1>5, <1>7, <1>10, <1>11, <1>12 DEF OutInv, A2, B2, C
<1>14. port' \in PortType
  <2>1. \A i \in 1 .. Len(A2) : A2[i] \in 1 .. MaxOut  BY <1>10, OutParts, SizesHold DEF Pipe, All
  <2>2. A \in Seq(0 .. MaxOut)  BY OutParts DEF A
  <2>3. A2 \in Seq(0 .. MaxOut)  BY <1>5, <1>6, <2>2, ConcatProperties
  <2>4. A2 = [i \in 1 .. Len(A2) |-> A2[i]] /\ Len(A2) \in Nat  BY <2>3, LenProperties
  <2>5. A2 \in [1 .. Len(A2) -> 1 .. MaxOut]  BY <2>1, <2>4
  <2>6. \A l \in Nat : [1 .. l -> 1 .. MaxOut] \subseteq Seq(1 .. MaxOut)  BY SeqDef
  <2>7. A2 \in Seq(1 .. MaxOut)  BY ONLY <2>4, <2>5, <2>6
  <2>8. QED  BY <1>4, <1>5, <2>7 DEF PortType
<1>15. QED  BY <1>6, <1>13, <1>14

LEMMA OutPump ==
  ASSUME TypeOK, OutInv, PumpTx
  PROVE  OutInv' /\ tx' \in RingType(TxRing, MaxOut) /\ s_tx' \in RingType(TxSize, MaxOut)
<1> DEFINE A == port.received
           B == Contents(s_tx, TxSize)
           C == Contents(tx, TxRing)
           B2 == Contents(s_tx', TxSize)
           C2 == Contents(tx', TxRing)
           f == Front(tx, Chunk, TxRing)
           j == Least(Len(f), Free(s_tx, TxSize))
           k == Least(Chunk, Used(tx, TxRing))
<1>1. s_tx' = Pushed(s_tx, f, TxSize) /\ tx' = Popped(tx, Chunk, TxRing)
  BY DEF PumpTx
<1>2. UNCHANGED <<printed, connected, port>>  BY DEF PumpTx
<1>3. /\ Moved(B, C, B2, C2, j, k) /\ Len(f) = k /\ k \in Nat /\ k <= Used(tx, TxRing)
      /\ s_tx' \in RingType(TxSize, MaxOut) /\ tx' \in RingType(TxRing, MaxOut)
      /\ Used(s_tx', TxSize) = Used(s_tx, TxSize) + j /\ Used(tx', TxRing) = Used(tx, TxRing) - k
  <2>1. /\ TxSize \in Nat \ {0} /\ TxRing \in Nat \ {0} /\ MaxOut \in Nat /\ Chunk \in Nat
        /\ s_tx \in RingType(TxSize, MaxOut) /\ tx \in RingType(TxRing, MaxOut)
    BY SizesHold, OutParts
  <2>2. /\ Moved(Contents(s_tx, TxSize), Contents(tx, TxRing), Contents(Pushed(s_tx, f, TxSize), TxSize),
                 Contents(Popped(tx, Chunk, TxRing), TxRing), j, k)
        /\ Len(f) = k /\ k \in Nat /\ k <= Used(tx, TxRing)
        /\ Pushed(s_tx, f, TxSize) \in RingType(TxSize, MaxOut)
        /\ Popped(tx, Chunk, TxRing) \in RingType(TxRing, MaxOut)
        /\ Used(Pushed(s_tx, f, TxSize), TxSize) = Used(s_tx, TxSize) + j
        /\ Used(Popped(tx, Chunk, TxRing), TxRing) = Used(tx, TxRing) - k
    BY ONLY <2>1, PumpMoves
  <2>3. QED  BY <1>1, <2>2
<1>4. /\ Pipe(A, B, C, printed) /\ port.from <= printed
      /\ ~connected => port.received = <<>> /\ port.lagged
      /\ ~port.lagged => /\ Exact(A, B, C, port.from, printed)
                         /\ Used(tx, TxRing) + Used(s_tx, TxSize) <= TxSize - 1
  BY DEF OutInv
<1>5. Free(s_tx, TxSize) = TxSize - 1 - Used(s_tx, TxSize) /\ Free(s_tx, TxSize) \in Nat
  BY OutParts, SizesHold, UsedIs
<1>6. j \in Nat /\ j <= k /\ (k <= Free(s_tx, TxSize) => j = k)  BY <1>3, <1>5 DEF Least
<1>7. Len(A) \in Nat /\ Len(B) \in Nat /\ Len(C) \in Nat  BY OutParts
<1>8. port.from \in Int /\ printed \in Int /\ printed \in Nat  BY OutParts
<1>9. /\ Used(tx, TxRing) \in Nat /\ Used(s_tx, TxSize) \in Nat /\ TxSize \in Nat
  BY OutParts, SizesHold
<1>10. connected  BY DEF PumpTx
<1> HIDE DEF A, B, C, B2, C2, f, j, k
<1>11. Pipe(A, B2, C2, printed)  BY <1>3, <1>4, <1>8, PipeMoves
<1>12. ASSUME ~port.lagged
       PROVE  /\ Exact(A, B2, C2, port.from, printed)
              /\ Used(tx', TxRing) + Used(s_tx', TxSize) <= TxSize - 1
  <2>1. /\ Used(tx, TxRing) + Used(s_tx, TxSize) <= TxSize - 1 /\ Exact(A, B, C, port.from, printed)
    BY <1>4, <1>12
  <2>2. j = k  BY ONLY <1>3, <1>5, <1>6, <1>9, <2>1
  <2>3. Moved(B, C, B2, C2, k, k)  BY <1>3, <2>2
  <2>4. Exact(A, B2, C2, port.from, printed)  BY ONLY <1>7, <1>8, <2>1, <2>3, ExactMoves
  <2>5. Used(tx', TxRing) + Used(s_tx', TxSize) <= TxSize - 1  BY ONLY <1>3, <1>6, <1>9, <2>1
  <2>6. QED  BY <2>4, <2>5
<1>13. OutInv'
  <2>1. /\ Pipe(A, B2, C2, printed) /\ port.from <= printed
        /\ ~port.lagged => /\ Exact(A, B2, C2, port.from, printed)
                           /\ Used(tx', TxRing) + Used(s_tx', TxSize) <= TxSize - 1
    BY <1>4, <1>11, <1>12
  <2>2. QED  BY <1>2, <1>10, <2>1 DEF OutInv, A, B2, C2
<1>14. QED  BY <1>3, <1>13

LEMMA OutWrite ==
  ASSUME TypeOK, OutInv, Write
  PROVE  /\ OutInv' /\ tx' \in RingType(TxRing, MaxOut) /\ port' \in PortType
         /\ printed' \in 0 .. MaxOut
<1> DEFINE A == port.received
           B == Contents(s_tx, TxSize)
           C == Contents(tx, TxRing)
           C2 == Contents(tx', TxRing)
<1>1. PICK n \in Bursts :
        /\ printed + n <= MaxOut
        /\ tx' = Pushed(tx, Numbers(printed + 1, printed + n), TxRing)
        /\ printed' = printed + n
        /\ port' = [port EXCEPT !.lagged = @ \/ Used(tx, TxRing) + Used(s_tx, TxSize) + n > TxSize - 1]
  BY DEF Write
<1>2. UNCHANGED <<s_tx, connected>> /\ connected  BY DEF Write
<1>3. n \in Nat  BY SizesHold
<1> DEFINE k == Least(n, Free(tx, TxRing))
<1>4. port \in PortType  BY OutParts
<1>5. /\ port'.received = A /\ port'.from = port.from
      /\ port.lagged => port'.lagged
      /\ Used(tx, TxRing) + Used(s_tx, TxSize) + n > TxSize - 1 => port'.lagged
      /\ port'.lagged \in BOOLEAN
  BY <1>1, <1>4 DEF PortType
<1>6. /\ Grown(C, C2, printed, k)
      /\ tx' \in RingType(TxRing, MaxOut) /\ Used(tx', TxRing) = Used(tx, TxRing) + k
      /\ k \in Nat /\ k <= n /\ (n <= Free(tx, TxRing) => k = n)
  <2>1. TxRing \in Nat \ {0} /\ MaxOut \in Nat  BY SizesHold
  <2>2. tx \in RingType(TxRing, MaxOut) /\ printed \in Nat  BY OutParts
  <2>3. printed + n <= MaxOut /\ tx' = Pushed(tx, Numbers(printed + 1, printed + n), TxRing)  BY <1>1
  <2> DEFINE s == Numbers(printed + 1, printed + n)
  <2>4. s = Numbers(printed + 1, printed + n)  OBVIOUS
  <2> HIDE DEF s
  <2>5. tx' = Pushed(tx, s, TxRing)  BY <2>3, <2>4
  <2>6. printed + n <= MaxOut  BY <2>3
  <2>7. Grown(Contents(tx, TxRing), Contents(Pushed(tx, s, TxRing), TxRing), printed, k)
    BY ONLY <1>3, <2>1, <2>2, <2>4, <2>6, StoreGrows
  <2>8. Pushed(tx, s, TxRing) \in RingType(TxRing, MaxOut)
    BY ONLY <1>3, <2>1, <2>2, <2>4, <2>6, StoreGrows
  <2>9. Used(Pushed(tx, s, TxRing), TxRing) = Used(tx, TxRing) + k
    BY ONLY <2>1, <2>2, <2>7, <2>8, ContentsIs DEF Grown
  <2>10. k \in Nat /\ k <= n /\ (n <= Free(tx, TxRing) => k = n)
    BY ONLY <1>3, <2>1, <2>2, <2>4, <2>6, StoreGrows
  <2>11. QED  BY <2>5, <2>7, <2>8, <2>9, <2>10
<1>7. /\ Pipe(A, B, C, printed) /\ port.from <= printed
      /\ ~port.lagged => Exact(A, B, C, port.from, printed)
  BY DEF OutInv
<1>8. Len(A) \in Nat /\ Len(B) \in Nat /\ Len(C) \in Nat  BY OutParts
<1>9. port.from \in Nat /\ port.from \in Int /\ printed \in Int /\ printed \in Nat  BY OutParts
<1>10. /\ Used(tx, TxRing) \in Nat /\ Used(s_tx, TxSize) \in Nat /\ TxSize \in Nat /\ TxRing \in Nat
       /\ TxSize <= TxRing /\ Free(tx, TxRing) = TxRing - 1 - Used(tx, TxRing)
  BY OutParts, SizesHold DEF Free
<1>11. printed' = printed + n /\ printed' \in 0 .. MaxOut  BY <1>1, <1>3, <1>9, SizesHold
<1>12. port' \in PortType
  <2>1. port'.lagged \in BOOLEAN /\ port' = [port EXCEPT !.lagged = port'.lagged]
    BY ONLY <1>1, <1>4, <1>5 DEF PortType
  <2>2. QED  BY <1>4, <2>1 DEF PortType
<1> HIDE DEF A, B, C, C2, k
<1>13. Pipe(A, B, C2, printed + n)  BY <1>3, <1>6, <1>7, <1>9, PipeGrows
<1>14. ASSUME ~port'.lagged
       PROVE  /\ Exact(A, B, C2, port.from, printed + n)
              /\ Used(tx', TxRing) + Used(s_tx, TxSize) <= TxSize - 1
  <2>1. ~port.lagged /\ Used(tx, TxRing) + Used(s_tx, TxSize) + n <= TxSize - 1
    BY <1>3, <1>5, <1>10, <1>14
  <2>2. k = n  BY ONLY <1>3, <1>6, <1>10, <2>1
  <2>3. Grown(C, C2, printed, n) /\ Exact(A, B, C, port.from, printed)  BY <1>6, <1>7, <2>1, <2>2
  <2>4. Exact(A, B, C2, port.from, printed + n)
    BY ONLY <1>3, <1>8, <1>9, <2>3, ExactGrows
  <2>5. Used(tx', TxRing) + Used(s_tx, TxSize) <= TxSize - 1  BY ONLY <1>3, <1>6, <1>10, <2>1, <2>2
  <2>6. QED  BY <2>4, <2>5
<1>15. OutInv'
  <2>1. port.from <= printed + n  BY <1>3, <1>7, <1>9
  <2>2. QED  BY <1>2, <1>5, <1>11, <1>13, <1>14, <2>1 DEF OutInv, A, B, C2
<1>16. QED  BY <1>6, <1>11, <1>12, <1>15

LEMMA OutOpen ==
  ASSUME TypeOK, OutInv, OpenPort
  PROVE  OutInv' /\ port' \in PortType
<1> DEFINE A == port.received
           B == Contents(s_tx, TxSize)
           C == Contents(tx, TxRing)
<1>1. /\ port' = [port EXCEPT !.sessions = @ + 1, !.from = printed,
                    !.lagged = Used(tx, TxRing) + Used(s_tx, TxSize) > 0]
      /\ UNCHANGED <<tx, s_tx, printed>> /\ connected' = TRUE /\ ~connected
      /\ port.sessions < MaxSessions
  BY DEF OpenPort, outVars
<1>2. port \in PortType /\ printed \in Nat /\ printed <= MaxOut  BY OutParts
<1>3. /\ port'.received = A /\ port'.from = printed
      /\ Used(tx, TxRing) + Used(s_tx, TxSize) > 0 => port'.lagged
      /\ port'.sessions = port.sessions + 1 /\ port'.overran = port.overran
  BY <1>1, <1>2 DEF PortType
<1>4. A = <<>> /\ Pipe(A, B, C, printed)  BY <1>1 DEF OutInv
<1>5. Len(A) = 0  BY ONLY <1>4
<1>6. /\ Used(tx, TxRing) \in Nat /\ Used(s_tx, TxSize) \in Nat /\ TxSize \in Nat \ {0}
      /\ Len(B) = Used(s_tx, TxSize) /\ Len(C) = Used(tx, TxRing)
  BY OutParts, SizesHold
<1>7. ASSUME ~port'.lagged
      PROVE  /\ Exact(A, B, C, printed, printed)
             /\ Used(tx, TxRing) + Used(s_tx, TxSize) <= TxSize - 1
  <2>1. Used(tx, TxRing) = 0 /\ Used(s_tx, TxSize) = 0  BY <1>3, <1>6, <1>7
  <2>2. QED  BY <1>2, <1>5, <1>6, <2>1, EmptyPipe
<1>8. OutInv'
  <2>1. printed <= printed /\ Pipe(A, B, C, printed)  BY <1>2, <1>4
  <2>2. QED  BY ONLY <1>1, <1>3, <1>7, <2>1 DEF OutInv
<1>9. port' \in PortType
  <2>1. /\ port' = [port EXCEPT !.sessions = port'.sessions, !.from = port'.from, !.lagged = port'.lagged]
        /\ port'.lagged \in BOOLEAN
    BY <1>1, <1>2 DEF PortType
  <2>2. port'.sessions \in 0 .. MaxSessions
    <3>1. port.sessions \in 0 .. MaxSessions  BY <1>2 DEF PortType
    <3>2. QED  BY <1>1, <1>3, <3>1, SizesHold
  <2>3. port'.from \in 0 .. MaxOut  BY <1>2, <1>3, SizesHold
  <2>4. QED  BY <1>2, <2>1, <2>2, <2>3 DEF PortType
<1>10. QED  BY <1>8, <1>9

LEMMA OutClose ==
  ASSUME TypeOK, OutInv, ClosePort
  PROVE  OutInv' /\ port' \in PortType /\ tx' \in RingType(TxRing, MaxOut)
<1> DEFINE B == Contents(s_tx, TxSize)
           C2 == Contents(tx', TxRing)
<1>1. /\ port' = [port EXCEPT !.lagged = TRUE, !.received = <<>>, !.closed = TRUE]
      /\ tx' = [tx EXCEPT !.head = tx.tail]
      /\ UNCHANGED <<s_tx, printed>> /\ connected' = FALSE
  BY DEF ClosePort
<1>2. port \in PortType /\ printed \in Nat  BY OutParts
<1>3. /\ port'.received = <<>> /\ port'.from = port.from /\ port'.lagged
  BY <1>1, <1>2 DEF PortType
<1>4. tx' \in RingType(TxRing, MaxOut) /\ Used(tx', TxRing) = 0
  <2>1. TxRing \in Nat \ {0} /\ MaxOut \in Nat /\ tx \in RingType(TxRing, MaxOut)
    BY SizesHold, OutParts
  <2>2. QED  BY ONLY <1>1, <2>1, EmptyIs
<1>5. Len(C2) = 0
  <2>1. TxRing \in Nat \ {0} /\ MaxOut \in Nat  BY SizesHold
  <2>2. QED  BY ONLY <1>4, <2>1, ContentsIs
<1>6. Len(port'.received) = 0
  <2>1. port'.received = <<>>  BY <1>3
  <2>2. QED  BY ONLY <2>1
<1>7. Pipe(port'.received, B, C2, printed)
  <2>1. All(B, printed) /\ Up(B)  BY DEF OutInv, Pipe
  <2> HIDE DEF B, C2
  <2>2. \A i \in 1 .. 0 : FALSE  OBVIOUS
  <2>3. QED  BY ONLY <1>5, <1>6, <2>1, <2>2 DEF Pipe, All, Up, Below
<1>8. OutInv'
  <2>1. port.from <= printed  BY DEF OutInv
  <2>2. QED  BY ONLY <1>1, <1>3, <1>7, <2>1 DEF OutInv
<1>9. port' \in PortType
  <2>1. <<>> \in Seq(1 .. MaxOut)  BY EmptySeq
  <2>2. QED  BY <1>1, <1>2, <2>1 DEF PortType
<1>10. QED  BY <1>4, <1>8, <1>9

LEMMA OutReset ==
  ASSUME TypeOK, OutInv, BusReset
  PROVE  OutInv' /\ port' \in PortType
<1> DEFINE B == Contents(s_tx, TxSize)
           C == Contents(tx, TxRing)
<1>1. /\ port' = [port EXCEPT !.lagged = TRUE, !.received = <<>>, !.closed = FALSE]
      /\ UNCHANGED <<tx, s_tx, printed>> /\ connected' = FALSE
  BY DEF BusReset, outVars
<1>2. port \in PortType /\ printed \in Nat  BY OutParts
<1>3. /\ port'.received = <<>> /\ port'.from = port.from /\ port'.lagged
  BY <1>1, <1>2 DEF PortType
<1>4. Len(port'.received) = 0
  <2>1. port'.received = <<>>  BY <1>3
  <2>2. QED  BY ONLY <2>1
<1>5. Pipe(port'.received, B, C, printed)
  <2>1. All(B, printed) /\ All(C, printed) /\ Up(B) /\ Up(C) /\ Below(B, C)  BY DEF OutInv, Pipe
  <2> HIDE DEF B, C
  <2>2. \A i \in 1 .. 0 : FALSE  OBVIOUS
  <2>3. QED  BY ONLY <1>4, <2>1, <2>2 DEF Pipe, All, Up, Below
<1>6. OutInv'
  <2>1. port.from <= printed  BY DEF OutInv
  <2>2. QED  BY ONLY <1>1, <1>3, <1>5, <2>1 DEF OutInv
<1>7. port' \in PortType
  <2>1. <<>> \in Seq(1 .. MaxOut)  BY EmptySeq
  <2>2. QED  BY <1>1, <1>2, <2>1 DEF PortType
<1>8. QED  BY <1>6, <1>7

(* usb_serial_init empties all four.                                        *)
LEMMA StartEmpties ==
  ASSUME TypeOK, StartInv, InInv, OutInv, StartUsb
  PROVE  /\ InInv' /\ OutInv'
         /\ rx' \in RingType(RxRing, MaxIn) /\ s_rx' \in RingType(RxSize, MaxIn)
         /\ tx' \in RingType(TxRing, MaxOut) /\ s_tx' \in RingType(TxSize, MaxOut)
<1>1. /\ rx' = [rx EXCEPT !.head = 0, !.tail = 0] /\ tx' = [tx EXCEPT !.head = 0, !.tail = 0]
      /\ s_rx' = Empty(RxSize) /\ s_tx' = Empty(TxSize)
      /\ UNCHANGED <<kinds, got, printed, buf, port>> /\ pc = "start" /\ pc' = "main"
      /\ connected' = FALSE
  BY DEF StartUsb, Go, conVars
<1>2. /\ rx' \in RingType(RxRing, MaxIn) /\ Used(rx', RxRing) = 0
      /\ s_rx' \in RingType(RxSize, MaxIn) /\ Used(s_rx', RxSize) = 0
      /\ tx' \in RingType(TxRing, MaxOut) /\ Used(tx', TxRing) = 0
      /\ s_tx' \in RingType(TxSize, MaxOut) /\ Used(s_tx', TxSize) = 0
  <2>1. rx \in RingType(RxRing, MaxIn) /\ tx \in RingType(TxRing, MaxOut)  BY InParts, OutParts
  <2>2. /\ RxRing \in Nat \ {0} /\ RxSize \in Nat \ {0} /\ TxRing \in Nat \ {0} /\ TxSize \in Nat \ {0}
        /\ MaxIn \in Nat /\ MaxOut \in Nat
    BY SizesHold
  <2>3. QED  BY ONLY <1>1, <2>1, <2>2, EmptyIs
<1>3. /\ Len(Contents(rx', RxRing)) = 0 /\ Len(Contents(s_rx', RxSize)) = 0
      /\ Len(Contents(tx', TxRing)) = 0 /\ Len(Contents(s_tx', TxSize)) = 0
  <2>1. /\ RxRing \in Nat \ {0} /\ RxSize \in Nat \ {0} /\ TxRing \in Nat \ {0} /\ TxSize \in Nat \ {0}
        /\ MaxIn \in Nat /\ MaxOut \in Nat
    BY SizesHold
  <2>2. QED  BY ONLY <1>2, <2>1, ContentsIs
<1>4. buf = <<>> /\ kinds = <<>> /\ ~connected /\ port.received = <<>>  BY <1>1 DEF StartInv, OutInv
<1>5. Len(buf) = 0 /\ Len(kinds) = 0 /\ Len(port.received) = 0  BY ONLY <1>4
<1>6. got = 0 /\ printed = 0 /\ ~connected /\ port.lagged /\ port.from <= printed
  BY <1>1, <1>4 DEF StartInv, OutInv
<1>7. /\ Pipe(buf, Contents(rx', RxRing), Contents(s_rx', RxSize), 0)
      /\ Exact(buf, Contents(rx', RxRing), Contents(s_rx', RxSize), 0, 0)
      /\ Pipe(port.received, Contents(s_tx', TxSize), Contents(tx', TxRing), 0)
  BY ONLY <1>3, <1>5, EmptyPipe
<1>8. InInv'
  <2>1. got - Len(buf) = 0 /\ 0 + 0 + 0 <= 0 /\ 0 + 0 <= RxRing - 1
    <3>1. RxRing \in Nat \ {0}  BY SizesHold
    <3>2. got = 0  BY <1>6
    <3>3. QED  BY ONLY <1>5, <3>1, <3>2
  <2>2. /\ Len(kinds') = 0 /\ kinds' = kinds /\ got' = got /\ buf' = buf /\ port' = port
        /\ buf' = <<>> /\ got = 0
    BY <1>1, <1>4, <1>5, <1>6
  <2>3. QED  BY ONLY <1>2, <1>7, <2>1, <2>2 DEF InInv
<1>9. OutInv'
  <2>1. port' = port /\ printed' = printed /\ printed = 0 /\ port.received = <<>> /\ port.lagged
        /\ port.from <= printed
    BY <1>1, <1>4, <1>6
  <2>2. QED  BY ONLY <1>7, <2>1 DEF OutInv
<1>10. QED  BY <1>2, <1>8, <1>9
-----------------------------------------------------------------------------
(* The steps.                                                               *)
LEMMA QuietStep ==
  ASSUME UsbInv, UNCHANGED <<inVars, outVars, conVars, connected, setup, port>>,
         pc' \in Pcs, usb_state' \in {"OFF", "READY", "ACTIVE"}, pc' # "line" => buf = <<>>
  PROVE  TypeOK' /\ InInv' /\ OutInv'
<1>1. /\ UNCHANGED <<rx, s_rx, kinds, got, tx, s_tx, printed, buf, line, ran, connected, setup, port>>
      /\ TypeOK /\ InInv /\ OutInv
  BY DEF UsbInv, inVars, outVars, conVars
<1>2. TypeOK'  BY <1>1 DEF TypeOK
<1>3. InInv'  BY <1>1, InQuiet
<1>4. OutInv'  BY <1>1, OutQuiet
<1>5. QED  BY <1>2, <1>3, <1>4

LEMMA HostStep == ASSUME UsbInv, Host PROVE UsbInv'
<1>1. pc = "task" /\ UNCHANGED <<pc, setup>>
  BY DEF Host, Feed, Take, OpenPort, ClosePort, BusReset
<1>2. TypeOK /\ InInv /\ OutInv  BY DEF UsbInv
<1>3. StartInv'  BY <1>1, <1>2 DEF StartInv
<1>4. port \in PortType /\ MaxIn \in Nat  BY <1>2, OutParts, SizesHold
<1>5. CASE Feed
  <2>1. InInv' /\ s_rx' \in RingType(RxSize, MaxIn) /\ kinds' \in Seq(Kinds) /\ Len(kinds') <= MaxIn
    BY <1>2, <1>5, InFeed
  <2>2. UNCHANGED <<rx, got, tx, s_tx, printed, buf, line, ran, connected, usb_state, setup, pc>>
    BY <1>5 DEF Feed, outVars, conVars
  <2>3. /\ port' \in PortType /\ port'.received = port.received /\ port'.from = port.from
        /\ port'.lagged = port.lagged
    BY <1>4, <1>5 DEF Feed, PortType
  <2>4. OutInv'  BY <1>2, <2>2, <2>3, OutQuiet
  <2>5. TypeOK'  BY <1>2, <2>1, <2>2, <2>3 DEF TypeOK, PortType
  <2>6. QED  BY <1>3, <2>1, <2>4, <2>5 DEF UsbInv
<1>6. CASE Take
  <2>1. OutInv' /\ s_tx' \in RingType(TxSize, MaxOut) /\ port' \in PortType
    BY <1>2, <1>6, OutTake
  <2>2. UNCHANGED <<rx, s_rx, kinds, got, tx, printed, buf, line, ran, connected, usb_state, setup, pc>>
    BY <1>6 DEF Take, inVars, conVars
  <2>3. port'.overran = port.overran  BY <1>4, <1>6 DEF Take, PortType
  <2>4. InInv'  BY <1>2, <2>2, <2>3, InQuiet DEF InInv
  <2>5. TypeOK'  BY <1>2, <2>1, <2>2 DEF TypeOK, PortType
  <2>6. QED  BY <1>3, <2>1, <2>4, <2>5 DEF UsbInv
<1>7. CASE OpenPort
  <2>1. OutInv' /\ port' \in PortType  BY <1>2, <1>7, OutOpen
  <2>2. /\ UNCHANGED <<rx, s_rx, kinds, got, tx, s_tx, printed, buf, line, ran, setup, pc>>
        /\ connected' = TRUE /\ usb_state' = "ACTIVE"
    BY <1>7 DEF OpenPort, inVars, outVars, conVars
  <2>3. port'.overran = port.overran  BY <1>4, <1>7 DEF OpenPort, PortType
  <2>4. InInv'  BY <1>2, <2>2, <2>3, InQuiet DEF InInv
  <2>5. TypeOK'  BY <1>2, <2>1, <2>2 DEF TypeOK, PortType
  <2>6. QED  BY <1>3, <2>1, <2>4, <2>5 DEF UsbInv
<1>8. CASE ClosePort
  <2>1. OutInv' /\ port' \in PortType /\ tx' \in RingType(TxRing, MaxOut)
    BY <1>2, <1>8, OutClose
  <2>2. /\ UNCHANGED <<rx, s_rx, kinds, got, s_tx, printed, buf, line, ran, setup, pc>>
        /\ connected' = FALSE /\ usb_state' = "READY"
    BY <1>8 DEF ClosePort, inVars, conVars
  <2>3. port'.overran = port.overran  BY <1>4, <1>8 DEF ClosePort, PortType
  <2>4. InInv'  BY <1>2, <2>2, <2>3, InQuiet DEF InInv
  <2>5. TypeOK'  BY <1>2, <2>1, <2>2 DEF TypeOK, PortType
  <2>6. QED  BY <1>3, <2>1, <2>4, <2>5 DEF UsbInv
<1>9. CASE BusReset
  <2>1. OutInv' /\ port' \in PortType  BY <1>2, <1>9, OutReset
  <2>2. /\ UNCHANGED <<rx, s_rx, kinds, got, tx, s_tx, printed, buf, line, ran, setup, pc>>
        /\ connected' = FALSE /\ usb_state' = "READY"
    BY <1>9 DEF BusReset, inVars, outVars, conVars
  <2>3. port'.overran = port.overran  BY <1>4, <1>9 DEF BusReset, PortType
  <2>4. InInv'  BY <1>2, <2>2, <2>3, InQuiet DEF InInv
  <2>5. TypeOK'  BY <1>2, <2>1, <2>2 DEF TypeOK, PortType
  <2>6. QED  BY <1>3, <2>1, <2>4, <2>5 DEF UsbInv
<1>10. QED  BY <1>5, <1>6, <1>7, <1>8, <1>9 DEF Host

LEMMA StartStep == ASSUME UsbInv, StartUsb \/ SkipUsb PROVE UsbInv'
<1>1. TypeOK /\ StartInv /\ InInv /\ OutInv  BY DEF UsbInv
<1>2. CASE StartUsb
  <2>1. /\ InInv' /\ OutInv'
        /\ rx' \in RingType(RxRing, MaxIn) /\ s_rx' \in RingType(RxSize, MaxIn)
        /\ tx' \in RingType(TxRing, MaxOut) /\ s_tx' \in RingType(TxSize, MaxOut)
    BY <1>1, <1>2, StartEmpties
  <2>2. /\ UNCHANGED <<kinds, got, printed, buf, line, ran, port>>
        /\ connected' = FALSE /\ usb_state' = "READY" /\ pc' = "main"
        /\ setup' = [setup EXCEPT !.inited = TRUE]
    BY <1>2 DEF StartUsb, Go, conVars
  <2>3. setup' \in [enabled : BOOLEAN, inited : BOOLEAN] /\ setup'.inited
    BY <1>1, <2>2 DEF TypeOK
  <2>4. TypeOK'  BY <1>1, <2>1, <2>2, <2>3 DEF TypeOK, Pcs
  <2>5. StartInv'  BY <2>2, <2>3 DEF StartInv
  <2>6. QED  BY <2>1, <2>4, <2>5 DEF UsbInv
<1>3. CASE SkipUsb
  <2>1. /\ UNCHANGED <<inVars, outVars, conVars, connected, usb_state, setup, port>>
        /\ pc = "start" /\ pc' = "main" /\ usb_state # "OFF"
    BY <1>3 DEF SkipUsb, Go
  <2>2. pc' \in Pcs /\ usb_state' \in {"OFF", "READY", "ACTIVE"}  BY <1>1, <2>1 DEF TypeOK, Pcs
  <2>3. buf = <<>>  BY <1>1, <2>1 DEF StartInv
  <2>4. TypeOK' /\ InInv' /\ OutInv'  BY <2>1, <2>2, <2>3, QuietStep
  <2>5. usb_state' \in {"READY", "ACTIVE"}  BY <2>1, <2>2
  <2>6. StartInv'
    BY <1>1, <2>1, <2>5 DEF StartInv, inVars, outVars, conVars
  <2>7. QED  BY <2>4, <2>6 DEF UsbInv
<1>4. QED  BY <1>2, <1>3

LEMMA PollStep ==
  ASSUME UsbInv, PollNothing \/ Poll \/ TaskDone \/ PumpRx \/ PumpRxDone \/ PumpTx \/ PumpTxDone \/ Publish
  PROVE  UsbInv'
<1>1. TypeOK /\ StartInv /\ InInv /\ OutInv  BY DEF UsbInv
<1>2. CASE PollNothing \/ Poll \/ TaskDone \/ PumpRxDone \/ PumpTxDone \/ Publish
  <2>1. /\ UNCHANGED <<inVars, outVars, conVars, connected, setup, port>>
        /\ pc \in {"main", "task", "pump_rx", "pump_tx", "publish"}
        /\ pc' \in {"read", "task", "pump_rx", "pump_tx", "publish"}
        /\ usb_state' = usb_state \/ (pc = "publish" /\ usb_state' \in {"READY", "ACTIVE"})
        /\ setup.inited \/ (pc' = "read" /\ usb_state' = usb_state) \/ pc # "main"
    BY <1>2 DEF PollNothing, Poll, TaskDone, PumpRxDone, PumpTxDone, Publish, Go
  <2>2. pc' \in Pcs /\ usb_state' \in {"OFF", "READY", "ACTIVE"}  BY <1>1, <2>1 DEF TypeOK, Pcs
  <2>3. buf = <<>>  BY <1>1, <2>1 DEF InInv
  <2>4. TypeOK' /\ InInv' /\ OutInv'  BY <2>1, <2>2, <2>3, QuietStep
  <2>5. StartInv'
    BY <1>1, <2>1 DEF StartInv, inVars, outVars, conVars
  <2>6. QED  BY <2>4, <2>5 DEF UsbInv
<1>3. CASE PumpRx
  <2>1. InInv' /\ rx' \in RingType(RxRing, MaxIn) /\ s_rx' \in RingType(RxSize, MaxIn)
    BY <1>1, <1>3, InPump
  <2>2. /\ UNCHANGED <<kinds, got, tx, s_tx, printed, buf, line, ran, connected, usb_state, setup, pc, port>>
        /\ pc = "pump_rx"
    BY <1>3 DEF PumpRx, outVars, conVars
  <2>3. OutInv'  BY <1>1, <2>2, OutQuiet
  <2>4. TypeOK'  BY <1>1, <2>1, <2>2 DEF TypeOK
  <2>5. StartInv'  BY <1>1, <2>2 DEF StartInv
  <2>6. QED  BY <2>1, <2>3, <2>4, <2>5 DEF UsbInv
<1>4. CASE PumpTx
  <2>1. OutInv' /\ tx' \in RingType(TxRing, MaxOut) /\ s_tx' \in RingType(TxSize, MaxOut)
    BY <1>1, <1>4, OutPump
  <2>2. /\ UNCHANGED <<rx, s_rx, kinds, got, printed, buf, line, ran, connected, usb_state, setup, port>>
        /\ pc = "pump_tx" /\ pc' \in {"publish", pc}
    BY <1>4 DEF PumpTx, inVars, conVars
  <2>3. buf = <<>>  BY <1>1, <2>2 DEF InInv
  <2>4. InInv'  BY <1>1, <2>2, <2>3, InQuiet
  <2>5. TypeOK'  BY <1>1, <2>1, <2>2 DEF TypeOK, Pcs
  <2>6. StartInv'  BY <1>1, <2>2 DEF StartInv
  <2>7. QED  BY <2>1, <2>4, <2>5, <2>6 DEF UsbInv
<1>5. QED  BY <1>2, <1>3, <1>4

LEMMA ConsoleStep ==
  ASSUME UsbInv, Write \/ Read \/ LineChar \/ LineReturn \/ LineRun \/ LineDone
  PROVE  UsbInv'
<1>1. TypeOK /\ StartInv /\ InInv /\ OutInv  BY DEF UsbInv
<1>2. CASE Write
  <2>1. /\ OutInv' /\ tx' \in RingType(TxRing, MaxOut) /\ port' \in PortType
        /\ printed' \in 0 .. MaxOut
    BY <1>1, <1>2, OutWrite
  <2>2. /\ UNCHANGED <<rx, s_rx, kinds, got, s_tx, buf, line, ran, connected, usb_state, setup, pc>>
        /\ pc = "main" /\ connected
    BY <1>2 DEF Write, inVars, conVars
  <2>3. port'.overran = port.overran
    <3>1. port \in PortType  BY <1>1, OutParts
    <3>2. QED  BY <1>2, <3>1 DEF Write, PortType
  <2>4. InInv'  BY <1>1, <2>2, <2>3, InQuiet DEF InInv
  <2>5. TypeOK'  BY <1>1, <2>1, <2>2 DEF TypeOK, PortType
  <2>6. StartInv'  BY <1>1, <2>2 DEF StartInv
  <2>7. QED  BY <2>1, <2>4, <2>5, <2>6 DEF UsbInv
<1>3. CASE Read
  <2>1. /\ InInv' /\ rx' \in RingType(RxRing, MaxIn) /\ got' \in Nat /\ got' <= MaxIn
        /\ buf' \in Seq(1 .. MaxIn) /\ Len(buf') <= ReadLen
        /\ Used(rx, RxRing) = 0 => got' = got /\ Used(rx', RxRing) = 0
    BY <1>1, <1>3, InRead
  <2>2. /\ UNCHANGED <<s_rx, kinds, tx, s_tx, printed, line, ran, connected, usb_state, setup, port>>
        /\ pc = "read" /\ pc' = "line"
    BY <1>3 DEF Read, Go, outVars
  <2>3. OutInv'  BY <1>1, <2>2, OutQuiet
  <2>4. got' \in 0 .. MaxIn  BY <2>1, SizesHold
  <2>5. TypeOK'  BY <1>1, <2>1, <2>2, <2>4 DEF TypeOK, Pcs
  <2>6. StartInv'  BY <1>1, <2>1, <2>2 DEF StartInv
  <2>7. QED  BY <2>1, <2>3, <2>5, <2>6 DEF UsbInv
<1>4. CASE LineChar \/ LineReturn \/ LineRun
  <2>1. /\ UNCHANGED <<rx, s_rx, kinds, got, tx, s_tx, printed, connected, usb_state, setup, pc, port>>
        /\ pc = "line" /\ buf # <<>> /\ buf' = Tail(buf)
    BY <1>4 DEF LineChar, LineReturn, LineRun, inVars, outVars
  <2>2. InInv' /\ buf' \in Seq(1 .. MaxIn) /\ Len(buf') <= ReadLen /\ Head(buf) \in 1 .. MaxIn
    BY <1>1, <2>1, InLine
  <2>3. /\ line \in Seq(1 .. MaxIn) /\ Len(line) < LineSize
        /\ ran \in [bytes : Seq(1 .. MaxIn), end : 0 .. MaxIn]
    BY <1>1 DEF TypeOK
  <2>4. line' \in Seq(1 .. MaxIn) /\ Len(line') < LineSize
    <3>1. \/ line' = line
          \/ line' = <<>>
          \/ line' = Append(line, Head(buf)) /\ Len(line) + 1 < LineSize
      BY <1>4 DEF LineChar, LineReturn, LineRun
    <3>2. <<>> \in Seq(1 .. MaxIn) /\ Len(<<>>) < LineSize  BY EmptySeq, SizesHold
    <3>3. Append(line, Head(buf)) \in Seq(1 .. MaxIn) /\ Len(Append(line, Head(buf))) = Len(line) + 1
      BY ONLY <2>2, <2>3, AppendProperties
    <3>4. QED  BY <2>3, <3>1, <3>2, <3>3
  <2>5. ran' \in [bytes : Seq(1 .. MaxIn), end : 0 .. MaxIn]
    <3>1. ran' = ran \/ ran' = [bytes |-> line, end |-> Head(buf)]
      BY <1>4 DEF LineChar, LineReturn, LineRun
    <3>2. Head(buf) \in 0 .. MaxIn  BY <2>2, SizesHold
    <3>3. QED  BY <2>3, <3>1, <3>2
  <2>6. OutInv'  BY <1>1, <2>1, OutQuiet
  <2>7. TypeOK'  BY <1>1, <2>1, <2>2, <2>4, <2>5 DEF TypeOK
  <2>8. StartInv'  BY <1>1, <2>1 DEF StartInv
  <2>9. QED  BY <2>2, <2>6, <2>7, <2>8 DEF UsbInv
<1>5. CASE LineDone
  <2>1. /\ UNCHANGED <<inVars, outVars, conVars, connected, usb_state, setup, port>>
        /\ pc = "line" /\ pc' = "main" /\ buf = <<>>
    BY <1>5 DEF LineDone, Go
  <2>2. pc' \in Pcs /\ usb_state' \in {"OFF", "READY", "ACTIVE"}  BY <1>1, <2>1 DEF TypeOK, Pcs
  <2>3. TypeOK' /\ InInv' /\ OutInv'  BY <2>1, <2>2, QuietStep
  <2>4. StartInv'
    BY <1>1, <2>1 DEF StartInv, inVars, outVars, conVars
  <2>5. QED  BY <2>3, <2>4 DEF UsbInv
<1>6. QED  BY <1>2, <1>3, <1>4, <1>5

LEMMA UsbInvHolds == Spec => []UsbInv
<1>1. Init => UsbInv  BY InitHolds
<1>2. UsbInv /\ [Next]_vars => UsbInv'
  <2> SUFFICES ASSUME UsbInv, [Next]_vars PROVE UsbInv'  OBVIOUS
  <2>1. CASE UNCHANGED vars
    <3>1. UNCHANGED <<inVars, outVars, conVars, connected, usb_state, setup, pc, port>>
      BY <2>1 DEF vars
    <3>2. /\ pc \in Pcs /\ usb_state \in {"OFF", "READY", "ACTIVE"} /\ (pc # "line" => buf = <<>>)
      BY DEF UsbInv, TypeOK, InInv
    <3>3. TypeOK' /\ InInv' /\ OutInv'  BY <3>1, <3>2, QuietStep
    <3>4. StartInv'
      BY <3>1 DEF UsbInv, StartInv, inVars, outVars, conVars
    <3>5. QED  BY <3>3, <3>4 DEF UsbInv
  <2>2. CASE Host  BY <2>2, HostStep
  <2>3. CASE Kernel  BY <2>3, StartStep, PollStep, ConsoleStep DEF Kernel
  <2>4. QED  BY <2>1, <2>2, <2>3 DEF Next
<1>3. QED  BY <1>1, <1>2, PTL DEF Spec

(* Every ring holds numbers of bytes that were sent, or printed; nothing    *)
(* outgrows the read buffer or the line buffer.                             *)
THEOREM UsbTypesHold == Spec => []TypeOK
<1>1. UsbInv => TypeOK  BY DEF UsbInv
<1>2. QED  BY <1>1, UsbInvHolds, PTL

(* FIFO, chunk, ring and read buffer keep the order of the input, and lose  *)
(* none of it to a host that does not overrun the console.                  *)
THEOREM InputCompleteHolds == Spec => []InputComplete
<1>1. ASSUME UsbInv PROVE InputComplete
  <2>1. TypeOK /\ InInv  BY <1>1 DEF UsbInv
  <2> DEFINE B == Contents(rx, RxRing)
             C == Contents(s_rx, RxSize)
  <2>2. /\ buf \in Seq(0 .. MaxIn) /\ B \in Seq(0 .. MaxIn) /\ C \in Seq(0 .. MaxIn)
        /\ Len(kinds) \in Nat /\ got - Len(buf) \in Int
    BY <2>1, InParts
  <2>3. Pipe(buf, B, C, Len(kinds))  BY <2>1 DEF InInv
  <2>4. ~port.overran => Exact(buf, B, C, got - Len(buf), Len(kinds))  BY <2>1 DEF InInv
  <2> HIDE DEF B, C
  <2>5. Rising(buf \o (B \o C))  BY ONLY <2>2, <2>3, PipeRises
  <2>6. ~port.overran => buf \o (B \o C) = Numbers(got - Len(buf) + 1, Len(kinds))
    <3> DEFINE first == got - Len(buf)
    <3>1. first \in Int /\ Len(kinds) \in Int  BY <2>2
    <3>2. ~port.overran => Exact(buf, B, C, first, Len(kinds))  BY <2>4
    <3> HIDE DEF first
    <3>3. ~port.overran => buf \o (B \o C) = Numbers(first + 1, Len(kinds))
      BY ONLY <2>2, <3>1, <3>2, ExactIs
    <3>4. QED  BY <3>3 DEF first
  <2>7. QED  BY <2>5, <2>6 DEF InputComplete, Unread, B, C
<1>2. QED  BY <1>1, UsbInvHolds, PTL

(* A session receives what is printed in it in the order it was printed,    *)
(* and all of it while it does not lag.                                     *)
THEOREM OutputCompleteHolds == Spec => []OutputComplete
<1>1. ASSUME UsbInv PROVE OutputComplete
  <2>1. TypeOK /\ OutInv  BY <1>1 DEF UsbInv
  <2> DEFINE A == port.received
             B == Contents(s_tx, TxSize)
             C == Contents(tx, TxRing)
  <2>2. /\ A \in Seq(0 .. MaxOut) /\ B \in Seq(0 .. MaxOut) /\ C \in Seq(0 .. MaxOut)
        /\ printed \in Nat /\ printed \in Int /\ port.from \in Int
    BY <2>1, OutParts
  <2>3. /\ Pipe(A, B, C, printed)
        /\ ~port.lagged => Exact(A, B, C, port.from, printed)
    BY <2>1 DEF OutInv
  <2> HIDE DEF A, B, C
  <2>4. Rising(A \o (B \o C))  BY ONLY <2>2, <2>3, PipeRises
  <2>5. ~port.lagged => A \o (B \o C) = Numbers(port.from + 1, printed)
    BY ONLY <2>2, <2>3, ExactIs
  <2>6. QED  BY <2>4, <2>5 DEF OutputComplete, Unsent, A, B, C
<1>2. QED  BY <1>1, UsbInvHolds, PTL

-----------------------------------------------------------------------------
(* Lines.  The same line and characters as in LinesAsSent, of any kinds.    *)
CharsOf(ks, e) ==
  { i \in 1 .. e - 1 : ks[i] = "char" /\ \A j \in i .. e - 1 : ks[j] # "newline" }

LineOf(ks, s, e) ==
  /\ Rising(s)
  /\ \A i \in 1 .. Len(s) : s[i] \in CharsOf(ks, e)
  /\ \A c \in CharsOf(ks, e) :
       (\E i \in 1 .. Len(s) : s[i] = c) \/ (Len(s) = LineSize - 1 /\ s[Len(s)] < c)

(* The line so far is the one that the next byte to be looked at would end. *)
LineInv ==
  ~port.overran =>
    /\ ran = NoLine \/ (ran.end \in 1 .. got - Len(buf) /\ LineOf(kinds, ran.bytes, ran.end))
    /\ LineOf(kinds, line, got - Len(buf) + 1)

LEMMA LineOfIs == ASSUME NEW s, NEW e PROVE IsLine(s, e) <=> LineOf(kinds, s, e)
BY DEF IsLine, LineOf, Chars, CharsOf

(* What is sent later does not change a line.                               *)
LEMMA LineStays ==
  ASSUME NEW ks, NEW ks2, NEW s, NEW e \in Int, \A i \in 1 .. e - 1 : ks2[i] = ks[i],
         LineOf(ks, s, e)
  PROVE  LineOf(ks2, s, e)
<1>1. ASSUME NEW i \in 1 .. e - 1 PROVE \A j \in i .. e - 1 : j \in 1 .. e - 1  BY <1>1
<1>2. CharsOf(ks2, e) = CharsOf(ks, e)  BY <1>1 DEF CharsOf
<1>3. QED  BY <1>2 DEF LineOf

(* What one more byte does to the characters of the line.                   *)
LEMMA CharsNext ==
  ASSUME NEW ks, NEW e \in Nat \ {0}
  PROVE  /\ ks[e] = "char"    => CharsOf(ks, e + 1) = CharsOf(ks, e) \cup {e}
         /\ ks[e] = "return"  => CharsOf(ks, e + 1) = CharsOf(ks, e)
         /\ ks[e] = "newline" => CharsOf(ks, e + 1) = {}
         /\ \A c \in CharsOf(ks, e) : c \in Nat /\ c < e
<1>1. \A i \in 1 .. e : i .. (e + 1) - 1 = (i .. e - 1) \cup {e}  OBVIOUS
<1>2. 1 .. (e + 1) - 1 = (1 .. e - 1) \cup {e}  OBVIOUS
<1>3. e .. e - 1 = {}  OBVIOUS
<1>4. ks[e] # "newline" =>
        CharsOf(ks, e + 1) = CharsOf(ks, e) \cup { i \in {e} : ks[i] = "char" }
  BY <1>1, <1>2, <1>3 DEF CharsOf
<1>5. ks[e] = "newline" => CharsOf(ks, e + 1) = {}  BY <1>1, <1>2 DEF CharsOf
<1>6. \A c \in CharsOf(ks, e) : c \in Nat /\ c < e  BY DEF CharsOf
<1>7. "char" # "newline" /\ "return" # "newline" /\ "return" # "char"  OBVIOUS
<1>8. QED  BY <1>4, <1>5, <1>6, <1>7

(* One byte more: the line grows, is full, stays, or starts over.           *)
LEMMA LineNext ==
  ASSUME NEW ks, NEW s \in Seq(Nat), NEW e \in Nat \ {0}, Len(s) < LineSize, LineOf(ks, s, e)
  PROVE  /\ ks[e] = "char" /\ Len(s) + 1 < LineSize => LineOf(ks, Append(s, e), e + 1)
         /\ ks[e] = "char" /\ ~(Len(s) + 1 < LineSize) => LineOf(ks, s, e + 1)
         /\ ks[e] = "return" => LineOf(ks, s, e + 1)
         /\ ks[e] = "newline" => LineOf(ks, <<>>, e + 1)
<1>1. LineSize \in Nat /\ LineSize > 1  BY SizesHold
<1>2. Len(s) \in Nat  OBVIOUS
<1>3. /\ Rising(s) /\ \A i \in 1 .. Len(s) : s[i] \in CharsOf(ks, e)
      /\ \A c \in CharsOf(ks, e) :
           (\E i \in 1 .. Len(s) : s[i] = c) \/ (Len(s) = LineSize - 1 /\ s[Len(s)] < c)
  BY DEF LineOf
<1>4. CASE ks[e] = "char" /\ Len(s) + 1 < LineSize
  <2> DEFINE t == Append(s, e)
  <2>1. /\ Len(t) = Len(s) + 1 /\ t[Len(s) + 1] = e /\ \A i \in 1 .. Len(s) : t[i] = s[i]
    BY AppendProperties
  <2> HIDE DEF t
  <2>2. CharsOf(ks, e + 1) = CharsOf(ks, e) \cup {e} /\ \A c \in CharsOf(ks, e) : c \in Nat /\ c < e
    BY <1>4, CharsNext
  <2>3. Rising(t)
    <3>1. SUFFICES ASSUME NEW i \in 1 .. Len(t) - 1 PROVE t[i] < t[i + 1]  BY DEF Rising
    <3>2. i \in 1 .. Len(s)  BY <1>2, <2>1, <3>1
    <3>3. CASE i = Len(s)  BY <1>2, <1>3, <2>1, <2>2, <3>2, <3>3
    <3>4. CASE i # Len(s)
      <4>1. i \in 1 .. Len(s) - 1 /\ i + 1 \in 1 .. Len(s)  BY <1>2, <3>2, <3>4
      <4>2. QED  BY <1>3, <2>1, <4>1 DEF Rising
    <3>5. QED  BY <3>3, <3>4
  <2>4. \A i \in 1 .. Len(t) : t[i] \in CharsOf(ks, e + 1)
    <3>1. TAKE i \in 1 .. Len(t)
    <3>2. i \in 1 .. Len(s) \/ i = Len(s) + 1  BY <1>2, <2>1
    <3>3. QED  BY <1>3, <2>1, <2>2, <3>2
  <2>5. \A c \in CharsOf(ks, e + 1) : \E i \in 1 .. Len(t) : t[i] = c
    <3>1. TAKE c \in CharsOf(ks, e + 1)
    <3>2. CASE c = e
      <4>1. Len(s) + 1 \in 1 .. Len(t)  BY <1>2, <2>1
      <4>2. QED  BY <2>1, <3>2, <4>1
    <3>3. CASE c \in CharsOf(ks, e)
      <4>1. PICK i \in 1 .. Len(s) : s[i] = c  BY <1>1, <1>2, <1>3, <1>4, <3>3
      <4>2. i \in 1 .. Len(t)  BY <1>2, <2>1, <4>1
      <4>3. QED  BY <2>1, <4>1, <4>2
    <3>4. QED  BY <2>2, <3>2, <3>3
  <2>6. LineOf(ks, t, e + 1)  BY <2>3, <2>4, <2>5 DEF LineOf
  <2>7. QED  BY <1>4, <2>6 DEF t
<1>5. CASE ks[e] = "char" /\ ~(Len(s) + 1 < LineSize)
  <2>1. CharsOf(ks, e + 1) = CharsOf(ks, e) \cup {e} /\ \A c \in CharsOf(ks, e) : c \in Nat /\ c < e
    BY <1>5, CharsNext
  <2>2. Len(s) = LineSize - 1 /\ Len(s) \in 1 .. Len(s)  BY <1>1, <1>2, <1>5
  <2>3. s[Len(s)] < e  BY <1>3, <2>1, <2>2
  <2>4. LineOf(ks, s, e + 1)  BY <1>3, <2>1, <2>2, <2>3 DEF LineOf
  <2>5. QED  BY <1>5, <2>4
<1>6. CASE ks[e] = "return"
  <2>1. CharsOf(ks, e + 1) = CharsOf(ks, e)  BY <1>6, CharsNext
  <2>2. LineOf(ks, s, e + 1)  BY <1>3, <2>1 DEF LineOf
  <2>3. QED  BY <1>6, <2>2
<1>7. CASE ks[e] = "newline"
  <2>1. CharsOf(ks, e + 1) = {}  BY <1>7, CharsNext
  <2>2. Len(<<>>) = 0 /\ 1 .. 0 = {} /\ 1 .. 0 - 1 = {}  OBVIOUS
  <2>3. LineOf(ks, <<>>, e + 1)  BY <2>1, <2>2 DEF LineOf, Rising
  <2>4. QED  BY <1>7, <2>3
<1>8. QED  BY <1>4, <1>5, <1>6, <1>7

LEMMA LineInit == Init => LineInv
<1>1. SUFFICES ASSUME Init PROVE LineOf(kinds, line, got - Len(buf) + 1) /\ ran = NoLine
  BY DEF LineInv
<1>2. line = <<>> /\ buf = <<>> /\ got = 0 /\ ran = NoLine  BY <1>1 DEF Init
<1>3. got - Len(buf) + 1 = 1 /\ Len(<<>>) = 0 /\ 1 .. 1 - 1 = {} /\ 1 .. 0 = {} /\ 1 .. 0 - 1 = {}
  BY <1>2
<1>4. CharsOf(kinds, 1) = {}  BY <1>3 DEF CharsOf
<1>5. QED  BY <1>2, <1>3, <1>4 DEF LineOf, Rising

(* A step that looks at no byte.                                            *)
LEMMA LineQuiet ==
  ASSUME LineInv, UNCHANGED <<line, ran>>, got \in Nat, buf \in Seq(1 .. MaxIn),
         port'.overran = FALSE => ~port.overran,
         got' - Len(buf') = got - Len(buf), got - Len(buf) <= Len(kinds), Len(kinds) \in Nat,
         \A i \in 1 .. Len(kinds) : kinds'[i] = kinds[i],
         port'.overran \in BOOLEAN
  PROVE  LineInv'
<1>1. SUFFICES ASSUME ~port'.overran
               PROVE  /\ ran = NoLine \/ (ran.end \in 1 .. got - Len(buf) /\ LineOf(kinds', ran.bytes, ran.end))
                      /\ LineOf(kinds', line, got - Len(buf) + 1)
  BY DEF LineInv
<1>2. /\ ran = NoLine \/ (ran.end \in 1 .. got - Len(buf) /\ LineOf(kinds, ran.bytes, ran.end))
      /\ LineOf(kinds, line, got - Len(buf) + 1)
  BY <1>1 DEF LineInv
<1>3. Len(buf) \in Nat /\ got - Len(buf) \in Int  OBVIOUS
<1>4. \A i \in 1 .. (got - Len(buf) + 1) - 1 : kinds'[i] = kinds[i]  BY <1>3
<1>5. LineOf(kinds', line, got - Len(buf) + 1)
  <2> DEFINE e == got - Len(buf) + 1
  <2>1. e \in Int /\ LineOf(kinds, line, e) /\ \A i \in 1 .. e - 1 : kinds'[i] = kinds[i]
    BY <1>2, <1>3, <1>4
  <2> HIDE DEF e
  <2>2. LineOf(kinds', line, e)  BY <2>1, LineStays
  <2>3. QED  BY <2>2 DEF e
<1>6. CASE ran # NoLine
  <2> DEFINE e == ran.end
  <2>1. e \in Int /\ LineOf(kinds, ran.bytes, e) /\ \A i \in 1 .. e - 1 : kinds'[i] = kinds[i]
    BY <1>2, <1>3, <1>4, <1>6
  <2> HIDE DEF e
  <2>2. LineOf(kinds', ran.bytes, e)  BY <2>1, LineStays
  <2>3. QED  BY <1>2, <1>5, <1>6, <2>2 DEF e
<1>7. QED  BY <1>5, <1>6

LEMMA LineHost == ASSUME UsbInv, LineInv, Host PROVE LineInv'
<1>1. TypeOK /\ InInv  BY DEF UsbInv
<1>2. /\ port \in PortType /\ Len(kinds) \in Nat /\ got \in Nat /\ buf \in Seq(1 .. MaxIn)
      /\ Len(buf) \in Nat /\ kinds \in Seq(Kinds) /\ Len(kinds) <= MaxIn
  BY <1>1, InParts, OutParts DEF TypeOK
<1>3. got - Len(buf) <= Len(kinds)
  <2>1. got + Used(rx, RxRing) + Used(s_rx, RxSize) <= Len(kinds)  BY <1>1 DEF InInv
  <2>2. Used(rx, RxRing) \in Nat /\ Used(s_rx, RxSize) \in Nat  BY <1>1, InParts
  <2>3. QED  BY <1>2, <2>1, <2>2
<1>4. UNCHANGED <<line, ran, got, buf>>
  BY DEF Host, Feed, Take, OpenPort, ClosePort, BusReset, inVars, conVars
<1>5. CASE Feed
  <2>1. PICK n \in Bursts : \E ks \in [1 .. n -> Kinds] :
          /\ kinds' = kinds \o ks
          /\ port' = [port EXCEPT !.overran =
               \/ @
               \/ Used(s_rx, RxSize) + n > RxSize - 1
               \/ Used(rx, RxRing) + Used(s_rx, RxSize) + n > RxRing - 1]
    BY <1>5 DEF Feed
  <2>2. PICK ks \in [1 .. n -> Kinds] : kinds' = kinds \o ks  BY <2>1
  <2>3. ks \in Seq(Kinds)  BY <2>2, SizesHold
  <2>4. \A i \in 1 .. Len(kinds) : kinds'[i] = kinds[i]
    BY ONLY <1>2, <2>2, <2>3, ConcatProperties
  <2>5. port'.overran \in BOOLEAN /\ (port'.overran = FALSE => ~port.overran)
    BY <1>2, <2>1 DEF PortType
  <2>6. QED  BY <1>2, <1>3, <1>4, <2>4, <2>5, LineQuiet
<1>6. CASE Take \/ OpenPort \/ ClosePort \/ BusReset
  <2>1. kinds' = kinds  BY <1>6 DEF Take, OpenPort, ClosePort, BusReset, inVars
  <2>2. port'.overran = port.overran /\ port.overran \in BOOLEAN
    <3>1. CASE Take
      <4>1. PICK n \in Bursts : port' = [port EXCEPT !.received = @ \o Front(s_tx, n, TxSize)]
        BY <3>1 DEF Take
      <4>2. QED  BY <1>2, <4>1 DEF PortType
    <3>2. CASE OpenPort  BY <1>2, <3>2 DEF OpenPort, PortType
    <3>3. CASE ClosePort  BY <1>2, <3>3 DEF ClosePort, PortType
    <3>4. CASE BusReset  BY <1>2, <3>4 DEF BusReset, PortType
    <3>5. QED  BY <1>6, <3>1, <3>2, <3>3, <3>4
  <2>3. QED  BY <1>2, <1>3, <1>4, <2>1, <2>2, LineQuiet
<1>7. QED  BY <1>5, <1>6 DEF Host

LEMMA LineByte ==
  ASSUME UsbInv, LineInv, LineChar \/ LineReturn \/ LineRun
  PROVE  LineInv'
<1>1. TypeOK /\ InInv  BY DEF UsbInv
<1>2. /\ UNCHANGED <<kinds, got, port>> /\ buf # <<>> /\ buf' = Tail(buf)
  BY DEF LineChar, LineReturn, LineRun, inVars
<1>3. SUFFICES ASSUME ~port.overran
               PROVE  /\ ran' = NoLine \/ ( ran'.end \in 1 .. got - Len(buf')
                                            /\ LineOf(kinds, ran'.bytes, ran'.end) )
                      /\ LineOf(kinds, line', got - Len(buf') + 1)
  BY <1>2 DEF LineInv
<1>4. /\ got \in Nat /\ Len(buf) \in Nat /\ buf \in Seq(1 .. MaxIn)
      /\ line \in Seq(1 .. MaxIn) /\ Len(line) < LineSize
      /\ ran = NoLine \/ (ran.end \in 1 .. got - Len(buf) /\ LineOf(kinds, ran.bytes, ran.end))
      /\ LineOf(kinds, line, got - Len(buf) + 1)
  BY <1>1, <1>3, InParts DEF TypeOK, LineInv
<1>5. Len(buf') = Len(buf) - 1 /\ Len(buf) >= 1 /\ Head(buf) = buf[1]
  BY ONLY <1>2, <1>4, HeadTailProperties, EmptySeq
<1> DEFINE e == got - Len(buf) + 1
<1>6. Head(buf) = e
  <2>1. Exact(buf, Contents(rx, RxRing), Contents(s_rx, RxSize), got - Len(buf), Len(kinds))
    BY <1>1, <1>3 DEF InInv
  <2>2. \A i \in 1 .. Len(buf) : buf[i] = got - Len(buf) + i  BY <2>1 DEF Exact, Counts
  <2>3. 1 \in 1 .. Len(buf)  BY <1>4, <1>5
  <2>4. QED  BY <1>5, <2>2, <2>3
<1>7. e \in Nat \ {0} /\ got - Len(buf') + 1 = e + 1 /\ got - Len(buf') = e /\ got - Len(buf) = e - 1
  <2>1. Head(buf) \in 1 .. MaxIn  BY ONLY <1>2, <1>4, HeadTailProperties
  <2>2. e \in Nat \ {0}  BY <1>6, <2>1, SizesHold
  <2>3. QED  BY <1>4, <1>5, <2>2
<1>8. line \in Seq(Nat)
  <2>1. \A i \in 1 .. Len(line) : line[i] \in Nat
    BY ONLY <1>4, ElementOfSeq, SizesHold
  <2>2. QED  BY ONLY <1>4, <2>1, SeqDef, LenProperties
<1>9. LineOf(kinds, line, e)  BY <1>4
<1> HIDE DEF e
<1>10. /\ kinds[e] = "char" /\ Len(line) + 1 < LineSize => LineOf(kinds, Append(line, e), e + 1)
       /\ kinds[e] = "char" /\ ~(Len(line) + 1 < LineSize) => LineOf(kinds, line, e + 1)
       /\ kinds[e] = "return" => LineOf(kinds, line, e + 1)
       /\ kinds[e] = "newline" => LineOf(kinds, <<>>, e + 1)
  BY <1>4, <1>7, <1>8, <1>9, LineNext
<1>11. LineOf(kinds, line', e + 1)
  BY <1>6, <1>10 DEF LineChar, LineReturn, LineRun, Kind
<1>12. ran' = NoLine \/ (ran'.end \in 1 .. e /\ LineOf(kinds, ran'.bytes, ran'.end))
  <2>1. CASE LineChar \/ LineReturn
    <3>1. ran' = ran  BY <2>1 DEF LineChar, LineReturn
    <3>2. \A i \in 1 .. e - 1 : i \in 1 .. e  BY <1>7
    <3>3. QED  BY <1>4, <1>7, <3>1, <3>2
  <2>2. CASE LineRun
    <3>1. ran'.bytes = line /\ ran'.end = e  BY <1>6, <2>2 DEF LineRun
    <3>2. QED  BY <1>7, <1>9, <3>1
  <2>3. QED  BY <2>1, <2>2
<1>13. QED  BY <1>7, <1>11, <1>12

LEMMA LineKernel ==
  ASSUME UsbInv, UsbInv', LineInv, Kernel \/ UNCHANGED vars, ~(LineChar \/ LineReturn \/ LineRun)
  PROVE  LineInv'
<1>1. TypeOK /\ InInv /\ TypeOK' /\ InInv'  BY DEF UsbInv
<1>2. /\ port \in PortType /\ Len(kinds) \in Nat /\ got \in Nat /\ buf \in Seq(1 .. MaxIn)
      /\ Len(buf) \in Nat
  BY <1>1, InParts, OutParts DEF TypeOK
<1>3. got - Len(buf) <= Len(kinds)
  <2>1. got + Used(rx, RxRing) + Used(s_rx, RxSize) <= Len(kinds)  BY <1>1 DEF InInv
  <2>2. Used(rx, RxRing) \in Nat /\ Used(s_rx, RxSize) \in Nat  BY <1>1, InParts
  <2>3. QED  BY <1>2, <2>1, <2>2
<1>4. UNCHANGED <<line, ran, kinds>>
  BY DEF Kernel, StartUsb, SkipUsb, PollNothing, Poll, TaskDone, PumpRx, PumpRxDone, PumpTx,
         PumpTxDone, Publish, Write, Read, LineDone, vars, inVars, conVars
<1>5. port'.overran = port.overran /\ port.overran \in BOOLEAN
  <2>1. CASE Write
    <3>1. PICK n \in Bursts : port' = [port EXCEPT !.lagged =
                                @ \/ Used(tx, TxRing) + Used(s_tx, TxSize) + n > TxSize - 1]
      BY <2>1 DEF Write
    <3>2. QED  BY <1>2, <3>1 DEF PortType
  <2>2. CASE ~Write
    <3>1. port' = port
      BY <2>2 DEF Kernel, StartUsb, SkipUsb, PollNothing, Poll, TaskDone, PumpRx, PumpRxDone,
                  PumpTx, PumpTxDone, Publish, Read, LineDone, vars
    <3>2. QED  BY <1>2, <3>1 DEF PortType
  <2>3. QED  BY <2>1, <2>2
<1>6. got' - Len(buf') = got - Len(buf)
  <2>1. CASE Read
    <3>1. buf = <<>>  BY <1>1, <2>1 DEF InInv, Read, Go
    <3>2. Len(buf) = 0  BY <3>1
    <3>3. got' = got + Len(buf')  BY <2>1 DEF Read
    <3>4. Len(buf') \in Nat  BY <1>1 DEF TypeOK
    <3>5. QED  BY <1>2, <3>2, <3>3, <3>4
  <2>2. CASE ~Read
    <3>1. UNCHANGED <<got, buf>>
      BY <2>2 DEF Kernel, StartUsb, SkipUsb, PollNothing, Poll, TaskDone, PumpRx, PumpRxDone,
                  PumpTx, PumpTxDone, Publish, Write, LineDone, vars, inVars, conVars
    <3>2. QED  BY <3>1
  <2>3. QED  BY <2>1, <2>2
<1>7. QED  BY <1>2, <1>3, <1>4, <1>5, <1>6, LineQuiet

(* A line the console executes is one the host has sent, however its bytes  *)
(* were cut into transfers, chunks and reads.                               *)
THEOREM LinesAsSentHolds == Spec => []LinesAsSent
<1>1. Init => LineInv  BY LineInit
<1>2. UsbInv /\ UsbInv' /\ LineInv /\ [Next]_vars => LineInv'
  BY LineHost, LineByte, LineKernel DEF Next
<1>3. LineInv => LinesAsSent  BY LineOfIs DEF LineInv, LinesAsSent
<1>4. QED  BY <1>1, <1>2, <1>3, UsbInvHolds, PTL DEF Spec

-----------------------------------------------------------------------------
(* The two directions as channels.  What a channel still holds of what it   *)
(* held.                                                                    *)
BytesOf(s) == { s[i] : i \in 1 .. Len(s) }
Holds(s, all, room) ==
  s = all \/ (Rising(s) /\ BytesOf(s) \subseteq BytesOf(all) /\ Len(s) >= room)

LEMMA HoldsIsKept ==
  ASSUME NEW s, NEW all
  PROVE  /\ Holds(s, all, RxSize - 1) => Input!Kept(s, all)
         /\ Holds(s, all, TxSize - 1) => Output!Kept(s, all)
BY DEF Holds, BytesOf, Rising, Input!Kept, Input!Rising, Input!Bytes,
       Output!Kept, Output!Rising, Output!Bytes

(* A concatenation, byte by byte.                                           *)
Joined(s, a, b, c) ==
  /\ Len(s) = Len(a) + Len(b) + Len(c)
  /\ \A i \in 1 .. Len(s) : s[i] = IF i <= Len(a) THEN a[i]
                                   ELSE IF i <= Len(a) + Len(b) THEN b[i - Len(a)]
                                   ELSE c[i - Len(a) - Len(b)]
  /\ BytesOf(s) = BytesOf(a) \cup BytesOf(b) \cup BytesOf(c)

LEMMA ThreeIs ==
  ASSUME NEW S, NEW a \in Seq(S), NEW b \in Seq(S), NEW c \in Seq(S), NEW s, s = a \o (b \o c)
  PROVE  s \in Seq(S) /\ Len(s) \in Nat /\ Joined(s, a, b, c)
<1>0. Len(a) \in Nat /\ Len(b) \in Nat /\ Len(c) \in Nat  BY LenProperties
<1>1. /\ s \in Seq(S) /\ Len(s) = Len(a) + Len(b) + Len(c)
      /\ \A i \in 1 .. Len(s) : s[i] = IF i <= Len(a) THEN a[i]
                                       ELSE IF i <= Len(a) + Len(b) THEN b[i - Len(a)]
                                       ELSE c[i - Len(a) - Len(b)]
  OBVIOUS
<1>2. ASSUME NEW i \in 1 .. Len(s)  PROVE s[i] \in BytesOf(a) \cup BytesOf(b) \cup BytesOf(c)
  <2>1. CASE i <= Len(a)
    <3>1. i \in 1 .. Len(a) /\ s[i] = a[i]  BY <1>0, <1>1, <2>1
    <3>2. QED  BY <3>1 DEF BytesOf
  <2>2. CASE i > Len(a) /\ i <= Len(a) + Len(b)
    <3>1. i - Len(a) \in 1 .. Len(b) /\ s[i] = b[i - Len(a)]  BY <1>0, <1>1, <2>2
    <3>2. QED  BY <3>1 DEF BytesOf
  <2>3. CASE i > Len(a) + Len(b)
    <3>1. i - Len(a) - Len(b) \in 1 .. Len(c) /\ s[i] = c[i - Len(a) - Len(b)]
      BY <1>0, <1>1, <2>3
    <3>2. QED  BY <3>1 DEF BytesOf
  <2>4. QED  BY <1>0, <2>1, <2>2, <2>3
<1>3. ASSUME NEW i \in 1 .. Len(a)  PROVE a[i] \in BytesOf(s)
  <2>1. i \in 1 .. Len(s) /\ s[i] = a[i]  BY <1>0, <1>1
  <2>2. QED  BY <2>1 DEF BytesOf
<1>4. ASSUME NEW i \in 1 .. Len(b)  PROVE b[i] \in BytesOf(s)
  <2> DEFINE p == Len(a) + i
  <2>1. p \in 1 .. Len(s) /\ ~(p <= Len(a)) /\ p <= Len(a) + Len(b) /\ p - Len(a) = i  BY <1>0, <1>1
  <2> HIDE DEF p
  <2>2. s[p] = b[i]  BY <1>1, <2>1
  <2>3. QED  BY <2>1, <2>2 DEF BytesOf
<1>5. ASSUME NEW i \in 1 .. Len(c)  PROVE c[i] \in BytesOf(s)
  <2> DEFINE p == Len(a) + Len(b) + i
  <2>1. /\ p \in 1 .. Len(s) /\ ~(p <= Len(a)) /\ ~(p <= Len(a) + Len(b))
        /\ p - Len(a) - Len(b) = i
    BY <1>0, <1>1
  <2> HIDE DEF p
  <2>2. s[p] = c[i]  BY <1>1, <2>1
  <2>3. QED  BY <2>1, <2>2 DEF BytesOf
<1>6. BytesOf(s) = BytesOf(a) \cup BytesOf(b) \cup BytesOf(c)
  <2>1. BytesOf(s) \subseteq BytesOf(a) \cup BytesOf(b) \cup BytesOf(c)  BY <1>2 DEF BytesOf
  <2>2. BytesOf(a) \subseteq BytesOf(s)  BY <1>3 DEF BytesOf
  <2>3. BytesOf(b) \subseteq BytesOf(s)  BY <1>4 DEF BytesOf
  <2>4. BytesOf(c) \subseteq BytesOf(s)  BY <1>5 DEF BytesOf
  <2>5. QED  BY <2>1, <2>2, <2>3, <2>4
<1>7. Len(s) \in Nat  BY <1>0, <1>1
<1>8. QED  BY <1>1, <1>6, <1>7 DEF Joined

Two(s, b, c) ==
  /\ Len(s) = Len(b) + Len(c)
  /\ \A i \in 1 .. Len(b) + Len(c) : s[i] = IF i <= Len(b) THEN b[i] ELSE c[i - Len(b)]

LEMMA TwoIs ==
  ASSUME NEW S, NEW b \in Seq(S), NEW c \in Seq(S), NEW s, s = b \o c
  PROVE  s \in Seq(S) /\ Len(s) \in Nat /\ Two(s, b, c)
<1>1. /\ s \in Seq(S) /\ Len(s) = Len(b) + Len(c)
      /\ \A i \in 1 .. Len(b) + Len(c) : s[i] = IF i <= Len(b) THEN b[i] ELSE c[i - Len(b)]
  BY ConcatProperties
<1>2. Len(s) \in Nat  BY <1>1, LenProperties
<1>3. QED  BY <1>1, <1>2 DEF Two

(* The same bytes in the same order.                                        *)
Alike(s, t) == Len(s) = Len(t) /\ \A i \in 1 .. Len(s) : s[i] = t[i]

LEMMA SameSeq ==
  ASSUME NEW S, NEW s \in Seq(S), NEW t \in Seq(S), Alike(s, t)
  PROVE  s = t
BY SeqEqual DEF Alike

(* A pump loses nothing, or has filled the ring it stores into.             *)
LEMMA MovedHolds ==
  ASSUME NEW S, NEW a \in Seq(S), NEW b \in Seq(S), NEW c \in Seq(S),
         NEW b2 \in Seq(S), NEW c2 \in Seq(S), NEW j, NEW k, Moved(b, c, b2, c2, j, k),
         NEW last \in Nat, Pipe(a, b2, c2, last), NEW room \in Int, j = k \/ Len(b2) >= room
  PROVE  Holds(a \o (b2 \o c2), a \o (b \o c), room)
<1> DEFINE s == a \o (b \o c)
           t == a \o (b2 \o c2)
<1>3. Rising(t)  BY PipeRises
<1>s. s = a \o (b \o c) /\ t = a \o (b2 \o c2)  OBVIOUS
<1> HIDE DEF s, t
<1>0. /\ Len(a) \in Nat /\ Len(b) \in Nat /\ Len(c) \in Nat /\ Len(b2) \in Nat /\ Len(c2) \in Nat
  BY LenProperties
<1>j. s \in Seq(S) /\ t \in Seq(S) /\ Joined(s, a, b, c) /\ Joined(t, a, b2, c2)
  BY <1>s, ThreeIs, Zenon
<1>1. /\ Len(s) = Len(a) + Len(b) + Len(c)
      /\ \A i \in 1 .. Len(s) : s[i] = IF i <= Len(a) THEN a[i]
                                       ELSE IF i <= Len(a) + Len(b) THEN b[i - Len(a)]
                                       ELSE c[i - Len(a) - Len(b)]
      /\ BytesOf(s) = BytesOf(a) \cup BytesOf(b) \cup BytesOf(c)
  BY <1>j DEF Joined
<1>2. /\ Len(t) = Len(a) + Len(b2) + Len(c2)
      /\ \A i \in 1 .. Len(t) : t[i] = IF i <= Len(a) THEN a[i]
                                       ELSE IF i <= Len(a) + Len(b2) THEN b2[i - Len(a)]
                                       ELSE c2[i - Len(a) - Len(b2)]
      /\ BytesOf(t) = BytesOf(a) \cup BytesOf(b2) \cup BytesOf(c2)
  BY <1>j DEF Joined
<1>4. /\ \A i \in 1 .. Len(b2) : \/ i \in 1 .. Len(b) /\ b2[i] = b[i]
                                 \/ \E m \in 1 .. Len(c) : i = Len(b) + m /\ m <= k /\ b2[i] = c[m]
      /\ \A i \in 1 .. Len(c2) : \E m \in 1 .. Len(c) : m = k + i /\ c2[i] = c[m]
  BY ONLY <1>0, Moved(b, c, b2, c2, j, k), MovedFrom
<1>5. BytesOf(t) \subseteq BytesOf(s)
  <2>1. BytesOf(b2) \subseteq BytesOf(b) \cup BytesOf(c)  BY <1>4 DEF BytesOf
  <2>2. BytesOf(c2) \subseteq BytesOf(c)  BY <1>4 DEF BytesOf
  <2>3. QED  BY <1>1, <1>2, <2>1, <2>2
<1>6. CASE Len(b2) >= room
  <2>1. Len(t) >= room  BY <1>0, <1>2, <1>6
  <2>2. QED  BY <1>3, <1>5, <2>1 DEF Holds, s, t
<1>7. CASE j = k
  <2>1. /\ k \in Nat /\ k <= Len(c) /\ Len(b2) = Len(b) + k /\ Len(c2) = Len(c) - k
    BY <1>7 DEF Moved
  <2>2. Len(t) = Len(s)  BY <1>0, <1>1, <1>2, <2>1
  <2>3. ASSUME NEW i \in 1 .. Len(t)  PROVE t[i] = s[i]
    <3>0. i \in 1 .. Len(s)  BY <2>2
    <3>1. CASE i <= Len(a)  BY <1>1, <1>2, <3>0, <3>1
    <3>2. CASE i > Len(a) /\ i <= Len(a) + Len(b2)
      <4> DEFINE p == i - Len(a)
      <4>1. p \in 1 .. Len(b2) /\ t[i] = b2[p] /\ i = Len(a) + p  BY <1>0, <1>2, <3>2
      <4> HIDE DEF p
      <4>2. CASE p \in 1 .. Len(b) /\ b2[p] = b[p]
        <5>1. ~(i <= Len(a)) /\ i <= Len(a) + Len(b) /\ i - Len(a) = p  BY <1>0, <4>1, <4>2
        <5>2. QED  BY <1>1, <3>0, <4>1, <4>2, <5>1
      <4>3. CASE \E m \in 1 .. Len(c) : p = Len(b) + m /\ b2[p] = c[m]
        <5>1. PICK m \in 1 .. Len(c) : p = Len(b) + m /\ b2[p] = c[m]  BY <4>3
        <5>2. ~(i <= Len(a)) /\ ~(i <= Len(a) + Len(b)) /\ i - Len(a) - Len(b) = m
          BY <1>0, <4>1, <5>1
        <5>3. QED  BY <1>1, <3>0, <4>1, <5>1, <5>2
      <4>4. QED  BY <1>4, <4>1, <4>2, <4>3
    <3>3. CASE i > Len(a) + Len(b2)
      <4> DEFINE p == i - Len(a) - Len(b2)
      <4>1. p \in 1 .. Len(c2) /\ t[i] = c2[p] /\ i = Len(a) + Len(b2) + p  BY <1>0, <1>2, <3>3
      <4> HIDE DEF p
      <4>2. PICK m \in 1 .. Len(c) : m = k + p /\ c2[p] = c[m]  BY <1>4, <4>1
      <4>3. ~(i <= Len(a)) /\ ~(i <= Len(a) + Len(b)) /\ i - Len(a) - Len(b) = m
        BY <1>0, <2>1, <4>1, <4>2
      <4>4. QED  BY <1>1, <3>0, <4>1, <4>2, <4>3
    <3>4. QED  BY <1>0, <3>1, <3>2, <3>3
  <2>4. t = s  BY <1>j, <2>2, <2>3, SameSeq DEF Alike
  <2>5. QED  BY <2>4 DEF Holds, s, t
<1>8. QED  BY <1>6, <1>7

(* New bytes: all of them, or the ring is full.                             *)
LEMMA NumbersIs ==
  ASSUME NEW last \in Nat, NEW m \in Nat, NEW s, s = Numbers(last + 1, last + m)
  PROVE  s \in Seq(Int) /\ Len(s) = m /\ \A i \in 1 .. m : s[i] = last + i
<1>1. last + m - (last + 1) + 1 = m  OBVIOUS
<1>2. s = [i \in 1 .. m |-> last + 1 + i - 1]  BY <1>1 DEF Numbers
<1>3. \A i \in 1 .. m : last + 1 + i - 1 = last + i /\ last + i \in Int  OBVIOUS
<1>4. s \in [1 .. m -> Int]  BY <1>2, <1>3
<1>5. QED  BY <1>2, <1>3, <1>4

LEMMA GrownHolds ==
  ASSUME NEW a \in Seq(Int), NEW b \in Seq(Int), NEW c \in Seq(Int), NEW c2 \in Seq(Int),
         NEW last \in Nat, NEW m \in Nat, NEW k, k <= m, Grown(c, c2, last, k),
         Pipe(a, b, c2, last + m), NEW room \in Int, k = m \/ Len(c2) >= room
  PROVE  Holds(a \o (b \o c2), (a \o (b \o c)) \o Numbers(last + 1, last + m), room)
<1> DEFINE s == a \o (b \o c)
           t == a \o (b \o c2)
           new == Numbers(last + 1, last + m)
           all == s \o new
<1>3. Rising(t)
  <2>1. last + m \in Nat  OBVIOUS
  <2>2. QED  BY <2>1, PipeRises
<1>s. s = a \o (b \o c) /\ t = a \o (b \o c2) /\ new = Numbers(last + 1, last + m) /\ all = s \o new
  OBVIOUS
<1> HIDE DEF s, t, new, all
<1>0. /\ Len(a) \in Nat /\ Len(b) \in Nat /\ Len(c) \in Nat /\ Len(c2) \in Nat
  BY LenProperties
<1>j. /\ s \in Seq(Int) /\ t \in Seq(Int) /\ Joined(s, a, b, c) /\ Joined(t, a, b, c2)
  BY <1>s, ThreeIs, Zenon
<1>n. new \in Seq(Int) /\ Len(new) = m /\ \A i \in 1 .. m : new[i] = last + i
  BY <1>s, NumbersIs
<1>1. /\ Len(s) = Len(a) + Len(b) + Len(c)
      /\ \A i \in 1 .. Len(s) : s[i] = IF i <= Len(a) THEN a[i]
                                       ELSE IF i <= Len(a) + Len(b) THEN b[i - Len(a)]
                                       ELSE c[i - Len(a) - Len(b)]
      /\ BytesOf(s) = BytesOf(a) \cup BytesOf(b) \cup BytesOf(c)
  BY <1>j DEF Joined
<1>2. /\ Len(t) = Len(a) + Len(b) + Len(c2)
      /\ \A i \in 1 .. Len(t) : t[i] = IF i <= Len(a) THEN a[i]
                                       ELSE IF i <= Len(a) + Len(b) THEN b[i - Len(a)]
                                       ELSE c2[i - Len(a) - Len(b)]
      /\ BytesOf(t) = BytesOf(a) \cup BytesOf(b) \cup BytesOf(c2)
  BY <1>j DEF Joined
<1>4. /\ all \in Seq(Int) /\ Len(all) = Len(s) + m
      /\ \A i \in 1 .. Len(s) + m : all[i] = IF i <= Len(s) THEN s[i] ELSE new[i - Len(s)]
  BY ONLY <1>s, <1>j, <1>n, ConcatProperties
<1>5. /\ k \in Nat /\ Len(c2) = Len(c) + k
      /\ \A i \in 1 .. Len(c) : c2[i] = c[i]
      /\ \A i \in 1 .. k : c2[Len(c) + i] = last + i
  BY DEF Grown
<1>6. ASSUME NEW i \in 1 .. Len(c2)
      PROVE  \/ i \in 1 .. Len(c) /\ c2[i] = c[i]
             \/ \E p \in 1 .. m : i = Len(c) + p /\ c2[i] = new[p]
  <2>1. CASE i \in 1 .. Len(c)  BY <1>5, <2>1
  <2>2. CASE i \notin 1 .. Len(c)
    <3> DEFINE p == i - Len(c)
    <3>1. p \in 1 .. k /\ p \in 1 .. m /\ i = Len(c) + p  BY <1>0, <1>5, <2>2
    <3> HIDE DEF p
    <3>2. c2[Len(c) + p] = last + p /\ new[p] = last + p  BY <1>5, <1>n, <3>1
    <3>3. QED  BY <3>1, <3>2
  <2>3. QED  BY <2>1, <2>2
<1>7. BytesOf(t) \subseteq BytesOf(all)
  <2>1. BytesOf(s) \subseteq BytesOf(all)
    <3>1. \A i \in 1 .. Len(s) : i \in 1 .. Len(all) /\ all[i] = s[i]  BY <1>0, <1>1, <1>4
    <3>2. QED  BY <3>1 DEF BytesOf
  <2>2. BytesOf(new) \subseteq BytesOf(all)
    <3>1. ASSUME NEW p \in 1 .. m  PROVE new[p] \in BytesOf(all)
      <4> DEFINE i == Len(s) + p
      <4>1. i \in 1 .. Len(all) /\ ~(i <= Len(s)) /\ i - Len(s) = p /\ i \in 1 .. Len(s) + m
        BY <1>0, <1>1, <1>4
      <4> HIDE DEF i
      <4>2. all[i] = new[p]  BY <1>4, <4>1
      <4>3. QED  BY <4>1, <4>2 DEF BytesOf
    <3>2. QED  BY <1>n, <3>1 DEF BytesOf
  <2>3. BytesOf(c2) \subseteq BytesOf(c) \cup BytesOf(new)  BY <1>6, <1>n DEF BytesOf
  <2>4. QED  BY <1>1, <1>2, <2>1, <2>2, <2>3
<1>8. CASE Len(c2) >= room
  <2>1. Len(t) >= room  BY <1>0, <1>2, <1>8
  <2>2. QED  BY <1>3, <1>7, <2>1 DEF Holds, s, t, all, new
<1>9. CASE k = m
  <2>1. Len(t) = Len(all)  BY <1>0, <1>1, <1>2, <1>4, <1>5, <1>9
  <2>2. ASSUME NEW i \in 1 .. Len(t)  PROVE t[i] = all[i]
    <3>0. i \in 1 .. Len(s) + m  BY <1>4, <2>1
    <3>1. CASE i <= Len(a) + Len(b)
      <4>1. i \in 1 .. Len(s) /\ i <= Len(s)  BY <1>0, <1>1, <3>1
      <4>2. all[i] = s[i]  BY <1>4, <3>0, <4>1
      <4>3. QED  BY <1>1, <1>2, <3>1, <4>1, <4>2
    <3>2. CASE i > Len(a) + Len(b)
      <4> DEFINE p == i - Len(a) - Len(b)
      <4>1. p \in 1 .. Len(c2) /\ t[i] = c2[p] /\ i = Len(a) + Len(b) + p  BY <1>0, <1>2, <3>2
      <4> HIDE DEF p
      <4>2. CASE p \in 1 .. Len(c) /\ c2[p] = c[p]
        <5>0. Len(s) = Len(a) + Len(b) + Len(c)  BY <1>1
        <5>1. /\ i \in 1 .. Len(s) /\ i <= Len(s) /\ ~(i <= Len(a)) /\ ~(i <= Len(a) + Len(b))
              /\ i - Len(a) - Len(b) = p
          BY ONLY <1>0, <4>1, <4>2, <5>0
        <5>2. all[i] = s[i] /\ s[i] = c[p]  BY <1>1, <1>4, <3>0, <5>1
        <5>3. QED  BY <4>1, <4>2, <5>2
      <4>3. CASE \E r \in 1 .. m : p = Len(c) + r /\ c2[p] = new[r]
        <5>1. PICK r \in 1 .. m : p = Len(c) + r /\ c2[p] = new[r]  BY <4>3
        <5>2. ~(i <= Len(s)) /\ i - Len(s) = r  BY <1>0, <1>1, <4>1, <5>1
        <5>3. QED  BY <1>4, <3>0, <4>1, <5>1, <5>2
      <4>4. QED  BY <1>6, <4>1, <4>2, <4>3
    <3>3. QED  BY <1>0, <3>1, <3>2
  <2>3. t = all  BY <1>4, <1>j, <2>1, <2>2, SameSeq DEF Alike
  <2>4. QED  BY <2>3 DEF Holds, s, t, all, new
<1>10. QED  BY <1>8, <1>9

(* The front of the queue is handed out.                                    *)
Rest(b, b2, k) ==
  /\ k <= Len(b) /\ Len(b2) = Len(b) - k
  /\ \A i \in 1 .. Len(b) - k : b2[i] = b[k + i]

LEMMA RestIs ==
  ASSUME NEW S, NEW s \in Seq(S), NEW k \in Nat, k <= Len(s), NEW u, u = SubSeq(s, k + 1, Len(s))
  PROVE  u \in Seq(S) /\ Rest(s, u, k)
<1> DEFINE h == k + 1
           l == Len(s)
<1>0. Len(s) \in Nat /\ l = Len(s) /\ h = k + 1 /\ l \in Int /\ h \in Int  BY LenProperties
<1>1. \A i \in h .. l : s[i] \in S
  <2>1. \A i \in h .. l : i \in 1 .. Len(s)  BY <1>0
  <2>2. \A i \in 1 .. Len(s) : s[i] \in S  BY LenProperties
  <2>3. QED  BY <2>1, <2>2
<1> HIDE DEF h, l
<1>2. /\ SubSeq(s, h, l) \in Seq(S)
      /\ Len(SubSeq(s, h, l)) = IF h <= l THEN l - h + 1 ELSE 0
      /\ \A i \in 1 .. l - h + 1 : SubSeq(s, h, l)[i] = s[h + i - 1]
  BY ONLY <1>0, <1>1, SubSeqProperties
<1>3. u = SubSeq(s, h, l) /\ l - h + 1 = Len(s) - k /\ (h <= l \/ Len(s) - k = 0)
  BY <1>0
<1>4. \A i \in 1 .. Len(s) - k : h + i - 1 = k + i  BY <1>0
<1>5. QED  BY <1>2, <1>3, <1>4 DEF Rest

LEMMA FrontGone ==
  ASSUME NEW b, NEW b2, NEW c, NEW k \in Nat, NEW s, NEW t, NEW u,
         Len(b) \in Nat, Len(b2) \in Nat, Len(c) \in Nat,
         Rest(b, b2, k), Two(s, b, c), Two(t, b2, c), Rest(s, u, k)
  PROVE  Alike(t, u)
<1>0. k <= Len(b) /\ Len(b2) = Len(b) - k /\ \A i \in 1 .. Len(b) - k : b2[i] = b[k + i]
  BY DEF Rest
<1>1. /\ Len(s) = Len(b) + Len(c)
      /\ \A i \in 1 .. Len(b) + Len(c) : s[i] = IF i <= Len(b) THEN b[i] ELSE c[i - Len(b)]
  BY DEF Two
<1>2. /\ Len(t) = Len(b2) + Len(c)
      /\ \A i \in 1 .. Len(b2) + Len(c) : t[i] = IF i <= Len(b2) THEN b2[i] ELSE c[i - Len(b2)]
  BY DEF Two
<1>3. Len(u) = Len(s) - k /\ \A i \in 1 .. Len(s) - k : u[i] = s[k + i]
  BY DEF Rest
<1>4. Len(t) = Len(u)  BY <1>0, <1>1, <1>2, <1>3
<1>5. ASSUME NEW i \in 1 .. Len(t)  PROVE t[i] = u[i]
  <2>0. /\ i \in 1 .. Len(b2) + Len(c) /\ i \in 1 .. Len(s) - k /\ k + i \in 1 .. Len(b) + Len(c)
    BY <1>0, <1>1, <1>2, <1>3, <1>4
  <2>1. CASE i <= Len(b2)
    <3>1. i \in 1 .. Len(b) - k /\ k + i <= Len(b)  BY <1>0, <2>0, <2>1
    <3>2. t[i] = b2[i] /\ b2[i] = b[k + i] /\ s[k + i] = b[k + i] /\ u[i] = s[k + i]
      BY <1>0, <1>1, <1>2, <1>3, <2>0, <2>1, <3>1
    <3>3. QED  BY <3>2
  <2>2. CASE i > Len(b2)
    <3>1. ~(i <= Len(b2)) /\ ~(k + i <= Len(b)) /\ k + i - Len(b) = i - Len(b2)  BY <1>0, <2>0, <2>2
    <3>2. t[i] = c[i - Len(b2)] /\ s[k + i] = c[k + i - Len(b)] /\ u[i] = s[k + i]
      BY <1>1, <1>2, <1>3, <2>0, <3>1
    <3>3. QED  BY <3>1, <3>2
  <2>3. QED  BY <1>0, <2>0, <2>1, <2>2
<1>6. QED  BY <1>4, <1>5 DEF Alike

LEMMA WholeSeq ==
  ASSUME NEW S, NEW s \in Seq(S), NEW c \in Seq(S), NEW t, t = s \o c
  PROVE  SubSeq(t, 1, Len(s)) = s
<1>1. /\ s \o c \in Seq(S) /\ Len(s \o c) = Len(s) + Len(c)
      /\ Len(s) \in Nat /\ Len(c) \in Nat
      /\ \A i \in 1 .. Len(s) : (s \o c)[i] = s[i]
  OBVIOUS
<1>2. ASSUME NEW w \in Seq(S), Len(w) >= Len(s), \A i \in 1 .. Len(s) : w[i] = s[i]
      PROVE  SubSeq(w, 1, Len(s)) = s
  <2> DEFINE l == Len(s)
  <2>0. l = Len(s) /\ l \in Nat /\ l \in Int /\ 1 \in Int  BY <1>1
  <2>1. \A i \in 1 .. l : w[i] \in S
    <3>1. \A i \in 1 .. Len(s) : s[i] \in S  BY LenProperties
    <3>2. QED  BY <1>2, <2>0, <3>1
  <2> HIDE DEF l
  <2>2. /\ SubSeq(w, 1, l) \in Seq(S)
        /\ Len(SubSeq(w, 1, l)) = IF 1 <= l THEN l - 1 + 1 ELSE 0
        /\ \A i \in 1 .. l - 1 + 1 : SubSeq(w, 1, l)[i] = w[1 + i - 1]
    BY ONLY <2>0, <2>1, SubSeqProperties
  <2>3. Len(SubSeq(w, 1, l)) = l /\ \A i \in 1 .. l : SubSeq(w, 1, l)[i] = w[i]
    <3>1. l - 1 + 1 = l /\ \A i \in 1 .. l : 1 + i - 1 = i  BY <2>0
    <3>2. QED  BY ONLY <2>0, <2>2, <3>1
  <2> DEFINE u == SubSeq(w, 1, l)
  <2>4. u \in Seq(S) /\ Len(u) = Len(s) /\ \A i \in 1 .. Len(u) : u[i] = s[i]
    BY <1>2, <2>0, <2>2, <2>3
  <2> HIDE DEF u
  <2>5. u = s  BY ONLY s \in Seq(S), <2>4, SameSeq DEF Alike
  <2>6. QED  BY <2>0, <2>5 DEF u
<1>3. t \in Seq(S) /\ Len(t) >= Len(s) /\ \A i \in 1 .. Len(s) : t[i] = s[i]  BY <1>1
<1>4. QED  BY <1>2, <1>3
-----------------------------------------------------------------------------
(* The way in, step by step.                                                *)
LEMMA SeqInt ==
  ASSUME NEW max \in Nat, NEW s \in Seq(0 .. max)
  PROVE  s \in Seq(Int)
OBVIOUS

LEMMA MovedAll ==
  ASSUME NEW a, NEW b, NEW c, NEW a2, NEW b2, NEW k, NEW s, NEW t,
         Len(a) \in Nat, Len(b) \in Nat, Len(c) \in Nat, Moved(a, b, a2, b2, k, k),
         Joined(s, a, b, c), Joined(t, a2, b2, c)
  PROVE  Alike(t, s)
<1>0. /\ Len(a) \in Nat /\ Len(b) \in Nat /\ Len(c) \in Nat /\ Len(a2) \in Nat /\ Len(b2) \in Nat
      /\ k \in Nat /\ k <= Len(b) /\ Len(a2) = Len(a) + k /\ Len(b2) = Len(b) - k
  BY DEF Moved
<1>1. /\ Len(s) = Len(a) + Len(b) + Len(c)
      /\ \A i \in 1 .. Len(s) : s[i] = IF i <= Len(a) THEN a[i]
                                       ELSE IF i <= Len(a) + Len(b) THEN b[i - Len(a)]
                                       ELSE c[i - Len(a) - Len(b)]
  BY DEF Joined
<1>2. /\ Len(t) = Len(a2) + Len(b2) + Len(c)
      /\ \A i \in 1 .. Len(t) : t[i] = IF i <= Len(a2) THEN a2[i]
                                       ELSE IF i <= Len(a2) + Len(b2) THEN b2[i - Len(a2)]
                                       ELSE c[i - Len(a2) - Len(b2)]
  BY DEF Joined
<1>3. Len(t) = Len(s) /\ Len(a2) + Len(b2) = Len(a) + Len(b)  BY <1>0, <1>1, <1>2
<1>4. ASSUME NEW i \in 1 .. Len(t)  PROVE t[i] = s[i]
  <2>0. i \in 1 .. Len(s) /\ i \in Nat  BY <1>3
  <2>1. CASE i <= Len(a)
    <3>1. i \in 1 .. Len(a) /\ i <= Len(a2)  BY <1>0, <2>0, <2>1
    <3>2. t[i] = a2[i] /\ a2[i] = a[i] /\ s[i] = a[i]  BY <1>1, <1>2, <2>0, <2>1, <3>1 DEF Moved
    <3>3. QED  BY <3>2
  <2>2. CASE i > Len(a) /\ i <= Len(a2)
    <3> DEFINE p == i - Len(a)
    <3>1. /\ p \in 1 .. k /\ i = Len(a) + p /\ ~(i <= Len(a)) /\ i <= Len(a) + Len(b)
      BY <1>0, <2>0, <2>2
    <3>2. s[i] = b[p]  BY <1>1, <2>0, <3>1
    <3> HIDE DEF p
    <3>3. a2[Len(a) + p] = b[p]  BY <3>1 DEF Moved
    <3>4. QED  BY <1>2, <2>0, <2>2, <3>1, <3>2, <3>3
  <2>3. CASE i > Len(a2) /\ i <= Len(a) + Len(b)
    <3> DEFINE p == i - Len(a2)
    <3>1. p \in 1 .. Len(b) - k /\ k + p = i - Len(a) /\ ~(i <= Len(a)) /\ ~(i <= Len(a2))
      BY <1>0, <2>0, <2>3
    <3>2. t[i] = b2[p] /\ s[i] = b[k + p]  BY <1>1, <1>2, <1>3, <2>0, <2>3, <3>1
    <3> HIDE DEF p
    <3>3. b2[p] = b[k + p]  BY <3>1 DEF Moved
    <3>4. QED  BY <3>2, <3>3
  <2>4. CASE i > Len(a) + Len(b)
    <3>1. /\ ~(i <= Len(a)) /\ ~(i <= Len(a2)) /\ ~(i <= Len(a2) + Len(b2))
          /\ i - Len(a2) - Len(b2) = i - Len(a) - Len(b)
      BY <1>0, <1>3, <2>0, <2>4
    <3>2. t[i] = c[i - Len(a2) - Len(b2)] /\ s[i] = c[i - Len(a) - Len(b)]
      BY <1>1, <1>2, <2>0, <2>4, <3>1
    <3>3. QED  BY <3>1, <3>2
  <2>5. QED  BY ONLY <1>0, <2>0, <2>1, <2>2, <2>3, <2>4
<1>5. QED  BY <1>3, <1>4 DEF Alike

LEMMA InputSend == ASSUME TypeOK, InInv, Feed PROVE Input!Send
<1> DEFINE B == Contents(rx, RxRing)
           C == Contents(s_rx, RxSize)
           C2 == Contents(s_rx', RxSize)
<1>1. PICK n \in Bursts : \E ks \in [1 .. n -> Kinds] :
        /\ Len(kinds) + n <= MaxIn
        /\ kinds' = kinds \o ks
        /\ s_rx' = Pushed(s_rx, Numbers(Len(kinds) + 1, Len(kinds) + n), RxSize)
  BY DEF Feed
<1>2. n \in Nat \ {0} /\ Len(kinds) + n <= MaxIn  BY <1>1, SizesHold
<1>3. Len(kinds') = Len(kinds) + n
  <2>1. PICK ks \in [1 .. n -> Kinds] : kinds' = kinds \o ks  BY <1>1
  <2>2. ks \in Seq(Kinds) /\ Len(ks) = n  BY <1>2, <2>1
  <2>3. kinds \in Seq(Kinds)  BY DEF TypeOK
  <2>4. Len(kinds \o ks) = Len(kinds) + Len(ks)  BY ONLY <2>2, <2>3, ConcatProperties
  <2>5. QED  BY <2>1, <2>2, <2>4
<1>4. UNCHANGED <<rx, got, buf, connected>> /\ connected  BY DEF Feed, conVars
<1> DEFINE k == Least(n, Free(s_rx, RxSize))
<1>5. /\ Grown(C, C2, Len(kinds), k) /\ s_rx' \in RingType(RxSize, MaxIn)
      /\ Used(s_rx', RxSize) = Used(s_rx, RxSize) + k /\ k \in Nat /\ k <= n
  <2>1. RxSize \in Nat \ {0} /\ MaxIn \in Nat /\ n \in Nat  BY <1>2, SizesHold
  <2>2. s_rx \in RingType(RxSize, MaxIn) /\ Len(kinds) \in Nat  BY InParts
  <2> DEFINE s == Numbers(Len(kinds) + 1, Len(kinds) + n)
  <2>3. s = Numbers(Len(kinds) + 1, Len(kinds) + n)  OBVIOUS
  <2>4. s_rx' = Pushed(s_rx, s, RxSize)  BY <1>1
  <2> HIDE DEF s
  <2>5. QED  BY ONLY <1>2, <2>1, <2>2, <2>3, <2>4, StoreGrows
<1>6. /\ RxSize \in Nat /\ RxSize - 1 \in Int /\ MaxIn \in Nat /\ Len(kinds) \in Nat
      /\ Used(s_rx, RxSize) \in Nat /\ Free(s_rx, RxSize) = RxSize - 1 - Used(s_rx, RxSize)
      /\ Free(s_rx, RxSize) \in Nat
  BY InParts, SizesHold, UsedIs
<1>7. k = n \/ k = Free(s_rx, RxSize)  BY DEF Least
<1>8. buf \in Seq(0 .. MaxIn) /\ B \in Seq(0 .. MaxIn) /\ C \in Seq(0 .. MaxIn)  BY InParts
<1>9. C2 \in Seq(0 .. MaxIn) /\ Len(C2) = Used(s_rx', RxSize)  BY <1>5, SizesHold, ContentsIs
<1>10. Pipe(buf, B, C, Len(kinds))  BY DEF InInv
<1> HIDE DEF B, C, C2, k
<1>11. Pipe(buf, B, C2, Len(kinds) + n)  BY <1>2, <1>5, <1>6, <1>10, PipeGrows
<1>12. k = n \/ Len(C2) >= RxSize - 1  BY <1>5, <1>6, <1>7, <1>9
<1>13. Holds(buf \o (B \o C2), (buf \o (B \o C)) \o Numbers(Len(kinds) + 1, Len(kinds) + n), RxSize - 1)
  <2>1. buf \in Seq(Int) /\ B \in Seq(Int) /\ C \in Seq(Int) /\ C2 \in Seq(Int)
    BY ONLY <1>6, <1>8, <1>9, SeqInt
  <2>2. n \in Nat  BY <1>2
  <2> DEFINE last == Len(kinds)
             room == RxSize - 1
  <2>3. /\ last \in Nat /\ room \in Int /\ Grown(C, C2, last, k) /\ Pipe(buf, B, C2, last + n)
        /\ (k = n \/ Len(C2) >= room)
    BY <1>5, <1>6, <1>11, <1>12
  <2> HIDE DEF last, room
  <2>4. Holds(buf \o (B \o C2), (buf \o (B \o C)) \o Numbers(last + 1, last + n), room)
    BY ONLY <1>5, <2>1, <2>2, <2>3, GrownHolds
  <2>5. QED  BY <2>4 DEF last, room
<1>14. Input!Kept(buf \o (B \o C2), (buf \o (B \o C)) \o Numbers(Len(kinds) + 1, Len(kinds) + n))
  BY <1>13, HoldsIsKept
<1>15. Input!Kept((buf \o Unread)', (buf \o Unread) \o Input!Numbers(Len(kinds) + 1, Len(kinds)'))
  BY <1>3, <1>4, <1>14 DEF Unread, B, C, C2, Input!Numbers, Numbers
<1>16. Len(kinds)' > Len(kinds) /\ (got - Len(buf))' = got - Len(buf)
  BY <1>2, <1>3, <1>4, <1>6
<1>17. QED  BY <1>4, <1>15, <1>16 DEF Input!Send

LEMMA InputShed == ASSUME TypeOK, InInv, PumpRx PROVE Input!Shed
<1> DEFINE B == Contents(rx, RxRing)
           C == Contents(s_rx, RxSize)
           B2 == Contents(rx', RxRing)
           C2 == Contents(s_rx', RxSize)
           f == Front(s_rx, Chunk, RxSize)
           j == Least(Len(f), Free(rx, RxRing))
           k == Least(Chunk, Used(s_rx, RxSize))
<1>1. rx' = Pushed(rx, f, RxRing) /\ s_rx' = Popped(s_rx, Chunk, RxSize)  BY DEF PumpRx
<1>2. UNCHANGED <<kinds, got, buf, connected>>  BY DEF PumpRx, conVars
<1>3. /\ Moved(B, C, B2, C2, j, k) /\ Len(f) = k
      /\ rx' \in RingType(RxRing, MaxIn) /\ s_rx' \in RingType(RxSize, MaxIn)
      /\ Used(rx', RxRing) = Used(rx, RxRing) + j
  <2>1. /\ RxSize \in Nat \ {0} /\ RxRing \in Nat \ {0} /\ MaxIn \in Nat /\ Chunk \in Nat
        /\ s_rx \in RingType(RxSize, MaxIn) /\ rx \in RingType(RxRing, MaxIn)
    BY SizesHold, InParts
  <2>2. /\ Moved(Contents(rx, RxRing), Contents(s_rx, RxSize), Contents(Pushed(rx, f, RxRing), RxRing),
                 Contents(Popped(s_rx, Chunk, RxSize), RxSize), j, k)
        /\ Len(f) = k
        /\ Pushed(rx, f, RxRing) \in RingType(RxRing, MaxIn)
        /\ Popped(s_rx, Chunk, RxSize) \in RingType(RxSize, MaxIn)
        /\ Used(Pushed(rx, f, RxRing), RxRing) = Used(rx, RxRing) + j
    BY ONLY <2>1, PumpMoves
  <2>3. QED  BY <1>1, <2>2
<1>4. j = Len(f) \/ j = Free(rx, RxRing)  BY DEF Least
<1>5. /\ RxSize \in Nat /\ RxRing \in Nat /\ RxSize <= RxRing /\ RxSize - 1 \in Int
      /\ Used(rx, RxRing) \in Nat /\ Free(rx, RxRing) = RxRing - 1 - Used(rx, RxRing)
      /\ Len(kinds) \in Nat
  BY InParts, SizesHold, UsedIs
<1>6. buf \in Seq(0 .. MaxIn) /\ B \in Seq(0 .. MaxIn) /\ C \in Seq(0 .. MaxIn)  BY InParts
<1>7. B2 \in Seq(0 .. MaxIn) /\ C2 \in Seq(0 .. MaxIn) /\ Len(B2) = Used(rx', RxRing)
  BY <1>3, SizesHold, ContentsIs
<1>8. Pipe(buf, B, C, Len(kinds))  BY DEF InInv
<1> HIDE DEF B, C, B2, C2, f, j, k
<1>9. Pipe(buf, B2, C2, Len(kinds))  BY <1>3, <1>5, <1>8, PipeMoves
<1>10. j = k \/ Len(B2) >= RxSize - 1  BY <1>3, <1>4, <1>5, <1>7
<1>11. Holds(buf \o (B2 \o C2), buf \o (B \o C), RxSize - 1)
  <2> DEFINE last == Len(kinds)
             room == RxSize - 1
  <2>1. last \in Nat /\ room \in Int /\ Pipe(buf, B2, C2, last) /\ (j = k \/ Len(B2) >= room)
    BY <1>5, <1>9, <1>10
  <2> HIDE DEF last, room
  <2>2. Holds(buf \o (B2 \o C2), buf \o (B \o C), room)
    BY ONLY <1>3, <1>6, <1>7, <2>1, MovedHolds
  <2>3. QED  BY <2>2 DEF room
<1>12. Input!Kept(buf \o (B2 \o C2), buf \o (B \o C))  BY <1>11, HoldsIsKept
<1>13. Input!Kept((buf \o Unread)', buf \o Unread)
  BY <1>2, <1>12 DEF Unread, B, C, B2, C2
<1>14. (got - Len(buf))' = got - Len(buf) /\ Len(kinds)' = Len(kinds)  BY <1>2
<1>15. QED  BY <1>2, <1>13, <1>14 DEF Input!Shed

(* What handle_console reads is still to be looked at.                      *)
LEMMA InputRead == ASSUME TypeOK, InInv, Read PROVE UNCHANGED Input!vars
<1> DEFINE B == Contents(rx, RxRing)
           C == Contents(s_rx, RxSize)
           B2 == Contents(rx', RxRing)
           f == Front(rx, ReadLen, RxRing)
           k == Least(ReadLen, Used(rx, RxRing))
<1>1. /\ pc = "read" /\ buf' = f /\ rx' = Popped(rx, ReadLen, RxRing)
      /\ got' = got + Len(buf') /\ UNCHANGED <<s_rx, kinds, connected>>
  BY DEF Read, Go
<1>2. buf = <<>>  BY <1>1 DEF InInv
<1>3. /\ Moved(buf, B, buf', B2, k, k) /\ f \in Seq(0 .. MaxIn) /\ Len(f) = k /\ k \in Nat
      /\ rx' \in RingType(RxRing, MaxIn)
  <2>1. /\ RxRing \in Nat \ {0} /\ MaxIn \in Nat /\ ReadLen \in Nat
        /\ rx \in RingType(RxRing, MaxIn) /\ buf \in Seq(0 .. MaxIn)
    BY SizesHold, InParts
  <2>2. /\ Moved(buf, Contents(rx, RxRing), buf \o f, Contents(Popped(rx, ReadLen, RxRing), RxRing), k, k)
        /\ f \in Seq(0 .. MaxIn) /\ Len(f) = k /\ k \in Nat
        /\ Popped(rx, ReadLen, RxRing) \in RingType(RxRing, MaxIn)
    BY ONLY <2>1, TakeMoves
  <2> HIDE DEF f
  <2>3. buf \o f = f
    <3>1. f \in Seq(0 .. MaxIn)  BY <2>2
    <3>2. <<>> \o f = f  BY ONLY <3>1, ConcatEmptySeq
    <3>3. QED  BY ONLY <1>2, <3>2
  <2>4. QED  BY <1>1, <2>2, <2>3
<1>4. B \in Seq(0 .. MaxIn) /\ C \in Seq(0 .. MaxIn) /\ got \in Nat  BY InParts
<1>5. B2 \in Seq(0 .. MaxIn)  BY <1>3, SizesHold, ContentsIs
<1> HIDE DEF B, C, B2, f, k
<1>6. buf' \o (B2 \o C) = buf \o (B \o C)
  <2>1. buf \in Seq(0 .. MaxIn) /\ buf' \in Seq(0 .. MaxIn)  BY <1>1, <1>3, InParts
  <2> DEFINE t == buf' \o (B2 \o C)
             s == buf \o (B \o C)
  <2>2. s = buf \o (B \o C) /\ t = buf' \o (B2 \o C)  OBVIOUS
  <2> HIDE DEF s, t
  <2>3. Moved(buf, B, buf', B2, k, k)  BY <1>3
  <2>4. s \in Seq(0 .. MaxIn) /\ Joined(s, buf, B, C)
    BY ONLY <1>4, <2>1, <2>2, ThreeIs, Zenon
  <2>5. t \in Seq(0 .. MaxIn) /\ Joined(t, buf', B2, C)
    BY ONLY <1>4, <1>5, <2>1, <2>2, ThreeIs, Zenon
  <2>6. Len(buf) \in Nat /\ Len(B) \in Nat /\ Len(C) \in Nat  BY ONLY <1>4, <2>1, LenProperties
  <2>7. Alike(t, s)  BY ONLY <2>3, <2>4, <2>5, <2>6, MovedAll
  <2>8. t = s  BY ONLY <2>4, <2>5, <2>7, SameSeq, Zenon
  <2>9. QED  BY <2>8 DEF s, t
<1>7. (buf \o Unread)' = buf \o Unread  BY <1>1, <1>6 DEF Unread, B, C, B2
<1>8. got' - Len(buf') = got - Len(buf)
  <2>1. Len(buf) = 0  BY ONLY <1>2
  <2>2. QED  BY <1>1, <1>3, <1>4, <2>1
<1>9. QED  BY <1>1, <1>7, <1>8 DEF Input!vars

(* A byte is looked at.                                                     *)
LEMMA InputOut ==
  ASSUME TypeOK, buf # <<>>, buf' = Tail(buf), UNCHANGED <<rx, s_rx, kinds, got, connected>>
  PROVE  Input!HandOut
<1>1. /\ buf \in Seq(0 .. MaxIn) /\ Len(buf) \in Nat /\ Unread \in Seq(0 .. MaxIn) /\ got \in Nat
  BY InParts, ConcatProperties DEF Unread
<1>2. /\ buf' \in Seq(0 .. MaxIn) /\ Len(buf) >= 1 /\ Len(buf') = Len(buf) - 1
      /\ \A i \in 1 .. Len(buf) - 1 : buf'[i] = buf[1 + i]
  <2>1. /\ Tail(buf) \in Seq(0 .. MaxIn) /\ Len(Tail(buf)) = Len(buf) - 1
        /\ \A i \in 1 .. Len(buf) - 1 : Tail(buf)[i] = buf[i + 1]
    BY ONLY <1>1, buf # <<>>, HeadTailProperties
  <2>2. Len(buf) >= 1  BY ONLY <1>1, buf # <<>>, EmptySeq
  <2>3. \A i \in 1 .. Len(buf) - 1 : i + 1 = 1 + i  OBVIOUS
  <2>4. QED  BY <2>1, <2>2, <2>3
<1> DEFINE q == buf \o Unread
<1>3. 1 <= Len(q) /\ buf' \o Unread = SubSeq(q, 1 + 1, Len(q))
  <2> DEFINE t == buf' \o Unread
  <2>1. q = buf \o Unread /\ t = buf' \o Unread  OBVIOUS
  <2>2. Rest(buf, buf', 1) /\ 1 \in Nat  BY <1>2 DEF Rest
  <2> HIDE DEF q, t
  <2>3. q \in Seq(0 .. MaxIn) /\ Len(q) \in Nat /\ Two(q, buf, Unread)
    BY ONLY <1>1, <2>1, TwoIs, Zenon
  <2>4. t \in Seq(0 .. MaxIn) /\ Two(t, buf', Unread)  BY ONLY <1>1, <1>2, <2>1, TwoIs, Zenon
  <2>5. Len(buf) \in Nat /\ Len(buf') \in Nat /\ Len(Unread) \in Nat
    BY ONLY <1>1, <1>2, LenProperties
  <2>6. 1 <= Len(q)  BY <1>2, <2>3, <2>5 DEF Two
  <2> DEFINE u == SubSeq(q, 1 + 1, Len(q))
  <2>7. u = SubSeq(q, 1 + 1, Len(q))  OBVIOUS
  <2> HIDE DEF u
  <2>8. u \in Seq(0 .. MaxIn) /\ Rest(q, u, 1)  BY ONLY <2>2, <2>3, <2>6, <2>7, RestIs, Zenon
  <2>9. Alike(t, u)  BY ONLY <2>2, <2>3, <2>4, <2>5, <2>8, FrontGone
  <2>10. t = u  BY ONLY <2>4, <2>8, <2>9, SameSeq, Zenon
  <2>11. QED  BY <2>6, <2>10 DEF q, t, u
<1>4. q' = SubSeq(q, 1 + 1, Len(q))  BY <1>3 DEF Unread
<1>5. 1 \in 1 .. Len(q)
  <2>1. Len(q) \in Nat  BY <1>1, ConcatProperties
  <2>2. QED  BY <1>3, <2>1
<1>6. (got - Len(buf))' = got - Len(buf) + 1  BY <1>1, <1>2
<1>7. Len(kinds)' = Len(kinds) /\ connected' = connected  OBVIOUS
<1> HIDE DEF q
<1>8. QED  BY <1>4, <1>5, <1>6, <1>7 DEF Input!HandOut, q

(* The same of two buffers.                                                 *)
LEMMA NoFront ==
  ASSUME NEW S, NEW b \in Seq(S), NEW c \in Seq(S), NEW s, s = <<>> \o (b \o c)
  PROVE  s = b \o c
<1>1. b \o c \in Seq(S)  BY ConcatProperties
<1>2. QED  BY <1>1, ConcatEmptySeq

LEMMA PipeFront ==
  ASSUME NEW a, NEW b, NEW c, NEW last \in Nat, Pipe(a, b, c, last), NEW e, e = <<>>
  PROVE  Pipe(e, b, c, last)
<1>1. Len(e) = 0  BY ONLY e = <<>>
<1>2. \A i \in 1 .. 0 : FALSE  OBVIOUS
<1>3. All(b, last) /\ All(c, last) /\ Up(b) /\ Up(c) /\ Below(b, c)  BY DEF Pipe
<1>4. QED  BY ONLY <1>1, <1>2, <1>3 DEF Pipe, All, Up, Below

LEMMA MovedHoldsTwo ==
  ASSUME NEW S, NEW a, NEW b \in Seq(S), NEW c \in Seq(S), NEW b2 \in Seq(S), NEW c2 \in Seq(S),
         NEW j, NEW k, Moved(b, c, b2, c2, j, k),
         NEW last \in Nat, Pipe(a, b2, c2, last), NEW room \in Int, j = k \/ Len(b2) >= room
  PROVE  Holds(b2 \o c2, b \o c, room)
<1> DEFINE e == <<>>
           s == e \o (b \o c)
           t == e \o (b2 \o c2)
<1>1. e = <<>> /\ e \in Seq(S) /\ s = e \o (b \o c) /\ t = e \o (b2 \o c2)  OBVIOUS
<1>2. s = b \o c /\ t = b2 \o c2  BY NoFront
<1> HIDE DEF e, s, t
<1>3. Pipe(e, b2, c2, last)  BY <1>1, PipeFront
<1>4. Holds(e \o (b2 \o c2), e \o (b \o c), room)  BY <1>1, <1>3, MovedHolds, Zenon
<1>5. Holds(t, s, room)  BY ONLY <1>1, <1>4, Zenon
<1>6. QED  BY ONLY <1>2, <1>5, Zenon

LEMMA GrownHoldsTwo ==
  ASSUME NEW a, NEW b \in Seq(Int), NEW c \in Seq(Int), NEW c2 \in Seq(Int),
         NEW last \in Nat, NEW m \in Nat, NEW k, k <= m, Grown(c, c2, last, k),
         Pipe(a, b, c2, last + m), NEW room \in Int, k = m \/ Len(c2) >= room
  PROVE  Holds(b \o c2, (b \o c) \o Numbers(last + 1, last + m), room)
<1> DEFINE e == <<>>
           s == e \o (b \o c)
           t == e \o (b \o c2)
           top == last + m
<1>1. e = <<>> /\ e \in Seq(Int) /\ s = e \o (b \o c) /\ t = e \o (b \o c2)  OBVIOUS
<1>2. s = b \o c /\ t = b \o c2  BY NoFront
<1>t. top \in Nat /\ Pipe(a, b, c2, top) /\ top = last + m  OBVIOUS
<1> HIDE DEF e, s, t, top
<1>3. Pipe(e, b, c2, top)  BY <1>t, <1>1, PipeFront
<1>4. Holds(e \o (b \o c2), (e \o (b \o c)) \o Numbers(last + 1, last + m), room)
  <2>1. Pipe(e, b, c2, last + m)  BY <1>3, <1>t
  <2>2. QED  BY <1>1, <2>1, GrownHolds, Zenon
<1>5. Holds(t, s \o Numbers(last + 1, last + m), room)  BY ONLY <1>1, <1>4, Zenon
<1>6. QED  BY ONLY <1>2, <1>5, Zenon

-----------------------------------------------------------------------------
(* The way out, step by step.                                               *)
LEMMA OutputShed == ASSUME TypeOK, OutInv, PumpTx PROVE Output!Shed
<1> DEFINE B == Contents(s_tx, TxSize)
           C == Contents(tx, TxRing)
           B2 == Contents(s_tx', TxSize)
           C2 == Contents(tx', TxRing)
           f == Front(tx, Chunk, TxRing)
           j == Least(Len(f), Free(s_tx, TxSize))
           k == Least(Chunk, Used(tx, TxRing))
<1>1. s_tx' = Pushed(s_tx, f, TxSize) /\ tx' = Popped(tx, Chunk, TxRing)
  BY DEF PumpTx
<1>2. UNCHANGED <<printed, connected, port>>  BY DEF PumpTx
<1>3. /\ Moved(B, C, B2, C2, j, k) /\ Len(f) = k
      /\ s_tx' \in RingType(TxSize, MaxOut) /\ tx' \in RingType(TxRing, MaxOut)
      /\ Used(s_tx', TxSize) = Used(s_tx, TxSize) + j
  <2>1. /\ TxSize \in Nat \ {0} /\ TxRing \in Nat \ {0} /\ MaxOut \in Nat /\ Chunk \in Nat
        /\ s_tx \in RingType(TxSize, MaxOut) /\ tx \in RingType(TxRing, MaxOut)
    BY SizesHold, OutParts
  <2>2. /\ Moved(Contents(s_tx, TxSize), Contents(tx, TxRing), Contents(Pushed(s_tx, f, TxSize), TxSize),
                 Contents(Popped(tx, Chunk, TxRing), TxRing), j, k)
        /\ Len(f) = k
        /\ Pushed(s_tx, f, TxSize) \in RingType(TxSize, MaxOut)
        /\ Popped(tx, Chunk, TxRing) \in RingType(TxRing, MaxOut)
        /\ Used(Pushed(s_tx, f, TxSize), TxSize) = Used(s_tx, TxSize) + j
    BY ONLY <2>1, PumpMoves
  <2>3. QED  BY <1>1, <2>2
<1>4. j = Len(f) \/ j = Free(s_tx, TxSize)  BY DEF Least
<1>5. /\ TxSize \in Nat /\ TxSize - 1 \in Int /\ Used(s_tx, TxSize) \in Nat
      /\ Free(s_tx, TxSize) = TxSize - 1 - Used(s_tx, TxSize) /\ printed \in Nat
  BY OutParts, SizesHold, UsedIs
<1>6. B \in Seq(0 .. MaxOut) /\ C \in Seq(0 .. MaxOut)  BY OutParts
<1>7. B2 \in Seq(0 .. MaxOut) /\ C2 \in Seq(0 .. MaxOut) /\ Len(B2) = Used(s_tx', TxSize)
  BY <1>3, SizesHold, ContentsIs
<1>8. Pipe(port.received, B, C, printed)  BY DEF OutInv
<1> HIDE DEF B, C, B2, C2, f, j, k
<1>9. Pipe(port.received, B2, C2, printed)  BY <1>3, <1>5, <1>8, PipeMoves
<1>10. j = k \/ Len(B2) >= TxSize - 1  BY <1>3, <1>4, <1>5, <1>7
<1>11. Holds(B2 \o C2, B \o C, TxSize - 1)
  <2> DEFINE room == TxSize - 1
             A == port.received
  <2>1. printed \in Nat /\ room \in Int /\ Pipe(A, B2, C2, printed) /\ (j = k \/ Len(B2) >= room)
    BY <1>5, <1>9, <1>10
  <2> HIDE DEF room, A
  <2>2. Holds(B2 \o C2, B \o C, room)
    BY ONLY <1>3, <1>6, <1>7, <2>1, MovedHoldsTwo
  <2>3. QED  BY <2>2 DEF room
<1>12. Output!Kept(B2 \o C2, B \o C)  BY <1>11, HoldsIsKept
<1>13. Output!Kept(Unsent', Unsent)
  BY <1>2, <1>12 DEF Unsent, B, C, B2, C2
<1>14. Len(port.received)' = Len(port.received)  BY <1>2
<1>15. QED  BY <1>2, <1>13, <1>14 DEF Output!Shed

LEMMA OutputSend == ASSUME TypeOK, OutInv, Write PROVE Output!Send
<1> DEFINE B == Contents(s_tx, TxSize)
           C == Contents(tx, TxRing)
           C2 == Contents(tx', TxRing)
<1>1. PICK n \in Bursts :
        /\ printed + n <= MaxOut
        /\ tx' = Pushed(tx, Numbers(printed + 1, printed + n), TxRing)
        /\ printed' = printed + n
        /\ port' = [port EXCEPT !.lagged = @ \/ Used(tx, TxRing) + Used(s_tx, TxSize) + n > TxSize - 1]
  BY DEF Write
<1>2. UNCHANGED <<s_tx, connected>> /\ connected  BY DEF Write
<1>3. n \in Nat \ {0}  BY SizesHold
<1> DEFINE k == Least(n, Free(tx, TxRing))
<1>4. port'.received = port.received
  <2>1. port \in PortType  BY OutParts
  <2>2. QED  BY <1>1, <2>1 DEF PortType
<1>5. /\ Grown(C, C2, printed, k) /\ tx' \in RingType(TxRing, MaxOut)
      /\ Used(tx', TxRing) = Used(tx, TxRing) + k /\ k \in Nat /\ k <= n
  <2>1. TxRing \in Nat \ {0} /\ MaxOut \in Nat /\ n \in Nat  BY <1>3, SizesHold
  <2>2. tx \in RingType(TxRing, MaxOut) /\ printed \in Nat  BY OutParts
  <2> DEFINE s == Numbers(printed + 1, printed + n)
  <2>3. s = Numbers(printed + 1, printed + n)  OBVIOUS
  <2>4. printed + n <= MaxOut /\ tx' = Pushed(tx, s, TxRing)  BY <1>1
  <2> HIDE DEF s
  <2>5. /\ Grown(Contents(tx, TxRing), Contents(Pushed(tx, s, TxRing), TxRing), printed, k)
        /\ Pushed(tx, s, TxRing) \in RingType(TxRing, MaxOut)
        /\ Used(Pushed(tx, s, TxRing), TxRing) = Used(tx, TxRing) + k
        /\ k \in Nat /\ k <= n
    BY ONLY <2>1, <2>2, <2>3, <2>4, StoreGrows
  <2>6. QED  BY <2>4, <2>5
<1>6. /\ TxSize \in Nat /\ TxRing \in Nat /\ TxSize <= TxRing /\ TxSize - 1 \in Int /\ printed \in Nat
      /\ Used(tx, TxRing) \in Nat /\ Free(tx, TxRing) = TxRing - 1 - Used(tx, TxRing)
      /\ MaxOut \in Nat
  BY OutParts, SizesHold, UsedIs
<1>7. k = n \/ k = Free(tx, TxRing)  BY DEF Least
<1>8. B \in Seq(0 .. MaxOut) /\ C \in Seq(0 .. MaxOut)  BY OutParts
<1>9. C2 \in Seq(0 .. MaxOut) /\ Len(C2) = Used(tx', TxRing)  BY <1>5, SizesHold, ContentsIs
<1>10. Pipe(port.received, B, C, printed)  BY DEF OutInv
<1> HIDE DEF B, C, C2, k
<1>11. Pipe(port.received, B, C2, printed + n)  BY <1>3, <1>5, <1>6, <1>10, PipeGrows
<1>12. k = n \/ Len(C2) >= TxSize - 1  BY <1>5, <1>6, <1>7, <1>9
<1>13. Holds(B \o C2, (B \o C) \o Numbers(printed + 1, printed + n), TxSize - 1)
  <2>1. B \in Seq(Int) /\ C \in Seq(Int) /\ C2 \in Seq(Int)  BY ONLY <1>6, <1>8, <1>9, SeqInt
  <2>2. n \in Nat  BY <1>3
  <2> DEFINE room == TxSize - 1
             A == port.received
  <2>3. /\ printed \in Nat /\ room \in Int /\ Grown(C, C2, printed, k) /\ Pipe(A, B, C2, printed + n)
        /\ (k = n \/ Len(C2) >= room)
    BY <1>5, <1>6, <1>11, <1>12
  <2> HIDE DEF room, A
  <2>4. Holds(B \o C2, (B \o C) \o Numbers(printed + 1, printed + n), room)
    BY ONLY <1>5, <2>1, <2>2, <2>3, GrownHoldsTwo
  <2>5. QED  BY <2>4 DEF room
<1>14. Output!Kept(B \o C2, (B \o C) \o Numbers(printed + 1, printed + n))
  BY <1>13, HoldsIsKept
<1>15. Output!Kept(Unsent', Unsent \o Output!Numbers(printed + 1, printed'))
  BY <1>1, <1>2, <1>14 DEF Unsent, B, C, C2, Output!Numbers, Numbers
<1>16. printed' > printed /\ Len(port.received)' = Len(port.received)  BY <1>1, <1>3, <1>4, <1>6
<1>17. QED  BY <1>2, <1>15, <1>16 DEF Output!Send

LEMMA OutputOut == ASSUME TypeOK, OutInv, Take PROVE Output!HandOut
<1> DEFINE A == port.received
           B == Contents(s_tx, TxSize)
           C == Contents(tx, TxRing)
           A2 == port'.received
           B2 == Contents(s_tx', TxSize)
<1>1. PICK n \in Bursts : /\ n <= Used(s_tx, TxSize)
                          /\ port' = [port EXCEPT !.received = @ \o Front(s_tx, n, TxSize)]
                          /\ s_tx' = Popped(s_tx, n, TxSize)
  BY DEF Take
<1>2. UNCHANGED <<tx, printed, connected>>  BY DEF Take
<1>3. n \in Nat \ {0} /\ Used(s_tx, TxSize) \in Nat  BY SizesHold, OutParts
<1> DEFINE f == Front(s_tx, n, TxSize)
           k == Least(n, Used(s_tx, TxSize))
<1>4. A2 = A \o f
  <2>1. port \in PortType  BY OutParts
  <2>2. QED  BY <1>1, <2>1 DEF PortType
<1>5. /\ Moved(A, B, A2, B2, k, k) /\ k \in Nat /\ k <= Used(s_tx, TxSize)
      /\ s_tx' \in RingType(TxSize, MaxOut) /\ Len(f) = k /\ f \in Seq(0 .. MaxOut)
  <2>1. /\ TxSize \in Nat \ {0} /\ MaxOut \in Nat /\ s_tx \in RingType(TxSize, MaxOut)
        /\ A \in Seq(0 .. MaxOut) /\ n \in Nat
    BY <1>3, SizesHold, OutParts
  <2> HIDE DEF A
  <2>2. /\ Moved(A, Contents(s_tx, TxSize), A \o f, Contents(Popped(s_tx, n, TxSize), TxSize), k, k)
        /\ f \in Seq(0 .. MaxOut) /\ Len(f) = k /\ k \in Nat /\ k <= Used(s_tx, TxSize)
        /\ Popped(s_tx, n, TxSize) \in RingType(TxSize, MaxOut)
    BY ONLY <2>1, TakeMoves
  <2>3. QED  BY <1>1, <1>4, <2>2
<1>6. k = n  BY <1>1 DEF Least
<1>7. /\ B \in Seq(0 .. MaxOut) /\ C \in Seq(0 .. MaxOut) /\ Len(A) \in Nat
      /\ Len(B) = Used(s_tx, TxSize)
  BY OutParts
<1>8. B2 \in Seq(0 .. MaxOut)  BY <1>5, SizesHold, ContentsIs
<1> HIDE DEF A, B, C, A2, B2, f, k
<1>9. Rest(B, B2, n) /\ Len(A2) = Len(A) + n  BY <1>5, <1>6 DEF Moved, Rest
<1> DEFINE q == B \o C
           t == B2 \o C
           u == SubSeq(q, n + 1, Len(q))
<1>10. q = B \o C /\ t = B2 \o C /\ u = SubSeq(q, n + 1, Len(q))  OBVIOUS
<1> HIDE DEF q, t, u
<1>11. q \in Seq(0 .. MaxOut) /\ Len(q) \in Nat /\ Two(q, B, C)
  BY ONLY <1>7, <1>10, TwoIs, Zenon
<1>12. t \in Seq(0 .. MaxOut) /\ Two(t, B2, C)  BY ONLY <1>7, <1>8, <1>10, TwoIs, Zenon
<1>13. Len(B) \in Nat /\ Len(B2) \in Nat /\ Len(C) \in Nat  BY ONLY <1>7, <1>8, LenProperties
<1>14. n <= Len(q)  BY <1>1, <1>3, <1>7, <1>11, <1>13 DEF Two
<1>15. n \in Nat  BY <1>3
<1>16. u \in Seq(0 .. MaxOut) /\ Rest(q, u, n)  BY ONLY <1>10, <1>11, <1>14, <1>15, RestIs, Zenon
<1>17. Alike(t, u)  BY ONLY <1>9, <1>11, <1>12, <1>13, <1>15, <1>16, FrontGone
<1>18. t = u  BY ONLY <1>12, <1>16, <1>17, SameSeq, Zenon
<1>19. Unsent = q /\ Unsent' = SubSeq(q, n + 1, Len(q))
  BY <1>2, <1>10, <1>18 DEF Unsent, B, C, B2
<1>20. n \in 1 .. Len(q)  BY <1>3, <1>11, <1>14
<1>21. Len(port.received)' = Len(port.received) + n  BY <1>9 DEF A, A2
<1>22. QED  BY <1>2, <1>19, <1>20, <1>21 DEF Output!HandOut

LEMMA AllOf ==
  ASSUME NEW S, NEW s \in Seq(S)
  PROVE  SubSeq(s, 1, Len(s)) = s /\ Len(s) \in 0 .. Len(s)
<1>1. <<>> \in Seq(S) /\ Len(s) \in Nat  OBVIOUS
<1> DEFINE e == <<>>
           t == s \o e
<1>2. t = s /\ t = s \o e /\ e \in Seq(S)  BY <1>1, ConcatEmptySeq
<1> HIDE DEF e, t
<1>3. SubSeq(t, 1, Len(s)) = s  BY ONLY s \in Seq(S), <1>2, WholeSeq, Zenon
<1>4. QED  BY <1>1, <1>2, <1>3

LEMMA LengthNone ==
  ASSUME NEW S, NEW s \in Seq(S), Len(s) = 0
  PROVE  s = <<>>
BY EmptySeq

(* The end of a session: the bytes in the FIFO stay, those on the page go,  *)
(* unless it was the bus that was reset.                                    *)
LEMMA OutputCut ==
  ASSUME TypeOK, OutInv, connected, ClosePort \/ BusReset
  PROVE  Output!Cut
<1> DEFINE B == Contents(s_tx, TxSize)
           C == Contents(tx, TxRing)
           C2 == Contents(tx', TxRing)
<1>1. port'.received = <<>>
  <2>1. port \in PortType  BY OutParts
  <2>2. QED  BY <2>1 DEF PortType, ClosePort, BusReset
<1>2. UNCHANGED <<s_tx, printed>> /\ connected' = FALSE
  BY DEF ClosePort, BusReset, outVars
<1>3. B \in Seq(0 .. MaxOut) /\ C \in Seq(0 .. MaxOut)  BY OutParts
<1>4. Len(port'.received) = 0  BY ONLY <1>1
<1>5. \E k \in 0 .. Len(B \o C) : B \o C2 = SubSeq(B \o C, 1, k)
  <2>1. CASE ClosePort
    <3>1. TxRing \in Nat \ {0} /\ MaxOut \in Nat /\ tx \in RingType(TxRing, MaxOut)
      BY SizesHold, OutParts
    <3>2. tx' = [tx EXCEPT !.head = tx.tail]  BY <2>1 DEF ClosePort
    <3>3. tx' \in RingType(TxRing, MaxOut) /\ Used(tx', TxRing) = 0  BY ONLY <3>1, <3>2, EmptyIs
    <3>4. C2 \in Seq(0 .. MaxOut) /\ Len(C2) = 0  BY ONLY <3>1, <3>3, ContentsIs
    <3>5. C2 = <<>>  BY ONLY <3>4, LengthNone
    <3> DEFINE q == B \o C
    <3>6. q = B \o C  OBVIOUS
    <3> HIDE DEF B, C, C2, q
    <3>7. SubSeq(q, 1, Len(B)) = B  BY ONLY <1>3, <3>6, WholeSeq, Zenon
    <3>8. B \o C2 = B  BY ONLY <1>3, <3>5, ConcatEmptySeq
    <3>9. Len(B) \in 0 .. Len(q)
      <4>1. Len(q) = Len(B) + Len(C)  BY ONLY <1>3, <3>6, ConcatProperties
      <4>2. Len(B) \in Nat /\ Len(C) \in Nat  BY ONLY <1>3, LenProperties
      <4>3. QED  BY <4>1, <4>2
    <3>10. QED  BY ONLY <3>6, <3>7, <3>8, <3>9, Zenon
  <2>2. CASE BusReset
    <3>1. C2 = C  BY <2>2 DEF BusReset, outVars
    <3> DEFINE q == B \o C
    <3>2. q = B \o C /\ q = B \o C2  BY <3>1
    <3> HIDE DEF B, C, C2, q
    <3>3. q \in Seq(0 .. MaxOut)  BY ONLY <1>3, <3>2, ConcatProperties
    <3>4. SubSeq(q, 1, Len(q)) = q /\ Len(q) \in 0 .. Len(q)  BY ONLY <3>3, AllOf, Zenon
    <3>5. QED  BY ONLY <3>2, <3>4, Zenon
  <2>3. QED  BY <2>1, <2>2
<1>6. Unsent = B \o C /\ Unsent' = B \o C2  BY <1>2 DEF Unsent
<1> HIDE DEF B, C, C2
<1>7. QED  BY <1>2, <1>4, <1>5, <1>6 DEF Output!Cut

LEMMA InputCut ==
  ASSUME TypeOK, connected, ClosePort \/ BusReset
  PROVE  Input!Cut
<1> DEFINE q == buf \o Unread
<1>1. UNCHANGED <<rx, s_rx, kinds, got, buf>> /\ connected' = FALSE
  BY DEF ClosePort, BusReset, inVars, conVars
<1>2. q \in Seq(0 .. MaxIn)  BY InParts, ConcatProperties DEF Unread
<1>3. q' = q /\ (got - Len(buf))' = got - Len(buf) /\ Len(kinds)' = Len(kinds)
  BY <1>1 DEF Unread
<1>q. q = buf \o Unread  OBVIOUS
<1> HIDE DEF q
<1>4. SubSeq(q, 1, Len(q)) = q /\ Len(q) \in 0 .. Len(q)  BY ONLY <1>2, AllOf, Zenon
<1>5. \E k \in 0 .. Len(q) : q' = SubSeq(q, 1, k) /\ (~FALSE => k = Len(q))
  BY ONLY <1>3, <1>4, Zenon
<1>6. QED  BY <1>1, <1>3, <1>5 DEF Input!Cut, q

(* usb_serial_init empties what is empty.                                   *)
LEMMA StartEmpty ==
  ASSUME UsbInv, StartUsb
  PROVE  UNCHANGED Input!vars /\ UNCHANGED Output!vars
<1>1. TypeOK /\ StartInv /\ InInv /\ OutInv  BY DEF UsbInv
<1>2. /\ pc = "start" /\ UNCHANGED <<kinds, got, printed, buf, port>> /\ connected' = FALSE
  BY DEF StartUsb, Go, conVars
<1>3. /\ buf = <<>> /\ kinds = <<>> /\ got = 0 /\ printed = 0 /\ ~connected
      /\ connected \in BOOLEAN
  BY <1>1, <1>2 DEF StartInv, TypeOK
<1>4. /\ rx' \in RingType(RxRing, MaxIn) /\ s_rx' \in RingType(RxSize, MaxIn)
      /\ tx' \in RingType(TxRing, MaxOut) /\ s_tx' \in RingType(TxSize, MaxOut)
      /\ InInv' /\ OutInv'
  BY <1>1, StartEmpties
<1>5. ASSUME NEW n \in Nat \ {0}, NEW max \in Nat, NEW r \in RingType(n, max), NEW last, last = 0,
             All(Contents(r, n), last)
      PROVE  Contents(r, n) = <<>>
  <2> DEFINE s == Contents(r, n)
  <2>1. s \in Seq(0 .. max)  BY ContentsIs
  <2>2. All(s, last)  BY <1>5
  <2> HIDE DEF s
  <2>3. Len(s) \in Nat /\ \A i \in 1 .. Len(s) : s[i] \in Nat /\ 1 <= s[i] /\ s[i] <= 0
    BY <1>5, <2>2 DEF All
  <2>4. Len(s) = 0
    <3>1. 1 \notin 1 .. Len(s)  BY <2>3
    <3>2. QED  BY <2>3, <3>1
  <2>5. s = <<>>  BY ONLY <2>1, <2>4, LengthNone
  <2>6. QED  BY <2>5 DEF s
<1>6. Len(kinds) = 0 /\ Len(buf) = 0  BY ONLY <1>3
<1>7. /\ All(Contents(rx, RxRing), Len(kinds)) /\ All(Contents(s_rx, RxSize), Len(kinds))
      /\ All(Contents(tx, TxRing), printed) /\ All(Contents(s_tx, TxSize), printed)
  BY <1>1 DEF InInv, OutInv, Pipe
<1>8. /\ All(Contents(rx', RxRing), Len(kinds)) /\ All(Contents(s_rx', RxSize), Len(kinds))
      /\ All(Contents(tx', TxRing), printed) /\ All(Contents(s_tx', TxSize), printed)
  BY <1>2, <1>4 DEF InInv, OutInv, Pipe
<1>9. /\ RxRing \in Nat \ {0} /\ RxSize \in Nat \ {0} /\ TxRing \in Nat \ {0} /\ TxSize \in Nat \ {0}
      /\ MaxIn \in Nat /\ MaxOut \in Nat
  BY SizesHold
<1>10. /\ rx \in RingType(RxRing, MaxIn) /\ s_rx \in RingType(RxSize, MaxIn)
       /\ tx \in RingType(TxRing, MaxOut) /\ s_tx \in RingType(TxSize, MaxOut)
  BY <1>1, InParts, OutParts
<1>11. Contents(rx, RxRing) = <<>> /\ Contents(s_rx, RxSize) = <<>>
  BY ONLY <1>5, <1>6, <1>7, <1>9, <1>10
<1>12. Contents(tx, TxRing) = <<>> /\ Contents(s_tx, TxSize) = <<>>
  BY ONLY <1>3, <1>5, <1>7, <1>9, <1>10
<1>13. Contents(rx', RxRing) = <<>> /\ Contents(s_rx', RxSize) = <<>>
  BY ONLY <1>4, <1>5, <1>6, <1>8, <1>9
<1>14. Contents(tx', TxRing) = <<>> /\ Contents(s_tx', TxSize) = <<>>
  BY ONLY <1>3, <1>4, <1>5, <1>8, <1>9
<1>15. UNCHANGED Unread /\ UNCHANGED Unsent
  BY ONLY <1>11, <1>12, <1>13, <1>14 DEF Unread, Unsent
<1>16. (buf \o Unread)' = buf \o Unread /\ (got - Len(buf))' = got - Len(buf)
  BY ONLY <1>2, <1>15
<1>17. connected' = connected  BY <1>2, <1>3
<1>18. QED  BY <1>2, <1>15, <1>16, <1>17 DEF Input!vars, Output!vars

LEMMA InputStill ==
  ASSUME UNCHANGED <<rx, s_rx, kinds, got, buf, connected>>
  PROVE  UNCHANGED Input!vars
BY DEF Input!vars, Unread

LEMMA OutputStill ==
  ASSUME UNCHANGED <<tx, s_tx, printed, connected>>, port'.received = port.received
  PROVE  UNCHANGED Output!vars
BY DEF Output!vars, Unsent

(* Every step of the console is one of each channel, or stutters there.     *)
LEMMA ChannelSteps ==
  ASSUME UsbInv, [Next]_vars
  PROVE  [Input!Next]_(Input!vars) /\ [Output!Next]_(Output!vars)
<1>1. TypeOK /\ InInv /\ OutInv /\ port \in PortType /\ connected \in BOOLEAN
  BY OutParts DEF UsbInv, TypeOK
<1>2. CASE Feed
  <2>1. Input!Send  BY <1>1, <1>2, InputSend
  <2>2. UNCHANGED <<tx, s_tx, printed, connected>> /\ port'.received = port.received
    BY <1>1, <1>2 DEF Feed, outVars, PortType
  <2>3. UNCHANGED Output!vars  BY <2>2, OutputStill
  <2>4. QED  BY <2>1, <2>3 DEF Input!Next
<1>3. CASE Take
  <2>1. Output!HandOut  BY <1>1, <1>3, OutputOut
  <2>2. UNCHANGED <<rx, s_rx, kinds, got, buf, connected>>  BY <1>3 DEF Take, inVars, conVars
  <2>3. UNCHANGED Input!vars  BY <2>2, InputStill
  <2>4. QED  BY <2>1, <2>3 DEF Output!Next
<1>4. CASE OpenPort
  <2>1. /\ UNCHANGED <<rx, s_rx, kinds, got, buf, tx, s_tx, printed>> /\ ~connected /\ connected'
        /\ port'.received = port.received
    BY <1>1, <1>4 DEF OpenPort, inVars, outVars, conVars, PortType
  <2>2. Input!Open  BY <2>1 DEF Input!Open, Unread
  <2>3. Output!Open  BY <2>1 DEF Output!Open, Unsent
  <2>4. QED  BY <2>2, <2>3 DEF Input!Next, Output!Next
<1>5. CASE ClosePort \/ (BusReset /\ connected)
  <2>1. connected  BY <1>5 DEF ClosePort
  <2>2. Input!Cut  BY <1>1, <1>5, <2>1, InputCut
  <2>3. Output!Cut  BY <1>1, <1>5, <2>1, OutputCut
  <2>4. QED  BY <2>2, <2>3 DEF Input!Next, Output!Next
<1>6. CASE BusReset /\ ~connected
  <2>1. /\ UNCHANGED <<rx, s_rx, kinds, got, buf, tx, s_tx, printed>> /\ connected' = FALSE
        /\ port'.received = <<>> /\ port.received = <<>>
    BY <1>1, <1>6 DEF BusReset, inVars, outVars, conVars, PortType, OutInv
  <2>2. UNCHANGED connected  BY <1>1, <1>6, <2>1
  <2>3. UNCHANGED Input!vars  BY <2>1, <2>2, InputStill
  <2>4. UNCHANGED Output!vars  BY <2>1, <2>2, OutputStill
  <2>5. QED  BY <2>3, <2>4
<1>7. CASE StartUsb  BY <1>7, StartEmpty
<1>8. CASE PumpRx \/ Read \/ LineChar \/ LineReturn \/ LineRun
  <2>1. UNCHANGED <<tx, s_tx, printed, connected, port>>
    BY <1>8 DEF PumpRx, Read, LineChar, LineReturn, LineRun, outVars
  <2>2. UNCHANGED Output!vars  BY <2>1, OutputStill
  <2>3. [Input!Next]_(Input!vars)
    <3>1. CASE PumpRx  BY <1>1, <3>1, InputShed DEF Input!Next
    <3>2. CASE Read  BY <1>1, <3>2, InputRead
    <3>3. CASE LineChar \/ LineReturn \/ LineRun
      <4>1. buf # <<>> /\ buf' = Tail(buf) /\ UNCHANGED <<rx, s_rx, kinds, got, connected>>
        BY <3>3 DEF LineChar, LineReturn, LineRun, inVars
      <4>2. Input!HandOut  BY <1>1, <4>1, InputOut
      <4>3. QED  BY <4>2 DEF Input!Next
    <3>4. QED  BY <1>8, <3>1, <3>2, <3>3
  <2>4. QED  BY <2>2, <2>3
<1>9. CASE PumpTx \/ Write
  <2>1. UNCHANGED <<rx, s_rx, kinds, got, buf, connected>>
    BY <1>9 DEF PumpTx, Write, inVars, conVars
  <2>2. UNCHANGED Input!vars  BY <2>1, InputStill
  <2>3. CASE PumpTx  BY <1>1, <2>2, <2>3, OutputShed DEF Output!Next
  <2>4. CASE Write  BY <1>1, <2>2, <2>4, OutputSend DEF Output!Next
  <2>5. QED  BY <1>9, <2>3, <2>4
<1>10. CASE \/ SkipUsb \/ PollNothing \/ Poll \/ TaskDone \/ PumpRxDone \/ PumpTxDone \/ Publish
            \/ LineDone \/ UNCHANGED vars
  <2>1. UNCHANGED <<rx, s_rx, kinds, got, buf, tx, s_tx, printed, connected, port>>
    BY <1>10 DEF SkipUsb, PollNothing, Poll, TaskDone, PumpRxDone, PumpTxDone, Publish, LineDone,
                 vars, inVars, outVars, conVars
  <2>2. UNCHANGED Input!vars /\ UNCHANGED Output!vars  BY <2>1, InputStill, OutputStill
  <2>3. QED  BY <2>2
<1>11. QED
  BY <1>2, <1>3, <1>4, <1>5, <1>6, <1>7, <1>8, <1>9, <1>10 DEF Next, Host, Kernel

LEMMA ChannelInit == Init => Input!Init /\ Output!Init
<1> SUFFICES ASSUME Init PROVE Input!Init /\ Output!Init  OBVIOUS
<1>1. /\ rx = Empty(RxRing) /\ s_rx = Empty(RxSize) /\ tx = Empty(TxRing) /\ s_tx = Empty(TxSize)
      /\ buf = <<>> /\ kinds = <<>> /\ got = 0 /\ printed = 0 /\ connected = FALSE
      /\ port.received = <<>>
  BY DEF Init
<1>2. /\ RxRing \in Nat \ {0} /\ RxSize \in Nat \ {0} /\ TxRing \in Nat \ {0} /\ TxSize \in Nat \ {0}
      /\ MaxIn \in Nat
  BY SizesHold
<1>3. ASSUME NEW n \in Nat \ {0}  PROVE Contents(Empty(n), n) = <<>>
  <2>1. Empty(n) \in RingType(n, MaxIn) /\ Used(Empty(n), n) = 0  BY <1>2, EmptyIs
  <2>2. Contents(Empty(n), n) \in Seq(0 .. MaxIn) /\ Len(Contents(Empty(n), n)) = 0
    BY ONLY <1>2, <1>3, <2>1, ContentsIs
  <2>3. QED  BY ONLY <2>2, LengthNone
<1>4. /\ Contents(rx, RxRing) = <<>> /\ Contents(s_rx, RxSize) = <<>>
      /\ Contents(tx, TxRing) = <<>> /\ Contents(s_tx, TxSize) = <<>>
  BY ONLY <1>1, <1>2, <1>3
<1>5. Unread = <<>> /\ Unsent = <<>> /\ buf \o Unread = <<>>  BY ONLY <1>1, <1>4 DEF Unread, Unsent
<1>6. Len(kinds) = 0 /\ got - Len(buf) = 0 /\ Len(port.received) = 0
  <2>1. Len(kinds) = 0 /\ Len(buf) = 0 /\ Len(port.received) = 0  BY ONLY <1>1
  <2>2. got = 0  BY <1>1
  <2>3. QED  BY ONLY <2>1, <2>2
<1>7. QED  BY ONLY <1>1, <1>5, <1>6 DEF Input!Init, Output!Init

(* Each direction of the console is a channel that loses bytes only while   *)
(* it is full: for every size of the buffers and every pattern of bursts,   *)
(* sessions and pumps, at least a FIFO's worth of the bytes that came       *)
(* before and during a loss stays on its way, in order.                     *)
THEOREM BytesKeptHolds == Spec => BytesKept
<1>1. Init => Input!Init /\ Output!Init  BY ChannelInit
<1>2. UsbInv /\ [Next]_vars => [Input!Next]_(Input!vars) /\ [Output!Next]_(Output!vars)
  BY ChannelSteps
<1>3. QED
  BY <1>1, <1>2, UsbInvHolds, PTL DEF Spec, BytesKept, Input!Spec, Output!Spec
=============================================================================
