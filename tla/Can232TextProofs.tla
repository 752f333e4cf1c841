------------------------- MODULE Can232TextProofs -------------------------
(***************************************************************************)
(* Theorems about Can232Text: what is on the bus are frames, the driver    *)
(* understands every frame on it, and the data the application sends is    *)
(* there once each and in order, for any messages, frames and timestamps.  *)
(***************************************************************************)
EXTENDS Can232Text, SequenceTheorems, TLAPS

----------------------------------------------------------------------------
(* The parts of a text *)

\* A function on 1 .. n is a sequence of length n.
LEMMA FunctionIsSequence ==
  ASSUME NEW S, NEW n \in Nat, NEW f \in [1 .. n -> S]
  PROVE  f \in Seq(S) /\ Len(f) = n
OBVIOUS

\* Two texts, one after the other.
LEMMA Joined ==
  ASSUME NEW S, NEW x \in Seq(S), NEW y \in Seq(S)
  PROVE  /\ x \o y \in Seq(S)
         /\ Len(x \o y) = Len(x) + Len(y)
         /\ Len(x) \in Nat /\ Len(y) \in Nat
         /\ \A i \in 1 .. Len(x) : (x \o y)[i] = x[i]
         /\ \A i \in 1 .. Len(y) : (x \o y)[Len(x) + i] = y[i]
OBVIOUS

\* Text p is made of six parts, each at the sum of the lengths before it.
MadeOf(S, p, a, b, c, d, e, z) ==
  /\ p \in Seq(S)
  /\ Len(p) = Len(a) + Len(b) + Len(c) + Len(d) + Len(e) + Len(z)
  /\ \A i \in 1 .. Len(a) : p[i] = a[i]
  /\ \A i \in 1 .. Len(b) : p[Len(a) + i] = b[i]
  /\ \A i \in 1 .. Len(c) : p[Len(a) + Len(b) + i] = c[i]
  /\ \A i \in 1 .. Len(d) : p[Len(a) + Len(b) + Len(c) + i] = d[i]
  /\ \A i \in 1 .. Len(e) : p[Len(a) + Len(b) + Len(c) + Len(d) + i] = e[i]
  /\ \A i \in 1 .. Len(z) :
       p[Len(a) + Len(b) + Len(c) + Len(d) + Len(e) + i] = z[i]

\* Six parts, put together, are where they should be.
LEMMA Parts ==
  ASSUME NEW S, NEW a \in Seq(S), NEW b \in Seq(S), NEW c \in Seq(S),
         NEW d \in Seq(S), NEW e \in Seq(S), NEW z \in Seq(S)
  PROVE  MadeOf(S, a \o b \o c \o d \o e \o z, a, b, c, d, e, z)
<1> DEFINE Extends(u, x, y) ==
             /\ u \in Seq(S)
             /\ Len(u) = Len(x) + Len(y)
             /\ Len(x) \in Nat /\ Len(y) \in Nat
             /\ \A i \in 1 .. Len(x) : u[i] = x[i]
             /\ \A i \in 1 .. Len(y) : u[Len(x) + i] = y[i]
<1>1. PICK q : q = a \o b
  OBVIOUS
<1>2. PICK s : s = q \o c
  OBVIOUS
<1>3. PICK u : u = s \o d
  OBVIOUS
<1>4. PICK v : v = u \o e
  OBVIOUS
<1>5. PICK p : p = v \o z
  OBVIOUS
<1>6. /\ q \in Seq(S) /\ s \in Seq(S) /\ u \in Seq(S)
      /\ v \in Seq(S) /\ p \in Seq(S)
  BY <1>1, <1>2, <1>3, <1>4, <1>5
<1>7. \A x \in Seq(S), y \in Seq(S) : Extends(x \o y, x, y)
  BY Joined
<1>8. /\ Extends(q, a, b) /\ Extends(s, q, c) /\ Extends(u, s, d)
      /\ Extends(v, u, e) /\ Extends(p, v, z)
  <2> HIDE DEF Extends
  <2> QED  BY <1>1, <1>2, <1>3, <1>4, <1>5, <1>6, <1>7
<1>9. /\ Len(q) = Len(a) + Len(b)
      /\ Len(s) = Len(q) + Len(c)
      /\ Len(u) = Len(s) + Len(d)
      /\ Len(v) = Len(u) + Len(e)
      /\ Len(p) = Len(v) + Len(z)
      /\ Len(a) \in Nat /\ Len(b) \in Nat /\ Len(c) \in Nat
      /\ Len(d) \in Nat /\ Len(e) \in Nat /\ Len(z) \in Nat
  BY <1>8
<1>10. \A i \in 1 .. Len(z) : p[Len(v) + i] = z[i]
  BY <1>8
<1>11. /\ \A i \in 1 .. Len(v) : p[i] = v[i]
       /\ \A i \in 1 .. Len(e) : v[Len(u) + i] = e[i]
  BY <1>8
<1>12. \A i \in 1 .. Len(e) : p[Len(u) + i] = e[i]
  BY <1>9, <1>11
<1>13. \A i \in 1 .. Len(u) : p[i] = u[i]
  <2>1. \A i \in 1 .. Len(u) : v[i] = u[i]
    BY <1>8
  <2>2. Len(u) <= Len(v) /\ Len(u) \in Nat /\ Len(v) \in Nat
    BY <1>9
  <2>3. \A i \in 1 .. Len(u) : p[i] = v[i]
    <3> SUFFICES ASSUME NEW i \in 1 .. Len(u) PROVE p[i] = v[i]
      OBVIOUS
    <3>1. i \in 1 .. Len(v)
      BY <2>2
    <3> QED  BY <3>1, <1>11
  <2> QED  BY <2>1, <2>3
<1>14. /\ \A i \in 1 .. Len(s) : u[i] = s[i]
       /\ \A i \in 1 .. Len(d) : u[Len(s) + i] = d[i]
  BY <1>8
<1>15. /\ \A i \in 1 .. Len(s) : p[i] = s[i]
       /\ \A i \in 1 .. Len(d) : p[Len(s) + i] = d[i]
  <2>1. /\ Len(s) \in Nat /\ Len(d) \in Nat /\ Len(u) \in Nat
        /\ Len(s) <= Len(u) /\ Len(s) + Len(d) <= Len(u)
    BY <1>9
  <2>2. \A i \in 1 .. Len(u) : p[i] = u[i]
    BY <1>13
  <2>3. \A i \in 1 .. Len(s) : p[i] = u[i]
    <3> SUFFICES ASSUME NEW i \in 1 .. Len(s) PROVE p[i] = u[i]
      OBVIOUS
    <3>1. i \in 1 .. Len(u)
      BY <2>1
    <3> QED  BY <3>1, <2>2
  <2>4. \A i \in 1 .. Len(d) : p[Len(s) + i] = u[Len(s) + i]
    <3> SUFFICES ASSUME NEW i \in 1 .. Len(d)
                 PROVE  p[Len(s) + i] = u[Len(s) + i]
      OBVIOUS
    <3>1. Len(s) + i \in 1 .. Len(u)
      BY <2>1
    <3> QED  BY <3>1, <2>2
  <2> QED  BY <2>3, <2>4, <1>14
<1>16. /\ \A i \in 1 .. Len(q) : s[i] = q[i]
       /\ \A i \in 1 .. Len(c) : s[Len(q) + i] = c[i]
  BY <1>8
<1>17. /\ \A i \in 1 .. Len(q) : p[i] = q[i]
       /\ \A i \in 1 .. Len(c) : p[Len(q) + i] = c[i]
  <2>1. /\ Len(q) \in Nat /\ Len(c) \in Nat /\ Len(s) \in Nat
        /\ Len(q) <= Len(s) /\ Len(q) + Len(c) <= Len(s)
    BY <1>9
  <2>2. \A i \in 1 .. Len(s) : p[i] = s[i]
    BY <1>15
  <2>3. \A i \in 1 .. Len(q) : p[i] = s[i]
    <3> SUFFICES ASSUME NEW i \in 1 .. Len(q) PROVE p[i] = s[i]
      OBVIOUS
    <3>1. i \in 1 .. Len(s)
      BY <2>1
    <3> QED  BY <3>1, <2>2
  <2>4. \A i \in 1 .. Len(c) : p[Len(q) + i] = s[Len(q) + i]
    <3> SUFFICES ASSUME NEW i \in 1 .. Len(c)
                 PROVE  p[Len(q) + i] = s[Len(q) + i]
      OBVIOUS
    <3>1. Len(q) + i \in 1 .. Len(s)
      BY <2>1
    <3> QED  BY <3>1, <2>2
  <2> QED  BY <2>3, <2>4, <1>16
<1>18. /\ \A i \in 1 .. Len(a) : q[i] = a[i]
       /\ \A i \in 1 .. Len(b) : q[Len(a) + i] = b[i]
  BY <1>8
<1>19. /\ \A i \in 1 .. Len(a) : p[i] = a[i]
       /\ \A i \in 1 .. Len(b) : p[Len(a) + i] = b[i]
  <2>1. /\ Len(a) \in Nat /\ Len(b) \in Nat /\ Len(q) \in Nat
        /\ Len(a) <= Len(q) /\ Len(a) + Len(b) <= Len(q)
    BY <1>9
  <2>2. \A i \in 1 .. Len(q) : p[i] = q[i]
    BY <1>17
  <2>3. \A i \in 1 .. Len(a) : p[i] = q[i]
    <3> SUFFICES ASSUME NEW i \in 1 .. Len(a) PROVE p[i] = q[i]
      OBVIOUS
    <3>1. i \in 1 .. Len(q)
      BY <2>1
    <3> QED  BY <3>1, <2>2
  <2>4. \A i \in 1 .. Len(b) : p[Len(a) + i] = q[Len(a) + i]
    <3> SUFFICES ASSUME NEW i \in 1 .. Len(b)
                 PROVE  p[Len(a) + i] = q[Len(a) + i]
      OBVIOUS
    <3>1. Len(a) + i \in 1 .. Len(q)
      BY <2>1
    <3> QED  BY <3>1, <2>2
  <2> QED  BY <2>3, <2>4, <1>18
<1>20. /\ Len(q) = Len(a) + Len(b)
       /\ Len(s) = Len(a) + Len(b) + Len(c)
       /\ Len(u) = Len(a) + Len(b) + Len(c) + Len(d)
       /\ Len(v) = Len(a) + Len(b) + Len(c) + Len(d) + Len(e)
       /\ Len(p) = Len(a) + Len(b) + Len(c) + Len(d) + Len(e) + Len(z)
  BY <1>9
<1>21. MadeOf(S, p, a, b, c, d, e, z)
  BY <1>6, <1>10, <1>12, <1>15, <1>17, <1>19, <1>20 DEF MadeOf
<1> QED  BY <1>1, <1>2, <1>3, <1>4, <1>5, <1>21

\* Data of n bytes have 2n digits, and two by two they are the bytes again.
LEMMA DigitsOfData ==
  ASSUME NEW data, IsData(data)
  PROVE  /\ DataDigits(data) \in Seq(Digits)
         /\ Len(DataDigits(data)) = 2 * Len(data)
         /\ \A i \in 1 .. Len(data) :
              <<DataDigits(data)[2 * i - 1], DataDigits(data)[2 * i]>> = data[i]
<1> DEFINE n == Len(data)
           D == DataDigits(data)
<1>1. n \in Nat /\ \A i \in 1 .. n : data[i] \in Bytes
  BY DEF IsData
<1>2. \A i \in 1 .. 2 * n : (i + 1) \div 2 \in 1 .. n /\ 2 - (i % 2) \in {1, 2}
  <2> HIDE DEF n
  <2> QED  BY <1>1
<1>3. D = [i \in 1 .. 2 * n |-> data[(i + 1) \div 2][2 - (i % 2)]]
  BY DEF DataDigits
<1>4. \A x \in Bytes : x[1] \in Digits /\ x[2] \in Digits /\ x = <<x[1], x[2]>>
  BY DEF Bytes
<1>5. \A i \in 1 .. 2 * n : data[(i + 1) \div 2][2 - (i % 2)] \in Digits
  <2> HIDE DEF n
  <2> QED  BY <1>1, <1>2, <1>4
<1>6. D \in [1 .. 2 * n -> Digits]
  <2> HIDE DEF n, D
  <2> QED  BY <1>3, <1>5
<1>7. D \in Seq(Digits) /\ Len(D) = 2 * n
  <2> HIDE DEF n, D
  <2>1. 2 * n \in Nat
    BY <1>1
  <2> QED  BY <1>6, <2>1
<1>8. ASSUME NEW i \in 1 .. n
      PROVE  <<D[2 * i - 1], D[2 * i]>> = data[i]
  <2> HIDE DEF n, D
  <2>1. /\ 2 * i - 1 \in 1 .. 2 * n /\ 2 * i \in 1 .. 2 * n
        /\ ((2 * i - 1) + 1) \div 2 = i /\ (2 * i + 1) \div 2 = i
        /\ 2 - ((2 * i - 1) % 2) = 1 /\ 2 - ((2 * i) % 2) = 2
    BY <1>1
  <2>2. D[2 * i - 1] = data[i][1] /\ D[2 * i] = data[i][2]
    BY <1>3, <2>1
  <2> QED  BY <1>1, <1>4, <2>2
<1> QED  BY <1>7, <1>8

\* Scan reads four digits where there are four, and always yields four.
LEMMA Scans ==
  ASSUME NEW p \in Seq(Chars), NEW at \in 1 .. Len(p)
  PROVE  /\ IsStamp(Scan(p, at))
         /\ (at + 3 <= Len(p) /\ \A i \in 0 .. 3 : p[at + i] \in Digits)
              => \A i \in 1 .. 4 : Scan(p, at)[i] = p[at + i - 1]
<1> DEFINE E == Ends(p, at) \cup {4}
           n == Shortest(E)
           last == Len(p) - at + 1
<1>1. E \subseteq Nat /\ 4 \in E
  BY DEF Ends
<1>2. PICK k \in E : \A j \in E : k <= j
  <2> DEFINE P(j) == j \in E
  <2>1. \E k \in 0 .. 4 : k \in E /\ \A j \in 0 .. 4 : j \in E => k <= j
    <3> HIDE DEF E
    <3>1. CASE 0 \in E  BY <3>1, <1>1
    <3>2. CASE 0 \notin E /\ 1 \in E  BY <3>2, <1>1
    <3>3. CASE 0 \notin E /\ 1 \notin E /\ 2 \in E  BY <3>3, <1>1
    <3>4. CASE 0 \notin E /\ 1 \notin E /\ 2 \notin E /\ 3 \in E  BY <3>4, <1>1
    <3>5. CASE 0 \notin E /\ 1 \notin E /\ 2 \notin E /\ 3 \notin E
      BY <3>5, <1>1
    <3> QED  BY <3>1, <3>2, <3>3, <3>4, <3>5
  <2> HIDE DEF E
  <2> QED  BY <2>1, <1>1
<1>3. n \in E /\ \A j \in E : n <= j
  <2> HIDE DEF E
  <2> QED  BY <1>2 DEF Shortest
<1>4. n \in 0 .. 4
  <2> HIDE DEF E, n
  <2> QED  BY <1>1, <1>3
<1>5. \A i \in 0 .. n - 1 : at + i <= Len(p) /\ p[at + i] \in Digits
  <2> SUFFICES ASSUME NEW i \in 0 .. n - 1
               PROVE  at + i <= Len(p) /\ p[at + i] \in Digits
    OBVIOUS
  <2>1. i \notin Ends(p, at)
    <3> HIDE DEF n
    <3> QED  BY <1>3, <1>4
  <2>2. CASE i <= Len(p)
    <3> HIDE DEF n
    <3> QED  BY <2>1, <2>2, <1>4 DEF Ends
  <2>3. CASE i > Len(p)
    <3>1. Len(p) \in Ends(p, at)
      BY DEF Ends
    <3>2. n <= Len(p)
      <4> HIDE DEF n
      <4> QED  BY <1>3, <3>1
    <3> HIDE DEF n
    <3> QED  BY <3>2, <2>3, <1>4
  <2> HIDE DEF n
  <2> QED  BY <2>2, <2>3, <1>4
<1>6. Scan(p, at) = [i \in 1 .. 4 |-> IF i + n <= 4 THEN 0 ELSE p[at + i + n - 5]]
  BY DEF Scan
<1> HIDE DEF n
<1>7. Scan(p, at) \in [1 .. 4 -> Digits]
  <2>1. ASSUME NEW i \in 1 .. 4, i + n > 4
        PROVE  p[at + i + n - 5] \in Digits
    <3>1. i + n - 5 \in 0 .. n - 1 /\ at + i + n - 5 = at + (i + n - 5)
      BY <2>1, <1>4
    <3> QED  BY <3>1, <1>5
  <2>2. 0 \in Digits
    BY DEF Digits
  <2> QED  BY <1>4, <1>6, <2>1, <2>2
<1>8. IsStamp(Scan(p, at))
  <2>1. 4 \in Nat
    OBVIOUS
  <2>2. Scan(p, at) \in Seq(Digits) /\ Len(Scan(p, at)) = 4
    BY <1>7, <2>1, FunctionIsSequence
  <2> QED  BY <2>2 DEF IsStamp
<1>9. ASSUME at + 3 <= Len(p), \A i \in 0 .. 3 : p[at + i] \in Digits
      PROVE  \A i \in 1 .. 4 : Scan(p, at)[i] = p[at + i - 1]
  <2>1. n = 4
    <3>1. \A i \in 0 .. 3 : i \notin Ends(p, at)
      BY <1>9 DEF Ends
    <3> QED  BY <3>1, <1>3, <1>4
  <2> QED  BY <2>1, <1>6
<1> QED  BY <1>8, <1>9

----------------------------------------------------------------------------
(* Frames *)

Zeros == <<0, 0, 0, 0>>
StampWidth == IF stamping THEN 4 ELSE 0

\* What the parts of the adapter's text for a frame are, and where.
IsText(p, f, stamp, w, n, k) ==
  /\ \A i \in 1 .. w : p[1 + i] = f.id[i]
  /\ \A i \in 1 .. 2 * n : p[w + 2 + i] = DataDigits(f.data)[i]
  /\ stamping => \A i \in 1 .. 4 : p[w + 2 + 2 * n + i] = stamp[i]
  /\ p[w + 2 + 2 * n + k + 1] = CR

\* Its letter, its size and its length.
IsSized(p, f, w, n, k) ==
  /\ w \in Nat /\ n \in Nat /\ k \in Nat
  /\ p \in Seq(Chars) /\ Len(p) = w + 2 * n + k + 3
  /\ p[1] = Letter(f) /\ p[w + 2] = f.size

IsMeasured(f, w, n, k) == w = IdWidth(f.ext) /\ n = Len(f.data) /\ k = StampWidth

LEMMA FrameText ==
  ASSUME NEW f, IsFrame(f), NEW stamp, IsStamp(stamp), stamping \in BOOLEAN
  PROVE  /\ IsText(AdapterText(f, stamp), f, stamp,
                   IdWidth(f.ext), Len(f.data), StampWidth)
         /\ IsSized(AdapterText(f, stamp), f,
                    IdWidth(f.ext), Len(f.data), StampWidth)
<1>0. PICK p, w, n, k : /\ p = AdapterText(f, stamp) /\ w = IdWidth(f.ext)
                        /\ n = Len(f.data) /\ k = StampWidth
  OBVIOUS
<1> DEFINE D == DataDigits(f.data)
           S == IF stamping THEN stamp ELSE <<>>
           L == <<Letter(f)>>
           Z == <<f.size>>
           E == <<CR>>
<1>1. Digits \subseteq Chars /\ CR \in Chars /\ Letter(f) \in Chars
      /\ f.size \in Chars
  BY DEF Digits, Chars, CR, Letter, R, r, T, t, IsFrame
<1>2. \A q \in Seq(Digits) : q \in Seq(Chars)
  BY <1>1
<1>3. L \in Seq(Chars) /\ Len(L) = 1 /\ L[1] = Letter(f)
  BY <1>1
<1>4. Z \in Seq(Chars) /\ Len(Z) = 1 /\ Z[1] = f.size
  BY <1>1
<1>5. E \in Seq(Chars) /\ Len(E) = 1 /\ E[1] = CR
  BY <1>1
<1>6. f.id \in Seq(Chars) /\ Len(f.id) = w /\ w \in Nat
  BY <1>0, <1>2 DEF IsFrame, IsFrameId, IsId, IdWidth
<1>7. D \in Seq(Chars) /\ Len(D) = 2 * n /\ n \in Nat
  <2>1. IsData(f.data)
    BY DEF IsFrame
  <2>2. n \in Nat
    BY <1>0, <2>1 DEF IsData
  <2> QED  BY <1>0, <2>1, <2>2, <1>2, DigitsOfData
<1>8. /\ S \in Seq(Chars) /\ Len(S) = k /\ k \in Nat
      /\ stamping => k = 4 /\ \A i \in 1 .. 4 : S[i] = stamp[i]
  <2>1. <<>> \in Seq(Chars) /\ Len(<<>>) = 0
    OBVIOUS
  <2>2. stamp \in Seq(Chars) /\ Len(stamp) = 4
    BY <1>2 DEF IsStamp
  <2>3. CASE stamping  BY <1>0, <2>2, <2>3 DEF StampWidth
  <2>4. CASE ~stamping  BY <1>0, <2>1, <2>4 DEF StampWidth
  <2> QED  BY <2>3, <2>4
<1>9. p = L \o f.id \o Z \o D \o S \o E
  BY <1>0 DEF AdapterText
<1> HIDE DEF D, S, L, Z, E
<1>10. /\ p \in Seq(Chars)
       /\ Len(p) = Len(L) + Len(f.id) + Len(Z) + Len(D) + Len(S) + Len(E)
       /\ \A i \in 1 .. Len(L) : p[i] = L[i]
       /\ \A i \in 1 .. Len(f.id) : p[Len(L) + i] = f.id[i]
       /\ \A i \in 1 .. Len(Z) : p[Len(L) + Len(f.id) + i] = Z[i]
       /\ \A i \in 1 .. Len(D) : p[Len(L) + Len(f.id) + Len(Z) + i] = D[i]
       /\ \A i \in 1 .. Len(S) :
            p[Len(L) + Len(f.id) + Len(Z) + Len(D) + i] = S[i]
       /\ \A i \in 1 .. Len(E) :
            p[Len(L) + Len(f.id) + Len(Z) + Len(D) + Len(S) + i] = E[i]
  <2>1. /\ L \in Seq(Chars) /\ f.id \in Seq(Chars) /\ Z \in Seq(Chars)
        /\ D \in Seq(Chars) /\ S \in Seq(Chars) /\ E \in Seq(Chars)
    BY <1>3, <1>4, <1>5, <1>6, <1>7, <1>8
  <2>2. MadeOf(Chars, p, L, f.id, Z, D, S, E)
    BY <2>1, <1>9, Parts
  <2> QED  BY <2>2 DEF MadeOf
<1>11. /\ Len(p) = w + 2 * n + k + 3
       /\ p[1] = Letter(f)
       /\ \A i \in 1 .. w : p[1 + i] = f.id[i]
  <2>1. Len(p) = w + 2 * n + k + 3
    <3>1. Len(p) = 1 + w + 1 + 2 * n + k + 1
      BY <1>3, <1>4, <1>5, <1>6, <1>7, <1>8, <1>10
    <3> QED  BY <3>1, <1>6, <1>7, <1>8
  <2>2. p[1] = Letter(f)
    <3>1. 1 \in 1 .. Len(L)
      BY <1>3
    <3> QED  BY <3>1, <1>3, <1>10
  <2>3. \A i \in 1 .. w : p[1 + i] = f.id[i]
    BY <1>3, <1>6, <1>10
  <2> QED  BY <2>1, <2>2, <2>3
<1>12. p[w + 2] = f.size
  <2>1. p[1 + w + 1] = Z[1]
    <3>1. 1 \in 1 .. Len(Z) /\ Len(L) + Len(f.id) + 1 = 1 + w + 1
      BY <1>3, <1>4, <1>6
    <3> QED  BY <3>1, <1>10
  <2> QED  BY <2>1, <1>4, <1>6
<1>13. \A i \in 1 .. 2 * n : p[w + 2 + i] = D[i]
  <2>1. \A i \in 1 .. 2 * n : p[1 + w + 1 + i] = D[i]
    BY <1>3, <1>4, <1>6, <1>7, <1>10
  <2>2. \A i \in 1 .. 2 * n : 1 + w + 1 + i = w + 2 + i
    BY <1>6, <1>7
  <2> QED  BY <2>1, <2>2
<1>14. \A i \in 1 .. k : p[w + 2 + 2 * n + i] = S[i]
  <2>1. \A i \in 1 .. k : p[1 + w + 1 + 2 * n + i] = S[i]
    BY <1>3, <1>4, <1>6, <1>7, <1>8, <1>10
  <2>2. \A i \in 1 .. k : 1 + w + 1 + 2 * n + i = w + 2 + 2 * n + i
    BY <1>6, <1>7, <1>8
  <2> QED  BY <2>1, <2>2
<1>15. p[w + 2 + 2 * n + k + 1] = CR
  <2>1. /\ 1 \in 1 .. Len(E)
        /\ Len(L) + Len(f.id) + Len(Z) + Len(D) + Len(S) + 1
             = w + 2 + 2 * n + k + 1
    BY <1>3, <1>4, <1>5, <1>6, <1>7, <1>8
  <2>2. p[w + 2 + 2 * n + k + 1] = E[1]
    BY <2>1, <1>10
  <2> QED  BY <2>2, <1>5
<1>16. stamping => \A i \in 1 .. 4 : p[w + 2 + 2 * n + i] = stamp[i]
  BY <1>8, <1>14
<1>17. IsText(p, f, stamp, w, n, k)
  BY <1>11, <1>13, <1>15, <1>16 DEF IsText, D
<1>18. IsSized(p, f, w, n, k)
  BY <1>6, <1>7, <1>8, <1>10, <1>11, <1>12 DEF IsSized
<1> QED  BY <1>0, <1>17, <1>18

\* The same text read by can232ToCanal.
LEMMA Reading ==
  ASSUME NEW f, IsFrame(f), NEW stamp, IsStamp(stamp), stamping \in BOOLEAN,
         NEW p, NEW w, NEW n, NEW k,
         IsText(p, f, stamp, w, n, k), IsSized(p, f, w, n, k),
         IsMeasured(f, w, n, k),
         NEW m, m = Can232ToCanal(p)
  PROVE  /\ m.ext = f.ext /\ m.rtr = f.rtr /\ m.id = f.id /\ m.data = f.data
         /\ IsStamp(m.stamp)
         /\ ~m.rtr => m.stamp = IF stamping THEN stamp ELSE Zeros
<1> DEFINE offset == DataOffset(f.rtr, f.ext)
           end == offset + 2 * n
<1>1. /\ w \in Nat /\ n \in Nat /\ k \in Nat
      /\ p \in Seq(Chars) /\ Len(p) = w + 2 * n + k + 3
      /\ p[1] = Letter(f) /\ p[w + 2] = f.size
  BY DEF IsSized
<1>0. 2 * n \in Nat
  BY <1>1
<1>2. f.ext \in BOOLEAN /\ f.rtr \in BOOLEAN /\ IsData(f.data) /\ IsId(f.id, w)
      /\ f.size \in 0 .. 8
  BY DEF IsFrame, IsFrameId, IsMeasured
<1>3. (p[1] \in {T, R}) = f.ext /\ (p[1] \in {r, R}) = f.rtr
  <2>1. p[1] = Letter(f)
    BY <1>1
  <2> QED  BY <2>1, <1>2 DEF Letter, T, R, r, t
<1>4. (IF f.rtr THEN 0 ELSE p[w + 2]) = n
  <2>1. p[w + 2] = f.size
    BY <1>1
  <2> QED  BY <2>1 DEF IsFrame, IsMeasured
<1>5. m = [ext |-> f.ext, rtr |-> f.rtr, id |-> SubSeq(p, 2, 1 + w),
           data |-> Pairs(p, offset, n),
           stamp |-> IF p[end] # CR THEN Scan(p, end) ELSE Zeros]
  BY <1>3, <1>4 DEF Can232ToCanal, Zeros, IsMeasured
<1> HIDE DEF offset, end
<1>6. SubSeq(p, 2, 1 + w) = f.id
  <2>1. f.id \in Seq(Digits) /\ Len(f.id) = w
    BY <1>2 DEF IsId
  <2>2. /\ SubSeq(p, 2, 1 + w) \in Seq(Chars)
        /\ Len(SubSeq(p, 2, 1 + w)) = w
        /\ \A i \in 1 .. w : SubSeq(p, 2, 1 + w)[i] = p[1 + i]
    <3>1. \A i \in 2 .. 1 + w : p[i] \in Chars
      <4>1. \A i \in 2 .. 1 + w : i \in 1 .. Len(p)
        BY <1>1
      <4> QED  BY <4>1, <1>1
    <3>2. /\ 2 \in Int /\ 1 + w \in Int /\ (1 + w) - 2 + 1 = w
          /\ (IF 2 <= 1 + w THEN (1 + w) - 2 + 1 ELSE 0) = w
          /\ \A i \in 1 .. w : 2 + i - 1 = 1 + i
      BY <1>1
    <3>3. /\ SubSeq(p, 2, 1 + w) \in Seq(Chars)
          /\ Len(SubSeq(p, 2, 1 + w)) = IF 2 <= 1 + w THEN (1 + w) - 2 + 1 ELSE 0
          /\ \A i \in 1 .. (1 + w) - 2 + 1 : SubSeq(p, 2, 1 + w)[i] = p[2 + i - 1]
      BY <3>1, <3>2, SubSeqProperties
    <3> QED  BY <3>2, <3>3
  <2>3. \A i \in 1 .. w : SubSeq(p, 2, 1 + w)[i] = f.id[i]
    BY <2>2 DEF IsText
  <2>4. f.id \in Seq(Chars)
    <3>1. Digits \subseteq Chars
      BY DEF Digits, Chars
    <3> QED  BY <2>1, <3>1
  <2> QED  BY <2>1, <2>2, <2>3, <2>4, SeqEqual
<1>7. Pairs(p, offset, n) = f.data
  <2>1. f.data \in Seq(Bytes) /\ Len(f.data) = n
    BY <1>2 DEF IsData, IsMeasured
  <2>2. Pairs(p, offset, n)
          = [i \in 1 .. n |-> <<p[offset + 2 * i - 2], p[offset + 2 * i - 1]>>]
    BY DEF Pairs
  <2>3. ASSUME NEW i \in 1 .. n
        PROVE  <<p[offset + 2 * i - 2], p[offset + 2 * i - 1]>> = f.data[i]
    <3>1. ~f.rtr
      <4>1. n = 0 \/ ~f.rtr
        BY DEF IsFrame, IsMeasured
      <4>2. n # 0
        BY <1>1
      <4> QED  BY <4>1, <4>2
    <3>2. offset = w + 3
      BY <3>1 DEF offset, DataOffset, IsMeasured
    <3>3. /\ 2 * i - 1 \in 1 .. 2 * n /\ 2 * i \in 1 .. 2 * n
          /\ offset + 2 * i - 2 = w + 2 + (2 * i - 1)
          /\ offset + 2 * i - 1 = w + 2 + 2 * i
      BY <1>1, <3>2
    <3>4. /\ p[offset + 2 * i - 2] = DataDigits(f.data)[2 * i - 1]
          /\ p[offset + 2 * i - 1] = DataDigits(f.data)[2 * i]
      BY <3>3 DEF IsText
    <3>5. <<DataDigits(f.data)[2 * i - 1], DataDigits(f.data)[2 * i]>> = f.data[i]
      BY <1>2, DigitsOfData DEF IsMeasured
    <3> QED  BY <3>4, <3>5
  <2>4. f.data = [i \in 1 .. n |-> f.data[i]]
    BY <2>1
  <2> QED  BY <2>2, <2>3, <2>4
<1>8. end \in 1 .. Len(p)
  <2>1. offset \in {w + 2, w + 3}
    BY DEF offset, DataOffset, IsMeasured
  <2> QED  BY <1>1, <2>1 DEF end
<1>9. IsStamp(Scan(p, end)) /\ IsStamp(Zeros)
  <2>1. IsStamp(Scan(p, end))
    BY <1>1, <1>8, Scans
  <2>2. IsStamp(Zeros)
    BY DEF IsStamp, Zeros, Digits
  <2> QED  BY <2>1, <2>2
<1>10. ASSUME ~f.rtr
       PROVE  (IF p[end] # CR THEN Scan(p, end) ELSE Zeros)
                = IF stamping THEN stamp ELSE Zeros
  <2>1. end = w + 2 + 2 * n + 1
    <3>1. offset = w + 3
      BY <1>10 DEF offset, DataOffset, IsMeasured
    <3> QED  BY <1>1, <3>1 DEF end
  <2>2. CASE ~stamping
    <3>1. p[w + 2 + 2 * n + k + 1] = CR /\ k = 0
      BY <2>2 DEF IsText, StampWidth, IsMeasured
    <3> QED  BY <2>1, <2>2, <3>1, <1>1
  <2>3. CASE stamping
    <3>1. stamp \in Seq(Digits) /\ Len(stamp) = 4
      BY DEF IsStamp
    <3>2. \A i \in 1 .. 4 : p[end + i - 1] = stamp[i] /\ stamp[i] \in Digits
      <4>1. \A i \in 1 .. 4 : p[w + 2 + 2 * n + i] = stamp[i]
        BY <2>3 DEF IsText
      <4>2. \A i \in 1 .. 4 : end + i - 1 = w + 2 + 2 * n + i
        BY <2>1, <1>1
      <4>3. \A i \in 1 .. 4 : stamp[i] \in Digits
        <5>1. \A q \in Seq(Digits) : \A i \in 1 .. Len(q) : q[i] \in Digits
          OBVIOUS
        <5> QED  BY <3>1, <5>1
      <4> QED  BY <4>1, <4>2, <4>3
    <3>3. end + 3 <= Len(p)
      <4>1. k = 4
        BY <2>3 DEF StampWidth, IsMeasured
      <4>2. Len(p) = w + 2 * n + 7
        BY <4>1, <1>1
      <4> QED  BY <2>1, <4>2, <1>1
    <3>4. \A i \in 0 .. 3 : p[end + i] \in Digits
      <4>1. \A i \in 0 .. 3 : i + 1 \in 1 .. 4 /\ end + (i + 1) - 1 = end + i
        BY <1>8
      <4> QED  BY <3>2, <4>1
    <3>5. p[end] # CR
      <4>1. p[end + 0] \in Digits /\ end + 0 = end
        BY <3>4, <1>8
      <4> QED  BY <4>1 DEF Digits, CR
    <3>6. \A i \in 1 .. 4 : Scan(p, end)[i] = p[end + i - 1]
      BY <1>1, <1>8, <3>3, <3>4, Scans
    <3>7. Scan(p, end) = stamp
      BY <3>1, <3>2, <3>6, <1>9 DEF IsStamp
    <3> QED  BY <2>3, <3>5, <3>7
  <2> QED  BY <2>2, <2>3
<1> QED  BY <1>5, <1>6, <1>7, <1>9, <1>10

\* can232ToCanal recovers from the text the frame, and of a data frame the
\* timestamp; of a remote frame it still yields some timestamp.
LEMMA Recovered ==
  ASSUME NEW f, IsFrame(f), NEW stamp, IsStamp(stamp), stamping \in BOOLEAN,
         NEW m, m = Can232ToCanal(AdapterText(f, stamp))
  PROVE  /\ m.ext = f.ext /\ m.rtr = f.rtr /\ m.id = f.id /\ m.data = f.data
         /\ IsStamp(m.stamp)
         /\ ~m.rtr => m.stamp = IF stamping THEN stamp ELSE Zeros
<1>1. PICK p : p = AdapterText(f, stamp)
  OBVIOUS
<1>2. PICK w, n, k : IsMeasured(f, w, n, k)
  BY DEF IsMeasured
<1>3. m = Can232ToCanal(p)
  BY <1>1
<1>4. IsText(p, f, stamp, w, n, k) /\ IsSized(p, f, w, n, k)
  BY <1>1, <1>2, FrameText DEF IsMeasured
<1> QED  BY <1>2, <1>3, <1>4, Reading

----------------------------------------------------------------------------
(* The bus *)

\* A message becomes a text that is not empty.
LEMMA TextIsText ==
  ASSUME NEW m, IsMessage(m)
  PROVE  Text(m) \in Seq(Chars) /\ Text(m) # <<>>
<1> DEFINE L == <<IF m.ext THEN T ELSE t>>
           I == Clipped(m.ext, m.id)
           Z == <<Len(m.data)>>
           D == DataDigits(m.data)
           E == IF m.data = <<>> THEN <<>> ELSE <<CR>>
<1>1. Digits \subseteq Chars /\ CR \in Chars /\ T \in Chars /\ t \in Chars
  BY DEF Digits, Chars, CR, T, t
<1>2. \A q \in Seq(Digits) : q \in Seq(Chars)
  BY <1>1
<1>3. L \in Seq(Chars) /\ Len(L) = 1
  BY <1>1
<1>4. I \in Seq(Chars)
  <2>1. m.id \in Seq(Digits) /\ Len(m.id) = 8
    BY DEF IsMessage, IsId
  <2>2. \A i \in 1 .. 8 : m.id[i] \in Digits
    BY <2>1
  <2>3. \A i \in 6 .. 8 : m.id[i] \in Digits
    BY <2>2
  <2>4. SubSeq(m.id, 6, 8) \in Seq(Digits) /\ Len(SubSeq(m.id, 6, 8)) = 3
    <3>1. 6 \in Int /\ 8 \in Int /\ (IF 6 <= 8 THEN 8 - 6 + 1 ELSE 0) = 3
      OBVIOUS
    <3> QED  BY <2>3, <3>1, SubSeqProperties
  <2>5. \A d \in Digits : d % 2 \in Digits /\ d % 8 \in Digits
    BY DEF Digits
  <2>6. ASSUME NEW q \in Seq(Digits), Len(q) > 0, NEW d \in Digits
        PROVE  [q EXCEPT ![1] = d] \in Seq(Digits)
    BY <2>6
  <2>7. CASE m.ext
    <3>1. I = [m.id EXCEPT ![1] = m.id[1] % 2]
      BY <2>7 DEF Clipped
    <3>2. m.id[1] % 2 \in Digits
      BY <2>2, <2>5
    <3>3. [m.id EXCEPT ![1] = m.id[1] % 2] \in Seq(Digits)
      BY <2>1, <2>6, <3>2
    <3> QED  BY <3>1, <3>3, <1>2
  <2>8. CASE ~m.ext
    <3> DEFINE q == SubSeq(m.id, 6, 8)
    <3>1. I = [q EXCEPT ![1] = q[1] % 8]
      BY <2>8 DEF Clipped
    <3>2. q \in Seq(Digits) /\ Len(q) = 3
      BY <2>4
    <3> HIDE DEF q
    <3>3. q[1] % 8 \in Digits
      BY <3>2, <2>5
    <3>4. \A d \in Digits : [q EXCEPT ![1] = d] \in Seq(Digits)
      <4>1. Len(q) > 0
        BY <3>2
      <4> QED  BY <2>6, <3>2, <4>1
    <3>5. [q EXCEPT ![1] = q[1] % 8] \in Seq(Digits)
      BY <3>3, <3>4
    <3> QED  BY <3>1, <3>5, <1>2
  <2>9. m.ext \in BOOLEAN
    BY DEF IsMessage
  <2> HIDE DEF I
  <2> QED  BY <2>7, <2>8, <2>9
<1>5. Z \in Seq(Chars)
  <2>1. m.data \in Seq(Bytes) /\ Len(m.data) <= 8
    BY DEF IsMessage, IsData
  <2>2. Len(m.data) \in Nat
    BY <2>1, LenProperties
  <2>3. \A l \in Nat : l <= 8 => l \in Chars
    BY DEF Chars
  <2>4. Len(m.data) \in Chars
    BY <2>1, <2>2, <2>3
  <2> QED  BY <2>4
<1>6. D \in Seq(Chars)
  BY <1>2, DigitsOfData DEF IsMessage
<1>7. E \in Seq(Chars)
  <2>1. <<>> \in Seq(Chars)
    OBVIOUS
  <2> QED  BY <2>1, <1>1
<1>8. Text(m) = L \o I \o Z \o D \o E
  BY DEF Text
<1> HIDE DEF L, I, Z, D, E
<1>9. L \o I \in Seq(Chars) /\ Len(L \o I) > 0
  BY <1>3, <1>4, Joined
<1>10. L \o I \o Z \in Seq(Chars) /\ Len(L \o I \o Z) > 0
  BY <1>5, <1>9, Joined
<1>11. L \o I \o Z \o D \in Seq(Chars) /\ Len(L \o I \o Z \o D) > 0
  BY <1>6, <1>10, Joined
<1>12. L \o I \o Z \o D \o E \in Seq(Chars) /\ Len(L \o I \o Z \o D \o E) > 0
  BY <1>7, <1>11, Joined
<1> QED  BY <1>8, <1>12

\* A command that begins with a frame makes a frame.
LEMMA FrameInCommand ==
  ASSUME NEW cmd \in Seq(Chars), cmd # <<>>, BeginsWithFrame(cmd)
  PROVE  IsFrame(FrameIn(cmd))
<1> DEFINE ext == cmd[1] = T
           w == IdWidth(ext)
           n == cmd[w + 2]
<1>1. /\ w \in {3, 8} /\ n \in 0 .. 8 /\ w + 2 + 2 * n < Len(cmd)
      /\ \A i \in 2 .. w + 2 + 2 * n : cmd[i] \in Digits
      /\ IsFrameId(ext, SubSeq(cmd, 2, 1 + w))
  BY DEF BeginsWithFrame, FrameLength, IdWidth
<1>2. FrameIn(cmd) = [ext |-> ext, rtr |-> FALSE, id |-> SubSeq(cmd, 2, 1 + w),
                      size |-> n, data |-> Pairs(cmd, w + 3, n), own |-> TRUE]
  BY DEF FrameIn
<1>3. ext \in BOOLEAN
  OBVIOUS
<1> HIDE DEF ext, w, n
<1>4. IsData(Pairs(cmd, w + 3, n)) /\ Len(Pairs(cmd, w + 3, n)) = n
  <2>1. ASSUME NEW i \in 1 .. n
        PROVE  <<cmd[w + 3 + 2 * i - 2], cmd[w + 3 + 2 * i - 1]>> \in Bytes
    <3>1. /\ w + 3 + 2 * i - 2 \in 2 .. w + 2 + 2 * n
          /\ w + 3 + 2 * i - 1 \in 2 .. w + 2 + 2 * n
      BY <1>1
    <3> QED  BY <3>1, <1>1 DEF Bytes
  <2>2. Pairs(cmd, w + 3, n) \in [1 .. n -> Bytes]
    BY <2>1 DEF Pairs
  <2>3. n \in Nat /\ n <= 8
    BY <1>1
  <2> QED  BY <2>2, <2>3, FunctionIsSequence DEF IsData
<1> QED  BY <1>1, <1>2, <1>3, <1>4 DEF IsFrame

\* A sequence with one element more.
LEMMA Appended ==
  ASSUME NEW S, NEW q \in Seq(S), NEW x \in S
  PROVE  /\ Append(q, x) \in Seq(S) /\ Len(Append(q, x)) = Len(q) + 1
         /\ Len(q) \in Nat
         /\ \A i \in 1 .. Len(q) : Append(q, x)[i] = q[i]
         /\ Append(q, x)[Len(q) + 1] = x
OBVIOUS

LEMMA FramesAreFrames ==
  /\ \A f \in Frames : IsFrame(f)
  /\ \A cmd : IsFrame(FrameIn(cmd)) => FrameIn(cmd) \in Frames
<1>1. ASSUME NEW cmd, IsFrame(FrameIn(cmd))
      PROVE  FrameIn(cmd) \in Frames
  <2>1. PICK e, i, n, d :
          FrameIn(cmd) = [ext |-> e, rtr |-> FALSE, id |-> i, size |-> n,
                          data |-> d, own |-> TRUE]
    BY DEF FrameIn
  <2>2. e \in BOOLEAN /\ i \in Seq(Digits) /\ n \in 0 .. 8 /\ d \in Seq(Bytes)
    BY <1>1, <2>1 DEF IsFrame, IsFrameId, IsId, IsData
  <2> QED  BY <1>1, <2>1, <2>2 DEF Frames
<1> QED  BY <1>1 DEF Frames

\* What the adapter takes leaves it half a command, and frames on the bus; the
\* bus only grows.
LEMMA TakesFrames ==
  ASSUME NEW text \in Seq(Chars), text # <<>>, held \in Seq(Chars),
         bus \in Seq(Frames), Takes(text)
  PROVE  /\ held' \in Seq(Chars) /\ bus' \in Seq(Frames)
         /\ Len(bus) \in Nat /\ Len(bus) <= Len(bus')
         /\ \A i \in 1 .. Len(bus) : bus'[i] = bus[i]
<1>1. PICK cmd : cmd = held \o text
  OBVIOUS
<1>2. cmd \in Seq(Chars) /\ cmd # <<>>
  <2>1. Len(cmd) = Len(held) + Len(text) /\ cmd \in Seq(Chars)
    BY <1>1, Joined
  <2>2. Len(held) \in Nat /\ Len(text) \in Nat /\ Len(text) # 0
    OBVIOUS
  <2> QED  BY <2>1, <2>2
<1>3. <<>> \in Seq(Chars) /\ Len(bus) \in Nat
  OBVIOUS
<1>4. CASE held' = cmd /\ UNCHANGED bus
  BY <1>2, <1>3, <1>4
<1>5. CASE held' = <<>> /\ UNCHANGED bus
  BY <1>3, <1>5
<1>6. CASE held' = <<>> /\ BeginsWithFrame(cmd) /\ bus' = Append(bus, FrameIn(cmd))
  <2>1. FrameIn(cmd) \in Frames
    BY <1>2, <1>6, FrameInCommand, FramesAreFrames
  <2>2. /\ bus' \in Seq(Frames) /\ Len(bus') = Len(bus) + 1
        /\ \A i \in 1 .. Len(bus) : bus'[i] = bus[i]
    BY <2>1, <1>6, Appended
  <2> QED  BY <2>2, <1>3, <1>6
<1> QED  BY <1>1, <1>4, <1>5, <1>6 DEF Takes

\* Appending to what was heard.
LEMMA HearsFrame ==
  ASSUME NEW f \in Frames, NEW stamp, IsStamp(stamp), stamping \in BOOLEAN,
         NEW h, h = Received(f, stamp)
  PROVE  /\ h \in Heard
         /\ h.msg.ext = f.ext /\ h.msg.rtr = f.rtr
         /\ h.msg.id = f.id /\ h.msg.data = f.data
         /\ ~h.msg.rtr => h.msg.stamp = h.stamp
<1>1. IsFrame(f)
  BY FramesAreFrames
<1>2. PICK m : m = Can232ToCanal(AdapterText(f, stamp))
  OBVIOUS
<1>3. /\ m.ext = f.ext /\ m.rtr = f.rtr /\ m.id = f.id /\ m.data = f.data
      /\ IsStamp(m.stamp)
      /\ ~m.rtr => m.stamp = IF stamping THEN stamp ELSE Zeros
  BY <1>1, <1>2, Recovered
<1>4. h.msg = m /\ h.stamp = IF stamping THEN stamp ELSE Zeros
  BY <1>2 DEF Zeros, Received
<1>5. IsStamp(Zeros)
  BY DEF IsStamp, Zeros, Digits
<1>6. IsStamp(h.stamp)
  BY <1>4, <1>5
<1>7. m \in [ext : BOOLEAN, rtr : BOOLEAN, id : Seq(Digits),
             data : Seq(Bytes), stamp : Seq(Digits)]
  <2>1. PICK e, b, i, d, s :
          m = [ext |-> e, rtr |-> b, id |-> i, data |-> d, stamp |-> s]
    BY <1>2 DEF Can232ToCanal
  <2>2. e = f.ext /\ b = f.rtr /\ i = f.id /\ d = f.data /\ s \in Seq(Digits)
    BY <1>3, <2>1 DEF IsStamp
  <2>3. /\ f.ext \in BOOLEAN /\ f.rtr \in BOOLEAN
        /\ f.id \in Seq(Digits) /\ f.data \in Seq(Bytes)
    BY <1>1 DEF IsFrame, IsFrameId, IsId, IsData
  <2> QED  BY <2>1, <2>2, <2>3
<1>8. h \in Heard
  <2>1. IsHeard(h)
    BY <1>1, <1>3, <1>4, <1>6 DEF IsHeard, IsFrame
  <2>2. h = [stamp |-> h.stamp, msg |-> m]
    BY <1>2 DEF Received
  <2>3. h.stamp \in Seq(Digits)
    BY <1>6 DEF IsStamp
  <2> QED  BY <1>7, <2>1, <2>2, <2>3 DEF Heard
<1> QED  BY <1>3, <1>4, <1>8

----------------------------------------------------------------------------
(* The theorems *)

\* A half command is there only behind a message.
Counted == Len(sent) <= MaxSent /\ (held # <<>> => sent # <<>>)

Inv == TypeOK /\ Counted /\ Understood

LEMMA Initially == Init => Inv
<1> SUFFICES ASSUME Init PROVE Inv
  OBVIOUS
<1>1. /\ <<>> \in Seq(Messages) /\ <<>> \in Seq(Chars) /\ <<>> \in Seq(Frames)
      /\ <<>> \in Seq(Heard) /\ Len(<<>>) = 0
  OBVIOUS
<1>2. TypeOK
  BY <1>1 DEF Init, TypeOK
<1>3. Counted
  BY <1>1, BoundsAssumption DEF Init, Counted
<1>4. Understood
  BY DEF Init, Understood
<1> QED  BY <1>2, <1>3, <1>4 DEF Inv

\* Nothing is heard in a step that leaves what was on the bus there.
LEMMA NothingHeard ==
  ASSUME Inv, bus' \in Seq(Frames), Len(bus) <= Len(bus'),
         \A i \in 1 .. Len(bus) : bus'[i] = bus[i],
         UNCHANGED heard
  PROVE  Understood' /\ heard' \in Seq(Heard) /\ Len(heard') <= Len(bus')
<1>1. /\ heard \in Seq(Heard) /\ Len(heard) <= Len(bus)
      /\ bus \in Seq(Frames) /\ Understood
  BY DEF Inv, TypeOK
<1>2. Len(heard) \in Nat /\ Len(bus) \in Nat /\ Len(bus') \in Nat
      /\ DOMAIN heard = 1 .. Len(heard)
  BY <1>1
<1>3. \A i \in DOMAIN heard : bus'[i] = bus[i]
  BY <1>1, <1>2
<1>4. Understood'
  BY <1>1, <1>3 DEF Understood
<1> QED  BY <1>1, <1>2, <1>4

LEMMA Steps == Inv /\ [Next]_vars => Inv'
<1> SUFFICES ASSUME Inv, [Next]_vars
             PROVE  Inv'
  OBVIOUS
<1>1. /\ auto \in BOOLEAN /\ stamping \in BOOLEAN
      /\ sent \in Seq(Messages) /\ polled \subseteq 1 .. MaxSent
      /\ held \in Seq(Chars) /\ bus \in Seq(Frames)
      /\ heard \in Seq(Heard) /\ Len(heard) <= Len(bus)
      /\ Len(sent) <= MaxSent /\ (held # <<>> => sent # <<>>)
      /\ Len(sent) \in Nat /\ MaxSent \in Nat
  BY BoundsAssumption DEF Inv, TypeOK, Counted
<1>2. ASSUME NEW m \in Messages, Transmit(m)
      PROVE  Inv'
  <2>1. Text(m) \in Seq(Chars) /\ Text(m) # <<>>
    BY MessagesAssumption, TextIsText
  <2>2. Takes(Text(m)) /\ UNCHANGED heard /\ sent' = Append(sent, m)
        /\ UNCHANGED <<auto, stamping, polled>> /\ Len(sent) < MaxSent
    BY <1>2 DEF Transmit
  <2>3. /\ held' \in Seq(Chars) /\ bus' \in Seq(Frames)
        /\ Len(bus) <= Len(bus') /\ \A i \in 1 .. Len(bus) : bus'[i] = bus[i]
    BY <1>1, <2>1, <2>2, TakesFrames
  <2>4. Understood' /\ heard' \in Seq(Heard) /\ Len(heard') <= Len(bus')
    BY <2>2, <2>3, NothingHeard
  <2>5. sent' \in Seq(Messages) /\ Len(sent') = Len(sent) + 1
    BY <1>1, <2>2, Appended
  <2>6. TypeOK'
    BY <1>1, <2>2, <2>3, <2>4, <2>5 DEF TypeOK
  <2>7. Len(sent') <= MaxSent /\ sent' # <<>>
    <3>1. Len(sent') # 0
      BY <1>1, <2>5
    <3> QED  BY <1>1, <2>2, <2>5, <3>1
  <2>8. Counted'
    BY <2>7 DEF Counted
  <2> QED  BY <2>4, <2>6, <2>8 DEF Inv
<1>3. ASSUME Poll
      PROVE  Inv'
  <2>1. PollText \in Seq(Chars) /\ PollText # <<>>
    BY DEF PollText, Chars, CR
  <2>2. Takes(PollText) /\ UNCHANGED heard /\ UNCHANGED sent /\ held # <<>>
        /\ UNCHANGED <<auto, stamping>> /\ polled' = polled \cup {Len(sent)}
    BY <1>3 DEF Poll
  <2>3. /\ held' \in Seq(Chars) /\ bus' \in Seq(Frames)
        /\ Len(bus) <= Len(bus') /\ \A i \in 1 .. Len(bus) : bus'[i] = bus[i]
    BY <1>1, <2>1, <2>2, TakesFrames
  <2>4. Understood' /\ heard' \in Seq(Heard) /\ Len(heard') <= Len(bus')
    BY <2>2, <2>3, NothingHeard
  <2>5. sent # <<>>
    BY <1>1, <2>2
  <2>6. Len(sent) \in 1 .. MaxSent
    <3>1. Len(sent) # 0
      BY <1>1, <2>5
    <3> QED  BY <1>1, <3>1
  <2>7. TypeOK'
    BY <1>1, <2>2, <2>3, <2>4, <2>6 DEF TypeOK
  <2>8. Counted'
    BY <1>1, <2>2, <2>5 DEF Counted
  <2> QED  BY <2>4, <2>7, <2>8 DEF Inv
<1>4. ASSUME NEW f \in Others, OtherFrame(f)
      PROVE  Inv'
  <2>1. f \in Frames
    BY OthersAssumption
  <2>2. bus' = Append(bus, f) /\ UNCHANGED heard
        /\ UNCHANGED <<auto, stamping, sent, polled, held>>
    BY <1>4 DEF OtherFrame
  <2>3. /\ bus' \in Seq(Frames) /\ Len(bus') = Len(bus) + 1 /\ Len(bus) \in Nat
        /\ \A i \in 1 .. Len(bus) : bus'[i] = bus[i]
    BY <1>1, <2>1, <2>2, Appended
  <2>4. Len(bus) <= Len(bus')
    BY <2>3
  <2>5. Understood' /\ heard' \in Seq(Heard) /\ Len(heard') <= Len(bus')
    BY <2>2, <2>3, <2>4, NothingHeard
  <2>6. TypeOK'
    BY <1>1, <2>2, <2>3, <2>5 DEF TypeOK
  <2>7. Counted'
    BY <1>1, <2>2 DEF Counted
  <2> QED  BY <2>5, <2>6, <2>7 DEF Inv
<1>5. ASSUME NEW stamp \in Stamps, Hear(stamp)
      PROVE  Inv'
  <2>1. PICK f : f = bus[Len(heard) + 1]
    OBVIOUS
  <2>2. PICK h : h = Received(f, stamp)
    OBVIOUS
  <2>3. /\ Len(heard) < Len(bus) /\ heard' = Append(heard, h)
        /\ UNCHANGED <<auto, stamping, sent, polled, held>> /\ UNCHANGED bus
    BY <1>5, <2>1, <2>2 DEF Hear
  <2>4. Len(heard) \in Nat /\ Len(bus) \in Nat
    BY <1>1
  <2>5. f \in Frames
    <3>1. Len(heard) + 1 \in 1 .. Len(bus)
      BY <2>3, <2>4
    <3> QED  BY <1>1, <2>1, <3>1
  <2>6. /\ h \in Heard
        /\ h.msg.ext = f.ext /\ h.msg.rtr = f.rtr
        /\ h.msg.id = f.id /\ h.msg.data = f.data
        /\ ~h.msg.rtr => h.msg.stamp = h.stamp
    <3>1. IsStamp(stamp)
      BY StampsAssumption
    <3> QED  BY <1>1, <2>2, <2>5, <3>1, HearsFrame
  <2>7. /\ heard' \in Seq(Heard) /\ Len(heard') = Len(heard) + 1
        /\ \A i \in 1 .. Len(heard) : heard'[i] = heard[i]
        /\ heard'[Len(heard) + 1] = h
    BY <1>1, <2>3, <2>6, Appended
  <2>8. TypeOK'
    BY <1>1, <2>3, <2>4, <2>7 DEF TypeOK
  <2>9. Counted'
    BY <1>1, <2>3 DEF Counted
  <2>10. Understood'
    <3>1. Understood /\ DOMAIN heard = 1 .. Len(heard)
      BY <1>1 DEF Inv
    <3>2. DOMAIN heard' = 1 .. Len(heard) + 1
      BY <2>7
    <3>3. SUFFICES ASSUME NEW i \in 1 .. Len(heard) + 1
                   PROVE  /\ heard'[i].msg.ext = bus[i].ext
                          /\ heard'[i].msg.rtr = bus[i].rtr
                          /\ heard'[i].msg.id = bus[i].id
                          /\ heard'[i].msg.data = bus[i].data
                          /\ ~heard'[i].msg.rtr
                               => heard'[i].msg.stamp = heard'[i].stamp
      BY <2>3, <3>2 DEF Understood
    <3>4. CASE i \in 1 .. Len(heard)
      BY <2>7, <3>1, <3>4 DEF Understood
    <3>5. CASE i = Len(heard) + 1
      BY <2>1, <2>6, <2>7, <3>5
    <3> QED  BY <2>4, <3>4, <3>5
  <2> QED  BY <2>8, <2>9, <2>10 DEF Inv
<1>6. ASSUME UNCHANGED vars
      PROVE  Inv'
  <2>1. UNCHANGED <<auto, stamping, sent, polled, held, bus, heard>>
    BY <1>6 DEF vars
  <2>2. TypeOK' /\ Counted'
    BY <2>1 DEF Inv, TypeOK, Counted
  <2>3. Understood'
    BY <2>1 DEF Inv, Understood
  <2> QED  BY <2>2, <2>3 DEF Inv
<1> QED  BY <1>2, <1>3, <1>4, <1>5, <1>6 DEF Next

\* Only frames are on the bus, whatever ids the application passes (the masks at
\* linux/can232obj.cpp:721-729), and the driver makes messages of them.
THEOREM TypeCorrect == Spec => []TypeOK
<1>1. Inv => TypeOK
  BY DEF Inv
<1> QED  BY Initially, Steps, <1>1, PTL DEF Spec

\* can232ToCanal understands every frame that can be on the bus, with or
\* without timestamps.
THEOREM EveryFrameUnderstood == Spec => []Understood
<1>1. Inv => Understood
  BY DEF Inv
<1> QED  BY Initially, Steps, <1>1, PTL DEF Spec
----------------------------------------------------------------------------
(* Data reaches the bus *)

\* A sequence with another first element.
LEMMA OtherFirst ==
  ASSUME NEW S, NEW q \in Seq(S), Len(q) > 0, NEW d \in S
  PROVE  /\ [q EXCEPT ![1] = d] \in Seq(S)
         /\ Len([q EXCEPT ![1] = d]) = Len(q)
         /\ [q EXCEPT ![1] = d][1] = d
         /\ \A i \in 2 .. Len(q) : [q EXCEPT ![1] = d][i] = q[i]
OBVIOUS

\* The clipped id has the bits of a frame's id and is the one FrameOf names.
LEMMA ClippedId ==
  ASSUME NEW m, IsMessage(m)
  PROVE  IsFrameId(m.ext, Clipped(m.ext, m.id)) /\ Clipped(m.ext, m.id) = FrameOf(m).id
<1>1. m.id \in Seq(Digits) /\ Len(m.id) = 8 /\ \A i \in 1 .. 8 : m.id[i] \in Digits
  BY DEF IsMessage, IsId
<1>2. \A d \in Digits : /\ d % 2 \in Digits /\ d % 2 < 2
                        /\ d % 8 \in Digits /\ d % 8 < 8
  BY DEF Digits
<1>3. ASSUME NEW a \in 1 .. 8
      PROVE  /\ SubSeq(m.id, a, 8) \in Seq(Digits)
             /\ Len(SubSeq(m.id, a, 8)) = 9 - a
             /\ \A i \in 1 .. 9 - a : SubSeq(m.id, a, 8)[i] = m.id[a + i - 1]
  <2>1. /\ a \in Int /\ 8 \in Int /\ (IF a <= 8 THEN 8 - a + 1 ELSE 0) = 9 - a
        /\ 8 - a + 1 = 9 - a /\ \A i \in a .. 8 : m.id[i] \in Digits
    BY <1>1
  <2>2. /\ SubSeq(m.id, a, 8) \in Seq(Digits)
        /\ Len(SubSeq(m.id, a, 8)) = IF a <= 8 THEN 8 - a + 1 ELSE 0
        /\ \A i \in 1 .. 8 - a + 1 : SubSeq(m.id, a, 8)[i] = m.id[a + i - 1]
    BY <2>1, SubSeqProperties
  <2> QED  BY <2>1, <2>2
<1>4. ASSUME NEW d \in Digits, NEW q \in Seq(Digits)
      PROVE  /\ <<d>> \o q \in Seq(Digits) /\ Len(<<d>> \o q) = 1 + Len(q)
             /\ (<<d>> \o q)[1] = d
             /\ \A i \in 1 .. Len(q) : (<<d>> \o q)[1 + i] = q[i]
  <2>1. <<d>> \in Seq(Digits) /\ Len(<<d>>) = 1 /\ <<d>>[1] = d /\ 1 \in 1 .. 1
    OBVIOUS
  <2> QED  BY <2>1, Joined
<1>5. CASE m.ext
  <2> DEFINE d == m.id[1] % 2
             rest == SubSeq(m.id, 2, 8)
             c == [m.id EXCEPT ![1] = m.id[1] % 2]
             f == <<d>> \o rest
  <2>1. Clipped(m.ext, m.id) = c /\ FrameOf(m).id = f
    BY <1>5 DEF Clipped, FrameOf
  <2>2. d \in Digits /\ d < 2
    BY <1>1, <1>2
  <2>3. /\ rest \in Seq(Digits) /\ Len(rest) = 7
        /\ \A i \in 1 .. 7 : rest[i] = m.id[1 + i]
    BY <1>3
  <2>4. /\ c \in Seq(Digits) /\ Len(c) = 8 /\ c[1] = d
        /\ \A i \in 2 .. 8 : c[i] = m.id[i]
    <3>1. Len(m.id) > 0
      BY <1>1
    <3> HIDE DEF d
    <3>2. /\ [m.id EXCEPT ![1] = d] \in Seq(Digits)
          /\ Len([m.id EXCEPT ![1] = d]) = 8 /\ [m.id EXCEPT ![1] = d][1] = d
          /\ \A i \in 2 .. 8 : [m.id EXCEPT ![1] = d][i] = m.id[i]
      BY <1>1, <2>2, <3>1, OtherFirst
    <3> QED  BY <3>2 DEF d
  <2> HIDE DEF d, rest, c
  <2>5. /\ f \in Seq(Digits) /\ Len(f) = 8 /\ f[1] = d
        /\ \A i \in 1 .. 7 : f[1 + i] = rest[i]
    <3>1. /\ f \in Seq(Digits) /\ Len(f) = 1 + Len(rest) /\ f[1] = d
          /\ \A i \in 1 .. Len(rest) : f[1 + i] = rest[i]
      BY <2>2, <2>3, <1>4, Zenon
    <3> HIDE DEF f
    <3> QED  BY <2>3, <3>1
  <2> HIDE DEF f
  <2>6. \A i \in 1 .. 8 : c[i] = f[i]
    <3>1. \A i \in 1 .. 7 : c[1 + i] = f[1 + i]
      BY <2>3, <2>4, <2>5
    <3>2. \A i \in 1 .. 8 : i = 1 \/ (i - 1 \in 1 .. 7 /\ 1 + (i - 1) = i)
      OBVIOUS
    <3> QED  BY <2>4, <2>5, <3>1, <3>2
  <2>7. c = f
    BY <2>4, <2>5, <2>6, SeqEqual
  <2> QED  BY <1>5, <2>1, <2>2, <2>4, <2>7 DEF IsFrameId, IsId, IdWidth
<1>6. CASE ~m.ext
  <2> DEFINE d == m.id[6] % 8
             low == SubSeq(m.id, 6, 8)
             rest == SubSeq(m.id, 7, 8)
             c == [low EXCEPT ![1] = low[1] % 8]
             f == <<d>> \o rest
  <2>1. Clipped(m.ext, m.id) = c /\ FrameOf(m).id = f
    BY <1>6 DEF Clipped, FrameOf
  <2>2. d \in Digits /\ d < 8
    BY <1>1, <1>2
  <2>3. /\ rest \in Seq(Digits) /\ Len(rest) = 2
        /\ \A i \in 1 .. 2 : rest[i] = m.id[6 + i]
    BY <1>3
  <2>4. /\ low \in Seq(Digits) /\ Len(low) = 3
        /\ \A i \in 1 .. 3 : low[i] = m.id[5 + i]
    BY <1>3
  <2>5. /\ c \in Seq(Digits) /\ Len(c) = 3 /\ c[1] = d
        /\ \A i \in 2 .. 3 : c[i] = m.id[5 + i]
    <3>1. low[1] % 8 = d
      BY <2>4
    <3> HIDE DEF d, low
    <3>2. Len(low) > 0
      BY <2>4
    <3>3. /\ [low EXCEPT ![1] = d] \in Seq(Digits)
          /\ Len([low EXCEPT ![1] = d]) = 3 /\ [low EXCEPT ![1] = d][1] = d
          /\ \A i \in 2 .. 3 : [low EXCEPT ![1] = d][i] = low[i]
      <4>1. /\ [low EXCEPT ![1] = d] \in Seq(Digits)
            /\ Len([low EXCEPT ![1] = d]) = Len(low)
            /\ [low EXCEPT ![1] = d][1] = d
            /\ \A i \in 2 .. Len(low) : [low EXCEPT ![1] = d][i] = low[i]
        <5>1. ASSUME NEW q \in Seq(Digits), Len(q) > 0
              PROVE  /\ [q EXCEPT ![1] = d] \in Seq(Digits)
                     /\ Len([q EXCEPT ![1] = d]) = Len(q)
                     /\ [q EXCEPT ![1] = d][1] = d
                     /\ \A i \in 2 .. Len(q) : [q EXCEPT ![1] = d][i] = q[i]
          BY <2>2, <5>1, OtherFirst
        <5> QED  BY <2>4, <3>2, <5>1, Zenon
      <4>2. Len(low) = 3
        BY <2>4
      <4> QED  BY <4>1, <4>2, Zenon
    <3> QED  BY <2>4, <3>1, <3>3
  <2> HIDE DEF d, rest, low, c
  <2>6. /\ f \in Seq(Digits) /\ Len(f) = 3 /\ f[1] = d
        /\ \A i \in 1 .. 2 : f[1 + i] = rest[i]
    <3>1. /\ f \in Seq(Digits) /\ Len(f) = 1 + Len(rest) /\ f[1] = d
          /\ \A i \in 1 .. Len(rest) : f[1 + i] = rest[i]
      BY <2>2, <2>3, <1>4, Zenon
    <3> HIDE DEF f
    <3> QED  BY <2>3, <3>1
  <2> HIDE DEF f
  <2>7. \A i \in 1 .. 3 : c[i] = f[i]
    <3>1. c[2] = f[2]
      BY <2>3, <2>5, <2>6
    <3>2. c[3] = f[3]
      BY <2>3, <2>5, <2>6
    <3> QED  BY <2>5, <2>6, <3>1, <3>2
  <2>8. c = f
    BY <2>5, <2>6, <2>7, SeqEqual
  <2> QED  BY <1>6, <2>1, <2>2, <2>5, <2>8 DEF IsFrameId, IsId, IdWidth
<1> QED  BY <1>5, <1>6 DEF IsMessage

\* Where the parts of a message's text are.
IsLaidOut(cmd, m, w, n) ==
  /\ w = IdWidth(m.ext) /\ n = Len(m.data) /\ w \in {3, 8} /\ n \in 0 .. 8
  /\ cmd \in Seq(Chars)
  /\ Len(cmd) = w + 2 + 2 * n + IF m.data = <<>> THEN 0 ELSE 1
  /\ cmd[1] = IF m.ext THEN T ELSE t
  /\ \A i \in 1 .. w : cmd[1 + i] = Clipped(m.ext, m.id)[i]
  /\ cmd[w + 2] = n
  /\ \A i \in 1 .. 2 * n : cmd[w + 2 + i] = DataDigits(m.data)[i]
  /\ m.data # <<>> => cmd[w + 2 + 2 * n + 1] = CR

LEMMA LaidOut ==
  ASSUME NEW m, IsMessage(m)
  PROVE  IsLaidOut(Text(m), m, IdWidth(m.ext), Len(m.data))
<1> DEFINE L == <<IF m.ext THEN T ELSE t>>
           I == Clipped(m.ext, m.id)
           Z == <<Len(m.data)>>
           D == DataDigits(m.data)
           E == IF m.data = <<>> THEN <<>> ELSE <<CR>>
           N == <<>>
           w == IdWidth(m.ext)
           n == Len(m.data)
<1>1. Digits \subseteq Chars /\ CR \in Chars /\ T \in Chars /\ t \in Chars
  BY DEF Digits, Chars, CR, T, t
<1>2. \A q \in Seq(Digits) : q \in Seq(Chars)
  BY <1>1
<1>3. L \in Seq(Chars) /\ Len(L) = 1 /\ L[1] = IF m.ext THEN T ELSE t
  BY <1>1
<1>4. I \in Seq(Chars) /\ Len(I) = w /\ w \in {3, 8}
  <2>1. I \in Seq(Digits) /\ Len(I) = w
    BY ClippedId DEF IsFrameId, IsId
  <2> QED  BY <1>2, <2>1 DEF IdWidth
<1>5. n \in 0 .. 8
  <2>1. m.data \in Seq(Bytes) /\ Len(m.data) <= 8
    BY DEF IsMessage, IsData
  <2>2. Len(m.data) \in Nat
    BY <2>1, LenProperties
  <2>3. \A l \in Nat : l <= 8 => l \in 0 .. 8
    OBVIOUS
  <2> QED  BY <2>1, <2>2, <2>3, Zenon
<1>6. Z \in Seq(Chars) /\ Len(Z) = 1 /\ Z[1] = n
  <2>1. n \in Chars
    BY <1>5 DEF Chars
  <2> HIDE DEF n
  <2>2. <<n>> \in Seq(Chars) /\ Len(<<n>>) = 1 /\ <<n>>[1] = n
    BY <2>1
  <2> QED  BY <2>2 DEF n
<1>7. D \in Seq(Chars) /\ Len(D) = 2 * n
  BY <1>2, DigitsOfData DEF IsMessage
<1>8. /\ E \in Seq(Chars) /\ Len(E) = IF m.data = <<>> THEN 0 ELSE 1
      /\ m.data # <<>> => E[1] = CR
  <2>1. <<>> \in Seq(Chars) /\ Len(<<>>) = 0
    OBVIOUS
  <2>2. <<CR>> \in Seq(Chars) /\ Len(<<CR>>) = 1 /\ <<CR>>[1] = CR
    BY <1>1
  <2> QED  BY <2>1, <2>2
<1>9. N \in Seq(Chars) /\ Len(N) = 0
  OBVIOUS
<1>10. PICK cmd : cmd = Text(m)
  OBVIOUS
<1>11. cmd = L \o I \o Z \o D \o N \o E
  <2>1. cmd = L \o I \o Z \o D \o E
    BY <1>10 DEF Text
  <2> HIDE DEF L, I, Z, D, E
  <2>2. L \o I \in Seq(Chars)
    BY <1>3, <1>4, Joined
  <2>3. L \o I \o Z \in Seq(Chars)
    BY <1>6, <2>2, Joined
  <2>4. L \o I \o Z \o D \in Seq(Chars)
    BY <1>7, <2>3, Joined
  <2>5. \A q \in Seq(Chars) : q \o <<>> = q
    OBVIOUS
  <2>6. L \o I \o Z \o D \o N = L \o I \o Z \o D
    BY <2>4, <2>5
  <2> QED  BY <2>1, <2>6
<1> HIDE DEF L, I, Z, D, E, N
<1>12. MadeOf(Chars, cmd, L, I, Z, D, N, E)
  BY <1>3, <1>4, <1>6, <1>7, <1>8, <1>9, <1>11, Parts
<1> HIDE DEF w, n
<1>13. /\ Len(L) = 1 /\ Len(I) = w /\ Len(Z) = 1 /\ Len(D) = 2 * n
       /\ Len(N) = 0 /\ Len(E) = IF m.data = <<>> THEN 0 ELSE 1
       /\ w \in Nat /\ n \in Nat
  BY <1>3, <1>4, <1>5, <1>6, <1>7, <1>8, <1>9
<1>14. /\ cmd \in Seq(Chars)
       /\ Len(cmd) = w + 2 + 2 * n + IF m.data = <<>> THEN 0 ELSE 1
  <2>1. Len(cmd) = Len(L) + Len(I) + Len(Z) + Len(D) + Len(N) + Len(E)
        /\ cmd \in Seq(Chars)
    BY <1>12 DEF MadeOf
  <2> QED  BY <1>13, <2>1
<1>15. cmd[1] = IF m.ext THEN T ELSE t
  <2>1. \A i \in 1 .. Len(L) : cmd[i] = L[i]
    BY <1>12 DEF MadeOf
  <2>2. 1 \in 1 .. Len(L)
    BY <1>13
  <2> QED  BY <1>3, <2>1, <2>2
<1>16. \A i \in 1 .. w : cmd[1 + i] = I[i]
  <2>1. \A i \in 1 .. Len(I) : cmd[Len(L) + i] = I[i]
    BY <1>12 DEF MadeOf
  <2> QED  BY <1>13, <2>1
<1>17. cmd[w + 2] = n
  <2>1. \A i \in 1 .. Len(Z) : cmd[Len(L) + Len(I) + i] = Z[i]
    BY <1>12 DEF MadeOf
  <2>2. 1 \in 1 .. Len(Z) /\ Len(L) + Len(I) + 1 = w + 2
    BY <1>13
  <2> QED  BY <1>6, <2>1, <2>2
<1>18. \A i \in 1 .. 2 * n : cmd[w + 2 + i] = D[i]
  <2>1. \A i \in 1 .. Len(D) : cmd[Len(L) + Len(I) + Len(Z) + i] = D[i]
    BY <1>12 DEF MadeOf
  <2>2. \A i \in 1 .. 2 * n : Len(L) + Len(I) + Len(Z) + i = w + 2 + i
    BY <1>13
  <2> QED  BY <1>13, <2>1, <2>2
<1>19. ASSUME m.data # <<>>
       PROVE  cmd[w + 2 + 2 * n + 1] = CR
  <2>1. \A i \in 1 .. Len(E) :
          cmd[Len(L) + Len(I) + Len(Z) + Len(D) + Len(N) + i] = E[i]
    BY <1>12 DEF MadeOf
  <2>2. /\ 1 \in 1 .. Len(E)
        /\ Len(L) + Len(I) + Len(Z) + Len(D) + Len(N) + 1 = w + 2 + 2 * n + 1
    BY <1>13, <1>19
  <2> QED  BY <1>8, <1>19, <2>1, <2>2
<1>20. IsLaidOut(cmd, m, w, n)
  <2>1. w = IdWidth(m.ext) /\ n = Len(m.data)
    BY DEF w, n
  <2> QED  BY <2>1, <1>4, <1>5, <1>14, <1>15, <1>16, <1>17, <1>18, <1>19
           DEF IsLaidOut, I, D
<1> QED  BY <1>10, <1>20 DEF w, n

\* A message with data is a whole command, and the frame it should be.
LEMMA WholeCommand ==
  ASSUME NEW m, IsMessage(m), m.data # <<>>, NEW cmd, cmd = Text(m)
  PROVE  /\ cmd[Len(cmd)] = CR
         /\ BeginsWithFrame(cmd) /\ FrameLength(cmd) = Len(cmd) - 1
         /\ FrameIn(cmd) = FrameOf(m)
<1>1. PICK w, n : IsLaidOut(cmd, m, w, n) /\ w = IdWidth(m.ext) /\ n = Len(m.data)
  BY LaidOut
<1>2. /\ w \in {3, 8} /\ n \in 0 .. 8
      /\ cmd \in Seq(Chars) /\ Len(cmd) = w + 2 + 2 * n + 1
      /\ cmd[w + 2] = n /\ cmd[w + 2 + 2 * n + 1] = CR
  BY <1>1 DEF IsLaidOut
<1>3. cmd[1] \in {t, T} /\ (cmd[1] = T) = m.ext
  BY <1>1 DEF IsLaidOut, T, t, IsMessage
<1>4. /\ FrameLength(cmd) = w + 2 + 2 * n /\ IdWidth(cmd[1] = T) = w
  BY <1>1, <1>2, <1>3 DEF FrameLength
<1>5. cmd[Len(cmd)] = CR
  BY <1>2
<1>6. SubSeq(cmd, 2, 1 + w) = Clipped(m.ext, m.id)
  <2> DEFINE c == Clipped(m.ext, m.id)
  <2>1. c \in Seq(Digits) /\ Len(c) = w
    BY <1>1, ClippedId DEF IsFrameId, IsId
  <2>2. /\ \A i \in 1 .. w : cmd[1 + i] = c[i]
    BY <1>1 DEF IsLaidOut
  <2> HIDE DEF c
  <2>3. c \in Seq(Chars)
    <3>1. Digits \subseteq Chars
      BY DEF Digits, Chars
    <3> QED  BY <2>1, <3>1
  <2>4. \A i \in 2 .. 1 + w : cmd[i] \in Chars
    <3>1. \A i \in 2 .. 1 + w : i \in 1 .. Len(cmd)
      BY <1>2
    <3> QED  BY <3>1, <1>2
  <2>5. /\ 2 \in Int /\ 1 + w \in Int
        /\ (IF 2 <= 1 + w THEN (1 + w) - 2 + 1 ELSE 0) = w
        /\ (1 + w) - 2 + 1 = w /\ \A i \in 1 .. w : 2 + i - 1 = 1 + i
    BY <1>2
  <2>6. /\ SubSeq(cmd, 2, 1 + w) \in Seq(Chars)
        /\ Len(SubSeq(cmd, 2, 1 + w)) = IF 2 <= 1 + w THEN (1 + w) - 2 + 1 ELSE 0
        /\ \A i \in 1 .. (1 + w) - 2 + 1 :
             SubSeq(cmd, 2, 1 + w)[i] = cmd[2 + i - 1]
    BY <2>4, <2>5, SubSeqProperties
  <2>7. /\ Len(SubSeq(cmd, 2, 1 + w)) = w
        /\ \A i \in 1 .. w : SubSeq(cmd, 2, 1 + w)[i] = c[i]
    BY <2>2, <2>5, <2>6
  <2>8. SubSeq(cmd, 2, 1 + w) = c
    BY <2>1, <2>3, <2>6, <2>7, SeqEqual
  <2> QED  BY <2>8 DEF c
<1>7. \A i \in 2 .. w + 2 + 2 * n : cmd[i] \in Digits
  <2>1. /\ \A i \in 1 .. w : cmd[1 + i] = Clipped(m.ext, m.id)[i]
        /\ \A i \in 1 .. 2 * n : cmd[w + 2 + i] = DataDigits(m.data)[i]
    BY <1>1 DEF IsLaidOut
  <2>2. \A i \in 1 .. w : cmd[1 + i] \in Digits
    <3>1. Clipped(m.ext, m.id) \in Seq(Digits) /\ Len(Clipped(m.ext, m.id)) = w
      BY <1>1, ClippedId DEF IsFrameId, IsId
    <3>2. \A q \in Seq(Digits) : \A i \in 1 .. Len(q) : q[i] \in Digits
      OBVIOUS
    <3> QED  BY <2>1, <3>1, <3>2
  <2>3. \A i \in 1 .. 2 * n : cmd[w + 2 + i] \in Digits
    <3>1. /\ DataDigits(m.data) \in Seq(Digits)
          /\ Len(DataDigits(m.data)) = 2 * n
      BY <1>1, DigitsOfData DEF IsMessage
    <3>2. \A q \in Seq(Digits) : \A i \in 1 .. Len(q) : q[i] \in Digits
      OBVIOUS
    <3> QED  BY <2>1, <3>1, <3>2
  <2>4. n \in Digits
    BY <1>2 DEF Digits
  <2> SUFFICES ASSUME NEW i \in 2 .. w + 2 + 2 * n PROVE cmd[i] \in Digits
    OBVIOUS
  <2>5. CASE i <= w + 1
    <3>1. i - 1 \in 1 .. w /\ 1 + (i - 1) = i
      BY <1>2, <2>5
    <3> QED  BY <2>2, <3>1
  <2>6. CASE i = w + 2
    BY <1>2, <2>4, <2>6
  <2>7. CASE i > w + 2
    <3>1. i - (w + 2) \in 1 .. 2 * n /\ w + 2 + (i - (w + 2)) = i
      BY <1>2, <2>7
    <3> QED  BY <2>3, <3>1
  <2> QED  BY <1>2, <2>5, <2>6, <2>7
<1>8. IsFrameId(m.ext, Clipped(m.ext, m.id)) /\ Clipped(m.ext, m.id) = FrameOf(m).id
  BY ClippedId
<1>9. BeginsWithFrame(cmd)
  <2>1. w + 2 < Len(cmd) /\ FrameLength(cmd) < Len(cmd)
    BY <1>2, <1>4
  <2> QED  BY <1>2, <1>3, <1>4, <1>6, <1>7, <1>8, <2>1 DEF BeginsWithFrame
<1>10. FrameLength(cmd) = Len(cmd) - 1
  BY <1>2, <1>4
<1>11. Pairs(cmd, w + 3, n) = m.data
  <2>1. m.data \in Seq(Bytes) /\ IsData(m.data)
    BY DEF IsMessage, IsData
  <2>2. ASSUME NEW i \in 1 .. n
        PROVE  <<cmd[w + 3 + 2 * i - 2], cmd[w + 3 + 2 * i - 1]>> = m.data[i]
    <3>1. /\ 2 * i - 1 \in 1 .. 2 * n /\ 2 * i \in 1 .. 2 * n
          /\ w + 3 + 2 * i - 2 = w + 2 + (2 * i - 1)
          /\ w + 3 + 2 * i - 1 = w + 2 + 2 * i
      BY <1>2
    <3>2. \A j \in 1 .. 2 * n : cmd[w + 2 + j] = DataDigits(m.data)[j]
      BY <1>1 DEF IsLaidOut
    <3>3. /\ cmd[w + 3 + 2 * i - 2] = DataDigits(m.data)[2 * i - 1]
          /\ cmd[w + 3 + 2 * i - 1] = DataDigits(m.data)[2 * i]
      BY <3>1, <3>2
    <3>4. <<DataDigits(m.data)[2 * i - 1], DataDigits(m.data)[2 * i]>> = m.data[i]
      BY <1>1, <2>1, DigitsOfData
    <3> QED  BY <3>3, <3>4
  <2>3. Pairs(cmd, w + 3, n)
          = [i \in 1 .. n |-> <<cmd[w + 3 + 2 * i - 2], cmd[w + 3 + 2 * i - 1]>>]
    BY DEF Pairs
  <2>4. m.data = [i \in 1 .. n |-> m.data[i]]
    BY <1>1, <2>1
  <2> QED  BY <2>2, <2>3, <2>4
<1>12. FrameIn(cmd) = FrameOf(m)
  <2>1. FrameIn(cmd) = [ext |-> m.ext, rtr |-> FALSE,
                        id |-> SubSeq(cmd, 2, 1 + w), size |-> n,
                        data |-> Pairs(cmd, w + 3, n), own |-> TRUE]
    BY <1>1, <1>2, <1>3 DEF FrameIn
  <2>2. FrameOf(m) = [ext |-> m.ext, rtr |-> FALSE, id |-> FrameOf(m).id,
                      size |-> n, data |-> m.data, own |-> TRUE]
    BY <1>1 DEF FrameOf
  <2> QED  BY <1>6, <1>8, <1>11, <2>1, <2>2
<1> QED  BY <1>5, <1>9, <1>10, <1>12

\* The command begins with a frame that carries no data.
BeginsEmpty(cmd) ==
  /\ cmd[1] \in {t, T}
  /\ IdWidth(cmd[1] = T) + 2 <= Len(cmd)
  /\ cmd[IdWidth(cmd[1] = T) + 2] = 0

\* A message without data is half a command.
LEMMA HalfCommand ==
  ASSUME NEW m, IsMessage(m), m.data = <<>>, NEW cmd, cmd = Text(m)
  PROVE  cmd[Len(cmd)] # CR /\ BeginsEmpty(cmd)
<1>1. PICK w, n : IsLaidOut(cmd, m, w, n) /\ w = IdWidth(m.ext) /\ n = Len(m.data)
  BY LaidOut
<1>2. n = 0 /\ w \in {3, 8} /\ Len(cmd) = w + 2 + 2 * n + 0 /\ cmd[w + 2] = n
  BY <1>1 DEF IsLaidOut
<1>3. cmd[1] \in {t, T} /\ (cmd[1] = T) = m.ext
  BY <1>1 DEF IsLaidOut, T, t, IsMessage
<1>4. Len(cmd) = w + 2
  BY <1>2
<1>5. cmd[Len(cmd)] # CR
  BY <1>2, <1>4 DEF CR
<1>6. IdWidth(cmd[1] = T) = w
  BY <1>1, <1>3
<1> QED  BY <1>2, <1>3, <1>4, <1>5, <1>6 DEF BeginsEmpty

\* Whatever follows it, the frame it becomes carries no data.
LEMMA EmptyFrame ==
  ASSUME NEW cmd, BeginsEmpty(cmd)
  PROVE  FrameIn(cmd).data = <<>>
<1>1. FrameIn(cmd).data
        = Pairs(cmd, IdWidth(cmd[1] = T) + 3, cmd[IdWidth(cmd[1] = T) + 2])
  BY DEF FrameIn
<1>2. cmd[IdWidth(cmd[1] = T) + 2] = 0
  BY DEF BeginsEmpty
<1>3. \A from : Pairs(cmd, from, 0) = <<>>
  BY DEF Pairs
<1> QED  BY <1>1, <1>2, <1>3

LEMMA StillEmpty ==
  ASSUME NEW half \in Seq(Chars), half # <<>>, BeginsEmpty(half),
         NEW text \in Seq(Chars), text # <<>>
  PROVE  /\ BeginsEmpty(half \o text)
         /\ (half \o text)[Len(half \o text)] = text[Len(text)]
<1>1. PICK cmd : cmd = half \o text
  OBVIOUS
<1>2. /\ cmd \in Seq(Chars) /\ Len(cmd) = Len(half) + Len(text)
      /\ Len(half) \in Nat /\ Len(text) \in Nat
      /\ \A i \in 1 .. Len(half) : cmd[i] = half[i]
      /\ \A i \in 1 .. Len(text) : cmd[Len(half) + i] = text[i]
  BY <1>1, Joined
<1>3. Len(half) > 0 /\ Len(text) > 0
  BY EmptySeq
<1>4. cmd[Len(cmd)] = text[Len(text)]
  BY <1>2, <1>3
<1>5. cmd[1] = half[1]
  BY <1>2, <1>3
<1>6. PICK w : w = IdWidth(half[1] = T) /\ w \in {3, 8}
  BY DEF IdWidth
<1>7. half[1] \in {t, T} /\ w + 2 <= Len(half) /\ half[w + 2] = 0
  BY <1>6 DEF BeginsEmpty
<1>8. cmd[w + 2] = 0 /\ w + 2 <= Len(cmd)
  BY <1>2, <1>6, <1>7
<1> QED  BY <1>1, <1>4, <1>5, <1>6, <1>7, <1>8 DEF BeginsEmpty

\* Frame f is put on the bus.
LEMMA CarriedGrows ==
  ASSUME bus \in Seq(Frames), NEW f \in Frames, bus' = Append(bus, f)
  PROVE  Carried' = IF f.own /\ f.data # <<>> THEN Carried \cup {Len(bus) + 1}
                    ELSE Carried
<1>1. /\ bus' \in Seq(Frames) /\ Len(bus') = Len(bus) + 1 /\ Len(bus) \in Nat
      /\ \A k \in 1 .. Len(bus) : bus'[k] = bus[k]
      /\ bus'[Len(bus) + 1] = f
  BY Appended
<1>2. DOMAIN bus = 1 .. Len(bus) /\ DOMAIN bus' = 1 .. Len(bus) + 1
  BY <1>1
<1>3. \A k : k \in DOMAIN bus' <=> k \in DOMAIN bus \/ k = Len(bus) + 1
  BY <1>1, <1>2
<1>4. Len(bus) + 1 \notin DOMAIN bus
  BY <1>1, <1>2
<1>5. \A k \in DOMAIN bus : bus'[k] = bus[k]
  BY <1>1, <1>2
<1>6. \A k : k \in Carried <=> k \in DOMAIN bus /\ bus[k].own /\ bus[k].data # <<>>
  BY DEF Carried
<1>7. \A k : k \in Carried' <=> k \in DOMAIN bus' /\ bus'[k].own /\ bus'[k].data # <<>>
  BY DEF Carried
<1>8. PICK n : n = Len(bus) + 1
  OBVIOUS
<1>9. \A k : k \in Carried' <=>
             k \in Carried \/ (k = n /\ f.own /\ f.data # <<>>)
  <2>1. \A k : k \in DOMAIN bus' <=> k \in DOMAIN bus \/ k = n
    BY <1>3, <1>8
  <2>2. n \notin DOMAIN bus /\ bus'[n] = f
    BY <1>1, <1>4, <1>8
  <2> SUFFICES ASSUME NEW k
               PROVE  k \in Carried' <=>
                        k \in Carried \/ (k = n /\ f.own /\ f.data # <<>>)
    OBVIOUS
  <2>3. CASE k = n
    BY <1>6, <1>7, <2>1, <2>2, <2>3, Zenon
  <2>4. CASE k # n /\ k \in DOMAIN bus
    <3>1. bus'[k] = bus[k]
      BY <1>5, <2>4
    <3> QED  BY <1>6, <1>7, <2>1, <2>4, <3>1, Zenon
  <2>5. CASE k # n /\ k \notin DOMAIN bus
    BY <1>6, <1>7, <2>1, <2>5, Zenon
  <2> QED  BY <2>3, <2>4, <2>5
<1>10. CASE f.own /\ f.data # <<>>
  <2>1. \A k : k \in Carried' <=> k \in Carried \cup {n}
    BY <1>9, <1>10, Zenon
  <2> QED  BY <1>8, <1>10, <2>1
<1>11. CASE ~(f.own /\ f.data # <<>>)
  <2>1. \A k : k \in Carried' <=> k \in Carried
    BY <1>9, <1>11, Zenon
  <2> QED  BY <1>11, <2>1
<1> QED  BY <1>10, <1>11, Zenon

\* What comes behind a message without data puts no data on the bus; it ends
\* the half command if it brings a CR.
LEMMA BehindHalfCommand ==
  ASSUME held \in Seq(Chars), bus \in Seq(Frames), held # <<>>, BeginsEmpty(held),
         NEW text \in Seq(Chars), text # <<>>, Takes(text)
  PROVE  /\ Carried' = Carried
         /\ text[Len(text)] = CR => held' = <<>>
         /\ text[Len(text)] # CR => held' # <<>> /\ BeginsEmpty(held')
<1>1. PICK cmd : cmd = held \o text
  OBVIOUS
<1>2. /\ cmd \in Seq(Chars) /\ cmd # <<>>
      /\ BeginsEmpty(cmd) /\ cmd[Len(cmd)] = text[Len(text)]
  <2>1. /\ Len(cmd) = Len(held) + Len(text) /\ cmd \in Seq(Chars)
        /\ Len(held) \in Nat /\ Len(text) \in Nat
    BY <1>1, Joined
  <2>2. Len(text) # 0
    BY EmptySeq
  <2>3. cmd # <<>>
    BY <2>1, <2>2
  <2> QED  BY <1>1, <2>1, <2>3, StillEmpty
<1>3. CASE cmd[Len(cmd)] # CR
  <2>1. held' = cmd /\ UNCHANGED bus
    BY <1>1, <1>3 DEF Takes
  <2>2. Carried' = Carried
    BY <2>1 DEF Carried
  <2> QED  BY <1>2, <1>3, <2>1, <2>2
<1>4. CASE cmd[Len(cmd)] = CR
  <2>1. /\ held' = <<>>
        /\ \/ BeginsWithFrame(cmd) /\ bus' = Append(bus, FrameIn(cmd))
           \/ UNCHANGED bus
    BY <1>1, <1>4 DEF Takes
  <2>2. CASE BeginsWithFrame(cmd) /\ bus' = Append(bus, FrameIn(cmd))
    <3>1. FrameIn(cmd) \in Frames
      BY <1>2, <2>2, FrameInCommand, FramesAreFrames
    <3>2. FrameIn(cmd).data = <<>>
      BY <1>2, EmptyFrame
    <3>3. Carried' = Carried
      BY <2>2, <3>1, <3>2, CarriedGrows
    <3> QED  BY <1>2, <1>4, <2>1, <3>3
  <2>3. CASE UNCHANGED bus
    <3>1. Carried' = Carried
      BY <2>3 DEF Carried
    <3> QED  BY <1>2, <1>4, <2>1, <3>1
  <2> QED  BY <2>1, <2>2, <2>3
<1> QED  BY <1>3, <1>4

\* Where the messages whose data is due are on the bus.
Located(at) ==
  /\ at \in [Expected -> DOMAIN bus]
  /\ \A i \in Expected : bus[at[i]] = FrameOf(sent[i])
  /\ \A i, j \in Expected : i < j => at[i] < at[j]
  /\ Carried = {at[i] : i \in Expected}

\* A step that brings neither a message that is due nor data on the bus.
LEMMA NothingCarried ==
  ASSUME DataReachesBus, bus \in Seq(Frames), bus' \in Seq(Frames),
         Len(bus) <= Len(bus'), \A k \in 1 .. Len(bus) : bus'[k] = bus[k],
         Carried' = Carried, Expected' = Expected,
         \A i \in Expected : sent'[i] = sent[i]
  PROVE  DataReachesBus'
<1>1. PICK at : Located(at)
  BY DEF DataReachesBus, Located
<1>2. /\ at \in [Expected -> DOMAIN bus]
      /\ \A i \in Expected : bus[at[i]] = FrameOf(sent[i])
      /\ \A i, j \in Expected : i < j => at[i] < at[j]
      /\ Carried = {at[i] : i \in Expected}
  BY <1>1 DEF Located
<1>3. /\ Len(bus) \in Nat /\ Len(bus') \in Nat
      /\ DOMAIN bus = 1 .. Len(bus) /\ DOMAIN bus' = 1 .. Len(bus')
  OBVIOUS
<1>4. DOMAIN bus \subseteq DOMAIN bus'
  BY <1>3
<1>5. at \in [Expected' -> DOMAIN bus']
  BY <1>2, <1>4, Zenon
<1>6. \A i \in Expected' : bus'[at[i]] = FrameOf(sent'[i])
  <2> SUFFICES ASSUME NEW i \in Expected
               PROVE  bus'[at[i]] = FrameOf(sent'[i])
    OBVIOUS
  <2>1. at[i] \in 1 .. Len(bus)
    BY <1>2, <1>3
  <2>2. bus'[at[i]] = bus[at[i]]
    BY <2>1
  <2>3. bus[at[i]] = FrameOf(sent[i]) /\ sent'[i] = sent[i]
    BY <1>2
  <2> QED  BY <2>2, <2>3, Zenon
<1>7. \A i, j \in Expected' : i < j => at[i] < at[j]
  BY <1>2
<1>8. Carried' = {at[i] : i \in Expected'}
  BY <1>2
<1> QED  BY <1>5, <1>6, <1>7, <1>8 DEF DataReachesBus

\* A step that brings a message that is due and its frame.
LEMMA OneCarried ==
  ASSUME DataReachesBus, bus \in Seq(Frames), sent \in Seq(Messages),
         NEW m \in Messages, sent' = Append(sent, m),
         FrameOf(m) \in Frames, bus' = Append(bus, FrameOf(m)),
         m.data # <<>>, Expected' = Expected \cup {Len(sent) + 1}
  PROVE  DataReachesBus'
<1>1. PICK at : Located(at)
  BY DEF DataReachesBus, Located
<1>2. /\ at \in [Expected -> DOMAIN bus]
      /\ \A i \in Expected : bus[at[i]] = FrameOf(sent[i])
      /\ \A i, j \in Expected : i < j => at[i] < at[j]
      /\ Carried = {at[i] : i \in Expected}
  BY <1>1 DEF Located
<1>3. PICK n, k : n = Len(sent) + 1 /\ k = Len(bus) + 1
  OBVIOUS
<1>4. /\ Len(bus) \in Nat /\ k \in Nat /\ k = Len(bus) + 1
      /\ DOMAIN bus = 1 .. Len(bus) /\ DOMAIN bus' = 1 .. k
      /\ \A j \in 1 .. Len(bus) : bus'[j] = bus[j]
      /\ bus'[k] = FrameOf(m)
  <2>1. /\ bus' \in Seq(Frames) /\ Len(bus') = Len(bus) + 1 /\ Len(bus) \in Nat
        /\ \A j \in 1 .. Len(bus) : bus'[j] = bus[j]
        /\ bus'[Len(bus) + 1] = FrameOf(m)
    BY Appended
  <2> QED  BY <1>3, <2>1
<1>5. /\ Len(sent) \in Nat /\ n = Len(sent) + 1 /\ Expected \subseteq 1 .. Len(sent)
      /\ \A i \in 1 .. Len(sent) : sent'[i] = sent[i]
      /\ sent'[n] = m
  <2>1. /\ Len(sent) \in Nat /\ \A i \in 1 .. Len(sent) : sent'[i] = sent[i]
        /\ sent'[Len(sent) + 1] = m
    BY Appended
  <2> QED  BY <1>3, <2>1 DEF Expected
<1>6. n \notin Expected /\ Expected' = Expected \cup {n}
  BY <1>3, <1>5
<1>7. PICK on : on = [i \in Expected \cup {n} |-> IF i = n THEN k ELSE at[i]]
  OBVIOUS
<1>8. on[n] = k /\ \A i \in Expected : on[i] = at[i] /\ at[i] \in 1 .. Len(bus)
  BY <1>2, <1>4, <1>6, <1>7
<1>9. on \in [Expected' -> DOMAIN bus']
  <2>1. \A i \in Expected \cup {n} : on[i] \in 1 .. k
    <3>1. k \in 1 .. k /\ \A j \in 1 .. Len(bus) : j \in 1 .. k
      BY <1>4
    <3> QED  BY <1>8, <3>1
  <2> QED  BY <1>4, <1>6, <1>7, <2>1
<1>10. \A i \in Expected' : bus'[on[i]] = FrameOf(sent'[i])
  <2>1. bus'[on[n]] = FrameOf(sent'[n])
    BY <1>4, <1>5, <1>8
  <2>2. ASSUME NEW i \in Expected PROVE bus'[on[i]] = FrameOf(sent'[i])
    <3>1. bus'[on[i]] = bus[at[i]]
      BY <1>4, <1>8
    <3>2. sent'[i] = sent[i]
      BY <1>5
    <3>3. bus[at[i]] = FrameOf(sent[i])
      BY <1>2
    <3> QED  BY <3>1, <3>2, <3>3, Zenon
  <2> QED  BY <1>6, <2>1, <2>2, Zenon
<1>11. \A i, j \in Expected' : i < j => on[i] < on[j]
  <2> SUFFICES ASSUME NEW i \in Expected', NEW j \in Expected', i < j
               PROVE  on[i] < on[j]
    OBVIOUS
  <2>1. CASE i \in Expected /\ j \in Expected
    <3>1. at[i] < at[j]
      BY <1>2, <2>1
    <3> QED  BY <1>8, <2>1, <3>1, Zenon
  <2>2. CASE i \in Expected /\ j = n
    <3>1. \A l \in 1 .. Len(bus) : l < k
      BY <1>4
    <3> QED  BY <1>8, <2>2, <3>1
  <2>3. CASE i = n
    <3>1. ~(n < j)
      BY <1>5, <1>6
    <3> QED  BY <2>3, <3>1
  <2> QED  BY <1>6, <2>1, <2>2, <2>3
<1>12. Carried' = {on[i] : i \in Expected'}
  <2>1. Carried' = Carried \cup {k}
    <3>1. FrameOf(m).own /\ FrameOf(m).data # <<>>
      BY DEF FrameOf
    <3> QED  BY <1>3, <3>1, CarriedGrows
  <2>2. {on[i] : i \in Expected'} = {on[i] : i \in Expected} \cup {on[n]}
    BY <1>6
  <2>3. {on[i] : i \in Expected} = {at[i] : i \in Expected}
    BY <1>8
  <2> QED  BY <1>2, <1>8, <2>1, <2>2, <2>3
<1> QED  BY <1>9, <1>10, <1>11, <1>12 DEF DataReachesBus

\* The line is empty but behind a message without data that no poll followed,
\* and what stands there then is a frame without data.
Carrying ==
  /\ polled \subseteq 1 .. Len(sent)
  /\ held = <<>> <=> ~Spoiled(Len(sent) + 1)
  /\ held # <<>> => BeginsEmpty(held)
  /\ DataReachesBus

\* The next message is due if it has data and the line is empty.
LEMMA ExpectedGrows ==
  ASSUME sent \in Seq(Messages), NEW m \in Messages, sent' = Append(sent, m),
         polled \subseteq 1 .. Len(sent), UNCHANGED polled
  PROVE  /\ Expected' = IF m.data # <<>> /\ ~Spoiled(Len(sent) + 1)
                          THEN Expected \cup {Len(sent) + 1} ELSE Expected
         /\ Spoiled(Len(sent) + 1)' <=> m.data = <<>>
<1>1. PICK n : n = Len(sent) + 1
  OBVIOUS
<1>2. /\ Len(sent) \in Nat /\ n = Len(sent) + 1 /\ Len(sent') = n
      /\ \A i \in 1 .. Len(sent) : sent'[i] = sent[i]
      /\ sent'[n] = m
  BY <1>1, Appended
<1>3. \A i \in 1 .. n :
        Spoiled(i)' <=> Spoiled(i)
  <2> SUFFICES ASSUME NEW i \in 1 .. n
               PROVE  Spoiled(i)' <=> Spoiled(i)
    OBVIOUS
  <2>1. CASE i > 1
    <3>1. i - 1 \in 1 .. Len(sent)
      BY <1>2, <2>1
    <3>2. sent'[i - 1] = sent[i - 1]
      BY <1>2, <3>1
    <3> QED  BY <3>2 DEF Spoiled
  <2>2. CASE ~(i > 1)
    BY <2>2 DEF Spoiled
  <2> QED  BY <2>1, <2>2
<1>4. \A i \in 1 .. Len(sent) : Whole(i)' <=> Whole(i)
  <2> SUFFICES ASSUME NEW i \in 1 .. Len(sent)
               PROVE  Whole(i)' <=> Whole(i)
    OBVIOUS
  <2>1. i \in 1 .. n
    BY <1>2
  <2>2. (Spoiled(i)' <=> Spoiled(i)) /\ sent'[i] = sent[i]
    BY <1>2, <1>3, <2>1
  <2> QED  BY <2>2 DEF Whole
<1>5. Whole(n)' <=> m.data # <<>> /\ ~Spoiled(n)
  <2>1. n \in 1 .. n
    BY <1>2
  <2>2. Spoiled(n)' <=> Spoiled(n)
    BY <1>3, <2>1
  <2>3. sent'[n] = m
    BY <1>2
  <2> QED  BY <2>2, <2>3 DEF Whole
<1>6. \A i : i \in Expected' <=> i \in 1 .. n /\ Whole(i)'
  BY <1>2 DEF Expected
<1>7. \A i : i \in Expected <=> i \in 1 .. Len(sent) /\ Whole(i)
  BY DEF Expected
<1>8. \A i : i \in 1 .. n <=> i \in 1 .. Len(sent) \/ i = n
  BY <1>2
<1>9. \A i : i \in Expected' <=>
             i \in Expected \/ (i = n /\ m.data # <<>> /\ ~Spoiled(n))
  BY <1>4, <1>5, <1>6, <1>7, <1>8, Zenon
<1>10. Expected' = IF m.data # <<>> /\ ~Spoiled(n) THEN Expected \cup {n}
                   ELSE Expected
  <2>1. CASE m.data # <<>> /\ ~Spoiled(n)
    <3>1. \A i : i \in Expected' <=> i \in Expected \cup {n}
      BY <1>9, <2>1, Zenon
    <3> QED  BY <2>1, <3>1
  <2>2. CASE ~(m.data # <<>> /\ ~Spoiled(n))
    <3>1. \A i : i \in Expected' <=> i \in Expected
      BY <1>9, <2>2, Zenon
    <3> QED  BY <2>2, <3>1
  <2> QED  BY <2>1, <2>2, Zenon
<1>11. Spoiled(Len(sent) + 1)' <=> m.data = <<>>
  <2>1. /\ Len(sent') + 1 > 1 /\ Len(sent') + 1 - 1 = n /\ n \notin polled
    BY <1>2
  <2>2. polled' = polled /\ sent'[n] = m
    BY <1>2
  <2> QED  BY <2>1, <2>2 DEF Spoiled
<1> QED  BY <1>1, <1>10, <1>11

LEMMA CarryingStep == Inv /\ Carrying /\ [Next]_vars => Carrying'
<1> SUFFICES ASSUME Inv, Carrying, [Next]_vars
             PROVE  Carrying'
  OBVIOUS
<1>1. /\ sent \in Seq(Messages) /\ held \in Seq(Chars) /\ bus \in Seq(Frames)
      /\ Len(sent) \in Nat /\ (held # <<>> => sent # <<>>)
  BY DEF Inv, TypeOK, Counted
<1>2. /\ polled \subseteq 1 .. Len(sent)
      /\ held = <<>> <=> ~Spoiled(Len(sent) + 1)
      /\ held # <<>> => BeginsEmpty(held)
      /\ DataReachesBus
  BY DEF Carrying
<1>3. ASSUME NEW m \in Messages, Transmit(m)
      PROVE  Carrying'
  <2>1. PICK text : text = Text(m)
    OBVIOUS
  <2>2. IsMessage(m) /\ text \in Seq(Chars) /\ text # <<>>
    BY <2>1, MessagesAssumption, TextIsText
  <2>3. Takes(text) /\ sent' = Append(sent, m) /\ UNCHANGED polled
    BY <1>3, <2>1 DEF Transmit
  <2>4. /\ bus' \in Seq(Frames) /\ Len(bus) <= Len(bus')
        /\ \A k \in 1 .. Len(bus) : bus'[k] = bus[k]
    BY <1>1, <2>2, <2>3, TakesFrames
  <2>5. /\ Expected' = IF m.data # <<>> /\ ~Spoiled(Len(sent) + 1)
                         THEN Expected \cup {Len(sent) + 1} ELSE Expected
        /\ Spoiled(Len(sent) + 1)' <=> m.data = <<>>
    BY <1>1, <1>2, <2>3, ExpectedGrows
  <2>6. /\ Len(sent') = Len(sent) + 1
        /\ \A i \in 1 .. Len(sent) : sent'[i] = sent[i]
    BY <1>1, <2>3, Appended
  <2>7. polled' \subseteq 1 .. Len(sent')
    BY <1>1, <1>2, <2>3, <2>6
  <2>8. \A i \in Expected : sent'[i] = sent[i]
    BY <2>6 DEF Expected
  <2>9. text[Len(text)] = CR <=> m.data # <<>>
    BY <2>1, <2>2, WholeCommand, HalfCommand
  <2>10. CASE held # <<>>
    <3>1. /\ Carried' = Carried
          /\ text[Len(text)] = CR => held' = <<>>
          /\ text[Len(text)] # CR => held' # <<>> /\ BeginsEmpty(held')
      BY <1>1, <1>2, <2>2, <2>3, <2>10, BehindHalfCommand
    <3>2. Expected' = Expected
      BY <1>2, <2>5, <2>10
    <3>3. DataReachesBus'
      BY <1>1, <1>2, <2>4, <2>8, <3>1, <3>2, NothingCarried
    <3>4. held' = <<>> <=> ~(Spoiled(Len(sent) + 1)')
      BY <2>5, <2>9, <3>1, Zenon
    <3>5. held' # <<>> => BeginsEmpty(held')
      BY <3>1, Zenon
    <3> QED  BY <2>7, <3>3, <3>4, <3>5 DEF Carrying
  <2>11. CASE held = <<>> /\ m.data # <<>>
    <3>1. held \o text = text
      BY <2>2, <2>11
    <3>2. /\ text[Len(text)] = CR /\ BeginsWithFrame(text)
          /\ FrameLength(text) = Len(text) - 1 /\ FrameIn(text) = FrameOf(m)
      BY <2>1, <2>2, <2>11, WholeCommand
    <3>3. held' = <<>> /\ bus' = Append(bus, FrameOf(m))
      BY <2>3, <3>1, <3>2 DEF Takes
    <3>4. FrameOf(m) \in Frames
      BY <2>2, <3>2, FrameInCommand, FramesAreFrames
    <3>5. Expected' = Expected \cup {Len(sent) + 1}
      BY <1>2, <2>5, <2>11
    <3>6. DataReachesBus'
      BY <1>1, <1>2, <2>3, <2>11, <3>3, <3>4, <3>5, OneCarried
    <3> QED  BY <2>5, <2>7, <2>11, <3>3, <3>6 DEF Carrying
  <2>12. CASE held = <<>> /\ m.data = <<>>
    <3>1. held \o text = text
      BY <2>2, <2>12
    <3>2. text[Len(text)] # CR /\ BeginsEmpty(text)
      BY <2>1, <2>2, <2>12, HalfCommand
    <3>3. held' = text /\ bus' = bus
      BY <2>3, <3>1, <3>2 DEF Takes
    <3>4. Expected' = Expected
      BY <2>5, <2>12
    <3>5. Carried' = Carried
      BY <3>3 DEF Carried
    <3>6. DataReachesBus'
      BY <1>1, <1>2, <2>4, <2>8, <3>4, <3>5, NothingCarried
    <3> QED  BY <2>2, <2>5, <2>7, <2>12, <3>2, <3>3, <3>6 DEF Carrying
  <2> QED  BY <2>10, <2>11, <2>12
<1>4. ASSUME Poll
      PROVE  Carrying'
  <2>1. PICK text : text = PollText
    OBVIOUS
  <2>2. text \in Seq(Chars) /\ text # <<>> /\ text[Len(text)] = CR
    BY <2>1 DEF PollText, Chars, CR
  <2>3. /\ Takes(text) /\ UNCHANGED sent /\ held # <<>>
        /\ polled' = polled \cup {Len(sent)}
    BY <1>4, <2>1 DEF Poll
  <2>4. /\ bus' \in Seq(Frames) /\ Len(bus) <= Len(bus')
        /\ \A k \in 1 .. Len(bus) : bus'[k] = bus[k]
    BY <1>1, <2>2, <2>3, TakesFrames
  <2>5. Carried' = Carried /\ held' = <<>>
    BY <1>1, <1>2, <2>2, <2>3, BehindHalfCommand
  <2>6. Len(sent) \in 1 .. Len(sent)
    <3>1. Len(sent) # 0
      BY <1>1, <2>3, EmptySeq
    <3> QED  BY <1>1, <3>1
  <2>7. polled' \subseteq 1 .. Len(sent')
    BY <1>2, <2>3, <2>6
  <2>8. ~Spoiled(Len(sent) + 1)'
    <3>1. Len(sent') + 1 - 1 = Len(sent) /\ Len(sent) \in polled'
      BY <1>1, <2>3
    <3> QED  BY <3>1 DEF Spoiled
  <2>9. Expected' = Expected
    <3>1. ASSUME NEW i \in 1 .. Len(sent) PROVE Whole(i)' <=> Whole(i)
      <4>1. i - 1 # Len(sent)
        BY <1>1
      <4>2. i - 1 \in polled' <=> i - 1 \in polled
        BY <2>3, <4>1
      <4> QED  BY <2>3, <4>2 DEF Whole, Spoiled
    <3> QED  BY <2>3, <3>1 DEF Expected
  <2>10. DataReachesBus'
    BY <1>1, <1>2, <2>3, <2>4, <2>5, <2>9, NothingCarried
  <2> QED  BY <2>5, <2>7, <2>8, <2>10 DEF Carrying
<1>5. ASSUME NEW f \in Others, OtherFrame(f)
      PROVE  Carrying'
  <2>1. f \in Frames /\ ~f.own
    BY OthersAssumption
  <2>2. bus' = Append(bus, f) /\ UNCHANGED <<sent, polled, held>>
    BY <1>5 DEF OtherFrame
  <2>3. /\ bus' \in Seq(Frames) /\ Len(bus') = Len(bus) + 1 /\ Len(bus) \in Nat
        /\ \A k \in 1 .. Len(bus) : bus'[k] = bus[k]
    BY <1>1, <2>1, <2>2, Appended
  <2>4. Len(bus) <= Len(bus')
    BY <2>3
  <2>5. Carried' = Carried
    BY <1>1, <2>1, <2>2, CarriedGrows
  <2>6. Expected' = Expected /\ (Spoiled(Len(sent) + 1)' <=> Spoiled(Len(sent) + 1))
    BY <2>2 DEF Expected, Whole, Spoiled
  <2>7. DataReachesBus'
    BY <1>1, <1>2, <2>2, <2>3, <2>4, <2>5, <2>6, NothingCarried
  <2> QED  BY <1>2, <2>2, <2>6, <2>7 DEF Carrying
<1>6. ASSUME UNCHANGED <<sent, polled, held, bus>>
      PROVE  Carrying'
  <2>1. Expected' = Expected /\ Carried' = Carried
        /\ (Spoiled(Len(sent) + 1)' <=> Spoiled(Len(sent) + 1))
    BY <1>6 DEF Expected, Carried, Whole, Spoiled
  <2>2. Len(bus) \in Nat
    BY <1>1
  <2>3. Len(bus) <= Len(bus')
    BY <1>6, <2>2
  <2>4. DataReachesBus'
    BY <1>1, <1>2, <1>6, <2>1, <2>3, NothingCarried
  <2> QED  BY <1>2, <1>6, <2>1, <2>4 DEF Carrying
<1>7. ASSUME NEW stamp \in Stamps, Hear(stamp)
      PROVE  Carrying'
  BY <1>6, <1>7 DEF Hear
<1>8. ASSUME UNCHANGED vars
      PROVE  Carrying'
  BY <1>6, <1>8 DEF vars
<1> QED  BY <1>3, <1>4, <1>5, <1>7, <1>8 DEF Next

\* Data reaches the bus once each, in order and as it was written, whatever
\* messages, polls and frames of other nodes come between; a message without
\* data, whose CR the worker leaves out (linux/can232obj.cpp:738-747), costs no
\* more than the data of the next.
THEOREM WrittenDataReachesBus == Spec => []DataReachesBus
<1>1. Init => Carrying
  <2> SUFFICES ASSUME Init PROVE Carrying
    OBVIOUS
  <2>1. sent = <<>> /\ polled = {} /\ held = <<>> /\ bus = <<>>
    BY DEF Init
  <2>2. Len(sent) = 0 /\ DOMAIN bus = {}
    BY <2>1
  <2>3. Expected = {} /\ Carried = {}
    BY <2>2 DEF Expected, Carried
  <2>4. DataReachesBus
    <3>1. PICK at : at = [i \in Expected |-> i]
      OBVIOUS
    <3>2. at \in [Expected -> DOMAIN bus] /\ Carried = {at[i] : i \in Expected}
      BY <2>3, <3>1
    <3>3. \A i \in Expected : FALSE
      BY <2>3
    <3> QED  BY <3>2, <3>3 DEF DataReachesBus
  <2>5. ~Spoiled(Len(sent) + 1)
    BY <2>2 DEF Spoiled
  <2> QED  BY <2>1, <2>4, <2>5 DEF Carrying
<1>2. Carrying => DataReachesBus
  BY DEF Carrying
<1> QED  BY Initially, Steps, CarryingStep, <1>1, <1>2, PTL DEF Spec

=============================================================================
