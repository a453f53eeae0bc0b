-------------------------- MODULE HttpParserProofs ---------------------------
(***************************************************************************)
(* Theorems about HttpParser: for any limits, any size of a read, and any  *)
(* number of requests of any client that sends the bodies it declares.     *)
(***************************************************************************)
EXTENDS HttpParser, SequenceTheorems, FiniteSetTheorems, WellFoundedInduction, TLAPS

\* What the stream is made of.
Lines == DOMAIN Version \cup DOMAIN FieldName \cup {"bad_line", "bad_field"}
Units == Lines \cup {"CR", "LF", "body"}

\* No line is one of the other units.
LEMMA LinesApart == "CR" \notin Lines /\ "LF" \notin Lines
  BY DEF Lines, Version, FieldName

-----------------------------------------------------------------------------
\* Induction: a property of numbers that fails somewhere fails first at one
\* whose predecessors have it.
LEMMA LeastFailure ==
  ASSUME NEW T, T \subseteq Nat, T # {}
  PROVE  \E n \in T : \A m \in Nat : m < n => m \notin T
  <1> DEFINE R == OpToRel(<, Nat)
  <1>1. \A x, y \in Nat : x < y => <<x, y>> \in R
    BY Zenon DEF OpToRel
  <1>2. IsWellFoundedOn(R, Nat)
    BY NatLessThanWellFounded, Zenon
  <1> HIDE DEF R
  <1>3. PICK n \in T : \A m \in T : ~(<<m, n>> \in R)
    BY <1>2, WFMin, Zenon
  <1> QED
    BY <1>1, <1>3, Zenon

\* h starts at base and goes from each value to the next with g.
Unrolls(h, n, V, base, g) ==
  h \in [0..n -> V] /\ h[0] = base /\ \A k \in 1..n : h[k] = g[k][h[k - 1]]

\* There always is such a function.
LEMMA Recursion ==
  ASSUME NEW n \in Nat, NEW V, NEW base \in V, NEW g \in [1..n -> [V -> V]]
  PROVE  \E h : Unrolls(h, n, V, base, g)
  <1> DEFINE
        E(h, k) == IF k = 0 THEN base ELSE g[k][h[k - 1]]
        Up(m, h) == h \in [0..n -> V] /\ \A k \in 0..n : k <= m => h[k] = E(h, k)
        T == {m \in Nat : ~\E h : Up(m, h)}
  <1>1. T = {}
    <2> SUFFICES ASSUME T # {} PROVE FALSE
      OBVIOUS
    <2>1. T \subseteq Nat
      OBVIOUS
    <2> HIDE DEF T
    <2>2. PICK m \in T : \A l \in Nat : l < m => l \notin T
      BY <2>1, LeastFailure, Zenon
    <2>3. m \in Nat /\ ~\E h : Up(m, h)
      BY DEF T
    <2>4. CASE m = 0
      <3> DEFINE z == [k \in 0..n |-> base]
      <3>1. Up(m, z)
        BY <2>4
      <3> QED
        BY <2>3, <3>1
    <2>5. CASE m # 0
      <3> HIDE DEF Up
      <3>1. m - 1 \in Nat /\ m - 1 < m
        BY <2>3, <2>5
      <3>2. PICK f : Up(m - 1, f)
        BY <2>2, <3>1 DEF T
      <3> USE DEF Up
      <3> DEFINE z == [k \in 0..n |-> E(f, k)]
      <3>3. ASSUME NEW k \in 0..n
            PROVE  E(f, k) \in V
        <4>1. k # 0 => k \in 1..n /\ f[k - 1] \in V
          BY <3>2
        <4> QED
          BY <4>1
      <3>4. z \in [0..n -> V]
        BY <3>3
      <3>5. ASSUME NEW k \in 0..n, k <= m
            PROVE  z[k] = E(z, k)
        <4>1. CASE k = 0
          BY <4>1
        <4>2. CASE k # 0
          <5>1. k - 1 \in 0..n /\ k - 1 <= m - 1
            BY <2>3, <3>5, <4>2
          <5>2. z[k - 1] = f[k - 1]
            BY <3>2, <5>1
          <5> QED
            BY <4>2, <5>2
        <4> QED
          BY <4>1, <4>2
      <3>6. Up(m, z)
        BY <3>4, <3>5
      <3> QED
        BY <2>3, <3>6, Zenon
    <2> QED
      BY <2>4, <2>5
  <1>2. PICK h : Up(n, h)
    BY <1>1, Zenon
  <1>3. h \in [0..n -> V] /\ \A k \in 0..n : h[k] = E(h, k)
    BY <1>2
  <1>4. h[0] = base /\ \A k \in 1..n : h[k] = g[k][h[k - 1]]
    <2>1. 0 \in 0..n /\ \A k \in 1..n : k \in 0..n /\ k # 0
      OBVIOUS
    <2> QED
      BY <1>3, <2>1
  <1> QED
    BY <1>3, <1>4 DEF Unrolls

-----------------------------------------------------------------------------
\* What a client sends.

\* Lines are three units apart.
LEMMA Thirds ==
  ASSUME NEW n \in Nat
  PROVE  (3 * n + 1) % 3 = 1 /\ (3 * n + 1) \div 3 = n
  <1> DEFINE i == 3 * n + 1
             q == i \div 3
             r == i % 3
  <1>1. i \in Nat /\ q \in Int /\ r \in 0..2 /\ i = 3 * q + r
    OBVIOUS
  <1>2. \A a, b \in Int, c \in 0..2 : 3 * a + 1 = 3 * b + c => a = b /\ c = 1
    OBVIOUS
  <1>3. 3 * n + 1 = 3 * q + r
    BY <1>1
  <1> HIDE DEF q, r
  <1>4. q = n /\ r = 1
    BY <1>1, <1>2, <1>3
  <1> QED
    BY <1>4 DEF q, r, i

\* A request as a sequence of units.
LEMMA RenderFacts ==
  ASSUME NEW m \in Messages
  PROVE  /\ HeaderSize(m) \in Nat /\ HeaderSize(m) > 0 /\ HeaderSize(m) % 3 = 1
         /\ HeaderSize(m) \div 3 = Len(m.fields)
         /\ Size(m) \in Nat /\ Size(m) = HeaderSize(m) + 4 + m.body /\ m.body \in Nat
         /\ Render(m) \in Seq(Units) /\ Len(Render(m)) = Size(m)
         /\ Render(m)[1] = m.line /\ m.line \in Lines
         /\ \A k \in 1..Len(m.fields) : /\ Render(m)[3 * k + 1] = m.fields[k]
                                        /\ m.fields[k] \in Lines
         /\ \A i \in 1..HeaderSize(m) : /\ i % 3 = 1 => Render(m)[i] \in Lines
                                        /\ i % 3 = 2 => Render(m)[i] = "CR"
                                        /\ i % 3 = 0 => Render(m)[i] = "LF"
         /\ \A j \in 1..4 : Render(m)[HeaderSize(m) + j] = <<"CR", "LF", "CR", "LF">>[j]
  <1> DEFINE H == HeaderSize(m)
             n == Len(m.fields)
  <1>1. /\ m.line \in DOMAIN Version \cup {"bad_line"} /\ m.body \in Nat
        /\ m.fields \in Seq(DOMAIN FieldName \cup {"bad_field"})
    BY ParserAssumption
  <1>2. n \in Nat /\ \A k \in 1..n : m.fields[k] \in Lines
    BY <1>1, ElementOfSeq, LenProperties DEF Lines
  <1>3. m.line \in Lines
    BY <1>1 DEF Lines
  <1>4. H = 1 + 3 * n
    BY DEF HeaderSize
  <1>5. H \in Nat /\ H > 0 /\ H % 3 = 1 /\ H \div 3 = n
    <2>1. H = 3 * n + 1
      BY <1>2, <1>4
    <2> HIDE DEF H, n
    <2>2. (3 * n + 1) % 3 = 1 /\ (3 * n + 1) \div 3 = n
      BY <1>2, Thirds
    <2> QED
      BY <1>2, <2>1, <2>2
  <1>6. Size(m) \in Nat /\ Size(m) = H + 4 + m.body
    BY <1>1, <1>5 DEF Size
  <1> HIDE DEF H, n
  <1> DEFINE unit(i) ==
               IF i > H + 4 THEN "body"
               ELSE IF i > H THEN <<"CR", "LF", "CR", "LF">>[i - H]
               ELSE IF i = 1 THEN m.line
               ELSE IF i % 3 = 1 THEN m.fields[i \div 3]
               ELSE IF i % 3 = 2 THEN "CR" ELSE "LF"
  <1>7. Render(m) = [i \in 1..Size(m) |-> unit(i)]
    BY DEF Render, H
  <1>8. ASSUME NEW i \in 1..H
        PROVE  /\ unit(i) \in Units
               /\ i % 3 = 1 => unit(i) \in Lines
               /\ i % 3 = 2 => unit(i) = "CR"
               /\ i % 3 = 0 => unit(i) = "LF"
    <2>1. i \in Nat /\ ~(i > H + 4) /\ ~(i > H)
      BY <1>5
    <2>2. CASE i = 1
      BY <1>3, <2>1, <2>2 DEF Units
    <2>3. CASE i # 1 /\ i % 3 = 1
      <3>1. i \div 3 \in 1..n
        BY <1>2, <1>4, <2>1, <2>3 DEF H, n
      <3> QED
        BY <1>2, <2>1, <2>3, <3>1 DEF Units
    <2>4. CASE i # 1 /\ i % 3 # 1
      BY <2>1, <2>4 DEF Units
    <2> QED
      BY <2>2, <2>3, <2>4
  <1>9. ASSUME NEW j \in 1..4
        PROVE  unit(H + j) = <<"CR", "LF", "CR", "LF">>[j] /\ unit(H + j) \in Units
    <2> DEFINE x == H + j
    <2>1. ~(x > H + 4) /\ x > H /\ x - H = j
      BY <1>5
    <2>2. <<"CR", "LF", "CR", "LF">>[j] \in Units
      BY DEF Units
    <2> HIDE DEF x
    <2>3. unit(x) = <<"CR", "LF", "CR", "LF">>[x - H]
      BY <2>1
    <2>4. unit(x) = <<"CR", "LF", "CR", "LF">>[j] /\ unit(x) \in Units
      BY <2>1, <2>2, <2>3
    <2> HIDE DEF unit
    <2> QED
      BY <2>4 DEF x
  <1>10. ASSUME NEW k \in 1..n
         PROVE  unit(3 * k + 1) = m.fields[k] /\ 3 * k + 1 \in 1..H
    <2>1. /\ 3 * k + 1 \in 1..H /\ 3 * k + 1 # 1 /\ (3 * k + 1) % 3 = 1
          /\ (3 * k + 1) \div 3 = k
      <3>1. k \in Nat /\ 3 * k + 1 \in 1..H /\ 3 * k + 1 # 1
        BY <1>2, <1>4 DEF n, H
      <3> QED
        BY <3>1, Thirds
    <2> QED
      BY <1>5, <2>1
  <1>11. unit(1) = m.line
    BY <1>5
  <1>12. ASSUME NEW i \in 1..Size(m)
         PROVE  unit(i) \in Units
    <2>1. CASE i \in 1..H
      BY <1>8, <2>1
    <2>2. CASE i > H /\ i <= H + 4
      <3>1. i - H \in 1..4 /\ H + (i - H) = i
        BY <1>5, <2>2
      <3> QED
        BY <1>9, <3>1
    <2>3. CASE i > H + 4
      BY <2>3 DEF Units
    <2> QED
      BY <1>5, <1>6, <2>1, <2>2, <2>3
  <1>13. /\ 1..H \subseteq 1..Size(m) /\ 1 \in 1..H
         /\ \A j \in 1..4 : H + j \in 1..Size(m)
    BY <1>1, <1>5, <1>6
  <1> HIDE DEF unit
  <1>14. Render(m) \in Seq(Units) /\ Len(Render(m)) = Size(m)
    BY <1>6, <1>7, <1>12
  <1>15. \A i \in 1..Size(m) : Render(m)[i] = unit(i)
    BY <1>7
  <1>16. Render(m)[1] = m.line
    BY <1>11, <1>13, <1>15
  <1>17. \A k \in 1..n : Render(m)[3 * k + 1] = m.fields[k]
    BY <1>10, <1>13, <1>15
  <1>18. \A i \in 1..H : /\ i % 3 = 1 => Render(m)[i] \in Lines
                         /\ i % 3 = 2 => Render(m)[i] = "CR"
                         /\ i % 3 = 0 => Render(m)[i] = "LF"
    BY <1>8, <1>13, <1>15
  <1>19. \A j \in 1..4 : Render(m)[H + j] = <<"CR", "LF", "CR", "LF">>[j]
    BY <1>9, <1>13, <1>15
  <1> QED
    BY <1>1, <1>2, <1>3, <1>5, <1>6, <1>14, <1>16, <1>17, <1>18, <1>19 DEF H, n

\* EndOf adds up the sizes.
LEMMA EndFacts ==
  ASSUME NEW ms \in Seq(Messages)
  PROVE  /\ EndOf(ms) \in [0..Len(ms) -> Nat] /\ EndOf(ms)[0] = 0
         /\ \A k \in 1..Len(ms) : EndOf(ms)[k] = EndOf(ms)[k - 1] + Size(ms[k])
  <1> DEFINE
        n == Len(ms)
        Is(h) == h = [k \in 0..n |-> IF k = 0 THEN 0 ELSE h[k - 1] + Size(ms[k])]
        g == [k \in 1..n |-> [v \in Nat |-> v + Size(ms[k])]]
  <1>1. n \in Nat /\ \A k \in 1..n : ms[k] \in Messages /\ Size(ms[k]) \in Nat
    BY LenProperties, ElementOfSeq, RenderFacts, Zenon
  <1>2. EndOf(ms) = CHOOSE h : Is(h)
    BY DEF EndOf
  <1> HIDE DEF n
  <1>3. g \in [1..n -> [Nat -> Nat]]
    BY <1>1
  <1>4. \A k \in 1..n, v \in Nat : g[k][v] = v + Size(ms[k])
    BY <1>1
  <1> HIDE DEF g
  <1>5. PICK h : Unrolls(h, n, Nat, 0, g)
    <2>1. n \in Nat /\ 0 \in Nat
      BY <1>1
    <2> QED
      BY <1>3, <2>1, Recursion, Zenon
  <1>6. ASSUME NEW k \in 0..n
        PROVE  h[k] = IF k = 0 THEN 0 ELSE h[k - 1] + Size(ms[k])
    <2>1. k # 0 => k \in 1..n /\ k - 1 \in 0..n /\ h[k - 1] \in Nat
      BY <1>1, <1>5 DEF Unrolls
    <2> QED
      BY <1>4, <1>5, <2>1 DEF Unrolls
  <1>7. Is(h)
    BY <1>5, <1>6 DEF Unrolls
  <1>8. Is(EndOf(ms))
    BY <1>2, <1>7, Zenon
  <1> DEFINE e == EndOf(ms)
  <1>9. e[0] = 0 /\ DOMAIN e = 0..n /\ \A k \in 1..n : e[k] = e[k - 1] + Size(ms[k])
    BY <1>1, <1>8
  <1>10. e = [k \in 0..n |-> e[k]]
    BY <1>8
  <1> HIDE DEF e
  <1> DEFINE T == {k \in Nat : k <= n /\ e[k] \notin Nat}
  <1>11. T = {}
    <2> SUFFICES ASSUME T # {} PROVE FALSE
      OBVIOUS
    <2>1. PICK k \in T : \A j \in Nat : j < k => j \notin T
      BY LeastFailure, Zenon
    <2>2. k \in 1..n /\ k - 1 \in Nat /\ k - 1 < k /\ k - 1 <= n
      BY <1>1, <1>9
    <2>3. e[k - 1] \in Nat
      BY <2>1, <2>2
    <2> QED
      BY <1>1, <1>9, <2>2, <2>3
  <1>12. ASSUME NEW k \in 0..n
         PROVE  e[k] \in Nat
    <2>1. k \in Nat /\ k <= n
      BY <1>1
    <2> QED
      BY <1>11, <2>1
  <1>13. e \in [0..n -> Nat]
    BY <1>10, <1>12
  <1> QED
    BY <1>9, <1>13 DEF e, n

\* A request ends no earlier than the ones before it.
LEMMA EndsGrow ==
  ASSUME NEW ms \in Seq(Messages), NEW j \in 0..Len(ms), NEW k \in 0..Len(ms), j <= k
  PROVE  EndOf(ms)[j] <= EndOf(ms)[k]
  <1> DEFINE e == EndOf(ms)
             n == Len(ms)
             T == {i \in Nat : j <= i /\ i <= n /\ ~(e[j] <= e[i])}
  <1>1. /\ n \in Nat /\ e \in [0..n -> Nat] /\ j \in 0..n /\ k \in 0..n
        /\ \A i \in 1..n : Size(ms[i]) \in Nat /\ e[i] = e[i - 1] + Size(ms[i])
    BY LenProperties, ElementOfSeq, RenderFacts, EndFacts, Zenon
  <1> HIDE DEF e, n
  <1>2. T = {}
    <2> SUFFICES ASSUME T # {} PROVE FALSE
      OBVIOUS
    <2>1. PICK i \in T : \A l \in Nat : l < i => l \notin T
      BY LeastFailure, Zenon
    <2>2. j \in Nat /\ e[j] \in Nat /\ e[j] <= e[j]
      BY <1>1
    <2>3. i \in Nat /\ j <= i /\ i <= n /\ i # j
      BY <2>1, <2>2
    <2>4. /\ i \in 1..n /\ i - 1 \in Nat /\ i - 1 < i /\ i - 1 <= n
          /\ j <= i - 1 /\ i - 1 \in 0..n
      BY <1>1, <2>2, <2>3
    <2>5. e[j] <= e[i - 1]
      BY <2>1, <2>4
    <2>6. e[i] \in Nat /\ e[i - 1] \in Nat /\ e[i] >= e[i - 1]
      BY <1>1, <2>4
    <2> QED
      BY <2>1, <2>2, <2>5, <2>6
  <1>3. k \in Nat /\ k <= n
    BY <1>1
  <1> QED
    BY <1>2, <1>3 DEF e

\* The stream is the requests one after another: unit i of request k is at
\* EndOf(ms)[k - 1] + i.
LEMMA ConcatFacts ==
  ASSUME NEW ms \in Seq(Messages)
  PROVE  /\ Concat(ms) \in Seq(Units) /\ Len(Concat(ms)) = EndOf(ms)[Len(ms)]
         /\ \A k \in 1..Len(ms) : \A i \in 1..Size(ms[k]) :
              Concat(ms)[EndOf(ms)[k - 1] + i] = Render(ms[k])[i]
  <1> DEFINE
        n == Len(ms)
        e == EndOf(ms)
        V == Seq(Units)
        Is(h) == h = [k \in 0..n |-> IF k = 0 THEN <<>> ELSE h[k - 1] \o Render(ms[k])]
        g == [k \in 1..n |-> [v \in V |-> v \o Render(ms[k])]]
  <1>1. n \in Nat /\ n \in 0..n /\ e \in [0..n -> Nat] /\ e[0] = 0
    BY LenProperties, EndFacts
  <1>2. ASSUME NEW k \in 1..n
        PROVE  /\ Render(ms[k]) \in V
               /\ Len(Render(ms[k])) = Size(ms[k]) /\ Size(ms[k]) \in Nat
               /\ k - 1 \in 0..n /\ k \in 0..n /\ e[k] = e[k - 1] + Size(ms[k])
    <2>1. ms[k] \in Messages
      BY ElementOfSeq
    <2>2. k - 1 \in 0..n /\ k \in 0..n
      BY <1>1
    <2> QED
      BY <2>1, <2>2, RenderFacts, EndFacts, Zenon
  <1>3. Concat(ms) = (CHOOSE h : Is(h))[n]
    BY DEF Concat
  <1> HIDE DEF n, e
  <1>4. g \in [1..n -> [V -> V]]
    BY <1>2, ConcatProperties
  <1>5. \A k \in 1..n, v \in V : g[k][v] = v \o Render(ms[k])
    OBVIOUS
  <1> HIDE DEF g
  <1>6. PICK h : Unrolls(h, n, V, <<>>, g)
    <2>1. n \in Nat /\ <<>> \in V
      BY <1>1
    <2> HIDE DEF V
    <2> QED
      BY <1>4, <2>1, Recursion, Zenon
  <1>7. ASSUME NEW k \in 0..n
        PROVE  h[k] = IF k = 0 THEN <<>> ELSE h[k - 1] \o Render(ms[k])
    <2>1. k # 0 => k \in 1..n /\ k - 1 \in 0..n
      BY <1>1
    <2>2. k # 0 => h[k - 1] \in V
      BY <1>6, <2>1 DEF Unrolls
    <2> QED
      BY <1>5, <1>6, <2>1, <2>2, Zenon DEF Unrolls
  <1>8. Is(h)
    BY <1>6, <1>7, Zenon DEF Unrolls
  <1> DEFINE c == CHOOSE f : Is(f)
  <1>9. Is(c)
    BY <1>8, Zenon
  <1> HIDE DEF c
  <1>10. c[0] = <<>> /\ \A k \in 1..n : c[k] = c[k - 1] \o Render(ms[k])
    <2>1. \A k \in 0..n : c[k] = IF k = 0 THEN <<>> ELSE c[k - 1] \o Render(ms[k])
      BY <1>9, Zenon
    <2>2. 0 \in 0..n /\ \A k \in 1..n : k \in 0..n /\ k # 0
      BY <1>1
    <2> QED
      BY <2>1, <2>2, Zenon
  <1> DEFINE
        Good(k) == /\ c[k] \in V /\ Len(c[k]) = e[k]
                   /\ \A j \in 1..k : \A i \in 1..Size(ms[j]) :
                        /\ e[j - 1] + i \in 1..Len(c[k])
                        /\ c[k][e[j - 1] + i] = Render(ms[j])[i]
        T == {k \in Nat : k <= n /\ ~Good(k)}
  <1>11. Good(0)
    BY <1>1, <1>10
  <1>12. ASSUME NEW k \in 1..n, Good(k - 1)
         PROVE  Good(k)
    <2> DEFINE p == c[k - 1]
               r == Render(ms[k])
    <2>1. p \in V /\ Len(p) = e[k - 1] /\ r \in V /\ Len(r) = Size(ms[k]) /\ c[k] = p \o r
      BY <1>2, <1>10, <1>12, Zenon
    <2>2. e[k - 1] \in Nat /\ Size(ms[k]) \in Nat /\ e[k] = e[k - 1] + Size(ms[k])
      BY <1>1, <1>2
    <2>3. \A j \in 1..(k - 1) : \A i \in 1..Size(ms[j]) :
            e[j - 1] + i \in 1..Len(p) /\ p[e[j - 1] + i] = Render(ms[j])[i]
      BY <1>12
    <2> HIDE DEF Good, p, r
    <2>3a. /\ p \o r \in Seq(Units) /\ Len(p \o r) = Len(p) + Len(r)
           /\ \A x \in 1..(Len(p) + Len(r)) :
                (p \o r)[x] = IF x <= Len(p) THEN p[x] ELSE r[x - Len(p)]
      BY <2>1, ConcatProperties, Zenon
    <2>4. c[k] \in V /\ Len(c[k]) = e[k]
      BY <2>1, <2>2, <2>3a
    <2>5. ASSUME NEW x \in 1..Len(p) PROVE x \in 1..Len(c[k]) /\ c[k][x] = p[x]
      BY <2>1, <2>2, <2>4, <2>3a
    <2>6. ASSUME NEW x \in 1..Len(r)
          PROVE  e[k - 1] + x \in 1..Len(c[k]) /\ c[k][e[k - 1] + x] = r[x]
      <3>1. /\ e[k - 1] + x \in 1..Len(c[k]) /\ e[k - 1] + x > Len(p)
            /\ (e[k - 1] + x) - Len(p) = x
        BY <2>1, <2>2, <2>4
      <3> DEFINE y == e[k - 1] + x
      <3>2. y \in 1..(Len(p) + Len(r)) /\ ~(y <= Len(p)) /\ y - Len(p) = x
        BY <2>1, <2>2, <3>1
      <3> HIDE DEF y
      <3>3. (p \o r)[y] = r[x]
        BY <2>3a, <3>2
      <3> QED
        BY <2>1, <3>1, <3>3 DEF y
    <2>7. ASSUME NEW j \in 1..k, NEW i \in 1..Size(ms[j])
          PROVE  e[j - 1] + i \in 1..Len(c[k]) /\ c[k][e[j - 1] + i] = Render(ms[j])[i]
      <3>1. CASE j = k
        BY <2>1, <2>6, <3>1, Zenon DEF r
      <3>2. CASE j # k
        <4>1. j \in 1..(k - 1)
          BY <1>1, <3>2
        <4> QED
          BY <2>3, <2>5, <4>1
      <3> QED
        BY <3>1, <3>2
    <2> QED
      BY <2>4, <2>7 DEF Good
  <1> HIDE DEF Good
  <1>13. T = {}
    <2> SUFFICES ASSUME T # {} PROVE FALSE
      OBVIOUS
    <2>1. PICK k \in T : \A j \in Nat : j < k => j \notin T
      BY LeastFailure, Zenon
    <2>2. k \in Nat /\ k <= n /\ k # 0 /\ ~Good(k)
      BY <1>11
    <2>3. k \in 1..n /\ k - 1 \in Nat /\ k - 1 < k /\ k - 1 <= n
      BY <1>1, <2>2
    <2>4. Good(k - 1)
      BY <2>1, <2>3
    <2> QED
      BY <1>12, <2>2, <2>3, <2>4
  <1>14. Good(n)
    BY <1>1, <1>13
  <1>15. Concat(ms) = c[n]
    BY <1>3 DEF c
  <1> QED
    BY <1>14, <1>15 DEF Good, n, e

-----------------------------------------------------------------------------
\* next() on a buffer.

\* The blank line that next() looks for, unit by unit.
LEMMA HeaderEndsFacts ==
  ASSUME NEW b \in Seq(Units)
  PROVE  /\ \A x \in 0..(Len(b) - 4) :
              x \in HeaderEnds(b) <=> /\ b[x + 1] = "CR" /\ b[x + 2] = "LF"
                                      /\ b[x + 3] = "CR" /\ b[x + 4] = "LF"
         /\ HeaderEnds(b) \subseteq 0..(Len(b) - 4)
  <1>1. Len(b) \in Nat
    BY LenProperties
  <1>2. ASSUME NEW x \in 0..(Len(b) - 4)
        PROVE  SubSeq(b, x + 1, x + 4) = <<"CR", "LF", "CR", "LF">>
                 <=> /\ b[x + 1] = "CR" /\ b[x + 2] = "LF"
                     /\ b[x + 3] = "CR" /\ b[x + 4] = "LF"
    <2> DEFINE s == SubSeq(b, x + 1, x + 4)
               t == <<"CR", "LF", "CR", "LF">>
    <2>1. x + 1 \in 1..(Len(b) + 1) /\ x + 4 \in x..Len(b)
      BY <1>1
    <2>2. Len(s) = 4 /\ s \in Seq(Units) /\ \A i \in 1..4 : s[i] = b[x + i]
      BY <1>1, <2>1
    <2>3. /\ Len(t) = 4 /\ t \in Seq(Units)
          /\ t[1] = "CR" /\ t[2] = "LF" /\ t[3] = "CR" /\ t[4] = "LF"
      BY DEF Units
    <2> HIDE DEF s, t
    <2>4. s = t <=> \A i \in 1..4 : s[i] = t[i]
      BY <2>2, <2>3, SeqEqual, Zenon
    <2>5. (\A i \in 1..4 : s[i] = t[i])
            <=> (s[1] = t[1] /\ s[2] = t[2] /\ s[3] = t[3] /\ s[4] = t[4])
      OBVIOUS
    <2>6. s[1] = b[x + 1] /\ s[2] = b[x + 2] /\ s[3] = b[x + 3] /\ s[4] = b[x + 4]
      BY <2>2
    <2> QED
      BY <2>3, <2>4, <2>5, <2>6 DEF s, t
  <1> QED
    BY <1>2 DEF HeaderEnds

\* The first of them is the one that it takes.
LEMMA FirstEnd ==
  ASSUME NEW b \in Seq(Units), HeaderEnds(b) # {}
  PROVE  /\ header_end(b) \in HeaderEnds(b)
         /\ \A f \in HeaderEnds(b) : header_end(b) <= f
  <1>1. HeaderEnds(b) \subseteq Nat
    BY HeaderEndsFacts, LenProperties
  <1>2. PICK e \in HeaderEnds(b) : \A j \in Nat : j < e => j \notin HeaderEnds(b)
    BY <1>1, LeastFailure
  <1>3. \A f \in HeaderEnds(b) : e <= f
    BY <1>1, <1>2
  <1> QED
    BY <1>2, <1>3 DEF header_end

\* A block that parses declares a length, and one within the limit.
LEMMA ResultFacts ==
  ASSUME NEW line, NEW fields
  PROVE  LET r == HeadersResult(line, fields)
         IN  \/ r = BadRequest
             \/ r = Unsupported
             \/ r.kind = "RequestReady" /\ r.body \in Nat /\ r.body <= MaxBody
  <1> DEFINE r == HeadersResult(line, fields)
             d == content_length(fields)
             ready == [kind |-> "RequestReady", line |-> line, fields |-> fields, body |-> d]
  <1>1. \/ r = BadRequest
        \/ r = Unsupported
        \/ /\ FieldsAccepted(fields) /\ ~Has(fields, "length_bad") /\ ~(d > MaxBody)
           /\ r = ready
    BY DEF HeadersResult
  <1>2. ASSUME FieldsAccepted(fields), ~Has(fields, "length_bad")
        PROVE  d \in Nat
    <2>1. CASE "content-length" \in Names(fields)
      <3>1. PICK k \in DOMAIN fields : FieldName[fields[k]] = "content-length"
        BY <2>1 DEF Names
      <3>2. fields[k] \in DOMAIN FieldName /\ fields[k] # "length_bad"
        BY <1>2 DEF FieldsAccepted, Has
      <3>3. fields[k] \in DOMAIN ContentLength
        <4>1. fields[k] \in {"length_0", "length_1", "length_2", "length_3"}
          BY <3>1, <3>2 DEF FieldName
        <4> QED
          BY <4>1 DEF ContentLength
      <3>4. \E l \in DOMAIN ContentLength : Has(fields, l)
        BY <3>3 DEF Has
      <3>5. \A l \in DOMAIN ContentLength : ContentLength[l] \in Nat
        BY DEF ContentLength
      <3> QED
        BY <2>1, <3>4, <3>5 DEF content_length
    <2>2. CASE "content-length" \notin Names(fields)
      BY <2>2 DEF content_length
    <2> QED
      BY <2>1, <2>2
  <1> HIDE DEF d, r
  <1>3. ready.kind = "RequestReady" /\ ready.body = d
    OBVIOUS
  <1> HIDE DEF ready
  <1>4. MaxBody \in Nat
    BY ParserAssumption
  <1>5. \/ r = BadRequest
        \/ r = Unsupported
        \/ r.kind = "RequestReady" /\ r.body \in Nat /\ r.body <= MaxBody
    BY <1>1, <1>2, <1>3, <1>4
  <1> QED
    BY <1>5 DEF r

\* The kinds of results.
LEMMA Kinds ==
  /\ BadRequest.kind = "BadRequest" /\ Unsupported.kind = "UnsupportedTransferEncoding"
  /\ NeedMoreData.kind = "NeedMoreData"
  BY DEF BadRequest, Unsupported, NeedMoreData

\* What next() says of a buffer in which the blank line is not yet, or is.
LEMMA NextCases ==
  ASSUME NEW b \in Seq(Units)
  PROVE  LET h == header_end(b)
             r == BlockResult(SubSeq(b, 1, h))
         IN  \/ next(b) = BadRequest
             \/ next(b) = Unsupported
             \/ next(b) = NeedMoreData /\ HeaderEnds(b) = {} /\ Len(b) <= MaxHeader
             \/ /\ next(b) = NeedMoreData
                /\ HeaderEnds(b) # {} /\ h <= MaxHeader
                /\ r.kind = "RequestReady" /\ r.body \in Nat /\ r.body <= MaxBody
                /\ Len(b) - (h + 4) < r.body
             \/ /\ next(b) = r
                /\ HeaderEnds(b) # {} /\ h <= MaxHeader
                /\ r.kind = "RequestReady" /\ r.body \in Nat /\ r.body <= MaxBody
                /\ ~(Len(b) - (h + 4) < r.body)
  <1> DEFINE h == header_end(b)
             r == BlockResult(SubSeq(b, 1, h))
  <1>1. \/ r = BadRequest
        \/ r = Unsupported
        \/ r.kind = "RequestReady" /\ r.body \in Nat /\ r.body <= MaxBody
    BY ResultFacts, Zenon DEF BlockResult
  <1>2. Len(b) \in Nat /\ MaxHeader \in Nat /\ (HeaderEnds(b) # {} => h \in Nat)
    BY LenProperties, ParserAssumption, FirstEnd, HeaderEndsFacts
  <1>3. CASE HeaderEnds(b) = {}
    BY <1>2, <1>3 DEF next
  <1>4. CASE HeaderEnds(b) # {} /\ h > MaxHeader
    BY <1>4 DEF next
  <1>5. CASE HeaderEnds(b) # {} /\ ~(h > MaxHeader)
    <2>1. next(b) = IF r.kind = "RequestReady" /\ Len(b) - (h + 4) < r.body
                    THEN NeedMoreData ELSE r
      BY <1>5 DEF next
    <2>2. h <= MaxHeader
      BY <1>2, <1>5
    <2> HIDE DEF h, r
    <2>3. \/ next(b) = BadRequest
          \/ next(b) = Unsupported
          \/ /\ next(b) = NeedMoreData
             /\ r.kind = "RequestReady" /\ r.body \in Nat /\ r.body <= MaxBody
             /\ Len(b) - (h + 4) < r.body
          \/ /\ next(b) = r
             /\ r.kind = "RequestReady" /\ r.body \in Nat /\ r.body <= MaxBody
             /\ ~(Len(b) - (h + 4) < r.body)
      BY <1>1, <2>1, Kinds
    <2> QED
      BY <1>5, <2>2, <2>3 DEF h, r
  <1> QED
    BY <1>3, <1>4, <1>5

-----------------------------------------------------------------------------
\* What is buffered.

\* A part of a stream of units is one.
LEMMA PartFacts ==
  ASSUME NEW s \in Seq(Units), NEW i \in Nat, NEW j \in Nat,
         i >= 1, i <= Len(s) + 1, j <= Len(s)
  PROVE  /\ SubSeq(s, i, j) \in Seq(Units)
         /\ Len(SubSeq(s, i, j)) = IF i <= j THEN j - i + 1 ELSE 0
         /\ \A k \in 1..(j - i + 1) : SubSeq(s, i, j)[k] = s[i + k - 1]
  <1>1. Len(s) \in Nat
    BY LenProperties
  <1>2. SubSeq(s, i, j) \in Seq(Units)
    <2>1. \A k \in i..j : k \in 1..Len(s)
      BY <1>1
    <2> QED
      BY <2>1, SubSeqProperties
  <1> QED
    BY <1>1, <1>2

\* What is left of it after its first n units.
LEMMA RestFacts ==
  ASSUME NEW s \in Seq(Units), NEW n \in Nat, n <= Len(s)
  PROVE  /\ Len(SubSeq(s, n + 1, Len(s))) = Len(s) - n
         /\ \A i \in 1..(Len(s) - n) : SubSeq(s, n + 1, Len(s))[i] = s[n + i]
  <1> DEFINE L == Len(s)
             t == SubSeq(s, n + 1, L)
  <1>1. L \in Nat /\ n <= L
    BY LenProperties
  <1>2. /\ Len(t) = IF n + 1 <= L THEN L - (n + 1) + 1 ELSE 0
        /\ \A i \in 1..(L - (n + 1) + 1) : t[i] = s[(n + 1) + i - 1]
    BY <1>1, PartFacts
  <1> HIDE DEF L, t
  <1>3. Len(t) = L - n
    BY <1>1, <1>2
  <1>4. ASSUME NEW i \in 1..(L - n)
        PROVE  t[i] = s[n + i]
    <2>1. i \in 1..(L - (n + 1) + 1) /\ (n + 1) + i - 1 = n + i
      BY <1>1
    <2>2. t[i] = s[(n + 1) + i - 1]
      BY <1>2, <2>1
    <2> QED
      BY <2>1, <2>2, Zenon
  <1> QED
    BY <1>3, <1>4 DEF L, t

Streams == sent \in Seq(Messages) /\ stream \in Seq(Units) /\ buffer \in Seq(Units)

\* The blank line of the first request is in the buffer when next() consumes it.
LEMMA ConsumedFacts ==
  ASSUME NEW b \in Seq(Units), next(b).kind = "RequestReady"
  PROVE  LET h == header_end(b)
         IN  /\ h \in Nat /\ next(b) = BlockResult(SubSeq(b, 1, h))
             /\ next(b).body \in Nat /\ h + 4 + next(b).body <= Len(b)
  <1> DEFINE h == header_end(b)
             r == BlockResult(SubSeq(b, 1, h))
  <1>1. /\ next(b) = r /\ HeaderEnds(b) # {} /\ r.body \in Nat
        /\ ~(Len(b) - (h + 4) < r.body)
    BY NextCases, Kinds, Zenon
  <1>2. h \in Nat /\ Len(b) \in Nat
    BY <1>1, FirstEnd, HeaderEndsFacts, LenProperties
  <1> HIDE DEF h, r
  <1> QED
    BY <1>1, <1>2 DEF h, r

LEMMA StreamsInit ==
  ASSUME Init
  PROVE  Streams
  <1>1. sent \in Seq(Messages)
    BY DEF Init
  <1> QED
    BY <1>1, ConcatFacts DEF Init, Streams

LEMMA StreamsStep ==
  ASSUME Streams, [Next]_vars
  PROVE  Streams'
  <1> USE DEF Streams
  <1>1. ASSUME NEW n \in 1..ReadSize, Feed(n)
        PROVE  Streams'
    <2>1. Len(stream) \in Nat /\ n \in Nat /\ n >= 1 /\ n <= Len(stream)
      BY <1>1, LenProperties, ParserAssumption DEF Feed
    <2>2. /\ SubSeq(stream, 1, n) \in Seq(Units)
          /\ SubSeq(stream, n + 1, Len(stream)) \in Seq(Units)
      BY <2>1, PartFacts
    <2> QED
      BY <1>1, <2>2, ConcatProperties DEF Feed
  <1>2. CASE NextReady
    <2> DEFINE x == header_end(buffer) + 4 + next(buffer).body
    <2>1. x \in Nat /\ x <= Len(buffer) /\ Len(buffer) \in Nat
      BY <1>2, ConsumedFacts, LenProperties DEF NextReady
    <2>2. buffer' = SubSeq(buffer, x + 1, Len(buffer)) /\ UNCHANGED <<sent, stream>>
      BY <1>2 DEF NextReady
    <2> HIDE DEF x
    <2> QED
      BY <2>1, <2>2, PartFacts
  <1>3. CASE NextNeedsMore \/ NextError \/ Done \/ UNCHANGED vars
    BY <1>3 DEF NextNeedsMore, NextError, Done, vars
  <1> QED
    BY <1>1, <1>2, <1>3 DEF Next

\* What is buffered while more data is awaited, and after one more read.
Buffered ==
  /\ Len(buffer) <= MaxHeader + 3 + MaxBody + ReadSize
  /\ status = "NeedMoreData" => Len(buffer) <= MaxHeader + 3 + MaxBody

LEMMA BufferedInit ==
  ASSUME Init
  PROVE  Buffered
  BY ParserAssumption DEF Init, Buffered

LEMMA BufferedStep ==
  ASSUME Streams, Buffered, [Next]_vars
  PROVE  Buffered'
  <1> USE DEF Streams, Buffered
  <1>0. /\ MaxHeader \in Nat /\ MaxBody \in Nat /\ ReadSize \in Nat
        /\ Len(buffer) \in Nat /\ Len(stream) \in Nat
    BY ParserAssumption, LenProperties
  <1>1. ASSUME NEW n \in 1..ReadSize, Feed(n)
        PROVE  Buffered'
    <2>1. n \in Nat /\ n >= 1 /\ n <= Len(stream) /\ n <= ReadSize
      BY <1>0, <1>1 DEF Feed
    <2>2. SubSeq(stream, 1, n) \in Seq(Units) /\ Len(SubSeq(stream, 1, n)) = n
      BY <1>0, <2>1, PartFacts
    <2>3. Len(buffer') = Len(buffer) + n /\ status = "NeedMoreData" /\ status' = "Fed"
      BY <1>1, <2>2, ConcatProperties DEF Feed
    <2> QED
      BY <1>0, <2>1, <2>3
  <1>2. CASE NextReady
    <2> DEFINE x == header_end(buffer) + 4 + next(buffer).body
    <2>1. x \in Nat /\ x <= Len(buffer)
      BY <1>0, <1>2, ConsumedFacts DEF NextReady
    <2>2. buffer' = SubSeq(buffer, x + 1, Len(buffer)) /\ status' = "RequestReady"
      BY <1>2 DEF NextReady
    <2> HIDE DEF x
    <2>3. Len(buffer') <= Len(buffer) /\ Len(buffer') \in Nat
      BY <1>0, <2>1, <2>2, PartFacts
    <2>4. Len(buffer') <= MaxHeader + 3 + MaxBody + ReadSize
      BY <1>0, <2>3
    <2> QED
      BY <2>2, <2>4, Zenon
  <1>3. CASE NextNeedsMore
    <2> DEFINE h == header_end(buffer)
               r == BlockResult(SubSeq(buffer, 1, h))
    <2>1. \/ Len(buffer) <= MaxHeader
          \/ /\ HeaderEnds(buffer) # {} /\ h <= MaxHeader
             /\ r.body \in Nat /\ r.body <= MaxBody /\ Len(buffer) - (h + 4) < r.body
      BY <1>3, NextCases, Kinds, Zenon DEF NextNeedsMore
    <2>2. HeaderEnds(buffer) # {} => h \in Nat
      BY FirstEnd, HeaderEndsFacts
    <2>3. UNCHANGED buffer
      BY <1>3 DEF NextNeedsMore
    <2> HIDE DEF h, r
    <2>4. Len(buffer) <= MaxHeader + 3 + MaxBody
      BY <1>0, <2>1, <2>2
    <2> QED
      BY <1>0, <2>3, <2>4
  <1>4. CASE NextError
    BY <1>4 DEF NextError
  <1>5. CASE Done \/ UNCHANGED vars
    BY <1>5 DEF Done, vars
  <1> QED
    BY <1>1, <1>2, <1>3, <1>4, <1>5 DEF Next

\* For any limits and any read size, what a connection has buffered stays
\* within max_header_bytes, max_body_bytes, an incomplete blank line and one
\* read: next() refuses a longer header block or declared body.
THEOREM BufferCorrect == Spec => []BufferBounded
  <1>1. Init => Streams /\ Buffered
    BY StreamsInit, BufferedInit
  <1>2. Streams /\ Buffered /\ [Next]_vars => (Streams /\ Buffered)'
    BY StreamsStep, BufferedStep
  <1>3. Buffered => BufferBounded
    BY DEF Buffered, BufferBounded
  <1> QED
    BY <1>1, <1>2, <1>3, PTL DEF Spec

-----------------------------------------------------------------------------
\* How requests are told apart.

\* Every third unit.
LEMMA NextThird ==
  ASSUME NEW i \in Nat
  PROVE  /\ i % 3 \in 0..2
         /\ i % 3 = 2 => (i + 1) % 3 = 0 /\ (i + 2) % 3 = 1
  <1> DEFINE q == i \div 3
             r == i % 3
             u == (i + 1) \div 3
             v == (i + 1) % 3
             x == (i + 2) \div 3
             y == (i + 2) % 3
  <1>1. /\ q \in Int /\ r \in 0..2 /\ i = 3 * q + r
        /\ u \in Int /\ v \in 0..2 /\ i + 1 = 3 * u + v
        /\ x \in Int /\ y \in 0..2 /\ i + 2 = 3 * x + y
    OBVIOUS
  <1> HIDE DEF q, r, u, v, x, y
  <1>2. r = 2 => v = 0 /\ y = 1
    BY <1>1
  <1> QED
    BY <1>1, <1>2 DEF r, v, y

\* A request is no shorter than its header block and the blank line.
LEMMA SizeFacts ==
  ASSUME NEW m \in Messages
  PROVE  Size(m) >= HeaderSize(m) + 4
  <1> DEFINE H == HeaderSize(m)
             S == Size(m)
             d == m.body
  <1>1. H \in Nat /\ d \in Nat /\ S = H + 4 + d
    BY RenderFacts
  <1> HIDE DEF H, S, d
  <1>2. S >= H + 4
    BY <1>1
  <1> QED
    BY <1>2 DEF H, S

\* b holds the units of request m, all of them or as many as have arrived.
Begins(b, m) ==
  \A i \in 1..Len(b) : i <= Size(m) => b[i] = Render(m)[i]

\* The blank line is found where the header block ends, and only once it has
\* arrived: the CR LF between two lines is never taken for it.
LEMMA BlankLine ==
  ASSUME NEW m \in Messages, NEW b \in Seq(Units), Begins(b, m)
  PROVE  /\ Len(b) < HeaderSize(m) + 4 => HeaderEnds(b) = {}
         /\ Len(b) >= HeaderSize(m) + 4 =>
              HeaderEnds(b) # {} /\ header_end(b) = HeaderSize(m)
  <1> DEFINE H == HeaderSize(m)
             R == Render(m)
  <1>1. /\ H \in Nat /\ H > 0 /\ H % 3 = 1 /\ Size(m) \in Nat /\ Size(m) >= H + 4
        /\ Len(b) \in Nat
    BY RenderFacts, SizeFacts, LenProperties
  <1>2. \A i \in 1..H : /\ i % 3 = 1 => R[i] \in Lines
                        /\ i % 3 = 2 => R[i] = "CR"
                        /\ i % 3 = 0 => R[i] = "LF"
    BY RenderFacts
  <1>3. \A j \in 1..4 : R[H + j] = <<"CR", "LF", "CR", "LF">>[j]
    BY RenderFacts, Zenon
  <1> HIDE DEF H, R
  <1>4. \A i \in Nat : 1 <= i /\ i <= Len(b) /\ i <= H + 4 => b[i] = R[i]
    BY <1>1 DEF Begins, R
  <1>5. ASSUME NEW x \in HeaderEnds(b)
        PROVE  x \in Nat /\ x >= H /\ x <= Len(b) - 4
    <2>1. x \in 0..(Len(b) - 4) /\ x \in Nat
      BY HeaderEndsFacts
    <2>2. b[x + 1] = "CR" /\ b[x + 3] = "CR"
      BY <2>1, HeaderEndsFacts
    <2> SUFFICES ASSUME x < H PROVE FALSE
      BY <1>1, <2>1
    <2>3. x + 1 \in 1..H /\ R[x + 1] = "CR"
      BY <1>1, <1>4, <2>1, <2>2
    <2>4. (x + 1) % 3 = 2
      <3>1. (x + 1) % 3 \in 0..2
        BY <2>1, NextThird
      <3>2. (x + 1) % 3 # 1
        BY <1>2, <2>3, LinesApart
      <3>3. (x + 1) % 3 # 0
        BY <1>2, <2>3
      <3> QED
        BY <3>1, <3>2, <3>3
    <2>5. ((x + 1) + 1) % 3 = 0 /\ ((x + 1) + 2) % 3 = 1
      BY <2>1, <2>4, NextThird
    <2>6. (x + 1) + 1 = x + 2 /\ (x + 1) + 2 = x + 3
      BY <2>1
    <2>7. (x + 2) % 3 = 0 /\ (x + 3) % 3 = 1
      BY <2>5, <2>6
    <2>8. x + 1 # H /\ x + 2 # H
      BY <1>1, <2>4, <2>7
    <2>9. x + 3 \in 1..H
      BY <1>1, <2>1, <2>8
    <2>10. R[x + 3] \in Lines
      BY <1>2, <2>7, <2>9
    <2>11. b[x + 3] = R[x + 3]
      BY <1>1, <1>4, <2>1, <2>9
    <2> QED
      BY <2>2, <2>10, <2>11, LinesApart
  <1>6. CASE Len(b) < H + 4
    BY <1>1, <1>5, <1>6 DEF H
  <1>7. CASE Len(b) >= H + 4
    <2>1. H \in 0..(Len(b) - 4)
      BY <1>1, <1>7
    <2>2. R[H + 1] = "CR" /\ R[H + 2] = "LF" /\ R[H + 3] = "CR" /\ R[H + 4] = "LF"
      <3>1. 1 \in 1..4 /\ 2 \in 1..4 /\ 3 \in 1..4 /\ 4 \in 1..4
        OBVIOUS
      <3> QED
        BY <1>3, <3>1
    <2>3. b[H + 1] = "CR" /\ b[H + 2] = "LF" /\ b[H + 3] = "CR" /\ b[H + 4] = "LF"
      BY <1>1, <1>4, <1>7, <2>2
    <2>4. H \in HeaderEnds(b)
      BY <2>1, <2>3, HeaderEndsFacts
    <2>5. header_end(b) \in HeaderEnds(b) /\ header_end(b) <= H
      BY <2>4, FirstEnd
    <2>6. header_end(b) = H
      BY <1>1, <1>5, <2>5
    <2> QED
      BY <1>1, <1>7, <2>4, <2>6 DEF H
  <1> QED
    BY <1>1, <1>6, <1>7 DEF H

\* The block before it is the lines of the request.
LEMMA BlockOf ==
  ASSUME NEW m \in Messages, NEW b \in Seq(Units), Begins(b, m), Len(b) >= HeaderSize(m) + 4
  PROVE  BlockResult(SubSeq(b, 1, HeaderSize(m))) = HeadersResult(m.line, m.fields)
  <1> DEFINE H == HeaderSize(m)
             R == Render(m)
             s == SubSeq(b, 1, H)
             n == Len(m.fields)
  <1>1. /\ H \in Nat /\ H > 0 /\ H % 3 = 1 /\ H \div 3 = n
        /\ Size(m) \in Nat /\ Size(m) >= H + 4
        /\ Len(b) \in Nat /\ Len(b) >= H + 4 /\ R[1] = m.line
    BY RenderFacts, SizeFacts, LenProperties
  <1>2. \A i \in 1..H : /\ i % 3 = 2 => R[i] = "CR"
                        /\ i % 3 = 0 => R[i] = "LF"
    BY RenderFacts
  <1>3. \A k \in 1..n : R[3 * k + 1] = m.fields[k]
    BY RenderFacts, Zenon
  <1>4. n \in Nat /\ H = 1 + 3 * n /\ m.fields = [k \in 1..n |-> m.fields[k]]
    BY ParserAssumption, LenProperties DEF HeaderSize
  <1> HIDE DEF H, R, n
  <1>5. s \in Seq(Units) /\ Len(s) = H /\ \A i \in 1..H : s[i] = b[i]
    BY <1>1, PartFacts
  <1>6. \A i \in 1..H : b[i] = R[i]
    BY <1>1 DEF Begins, R
  <1> HIDE DEF s
  <1>7. DOMAIN s = 1..H
    BY <1>5, LenProperties
  <1>8. LinesSeparated(s)
    BY <1>1, <1>2, <1>5, <1>6, <1>7 DEF LinesSeparated
  <1>9. s[1] = m.line
    BY <1>1, <1>5, <1>6
  <1>10. \A k \in 1..n : s[3 * k + 1] = m.fields[k]
    <2> TAKE k \in 1..n
    <2>1. 3 * k + 1 \in 1..H
      BY <1>1, <1>4
    <2> QED
      BY <1>3, <1>5, <1>6, <2>1
  <1>11. header_fields(s) = m.fields
    <2>1. header_fields(s) = [k \in 1..n |-> s[3 * k + 1]]
      BY <1>1, <1>5 DEF header_fields
    <2> QED
      BY <1>4, <1>10, <2>1
  <1> QED
    BY <1>8, <1>9, <1>11, Zenon DEF BlockResult, s, H

\* next() waits until the request has arrived in full, and then its verdict is
\* the expected one and it consumes exactly this request; only an early
\* refusal at the limit comes before.
LEMMA NextOn ==
  ASSUME NEW m \in Messages, NEW b \in Seq(Units), Begins(b, m)
  PROVE  \/ next(b) = NeedMoreData /\ Len(b) < Size(m)
         \/ /\ next(b).kind = "RequestReady" /\ next(b) = Expected(m)
            /\ Len(b) >= Size(m) /\ header_end(b) + 4 + next(b).body = Size(m)
         \/ /\ next(b) \in {BadRequest, Unsupported}
            /\ next(b) = Expected(m) \/ (AtLimit(m) /\ next(b) = BadRequest)
  <1> DEFINE H == HeaderSize(m)
             S == Size(m)
             R == HeadersResult(m.line, m.fields)
  <1>1. /\ H \in Nat /\ S \in Nat /\ S = H + 4 + m.body /\ m.body \in Nat
        /\ Len(b) \in Nat /\ MaxHeader \in Nat
    BY RenderFacts, LenProperties, ParserAssumption, Zenon
  <1>2. /\ R = BadRequest \/ R = Unsupported \/ (R.kind = "RequestReady" /\ R.body \in Nat)
        /\ R.kind = "RequestReady" => m.body = R.body
    BY ResultFacts, DeclaredBodies
  <1>3. Expected(m) = IF H > MaxHeader THEN BadRequest ELSE R
    BY DEF Expected
  <1>4. AtLimit(m) <=> H \in (MaxHeader - 2)..MaxHeader
    BY DEF AtLimit
  <1> HIDE DEF H, S, R
  <1>5. CASE Len(b) < H + 4
    <2>1. next(b) = IF Len(b) > MaxHeader THEN BadRequest ELSE NeedMoreData
      BY <1>5, BlankLine DEF next, H
    <2>2. Len(b) < S
      BY <1>1, <1>5
    <2>3. Len(b) > MaxHeader => H > MaxHeader \/ H \in (MaxHeader - 2)..MaxHeader
      BY <1>1, <1>5
    <2> QED
      BY <1>3, <1>4, <2>1, <2>2, <2>3 DEF S
  <1>6. CASE Len(b) >= H + 4 /\ H > MaxHeader
    <2>1. next(b) = BadRequest
      BY <1>6, BlankLine DEF next, H
    <2> QED
      BY <1>3, <1>6, <2>1
  <1>7. CASE Len(b) >= H + 4 /\ ~(H > MaxHeader)
    <2>1. HeaderEnds(b) # {} /\ header_end(b) = H
      BY <1>7, BlankLine DEF H
    <2>2. BlockResult(SubSeq(b, 1, header_end(b))) = R
      BY <1>7, <2>1, BlockOf DEF R, H
    <2>3. next(b) = IF R.kind = "RequestReady" /\ Len(b) - (H + 4) < R.body
                    THEN NeedMoreData ELSE R
      BY <1>7, <2>1, <2>2 DEF next
    <2>4. Expected(m) = R
      BY <1>3, <1>7
    <2>5. CASE R = BadRequest \/ R = Unsupported
      BY <2>3, <2>4, <2>5, Kinds
    <2>6. CASE R.kind = "RequestReady" /\ R.body \in Nat
      <3>1. m.body = R.body
        BY <1>2, <2>6
      <3>2. CASE Len(b) - (H + 4) < R.body
        <4>1. Len(b) < S
          BY <1>1, <3>1, <3>2
        <4> QED
          BY <2>3, <2>6, <3>2, <4>1 DEF S
      <3>3. CASE ~(Len(b) - (H + 4) < R.body)
        <4>1. Len(b) >= S /\ H + 4 + R.body = S
          BY <1>1, <3>1, <3>3
        <4> QED
          BY <2>1, <2>3, <2>4, <2>6, <3>3, <4>1 DEF S
      <3> QED
        BY <3>2, <3>3
    <2> QED
      BY <1>2, <2>5, <2>6
  <1> QED
    BY <1>1, <1>5, <1>6, <1>7

\* With nothing buffered it waits.
LEMMA NextOnEmpty ==
  ASSUME NEW b \in Seq(Units), Len(b) = 0
  PROVE  next(b) = NeedMoreData
  <1>1. HeaderEnds(b) = {}
    <2>1. 0..(Len(b) - 4) = {}
      OBVIOUS
    <2> QED
      BY <2>1, HeaderEndsFacts, Zenon
  <1> QED
    BY <1>1, ParserAssumption DEF next

\* The units that have not become requests: those in the buffer, then those
\* of the stream, from the end of the last request that came out.
Pending ==
  LET U == Concat(sent)
      a == EndOf(sent)[Len(out)]
  IN  /\ a + Len(buffer) + Len(stream) = Len(U)
      /\ \A i \in 1..Len(buffer) : buffer[i] = U[a + i]
      /\ \A i \in 1..Len(stream) : stream[i] = U[a + Len(buffer) + i]

\* The verdicts so far: only the last one may be an early refusal.
Verdicts ==
  \A k \in DOMAIN out :
    \/ out[k] = Expected(sent[k])
    \/ AtLimit(sent[k]) /\ k = Len(out) /\ out[k] = BadRequest

\* Until a request is refused, each verdict is the one expected, what is
\* pending starts with the next request, and when more data is awaited that
\* request is incomplete.
Framing ==
  /\ out \in Seq({Expected(m) : m \in Messages} \cup {BadRequest})
  /\ Len(out) <= Len(sent)
  /\ status = "Error" => Verdicts
  /\ status # "Error" => Pending /\ \A k \in DOMAIN out : out[k] = Expected(sent[k])
  /\ status = "NeedMoreData" =>
       Len(out) = Len(sent) \/ Len(buffer) < Size(sent[Len(out) + 1])

\* What the buffer begins with.
LEMMA PendingBegins ==
  ASSUME Streams, Framing, status # "Error"
  PROVE  /\ Len(out) < Len(sent) => /\ sent[Len(out) + 1] \in Messages
                                    /\ Begins(buffer, sent[Len(out) + 1])
         /\ Len(out) = Len(sent) => Len(buffer) = 0
  <1> DEFINE U == Concat(sent)
             e == EndOf(sent)
             n == Len(sent)
             k == Len(out)
  <1>1. /\ e \in [0..n -> Nat] /\ n \in Nat /\ k \in Nat /\ k \in 0..n /\ Len(buffer) \in Nat
        /\ Len(stream) \in Nat /\ Len(U) = e[n]
    BY EndFacts, ConcatFacts, LenProperties DEF Streams, Framing
  <1>2. /\ e[k] + Len(buffer) + Len(stream) = Len(U)
        /\ \A i \in 1..Len(buffer) : buffer[i] = U[e[k] + i]
    BY DEF Framing, Pending
  <1>3. \A l \in 1..n : \A i \in 1..Size(sent[l]) : U[e[l - 1] + i] = Render(sent[l])[i]
    BY ConcatFacts DEF Streams
  <1>4. \A l \in 1..n : sent[l] \in Messages /\ Size(sent[l]) \in Nat
    BY ElementOfSeq, RenderFacts, Zenon DEF Streams
  <1> HIDE DEF U, e, n, k
  <1>5. ASSUME k < n
        PROVE  sent[k + 1] \in Messages /\ Begins(buffer, sent[k + 1])
    <2>1. k + 1 \in 1..n /\ (k + 1) - 1 = k
      BY <1>1, <1>5
    <2>2. \A i \in 1..Size(sent[k + 1]) : U[e[k] + i] = Render(sent[k + 1])[i]
      BY <1>3, <2>1
    <2>3. sent[k + 1] \in Messages /\ Size(sent[k + 1]) \in Nat
      BY <1>4, <2>1
    <2> QED
      BY <1>1, <1>2, <2>2, <2>3 DEF Begins
  <1>6. ASSUME k = n
        PROVE  Len(buffer) = 0
    BY <1>1, <1>2, <1>6
  <1> QED
    BY <1>5, <1>6 DEF k, n

LEMMA FramingInit ==
  ASSUME Init
  PROVE  Framing
  <1> DEFINE U == Concat(sent)
             e == EndOf(sent)
  <1>1. /\ sent \in Seq(Messages) /\ Len(sent) \in Nat /\ Len(sent) >= 1
        /\ out = <<>> /\ buffer = <<>> /\ stream = U /\ status = "NeedMoreData"
    <2>1. PICK n \in 1..MaxMessages : sent \in [1..n -> Messages]
      BY DEF Init
    <2>2. n \in Nat /\ n >= 1 /\ sent \in Seq(Messages) /\ Len(sent) = n
      BY <2>1, ParserAssumption
    <2> QED
      BY <2>2 DEF Init
  <1>2. e[0] = 0 /\ U \in Seq(Units)
    BY <1>1, EndFacts, ConcatFacts
  <1>3. Len(out) = 0 /\ Len(buffer) = 0 /\ DOMAIN out = {}
    BY <1>1
  <1>4. /\ Len(stream) \in Nat /\ Len(stream) = Len(U)
        /\ \A i \in 1..Len(stream) : stream[i] = U[0 + 0 + i]
    BY <1>1, <1>2, LenProperties
  <1> HIDE DEF U, e
  <1>5. Pending
    <2>1. 0 + Len(buffer) + Len(stream) = Len(U)
      BY <1>3, <1>4
    <2> QED
      BY <1>2, <1>3, <1>4, <2>1 DEF Pending, U, e
  <1>6. Size(sent[Len(out) + 1]) > 0
    <2>1. sent[1] \in Messages
      BY <1>1, ElementOfSeq
    <2>2. /\ HeaderSize(sent[1]) \in Nat /\ Size(sent[1]) \in Nat
          /\ Size(sent[1]) >= HeaderSize(sent[1]) + 4
      BY <2>1, RenderFacts, SizeFacts, Zenon
    <2> QED
      BY <1>3, <2>2
  <1>7. out \in Seq({Expected(m) : m \in Messages} \cup {BadRequest})
    BY <1>1
  <1> QED
    BY <1>1, <1>3, <1>5, <1>6, <1>7 DEF Framing

\* A read moves units from the stream to the buffer.
LEMMA FramingFeed ==
  ASSUME Streams, Framing, NEW n \in 1..ReadSize, Feed(n)
  PROVE  Framing'
  <1> DEFINE U == Concat(sent)
             a == EndOf(sent)[Len(out)]
             p == SubSeq(stream, 1, n)
             B == Len(buffer)
             L == Len(stream)
  <1>1. /\ status = "NeedMoreData" /\ n <= L /\ buffer' = buffer \o p
        /\ stream' = SubSeq(stream, n + 1, L) /\ status' = "Fed" /\ UNCHANGED <<sent, out>>
    BY DEF Feed
  <1>2. n \in Nat /\ n >= 1 /\ B \in Nat /\ L \in Nat
    BY ParserAssumption, LenProperties DEF Streams
  <1>3. a \in Nat
    BY EndFacts, LenProperties DEF Streams, Framing
  <1>4. /\ a + B + L = Len(U)
        /\ \A i \in 1..B : buffer[i] = U[a + i]
        /\ \A i \in 1..L : stream[i] = U[a + B + i]
    BY <1>1, Zenon DEF Framing, Pending
  <1>5. /\ p \in Seq(Units) /\ Len(p) = n /\ \A i \in 1..n : p[i] = stream[i]
    BY <1>1, <1>2, PartFacts DEF Streams
  <1>6. /\ Len(stream') = L - n /\ \A i \in 1..(L - n) : stream'[i] = stream[n + i]
    BY <1>1, <1>2, RestFacts, Zenon DEF Streams
  <1>7. /\ Len(buffer') = B + n
        /\ \A i \in 1..(B + n) : buffer'[i] = IF i <= B THEN buffer[i] ELSE p[i - B]
    BY <1>1, <1>5, ConcatProperties DEF Streams
  <1> HIDE DEF U, a, p, B, L
  <1>8. a + Len(buffer') + Len(stream') = Len(U)
    <2>1. a + (B + n) + (L - n) = a + B + L
      BY <1>2, <1>3
    <2> QED
      BY <1>4, <1>6, <1>7, <2>1
  <1>9. ASSUME NEW i \in 1..Len(buffer') PROVE buffer'[i] = U[a + i]
    <2>1. CASE i <= B
      BY <1>2, <1>4, <1>7, <2>1
    <2>2. CASE ~(i <= B)
      <3>1. i - B \in 1..n /\ i - B \in 1..L /\ a + B + (i - B) = a + i
        BY <1>1, <1>2, <1>3, <1>7, <2>2
      <3> QED
        BY <1>4, <1>5, <1>7, <2>2, <3>1
    <2> QED
      BY <2>1, <2>2
  <1>10. ASSUME NEW i \in 1..Len(stream') PROVE stream'[i] = U[a + Len(buffer') + i]
    <2>1. n + i \in 1..L /\ a + B + (n + i) = a + Len(buffer') + i
      BY <1>2, <1>3, <1>6, <1>7
    <2> QED
      BY <1>4, <1>6, <2>1
  <1>11. Pending'
    BY <1>1, <1>8, <1>9, <1>10, Zenon DEF Pending, U, a
  <1> QED
    BY <1>1, <1>11 DEF Framing

\* A request that comes out leaves the next one at the front.
LEMMA FramingReady ==
  ASSUME Streams, Framing, NextReady
  PROVE  Framing'
  <1> DEFINE U == Concat(sent)
             k == Len(out)
             m == sent[k + 1]
             a == EndOf(sent)[k]
             z == EndOf(sent)[k + 1]
             S == Size(m)
             B == Len(buffer)
             L == Len(stream)
             x == header_end(buffer) + 4 + next(buffer).body
  <1>1. /\ status # "Error" /\ next(buffer).kind = "RequestReady"
        /\ out' = Append(out, next(buffer)) /\ buffer' = SubSeq(buffer, x + 1, B)
        /\ status' = "RequestReady" /\ UNCHANGED <<sent, stream>>
    BY DEF NextReady
  <1>2. /\ B \in Nat /\ L \in Nat /\ k \in Nat /\ Len(sent) \in Nat /\ k <= Len(sent)
    BY LenProperties DEF Streams, Framing
  <1>3. k < Len(sent)
    <2>1. k # Len(sent)
      BY <1>1, PendingBegins, NextOnEmpty, Kinds DEF Streams
    <2> HIDE DEF k
    <2> QED
      BY <1>2, <2>1
  <1>4. m \in Messages /\ Begins(buffer, m)
    BY <1>1, <1>3, PendingBegins
  <1>5. next(buffer) = Expected(m) /\ B >= S /\ x = S
    BY <1>1, <1>4, NextOn, Kinds, Zenon DEF Streams
  <1>6. S \in Nat
    BY <1>4, RenderFacts
  <1>7. a \in Nat /\ z = a + S
    <2>1. k + 1 \in 1..Len(sent) /\ (k + 1) - 1 = k /\ k \in 0..Len(sent)
      BY <1>2, <1>3
    <2> HIDE DEF k
    <2> QED
      BY <2>1, EndFacts DEF Streams
  <1>8. /\ a + B + L = Len(U)
        /\ \A i \in 1..B : buffer[i] = U[a + i]
        /\ \A i \in 1..L : stream[i] = U[a + B + i]
    BY <1>1 DEF Framing, Pending
  <1>9. /\ out' \in Seq({Expected(j) : j \in Messages} \cup {BadRequest}) /\ Len(out') = k + 1
        /\ DOMAIN out' = 1..(k + 1)
        /\ \A i \in 1..k : out'[i] = out[i]
        /\ out'[k + 1] = Expected(m)
    <2>1. Expected(m) \in {Expected(j) : j \in Messages} \cup {BadRequest}
      BY <1>4
    <2> HIDE DEF k, m
    <2> QED
      BY <1>1, <1>2, <1>5, <2>1, AppendProperties, LenProperties DEF Framing, k
  <1>10. DOMAIN out = 1..k /\ \A i \in 1..k : out[i] = Expected(sent[i])
    BY <1>1, LenProperties DEF Framing
  <1>11. /\ Len(buffer') = B - S /\ \A i \in 1..(B - S) : buffer'[i] = buffer[S + i]
    <2>1. buffer' = SubSeq(buffer, S + 1, B)
      BY <1>1, <1>5, Zenon
    <2> HIDE DEF S
    <2> QED
      BY <1>5, <1>6, <2>1, RestFacts DEF Streams
  <1> HIDE DEF U, k, m, a, z, S, B, L, x
  <1>12. z + Len(buffer') + Len(stream') = Len(U)
    <2>1. (a + S) + (B - S) + L = a + B + L
      BY <1>2, <1>6, <1>7
    <2>2. Len(stream') = L
      BY <1>1 DEF L
    <2> QED
      BY <1>7, <1>8, <1>11, <2>1, <2>2
  <1>13. ASSUME NEW i \in 1..Len(buffer') PROVE buffer'[i] = U[z + i]
    <2>1. i \in 1..(B - S) /\ S + i \in 1..B /\ a + (S + i) = z + i
      BY <1>2, <1>5, <1>6, <1>7, <1>11
    <2> QED
      BY <1>8, <1>11, <2>1
  <1>14. ASSUME NEW i \in 1..Len(stream') PROVE stream'[i] = U[z + Len(buffer') + i]
    <2>1. i \in 1..L /\ stream'[i] = stream[i]
      BY <1>1 DEF L
    <2>2. z + (B - S) + i = a + B + i
      BY <1>2, <1>6, <1>7, <2>1
    <2> QED
      BY <1>8, <1>11, <2>1, <2>2
  <1>15. Pending'
    <2>1. EndOf(sent')[Len(out')] = z /\ Concat(sent') = U
      BY <1>1, <1>9 DEF z, U
    <2> QED
      BY <2>1, <1>12, <1>13, <1>14 DEF Pending
  <1>16. Len(out') <= Len(sent')
    BY <1>1, <1>2, <1>3, <1>9
  <1>17. ASSUME NEW i \in DOMAIN out' PROVE out'[i] = Expected(sent'[i])
    <2>1. i \in 1..k \/ i = k + 1
      BY <1>2, <1>9
    <2> QED
      BY <1>1, <1>9, <1>10, <2>1 DEF m
  <1> QED
    BY <1>1, <1>9, <1>15, <1>16, <1>17 DEF Framing

\* Waiting means that the request at the front is incomplete.
LEMMA FramingNeedsMore ==
  ASSUME Streams, Framing, NextNeedsMore
  PROVE  Framing'
  <1>1. /\ status # "Error" /\ next(buffer).kind = "NeedMoreData" /\ status' = "NeedMoreData"
        /\ UNCHANGED <<sent, stream, buffer, out>>
    BY DEF NextNeedsMore
  <1>2. Len(out) \in Nat /\ Len(sent) \in Nat /\ Len(out) <= Len(sent)
    BY LenProperties DEF Streams, Framing
  <1>3. ASSUME Len(out) < Len(sent)
        PROVE  Len(buffer) < Size(sent[Len(out) + 1])
    <2> DEFINE m == sent[Len(out) + 1]
    <2>1. m \in Messages /\ Begins(buffer, m)
      BY <1>1, <1>3, PendingBegins
    <2> HIDE DEF m
    <2>2. Len(buffer) < Size(m)
      BY <1>1, <2>1, NextOn, Kinds DEF Streams
    <2> QED
      BY <2>2 DEF m
  <1>4. Len(out) = Len(sent) \/ Len(buffer) < Size(sent[Len(out) + 1])
    BY <1>2, <1>3
  <1>5. Pending'
    BY <1>1 DEF Framing, Pending
  <1> QED
    BY <1>1, <1>4, <1>5 DEF Framing

\* The refusal is of the request at the front, and a justified one.
LEMMA FramingError ==
  ASSUME Streams, Framing, NextError
  PROVE  Framing'
  <1> DEFINE k == Len(out)
             m == sent[k + 1]
             r == next(buffer)
  <1>1. /\ status # "Error" /\ r.kind \in {"BadRequest", "UnsupportedTransferEncoding"}
        /\ out' = Append(out, r) /\ status' = "Error" /\ UNCHANGED <<sent, stream, buffer>>
    BY DEF NextError
  <1>2. k \in Nat /\ Len(sent) \in Nat /\ k <= Len(sent)
    BY LenProperties DEF Streams, Framing
  <1>3. k < Len(sent)
    <2>1. k # Len(sent)
      BY <1>1, PendingBegins, NextOnEmpty, Kinds DEF Streams
    <2> HIDE DEF k
    <2> QED
      BY <1>2, <2>1
  <1>4. m \in Messages /\ Begins(buffer, m)
    BY <1>1, <1>3, PendingBegins
  <1>5. r = Expected(m) \/ (AtLimit(m) /\ r = BadRequest)
    BY <1>1, <1>4, NextOn, Kinds DEF Streams
  <1>6. /\ out' \in Seq({Expected(j) : j \in Messages} \cup {BadRequest}) /\ Len(out') = k + 1
        /\ DOMAIN out' = 1..(k + 1)
        /\ \A i \in 1..k : out'[i] = out[i]
        /\ out'[k + 1] = r
    <2>1. r \in {Expected(j) : j \in Messages} \cup {BadRequest}
      BY <1>4, <1>5
    <2> HIDE DEF m, r
    <2> DEFINE S == {Expected(j) : j \in Messages} \cup {BadRequest}
    <2>2. out \in Seq(S) /\ out' = Append(out, r) /\ r \in S
      BY <1>1, <2>1, Zenon DEF Framing
    <2> HIDE DEF S
    <2>3. /\ out' \in Seq(S) /\ Len(out') = k + 1
          /\ \A i \in 1..k : out'[i] = out[i]
          /\ out'[k + 1] = r
      <3> DEFINE s == Append(out, r)
      <3>1. /\ s \in Seq(S) /\ Len(s) = k + 1 /\ \A i \in 1..k : s[i] = out[i]
            /\ s[k + 1] = r
        BY <2>2, AppendProperties
      <3> QED
        BY <2>2, <3>1, Zenon
    <2>4. DOMAIN out' = 1..(k + 1)
      BY <2>3, LenProperties, Zenon
    <2> QED
      BY <2>3, <2>4, Zenon DEF S
  <1>7. DOMAIN out = 1..k /\ \A i \in 1..k : out[i] = Expected(sent[i])
    BY <1>1, LenProperties DEF Framing
  <1> HIDE DEF k, m, r
  <1>8. Verdicts'
    <2> SUFFICES ASSUME NEW i \in DOMAIN out'
                 PROVE  \/ out'[i] = Expected(sent[i])
                        \/ AtLimit(sent[i]) /\ i = k + 1 /\ out'[i] = BadRequest
      BY <1>1, <1>6 DEF Verdicts
    <2>1. i \in 1..k \/ i = k + 1
      BY <1>2, <1>6
    <2> QED
      BY <1>5, <1>6, <1>7, <2>1 DEF m
  <1>9. Len(out') <= Len(sent')
    BY <1>1, <1>2, <1>3, <1>6
  <1> QED
    BY <1>1, <1>6, <1>8, <1>9 DEF Framing

LEMMA FramingStep ==
  ASSUME Streams, Framing, [Next]_vars
  PROVE  Framing'
  <1>1. CASE Done \/ UNCHANGED vars
    <2>1. UNCHANGED <<sent, stream, buffer, status, out>>
      BY <1>1 DEF Done, vars
    <2>2. Pending' = Pending /\ Verdicts' = Verdicts
      BY <2>1 DEF Pending, Verdicts
    <2> QED
      BY <2>1, <2>2 DEF Framing
  <1> QED
    BY <1>1, FramingFeed, FramingReady, FramingNeedsMore, FramingError DEF Next

\* When more data is awaited, the requests that have come out are those that
\* have arrived.
LEMMA ArrivedFacts ==
  ASSUME Streams, Framing, status = "NeedMoreData"
  PROVE  Len(out) = Cardinality({k \in DOMAIN sent : EndOf(sent)[k] <= Arrived})
  <1> DEFINE e == EndOf(sent)
             n == Len(sent)
             l == Len(out)
             B == Len(buffer)
             A == Arrived
  <1>1. /\ e \in [0..n -> Nat] /\ n \in Nat /\ l \in Nat /\ l <= n /\ B \in Nat
        /\ Len(stream) \in Nat /\ DOMAIN sent = 1..n
    BY EndFacts, LenProperties DEF Streams, Framing
  <1>2. \A j, k \in 0..n : j <= k => e[j] <= e[k]
    BY EndsGrow DEF Streams
  <1>3. A = e[l] + B
    <2>1. e[l] + B + Len(stream) = Len(Concat(sent)) /\ A = Len(Concat(sent)) - Len(stream)
      BY DEF Framing, Pending, Arrived
    <2>2. e[l] \in Nat
      BY <1>1
    <2> HIDE DEF e, l, B, A
    <2> QED
      BY <1>1, <2>1, <2>2
  <1>4. l = n \/ (l < n /\ e[l + 1] = e[l] + Size(sent[l + 1]) /\ B < Size(sent[l + 1])
                   /\ Size(sent[l + 1]) \in Nat)
    <2>1. l = n \/ B < Size(sent[l + 1])
      BY DEF Framing
    <2>2. ASSUME l < n
          PROVE  e[l + 1] = e[l] + Size(sent[l + 1]) /\ Size(sent[l + 1]) \in Nat
      <3>1. l + 1 \in 1..n /\ (l + 1) - 1 = l
        BY <1>1, <2>2
      <3> HIDE DEF l
      <3>2. sent[l + 1] \in Messages
        BY <3>1, ElementOfSeq DEF Streams
      <3>3. \A k \in 1..n : e[k] = e[k - 1] + Size(sent[k])
        BY EndFacts, Zenon DEF Streams
      <3>4. e[l + 1] = e[(l + 1) - 1] + Size(sent[l + 1])
        BY <3>1, <3>3, Zenon
      <3>5. Size(sent[l + 1]) \in Nat
        BY <3>2, RenderFacts, Zenon
      <3> HIDE DEF e
      <3> QED
        BY <3>1, <3>4, <3>5
    <2>3. l = n \/ l < n
      BY <1>1
    <2> QED
      BY <2>1, <2>2, <2>3
  <1> HIDE DEF e, n, l, B, A
  <1>5. ASSUME NEW k \in 1..n
        PROVE  e[k] <= A <=> k \in 1..l
    <2>1. k \in 0..n /\ l \in 0..n /\ e[k] \in Nat /\ e[l] \in Nat /\ A \in Nat
      BY <1>1, <1>3
    <2>2. CASE k <= l
      BY <1>1, <1>2, <1>3, <2>1, <2>2
    <2>3. CASE k > l
      <3>1. l < n /\ l + 1 \in 0..n /\ l + 1 <= k
        BY <1>1, <2>3
      <3>2. e[l + 1] <= e[k] /\ e[l + 1] > A
        BY <1>1, <1>2, <1>3, <1>4, <2>1, <3>1
      <3> QED
        BY <1>1, <2>1, <2>3, <3>1, <3>2
    <2> QED
      BY <1>1, <2>1, <2>2, <2>3
  <1>6. {k \in 1..n : e[k] <= A} = 1..l
    BY <1>1, <1>5
  <1>7. Cardinality(1..l) = l
    BY <1>1, FS_Interval
  <1> QED
    BY <1>1, <1>6, <1>7, Zenon DEF e, l, A

\* For any limits, any fragmentation and any number of requests of a client
\* that sends the bodies it declares, next() returns the requests one by one,
\* in order and with the verdict that each deserves, holds none back that has
\* arrived, and takes no unit of one for part of another.
THEOREM FramingCorrect == Spec => []FramingExact
  <1>1. Init => Streams /\ Framing
    BY StreamsInit, FramingInit
  <1>2. Streams /\ Framing /\ [Next]_vars => (Streams /\ Framing)'
    BY StreamsStep, FramingStep
  <1>3. Streams /\ Framing => FramingExact
    <2> SUFFICES ASSUME Streams, Framing PROVE FramingExact
      OBVIOUS
    <2>1. Len(out) <= Len(sent) /\ Verdicts
      BY DEF Framing, Verdicts
    <2> QED
      BY <2>1, ArrivedFacts DEF FramingExact, Verdicts
  <1> QED
    BY <1>1, <1>2, <1>3, PTL DEF Spec
==============================================================================
