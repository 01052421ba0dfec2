-------------------------- MODULE ChartStudies_proofs -------------------------
(***************************************************************************)
(* TLAPS proofs about the chart studies, for any candles, list length and  *)
(* settings: what each loop has accumulated is what its definition over    *)
(* the whole list says.                                                    *)
(***************************************************************************)
EXTENDS ChartStudies, FiniteSums, SequenceTheorems

-----------------------------------------------------------------------------
(* The greatest and the least of a finite set of integers.                 *)

LEMMA MaxIs ==
  ASSUME NEW S \in SUBSET Int, NEW m \in S, \A y \in S : y <= m
  PROVE  Max(S) = m
<1>1. \E x \in S : \A y \in S : x >= y
  OBVIOUS
<1>2. Max(S) \in S /\ \A y \in S : Max(S) >= y
  BY <1>1 DEF Max
<1> DEFINE c == Max(S)
<1>3. c \in S /\ c >= m
  BY <1>2
<1> HIDE DEF c
<1>4. c = m
  BY <1>3
<1> QED
  BY <1>4 DEF c

LEMMA MinIs ==
  ASSUME NEW S \in SUBSET Int, NEW m \in S, \A y \in S : m <= y
  PROVE  Min(S) = m
<1>1. \E x \in S : \A y \in S : x =< y
  OBVIOUS
<1>2. Min(S) \in S /\ \A y \in S : Min(S) =< y
  BY <1>1 DEF Min
<1> DEFINE c == Min(S)
<1>3. c \in S /\ c =< m
  BY <1>2
<1> HIDE DEF c
<1>4. c = m
  BY <1>3
<1> QED
  BY <1>4 DEF c

LEMMA HasExtremes ==
  ASSUME NEW S \in SUBSET Int, IsFiniteSet(S), S # {}
  PROVE  /\ Max(S) \in S /\ \A y \in S : y <= Max(S)
         /\ Min(S) \in S /\ \A y \in S : Min(S) <= y
<1> DEFINE Bounded(T) == T # {} => (\E m \in T : \A y \in T : y <= m)
                                      /\ (\E m \in T : \A y \in T : m <= y)
           G == {T \in SUBSET S : Bounded(T)}
<1>1. {} \in G
  OBVIOUS
<1>2. \A T \in SUBSET S : (\A U \in SUBSET T : U # T => U \in G) => T \in G
  <2> SUFFICES ASSUME NEW T \in SUBSET S, T # {}, \A U \in SUBSET T : U # T => U \in G
               PROVE  Bounded(T)
    OBVIOUS
  <2>1. PICK x \in T : TRUE
    OBVIOUS
  <2>2. T \ {x} \in G
    BY <2>1
  <2>3. CASE T = {x}
    BY <2>3
  <2>4. CASE T # {x}
    <3>1. PICK h \in T \ {x} : \A y \in T \ {x} : y <= h
      BY <2>1, <2>2, <2>4
    <3>2. PICK l \in T \ {x} : \A y \in T \ {x} : l <= y
      BY <2>1, <2>2, <2>4
    <3>3. \E m \in T : \A y \in T : y <= m
      <4>1. CASE x <= h
        BY <3>1, <4>1
      <4>2. CASE ~(x <= h)
        BY <2>1, <3>1, <4>2
      <4> QED
        BY <4>1, <4>2
    <3>4. \E m \in T : \A y \in T : m <= y
      <4>1. CASE l <= x
        BY <3>2, <4>1
      <4>2. CASE ~(l <= x)
        BY <2>1, <3>2, <4>2
      <4> QED
        BY <4>1, <4>2
    <3> QED
      BY <3>3, <3>4
  <2> QED
    BY <2>3, <2>4
<1>3. S \in G
  <2> HIDE DEF G
  <2> QED
    BY <1>1, <1>2, FiniteInduction
<1>4. PICK h \in S : \A y \in S : y <= h
  BY <1>3
<1>5. PICK l \in S : \A y \in S : l <= y
  BY <1>3
<1> QED
  BY <1>4, <1>5, MaxIs, MinIs

LEMMA SpanExtremes ==
  ASSUME NEW f \in Int, NEW t \in Int, NEW S \in SUBSET (f .. t), S # {}
  PROVE  /\ Max(S) \in S /\ \A y \in S : y <= Max(S)
         /\ Min(S) \in S /\ \A y \in S : Min(S) <= y
<1>1. S \in SUBSET Int
  OBVIOUS
<1>2. IsFiniteSet(S)
  BY FS_Interval, FS_Subset
<1> QED
  BY <1>1, <1>2, HasExtremes

\* Some candle of a span has the greatest value of the span, and some the least.
LEMMA SpanPeaks ==
  ASSUME NEW f \in Int, NEW t \in Int, f <= t, NEW v \in [f .. t -> Int]
  PROVE  /\ \E j \in f .. t : \A x \in f .. t : v[x] <= v[j]
         /\ \E j \in f .. t : \A x \in f .. t : v[j] <= v[x]
<1> DEFINE S == {v[j] : j \in f .. t}
<1>1. S \in SUBSET Int /\ S # {}
  OBVIOUS
<1>3. IsFiniteSet(S)
  BY FS_Interval, FS_Surjection, v \in Surjection(f .. t, S) DEF Surjection
<1>2. /\ Max(S) \in S /\ \A y \in S : y <= Max(S)
      /\ Min(S) \in S /\ \A y \in S : Min(S) <= y
  <2> HIDE DEF S
  <2> QED
    BY <1>1, <1>3, HasExtremes
<1> QED
  BY <1>2

(***************************************************************************)
(* The first of the candles a condition holds at, 0 when there is none:    *)
(* one more candle changes it only when there was none.                    *)
(***************************************************************************)
FirstOf(S) == IF S = {} THEN 0 ELSE Min(S)

LEMMA FirstOfStep ==
  ASSUME NEW n \in Nat, NEW S \in SUBSET (1 .. n), NEW T \in SUBSET {n + 1}
  PROVE  FirstOf(S \cup T) = IF FirstOf(S) = 0 /\ T # {} THEN n + 1 ELSE FirstOf(S)
<1>0. S \cup T \in SUBSET Int
  OBVIOUS
<1>1. CASE S = {}
  <2>1. CASE T = {}
    BY <1>1, <2>1 DEF FirstOf
  <2>2. CASE T = {n + 1}
    <3>1. Min({n + 1}) = n + 1
      BY MinIs
    <3>2. S \cup T = {n + 1}
      BY <1>1, <2>2
    <3> QED
      BY <1>1, <2>2, <3>1, <3>2 DEF FirstOf
  <2> QED
    BY <2>1, <2>2
<1>2. CASE S # {}
  <2>1. Min(S) \in S /\ \A y \in S : Min(S) <= y
    <3>1. 1 \in Int /\ n \in Int
      OBVIOUS
    <3> QED
      BY <1>2, <3>1, SpanExtremes
  <2> DEFINE m == Min(S)
  <2>2. m \in S /\ m \in 1 .. n /\ \A y \in S \cup T : m <= y
    <3>1. m \in S /\ \A y \in S : m <= y
      BY <2>1
    <3> HIDE DEF m
    <3> QED
      BY <3>1
  <2> HIDE DEF m
  <2>3. Min(S \cup T) = m
    BY <1>0, <2>2, MinIs
  <2>4. S \cup T # {}
    BY <1>2
  <2> QED
    BY <1>2, <2>2, <2>3, <2>4 DEF FirstOf, m
<1> QED
  BY <1>1, <1>2

(***************************************************************************)
(* Splicing from the last index to the first leaves what is at the other   *)
(* indices, in order.  e says where each element left came from.           *)
(***************************************************************************)
Splices(g, list, gone, from) ==
  g = [k \in from .. Len(list) |->
         IF k = Len(list) THEN list
         ELSE IF k + 1 \in gone THEN RemoveAt(g[k + 1], k + 1) ELSE g[k + 1]]

LEMMA SplicesExists ==
  ASSUME NEW S, NEW list \in Seq(S), NEW gone
  PROVE  \E g : Splices(g, list, gone, 0)
<1> DEFINE n == Len(list)
           G == {m \in Nat : m <= n => \E g : Splices(g, list, gone, n - m)}
<1>0. n \in Nat
  OBVIOUS
<1>1. 0 \in G
  <2>1. Splices([k \in n .. n |-> list], list, gone, n - 0)
    BY <1>0 DEF Splices
  <2> QED
    BY <2>1
<1>2. \A m \in Nat : m \in G => m + 1 \in G
  <2> SUFFICES ASSUME NEW m \in Nat, m + 1 <= n, NEW g, Splices(g, list, gone, n - m)
               PROVE  \E h : Splices(h, list, gone, n - (m + 1))
    BY <1>0
  <2> DEFINE l == n - (m + 1)
             h == [k \in l .. n |->
                     IF k = n THEN list
                     ELSE IF k + 1 \in gone THEN RemoveAt(g[k + 1], k + 1) ELSE g[k + 1]]
  <2>1. \A k \in l + 1 .. n : h[k] = g[k]
    <3>1. n - m = l + 1 /\ l \in Int
      BY <1>0
    <3>2. g = [k \in l + 1 .. n |->
                 IF k = n THEN list
                 ELSE IF k + 1 \in gone THEN RemoveAt(g[k + 1], k + 1) ELSE g[k + 1]]
      BY <3>1 DEF Splices
    <3> HIDE DEF n
    <3> SUFFICES ASSUME NEW k \in l + 1 .. n PROVE h[k] = g[k]
      OBVIOUS
    <3>3. k \in l .. n
      BY <1>0, <3>1
    <3>4. g[k] = IF k = n THEN list
                 ELSE IF k + 1 \in gone THEN RemoveAt(g[k + 1], k + 1) ELSE g[k + 1]
      BY <3>2
    <3> QED
      BY <3>3, <3>4
  <2>2. h = [k \in l .. n |->
               IF k = n THEN list
               ELSE IF k + 1 \in gone THEN RemoveAt(h[k + 1], k + 1) ELSE h[k + 1]]
    <3>1. \A k \in l .. n : k # n => k + 1 \in l + 1 .. n
      BY <1>0
    <3> QED
      BY <2>1, <3>1
  <2> HIDE DEF h
  <2>3. Splices(h, list, gone, n - (m + 1))
    BY <2>2 DEF Splices
  <2> QED
    BY <2>3
<1> HIDE DEF G
<1>3. n \in G
  BY <1>0, <1>1, <1>2, CountInduction
<1>4. n - n = 0
  BY <1>0
<1> QED
  BY <1>0, <1>3, <1>4 DEF G

Keeps(r, e, list, gone) ==
  /\ e \in [1 .. Len(r) -> 1 .. Len(list)]
  /\ \A x \in 1 .. Len(r) : r[x] = list[e[x]]
  /\ \A x, y \in 1 .. Len(r) : x < y => e[x] < e[y]
  /\ \A x \in 1 .. Len(r) : e[x] \notin gone
  /\ \A i \in 1 .. Len(list) : i \notin gone => \E x \in 1 .. Len(r) : e[x] = i

LEMMA RemoveAtIs ==
  ASSUME NEW S, NEW r \in Seq(S), NEW k \in 1 .. Len(r)
  PROVE  /\ RemoveAt(r, k) \in Seq(S) /\ Len(RemoveAt(r, k)) = Len(r) - 1
         /\ \A x \in 1 .. Len(r) - 1 : RemoveAt(r, k)[x] = IF x < k THEN r[x] ELSE r[x + 1]
<1> DEFINE a == SubSeq(r, 1, k - 1)
           b == SubSeq(r, k + 1, Len(r))
<1>1. Len(r) \in Nat
  OBVIOUS
<1>2. a \in Seq(S) /\ Len(a) = k - 1 /\ \A x \in 1 .. k - 1 : a[x] = r[x]
  BY <1>1
<1>3. /\ b \in Seq(S) /\ Len(b) = Len(r) - k
      /\ \A x \in 1 .. Len(r) - k : b[x] = r[x + k]
  BY <1>1
<1> HIDE DEF a, b
<1>4. /\ a \o b \in Seq(S) /\ Len(a \o b) = Len(r) - 1
      /\ \A x \in 1 .. Len(r) - 1 :
           (a \o b)[x] = IF x <= k - 1 THEN a[x] ELSE b[x - (k - 1)]
  <2>1. a \o b \in Seq(S) /\ Len(a \o b) = Len(r) - 1
    <3>1. a \in Seq(S) /\ b \in Seq(S)
      BY <1>2, <1>3
    <3>2. a \o b \in Seq(S)
      BY <3>1
    <3>3. Len(a \o b) = Len(a) + Len(b)
      BY <3>1
    <3> QED
      BY <1>1, <1>2, <1>3, <3>2, <3>3
  <2> SUFFICES ASSUME NEW x \in 1 .. Len(r) - 1
               PROVE  (a \o b)[x] = IF x <= k - 1 THEN a[x] ELSE b[x - (k - 1)]
    BY <2>1
  <2>2. x \in 1 .. Len(a) + Len(b)
    BY <1>1, <1>2, <1>3
  <2>3. (a \o b)[x] = IF x <= Len(a) THEN a[x] ELSE b[x - Len(a)]
    BY <1>2, <1>3, <2>2
  <2> QED
    BY <1>2, <2>3
<1>5. \A x \in 1 .. Len(r) - 1 : (a \o b)[x] = IF x < k THEN r[x] ELSE r[x + 1]
  <2> SUFFICES ASSUME NEW x \in 1 .. Len(r) - 1
               PROVE  (a \o b)[x] = IF x < k THEN r[x] ELSE r[x + 1]
    OBVIOUS
  <2>1. CASE x < k
    BY <1>1, <1>2, <1>4, <2>1
  <2>2. CASE ~(x < k)
    <3>1. x - (k - 1) \in 1 .. Len(r) - k /\ x - (k - 1) + k = x + 1 /\ ~(x <= k - 1)
      BY <1>1, <2>2
    <3> QED
      BY <1>3, <1>4, <2>2, <3>1
  <2> QED
    BY <2>1, <2>2
<1> QED
  BY <1>4, <1>5 DEF RemoveAt, a, b

FixedTo(e, k) == \A x \in 1 .. k : e[x] = x

Without(e, k, length) == [x \in 1 .. length - 1 |-> IF x < k THEN e[x] ELSE e[x + 1]]

LEMMA KeepsRemoved ==
  ASSUME NEW S, NEW list \in Seq(S), NEW gone, NEW r \in Seq(S), NEW e,
         Keeps(r, e, list, gone), NEW k \in 1 .. Len(r), FixedTo(e, k)
  PROVE  /\ Keeps(RemoveAt(r, k), Without(e, k, Len(r)), list, gone \cup {k})
         /\ FixedTo(Without(e, k, Len(r)), k - 1)
<1> DEFINE d == [x \in 1 .. Len(r) - 1 |-> IF x < k THEN e[x] ELSE e[x + 1]]
           q == RemoveAt(r, k)
<1>1. /\ q \in Seq(S) /\ Len(q) = Len(r) - 1
      /\ \A x \in 1 .. Len(r) - 1 : q[x] = IF x < k THEN r[x] ELSE r[x + 1]
  BY RemoveAtIs
<1>2. /\ e \in [1 .. Len(r) -> 1 .. Len(list)] /\ Len(r) \in Nat /\ Len(list) \in Nat
      /\ \A x, y \in 1 .. Len(r) : x < y => e[x] < e[y]
  BY DEF Keeps
<1>3. \A x \in 1 .. Len(r) - 1 : x \in 1 .. Len(r) /\ x + 1 \in 1 .. Len(r)
  BY <1>2
<1>10. e[k] = k /\ \A x \in 1 .. k : e[x] = x
  BY DEF FixedTo
<1> HIDE DEF q
<1>4. d \in [1 .. Len(q) -> 1 .. Len(list)]
  BY <1>1, <1>2, <1>3
<1>5. \A x \in 1 .. Len(q) : q[x] = list[d[x]]
  BY <1>1, <1>3 DEF Keeps
<1>6. \A x, y \in 1 .. Len(q) : x < y => d[x] < d[y]
  <2> SUFFICES ASSUME NEW x \in 1 .. Len(q), NEW y \in 1 .. Len(q), x < y PROVE d[x] < d[y]
    OBVIOUS
  <2> DEFINE a == IF x < k THEN x ELSE x + 1
             b == IF y < k THEN y ELSE y + 1
  <2>1. a \in 1 .. Len(r) /\ b \in 1 .. Len(r) /\ a < b /\ d[x] = e[a] /\ d[y] = e[b]
    BY <1>1, <1>3
  <2> HIDE DEF a, b
  <2> QED
    BY <1>2, <2>1
<1>7. \A x \in 1 .. Len(q) : d[x] \notin gone \cup {k}
  <2> SUFFICES ASSUME NEW x \in 1 .. Len(q) PROVE d[x] \notin gone /\ d[x] # k
    OBVIOUS
  <2>1. CASE x < k
    <3>1. d[x] = e[x] /\ e[x] = x /\ x \in 1 .. Len(r)
      <4>1. x \in 1 .. Len(r) - 1 /\ x \in 1 .. k
        BY <1>1, <2>1
      <4>2. d[x] = e[x]
        BY <2>1, <4>1
      <4> QED
        BY <1>3, <1>10, <4>1, <4>2
    <3> QED
      BY <2>1, <3>1 DEF Keeps
  <2>2. CASE ~(x < k)
    <3>1. d[x] = e[x + 1] /\ x + 1 \in 1 .. Len(r) /\ k < x + 1
      BY <1>1, <1>3, <2>2
    <3>2. e[k] < e[x + 1]
      BY <1>2, <3>1
    <3>3. d[x] # k
      BY <1>2, <1>10, <3>1, <3>2
    <3> QED
      BY <3>1, <3>3 DEF Keeps
  <2> QED
    BY <2>1, <2>2
<1>8. \A i \in 1 .. Len(list) : i \notin gone \cup {k} => \E x \in 1 .. Len(q) : d[x] = i
  <2> SUFFICES ASSUME NEW i \in 1 .. Len(list), i \notin gone, i # k
               PROVE  \E x \in 1 .. Len(q) : d[x] = i
    OBVIOUS
  <2>1. PICK x \in 1 .. Len(r) : e[x] = i
    BY DEF Keeps
  <2>2. CASE x < k
    BY <1>1, <1>2, <2>1, <2>2
  <2>3. CASE ~(x < k)
    <3>1. x # k
      BY <1>10, <2>1
    <3>2. x - 1 \in 1 .. Len(q) /\ ~(x - 1 < k) /\ x - 1 + 1 = x
      BY <1>1, <1>2, <2>3, <3>1
    <3>3. d[x - 1] = e[x]
      BY <1>1, <3>2
    <3> QED
      BY <2>1, <3>2, <3>3
  <2> QED
    BY <2>2, <2>3
<1>9. Keeps(q, d, list, gone \cup {k})
  BY <1>4, <1>5, <1>6, <1>7, <1>8 DEF Keeps
<1> QED
  BY <1>2, <1>9, <1>10 DEF q, Without, FixedTo

LEMMA SplicedKeeps ==
  ASSUME NEW S, NEW list \in Seq(S), NEW gone
  PROVE  /\ SplicedDown(list, gone) \in Seq(S)
         /\ \E e : Keeps(SplicedDown(list, gone), e, list, gone)
<1> DEFINE n == Len(list)
           left == CHOOSE g : Splices(g, list, gone, 0)
           Done(k) == {i \in gone : i \in k + 1 .. n}
           KeptTo(k) == /\ left[k] \in Seq(S) /\ k <= Len(left[k])
                        /\ \E e : /\ Keeps(left[k], e, list, Done(k))
                                  /\ FixedTo(e, k)
           G == {m \in Nat : m <= n => KeptTo(n - m)}
<1>0. n \in Nat
  OBVIOUS
<1>1. Splices(left, list, gone, 0)
  BY SplicesExists
<1>2. SplicedDown(list, gone) = left[0]
  BY DEF SplicedDown, Splices
<1>3. /\ left[n] = list
      /\ \A k \in 0 .. n - 1 : left[k] = IF k + 1 \in gone THEN RemoveAt(left[k + 1], k + 1)
                                         ELSE left[k + 1]
  <2> HIDE DEF left
  <2> QED
    BY <1>0, <1>1 DEF Splices
<1> HIDE DEF left
<1>4. 0 \in G
  <2>1. Done(n) = {} /\ n - 0 = n
    BY <1>0
  <2>2. Keeps(list, [x \in 1 .. n |-> x], list, {})
    BY <1>0 DEF Keeps
  <2>3. KeptTo(n)
    <3>1. FixedTo([y \in 1 .. n |-> y], n)
      BY DEF FixedTo
    <3> HIDE DEF Done
    <3> QED
      BY <1>0, <1>3, <2>1, <2>2, <3>1
  <2> QED
    BY <2>1, <2>3
<1>5. \A m \in Nat : m \in G => m + 1 \in G
  <2> SUFFICES ASSUME NEW m \in Nat, m + 1 <= n, KeptTo(n - m)
               PROVE  KeptTo(n - (m + 1))
    <3>1. \A m \in Nat : m + 1 <= n => m <= n
      BY <1>0
    <3> HIDE DEF KeptTo
    <3> QED
      BY <3>1
  <2> DEFINE k == n - (m + 1)
             r == left[k + 1]
  <2>1. k \in 0 .. n - 1 /\ n - m = k + 1 /\ k + 1 \in 1 .. n
    BY <1>0
  <2>2. r \in Seq(S) /\ k + 1 <= Len(r)
    BY <2>1
  <2>3. PICK e : Keeps(r, e, list, Done(k + 1)) /\ FixedTo(e, k + 1)
    BY <2>1
  <2> HIDE DEF k
  <2>4. CASE k + 1 \in gone
    <3>1. left[k] = RemoveAt(r, k + 1)
      BY <1>3, <2>1, <2>4
    <3>2. Done(k) = Done(k + 1) \cup {k + 1}
      BY <1>0, <2>1, <2>4
    <3>3. k + 1 \in 1 .. Len(r) /\ k + 1 - 1 = k
      BY <2>1, <2>2, <2>3
    <3> DEFINE d == Without(e, k + 1, Len(r))
    <3> HIDE DEF Done
    <3>4. Keeps(left[k], d, list, Done(k + 1) \cup {k + 1}) /\ FixedTo(d, k)
      <4> DEFINE K == k + 1
                 D == Done(K)
      <4>1. r \in Seq(S) /\ Keeps(r, e, list, D) /\ K \in 1 .. Len(r) /\ FixedTo(e, K)
        BY <2>2, <2>3, <3>3
      <4>2. K - 1 = k
        BY <2>1
      <4> HIDE DEF r, K, D
      <4>3. Keeps(RemoveAt(r, K), Without(e, K, Len(r)), list, D \cup {K})
            /\ FixedTo(Without(e, K, Len(r)), K - 1)
        BY <4>1, KeepsRemoved
      <4> QED
        BY <3>1, <4>2, <4>3 DEF K, D
    <3>5. left[k] \in Seq(S) /\ Len(left[k]) = Len(r) - 1
      <4> HIDE DEF r
      <4> QED
        BY <2>2, <3>1, <3>3, RemoveAtIs
    <3>6. k <= Len(left[k])
      BY <2>1, <2>2, <3>5
    <3> HIDE DEF d
    <3> QED
      BY <3>2, <3>4, <3>5, <3>6 DEF k
  <2>5. CASE k + 1 \notin gone
    <3>1. left[k] = r
      BY <1>3, <2>1, <2>5
    <3>2. Done(k) = Done(k + 1)
      BY <1>0, <2>1, <2>5
    <3>3. FixedTo(e, k)
      BY <2>1, <2>3 DEF FixedTo
    <3>4. k <= Len(r)
      BY <2>1, <2>2
    <3> HIDE DEF Done
    <3> QED
      BY <2>2, <2>3, <3>1, <3>2, <3>3, <3>4 DEF k
  <2> QED
    BY <2>4, <2>5
<1>6. n \in G
  <2> HIDE DEF G
  <2> QED
    BY <1>0, <1>4, <1>5, CountInduction
<1>7. n - n = 0 /\ n <= n
  BY <1>0
<1>8. KeptTo(0)
  BY <1>6, <1>7
<1>9. PICK e : Keeps(left[0], e, list, Done(0))
  BY <1>8
<1>10. Keeps(left[0], e, list, gone)
  BY <1>0, <1>9 DEF Keeps
<1> QED
  BY <1>2, <1>8, <1>10

\* What is left is what was at the other indices, in its order.
Leaves(r, S, list, gone) ==
  /\ r \in Seq(S)
  /\ ToSet(r) = {list[i] : i \in DOMAIN list \ gone}
  /\ \A x, y \in DOMAIN r : x < y =>
       \E i, j \in DOMAIN list \ gone : i < j /\ r[x] = list[i] /\ r[y] = list[j]

LEMMA SplicedLeaves ==
  ASSUME NEW S, NEW list \in Seq(S), NEW gone, NEW r, r = SplicedDown(list, gone)
  PROVE  Leaves(r, S, list, gone)
<1>1. r \in Seq(S)
  BY SplicedKeeps
<1>2. PICK e : Keeps(r, e, list, gone)
  BY SplicedKeeps
<1>3. DOMAIN r = 1 .. Len(r) /\ DOMAIN list = 1 .. Len(list)
  BY <1>1
<1>4. ToSet(r) = {list[i] : i \in DOMAIN list \ gone}
  <2>1. \A x \in 1 .. Len(r) : e[x] \in 1 .. Len(list) \ gone /\ r[x] = list[e[x]]
    BY <1>2 DEF Keeps
  <2>2. \A i \in 1 .. Len(list) \ gone : \E x \in 1 .. Len(r) : r[x] = list[i]
    <3> SUFFICES ASSUME NEW i \in 1 .. Len(list), i \notin gone
                 PROVE  \E x \in 1 .. Len(r) : r[x] = list[i]
      OBVIOUS
    <3>1. PICK x \in 1 .. Len(r) : e[x] = i
      BY <1>2 DEF Keeps
    <3> QED
      BY <2>1, <3>1
  <2>3. ToSet(r) \subseteq {list[i] : i \in DOMAIN list \ gone}
    BY <1>3, <2>1 DEF ToSet
  <2>4. {list[i] : i \in DOMAIN list \ gone} \subseteq ToSet(r)
    <3> SUFFICES ASSUME NEW i \in 1 .. Len(list), i \notin gone PROVE list[i] \in ToSet(r)
      BY <1>3
    <3>1. PICK x \in 1 .. Len(r) : r[x] = list[i]
      BY <2>2
    <3> QED
      BY <1>3, <3>1 DEF ToSet
  <2> QED
    BY <2>3, <2>4
<1>5. \A x, y \in DOMAIN r : x < y =>
        \E i, j \in DOMAIN list \ gone : i < j /\ r[x] = list[i] /\ r[y] = list[j]
  <2> SUFFICES ASSUME NEW x \in 1 .. Len(r), NEW y \in 1 .. Len(r), x < y
               PROVE  \E i, j \in DOMAIN list \ gone : i < j /\ r[x] = list[i] /\ r[y] = list[j]
    BY <1>3
  <2>1. /\ e[x] \in 1 .. Len(list) \ gone /\ e[y] \in 1 .. Len(list) \ gone
        /\ e[x] < e[y] /\ r[x] = list[e[x]] /\ r[y] = list[e[y]]
    BY <1>2 DEF Keeps
  <2> QED
    BY <1>3, <2>1
<1> QED
  BY <1>1, <1>4, <1>5 DEF Leaves

LEMMA ArrayOf ==
  ASSUME NEW B, NEW m \in Nat, NEW r \in [1 .. m -> B]
  PROVE  r \in Seq(B) /\ Len(r) = m /\ DOMAIN r = 1 .. m
OBVIOUS

LEMMA Singletons ==
  ASSUME NEW B PROVE <<>> \in Seq(B) /\ \A x \in B : << x >> \in Seq(B)
OBVIOUS

LEMMA Appended ==
  ASSUME NEW B, NEW s \in Seq(B), NEW x \in B
  PROVE  /\ Append(s, x) \in Seq(B) /\ DOMAIN Append(s, x) = 1 .. Len(s) + 1
         /\ Append(s, x)[Len(s) + 1] = x /\ \A i \in 1 .. Len(s) : Append(s, x)[i] = s[i]
<1>1. Append(s, x) \in Seq(B) /\ Len(Append(s, x)) = Len(s) + 1
  OBVIOUS
<1>2. DOMAIN Append(s, x) = 1 .. Len(s) + 1
  BY <1>1
<1>3. Append(s, x)[Len(s) + 1] = x /\ \A i \in 1 .. Len(s) : Append(s, x)[i] = s[i]
  OBVIOUS
<1> QED
  BY <1>1, <1>2, <1>3

LEMMA ArrayIn ==
  ASSUME NEW A, NEW B, NEW s \in Seq(A), \A x \in DOMAIN s : s[x] \in B
  PROVE  s \in Seq(B)
OBVIOUS

LEMMA ArrayParts ==
  ASSUME NEW A, NEW s \in Seq(A), NEW t \in Seq(A)
  PROVE  /\ s \o t \in Seq(A) /\ DOMAIN s = 1 .. Len(s) /\ Len(s) \in Nat
         /\ DOMAIN (s \o t) = 1 .. Len(s) + Len(t)
         /\ \A x \in 1 .. Len(s) + Len(t) :
              (s \o t)[x] = IF x <= Len(s) THEN s[x] ELSE t[x - Len(s)]
<1>1. s \o t \in Seq(A) /\ Len(s \o t) = Len(s) + Len(t)
  OBVIOUS
<1>2. DOMAIN (s \o t) = 1 .. Len(s) + Len(t)
  BY <1>1
<1>3. \A x \in 1 .. Len(s) + Len(t) :
        (s \o t)[x] = IF x <= Len(s) THEN s[x] ELSE t[x - Len(s)]
  OBVIOUS
<1> QED
  BY <1>1, <1>2, <1>3

-----------------------------------------------------------------------------
(***************************************************************************)
(* The candles.  Each study's invariant names the number n of candles its  *)
(* loop has been over; a candle that arrives changes none of those.        *)
(***************************************************************************)
CandlesOK == candles \in Seq(Shapes) /\ bar \in 0 .. Len(candles)

Same(n) == \A b \in 1 .. n : candles'[b] = candles[b]

LEMMA PriceTypes ==
  ASSUME CandlesOK, NEW b \in 1 .. Len(candles)
  PROVE  /\ High(b) \in Int /\ Low(b) \in Int /\ Open(b) \in Int /\ Close(b) \in Int
         /\ Low(b) <= Open(b) /\ Open(b) <= High(b) /\ Low(b) <= Close(b) /\ Close(b) <= High(b)
         /\ \A s \in Sides : Level(s, b) \in Int
<1>1. candles[b] \in Shapes
  BY DEF CandlesOK
<1> QED
  BY <1>1, ShapesAreCandles DEF High, Low, Open, Close, Level

LEMMA PricesKept ==
  ASSUME NEW n \in Nat, Same(n), NEW b \in 1 .. n
  PROVE  /\ High(b)' = High(b) /\ Low(b)' = Low(b) /\ Open(b)' = Open(b) /\ Close(b)' = Close(b)
         /\ BodyTop(b)' = BodyTop(b) /\ BodyBottom(b)' = BodyBottom(b) /\ Body(b)' = Body(b)
         /\ Rises(b)' = Rises(b) /\ Falls(b)' = Falls(b)
         /\ \A s \in Sides : Level(s, b)' = Level(s, b)
<1>1. candles'[b] = candles[b]
  BY DEF Same
<1> QED
  BY <1>1 DEF High, Low, Open, Close, BodyTop, BodyBottom, Body, Rises, Falls, Level

LEMMA ArriveGrows ==
  ASSUME CandlesOK, NEW s \in Shapes, Arrive(s), NEW n \in Nat, n = bar
  PROVE  CandlesOK' /\ bar' = n /\ n <= Len(candles) /\ Same(n)
BY DEF CandlesOK, Arrive, Same

LEMMA TurnMoves ==
  ASSUME CandlesOK, Turn, NEW n \in Nat, n = bar
  PROVE  CandlesOK' /\ bar' = n + 1 /\ n + 1 <= Len(candles) /\ Same(n + 1)
BY DEF CandlesOK, Turn, Same

LEMMA MaxOfTwo ==
  ASSUME NEW x \in Int, NEW y \in Int
  PROVE  /\ Max({x, y}) = (IF x >= y THEN x ELSE y)
         /\ Min({x, y}) = (IF x <= y THEN x ELSE y)
<1>1. CASE x >= y
  BY <1>1, MaxIs, MinIs
<1>2. CASE ~(x >= y)
  BY <1>2, MaxIs, MinIs
<1> QED
  BY <1>1, <1>2

LEMMA FirstOfNext ==
  ASSUME NEW n \in Nat, NEW m \in 1 .. n + 1, NEW H \in SUBSET Nat
  PROVE  FirstOf(H \cap (m .. n + 1)) =
           IF FirstOf(H \cap (m .. n)) = 0 /\ n + 1 \in H THEN n + 1 ELSE FirstOf(H \cap (m .. n))
<1> DEFINE S == H \cap (m .. n)
           T == H \cap {n + 1}
<1>1. S \in SUBSET (1 .. n) /\ T \in SUBSET {n + 1} /\ (T # {} <=> n + 1 \in H)
  OBVIOUS
<1>2. H \cap (m .. n + 1) = S \cup T
  OBVIOUS
<1> HIDE DEF S, T
<1>3. FirstOf(S \cup T) = IF FirstOf(S) = 0 /\ T # {} THEN n + 1 ELSE FirstOf(S)
  BY <1>1, FirstOfStep
<1> QED
  BY <1>1, <1>2, <1>3 DEF S

-----------------------------------------------------------------------------
(***************************************************************************)
(* IctConcepts.  Every zone in the lists is what the candles so far say of *)
(* it, whenever it was made.                                               *)
(***************************************************************************)
SwingSet(n) == [side : Sides, at : 1 .. n]
LineSet(n) == [tag : {"BOS", "MSS"}, side : Sides, from : 1 .. n, to : 1 .. n]

ObSet(n, m) ==
  {o \in [side : Sides, at : 1 .. m, made : 1 .. m, brokenAt : 0 .. n] :
     o.brokenAt = FirstOf({j \in o.made .. n : BodyPasses(o, j)})}

FvgSet(n, m) ==
  {f \in [side : Sides, at : 3 .. m, hitAt : 0 .. n] :
     f.hitAt = FirstOf({j \in f.at .. n : Hits(f, j)})}

PoolSet(n, m) ==
  {p \in [side : Sides, from : 1 .. m, far : Int, made : 1 .. m, broken : BOOLEAN] :
     p.broken <=> \E j \in p.made .. n : ClosesPast(p, j)}

\* The swings are listed newest first.
Listed(list, b) ==
  /\ ToSet(list) = SwingsBy(b)
  /\ \A x, y \in DOMAIN list : x < y => Newer(list[x], list[y])

\* The side of the last passage, if there is one.
Turned(t, P) ==
  \A s \in Sides : t = s <=> \E q \in P : q.side = s /\ \A r \in P : r.to <= q.to

Drawn(P) == {LineFor(p) : p \in {q \in P : FirstOfLevel(q)}}

\* Every level passed has its line: the filter drops none that is not there.
LinesOf(list, P) ==
  /\ ToSet(list) = Drawn(P)
  /\ \A x, y \in DOMAIN list : x < y => list[x].to < list[y].to
  /\ \A q \in P : \E x \in DOMAIN list :
       list[x].side = q.side /\ Level(q.side, list[x].from) = Level(q.side, q.from)

IctInv(n) ==
  /\ zz \in Seq(SwingSet(n)) /\ Listed(zz, n)
  /\ Turned(trend, Passages(n))
  /\ lines \in Seq(LineSet(n)) /\ LinesOf(lines, Passages(n))
  /\ obs \in Seq(ObSet(n, n)) /\ pools \in Seq(PoolSet(n, n))
  /\ fvgs \in [Sides -> Seq(FvgSet(n, n))]

LEMMA BodyPassesKept ==
  ASSUME NEW n \in Nat, Same(n), NEW o, o.at \in 1 .. n, NEW j \in 1 .. n
  PROVE  BodyPasses(o, j)' = BodyPasses(o, j)
BY PricesKept DEF BodyPasses

LEMMA HitsKept ==
  ASSUME NEW n \in Nat, Same(n), NEW f, f.at \in 3 .. n, NEW j \in 1 .. n
  PROVE  Hits(f, j)' = Hits(f, j)
<1>1. f.at \in 1 .. n /\ f.at - 2 \in 1 .. n
  OBVIOUS
<1>2. Edges(f.side, f.at)' = Edges(f.side, f.at)
  BY <1>1, PricesKept DEF Edges
<1> QED
  BY <1>2, PricesKept DEF Hits, Top, Bottom

LEMMA WindowWithin ==
  ASSUME NEW n \in Nat, NEW b \in 1 .. n
  PROVE  BodyWindow(b) \subseteq 1 .. n
<1>1. Max({1, b - SwingBars}) \in Int /\ Max({1, b - SwingBars}) >= 1
  BY SwingBarsArePositive, MaxOfTwo
<1> QED
  BY <1>1 DEF BodyWindow

LEMMA BodySumKept ==
  ASSUME NEW n \in Nat, Same(n), NEW b \in 1 .. n
  PROVE  BodySum(b)' = BodySum(b)
<1> DEFINE W == BodyWindow(b)
           fst(s) == CHOOSE x \in s : TRUE
<1>1. \A s \in SUBSET W : s # {} => fst(s) \in 1 .. n
  BY WindowWithin
<1>2. \A s \in SUBSET W : s # {} => Body(fst(s))' = Body(fst(s))
  BY <1>1, PricesKept
<1>3. BodySum(b) = (CHOOSE g : g = [s \in SUBSET W |->
                      IF s = {} THEN 0 ELSE Body(fst(s)) + g[s \ {fst(s)}]])[W]
  BY DEF BodySum, MapThenSumSet, MapThenFoldSet
<1>4. BodySum(b)' = (CHOOSE g : g = [s \in SUBSET W |->
                      IF s = {} THEN 0 ELSE Body(fst(s))' + g[s \ {fst(s)}]])[W]
  BY DEF BodySum, MapThenSumSet, MapThenFoldSet, BodyWindow
<1> DEFINE old(g) == [s \in SUBSET W |-> IF s = {} THEN 0 ELSE Body(fst(s)) + g[s \ {fst(s)}]]
           new(g) == [s \in SUBSET W |-> IF s = {} THEN 0 ELSE Body(fst(s))' + g[s \ {fst(s)}]]
<1>5. \A g : old(g) = new(g)
  BY <1>2
<1>6. (CHOOSE g : g = old(g)) = (CHOOSE g : g = new(g))
  <2> HIDE DEF old, new
  <2> QED
    BY <1>5
<1> QED
  BY <1>3, <1>4, <1>6

LEMMA ClosesPastKept ==
  ASSUME NEW n \in Nat, Same(n), NEW p, p.made \in 1 .. n, NEW j \in 1 .. n
  PROVE  ClosesPast(p, j)' = ClosesPast(p, j)
<1>1. BodySum(p.made)' = BodySum(p.made)
  BY BodySumKept
<1>2. BodyCount(p.made)' = BodyCount(p.made)
  BY DEF BodyCount, BodyWindow
<1> QED
  BY <1>1, <1>2, PricesKept DEF ClosesPast, PastMargin

LEMMA IctSetsKept ==
  ASSUME NEW n \in Nat, Same(n)
  PROVE  /\ ObSet(n, n)' = ObSet(n, n) /\ FvgSet(n, n)' = FvgSet(n, n)
         /\ PoolSet(n, n)' = PoolSet(n, n)
<1>1. ObSet(n, n)' = ObSet(n, n)
  <2>1. \A o \in [side : Sides, at : 1 .. n, made : 1 .. n, brokenAt : 0 .. n] :
          {j \in o.made .. n : BodyPasses(o, j)}' = {j \in o.made .. n : BodyPasses(o, j)}
    BY BodyPassesKept
  <2> QED
    BY <2>1 DEF ObSet, Sides, FirstOf
<1>2. FvgSet(n, n)' = FvgSet(n, n)
  <2>1. \A f \in [side : Sides, at : 3 .. n, hitAt : 0 .. n] :
          {j \in f.at .. n : Hits(f, j)}' = {j \in f.at .. n : Hits(f, j)}
    BY HitsKept
  <2> QED
    BY <2>1 DEF FvgSet, Sides, FirstOf
<1>3. PoolSet(n, n)' = PoolSet(n, n)
  <2>1. \A p \in [side : Sides, from : 1 .. n, far : Int, made : 1 .. n, broken : BOOLEAN] :
          \A j \in p.made .. n : ClosesPast(p, j)' = ClosesPast(p, j)
    BY ClosesPastKept
  <2> QED
    BY <2>1 DEF PoolSet, Sides
<1> QED
  BY <1>1, <1>2, <1>3

LEMMA SwingsKept ==
  ASSUME NEW n \in Nat, Same(n), NEW b \in 0 .. n
  PROVE  SwingsBy(b)' = SwingsBy(b)
<1>1. \A s \in Sides : \A c \in 1 .. n : IsSwing(s, c)' = IsSwing(s, c)
  <2> SUFFICES ASSUME NEW s \in Sides, NEW c \in 1 .. n
               PROVE  IsSwing(s, c)' = IsSwing(s, c)
    OBVIOUS
  <2>1. SwingBars \in Nat \ {0}
    BY SwingBarsArePositive
  <2>2. CASE c > 2 * SwingBars
    <3> DEFINE p == c - SwingBars
    <3>1. p \in 1 .. n /\ (p - SwingBars .. c) \subseteq 1 .. n
      BY <2>1, <2>2
    <3>2. \A j \in p - SwingBars .. c : Level(s, j)' = Level(s, j)
      BY <3>1, PricesKept
    <3>3. Level(s, p)' = Level(s, p)
      BY <3>1, PricesKept
    <3> QED
      BY <3>2, <3>3 DEF IsSwing
  <2>3. CASE ~(c > 2 * SwingBars)
    BY <2>3 DEF IsSwing
  <2> QED
    BY <2>2, <2>3
<1>2. \A w \in [side : Sides, at : 1 .. b] : w.at + SwingBars <= b => w.at + SwingBars \in 1 .. n
  BY SwingBarsArePositive
<1> QED
  BY <1>1, <1>2 DEF SwingsBy, Sides

LEMMA PassagesKept ==
  ASSUME NEW n \in Nat, Same(n), NEW b \in 0 .. n
  PROVE  Passages(b)' = Passages(b)
<1>1. \A p \in [side : Sides, from : 1 .. b, to : 1 .. b] : IsPassage(p)' = IsPassage(p)
  <2> SUFFICES ASSUME NEW p \in [side : Sides, from : 1 .. b, to : 1 .. b]
               PROVE  IsPassage(p)' = IsPassage(p)
    OBVIOUS
  <2>1. p.side \in Sides /\ p.from \in 1 .. n /\ p.to \in 1 .. n /\ p.to \in 0 .. n
    OBVIOUS
  <2>2. SwingsBy(p.to)' = SwingsBy(p.to)
    BY <2>1, SwingsKept
  <2>3. Close(p.to)' = Close(p.to) /\ Level(p.side, p.from)' = Level(p.side, p.from)
    BY <2>1, PricesKept
  <2> QED
    BY <2>2, <2>3 DEF IsPassage
<1> QED
  BY <1>1 DEF Passages, Sides

LEMMA PassageIn ==
  ASSUME NEW b \in Nat, NEW p \in Passages(b)
  PROVE  /\ p = [side |-> p.side, from |-> p.from, to |-> p.to]
         /\ p.side \in Sides /\ p.from \in 1 .. b /\ p.to \in 1 .. b /\ IsPassage(p)
         /\ p.from + SwingBars <= p.to /\ p.to - 1 \in Nat
<1>1. p \in [side : Sides, from : 1 .. b, to : 1 .. b] /\ IsPassage(p)
  BY DEF Passages
<1>2. p.from + SwingBars <= p.to
  <2> DEFINE w == [side |-> p.side, at |-> p.from]
  <2>1. w \in SwingsBy(p.to) /\ w.at = p.from
    BY <1>1 DEF IsPassage
  <2> QED
    BY <2>1 DEF SwingsBy
<1> QED
  BY <1>1, <1>2

LEMMA LineKept ==
  ASSUME NEW n \in Nat, Same(n), NEW p \in Passages(n)
  PROVE  LineFor(p)' = LineFor(p) /\ FirstOfLevel(p)' = FirstOfLevel(p)
<1>1. p.side \in Sides /\ p.from \in 1 .. n /\ p.to - 1 \in 0 .. n /\ p.to - 1 \in Nat
  BY PassageIn
<1>2. Passages(p.to - 1)' = Passages(p.to - 1)
  BY <1>1, PassagesKept
<1>3. \A q \in Passages(p.to - 1) : Level(q.side, q.from)' = Level(q.side, q.from)
  <2> SUFFICES ASSUME NEW q \in Passages(p.to - 1)
               PROVE  Level(q.side, q.from)' = Level(q.side, q.from)
    OBVIOUS
  <2>1. q.side \in Sides /\ q.from \in 1 .. p.to - 1
    BY <1>1, PassageIn
  <2>2. q.from \in 1 .. n
    BY <1>1, <2>1
  <2> QED
    BY <2>1, <2>2, PricesKept
<1>4. Level(p.side, p.from)' = Level(p.side, p.from)
  BY <1>1, PricesKept
<1> QED
  BY <1>2, <1>3, <1>4 DEF LineFor, FirstOfLevel

\* The candles that arrive change nothing of what the passages so far have drawn.
LEMMA LinesKept ==
  ASSUME NEW n \in Nat, Same(n), NEW A \in Seq(LineSet(n)), LinesOf(A, Passages(n)),
         lines' = A
  PROVE  LinesOf(lines, Passages(n))'
<1> DEFINE P == Passages(n)
<1>1. P' = P
  BY PassagesKept
<1>2. Drawn(P)' = Drawn(P)
  BY <1>1, LineKept DEF Drawn
<1>3. \A q \in P : \A x \in DOMAIN A : A[x].side = q.side =>
        /\ Level(q.side, q.from)' = Level(q.side, q.from)
        /\ Level(q.side, A[x].from)' = Level(q.side, A[x].from)
  <2> SUFFICES ASSUME NEW q \in P, NEW x \in DOMAIN A
               PROVE  /\ Level(q.side, q.from)' = Level(q.side, q.from)
                      /\ Level(q.side, A[x].from)' = Level(q.side, A[x].from)
    OBVIOUS
  <2>1. q.side \in Sides /\ q.from \in 1 .. n
    BY PassageIn
  <2>2. A[x] \in LineSet(n)
    OBVIOUS
  <2>3. A[x].from \in 1 .. n
    BY <2>2 DEF LineSet
  <2> QED
    BY <2>1, <2>3, PricesKept
<1>4. /\ ToSet(A) = Drawn(P)
      /\ \A x, y \in DOMAIN A : x < y => A[x].to < A[y].to
      /\ \A q \in P : \E x \in DOMAIN A :
           A[x].side = q.side /\ Level(q.side, A[x].from) = Level(q.side, q.from)
  BY DEF LinesOf
<1> HIDE DEF P
<1>5. /\ ToSet(A) = Drawn(P)'
      /\ \A q \in P' : \E x \in DOMAIN A :
           A[x].side = q.side /\ Level(q.side, A[x].from)' = Level(q.side, q.from)'
  BY <1>1, <1>2, <1>3, <1>4
<1> QED
  BY <1>4, <1>5 DEF LinesOf, P, ToSet

LEMMA IctFed ==
  ASSUME NEW n \in Nat, Same(n), IctInv(n), UNCHANGED ictVars
  PROVE  IctInv(n)'
<1>1. LinesOf(lines, Passages(n))'
  <2>1. lines' = lines /\ lines \in Seq(LineSet(n)) /\ LinesOf(lines, Passages(n))
    BY DEF IctInv, ictVars
  <2> QED
    BY <2>1, LinesKept
<1>2. SwingSet(n)' = SwingSet(n) /\ LineSet(n)' = LineSet(n) /\ Sides' = Sides
  BY DEF SwingSet, LineSet, Sides
<1>3. Listed(zz, n)' /\ Turned(trend, Passages(n))'
  <2>1. SwingsBy(n)' = SwingsBy(n) /\ Passages(n)' = Passages(n)
    BY SwingsKept, PassagesKept
  <2>2. zz' = zz /\ trend' = trend /\ Listed(zz, n) /\ Turned(trend, Passages(n))
    BY DEF IctInv, ictVars
  <2> QED
    BY <2>1, <2>2 DEF Listed, Turned, ToSet, Newer, Sides
<1> QED
  BY <1>1, <1>2, <1>3, IctSetsKept DEF IctInv, ictVars

SwingAt(s, b) == IF IsSwing(s, b) THEN << [side |-> s, at |-> b - SwingBars] >> ELSE <<>>

LEMMA NewSwingsAre ==
  ASSUME NEW b PROVE NewSwings(b) = SwingAt("bearish", b) \o SwingAt("bullish", b)
BY DEF NewSwings, SwingAt

LEMMA SwingAtIn ==
  ASSUME NEW b \in Nat, NEW s \in Sides PROVE SwingAt(s, b) \in Seq(SwingSet(b))
<1>1. CASE IsSwing(s, b)
  <2>1. SwingBars \in Nat \ {0} /\ b > 2 * SwingBars
    BY <1>1, SwingBarsArePositive DEF IsSwing
  <2>2. b - SwingBars \in 1 .. b
    BY <2>1
  <2> DEFINE new == [side |-> s, at |-> b - SwingBars]
  <2>3. new \in SwingSet(b)
    BY <2>2 DEF SwingSet
  <2>4. SwingAt(s, b) = << new >>
    BY <1>1 DEF SwingAt
  <2> HIDE DEF new
  <2> QED
    BY <2>3, <2>4, Singletons
<1>2. CASE ~IsSwing(s, b)
  BY <1>2, Singletons DEF SwingAt
<1> QED
  BY <1>1, <1>2

LEMMA NewSwingsIn ==
  ASSUME NEW n \in Nat
  PROVE  NewSwings(n + 1) \in Seq(SwingSet(n + 1))
<1>2. SwingAt("bearish", n + 1) \in Seq(SwingSet(n + 1))
      /\ SwingAt("bullish", n + 1) \in Seq(SwingSet(n + 1))
  BY SwingAtIn DEF Sides
<1> QED
  BY <1>2, NewSwingsAre, ArrayParts

LEMMA SwingsTurned ==
  ASSUME NEW n \in Nat, zz \in Seq(SwingSet(n))
  PROVE  NewSwings(n + 1) \o zz \in Seq(SwingSet(n + 1))
<1>1. SwingSet(n) \subseteq SwingSet(n + 1)
  BY DEF SwingSet
<1>2. zz \in Seq(SwingSet(n + 1))
  BY <1>1, ArrayIn
<1> QED
  BY <1>2, NewSwingsIn

LEMMA ObBroken ==
  ASSUME NEW n \in Nat, NEW o \in ObSet(n, n + 1)
  PROVE  (IF o.brokenAt = 0 /\ BodyPasses(o, n + 1) THEN [o EXCEPT !.brokenAt = n + 1] ELSE o)
           \in ObSet(n + 1, n + 1)
<1> DEFINE H == {j \in 1 .. n + 1 : BodyPasses(o, j)}
           p == IF o.brokenAt = 0 /\ BodyPasses(o, n + 1) THEN [o EXCEPT !.brokenAt = n + 1] ELSE o
<1>1. /\ o \in [side : Sides, at : 1 .. n + 1, made : 1 .. n + 1, brokenAt : 0 .. n]
      /\ o.brokenAt = FirstOf({j \in o.made .. n : BodyPasses(o, j)})
  BY DEF ObSet
<1>2. /\ {j \in o.made .. n : BodyPasses(o, j)} = H \cap (o.made .. n)
      /\ {j \in o.made .. n + 1 : BodyPasses(o, j)} = H \cap (o.made .. n + 1)
      /\ (n + 1 \in H <=> BodyPasses(o, n + 1)) /\ H \in SUBSET Nat
  BY <1>1
<1>3. p \in [side : Sides, at : 1 .. n + 1, made : 1 .. n + 1, brokenAt : 0 .. n + 1]
  BY <1>1
<1>4. p.side = o.side /\ p.at = o.at /\ p.made = o.made
      /\ p.brokenAt = IF o.brokenAt = 0 /\ BodyPasses(o, n + 1) THEN n + 1 ELSE o.brokenAt
  BY <1>1
<1>5. \A j : BodyPasses(p, j) = BodyPasses(o, j)
  <2> HIDE DEF p
  <2> QED
    BY <1>4 DEF BodyPasses
<1> HIDE DEF p, H
<1>6. FirstOf(H \cap (o.made .. n + 1)) = p.brokenAt
  BY <1>1, <1>2, <1>4, FirstOfNext
<1>7. {j \in p.made .. n + 1 : BodyPasses(p, j)} = H \cap (o.made .. n + 1)
  BY <1>2, <1>4, <1>5
<1>8. p \in ObSet(n + 1, n + 1)
  BY <1>3, <1>6, <1>7 DEF ObSet
<1> QED
  BY <1>8 DEF p

LEMMA ObsTurned ==
  ASSUME NEW n \in Nat, zz \in Seq(SwingSet(n)), obs \in Seq(ObSet(n, n))
  PROVE  Broken(NewObs(n + 1) \o obs, n + 1) \in Seq(ObSet(n + 1, n + 1))
<1> DEFINE new == NewSwings(n + 1)
           list == NewObs(n + 1) \o obs
<1>1. NewObs(n + 1) \in Seq(ObSet(n, n + 1))
  <2>1. new \in Seq(SwingSet(n + 1))
    BY NewSwingsIn
  <2>2. FirstOf({}) = 0
    BY DEF FirstOf
  <2>3. \A x \in DOMAIN new :
          [side |-> Opposite(new[x].side), at |-> new[x].at, made |-> n + 1, brokenAt |-> 0]
            \in ObSet(n, n + 1)
    <3> SUFFICES ASSUME NEW x \in DOMAIN new
                 PROVE  [side |-> Opposite(new[x].side), at |-> new[x].at,
                         made |-> n + 1, brokenAt |-> 0] \in ObSet(n, n + 1)
      OBVIOUS
    <3> DEFINE o == [side |-> Opposite(new[x].side), at |-> new[x].at,
                     made |-> n + 1, brokenAt |-> 0]
    <3>1. new[x] \in SwingSet(n + 1)
      BY <2>1
    <3>2. Opposite(new[x].side) \in Sides /\ new[x].at \in 1 .. n + 1
      BY <3>1 DEF SwingSet, Opposite, Sides
    <3>3. o \in [side : Sides, at : 1 .. n + 1, made : 1 .. n + 1, brokenAt : 0 .. n]
      BY <3>2
    <3>4. {j \in o.made .. n : BodyPasses(o, j)} = {} /\ o.brokenAt = 0
      OBVIOUS
    <3> HIDE DEF o
    <3>5. o \in ObSet(n, n + 1)
      BY <2>2, <3>3, <3>4 DEF ObSet
    <3> QED
      BY <3>5 DEF o
  <2>4. DOMAIN new = 1 .. Len(new) /\ Len(new) \in Nat
    BY <2>1
  <2>5. NewObs(n + 1) \in [1 .. Len(new) -> ObSet(n, n + 1)]
    BY <2>3, <2>4 DEF NewObs
  <2> QED
    BY <2>4, <2>5, ArrayOf
<1>2. obs \in Seq(ObSet(n, n + 1))
  <2>1. ObSet(n, n) \subseteq ObSet(n, n + 1)
    BY DEF ObSet
  <2> QED
    BY <2>1, ArrayIn
<1>3. list \in Seq(ObSet(n, n + 1))
  BY <1>1, <1>2
<1> HIDE DEF list
<1>4. Broken(list, n + 1) \in [1 .. Len(list) -> ObSet(n + 1, n + 1)]
  <2>1. DOMAIN list = 1 .. Len(list)
    BY <1>3
  <2>2. \A x \in DOMAIN list :
          (IF list[x].brokenAt = 0 /\ BodyPasses(list[x], n + 1)
           THEN [list[x] EXCEPT !.brokenAt = n + 1] ELSE list[x]) \in ObSet(n + 1, n + 1)
    BY <1>3, ObBroken
  <2> QED
    BY <2>1, <2>2 DEF Broken
<1>5. Broken(list, n + 1) \in Seq(ObSet(n + 1, n + 1))
  <2>1. Len(list) \in Nat
    BY <1>3
  <2> QED
    BY <1>4, <2>1, ArrayOf
<1> QED
  BY <1>5 DEF list

LEMMA FvgHit ==
  ASSUME NEW n \in Nat, NEW f \in FvgSet(n, n + 1)
  PROVE  (IF f.hitAt = 0 /\ Hits(f, n + 1) THEN [f EXCEPT !.hitAt = n + 1] ELSE f)
           \in FvgSet(n + 1, n + 1)
<1> DEFINE H == {j \in 1 .. n + 1 : Hits(f, j)}
           p == IF f.hitAt = 0 /\ Hits(f, n + 1) THEN [f EXCEPT !.hitAt = n + 1] ELSE f
<1>1. /\ f \in [side : Sides, at : 3 .. n + 1, hitAt : 0 .. n]
      /\ f.hitAt = FirstOf({j \in f.at .. n : Hits(f, j)})
  BY DEF FvgSet
<1>2. /\ {j \in f.at .. n : Hits(f, j)} = H \cap (f.at .. n)
      /\ {j \in f.at .. n + 1 : Hits(f, j)} = H \cap (f.at .. n + 1)
      /\ (n + 1 \in H <=> Hits(f, n + 1)) /\ H \in SUBSET Nat /\ f.at \in 1 .. n + 1
  BY <1>1
<1>3. p \in [side : Sides, at : 3 .. n + 1, hitAt : 0 .. n + 1]
  BY <1>1
<1>4. p.side = f.side /\ p.at = f.at
      /\ p.hitAt = IF f.hitAt = 0 /\ Hits(f, n + 1) THEN n + 1 ELSE f.hitAt
  BY <1>1
<1>5. \A j : Hits(p, j) = Hits(f, j)
  <2> HIDE DEF p
  <2> QED
    BY <1>4 DEF Hits, Top, Bottom
<1> HIDE DEF p, H
<1>6. FirstOf(H \cap (f.at .. n + 1)) = p.hitAt
  BY <1>1, <1>2, <1>4, FirstOfNext
<1>7. {j \in p.at .. n + 1 : Hits(p, j)} = H \cap (f.at .. n + 1)
  BY <1>2, <1>4, <1>5
<1>8. p \in FvgSet(n + 1, n + 1)
  BY <1>3, <1>6, <1>7 DEF FvgSet
<1> QED
  BY <1>8 DEF p

LEMMA FvgsTurned ==
  ASSUME NEW n \in Nat, fvgs \in [Sides -> Seq(FvgSet(n, n))], NEW s \in Sides
  PROVE  NewFvgs(s, n + 1) \in Seq(FvgSet(n + 1, n + 1))
<1> DEFINE new == [side |-> s, at |-> n + 1, hitAt |-> 0]
           formed == IF IsFvg(s, n + 1) THEN << new >> ELSE <<>>
           list == formed \o fvgs[s]
<1>1. formed \in Seq(FvgSet(n, n + 1))
  <2> SUFFICES ASSUME IsFvg(s, n + 1) PROVE new \in FvgSet(n, n + 1)
    <3> HIDE DEF new
    <3> QED
      BY Singletons
  <2>1. n + 1 \in 3 .. n + 1
    BY DEF IsFvg
  <2>2. new \in [side : Sides, at : 3 .. n + 1, hitAt : 0 .. n]
    BY <2>1
  <2>3. {j \in new.at .. n : Hits(new, j)} = {} /\ new.hitAt = 0
    OBVIOUS
  <2> HIDE DEF new
  <2> QED
    BY <2>2, <2>3 DEF FvgSet, FirstOf
<1>2. fvgs[s] \in Seq(FvgSet(n, n + 1))
  <2>1. FvgSet(n, n) \subseteq FvgSet(n, n + 1)
    BY DEF FvgSet
  <2> QED
    BY <2>1, ArrayIn
<1>3. list \in Seq(FvgSet(n, n + 1))
  <2> HIDE DEF formed
  <2> QED
    BY <1>1, <1>2
<1>4. NewFvgs(s, n + 1) = [x \in DOMAIN list |-> IF list[x].hitAt = 0 /\ Hits(list[x], n + 1)
                                THEN [list[x] EXCEPT !.hitAt = n + 1] ELSE list[x]]
  BY DEF NewFvgs
<1> HIDE DEF list
<1>5. NewFvgs(s, n + 1) \in [1 .. Len(list) -> FvgSet(n + 1, n + 1)]
  <2>1. DOMAIN list = 1 .. Len(list)
    BY <1>3
  <2>2. \A x \in DOMAIN list :
          (IF list[x].hitAt = 0 /\ Hits(list[x], n + 1)
           THEN [list[x] EXCEPT !.hitAt = n + 1] ELSE list[x]) \in FvgSet(n + 1, n + 1)
    BY <1>3, FvgHit
  <2> QED
    BY <1>4, <2>1, <2>2
<1> QED
  BY <1>3, <1>5, ArrayOf

LEMMA PoolSwept ==
  ASSUME NEW n \in Nat, NEW p \in PoolSet(n, n + 1)
  PROVE  [p EXCEPT !.broken = @ \/ ClosesPast(p, n + 1)] \in PoolSet(n + 1, n + 1)
<1> DEFINE q == [p EXCEPT !.broken = @ \/ ClosesPast(p, n + 1)]
<1>1. /\ p \in [side : Sides, from : 1 .. n + 1, far : Int, made : 1 .. n + 1, broken : BOOLEAN]
      /\ p.broken <=> \E j \in p.made .. n : ClosesPast(p, j)
  BY DEF PoolSet
<1>2. (p.broken \/ ClosesPast(p, n + 1)) \in BOOLEAN
  BY <1>1 DEF ClosesPast, PastMargin
<1>3. q \in [side : Sides, from : 1 .. n + 1, far : Int, made : 1 .. n + 1, broken : BOOLEAN]
  BY <1>1, <1>2
<1>4. q.side = p.side /\ q.far = p.far /\ q.made = p.made
      /\ (q.broken <=> p.broken \/ ClosesPast(p, n + 1))
  BY <1>1
<1> HIDE DEF q
<1>5. \A j : ClosesPast(q, j) <=> ClosesPast(p, j)
  BY <1>4 DEF ClosesPast
<1>6. (\E j \in p.made .. n + 1 : ClosesPast(p, j)) <=>
        (\E j \in p.made .. n : ClosesPast(p, j)) \/ ClosesPast(p, n + 1)
  <2>1. n + 1 \in p.made .. n + 1 /\ \A j \in p.made .. n + 1 : j \in p.made .. n \/ j = n + 1
    BY <1>1
  <2>2. \A j \in p.made .. n : j \in p.made .. n + 1
    BY <1>1
  <2> QED
    BY <2>1, <2>2
<1>7. q.broken <=> \E j \in q.made .. n + 1 : ClosesPast(q, j)
  BY <1>1, <1>4, <1>5, <1>6
<1>8. q \in PoolSet(n + 1, n + 1)
  BY <1>3, <1>7 DEF PoolSet
<1> QED
  BY <1>8 DEF q

LEMMA PoolMatesIn ==
  ASSUME NEW n \in Nat, NEW swings \in Seq(SwingSet(n)), NEW s, NEW b
  PROVE  /\ PoolMates(swings, s, b) \subseteq 2 .. Len(swings)
         /\ \A x \in PoolMates(swings, s, b) : swings[x].side = s
<1>1. Min({Len(swings), PoolReach}) \in Int /\ Min({Len(swings), PoolReach}) <= Len(swings)
  <2>1. Len(swings) \in Int /\ PoolReach \in Int
    BY SwingBarsArePositive
  <2> DEFINE l == Len(swings)
  <2> HIDE DEF l
  <2>2. Min({l, PoolReach}) = IF l <= PoolReach THEN l ELSE PoolReach
    BY <2>1, MaxOfTwo DEF l
  <2> QED
    BY <2>1, <2>2 DEF l
<1> HIDE DEF Min
<1>2. \A x \in 2 .. Min({Len(swings), PoolReach}) : x \in 2 .. Len(swings)
  BY <1>1
<1> QED
  BY <1>2 DEF PoolMates

LEMMA NewPoolIn ==
  ASSUME CandlesOK, NEW n \in Nat, n + 1 <= Len(candles), NEW s \in Sides,
         NEW swings \in Seq(SwingSet(n + 1)), NEW b, b = n + 1
  PROVE  NewPool(swings, s, b) \in Seq(PoolSet(n, n + 1))
<1> DEFINE mates == PoolMates(swings, s, b)
           prices == {Level(s, swings[x].at) : x \in mates} \cup {Level(s, b - SwingBars)}
           new == [side |-> s, from |-> swings[Max(mates)].at,
                   far |-> IF s = "bullish" THEN Max(prices) ELSE Min(prices),
                   made |-> b, broken |-> FALSE]
           formed == IsSwing(s, b) /\ Len(swings) > 1 /\ mates # {}
<1>1. ASSUME formed PROVE new \in PoolSet(n, n + 1)
  <2>1. mates \subseteq 2 .. Len(swings) /\ mates # {}
    BY <1>1, PoolMatesIn
  <2>2. SwingBars \in Nat \ {0} /\ b > 2 * SwingBars
    BY <1>1, SwingBarsArePositive DEF IsSwing
  <2>3. b - SwingBars \in 1 .. Len(candles)
    BY <2>2 DEF CandlesOK
  <2>4. \A x \in mates : swings[x] \in SwingSet(n + 1)
    BY <2>1
  <2>5. \A x \in mates : swings[x].at \in 1 .. n + 1 /\ swings[x].at \in 1 .. Len(candles)
    BY <2>4 DEF SwingSet, CandlesOK
  <2>6. Max(mates) \in mates
    <3>1. Len(swings) \in Int /\ 2 \in Int
      OBVIOUS
    <3> HIDE DEF mates
    <3> QED
      BY <2>1, <3>1, SpanExtremes
  <2> HIDE DEF mates
  <2>7. prices \in SUBSET Int /\ prices # {} /\ IsFiniteSet(prices)
    <3> DEFINE D == {Level(s, swings[x].at) : x \in mates}
               level == [x \in mates |-> Level(s, swings[x].at)]
    <3>1. D \in SUBSET Int /\ Level(s, b - SwingBars) \in Int
      BY <2>3, <2>5, PriceTypes
    <3>2. level \in Surjection(mates, D)
      BY DEF Surjection
    <3>3. IsFiniteSet(mates)
      <4>1. Len(swings) \in Int /\ 2 \in Int
        OBVIOUS
      <4> QED
        BY <2>1, <4>1, FS_Interval, FS_Subset
    <3>4. IsFiniteSet(D)
      BY <3>2, <3>3, FS_Surjection
    <3> HIDE DEF D
    <3> QED
      BY <3>1, <3>4, FS_AddElement DEF D
  <2>8. Max(prices) \in Int /\ Min(prices) \in Int
    <3> HIDE DEF prices
    <3> QED
      BY <2>7, HasExtremes
  <2> HIDE DEF prices
  <2>9. new \in [side : Sides, from : 1 .. n + 1, far : Int, made : 1 .. n + 1, broken : BOOLEAN]
    BY <2>5, <2>6, <2>8
  <2>10. new.made .. n = {} /\ new.broken = FALSE
    OBVIOUS
  <2> HIDE DEF new
  <2> QED
    BY <2>9, <2>10 DEF PoolSet
<1>2. NewPool(swings, s, b) = IF formed THEN << new >> ELSE <<>>
  BY DEF NewPool
<1> HIDE DEF new, formed
<1> QED
  BY <1>1, <1>2, Singletons

LEMMA PoolsTurned ==
  ASSUME CandlesOK, NEW n \in Nat, n + 1 <= Len(candles), pools \in Seq(PoolSet(n, n)),
         NEW swings \in Seq(SwingSet(n + 1))
  PROVE  Swept(NewPool(swings, "bearish", n + 1) \o NewPool(swings, "bullish", n + 1) \o pools,
               n + 1) \in Seq(PoolSet(n + 1, n + 1))
<1> DEFINE up == NewPool(swings, "bullish", n + 1)
           down == NewPool(swings, "bearish", n + 1)
           list == down \o up \o pools
<1>1. up \in Seq(PoolSet(n, n + 1)) /\ down \in Seq(PoolSet(n, n + 1))
  BY NewPoolIn DEF Sides
<1>2. pools \in Seq(PoolSet(n, n + 1))
  <2>1. PoolSet(n, n) \subseteq PoolSet(n, n + 1)
    BY DEF PoolSet
  <2> QED
    BY <2>1, ArrayIn
<1>3. list \in Seq(PoolSet(n, n + 1))
  <2> HIDE DEF up, down
  <2> QED
    BY <1>1, <1>2
<1> HIDE DEF list
<1>4. DOMAIN list = 1 .. Len(list) /\ Len(list) \in Nat
  BY <1>3
<1>5. \A x \in DOMAIN list :
        [list[x] EXCEPT !.broken = @ \/ ClosesPast(list[x], n + 1)] \in PoolSet(n + 1, n + 1)
  BY <1>3, PoolSwept
<1>6. Swept(list, n + 1) \in [1 .. Len(list) -> PoolSet(n + 1, n + 1)]
  BY <1>4, <1>5 DEF Swept
<1>7. Swept(list, n + 1) \in Seq(PoolSet(n + 1, n + 1))
  BY <1>4, <1>6, ArrayOf
<1> QED
  BY <1>7 DEF list

\* What a candle adds to the swings, in the order of the code, keeps them newest first.
LEMMA SwingInFront ==
  ASSUME NEW n \in Nat, NEW B, NEW list \in Seq(B), NEW w \in B,
         \A x, y \in DOMAIN list : x < y => Newer(list[x], list[y]),
         \A v \in ToSet(list) : Newer(w, v)
  PROVE  /\ ToSet(<<w>> \o list) = {w} \cup ToSet(list)
         /\ \A x, y \in DOMAIN (<<w>> \o list) :
              x < y => Newer((<<w>> \o list)[x], (<<w>> \o list)[y])
<1> DEFINE r == <<w>> \o list
<1>1. /\ Len(list) \in Nat /\ DOMAIN list = 1 .. Len(list) /\ DOMAIN r = 1 .. Len(list) + 1
      /\ r[1] = w /\ \A x \in 2 .. Len(list) + 1 : r[x] = list[x - 1]
  <2>1. <<w>> \in Seq(B) /\ Len(<<w>>) = 1 /\ <<w>>[1] = w
    OBVIOUS
  <2>2. Len(list) \in Nat /\ DOMAIN list = 1 .. Len(list) /\ DOMAIN r = 1 .. 1 + Len(list)
        /\ \A x \in 1 .. 1 + Len(list) : r[x] = IF x <= 1 THEN <<w>>[x] ELSE list[x - 1]
    BY <2>1, ArrayParts
  <2> QED
    BY <2>1, <2>2
<1> HIDE DEF r
<1>2. ToSet(r) = {w} \cup ToSet(list)
  <2>1. \A x \in DOMAIN r : r[x] \in {w} \cup ToSet(list)
    <3> SUFFICES ASSUME NEW x \in DOMAIN r PROVE r[x] \in {w} \cup ToSet(list)
      OBVIOUS
    <3>1. CASE x = 1
      BY <1>1, <3>1
    <3>2. CASE x # 1
      <4>1. x - 1 \in DOMAIN list /\ r[x] = list[x - 1]
        BY <1>1, <3>2
      <4> QED
        BY <4>1 DEF ToSet
    <3> QED
      BY <3>1, <3>2
  <2>2. \A x \in DOMAIN list : list[x] = r[x + 1] /\ x + 1 \in DOMAIN r
    BY <1>1
  <2>3. w = r[1] /\ 1 \in DOMAIN r
    BY <1>1
  <2> QED
    BY <2>1, <2>2, <2>3 DEF ToSet
<1>3. \A x, y \in DOMAIN r : x < y => Newer(r[x], r[y])
  <2> SUFFICES ASSUME NEW x \in DOMAIN r, NEW y \in DOMAIN r, x < y
               PROVE  Newer(r[x], r[y])
    OBVIOUS
  <2>1. y - 1 \in DOMAIN list /\ r[y] = list[y - 1] /\ y \in Int /\ x \in Int
    BY <1>1
  <2>2. CASE x = 1
    BY <1>1, <2>1, <2>2 DEF ToSet
  <2>3. CASE x # 1
    <3>1. x - 1 \in DOMAIN list /\ r[x] = list[x - 1] /\ x - 1 < y - 1
      BY <1>1, <2>1, <2>3
    <3> QED
      BY <2>1, <3>1
  <2> QED
    BY <2>2, <2>3
<1> QED
  BY <1>2, <1>3 DEF r

LEMMA SwingsNext ==
  ASSUME NEW n \in Nat, NEW b, b = n + 1
  PROVE  SwingsBy(b) =
           SwingsBy(n) \cup {w \in [side : Sides, at : {b - SwingBars}] : IsSwing(w.side, b)}
<1>1. SwingBars \in Nat \ {0} /\ b \in Nat
  BY SwingBarsArePositive
<1> DEFINE new == {w \in [side : Sides, at : {b - SwingBars}] : IsSwing(w.side, b)}
<1>2. ASSUME NEW w \in SwingsBy(b) PROVE w \in SwingsBy(n) \cup new
  <2>1. w \in [side : Sides, at : 1 .. b] /\ w.at + SwingBars <= b
        /\ IsSwing(w.side, w.at + SwingBars)
    BY DEF SwingsBy
  <2>2. CASE w.at + SwingBars <= n
    <3>1. w \in [side : Sides, at : 1 .. n]
      BY <1>1, <2>1, <2>2
    <3> QED
      BY <2>1, <2>2, <3>1 DEF SwingsBy
  <2>3. CASE ~(w.at + SwingBars <= n)
    <3>1. w.at + SwingBars = b /\ w.at = b - SwingBars
      BY <1>1, <2>1, <2>3
    <3>2. IsSwing(w.side, b)
      BY <2>1, <3>1
    <3> QED
      BY <2>1, <3>1, <3>2
  <2> QED
    BY <2>2, <2>3
<1>3. ASSUME NEW w \in SwingsBy(n) PROVE w \in SwingsBy(b)
  <2>1. w \in [side : Sides, at : 1 .. n] /\ w.at + SwingBars <= n
        /\ IsSwing(w.side, w.at + SwingBars)
    BY DEF SwingsBy
  <2>2. w \in [side : Sides, at : 1 .. b] /\ w.at + SwingBars <= b
    BY <1>1, <2>1
  <2> QED
    BY <2>1, <2>2 DEF SwingsBy
<1>4. ASSUME NEW w \in new PROVE w \in SwingsBy(b)
  <2>1. w \in [side : Sides, at : {b - SwingBars}] /\ IsSwing(w.side, b)
    OBVIOUS
  <2>2. w.at = b - SwingBars /\ b > 2 * SwingBars
    BY <2>1 DEF IsSwing
  <2>3. w.at + SwingBars = b /\ w.at \in 1 .. b
    BY <1>1, <2>2
  <2>4. w \in [side : Sides, at : 1 .. b]
    BY <2>1, <2>3
  <2>5. IsSwing(w.side, w.at + SwingBars) /\ w.at + SwingBars <= b
    BY <2>1, <2>3
  <2> QED
    BY <2>4, <2>5 DEF SwingsBy
<1> QED
  BY <1>2, <1>3, <1>4

LEMMA ListedNext ==
  ASSUME NEW n \in Nat, NEW b, b = n + 1, zz \in Seq(SwingSet(n)), Listed(zz, n)
  PROVE  Listed(NewSwings(b) \o zz, b)
<1> DEFINE at == b - SwingBars
           top == [side |-> "bullish", at |-> at]
           bottom == [side |-> "bearish", at |-> at]
           found(s) == {w \in [side : {s}, at : {at}] : IsSwing(s, b)}
           second == SwingAt("bullish", b) \o zz
           S == [side : Sides, at : Int]
<1>0. SwingBars \in Nat \ {0} /\ at \in Int /\ top \in S /\ bottom \in S
  BY SwingBarsArePositive DEF Sides
<1>1. zz \in Seq(S)
  <2>1. SwingSet(n) \subseteq S
    BY DEF SwingSet
  <2> HIDE DEF S
  <2> QED
    BY <2>1, SeqMonotonic
<1>2. \A v \in SwingsBy(n) : v.at \in Int /\ v.at < at
  BY <1>0 DEF SwingsBy
<1>3. SwingsBy(b) = SwingsBy(n) \cup (IF IsSwing("bullish", b) THEN {top} ELSE {})
                      \cup (IF IsSwing("bearish", b) THEN {bottom} ELSE {})
  <2>1. {w \in [side : Sides, at : {at}] : IsSwing(w.side, b)} =
          (IF IsSwing("bullish", b) THEN {top} ELSE {}) \cup (IF IsSwing("bearish", b) THEN {bottom} ELSE {})
    BY DEF Sides
  <2> DEFINE new == {w \in [side : Sides, at : {at}] : IsSwing(w.side, b)}
  <2>2. SwingsBy(b) = SwingsBy(n) \cup new
    BY SwingsNext
  <2> HIDE DEF new
  <2>3. new = (IF IsSwing("bullish", b) THEN {top} ELSE {})
                \cup (IF IsSwing("bearish", b) THEN {bottom} ELSE {})
    BY <2>1 DEF new
  <2> HIDE DEF top, bottom
  <2> QED
    BY <2>2, <2>3
<1>4. /\ second \in Seq(S)
      /\ ToSet(second) = SwingsBy(n) \cup (IF IsSwing("bullish", b) THEN {top} ELSE {})
      /\ \A x, y \in DOMAIN second : x < y => Newer(second[x], second[y])
  <2>1. CASE IsSwing("bullish", b)
    <3>1. second = <<top>> \o zz /\ <<top>> \in Seq(S)
      BY <1>0, <2>1 DEF SwingAt
    <3>2. \A v \in ToSet(zz) : Newer(top, v)
      BY <1>0, <1>2 DEF Newer, Listed
    <3> HIDE DEF top, second
    <3>3. /\ ToSet(<<top>> \o zz) = {top} \cup ToSet(zz)
          /\ \A x, y \in DOMAIN (<<top>> \o zz) :
               x < y => Newer((<<top>> \o zz)[x], (<<top>> \o zz)[y])
      BY <1>0, <1>1, <3>2, SwingInFront DEF Listed
    <3>4. <<top>> \o zz \in Seq(S)
      BY <1>1, <3>1, ArrayParts
    <3> QED
      BY <2>1, <3>1, <3>3, <3>4 DEF Listed
  <2>2. CASE ~IsSwing("bullish", b)
    <3>1. second = zz
      BY <1>1, <2>2 DEF SwingAt
    <3> HIDE DEF second
    <3> QED
      BY <1>1, <2>2, <3>1 DEF Listed
  <2> QED
    BY <2>1, <2>2
<1>5. NewSwings(b) \o zz = SwingAt("bearish", b) \o second
  <2>1. SwingAt("bearish", b) \in Seq(S) /\ SwingAt("bullish", b) \in Seq(S)
    <3>1. b \in Nat /\ SwingSet(b) \subseteq S
      BY DEF SwingSet
    <3>2. SwingAt("bearish", b) \in Seq(SwingSet(b)) /\ SwingAt("bullish", b) \in Seq(SwingSet(b))
      BY <3>1, SwingAtIn DEF Sides
    <3> HIDE DEF S
    <3> QED
      BY <3>1, <3>2, SeqMonotonic
  <2>2. NewSwings(b) = SwingAt("bearish", b) \o SwingAt("bullish", b)
    BY NewSwingsAre
  <2> HIDE DEF S
  <2>3. (SwingAt("bearish", b) \o SwingAt("bullish", b)) \o zz
          = SwingAt("bearish", b) \o (SwingAt("bullish", b) \o zz)
    <3> DEFINE r == SwingAt("bearish", b)
               t == SwingAt("bullish", b)
    <3>1. r \in Seq(S) /\ t \in Seq(S) /\ zz \in Seq(S)
      BY <1>1, <2>1
    <3> HIDE DEF r, t
    <3>2. \A x, y, z \in Seq(S) : (x \o y) \o z = x \o (y \o z)
      BY ConcatAssociative
    <3>3. (r \o t) \o zz = r \o (t \o zz)
      BY <3>1, <3>2
    <3> QED
      BY <3>3 DEF r, t
  <2> QED
    BY <2>2, <2>3
<1> HIDE DEF second
<1>6. CASE IsSwing("bearish", b)
  <2>1. NewSwings(b) \o zz = <<bottom>> \o second
    BY <1>5, <1>6 DEF SwingAt
  <2>2. \A v \in ToSet(second) : Newer(bottom, v)
    BY <1>0, <1>2, <1>4 DEF Newer
  <2> HIDE DEF bottom
  <2>3. /\ ToSet(<<bottom>> \o second) = {bottom} \cup ToSet(second)
        /\ \A x, y \in DOMAIN (<<bottom>> \o second) :
             x < y => Newer((<<bottom>> \o second)[x], (<<bottom>> \o second)[y])
    BY <1>0, <1>4, <2>2, SwingInFront
  <2>4. {bottom} \cup ToSet(second) = SwingsBy(b)
    BY <1>3, <1>4, <1>6
  <2>5. Listed(<<bottom>> \o second, b)
    BY <2>3, <2>4 DEF Listed
  <2> QED
    BY <2>1, <2>5
<1>7. CASE ~IsSwing("bearish", b)
  <2>1. NewSwings(b) \o zz = second
    <3>1. NewSwings(b) \o zz = <<>> \o second
      BY <1>5, <1>7 DEF SwingAt
    <3> HIDE DEF S
    <3>2. <<>> \o second = second
      BY <1>4, ConcatEmptySeq
    <3> QED
      BY <3>1, <3>2
  <2>2. ToSet(second) = SwingsBy(b)
    BY <1>3, <1>4, <1>7
  <2>3. Listed(second, b)
    BY <1>4, <2>2 DEF Listed
  <2> QED
    BY <2>1, <2>3
<1> QED
  BY <1>6, <1>7

\* The loop reads a passage where there is one: of the newest of at least three swings.
LEMMA PassageRead ==
  ASSUME NEW n \in Nat, NEW b, b = n + 1, NEW swings \in Seq(SwingSet(b)), Listed(swings, b),
         NEW p, p = [side |-> swings[1].side, from |-> swings[1].at, to |-> b]
  PROVE  /\ Reads(swings, b) => p \in Passages(b)
         /\ \A q \in Passages(b) : q.to = b => Reads(swings, b) /\ q = p
<1> DEFINE first == [side |-> p.side, at |-> p.from]
<1>0. SwingBars \in Nat \ {0} /\ b \in Nat /\ b \in 1 .. b
  BY SwingBarsArePositive
<1>1. /\ \A x, y \in DOMAIN swings : x < y => Newer(swings[x], swings[y])
      /\ ToSet(swings) = SwingsBy(b)
      /\ DOMAIN swings = 1 .. Len(swings) /\ Len(swings) \in Nat
      /\ \A x \in DOMAIN swings : swings[x] \in SwingSet(b)
  BY DEF Listed
<1>2. \A v, w \in SwingSet(b) : Newer(v, w) => v # w /\ ~Newer(w, v)
  BY DEF Newer, SwingSet
<1>3. p.side = swings[1].side /\ p.from = swings[1].at /\ p.to = b
  OBVIOUS
<1>4. Len(swings) > 0 => first = swings[1] /\ swings[1] \in SwingSet(b)
  BY <1>1, <1>3 DEF SwingSet
<1>5. ASSUME Reads(swings, b) PROVE p \in Passages(b)
  <2>1. /\ Len(swings) > 2 /\ 1 \in DOMAIN swings /\ 2 \in DOMAIN swings /\ 3 \in DOMAIN swings
        /\ Beyond(swings[1].side, Close(b), Level(swings[1].side, swings[1].at))
    BY <1>1, <1>5 DEF Reads, Passes
  <2>2. first = swings[1] /\ swings[1] \in SwingSet(b)
    BY <1>4, <2>1
  <2>3. p \in [side : Sides, from : 1 .. b, to : 1 .. b]
    BY <1>0, <2>2 DEF SwingSet
  <2> HIDE DEF first
  <2>4. first \in SwingsBy(b)
    BY <1>1, <2>1, <2>2 DEF ToSet
  <2>5. ASSUME NEW v \in SwingsBy(b) \ {first} PROVE Newer(first, v)
    <3>1. PICK x \in DOMAIN swings : v = swings[x]
      BY <1>1 DEF ToSet
    <3>2. x # 1 /\ x \in Nat /\ 1 < x
      BY <1>1, <2>2, <3>1
    <3> QED
      BY <1>1, <2>1, <2>2, <3>1, <3>2
  <2>6. \E u, v \in SwingsBy(b) \ {first} : u # v
    <3>1. swings[2] \in SwingsBy(b) /\ swings[3] \in SwingsBy(b)
      BY <1>1, <2>1 DEF ToSet
    <3>2. Newer(swings[1], swings[2]) /\ Newer(swings[1], swings[3]) /\ Newer(swings[2], swings[3])
      BY <1>1, <2>1
    <3>3. swings[2] # first /\ swings[3] # first /\ swings[2] # swings[3]
      BY <1>1, <1>2, <2>1, <2>2, <3>2
    <3> QED
      BY <3>1, <3>3
  <2>7. IsPassage(p)
    BY <1>3, <2>1, <2>4, <2>5, <2>6 DEF IsPassage, first
  <2> QED
    BY <2>3, <2>7 DEF Passages
<1>6. ASSUME NEW q \in Passages(b), q.to = b PROVE Reads(swings, b) /\ q = p
  <2> DEFINE w == [side |-> q.side, at |-> q.from]
  <2>1. q = [side |-> q.side, from |-> q.from, to |-> b] /\ IsPassage(q)
    BY <1>0, <1>6, PassageIn
  <2>2. /\ w \in SwingsBy(b) /\ Beyond(q.side, Close(b), Level(q.side, q.from))
        /\ \A v \in SwingsBy(b) \ {w} : Newer(w, v)
        /\ \E u, v \in SwingsBy(b) \ {w} : u # v
    BY <1>6, <2>1 DEF IsPassage
  <2>3. w.side = q.side /\ w.at = q.from
    OBVIOUS
  <2>4. b > 2 * SwingBars
    <3>1. w.at + SwingBars <= b /\ w.at \in 1 .. b /\ IsSwing(w.side, w.at + SwingBars)
      BY <2>2 DEF SwingsBy
    <3>2. w.at + SwingBars > 2 * SwingBars
      BY <3>1 DEF IsSwing
    <3> QED
      BY <1>0, <3>1, <3>2
  <2> HIDE DEF w
  <2>5. PICK x \in DOMAIN swings : w = swings[x]
    BY <1>1, <2>2 DEF ToSet
  <2>6. x = 1
    <3> SUFFICES ASSUME x # 1 PROVE FALSE
      OBVIOUS
    <3>1. 1 \in DOMAIN swings /\ 1 < x
      BY <1>1, <2>5
    <3>2. Newer(swings[1], w)
      BY <1>1, <2>5, <3>1
    <3>3. swings[1] \in SwingsBy(b) \ {w}
      BY <1>1, <1>2, <2>5, <3>1, <3>2 DEF ToSet
    <3> QED
      BY <1>1, <1>2, <2>2, <2>5, <3>1, <3>2, <3>3
  <2>7. PICK u \in SwingsBy(b) \ {w}, v \in SwingsBy(b) \ {w} : u # v
    BY <2>2
  <2>8. PICK y \in DOMAIN swings, z \in DOMAIN swings : u = swings[y] /\ v = swings[z]
    BY <1>1, <2>7 DEF ToSet
  <2>9. Len(swings) > 2
    <3>1. y # 1 /\ z # 1 /\ y # z
      BY <2>5, <2>6, <2>7, <2>8
    <3> QED
      BY <1>1, <2>8, <3>1
  <2>10. q.side = swings[1].side /\ q.from = swings[1].at
    BY <2>3, <2>5, <2>6
  <2>11. Reads(swings, b)
    BY <2>2, <2>4, <2>9, <2>10 DEF Reads, Passes
  <2> QED
    BY <2>1, <2>10, <2>11
<1> QED
  BY <1>5, <1>6

LEMMA PassagesNext ==
  ASSUME NEW n \in Nat, NEW b, b = n + 1, NEW swings \in Seq(SwingSet(b)), Listed(swings, b),
         NEW p, p = [side |-> swings[1].side, from |-> swings[1].at, to |-> b]
  PROVE  /\ Passages(b) = Passages(n) \cup (IF Reads(swings, b) THEN {p} ELSE {})
         /\ \A q \in Passages(n) : q.to <= n /\ q.to \in Nat
<1>1. ASSUME NEW q \in Passages(b) PROVE q \in Passages(n) \/ (Reads(swings, b) /\ q = p)
  <2>1. /\ q = [side |-> q.side, from |-> q.from, to |-> q.to] /\ q.side \in Sides
        /\ q.from \in 1 .. b /\ q.to \in 1 .. b /\ IsPassage(q) /\ q.from + SwingBars <= q.to
    BY PassageIn
  <2>2. CASE q.to = b
    BY <2>2, PassageRead
  <2>3. CASE q.to # b
    <3>1. q.from \in 1 .. n /\ q.to \in 1 .. n
      <4>1. SwingBars \in Nat \ {0} /\ q.from \in Int /\ q.to \in Int
        BY <2>1, SwingBarsArePositive
      <4>2. 1 <= q.from /\ 1 <= q.to /\ q.to <= n /\ q.from + SwingBars <= q.to
        BY <2>1, <2>3
      <4> QED
        BY <4>1, <4>2
    <3>2. q \in [side : Sides, from : 1 .. n, to : 1 .. n]
      BY <2>1, <3>1
    <3> QED
      BY <2>1, <3>2 DEF Passages
  <2> QED
    BY <2>2, <2>3
<1>2. ASSUME NEW q \in Passages(n) PROVE q \in Passages(b) /\ q.to <= n /\ q.to \in Nat
  <2>1. q \in [side : Sides, from : 1 .. n, to : 1 .. n] /\ IsPassage(q)
    BY DEF Passages
  <2>2. q \in [side : Sides, from : 1 .. b, to : 1 .. b]
    BY <2>1
  <2> QED
    BY <2>1, <2>2 DEF Passages
<1>3. Reads(swings, b) => p \in Passages(b)
  BY PassageRead
<1> QED
  BY <1>1, <1>2, <1>3

LEMMA TurnedNext ==
  ASSUME NEW n \in Nat, NEW b, b = n + 1, NEW swings \in Seq(SwingSet(b)), Listed(swings, b),
         Turned(trend, Passages(n))
  PROVE  Turned(TrendAfter(swings, b), Passages(b))
<1>1. PICK p : p = [side |-> swings[1].side, from |-> swings[1].at, to |-> b]
  OBVIOUS
<1>2. /\ Passages(b) = Passages(n) \cup (IF Reads(swings, b) THEN {p} ELSE {})
      /\ \A q \in Passages(n) : q.to <= n /\ q.to \in Nat
  BY <1>1, PassagesNext
<1>3. CASE ~Reads(swings, b)
  BY <1>2, <1>3 DEF TrendAfter
<1>4. CASE Reads(swings, b)
  <2>1. TrendAfter(swings, b) = p.side /\ p.to = b /\ p \in Passages(b)
    BY <1>1, <1>2, <1>4 DEF TrendAfter
  <2>2. \A r \in Passages(b) : r.to <= p.to
    BY <1>2, <2>1
  <2>3. \A q \in Passages(b) : (\A r \in Passages(b) : r.to <= q.to) => q = p
    BY <1>2, <2>1
  <2> QED
    BY <2>1, <2>2, <2>3 DEF Turned
<1> QED
  BY <1>3, <1>4

LEMMA LinesNext ==
  ASSUME NEW n \in Nat, NEW b, b = n + 1, NEW swings \in Seq(SwingSet(b)), Listed(swings, b),
         Turned(trend, Passages(n)), lines \in Seq(LineSet(n)), LinesOf(lines, Passages(n)),
         NEW A, A = NewLines(swings, b)
  PROVE  A \in Seq(LineSet(b)) /\ LinesOf(A, Passages(b))
<1> DEFINE P == Passages(n)
           new == LineOf(swings, b)
           Has(q) == \E x \in DOMAIN lines :
                       lines[x].side = q.side /\ Level(q.side, lines[x].from) = Level(q.side, q.from)
<1>1. PICK p : p = [side |-> swings[1].side, from |-> swings[1].at, to |-> b]
  OBVIOUS
<1>2. /\ Passages(b) = P \cup (IF Reads(swings, b) THEN {p} ELSE {})
      /\ \A q \in P : q.to <= n /\ q.to \in Nat
  BY <1>1, PassagesNext
<1>3. /\ ToSet(lines) = Drawn(P)
      /\ \A x, y \in DOMAIN lines : x < y => lines[x].to < lines[y].to
      /\ \A q \in P : Has(q)
  BY DEF LinesOf
<1>4. /\ lines \in Seq(LineSet(b)) /\ DOMAIN lines = 1 .. Len(lines) /\ Len(lines) \in Nat
      /\ \A x \in DOMAIN lines : lines[x].to \in Nat /\ lines[x].to <= n
  <2>1. LineSet(n) \subseteq LineSet(b)
    BY DEF LineSet
  <2>2. \A x \in DOMAIN lines : lines[x] \in LineSet(n)
    OBVIOUS
  <2>3. lines \in Seq(LineSet(b))
    BY <2>1, SeqMonotonic
  <2>4. DOMAIN lines = 1 .. Len(lines) /\ Len(lines) \in Nat
    OBVIOUS
  <2>5. \A x \in DOMAIN lines : lines[x].to \in Nat /\ lines[x].to <= n
    BY <2>2 DEF LineSet
  <2> QED
    BY <2>3, <2>4, <2>5
<1>5. ASSUME Reads(swings, b)
      PROVE  /\ p.side \in Sides /\ LineFor(p) = new /\ new \in LineSet(b) /\ new.to = b
             /\ new.side = p.side /\ new.from = p.from
             /\ (FirstOfLevel(p) <=> ~Has(p))
  <2>1. swings[1] \in SwingSet(b)
    BY <1>5 DEF Reads
  <2>2. /\ p.side = swings[1].side /\ p.from = swings[1].at /\ p.to = b /\ p.to - 1 = n
        /\ p.side \in Sides /\ p.from \in 1 .. b
    BY <1>1, <2>1 DEF SwingSet
  <2>3. trend = p.side <=> \E q \in P : q.side = p.side /\ \A r \in P : r.to <= q.to
    BY <2>2 DEF Turned
  <2>4. LineFor(p) = [tag |-> IF \E q \in P : q.side = p.side /\ \A r \in P : r.to <= q.to
                              THEN "BOS" ELSE "MSS",
                      side |-> p.side, from |-> p.from, to |-> p.to]
    BY <2>2 DEF LineFor
  <2>5. new = [tag |-> IF trend = p.side THEN "BOS" ELSE "MSS",
               side |-> p.side, from |-> p.from, to |-> p.to]
    BY <2>2 DEF LineOf
  <2> HIDE DEF new
  <2>6. LineFor(p) = new
    <3> HIDE DEF P
    <3> QED
      BY <2>3, <2>4, <2>5
  <2>7. new \in LineSet(b) /\ new.to = b /\ new.side = p.side /\ new.from = p.from
    <3>1. b \in 1 .. b
      OBVIOUS
    <3> QED
      BY <2>2, <2>5, <3>1 DEF LineSet
  <2>8. FirstOfLevel(p) <=> \A q \in P : q.side = p.side => Level(q.side, q.from) # Level(p.side, p.from)
    BY <2>2 DEF FirstOfLevel
  <2>9. ASSUME NEW x \in DOMAIN lines
        PROVE  \E q \in P : q.side = lines[x].side /\ q.from = lines[x].from
    <3>1. lines[x] \in Drawn(P)
      BY <1>3 DEF ToSet
    <3>2. PICK q \in P : lines[x] = LineFor(q)
      BY <3>1 DEF Drawn
    <3>3. lines[x].side = q.side /\ lines[x].from = q.from
      BY <3>2 DEF LineFor
    <3> QED
      BY <3>3
  <2> HIDE DEF P
  <2>10. Has(p) => ~FirstOfLevel(p)
    <3> SUFFICES ASSUME Has(p) PROVE ~FirstOfLevel(p)
      OBVIOUS
    <3>1. PICK x \in DOMAIN lines :
            lines[x].side = p.side /\ Level(p.side, lines[x].from) = Level(p.side, p.from)
      OBVIOUS
    <3>2. PICK q \in P : q.side = lines[x].side /\ q.from = lines[x].from
      BY <2>9
    <3> QED
      BY <2>8, <3>1, <3>2
  <2>11. ~Has(p) => FirstOfLevel(p)
    BY <1>3, <2>8
  <2> QED
    BY <2>2, <2>6, <2>7, <2>10, <2>11
<1>6. CASE ~Reads(swings, b)
  <2>1. A = lines /\ Passages(b) = P
    BY <1>2, <1>6 DEF NewLines
  <2> QED
    BY <1>4, <2>1
<1>7. Reads(swings, b) =>
        A = IF Has(p) THEN lines ELSE Append(lines, new)
  <2> SUFFICES ASSUME Reads(swings, b) PROVE A = IF Has(p) THEN lines ELSE Append(lines, new)
    OBVIOUS
  <2>1. p.side = swings[1].side /\ p.from = swings[1].at
    BY <1>1
  <2>2. Has(p) <=> \E x \in DOMAIN lines :
          /\ lines[x].side = swings[1].side
          /\ Level(lines[x].side, lines[x].from) = Level(swings[1].side, swings[1].at)
    BY <2>1
  <2> HIDE DEF Has, new
  <2> QED
    BY <2>2 DEF NewLines, new
<1> HIDE DEF P, new, Has
<1>8. CASE Reads(swings, b) /\ Has(p)
  <2>1. A = lines /\ Passages(b) = P \cup {p} /\ ~FirstOfLevel(p)
    BY <1>2, <1>5, <1>7, <1>8
  <2>2. Drawn(P \cup {p}) = Drawn(P)
    BY <2>1 DEF Drawn
  <2>3. \A q \in P \cup {p} : Has(q)
    BY <1>3, <1>8
  <2> QED
    BY <1>3, <1>4, <2>1, <2>2, <2>3 DEF LinesOf, Has
<1>9. CASE Reads(swings, b) /\ ~Has(p)
  <2>1. /\ A = Append(lines, new) /\ Passages(b) = P \cup {p} /\ FirstOfLevel(p)
        /\ LineFor(p) = new /\ new \in LineSet(b) /\ new.to = b
        /\ new.side = p.side /\ new.from = p.from
    BY <1>2, <1>5, <1>7, <1>9
  <2>2. Drawn(P \cup {p}) = Drawn(P) \cup {new}
    BY <2>1 DEF Drawn
  <2> DEFINE L == LineSet(b)
             m == Len(lines)
  <2>3. lines \in Seq(L) /\ new \in L /\ m \in Nat
    BY <1>4, <2>1
  <2> HIDE DEF L
  <2>4. /\ A \in Seq(L) /\ DOMAIN A = 1 .. m + 1 /\ A[m + 1] = new
        /\ \A x \in 1 .. m : A[x] = lines[x]
    <3>1. /\ Append(lines, new) \in Seq(L) /\ DOMAIN Append(lines, new) = 1 .. Len(lines) + 1
          /\ Append(lines, new)[Len(lines) + 1] = new
          /\ \A i \in 1 .. Len(lines) : Append(lines, new)[i] = lines[i]
      BY <2>3, Appended
    <3> QED
      BY <2>1, <3>1
  <2> HIDE DEF m
  <2>5. DOMAIN lines = 1 .. m
    BY <1>4 DEF m
  <2>6. ToSet(A) = Drawn(P) \cup {new}
    <3>1. \A x \in 1 .. m + 1 : x \in 1 .. m \/ x = m + 1
      BY <2>3
    <3>2. m + 1 \in 1 .. m + 1 /\ \A x \in 1 .. m : x \in 1 .. m + 1
      BY <2>3
    <3>3. ToSet(lines) = {lines[x] : x \in 1 .. m} /\ ToSet(A) = {A[x] : x \in 1 .. m + 1}
      BY <2>4, <2>5 DEF ToSet
    <3> QED
      BY <1>3, <2>4, <3>1, <3>2, <3>3
  <2>7. \A x, y \in DOMAIN A : x < y => A[x].to < A[y].to
    <3> SUFFICES ASSUME NEW x \in DOMAIN A, NEW y \in DOMAIN A, x < y
                 PROVE  A[x].to < A[y].to
      OBVIOUS
    <3>1. x \in 1 .. m /\ A[x] = lines[x] /\ x \in DOMAIN lines
      BY <2>3, <2>4, <2>5
    <3>2. CASE y = m + 1
      BY <1>4, <2>1, <2>4, <3>1, <3>2
    <3>3. CASE y # m + 1
      <4>1. y \in 1 .. m /\ A[y] = lines[y]
        BY <2>3, <2>4, <3>3
      <4> QED
        BY <1>3, <2>5, <3>1, <4>1
    <3> QED
      BY <3>2, <3>3
  <2>8. \A q \in P \cup {p} : \E x \in DOMAIN A :
          A[x].side = q.side /\ Level(q.side, A[x].from) = Level(q.side, q.from)
    <3>1. ASSUME NEW q \in P
          PROVE  \E x \in DOMAIN A :
                   A[x].side = q.side /\ Level(q.side, A[x].from) = Level(q.side, q.from)
      <4>1. PICK x \in DOMAIN lines :
              lines[x].side = q.side /\ Level(q.side, lines[x].from) = Level(q.side, q.from)
        BY <1>3 DEF Has
      <4>2. x \in DOMAIN A /\ A[x] = lines[x]
        BY <2>3, <2>4, <2>5
      <4> QED
        BY <4>1, <4>2
    <3>2. m + 1 \in DOMAIN A /\ A[m + 1].side = p.side /\ A[m + 1].from = p.from
      BY <2>1, <2>3, <2>4
    <3> QED
      BY <3>1, <3>2
  <2> QED
    BY <2>1, <2>2, <2>4, <2>6, <2>7, <2>8 DEF LinesOf, L
<1> QED
  BY <1>6, <1>8, <1>9

LEMMA IctTurned ==
  ASSUME CandlesOK, NEW n \in Nat, n + 1 <= Len(candles), Same(n + 1), IctInv(n), IctBar(n + 1)
  PROVE  IctInv(n + 1)'
<1> DEFINE swings == NewSwings(n + 1) \o zz
<1>1. swings \in Seq(SwingSet(n + 1))
  BY SwingsTurned DEF IctInv
<1>2. zz' \in Seq(SwingSet(n + 1)') /\ Listed(zz, n + 1)'
  <2>1. Listed(swings, n + 1)
    BY ListedNext DEF IctInv
  <2>2. SwingsBy(n + 1)' = SwingsBy(n + 1) /\ n + 1 \in Nat
    BY SwingsKept
  <2>3. zz' = swings
    BY DEF IctBar
  <2>4. SwingSet(n + 1)' = SwingSet(n + 1)
    BY DEF SwingSet, Sides
  <2> HIDE DEF swings
  <2> QED
    BY <1>1, <2>1, <2>2, <2>3, <2>4 DEF Listed, ToSet, Newer
<1>3. obs' \in Seq(ObSet(n + 1, n + 1))
  BY ObsTurned DEF IctBar, IctInv
<1>4. pools' \in Seq(PoolSet(n + 1, n + 1))
  <2>1. pools' = Swept(NewPool(swings, "bearish", n + 1) \o NewPool(swings, "bullish", n + 1)
                         \o pools, n + 1)
    BY DEF IctBar
  <2> HIDE DEF swings
  <2> QED
    BY <1>1, <2>1, PoolsTurned DEF IctInv
<1>5. fvgs' \in [Sides -> Seq(FvgSet(n + 1, n + 1))]
  BY FvgsTurned DEF IctBar, IctInv
<1>6. /\ lines' \in Seq(LineSet(n + 1)) /\ LinesOf(lines, Passages(n + 1))'
      /\ Turned(trend, Passages(n + 1))'
  <2>1. PICK A : A = NewLines(swings, n + 1)
    OBVIOUS
  <2>2. Listed(swings, n + 1)
    BY ListedNext DEF IctInv
  <2>3. lines' = A /\ trend' = TrendAfter(swings, n + 1)
    BY <2>1 DEF IctBar
  <2>4. Passages(n + 1)' = Passages(n + 1) /\ n + 1 \in Nat
    BY PassagesKept
  <2> HIDE DEF swings
  <2>5. A \in Seq(LineSet(n + 1)) /\ LinesOf(A, Passages(n + 1))
    BY <1>1, <2>1, <2>2, LinesNext DEF IctInv
  <2>6. LinesOf(lines, Passages(n + 1))'
    BY <2>3, <2>4, <2>5, LinesKept
  <2>7. Turned(TrendAfter(swings, n + 1), Passages(n + 1))
    BY <1>1, <2>2, TurnedNext DEF IctInv
  <2> QED
    BY <2>3, <2>4, <2>5, <2>6, <2>7 DEF Turned, Sides
<1>7. /\ ObSet(n + 1, n + 1)' = ObSet(n + 1, n + 1) /\ FvgSet(n + 1, n + 1)' = FvgSet(n + 1, n + 1)
      /\ PoolSet(n + 1, n + 1)' = PoolSet(n + 1, n + 1)
  BY IctSetsKept
<1>8. LineSet(n + 1)' = LineSet(n + 1) /\ Sides' = Sides
  BY DEF LineSet, Sides
<1> HIDE DEF swings
<1> QED
  BY <1>2, <1>3, <1>4, <1>5, <1>6, <1>7, <1>8 DEF IctInv

-----------------------------------------------------------------------------
(***************************************************************************)
(* MarketBreaks.  The zones in the array are those ever made that no candle *)
(* has closed through since.                                               *)
(***************************************************************************)
MsbSet(n) == [kind : {"OB", "BB", "MB"}, side : Sides, at : 1 .. n, made : 1 .. n]
Whole(n) == {z \in msbMade : \A j \in z.made .. n : ~ZonePassed(z, j)}
InOrder(list) == \A x, y \in DOMAIN list : x < y => list[x].made <= list[y].made

MsbInv(n) ==
  /\ peaks \in Seq(1 .. n) /\ troughs \in Seq(1 .. n) /\ turnedAt \in 1 .. n + 1
  /\ msbMade \subseteq MsbSet(n) /\ msbZones \in Seq(MsbSet(n))
  /\ ToSet(msbZones) = Whole(n) /\ InOrder(msbZones)

LEMMA ZonePassedKept ==
  ASSUME NEW n \in Nat, Same(n), NEW z, z.at \in 1 .. n, NEW j \in 1 .. n
  PROVE  ZonePassed(z, j)' = ZonePassed(z, j)
BY PricesKept DEF ZonePassed

LEMMA WholeKept ==
  ASSUME NEW n \in Nat, Same(n), NEW M, M = msbMade', M \subseteq MsbSet(n)
  PROVE  Whole(n)' = {z \in M : \A j \in z.made .. n : ~ZonePassed(z, j)}
<1>1. \A z \in M : \A j \in z.made .. n : ZonePassed(z, j)' = ZonePassed(z, j)
  <2> SUFFICES ASSUME NEW z \in M, NEW j \in z.made .. n
               PROVE  ZonePassed(z, j)' = ZonePassed(z, j)
    OBVIOUS
  <2>1. z.at \in 1 .. n /\ z.made \in 1 .. n
    BY DEF MsbSet
  <2>2. j \in 1 .. n
    BY <2>1
  <2> QED
    BY <2>1, <2>2, ZonePassedKept
<1> QED
  BY <1>1 DEF Whole

LEMMA MsbFed ==
  ASSUME NEW n \in Nat, Same(n), MsbInv(n), UNCHANGED msbVars
  PROVE  MsbInv(n)'
<1>1. PICK M : M = msbMade'
  OBVIOUS
<1>2. M = msbMade /\ M \subseteq MsbSet(n)
  BY <1>1 DEF MsbInv, msbVars
<1>3. Whole(n)' = Whole(n)
  BY <1>1, <1>2, WholeKept DEF Whole
<1>4. MsbSet(n)' = MsbSet(n)
  BY DEF MsbSet, Sides
<1> QED
  BY <1>3, <1>4 DEF MsbInv, msbVars, InOrder, ToSet

LEMMA LegEndIn ==
  ASSUME CandlesOK, NEW b \in 1 .. Len(candles), turnedAt \in 1 .. b, NEW s \in Sides
  PROVE  LegEnd(s, b) \in 1 .. b
<1> DEFINE v == [j \in turnedAt .. b |-> Level(s, j)]
           S == {j \in turnedAt .. b : \A x \in turnedAt .. b : ~Beyond(s, Level(s, x), Level(s, j))}
<1>1. /\ turnedAt \in Int /\ b \in Int /\ turnedAt <= b
      /\ \A j \in turnedAt .. b : j \in 1 .. Len(candles) /\ j \in 1 .. b
  BY DEF CandlesOK
<1>2. v \in [turnedAt .. b -> Int]
  BY <1>1, PriceTypes
<1>3. PICK t \in Nat : t = turnedAt
  OBVIOUS
<1>4. /\ \E j \in t .. b : \A x \in t .. b : v[x] <= v[j]
      /\ \E j \in t .. b : \A x \in t .. b : v[j] <= v[x]
  <2>1. t \in Int /\ t <= b /\ v \in [t .. b -> Int]
    BY <1>1, <1>2, <1>3
  <2> HIDE DEF v
  <2> QED
    BY <1>1, <2>1, SpanPeaks
<1>5. S # {}
  <2>1. \A x, y \in turnedAt .. b : v[x] = Level(s, x) /\ v[x] \in Int /\ v[y] \in Int
    BY <1>2
  <2> HIDE DEF v
  <2>2. CASE s = "bullish"
    <3>1. PICK j \in t .. b : \A x \in t .. b : v[x] <= v[j]
      BY <1>4
    <3> QED
      BY <1>3, <2>1, <2>2, <3>1 DEF Beyond
  <2>3. CASE s # "bullish"
    <3>1. PICK j \in t .. b : \A x \in t .. b : v[j] <= v[x]
      BY <1>4
    <3> QED
      <4>1. j \in turnedAt .. b /\ \A x \in turnedAt .. b : Level(s, j) <= Level(s, x)
        BY <1>3, <2>1, <3>1
      <4>2. \A x \in turnedAt .. b : ~(Level(s, x) < Level(s, j))
        BY <2>1, <4>1
      <4> QED
        BY <2>3, <4>1, <4>2 DEF Beyond
  <2> QED
    BY <2>2, <2>3
<1>6. S \in SUBSET (t .. b)
  BY <1>3
<1>7. LegEnd(s, b) = Min(S)
  BY DEF LegEnd
<1> HIDE DEF S
<1>8. Min(S) \in S
  BY <1>1, <1>3, <1>5, <1>6, SpanExtremes
<1> QED
  BY <1>1, <1>3, <1>6, <1>7, <1>8

LEMMA LastIn ==
  ASSUME NEW b \in Nat, NEW such \in SUBSET (1 .. b), NEW k \in {"OB", "BB", "MB"}, NEW s \in Sides
  PROVE  (IF such = {} THEN <<>> ELSE << [kind |-> k, side |-> s, at |-> Max(such), made |-> b] >>)
           \in Seq({z \in MsbSet(b) : z.made = b})
<1> DEFINE new == [kind |-> k, side |-> s, at |-> Max(such), made |-> b]
           Fresh == {z \in MsbSet(b) : z.made = b}
<1>1. ASSUME such # {} PROVE new \in Fresh
  <2>1. Max(such) \in such
    <3>1. 1 \in Int /\ b \in Int
      OBVIOUS
    <3> QED
      BY <1>1, <3>1, SpanExtremes
  <2>2. Max(such) \in 1 .. b /\ b \in 1 .. b
    <3> DEFINE m == Max(such)
    <3>1. m \in such
      BY <2>1
    <3> HIDE DEF m
    <3>2. m \in 1 .. b /\ b \in 1 .. b
      BY <3>1
    <3> QED
      BY <3>2 DEF m
  <2> QED
    BY <2>2 DEF MsbSet
<1> HIDE DEF new, Fresh
<1>2. (IF such = {} THEN <<>> ELSE << new >>) \in Seq(Fresh)
  BY <1>1, Singletons
<1> QED
  BY <1>2 DEF new, Fresh

LEMMA NewZonesIn ==
  ASSUME NEW b \in Nat, NEW hs \in Seq(1 .. b), NEW ls \in Seq(1 .. b)
  PROVE  NewZones(hs, ls, b) \in Seq({z \in MsbSet(b) : z.made = b})
<1> DEFINE Fresh == {z \in MsbSet(b) : z.made = b}
<1>1. ASSUME Len(hs) > 1, Len(ls) > 1
      PROVE  {Newest(hs), Previous(hs), Newest(ls), Previous(ls)} \subseteq 1 .. b
  BY <1>1 DEF Newest, Previous
<1>2. ASSUME NEW f \in 1 .. b, NEW t \in 1 .. b, NEW k \in {"OB", "BB", "MB"}, NEW s \in Sides
      PROVE  /\ LastOf(Falls, f .. t, k, s, b) \in Seq(Fresh)
             /\ LastOf(Rises, f .. t, k, s, b) \in Seq(Fresh)
  <2>1. {j \in f .. t : Falls(j)} \in SUBSET (1 .. b) /\ {j \in f .. t : Rises(j)} \in SUBSET (1 .. b)
    OBVIOUS
  <2> QED
    BY <2>1, LastIn DEF LastOf
<1>3. ASSUME NEW f \in 1 .. b
      PROVE  Max({1, f - Zigzag}) \in 1 .. b
  <2> DEFINE d == f - Zigzag
  <2>1. d \in Int /\ d <= b /\ 1 \in Int /\ 1 <= b
    BY <1>3, ZigzagIsPositive
  <2> HIDE DEF d
  <2>2. Max({1, d}) = IF 1 >= d THEN 1 ELSE d
    BY <2>1, MaxOfTwo
  <2>3. Max({1, d}) \in 1 .. b
    BY <2>1, <2>2
  <2> QED
    BY <2>3 DEF d
<1>4. <<>> \in Seq(Fresh)
  OBVIOUS
<1>5. CASE Shifts("bullish", hs, ls)
  <2> DEFINE k == IF Low(Newest(ls)) < Low(Previous(ls)) THEN "BB" ELSE "MB"
             one == LastOf(Falls, Previous(hs) .. Newest(ls), "OB", "bullish", b)
             two == LastOf(Rises, Max({1, Previous(ls) - Zigzag}) .. Previous(hs), k, "bullish", b)
  <2>1. {Newest(hs), Previous(hs), Newest(ls), Previous(ls)} \subseteq 1 .. b
    BY <1>1, <1>5 DEF Shifts
  <2>2. one \in Seq(Fresh)
    BY <1>2, <2>1 DEF Sides
  <2>3. two \in Seq(Fresh)
    <3>1. Max({1, Previous(ls) - Zigzag}) \in 1 .. b
      BY <1>3, <2>1
    <3>2. k \in {"OB", "BB", "MB"}
      OBVIOUS
    <3> HIDE DEF k, Fresh
    <3> QED
      BY <1>2, <2>1, <3>1, <3>2 DEF Sides
  <2>4. NewZones(hs, ls, b) = one \o two
    BY <1>5 DEF NewZones
  <2> HIDE DEF one, two, Fresh
  <2>5. NewZones(hs, ls, b) \in Seq(Fresh)
    BY <2>2, <2>3, <2>4, ArrayParts
  <2> QED
    BY <2>5 DEF Fresh
<1>6. CASE Shifts("bearish", hs, ls) /\ ~Shifts("bullish", hs, ls)
  <2> DEFINE k == IF High(Newest(hs)) > High(Previous(hs)) THEN "BB" ELSE "MB"
             one == LastOf(Rises, Previous(ls) .. Newest(hs), "OB", "bearish", b)
             two == LastOf(Falls, Max({1, Previous(hs) - Zigzag}) .. Previous(ls), k, "bearish", b)
  <2>1. {Newest(hs), Previous(hs), Newest(ls), Previous(ls)} \subseteq 1 .. b
    BY <1>1, <1>6 DEF Shifts
  <2>2. one \in Seq(Fresh)
    BY <1>2, <2>1 DEF Sides
  <2>3. two \in Seq(Fresh)
    <3>1. Max({1, Previous(hs) - Zigzag}) \in 1 .. b
      BY <1>3, <2>1
    <3>2. k \in {"OB", "BB", "MB"}
      OBVIOUS
    <3> HIDE DEF k, Fresh
    <3> QED
      BY <1>2, <2>1, <3>1, <3>2 DEF Sides
  <2>4. NewZones(hs, ls, b) = one \o two
    BY <1>6 DEF NewZones
  <2> HIDE DEF one, two, Fresh
  <2>5. NewZones(hs, ls, b) \in Seq(Fresh)
    BY <2>2, <2>3, <2>4, ArrayParts
  <2> QED
    BY <2>5 DEF Fresh
<1>7. CASE ~Shifts("bullish", hs, ls) /\ ~Shifts("bearish", hs, ls)
  BY <1>4, <1>7 DEF NewZones
<1> QED
  BY <1>5, <1>6, <1>7

LEMMA PointsTurned ==
  ASSUME CandlesOK, NEW n \in Nat, MsbInv(n), NEW b, b = n + 1, b <= Len(candles)
  PROVE  PeaksAt(b) \in Seq(1 .. b) /\ TroughsAt(b) \in Seq(1 .. b)
<1>1. peaks \in Seq(1 .. b) /\ troughs \in Seq(1 .. b)
  <2>1. 1 .. n \subseteq 1 .. b /\ peaks \in Seq(1 .. n) /\ troughs \in Seq(1 .. n)
    BY DEF MsbInv
  <2> QED
    BY <2>1, ArrayIn
<1>2. b \in 1 .. Len(candles) /\ turnedAt \in 1 .. b
  BY DEF MsbInv
<1>3. LegEnd("bullish", b) \in 1 .. b /\ LegEnd("bearish", b) \in 1 .. b
  BY <1>2, LegEndIn DEF Sides
<1> QED
  BY <1>1, <1>3, Appended DEF PeaksAt, TroughsAt

LEMMA MsbTurned ==
  ASSUME CandlesOK, NEW n \in Nat, NEW b, b = n + 1, b <= Len(candles), Same(b), MsbInv(n), MsbBar(b)
  PROVE  MsbInv(b)'
<1> DEFINE hs == PeaksAt(b)
           ls == TroughsAt(b)
           new == NewZones(hs, ls, b)
           list == msbZones \o new
           gone == {x \in DOMAIN list : ZonePassed(list[x], b)}
           Fresh == {z \in MsbSet(b) : z.made = b}
<1>1. hs \in Seq(1 .. b) /\ ls \in Seq(1 .. b)
  BY PointsTurned
<1>2. /\ peaks' = hs /\ troughs' = ls /\ turnedAt' = (IF Turns(b) THEN b ELSE turnedAt)
      /\ msbZones' = Unbroken(list, b) /\ msbMade' = msbMade \cup ToSet(new)
  BY DEF MsbBar
<1>3. new \in Seq(Fresh)
  <2> HIDE DEF hs, ls
  <2> QED
    BY <1>1, NewZonesIn
<1>4. msbZones \in Seq(MsbSet(b)) /\ new \in Seq(MsbSet(b)) /\ msbMade \subseteq MsbSet(b)
  <2>1. MsbSet(n) \subseteq MsbSet(b) /\ Fresh \subseteq MsbSet(b)
    BY DEF MsbSet
  <2> QED
    BY <1>3, <2>1, ArrayIn DEF MsbInv
<1> HIDE DEF hs, ls, new
<1>5. /\ list \in Seq(MsbSet(b)) /\ Len(msbZones) \in Nat /\ Len(new) \in Nat
      /\ DOMAIN msbZones = 1 .. Len(msbZones) /\ DOMAIN new = 1 .. Len(new)
      /\ DOMAIN list = 1 .. Len(msbZones) + Len(new)
      /\ \A x \in 1 .. Len(msbZones) + Len(new) :
           list[x] = IF x <= Len(msbZones) THEN msbZones[x] ELSE new[x - Len(msbZones)]
  BY <1>4, ArrayParts
<1> HIDE DEF list, gone
<1>6. /\ msbZones' \in Seq(MsbSet(b))
      /\ ToSet(msbZones') = {list[i] : i \in DOMAIN list \ gone}
      /\ \A x, y \in DOMAIN msbZones' : x < y =>
           \E i, j \in DOMAIN list \ gone :
             i < j /\ msbZones'[x] = list[i] /\ msbZones'[y] = list[j]
  <2>1. msbZones' = SplicedDown(list, gone)
    BY <1>2 DEF Unbroken, gone
  <2>2. PICK r : r = SplicedDown(list, gone)
    OBVIOUS
  <2>3. /\ r \in Seq(MsbSet(b))
        /\ ToSet(r) = {list[i] : i \in DOMAIN list \ gone}
        /\ \A x, y \in DOMAIN r : x < y =>
             \E i, j \in DOMAIN list \ gone : i < j /\ r[x] = list[i] /\ r[y] = list[j]
    <3>1. PICK A : A = MsbSet(b)
      OBVIOUS
    <3>2. list \in Seq(A)
      BY <1>5, <3>1
    <3> QED
      <4>1. Leaves(r, A, list, gone)
        BY <2>2, <3>2, SplicedLeaves
      <4> QED
        BY <3>1, <4>1 DEF Leaves
  <2>4. msbZones' = r
    BY <2>1, <2>2
  <2>5. ToSet(msbZones') = ToSet(r)
    BY <2>4 DEF ToSet
  <2> QED
    BY <2>3, <2>4, <2>5
<1>7. \A i \in DOMAIN list : i \in gone <=> ZonePassed(list[i], b)
  BY DEF gone
<1>8. \A i \in DOMAIN list : list[i] \in Whole(n) \cup ToSet(new)
  <2>1. \A x \in 1 .. Len(msbZones) : msbZones[x] \in Whole(n)
    BY <1>5 DEF MsbInv, ToSet
  <2>2. \A x \in 1 .. Len(new) : new[x] \in ToSet(new)
    BY <1>5 DEF ToSet
  <2> SUFFICES ASSUME NEW i \in 1 .. Len(msbZones) + Len(new)
               PROVE  list[i] \in Whole(n) \cup ToSet(new)
    BY <1>5
  <2>3. CASE i <= Len(msbZones)
    BY <1>5, <2>1, <2>3
  <2>4. CASE ~(i <= Len(msbZones))
    <3>1. i - Len(msbZones) \in 1 .. Len(new)
      BY <1>5, <2>4
    <3> QED
      BY <1>5, <2>2, <2>4, <3>1
  <2> QED
    BY <2>3, <2>4
<1>9. \A z \in Whole(n) \cup ToSet(new) : \E i \in DOMAIN list : list[i] = z
  <2> SUFFICES ASSUME NEW z \in Whole(n) \cup ToSet(new) PROVE \E i \in DOMAIN list : list[i] = z
    OBVIOUS
  <2>1. CASE z \in Whole(n)
    <3>1. PICK x \in 1 .. Len(msbZones) : msbZones[x] = z
      BY <1>5, <2>1 DEF MsbInv, ToSet
    <3>2. x \in 1 .. Len(msbZones) + Len(new) /\ x <= Len(msbZones)
      BY <1>5
    <3> QED
      BY <1>5, <3>1, <3>2
  <2>2. CASE z \in ToSet(new)
    <3>1. PICK x \in 1 .. Len(new) : new[x] = z
      BY <1>5, <2>2 DEF ToSet
    <3>2. PICK i : i = x + Len(msbZones)
      OBVIOUS
    <3>3. i \in 1 .. Len(msbZones) + Len(new) /\ ~(i <= Len(msbZones)) /\ i - Len(msbZones) = x
      BY <1>5, <3>2
    <3>4. list[i] = new[x] /\ i \in DOMAIN list
      BY <1>5, <3>3
    <3> QED
      BY <3>1, <3>4
  <2> QED
    BY <2>1, <2>2
<1>10. \A z \in ToSet(new) : z.made = b
  BY <1>3, <1>5 DEF ToSet
<1> DEFINE M == msbMade \cup ToSet(new)
           Kept == {z \in M : \A j \in z.made .. b : ~ZonePassed(z, j)}
<1>11. \A z \in msbMade : z.made \in 1 .. n
  BY DEF MsbInv, MsbSet
<1>12. \A z : z \in Kept <=> z \in Whole(n) \cup ToSet(new) /\ ~ZonePassed(z, b)
  <2>1. ASSUME NEW z \in msbMade
        PROVE  (\A j \in z.made .. b : ~ZonePassed(z, j)) <=>
                 (\A j \in z.made .. n : ~ZonePassed(z, j)) /\ ~ZonePassed(z, b)
    <3>1. /\ b \in z.made .. b /\ \A j \in z.made .. n : j \in z.made .. b
          /\ \A j \in z.made .. b : j \in z.made .. n \/ j = b
      BY <1>11
    <3> QED
      BY <3>1
  <2>2. ASSUME NEW z \in ToSet(new)
        PROVE  (\A j \in z.made .. b : ~ZonePassed(z, j)) <=> ~ZonePassed(z, b)
    <3>1. z.made .. b = {b}
      BY <1>10
    <3> QED
      BY <3>1
  <2> QED
    BY <2>1, <2>2 DEF Whole
<1>13. ToSet(msbZones') = Kept
  <2> HIDE DEF Kept
  <2>1. \A z : z \in ToSet(msbZones') <=> \E i \in DOMAIN list : list[i] = z /\ ~ZonePassed(z, b)
    BY <1>6, <1>7
  <2>2. \A z : z \in ToSet(msbZones') <=> z \in Kept
    BY <1>8, <1>9, <1>12, <2>1
  <2> QED
    BY <2>2
<1>14. InOrder(list)
  <2>1. \A x \in 1 .. Len(msbZones) : msbZones[x].made \in 1 .. n
    <3>1. \A x \in 1 .. Len(msbZones) : msbZones[x] \in MsbSet(n)
      BY <1>5 DEF MsbInv
    <3> QED
      BY <3>1 DEF MsbSet
  <2>2. \A x \in 1 .. Len(new) : new[x].made = b
    BY <1>3, <1>5
  <2> SUFFICES ASSUME NEW x \in 1 .. Len(msbZones) + Len(new),
                      NEW y \in 1 .. Len(msbZones) + Len(new), x < y
               PROVE  list[x].made <= list[y].made
    BY <1>5 DEF InOrder
  <2>3. CASE y <= Len(msbZones)
    <3>1. x \in 1 .. Len(msbZones) /\ y \in 1 .. Len(msbZones) /\ x <= Len(msbZones)
      BY <1>5, <2>3
    <3> QED
      BY <1>5, <2>3, <3>1 DEF MsbInv, InOrder
  <2>4. CASE ~(y <= Len(msbZones))
    <3>1. y - Len(msbZones) \in 1 .. Len(new)
      BY <1>5, <2>4
    <3>2. list[y].made = b
      BY <1>5, <2>2, <2>4, <3>1
    <3>3. CASE x <= Len(msbZones)
      <4>1. x \in 1 .. Len(msbZones)
        BY <1>5, <3>3
      <4> QED
        BY <1>5, <2>1, <3>2, <3>3, <4>1
    <3>4. CASE ~(x <= Len(msbZones))
      <4>1. x - Len(msbZones) \in 1 .. Len(new)
        BY <1>5, <3>4
      <4> QED
        BY <1>5, <2>2, <3>2, <3>4, <4>1
    <3> QED
      BY <3>3, <3>4
  <2> QED
    BY <2>3, <2>4
<1>15. InOrder(msbZones')
  BY <1>6, <1>14 DEF InOrder
<1>16. M \subseteq MsbSet(b)
  BY <1>4, <1>5 DEF ToSet
<1>17. Whole(b)' = Kept
  <2>1. PICK A : A = M
    OBVIOUS
  <2>2. A = msbMade' /\ A \subseteq MsbSet(b)
    BY <1>2, <1>16, <2>1
  <2> HIDE DEF M
  <2>3. b \in Nat
    OBVIOUS
  <2>4. Whole(b)' = {z \in A : \A j \in z.made .. b : ~ZonePassed(z, j)}
    BY <2>2, <2>3, WholeKept
  <2> QED
    BY <2>1, <2>4
<1>18. turnedAt' \in 1 .. b + 1
  BY <1>2 DEF MsbInv
<1>19. MsbSet(b)' = MsbSet(b)
  BY DEF MsbSet, Sides
<1> HIDE DEF M, Kept
<1> QED
  BY <1>1, <1>2, <1>6, <1>13, <1>15, <1>16, <1>17, <1>18, <1>19 DEF MsbInv, InOrder, M, ToSet

-----------------------------------------------------------------------------
(***************************************************************************)
(* Killzones.  A session being tracked has the range of the run of candles *)
(* it is in; the sessions left behind are the runs that have ended.        *)
(***************************************************************************)
Highest(f, t) == Max({High(j) : j \in f .. t})
Lowest(f, t) == Min({Low(j) : j \in f .. t})
RangeOf(f, t) == [from |-> f, high |-> Highest(f, t), low |-> Lowest(f, t)]

\* Candle f is the first of a run inside w that lasts to t.
Starts(w, f, t) ==
  /\ \A j \in f .. t : InWindow(w, j)
  /\ f = 1 \/ ~InWindow(w, f - 1)
Runs(w, f, t) == f < t /\ Starts(w, f, t - 1) /\ ~InWindow(w, t)

ZoneOf(r) == [window |-> r.window, to |-> r.to, range |-> RangeOf(r.from, r.to - 1)]
RunSet(n) ==
  {r \in [window : Sessions, from : 1 .. n, to : 1 .. n] : Runs(r.window, r.from, r.to)}
ZonesOf(n) == {ZoneOf(r) : r \in RunSet(n)}

Tracks(t, w, n) ==
  /\ t.in \in BOOLEAN /\ DOMAIN t = {"in", "range"} /\ t = [in |-> t.in, range |-> t.range]
  /\ t.in <=> n # 0 /\ InWindow(w, n)
  /\ t.in => \E f \in 1 .. n : Starts(w, f, n) /\ t.range = RangeOf(f, n)

Past(l, j) == Beyond(l.side, Level(l.side, j), Price(l))
LevelSet(Z, n) ==
  {l \in [zone : Z, side : Sides, hitAt : 0 .. n] :
     l.hitAt = FirstOf({j \in l.zone.to .. n : Past(l, j)})}

KzInv(n) ==
  /\ DOMAIN trackers = Sessions /\ \A w \in Sessions : Tracks(trackers[w], w, n)
  /\ zones = ZonesOf(n)
  /\ levels \subseteq LevelSet(zones, n)
  /\ \A z \in zones : \A s \in Sides : \E l \in levels : l.zone = z /\ l.side = s

LEMMA HighestIs ==
  ASSUME CandlesOK, NEW f, NEW t, f \in 1 .. t, t \in 1 .. Len(candles)
  PROVE  /\ \E j \in f .. t : Highest(f, t) = High(j)
         /\ \A j \in f .. t : High(j) <= Highest(f, t)
         /\ \E j \in f .. t : Lowest(f, t) = Low(j)
         /\ \A j \in f .. t : Lowest(f, t) <= Low(j)
         /\ Highest(f, t) \in Int /\ Lowest(f, t) \in Int
<1>0. f .. t \subseteq 1 .. Len(candles) /\ f .. t # {} /\ f \in Int /\ t \in Int /\ f <= t
  BY DEF CandlesOK
<1>1. /\ f .. t # {} /\ f \in Int /\ t \in Int /\ f <= t
      /\ \A j \in f .. t : High(j) \in Int /\ Low(j) \in Int
  <2>1. \A j \in 1 .. Len(candles) : High(j) \in Int /\ Low(j) \in Int
    BY PriceTypes
  <2> QED
    BY <1>0, <2>1
<1>2. \E j \in f .. t : \A x \in f .. t : High(x) <= High(j)
  <2> DEFINE v == [j \in f .. t |-> High(j)]
  <2>1. v \in [f .. t -> Int]
    BY <1>1
  <2>2. \A j \in f .. t : v[j] = High(j)
    OBVIOUS
  <2> HIDE DEF v
  <2>3. \E j \in f .. t : \A x \in f .. t : v[x] <= v[j]
    BY <1>1, <2>1, SpanPeaks
  <2> QED
    BY <2>2, <2>3
<1>3. \E j \in f .. t : \A x \in f .. t : Low(j) <= Low(x)
  <2> DEFINE v == [j \in f .. t |-> Low(j)]
  <2>1. v \in [f .. t -> Int]
    BY <1>1
  <2>2. \A j \in f .. t : v[j] = Low(j)
    OBVIOUS
  <2> HIDE DEF v
  <2>3. \E j \in f .. t : \A x \in f .. t : v[j] <= v[x]
    BY <1>1, <2>1, SpanPeaks
  <2> QED
    BY <2>2, <2>3
<1>4. PICK j \in f .. t : \A x \in f .. t : High(x) <= High(j)
  BY <1>2
<1>5. PICK k \in f .. t : \A x \in f .. t : Low(k) <= Low(x)
  BY <1>3
<1> DEFINE S == {High(x) : x \in f .. t}
           T == {Low(x) : x \in f .. t}
<1>6. S \in SUBSET Int /\ High(j) \in S /\ \A y \in S : y <= High(j)
  BY <1>1, <1>4
<1>7. T \in SUBSET Int /\ Low(k) \in T /\ \A y \in T : Low(k) <= y
  BY <1>1, <1>5
<1> HIDE DEF S, T
<1>8. Max(S) = High(j) /\ Min(T) = Low(k)
  BY <1>6, <1>7, MaxIs, MinIs
<1>9. Highest(f, t) = High(j) /\ Lowest(f, t) = Low(k)
  BY <1>8 DEF S, T, Highest, Lowest
<1> QED
  BY <1>1, <1>4, <1>5, <1>9

LEMMA RangeWidens ==
  ASSUME CandlesOK, NEW f, NEW n \in Nat, f \in 1 .. n, NEW b, b = n + 1, b <= Len(candles)
  PROVE  Widened(RangeOf(f, n), b) = RangeOf(f, b)
<1>1. n \in 1 .. Len(candles) /\ b \in 1 .. Len(candles) /\ f \in 1 .. b
      /\ f .. b = (f .. n) \cup {b}
  BY DEF CandlesOK
<1>2. High(b) \in Int /\ Low(b) \in Int
  BY <1>1, PriceTypes
<1>3. PICK h, l : h = Highest(f, n) /\ l = Lowest(f, n)
  OBVIOUS
<1>4. /\ \E j \in f .. n : h = High(j)
      /\ \A j \in f .. n : High(j) <= h
      /\ \E j \in f .. n : l = Low(j)
      /\ \A j \in f .. n : l <= Low(j)
      /\ h \in Int /\ l \in Int
  BY <1>1, <1>3, HighestIs
<1>5. PICK H, L : H = Highest(f, b) /\ L = Lowest(f, b)
  OBVIOUS
<1>6. /\ \E j \in f .. b : H = High(j)
      /\ \A j \in f .. b : High(j) <= H
      /\ \E j \in f .. b : L = Low(j)
      /\ \A j \in f .. b : L <= Low(j)
      /\ H \in Int /\ L \in Int
  BY <1>1, <1>5, HighestIs
<1>7. H = (IF h >= High(b) THEN h ELSE High(b)) /\ L = (IF l <= Low(b) THEN l ELSE Low(b))
  <2>1. PICK i, j, g, d : /\ g = High(b) /\ d = Low(b)
                          /\ i \in f .. b /\ H = High(i) /\ j \in f .. n /\ h = High(j)
    BY <1>4, <1>6
  <2>2. PICK p, q : p \in f .. b /\ L = Low(p) /\ q \in f .. n /\ l = Low(q)
    BY <1>4, <1>6
  <2>3. (i = b \/ i \in f .. n) /\ (p = b \/ p \in f .. n) /\ {j, q, b} \subseteq f .. b
    BY <1>1, <2>1, <2>2
  <2>4. h <= H /\ g <= H /\ (H = g \/ H <= h)
    BY <1>4, <1>6, <2>1, <2>3
  <2>5. L <= l /\ L <= d /\ (L = d \/ l <= L)
    BY <1>4, <1>6, <2>1, <2>2, <2>3
  <2>6. h \in Int /\ g \in Int /\ H \in Int /\ l \in Int /\ d \in Int /\ L \in Int
    BY <1>2, <1>4, <1>6, <2>1
  <2>7. H = IF h >= g THEN h ELSE g
    BY <2>4, <2>6
  <2>8. L = IF l <= d THEN l ELSE d
    BY <2>5, <2>6
  <2> QED
    BY <2>1, <2>7, <2>8
<1>8. Max({h, High(b)}) = H /\ Min({l, Low(b)}) = L
  BY <1>2, <1>4, <1>7, MaxOfTwo
<1>9. RangeOf(f, n) = [from |-> f, high |-> h, low |-> l]
      /\ RangeOf(f, b) = [from |-> f, high |-> H, low |-> L]
  BY <1>3, <1>5 DEF RangeOf
<1>10. Widened([from |-> f, high |-> h, low |-> l], b) = [from |-> f, high |-> H, low |-> L]
  <2>1. PICK r : r = [from |-> f, high |-> h, low |-> l]
    OBVIOUS
  <2>2. r.high = h /\ r.low = l
    BY <2>1
  <2>3. Widened(r, b) = [r EXCEPT !.high = H, !.low = L]
    BY <1>8, <2>2 DEF Widened
  <2>4. [r EXCEPT !.high = H, !.low = L] = [from |-> f, high |-> H, low |-> L]
    <3>1. PICK s : s = [r EXCEPT !.high = H]
      OBVIOUS
    <3>2. s = [from |-> f, high |-> H, low |-> l]
      BY <2>1, <3>1
    <3>3. [s EXCEPT !.low = L] = [from |-> f, high |-> H, low |-> L]
      BY <3>2
    <3>4. [r EXCEPT !.high = H, !.low = L] = [s EXCEPT !.low = L]
      BY <3>1
    <3> QED
      BY <3>3, <3>4
  <2> QED
    BY <2>1, <2>3, <2>4
<1> QED
  BY <1>9, <1>10

LEMMA SpanIsRange ==
  ASSUME CandlesOK, NEW b \in 1 .. Len(candles)
  PROVE  Span(b) = RangeOf(b, b)
<1>1. High(b) \in Int /\ Low(b) \in Int /\ b \in 1 .. b /\ b .. b = {b}
  BY PriceTypes DEF CandlesOK
<1>2. Highest(b, b) = High(b) /\ Lowest(b, b) = Low(b)
  BY <1>1, HighestIs
<1> QED
  BY <1>2 DEF Span, RangeOf

LEMMA RangeKept ==
  ASSUME NEW n \in Nat, Same(n), NEW f \in 1 .. n, NEW t \in 1 .. n
  PROVE  RangeOf(f, t)' = RangeOf(f, t)
<1>1. \A j \in f .. t : High(j)' = High(j) /\ Low(j)' = Low(j)
  BY PricesKept
<1>2. {High(j) : j \in f .. t}' = {High(j) : j \in f .. t}
      /\ {Low(j) : j \in f .. t}' = {Low(j) : j \in f .. t}
  BY <1>1
<1> QED
  BY <1>2 DEF RangeOf, Highest, Lowest

LEMMA ZonesKept ==
  ASSUME NEW n \in Nat, Same(n)
  PROVE  ZonesOf(n)' = ZonesOf(n)
<1>1. RunSet(n)' = RunSet(n)
  BY DEF RunSet, Runs, Starts, InWindow, Hour
<1>2. \A r \in RunSet(n) : ZoneOf(r)' = ZoneOf(r)
  <2> SUFFICES ASSUME NEW r \in RunSet(n) PROVE ZoneOf(r)' = ZoneOf(r)
    OBVIOUS
  <2>1. r.from \in 1 .. n /\ r.to \in 1 .. n /\ r.from < r.to
    BY DEF RunSet, Runs
  <2>2. PICK f, t : f = r.from /\ t = r.to - 1
    OBVIOUS
  <2>3. RangeOf(f, t)' = RangeOf(f, t)
    BY <2>1, <2>2, RangeKept
  <2> QED
    BY <2>2, <2>3 DEF ZoneOf
<1> QED
  BY <1>1, <1>2 DEF ZonesOf

LEMMA TracksKept ==
  ASSUME NEW n \in Nat, Same(n), NEW t, NEW w, Tracks(t, w, n)
  PROVE  Tracks(t, w, n)'
<1>1. \A f \in 1 .. n : RangeOf(f, n)' = RangeOf(f, n)
  BY RangeKept
<1>2. InWindow(w, n)' = InWindow(w, n) /\ \A f : Starts(w, f, n)' = Starts(w, f, n)
  BY DEF InWindow, Hour, Starts
<1> QED
  BY <1>1, <1>2 DEF Tracks

LEMMA LevelsKept ==
  ASSUME NEW n \in Nat, Same(n), NEW Z, \A z \in Z : z.to \in 1 .. n
  PROVE  LevelSet(Z, n)' = LevelSet(Z, n)
<1>1. \A l \in [zone : Z, side : Sides, hitAt : 0 .. n] :
        {j \in l.zone.to .. n : Past(l, j)}' = {j \in l.zone.to .. n : Past(l, j)}
  <2> SUFFICES ASSUME NEW l \in [zone : Z, side : Sides, hitAt : 0 .. n],
                      NEW j \in l.zone.to .. n
               PROVE  Past(l, j)' = Past(l, j)
    OBVIOUS
  <2>1. j \in 1 .. n /\ l.side \in Sides
    OBVIOUS
  <2> QED
    BY <2>1, PricesKept DEF Past, Beyond, Price
<1> QED
  BY <1>1 DEF LevelSet, FirstOf, Sides

LEMMA KzFed ==
  ASSUME NEW n \in Nat, Same(n), KzInv(n), UNCHANGED kzVars
  PROVE  KzInv(n)'
<1>1. PICK T, Z, L : T = trackers /\ Z = zones /\ L = levels
  OBVIOUS
<1>2. trackers' = T /\ zones' = Z /\ levels' = L
  BY <1>1 DEF kzVars
<1>3. \A w \in Sessions : Tracks(T[w], w, n)'
  BY <1>1, TracksKept DEF KzInv
<1>4. Z = ZonesOf(n)'
  BY <1>1, ZonesKept DEF KzInv
<1>5. L \subseteq LevelSet(Z, n)'
  <2>1. \A z \in Z : z.to \in 1 .. n
    BY <1>1 DEF KzInv, ZonesOf, ZoneOf, RunSet
  <2>2. L \subseteq LevelSet(Z, n)
    BY <1>1 DEF KzInv
  <2> QED
    BY <2>1, <2>2, LevelsKept
<1> QED
  BY <1>1, <1>2, <1>3, <1>4, <1>5 DEF KzInv, Sides

LEMMA OneStart ==
  ASSUME NEW w, NEW n \in Nat, NEW f \in 1 .. n, NEW g \in 1 .. n,
         Starts(w, f, n), Starts(w, g, n)
  PROVE  f = g
<1>1. ~(f < g)
  <2>1. f < g => g - 1 \in f .. n /\ g # 1
    OBVIOUS
  <2> QED
    BY <2>1 DEF Starts
<1>2. ~(g < f)
  <2>1. g < f => f - 1 \in g .. n /\ f # 1
    OBVIOUS
  <2> QED
    BY <2>1 DEF Starts
<1> QED
  BY <1>1, <1>2

LEMMA TracksRun ==
  ASSUME NEW b \in Nat, b # 0, NEW w, InWindow(w, b), NEW f \in 1 .. b, Starts(w, f, b),
         NEW u, u = [in |-> TRUE, range |-> RangeOf(f, b)]
  PROVE  Tracks(u, w, b)
<1>1. u.in = TRUE /\ u.range = RangeOf(f, b) /\ DOMAIN u = {"in", "range"}
  OBVIOUS
<1>2. u = [in |-> u.in, range |-> u.range]
  BY <1>1
<1> QED
  BY <1>1, <1>2 DEF Tracks

LEMMA TrackedNext ==
  ASSUME CandlesOK, NEW n \in Nat, NEW b, b = n + 1, b <= Len(candles),
         NEW w, Tracks(trackers[w], w, n)
  PROVE  Tracks(Tracked(w, b), w, b)
<1>1. PICK t : t = trackers[w]
  OBVIOUS
<1>2. /\ t.in \in BOOLEAN /\ DOMAIN t = {"in", "range"} /\ t = [in |-> t.in, range |-> t.range]
      /\ t.in <=> n # 0 /\ InWindow(w, n)
      /\ t.in => \E f \in 1 .. n : Starts(w, f, n) /\ t.range = RangeOf(f, n)
  BY <1>1 DEF Tracks
<1>3. CASE ~InWindow(w, b)
  <2>1. Tracked(w, b) = [t EXCEPT !.in = FALSE]
    BY <1>1, <1>3 DEF Tracked
  <2>2. [t EXCEPT !.in = FALSE] = [in |-> FALSE, range |-> t.range]
    <3>1. PICK x, r : x = t.in /\ r = t.range
      OBVIOUS
    <3>2. t = [in |-> x, range |-> r]
      BY <1>2, <3>1
    <3>3. \A F : [t EXCEPT !.in = F] = [in |-> F, range |-> r]
      BY <3>2
    <3> QED
      BY <3>1, <3>3
  <2> QED
    BY <1>3, <2>1, <2>2 DEF Tracks
<1>4. CASE InWindow(w, b) /\ t.in
  <2>1. PICK f \in 1 .. n : Starts(w, f, n) /\ t.range = RangeOf(f, n)
    BY <1>2, <1>4
  <2>2. Widened(t.range, b) = RangeOf(f, b)
    BY <2>1, RangeWidens
  <2>3. Tracked(w, b) = [in |-> TRUE, range |-> RangeOf(f, b)]
    BY <1>1, <1>4, <2>2 DEF Tracked
  <2>4. Starts(w, f, b) /\ f \in 1 .. b
    <3>1. \A j \in f .. b : j \in f .. n \/ j = b
      OBVIOUS
    <3> QED
      BY <1>4, <2>1, <3>1 DEF Starts
  <2> QED
    BY <1>4, <2>3, <2>4, TracksRun
<1>5. CASE InWindow(w, b) /\ ~t.in
  <2>1. Span(b) = RangeOf(b, b)
    BY SpanIsRange
  <2>2. Tracked(w, b) = [in |-> TRUE, range |-> RangeOf(b, b)]
    BY <1>1, <1>5, <2>1 DEF Tracked
  <2>3. Starts(w, b, b) /\ b \in 1 .. b
    <3>1. b .. b = {b} /\ b - 1 = n /\ (b = 1 <=> n = 0)
      OBVIOUS
    <3> QED
      BY <1>2, <1>5, <3>1 DEF Starts
  <2> QED
    <3>1. PICK f : f = b
      OBVIOUS
    <3>2. f \in 1 .. b /\ Starts(w, f, b) /\ Tracked(w, b) = [in |-> TRUE, range |-> RangeOf(f, b)]
      BY <2>2, <2>3, <3>1
    <3> QED
      BY <1>5, <3>2, TracksRun
<1> QED
  BY <1>3, <1>4, <1>5

\* The runs that candle b ends are those being tracked before it.
LEMMA LeftAre ==
  ASSUME NEW n \in Nat, NEW b, b = n + 1, \A w \in Sessions : Tracks(trackers[w], w, n)
  PROVE  ZonesOf(b) = ZonesOf(n) \cup {Left(w, b) : w \in Ended(b)}
<1>1. \A w \in Sessions, f \in 1 .. n, t \in 1 .. n :
        Runs(w, f, t) => ZoneOf([window |-> w, from |-> f, to |-> t]) \in ZonesOf(n)
  BY DEF ZonesOf, RunSet
<1>2. \A w \in Sessions, f \in 1 .. b :
        Runs(w, f, b) => /\ w \in Ended(b)
                         /\ Left(w, b) = ZoneOf([window |-> w, from |-> f, to |-> b])
  <2> SUFFICES ASSUME NEW w \in Sessions, NEW f \in 1 .. b, Runs(w, f, b)
               PROVE  /\ w \in Ended(b)
                      /\ Left(w, b) = ZoneOf([window |-> w, from |-> f, to |-> b])
    OBVIOUS
  <2>1. f \in 1 .. n /\ b - 1 = n /\ Starts(w, f, n) /\ ~InWindow(w, b)
    BY DEF Runs
  <2>2. n # 0 /\ InWindow(w, n)
    BY <2>1 DEF Starts
  <2>3. trackers[w].in /\ \E g \in 1 .. n : Starts(w, g, n) /\ trackers[w].range = RangeOf(g, n)
    BY <2>2 DEF Tracks
  <2>4. trackers[w].range = RangeOf(f, n)
    BY <2>1, <2>3, OneStart
  <2> QED
    BY <2>1, <2>3, <2>4 DEF Ended, Left, ZoneOf
<1>3. \A w \in Ended(b) : \E f \in 1 .. n : Runs(w, f, b)
  <2> SUFFICES ASSUME NEW w \in Ended(b) PROVE \E f \in 1 .. n : Runs(w, f, b)
    OBVIOUS
  <2>1. w \in Sessions /\ trackers[w].in /\ ~InWindow(w, b)
    BY DEF Ended
  <2>2. PICK f \in 1 .. n : Starts(w, f, n)
    BY <2>1 DEF Tracks
  <2>3. f < b /\ b - 1 = n
    OBVIOUS
  <2> QED
    BY <2>1, <2>2, <2>3 DEF Runs
<1>4. ZonesOf(n) \subseteq ZonesOf(b)
  BY DEF ZonesOf, RunSet
<1>5. {Left(w, b) : w \in Ended(b)} \subseteq ZonesOf(b)
  <2> SUFFICES ASSUME NEW w \in Ended(b) PROVE Left(w, b) \in ZonesOf(b)
    OBVIOUS
  <2>1. PICK f \in 1 .. n : Runs(w, f, b)
    BY <1>3
  <2>2. w \in Sessions /\ f \in 1 .. b /\ b \in 1 .. b
    BY DEF Ended
  <2>3. PICK r : r = [window |-> w, from |-> f, to |-> b]
    OBVIOUS
  <2>4. r \in RunSet(b)
    BY <2>1, <2>2, <2>3 DEF RunSet
  <2>5. Left(w, b) = ZoneOf(r)
    BY <1>2, <2>1, <2>2, <2>3
  <2> QED
    BY <2>4, <2>5 DEF ZonesOf
<1>6. ZonesOf(b) \subseteq ZonesOf(n) \cup {Left(w, b) : w \in Ended(b)}
  <2> SUFFICES ASSUME NEW r \in RunSet(b)
               PROVE  ZoneOf(r) \in ZonesOf(n) \/ \E w \in Ended(b) : ZoneOf(r) = Left(w, b)
    BY DEF ZonesOf
  <2>1. /\ r.window \in Sessions /\ r.from \in 1 .. b /\ r.to \in 1 .. b
        /\ Runs(r.window, r.from, r.to)
        /\ r = [window |-> r.window, from |-> r.from, to |-> r.to]
    BY DEF RunSet
  <2>2. CASE r.to = b
    BY <1>2, <2>1, <2>2
  <2>3. CASE r.to # b
    <3>1. r.to \in 1 .. n /\ r.from \in 1 .. n
      BY <2>1, <2>3 DEF Runs
    <3>2. r \in RunSet(n)
      BY <2>1, <3>1 DEF RunSet
    <3> QED
      BY <3>2 DEF ZonesOf
  <2> QED
    BY <2>2, <2>3
<1> QED
  BY <1>4, <1>5, <1>6

LEMMA LevelTested ==
  ASSUME NEW n \in Nat, NEW Z, NEW l \in LevelSet(Z, n), l.zone.to \in 1 .. n + 1
  PROVE  Tested(l, n + 1) \in LevelSet(Z, n + 1)
         /\ Tested(l, n + 1).zone = l.zone /\ Tested(l, n + 1).side = l.side
<1> DEFINE H == {j \in 1 .. n + 1 : Past(l, j)}
           p == IF l.hitAt = 0 /\ Past(l, n + 1) THEN [l EXCEPT !.hitAt = n + 1] ELSE l
<1>1. /\ l \in [zone : Z, side : Sides, hitAt : 0 .. n]
      /\ l.hitAt = FirstOf({j \in l.zone.to .. n : Past(l, j)})
  BY DEF LevelSet
<1>2. /\ {j \in l.zone.to .. n : Past(l, j)} = H \cap (l.zone.to .. n)
      /\ {j \in l.zone.to .. n + 1 : Past(l, j)} = H \cap (l.zone.to .. n + 1)
      /\ (n + 1 \in H <=> Past(l, n + 1)) /\ H \in SUBSET Nat
  OBVIOUS
<1>3. p \in [zone : Z, side : Sides, hitAt : 0 .. n + 1]
  BY <1>1
<1>4. p.side = l.side /\ p.zone = l.zone
      /\ p.hitAt = IF l.hitAt = 0 /\ Past(l, n + 1) THEN n + 1 ELSE l.hitAt
  BY <1>1
<1>0. Tested(l, n + 1) = p
  BY DEF Tested, Past
<1>5. \A j : Past(p, j) = Past(l, j)
  <2> HIDE DEF p
  <2> QED
    BY <1>4 DEF Past, Price
<1> HIDE DEF p, H
<1>6. FirstOf(H \cap (l.zone.to .. n + 1)) = p.hitAt
  BY <1>1, <1>2, <1>4, FirstOfNext
<1>7. {j \in p.zone.to .. n + 1 : Past(p, j)} = H \cap (l.zone.to .. n + 1)
  BY <1>2, <1>4, <1>5
<1>8. p \in LevelSet(Z, n + 1)
  BY <1>3, <1>6, <1>7 DEF LevelSet
<1> QED
  BY <1>0, <1>4, <1>8

LEMMA KzTurned ==
  ASSUME CandlesOK, NEW n \in Nat, NEW b, b = n + 1, b <= Len(candles), Same(b), KzInv(n), KzBar(b)
  PROVE  KzInv(b)'
<1> DEFINE new == {Left(w, b) : w \in Ended(b)}
           fresh == [zone : new, side : Sides, hitAt : {0}]
<1>1. PICK T, Z, L : T = trackers' /\ Z = zones' /\ L = levels'
  OBVIOUS
<1>2. /\ T = [w \in Sessions |-> Tracked(w, b)] /\ Z = zones \cup new
      /\ L = {Tested(l, b) : l \in levels \cup fresh}
  BY <1>1 DEF KzBar
<1>3. \A w \in Sessions : Tracks(T[w], w, b)'
  <2>1. \A w \in Sessions : Tracks(T[w], w, b)
    BY <1>2, TrackedNext DEF KzInv
  <2> QED
    BY <2>1, TracksKept
<1>4. Z = ZonesOf(b) /\ zones = ZonesOf(n)
  BY <1>2, LeftAre DEF KzInv
<1>5. Z = ZonesOf(b)'
  BY <1>4, ZonesKept
<1>6. (\A z \in Z : z.to \in 1 .. b) /\ (\A z \in new : z.to = b) /\ \A z \in zones : z.to \in 1 .. n
  BY <1>4 DEF ZonesOf, ZoneOf, RunSet, Left
<1> HIDE DEF new
<1>7. levels \cup fresh \subseteq LevelSet(Z, n)
  <2>1. levels \subseteq LevelSet(Z, n)
    BY <1>2 DEF KzInv, LevelSet
  <2>2. fresh \subseteq LevelSet(Z, n)
    <3> SUFFICES ASSUME NEW l \in fresh PROVE l \in LevelSet(Z, n)
      OBVIOUS
    <3>1. l \in [zone : Z, side : Sides, hitAt : 0 .. n] /\ l.hitAt = 0 /\ l.zone \in new
      BY <1>2
    <3>2. {j \in l.zone.to .. n : Past(l, j)} = {}
      BY <1>6, <3>1
    <3> QED
      BY <3>1, <3>2 DEF LevelSet, FirstOf
  <2> QED
    BY <2>1, <2>2
<1>8. \A l \in levels \cup fresh :
        /\ Tested(l, b) \in LevelSet(Z, b)
        /\ Tested(l, b).zone = l.zone /\ Tested(l, b).side = l.side
  <2> SUFFICES ASSUME NEW l \in LevelSet(Z, n)
               PROVE  /\ Tested(l, b) \in LevelSet(Z, b)
                      /\ Tested(l, b).zone = l.zone /\ Tested(l, b).side = l.side
    BY <1>7
  <2>1. l.zone.to \in 1 .. b
    BY <1>6 DEF LevelSet
  <2> QED
    BY <2>1, LevelTested
<1>9. L \subseteq LevelSet(Z, b)'
  <2>1. L \subseteq LevelSet(Z, b)
    BY <1>2, <1>8
  <2> QED
    BY <1>6, <2>1, LevelsKept
<1>10. \A z \in Z : \A s \in Sides : \E l \in L : l.zone = z /\ l.side = s
  <2> SUFFICES ASSUME NEW z \in Z, NEW s \in Sides PROVE \E l \in L : l.zone = z /\ l.side = s
    OBVIOUS
  <2>1. \E l \in levels \cup fresh : l.zone = z /\ l.side = s
    <3>1. CASE z \in zones
      BY <3>1 DEF KzInv
    <3>2. CASE z \in new
      <4>1. PICK l : l = [zone |-> z, side |-> s, hitAt |-> 0]
        OBVIOUS
      <4>2. l \in fresh /\ l.zone = z /\ l.side = s
        BY <3>2, <4>1
      <4> QED
        BY <4>2
    <3> QED
      BY <1>2, <3>1, <3>2
  <2>2. PICK l \in levels \cup fresh : l.zone = z /\ l.side = s
    BY <2>1
  <2>3. Tested(l, b) \in L /\ Tested(l, b).zone = z /\ Tested(l, b).side = s
    BY <1>2, <1>8, <2>2
  <2> QED
    BY <2>3
<1>11. DOMAIN T = Sessions
  BY <1>2
<1> QED
  BY <1>1, <1>3, <1>5, <1>9, <1>10, <1>11 DEF KzInv, Sides

\* The invariant says what the sessions left are and when each level was hit.
LEMMA KzSays ==
  ASSUME NEW n \in Nat, n = bar, KzInv(n)
  PROVE  SessionsAsDefined
<1> DEFINE runs == {r \in [window : Sessions, from : Bars, to : Bars] :
                      /\ r.from < r.to /\ \A j \in r.from .. r.to - 1 : InWindow(r.window, j)
                      /\ ~InWindow(r.window, r.to)
                      /\ r.from = 1 \/ ~InWindow(r.window, r.from - 1)}
<1>1. runs = RunSet(n)
  BY DEF RunSet, Runs, Starts, Bars
<1>2. zones = {[window |-> r.window, to |-> r.to,
                range |-> [from |-> r.from,
                           high |-> Max({High(j) : j \in r.from .. r.to - 1}),
                           low |-> Min({Low(j) : j \in r.from .. r.to - 1})]] : r \in RunSet(n)}
  BY DEF KzInv, ZonesOf, ZoneOf, RangeOf, Highest, Lowest
<1>3. {[zone |-> l.zone, side |-> l.side] : l \in levels} = [zone : zones, side : Sides]
  <2>1. \A l \in levels : l.zone \in zones /\ l.side \in Sides
    BY DEF KzInv, LevelSet
  <2>2. \A p \in [zone : zones, side : Sides] : \E l \in levels : p = [zone |-> l.zone, side |-> l.side]
    <3> SUFFICES ASSUME NEW p \in [zone : zones, side : Sides]
                 PROVE  \E l \in levels : p = [zone |-> l.zone, side |-> l.side]
      OBVIOUS
    <3>1. PICK z, s : z = p.zone /\ s = p.side
      OBVIOUS
    <3>2. p = [zone |-> z, side |-> s] /\ z \in zones /\ s \in Sides
      BY <3>1
    <3>3. PICK l \in levels : l.zone = z /\ l.side = s
      BY <3>2 DEF KzInv
    <3> QED
      BY <3>2, <3>3
  <2>3. {[zone |-> l.zone, side |-> l.side] : l \in levels} \subseteq [zone : zones, side : Sides]
    BY <2>1
  <2>4. [zone : zones, side : Sides] \subseteq {[zone |-> l.zone, side |-> l.side] : l \in levels}
    BY <2>2
  <2> QED
    BY <2>3, <2>4
<1>4. \A l \in levels : l.hitAt = FirstOf({j \in l.zone.to .. n : Past(l, j)})
  BY DEF KzInv, LevelSet
<1> HIDE DEF runs
<1>5. \A l \in levels :
        LET past == {j \in l.zone.to .. bar : Beyond(l.side, Level(l.side, j), Price(l))}
        IN l.hitAt = IF past = {} THEN 0 ELSE Min(past)
  BY <1>4 DEF FirstOf, Past
<1> QED
  BY <1>1, <1>2, <1>3, <1>5 DEF SessionsAsDefined, runs

-----------------------------------------------------------------------------
(***************************************************************************)
(* SmartMoney: fair value gaps.  The gaps in the array are those that have *)
(* formed and that no candle has closed since, one for each candle.        *)
(***************************************************************************)
LeftOf(r, S, list, H) ==
  /\ r \in Seq(S) /\ ToSet(r) = ToSet(list) \ H
  /\ \A x, y \in DOMAIN r : x < y =>
       \E i, j \in DOMAIN list : i < j /\ r[x] = list[i] /\ r[y] = list[j]

LEMMA ListLeft ==
  ASSUME NEW S, NEW list \in Seq(S), NEW H,
         NEW r, r = SplicedDown(list, {x \in DOMAIN list : list[x] \in H})
  PROVE  LeftOf(r, S, list, H)
<1>1. PICK gone : gone = {x \in DOMAIN list : list[x] \in H}
  OBVIOUS
<1>2. r = SplicedDown(list, gone)
  BY <1>1
<1>3. /\ r \in Seq(S)
      /\ ToSet(r) = {list[i] : i \in DOMAIN list \ gone}
      /\ \A x, y \in DOMAIN r : x < y =>
           \E i, j \in DOMAIN list \ gone : i < j /\ r[x] = list[i] /\ r[y] = list[j]
  <2>1. Leaves(r, S, list, gone)
    BY <1>2, SplicedLeaves
  <2> QED
    BY <2>1 DEF Leaves
<1>4. {list[i] : i \in DOMAIN list \ gone} = ToSet(list) \ H
  BY <1>1 DEF ToSet
<1>5. \A x, y \in DOMAIN r : x < y =>
        \E i, j \in DOMAIN list : i < j /\ r[x] = list[i] /\ r[y] = list[j]
  BY <1>3
<1> QED
  BY <1>3, <1>4, <1>5 DEF LeftOf

LEMMA JoinedSet ==
  ASSUME NEW S, NEW s \in Seq(S), NEW t \in Seq(S)
  PROVE  ToSet(s \o t) = ToSet(s) \cup ToSet(t)
<1>1. PICK m, k : m = Len(s) /\ k = Len(t)
  OBVIOUS
<1>2. PICK u : u = s \o t
  OBVIOUS
<1>3. /\ m \in Nat /\ k \in Nat /\ DOMAIN s = 1 .. m /\ DOMAIN t = 1 .. k /\ DOMAIN u = 1 .. m + k
      /\ \A x \in 1 .. m + k : u[x] = IF x <= m THEN s[x] ELSE t[x - m]
  BY <1>1, <1>2, ArrayParts
<1>4. \A x \in 1 .. m + k : u[x] \in ToSet(s) \cup ToSet(t)
  <2> SUFFICES ASSUME NEW x \in 1 .. m + k PROVE u[x] \in ToSet(s) \cup ToSet(t)
    OBVIOUS
  <2>1. CASE x <= m
    <3>1. x \in 1 .. m
      BY <1>3, <2>1
    <3> QED
      BY <1>3, <2>1, <3>1 DEF ToSet
  <2>2. CASE ~(x <= m)
    <3>1. x - m \in 1 .. k
      BY <1>3, <2>2
    <3> QED
      BY <1>3, <2>2, <3>1 DEF ToSet
  <2> QED
    BY <2>1, <2>2
<1>5. \A x \in 1 .. m : s[x] \in ToSet(u)
  <2>1. \A x \in 1 .. m : x \in 1 .. m + k /\ x <= m
    BY <1>3
  <2> QED
    BY <1>3, <2>1 DEF ToSet
<1>6. \A x \in 1 .. k : t[x] \in ToSet(u)
  <2> SUFFICES ASSUME NEW x \in 1 .. k PROVE t[x] \in ToSet(u)
    OBVIOUS
  <2>1. x + m \in 1 .. m + k /\ ~(x + m <= m) /\ x + m - m = x
    BY <1>3
  <2>2. u[x + m] = t[x]
    BY <1>3, <2>1
  <2> QED
    BY <1>3, <2>1, <2>2 DEF ToSet
<1>7. ToSet(u) \subseteq ToSet(s) \cup ToSet(t)
  BY <1>3, <1>4 DEF ToSet
<1>8. ToSet(s) \cup ToSet(t) \subseteq ToSet(u)
  <2>1. ToSet(s) \subseteq ToSet(u)
    <3>1. \A v \in ToSet(s) : \E x \in 1 .. m : v = s[x]
      BY <1>3 DEF ToSet
    <3> QED
      BY <1>5, <3>1
  <2>2. ToSet(t) \subseteq ToSet(u)
    <3>1. \A v \in ToSet(t) : \E x \in 1 .. k : v = t[x]
      BY <1>3 DEF ToSet
    <3> QED
      BY <1>6, <3>1
  <2> QED
    BY <2>1, <2>2
<1> QED
  BY <1>2, <1>7, <1>8

LEMMA OneIn ==
  ASSUME NEW x PROVE ToSet(<< x >>) = {x} /\ ToSet(<<>>) = {} /\ Len(<< x >>) = 1
BY DEF ToSet

GapSet(n) == [side : Sides, at : 1 .. n]
OpenGaps(n) ==
  {g \in GapSet(n) : IsGap(g.side, g.at) /\ \A j \in g.at .. n : ~GapMitigated(g, j)}

GapInv(n) ==
  /\ gaps \in Seq(GapSet(n)) /\ ToSet(gaps) = OpenGaps(n)
  /\ \A x, y \in DOMAIN gaps : x < y => gaps[x].at < gaps[y].at

LEMMA OpenGapsKept ==
  ASSUME NEW n \in Nat, Same(n)
  PROVE  OpenGaps(n)' = OpenGaps(n)
<1>1. \A g \in GapSet(n) : IsGap(g.side, g.at)' = IsGap(g.side, g.at)
  <2> SUFFICES ASSUME NEW s \in Sides, NEW b \in 1 .. n PROVE IsGap(s, b)' = IsGap(s, b)
    BY DEF GapSet
  <2>1. CASE b > 2
    <3>1. PICK c, d : c = b - 1 /\ d = b - 2
      OBVIOUS
    <3>2. c \in 1 .. n /\ d \in 1 .. n
      BY <2>1, <3>1
    <3> QED
      BY <3>1, <3>2, PricesKept DEF IsGap
  <2>2. CASE ~(b > 2)
    BY <2>2 DEF IsGap
  <2> QED
    BY <2>1, <2>2
<1>2. \A g \in GapSet(n) : IsGap(g.side, g.at) =>
        \A j \in g.at .. n : GapMitigated(g, j)' = GapMitigated(g, j)
  <2> SUFFICES ASSUME NEW g \in GapSet(n), IsGap(g.side, g.at), NEW j \in g.at .. n
               PROVE  GapMitigated(g, j)' = GapMitigated(g, j)
    OBVIOUS
  <2>1. PICK d : d = g.at - 2
    OBVIOUS
  <2>2. d \in 1 .. n /\ j \in 1 .. n
    BY <2>1 DEF GapSet, IsGap
  <2> QED
    BY <2>1, <2>2, PricesKept DEF GapMitigated
<1> QED
  BY <1>1, <1>2 DEF OpenGaps, GapSet, Sides

GapAt(s, b) == IF IsGap(s, b) THEN << [side |-> s, at |-> b] >> ELSE <<>>

\* A candle leaves a gap on one side at most.
LEMMA NewGapsAre ==
  ASSUME CandlesOK, NEW n \in Nat, NEW b, b = n + 1, b <= Len(candles)
  PROVE  /\ NewGaps(b) \in Seq(GapSet(b)) /\ Len(NewGaps(b)) <= 1
         /\ ToSet(NewGaps(b)) = {g \in [side : Sides, at : {b}] : IsGap(g.side, b)}
<1>1. NewGaps(b) = GapAt("bullish", b) \o GapAt("bearish", b)
  BY DEF NewGaps, GapAt
<1>2. ~(IsGap("bullish", b) /\ IsGap("bearish", b))
  <2>1. CASE b > 2
    <3>1. PICK d : d = b - 2
      OBVIOUS
    <3>2. d \in 1 .. Len(candles) /\ b \in 1 .. Len(candles)
      BY <2>1, <3>1 DEF CandlesOK
    <3>3. High(b) \in Int /\ Low(b) \in Int /\ Low(b) <= High(b)
      BY <3>2, PriceTypes
    <3>4. High(d) \in Int /\ Low(d) \in Int /\ Low(d) <= High(d)
      BY <3>2, PriceTypes
    <3> QED
      BY <3>1, <3>3, <3>4 DEF IsGap
  <2>2. CASE ~(b > 2)
    BY <2>2 DEF IsGap
  <2> QED
    BY <2>1, <2>2
<1>3. \A s \in Sides : [side |-> s, at |-> b] \in GapSet(b)
  <2>1. b \in 1 .. b
    OBVIOUS
  <2> QED
    BY <2>1 DEF GapSet
<1>4. \A g \in [side : Sides, at : {b}] : g = [side |-> g.side, at |-> b] /\ g.side \in Sides
  OBVIOUS
<1>5. Sides = {"bullish", "bearish"}
  BY DEF Sides
<1>6. \A s \in Sides : IsGap(s, b) /\ (\A t \in Sides : IsGap(t, b) => t = s)
        /\ NewGaps(b) = << [side |-> s, at |-> b] >>
        => /\ NewGaps(b) \in Seq(GapSet(b)) /\ Len(NewGaps(b)) <= 1
           /\ ToSet(NewGaps(b)) = {g \in [side : Sides, at : {b}] : IsGap(g.side, b)}
  <2> SUFFICES ASSUME NEW s \in Sides, IsGap(s, b), \A t \in Sides : IsGap(t, b) => t = s,
                      NewGaps(b) = << [side |-> s, at |-> b] >>
               PROVE  /\ NewGaps(b) \in Seq(GapSet(b)) /\ Len(NewGaps(b)) <= 1
                      /\ ToSet(NewGaps(b)) = {g \in [side : Sides, at : {b}] : IsGap(g.side, b)}
    OBVIOUS
  <2>1. PICK x : x = [side |-> s, at |-> b]
    OBVIOUS
  <2>2. x \in GapSet(b) /\ NewGaps(b) = << x >>
    BY <1>3, <2>1
  <2>3. {g \in [side : Sides, at : {b}] : IsGap(g.side, b)} = {x}
    BY <1>4, <2>1
  <2>4. << x >> \in Seq(GapSet(b))
    BY <2>2, Singletons
  <2>5. Len(<< x >>) <= 1 /\ ToSet(<< x >>) = {x}
    BY OneIn
  <2> QED
    BY <2>2, <2>3, <2>4, <2>5
<1>7. CASE IsGap("bullish", b)
  <2>1. NewGaps(b) = << [side |-> "bullish", at |-> b] >>
    BY <1>1, <1>2, <1>7 DEF GapAt
  <2> QED
    BY <1>2, <1>5, <1>6, <1>7, <2>1
<1>8. CASE IsGap("bearish", b)
  <2>1. NewGaps(b) = << [side |-> "bearish", at |-> b] >>
    BY <1>1, <1>2, <1>8 DEF GapAt
  <2> QED
    BY <1>2, <1>5, <1>6, <1>8, <2>1
<1>9. CASE ~IsGap("bullish", b) /\ ~IsGap("bearish", b)
  <2>1. NewGaps(b) = <<>>
    BY <1>1, <1>9 DEF GapAt
  <2>2. {g \in [side : Sides, at : {b}] : IsGap(g.side, b)} = {}
    BY <1>4, <1>5, <1>9
  <2>3. <<>> \in Seq(GapSet(b)) /\ Len(<<>>) <= 1 /\ ToSet(<<>>) = {}
    BY Singletons DEF ToSet
  <2> QED
    BY <2>1, <2>2, <2>3
<1> QED
  BY <1>7, <1>8, <1>9

LEMMA GapsTurned ==
  ASSUME CandlesOK, NEW n \in Nat, NEW b, b = n + 1, b <= Len(candles), Same(b),
         GapInv(n), SmcBar(b)
  PROVE  GapInv(b)'
<1> DEFINE H == {g \in GapSet(b) : GapMitigated(g, b)}
<1>1. PICK list, r, new : new = NewGaps(b) /\ list = gaps \o new /\ r = gaps'
  OBVIOUS
<1>2. /\ new \in Seq(GapSet(b)) /\ Len(new) <= 1
      /\ ToSet(new) = {g \in [side : Sides, at : {b}] : IsGap(g.side, b)}
  BY <1>1, NewGapsAre
<1>3. gaps \in Seq(GapSet(b)) /\ \A x \in DOMAIN gaps : gaps[x].at \in 1 .. n
  <2>1. GapSet(n) \subseteq GapSet(b)
    BY DEF GapSet
  <2>2. \A x \in DOMAIN gaps : gaps[x] \in GapSet(n)
    BY DEF GapInv
  <2>3. gaps \in Seq(GapSet(b))
    BY <2>1, <2>2, ArrayIn DEF GapInv
  <2>4. \A g \in GapSet(n) : g.at \in 1 .. n
    BY DEF GapSet
  <2> QED
    BY <2>2, <2>3, <2>4
<1>4. /\ list \in Seq(GapSet(b)) /\ Len(gaps) \in Nat /\ Len(new) \in Nat
      /\ DOMAIN gaps = 1 .. Len(gaps) /\ DOMAIN new = 1 .. Len(new)
      /\ DOMAIN list = 1 .. Len(gaps) + Len(new)
      /\ \A x \in 1 .. Len(gaps) + Len(new) :
           list[x] = IF x <= Len(gaps) THEN gaps[x] ELSE new[x - Len(gaps)]
  BY <1>1, <1>2, <1>3, ArrayParts
<1>5. r = SplicedDown(list, {x \in DOMAIN list : list[x] \in H})
  <2>1. r = SplicedDown(list, {x \in DOMAIN list : GapMitigated(list[x], b)})
    BY <1>1 DEF SmcBar, Unmitigated, Spliced
  <2>2. {x \in DOMAIN list : GapMitigated(list[x], b)} = {x \in DOMAIN list : list[x] \in H}
    BY <1>4
  <2> QED
    BY <2>1, <2>2
<1> HIDE DEF H
<1>6. /\ r \in Seq(GapSet(b)) /\ ToSet(r) = ToSet(list) \ H
      /\ \A x, y \in DOMAIN r : x < y =>
           \E i, j \in DOMAIN list : i < j /\ r[x] = list[i] /\ r[y] = list[j]
  <2>1. PICK A : A = GapSet(b)
    OBVIOUS
  <2>2. list \in Seq(A)
    BY <1>4, <2>1
  <2>3. LeftOf(r, A, list, H)
    BY <1>5, <2>2, ListLeft
  <2> QED
    BY <2>1, <2>3 DEF LeftOf
<1>7. \A i, j \in DOMAIN list : i < j => list[i].at < list[j].at
  <2> SUFFICES ASSUME NEW i \in 1 .. Len(gaps) + Len(new), NEW j \in 1 .. Len(gaps) + Len(new), i < j
               PROVE  list[i].at < list[j].at
    BY <1>4
  <2>1. i \in 1 .. Len(gaps) /\ i <= Len(gaps)
    BY <1>2, <1>4
  <2>2. CASE j <= Len(gaps)
    <3>1. j \in 1 .. Len(gaps)
      BY <1>4, <2>2
    <3> QED
      BY <1>4, <2>1, <2>2, <3>1 DEF GapInv
  <2>3. CASE ~(j <= Len(gaps))
    <3>1. j - Len(gaps) \in 1 .. Len(new)
      BY <1>4, <2>3
    <3>2. list[j] \in ToSet(new)
      BY <1>4, <2>3, <3>1 DEF ToSet
    <3>3. list[j].at = b
      BY <1>2, <3>2
    <3>4. list[i] = gaps[i] /\ i \in DOMAIN gaps
      BY <1>4, <2>1
    <3>5. list[i].at \in 1 .. n
      BY <1>3, <3>4
    <3> QED
      BY <3>3, <3>5
  <2> QED
    BY <2>2, <2>3
<1>8. ToSet(list) = OpenGaps(n) \cup {g \in [side : Sides, at : {b}] : IsGap(g.side, b)}
  BY <1>1, <1>2, <1>3, JoinedSet DEF GapInv
<1>9. ToSet(r) = OpenGaps(b)
  <2>1. \A g \in GapSet(b) : g.at \in 1 .. n \/ g.at = b
    BY DEF GapSet
  <2>2. \A g \in GapSet(b) : g.at \in 1 .. n =>
          (g \in OpenGaps(b) <=> g \in OpenGaps(n) /\ g \notin H)
    <3> SUFFICES ASSUME NEW g \in GapSet(b), g.at \in 1 .. n
                 PROVE  g \in OpenGaps(b) <=> g \in OpenGaps(n) /\ g \notin H
      OBVIOUS
    <3>1. g \in GapSet(n) /\ (g \in H <=> GapMitigated(g, b))
      BY DEF GapSet, H
    <3>2. b \in g.at .. b /\ \A j \in g.at .. b : j \in g.at .. n \/ j = b
      OBVIOUS
    <3>3. \A j \in g.at .. n : j \in g.at .. b
      OBVIOUS
    <3> QED
      BY <3>1, <3>2, <3>3 DEF OpenGaps
  <2>3. \A g \in GapSet(b) : g.at = b =>
          (g \in OpenGaps(b) <=> IsGap(g.side, b) /\ g \notin H)
    <3> SUFFICES ASSUME NEW g \in GapSet(b), g.at = b
                 PROVE  g \in OpenGaps(b) <=> IsGap(g.side, b) /\ g \notin H
      OBVIOUS
    <3>1. g.at .. b = {b} /\ (g \in H <=> GapMitigated(g, b))
      BY DEF H
    <3> QED
      BY <3>1 DEF OpenGaps
  <2>4. OpenGaps(n) \subseteq GapSet(b) /\ OpenGaps(b) \subseteq GapSet(b)
        /\ \A g \in OpenGaps(n) : g.at \in 1 .. n
    BY DEF OpenGaps, GapSet
  <2>5. \A g \in [side : Sides, at : {b}] : g \in GapSet(b) /\ g.at = b
    BY DEF GapSet
  <2>6. \A g \in GapSet(b) : g.at = b => g \in [side : Sides, at : {b}]
    BY DEF GapSet
  <2>7. \A g \in GapSet(b) : g \in ToSet(r) <=> g \in OpenGaps(b)
    <3> SUFFICES ASSUME NEW g \in GapSet(b) PROVE g \in ToSet(r) <=> g \in OpenGaps(b)
      OBVIOUS
    <3>1. CASE g.at \in 1 .. n
      <4>1. g.at # b
        BY <3>1
      <4> QED
        BY <1>6, <1>8, <2>2, <2>5, <3>1, <4>1
    <3>2. CASE g.at = b
      <4>1. ~(g.at \in 1 .. n)
        BY <3>2
      <4> QED
        BY <1>6, <1>8, <2>3, <2>4, <2>6, <3>2, <4>1
    <3> QED
      BY <2>1, <3>1, <3>2
  <2>8. ToSet(r) \subseteq GapSet(b)
    BY <1>6 DEF ToSet
  <2> QED
    BY <2>4, <2>7, <2>8
<1>10. \A x, y \in DOMAIN r : x < y => r[x].at < r[y].at
  BY <1>6, <1>7
<1>11. OpenGaps(b)' = OpenGaps(b) /\ GapSet(b)' = GapSet(b)
  BY OpenGapsKept DEF GapSet, Sides
<1> QED
  BY <1>1, <1>6, <1>9, <1>10, <1>11 DEF GapInv, ToSet

-----------------------------------------------------------------------------
(***************************************************************************)
(* SmartMoney: pivots, breaks and the order blocks they leave behind.      *)
(***************************************************************************)
PivotSet(n) == [at : 0 .. n, crossed : BOOLEAN]

PivotInv(n) ==
  /\ legs = [k \in Kinds |-> Leg(n, Size[k])]
  /\ pivots \in [Kinds -> [Sides -> PivotSet(n)]]

BlockSet(n) == [side : Sides, at : 1 .. n, made : 1 .. n]
OpenOf(M, k, n) ==
  {m.block : m \in {q \in M : /\ q.kind = k
                              /\ \A j \in q.block.made .. n : ~BlockMitigated(q.block, j)}}

BlockInv(n) ==
  /\ made \subseteq [kind : Structures, block : BlockSet(n)]
  /\ blocks \in [Structures -> Seq(BlockSet(n))]
  /\ \A k \in Structures :
       /\ ToSet(blocks[k]) = OpenOf(made, k, n)
       /\ \A x, y \in DOMAIN blocks[k] : x < y => blocks[k][x].made > blocks[k][y].made

LEMMA SizesAre ==
  /\ Structures \subseteq Kinds /\ "swing" \in Structures
  /\ \A k \in Kinds : Size[k] \in Nat \ {0}
  /\ Size["swing"] = SwingLength
BY SizesArePositive DEF Structures, Kinds, Size

LEMMA LegIs ==
  ASSUME NEW n \in Nat, NEW size \in Nat \ {0}
  PROVE  Leg(n, size) \in {0, 1} /\ (n <= size => Leg(n, size) = 0)
BY DEF Leg

LEMMA LegKept ==
  ASSUME NEW n \in Nat, Same(n), NEW size \in Nat \ {0}
  PROVE  Leg(n, size)' = Leg(n, size)
<1>1. CASE n > size
  <2>1. PICK p, since : p = n - size /\ since = n - size + 1 .. n
    OBVIOUS
  <2>2. p \in 1 .. n /\ \A j \in since : j \in 1 .. n
    BY <1>1, <2>1
  <2>3. High(p)' = High(p) /\ Low(p)' = Low(p)
        /\ \A j \in since : High(j)' = High(j) /\ Low(j)' = Low(j)
    BY <2>2, PricesKept
  <2> QED
    BY <2>1, <2>3 DEF Leg
<1>2. CASE ~(n > size)
  BY <1>2 DEF Leg
<1> QED
  BY <1>1, <1>2

\* A pivot is confirmed Size[k] candles late.
LEMMA ConfirmedLate ==
  ASSUME NEW n \in Nat, NEW b, b = n + 1, PivotInv(n), NEW k \in Kinds, NEW s \in Sides,
         Confirms(k, s, b)
  PROVE  b - Size[k] \in 1 .. n
<1>1. Leg(b, Size[k]) # Leg(n, Size[k]) /\ Size[k] \in Nat \ {0}
  BY SizesAre DEF Confirms, PivotInv
<1>2. b > Size[k]
  BY <1>1, LegIs
<1> QED
  BY <1>1, <1>2

LEMMA NewPivotIn ==
  ASSUME NEW n \in Nat, NEW b, b = n + 1, PivotInv(n), NEW k \in Kinds, NEW s \in Sides
  PROVE  NewPivot(k, s, b) \in PivotSet(n)
<1>1. CASE Confirms(k, s, b)
  <2>1. b - Size[k] \in 0 .. n
    BY <1>1, ConfirmedLate
  <2> QED
    BY <1>1, <2>1 DEF NewPivot, PivotSet
<1>2. CASE ~Confirms(k, s, b)
  BY <1>2 DEF NewPivot, PivotInv
<1> QED
  BY <1>1, <1>2

\* The close of a candle does not break a structure on both sides.
LEMMA OneBreak ==
  ASSUME CandlesOK, NEW n \in Nat, NEW b, b = n + 1, b <= Len(candles), PivotInv(n),
         NEW k \in Kinds
  PROVE  ~(Breaks(k, "bullish", b) /\ Breaks(k, "bearish", b))
<1> SUFFICES ASSUME Breaks(k, "bullish", b), Breaks(k, "bearish", b) PROVE FALSE
  OBVIOUS
<1>1. PICK p, q : p = NewPivot(k, "bullish", b).at /\ q = NewPivot(k, "bearish", b).at
  OBVIOUS
<1>2. p \in 1 .. n /\ q \in 1 .. n
  <2>1. NewPivot(k, "bullish", b) \in PivotSet(n) /\ NewPivot(k, "bearish", b) \in PivotSet(n)
    BY NewPivotIn DEF Sides
  <2> QED
    BY <1>1, <2>1 DEF Breaks, PivotSet
<1>3. PICK c : c = b - 1
  OBVIOUS
<1>4. b \in 1 .. Len(candles) /\ c \in 1 .. Len(candles) /\ b # 1
  BY <1>2, <1>3 DEF CandlesOK
<1>5. p \in 1 .. Len(candles) /\ q \in 1 .. Len(candles)
  BY <1>2, <1>4
<1>6. Crosses("bullish", p, b) /\ Crosses("bearish", q, b)
  BY <1>1 DEF Breaks
<1>7. Close(b) \in Int /\ Close(c) \in Int /\ High(p) \in Int /\ Low(q) \in Int
  BY <1>4, <1>5, PriceTypes
<1>8. Close(b) > High(p) /\ ~(Close(c) > High(p)) /\ Close(b) < Low(q) /\ ~(Close(c) < Low(q))
  BY <1>3, <1>4, <1>6 DEF Crosses, Beyond, Level
<1> QED
  BY <1>7, <1>8

LEMMA BlockAtIn ==
  ASSUME CandlesOK, NEW n \in Nat, NEW b, b = n + 1, b <= Len(candles), NEW s \in Sides,
         NEW f \in 1 .. n
  PROVE  BlockAt(s, f, b) \in 1 .. n
<1>1. /\ b - 1 = n /\ n \in Int /\ f \in Int /\ f <= n /\ f .. n \subseteq 1 .. Len(candles)
      /\ f .. n \subseteq 1 .. n
  BY DEF CandlesOK
<1>2. \A j \in f .. n : ParsedHigh(j) \in Int /\ ParsedLow(j) \in Int
  <2>1. \A j \in f .. n : High(j) \in Int /\ Low(j) \in Int
    BY <1>1, PriceTypes
  <2> QED
    BY <2>1 DEF ParsedHigh, ParsedLow
<1> DEFINE v == [j \in f .. n |-> ParsedHigh(j)]
           u == [j \in f .. n |-> ParsedLow(j)]
<1>3. /\ v \in [f .. n -> Int] /\ u \in [f .. n -> Int]
      /\ \A j \in f .. n : v[j] = ParsedHigh(j) /\ u[j] = ParsedLow(j)
  BY <1>2
<1> HIDE DEF v, u
<1>4. \E j \in f .. n : \A x \in f .. n : v[x] <= v[j]
  BY <1>1, <1>3, SpanPeaks
<1>5. \E j \in f .. n : \A x \in f .. n : u[j] <= u[x]
  BY <1>1, <1>3, SpanPeaks
<1>6. PICK best : best = (IF s = "bearish"
                          THEN {j \in f .. n : \A x \in f .. n : ParsedHigh(x) <= ParsedHigh(j)}
                          ELSE {j \in f .. n : \A x \in f .. n : ParsedLow(x) >= ParsedLow(j)})
  OBVIOUS
<1>7. best # {} /\ best \in SUBSET (f .. n)
  <2>1. CASE s = "bearish"
    <3>1. PICK j \in f .. n : \A x \in f .. n : v[x] <= v[j]
      BY <1>4
    <3>2. \A x \in f .. n : ParsedHigh(x) <= ParsedHigh(j)
      BY <1>3, <3>1
    <3> QED
      BY <1>6, <2>1, <3>2
  <2>2. CASE s # "bearish"
    <3>1. PICK j \in f .. n : \A x \in f .. n : u[j] <= u[x]
      BY <1>5
    <3>2. \A x \in f .. n : ParsedLow(x) >= ParsedLow(j)
      BY <1>2, <1>3, <3>1
    <3> QED
      BY <1>6, <2>2, <3>2
  <2> QED
    BY <2>1, <2>2
<1>8. Min(best) \in best
  BY <1>1, <1>7, SpanExtremes
<1>9. BlockAt(s, f, b) = Min(best)
  BY <1>1, <1>6 DEF BlockAt
<1> QED
  BY <1>1, <1>7, <1>8, <1>9

LEMMA NewBlocksIn ==
  ASSUME CandlesOK, NEW n \in Nat, NEW b, b = n + 1, b <= Len(candles), PivotInv(n),
         NEW k \in Structures
  PROVE  /\ NewBlocks(k, b) \in Seq(BlockSet(b)) /\ Len(NewBlocks(k, b)) <= 1
         /\ \A o \in ToSet(NewBlocks(k, b)) : o.made = b
<1>0. k \in Kinds
  BY SizesAre
<1>1. \A s \in Sides : Breaks(k, s, b) =>
        \E x \in BlockSet(b) : x.made = b /\ NewBlock(k, s, b) = << x >>
  <2> SUFFICES ASSUME NEW s \in Sides, Breaks(k, s, b)
               PROVE  \E x \in BlockSet(b) : x.made = b /\ NewBlock(k, s, b) = << x >>
    OBVIOUS
  <2>1. PICK f : f = NewPivot(k, s, b).at
    OBVIOUS
  <2>2. f \in 1 .. n
    <3>1. NewPivot(k, s, b) \in PivotSet(n)
      BY <1>0, NewPivotIn
    <3> QED
      BY <2>1, <3>1 DEF Breaks, PivotSet
  <2>3. PICK a : a = BlockAt(s, f, b)
    OBVIOUS
  <2>4. a \in 1 .. b /\ b \in 1 .. b
    <3>1. a \in 1 .. n
      BY <2>2, <2>3, BlockAtIn
    <3> QED
      BY <3>1
  <2>5. PICK x : x = [side |-> s, at |-> a, made |-> b]
    OBVIOUS
  <2>6. x \in BlockSet(b) /\ x.made = b
    BY <2>4, <2>5 DEF BlockSet
  <2>7. NewBlock(k, s, b) = << x >>
    BY <2>1, <2>3, <2>5 DEF NewBlock
  <2> QED
    BY <2>6, <2>7
<1>2. \A s \in Sides : ~Breaks(k, s, b) => NewBlock(k, s, b) = <<>>
  BY DEF NewBlock
<1>3. ~(Breaks(k, "bullish", b) /\ Breaks(k, "bearish", b))
  BY <1>0, OneBreak
<1>4. \/ NewBlocks(k, b) = <<>>
      \/ \E x \in BlockSet(b) : x.made = b /\ NewBlocks(k, b) = << x >>
  <2>1. \A x : << x >> \o <<>> = << x >> /\ <<>> \o << x >> = << x >>
    OBVIOUS
  <2>2. <<>> \o <<>> = <<>>
    OBVIOUS
  <2> QED
    BY <1>1, <1>2, <1>3, <2>1, <2>2 DEF NewBlocks, Sides
<1>5. CASE NewBlocks(k, b) = <<>>
  <2>1. <<>> \in Seq(BlockSet(b)) /\ Len(<<>>) <= 1 /\ ToSet(<<>>) = {}
    BY Singletons DEF ToSet
  <2> QED
    BY <1>5, <2>1
<1>6. ASSUME NEW x \in BlockSet(b), x.made = b, NewBlocks(k, b) = << x >>
      PROVE  /\ NewBlocks(k, b) \in Seq(BlockSet(b)) /\ Len(NewBlocks(k, b)) <= 1
             /\ \A o \in ToSet(NewBlocks(k, b)) : o.made = b
  <2>1. << x >> \in Seq(BlockSet(b))
    BY Singletons
  <2>2. Len(<< x >>) <= 1 /\ ToSet(<< x >>) = {x}
    BY OneIn
  <2> QED
    BY <1>6, <2>1, <2>2
<1> QED
  BY <1>4, <1>5, <1>6

LEMMA OpenOfKept ==
  ASSUME NEW n \in Nat, Same(n), NEW M, M \subseteq [kind : Structures, block : BlockSet(n)], NEW k
  PROVE  OpenOf(M, k, n)' = OpenOf(M, k, n)
<1>1. \A q \in M : \A j \in q.block.made .. n :
        BlockMitigated(q.block, j)' = BlockMitigated(q.block, j)
  <2> SUFFICES ASSUME NEW q \in M, NEW j \in q.block.made .. n
               PROVE  BlockMitigated(q.block, j)' = BlockMitigated(q.block, j)
    OBVIOUS
  <2>1. PICK o : o = q.block
    OBVIOUS
  <2>2. o.at \in 1 .. n /\ o.made \in 1 .. n
    BY <2>1 DEF BlockSet
  <2>3. j \in 1 .. n
    BY <2>1, <2>2
  <2> QED
    BY <2>1, <2>2, <2>3, PricesKept DEF BlockMitigated
<1> QED
  BY <1>1 DEF OpenOf

LEMMA BlocksTurned ==
  ASSUME CandlesOK, NEW n \in Nat, NEW b, b = n + 1, b <= Len(candles), Same(b),
         PivotInv(n), BlockInv(n), SmcBar(b)
  PROVE  BlockInv(b)'
<1> DEFINE H == {o \in BlockSet(b) : BlockMitigated(o, b)}
<1>1. PICK M : M = made'
  OBVIOUS
<1>2. M = made \cup UNION {{[kind |-> k, block |-> o] : o \in ToSet(NewBlocks(k, b))} :
                             k \in Structures}
  BY <1>1 DEF SmcBar
<1>3. BlockSet(n) \subseteq BlockSet(b)
  BY DEF BlockSet
<1>4. \A k \in Structures : \A o \in ToSet(NewBlocks(k, b)) : o \in BlockSet(b) /\ o.made = b
  <2> SUFFICES ASSUME NEW k \in Structures
               PROVE  \A o \in ToSet(NewBlocks(k, b)) : o \in BlockSet(b) /\ o.made = b
    OBVIOUS
  <2>1. NewBlocks(k, b) \in Seq(BlockSet(b)) /\ \A o \in ToSet(NewBlocks(k, b)) : o.made = b
    BY NewBlocksIn
  <2> QED
    BY <2>1 DEF ToSet
<1>5. M \subseteq [kind : Structures, block : BlockSet(b)]
  <2>1. made \subseteq [kind : Structures, block : BlockSet(b)]
    <3>1. made \subseteq [kind : Structures, block : BlockSet(n)]
      BY DEF BlockInv
    <3> QED
      BY <1>3, <3>1
  <2>2. \A k \in Structures : \A o \in ToSet(NewBlocks(k, b)) :
          [kind |-> k, block |-> o] \in [kind : Structures, block : BlockSet(b)]
    BY <1>4
  <2> QED
    BY <1>2, <2>1, <2>2
<1>6. \A k \in Structures : \A o : o \in OpenOf(M, k, b) <=>
        (o \in OpenOf(made, k, n) \/ o \in ToSet(NewBlocks(k, b))) /\ o \notin H
  <2> SUFFICES ASSUME NEW k \in Structures, NEW o
               PROVE  o \in OpenOf(M, k, b) <=>
                        (o \in OpenOf(made, k, n) \/ o \in ToSet(NewBlocks(k, b))) /\ o \notin H
    OBVIOUS
  <2>1. \A q \in made : q.block \in BlockSet(b) /\ q.block.made \in 1 .. n
    BY <1>3 DEF BlockInv, BlockSet
  <2>2. \A q \in made : (\A j \in q.block.made .. b : ~BlockMitigated(q.block, j)) <=>
          (\A j \in q.block.made .. n : ~BlockMitigated(q.block, j)) /\ q.block \notin H
    <3> SUFFICES ASSUME NEW q \in made
                 PROVE  (\A j \in q.block.made .. b : ~BlockMitigated(q.block, j)) <=>
                          (\A j \in q.block.made .. n : ~BlockMitigated(q.block, j)) /\ q.block \notin H
      OBVIOUS
    <3>1. /\ b \in q.block.made .. b /\ \A j \in q.block.made .. b : j \in q.block.made .. n \/ j = b
          /\ \A j \in q.block.made .. n : j \in q.block.made .. b
      BY <2>1
    <3>2. q.block \in H <=> BlockMitigated(q.block, b)
      BY <2>1
    <3> HIDE DEF H
    <3> QED
      BY <3>1, <3>2
  <2>3. \A x \in BlockSet(b) : x.made = b =>
          ((\A j \in x.made .. b : ~BlockMitigated(x, j)) <=> x \notin H)
    <3> SUFFICES ASSUME NEW x \in BlockSet(b), x.made = b
                 PROVE  (\A j \in x.made .. b : ~BlockMitigated(x, j)) <=> x \notin H
      OBVIOUS
    <3>1. x.made .. b = {b}
      OBVIOUS
    <3> QED
      BY <3>1
  <2> HIDE DEF H
  <2>4. ASSUME o \in OpenOf(M, k, b)
        PROVE  (o \in OpenOf(made, k, n) \/ o \in ToSet(NewBlocks(k, b))) /\ o \notin H
    <3>1. PICK q \in M : q.kind = k /\ q.block = o /\ \A j \in o.made .. b : ~BlockMitigated(o, j)
      BY <2>4 DEF OpenOf
    <3>2. CASE q \in made
      BY <2>2, <3>1, <3>2 DEF OpenOf
    <3>3. CASE q \notin made
      <4>1. PICK k2 \in Structures : \E x \in ToSet(NewBlocks(k2, b)) : q = [kind |-> k2, block |-> x]
        BY <1>2, <3>3
      <4>2. o \in ToSet(NewBlocks(k, b))
        BY <3>1, <4>1
      <4> QED
        BY <1>4, <2>3, <3>1, <4>2
    <3> QED
      BY <3>2, <3>3
  <2>5. ASSUME o \in OpenOf(made, k, n), o \notin H
        PROVE  o \in OpenOf(M, k, b)
    <3>1. PICK q \in made : q.kind = k /\ q.block = o /\ \A j \in o.made .. n : ~BlockMitigated(o, j)
      BY <2>5 DEF OpenOf
    <3>2. q \in M
      BY <1>2
    <3> QED
      BY <2>2, <2>5, <3>1, <3>2 DEF OpenOf
  <2>6. ASSUME o \in ToSet(NewBlocks(k, b)), o \notin H
        PROVE  o \in OpenOf(M, k, b)
    <3>1. PICK q : q = [kind |-> k, block |-> o]
      OBVIOUS
    <3>2. q \in M /\ q.kind = k /\ q.block = o
      BY <1>2, <2>6, <3>1
    <3>3. \A j \in o.made .. b : ~BlockMitigated(o, j)
      BY <1>4, <2>3, <2>6
    <3> QED
      BY <3>2, <3>3 DEF OpenOf
  <2> QED
    BY <2>4, <2>5, <2>6
<1>7. ASSUME NEW k \in Structures, NEW r, r = blocks'[k]
      PROVE  /\ r \in Seq(BlockSet(b)) /\ ToSet(r) = OpenOf(M, k, b)
             /\ \A x, y \in DOMAIN r : x < y => r[x].made > r[y].made
  <2>1. PICK new, old, list : new = NewBlocks(k, b) /\ old = blocks[k] /\ list = new \o old
    OBVIOUS
  <2>2. new \in Seq(BlockSet(b)) /\ Len(new) <= 1 /\ \A o \in ToSet(new) : o.made = b
    BY <2>1, NewBlocksIn
  <2>3. /\ old \in Seq(BlockSet(n)) /\ ToSet(old) = OpenOf(made, k, n)
        /\ \A x, y \in DOMAIN old : x < y => old[x].made > old[y].made
    BY <2>1 DEF BlockInv
  <2>4. old \in Seq(BlockSet(b)) /\ \A x \in DOMAIN old : old[x].made \in 1 .. n
    <3>1. \A x \in DOMAIN old : old[x] \in BlockSet(n)
      BY <2>3
    <3>2. \A o \in BlockSet(n) : o.made \in 1 .. n
      BY DEF BlockSet
    <3>3. old \in Seq(BlockSet(b))
      BY <1>3, <2>3, <3>1, ArrayIn
    <3> QED
      BY <3>1, <3>2, <3>3
  <2>5. /\ list \in Seq(BlockSet(b)) /\ Len(new) \in Nat /\ Len(old) \in Nat
        /\ DOMAIN new = 1 .. Len(new) /\ DOMAIN old = 1 .. Len(old)
        /\ DOMAIN list = 1 .. Len(new) + Len(old)
        /\ \A x \in 1 .. Len(new) + Len(old) :
             list[x] = IF x <= Len(new) THEN new[x] ELSE old[x - Len(new)]
    <3>1. PICK A : A = BlockSet(b)
      OBVIOUS
    <3>2. new \in Seq(A) /\ old \in Seq(A)
      BY <2>2, <2>4, <3>1
    <3>3. /\ new \o old \in Seq(A) /\ DOMAIN new = 1 .. Len(new) /\ Len(new) \in Nat
          /\ DOMAIN (new \o old) = 1 .. Len(new) + Len(old)
          /\ \A x \in 1 .. Len(new) + Len(old) :
               (new \o old)[x] = IF x <= Len(new) THEN new[x] ELSE old[x - Len(new)]
      BY <3>2, ArrayParts
    <3>4. DOMAIN old = 1 .. Len(old) /\ Len(old) \in Nat
      BY <3>2
    <3> QED
      BY <2>1, <3>1, <3>3, <3>4
  <2>6. r = SplicedDown(list, {x \in DOMAIN list : list[x] \in H})
    <3>1. r = SplicedDown(list, {x \in DOMAIN list : BlockMitigated(list[x], b)})
      BY <1>7, <2>1 DEF SmcBar, Unmitigated, Spliced
    <3>2. {x \in DOMAIN list : BlockMitigated(list[x], b)} = {x \in DOMAIN list : list[x] \in H}
      BY <2>5
    <3> QED
      BY <3>1, <3>2
  <2> HIDE DEF H
  <2>7. /\ r \in Seq(BlockSet(b)) /\ ToSet(r) = ToSet(list) \ H
        /\ \A x, y \in DOMAIN r : x < y =>
             \E i, j \in DOMAIN list : i < j /\ r[x] = list[i] /\ r[y] = list[j]
    <3>1. PICK A : A = BlockSet(b)
      OBVIOUS
    <3>2. list \in Seq(A)
      BY <2>5, <3>1
    <3>3. LeftOf(r, A, list, H)
      BY <2>6, <3>2, ListLeft
    <3> QED
      BY <3>1, <3>3 DEF LeftOf
  <2>8. ToSet(list) = ToSet(new) \cup ToSet(old)
    BY <2>1, <2>2, <2>4, JoinedSet
  <2>9. ToSet(r) = OpenOf(M, k, b)
    <3>1. \A o : o \in ToSet(r) <=> (o \in ToSet(old) \/ o \in ToSet(new)) /\ o \notin H
      BY <2>7, <2>8
    <3>2. \A o : o \in ToSet(r) <=> o \in OpenOf(M, k, b)
      BY <1>6, <2>1, <2>3, <3>1
    <3> QED
      BY <3>2
  <2>10. \A i, j \in DOMAIN list : i < j => list[i].made > list[j].made
    <3> SUFFICES ASSUME NEW i \in 1 .. Len(new) + Len(old), NEW j \in 1 .. Len(new) + Len(old), i < j
                 PROVE  list[i].made > list[j].made
      BY <2>5
    <3>1. j - Len(new) \in 1 .. Len(old) /\ ~(j <= Len(new))
      BY <2>2, <2>5
    <3>2. CASE i <= Len(new)
      <4>1. i \in 1 .. Len(new)
        BY <2>5, <3>2
      <4>2. list[i] \in ToSet(new)
        BY <2>5, <3>2, <4>1 DEF ToSet
      <4>3. list[i].made = b /\ list[j].made \in 1 .. n
        BY <2>2, <2>4, <2>5, <3>1, <4>2
      <4> QED
        BY <4>3
    <3>3. CASE ~(i <= Len(new))
      <4>1. i - Len(new) \in 1 .. Len(old) /\ i - Len(new) < j - Len(new)
        BY <2>5, <3>3
      <4>2. list[i] = old[i - Len(new)] /\ list[j] = old[j - Len(new)]
        BY <2>5, <3>1, <3>3
      <4> QED
        BY <2>3, <2>5, <3>1, <4>1, <4>2
    <3> QED
      BY <3>2, <3>3
  <2> QED
    BY <2>7, <2>9, <2>10
<1>8. PICK B : B = blocks'
  OBVIOUS
<1>9. B \in [Structures -> Seq(BlockSet(b))]
  <2>1. DOMAIN B = Structures /\ B = [k \in Structures |-> B[k]]
    BY <1>8 DEF SmcBar
  <2>2. \A k \in Structures : B[k] \in Seq(BlockSet(b))
    BY <1>7, <1>8
  <2> QED
    BY <2>1, <2>2
<1>10. \A k \in Structures :
         /\ ToSet(B[k]) = OpenOf(M, k, b)
         /\ \A x, y \in DOMAIN B[k] : x < y => B[k][x].made > B[k][y].made
  BY <1>7, <1>8
<1>11. \A k \in Structures : OpenOf(M, k, b)' = OpenOf(M, k, b)
  BY <1>5, OpenOfKept
<1>12. BlockSet(b)' = BlockSet(b) /\ Structures' = Structures
  BY DEF BlockSet, Sides, Structures
<1> HIDE DEF H
<1>13. \A k \in Structures : ToSet(blocks[k])' = ToSet(B[k]) /\ OpenOf(made, k, b)' = OpenOf(M, k, b)
  BY <1>1, <1>8, <1>11 DEF ToSet, OpenOf
<1> QED
  BY <1>1, <1>5, <1>8, <1>9, <1>10, <1>12, <1>13 DEF BlockInv

LEMMA BlocksFed ==
  ASSUME NEW n \in Nat, Same(n), BlockInv(n), UNCHANGED smcVars
  PROVE  BlockInv(n)'
<1>1. PICK M : M = made
  OBVIOUS
<1>2. made' = M /\ blocks' = blocks
  BY <1>1 DEF smcVars
<1>3. \A k \in Structures : OpenOf(M, k, n)' = OpenOf(M, k, n)
  BY <1>1, OpenOfKept DEF BlockInv
<1>4. \A k \in Structures : OpenOf(made, k, n)' = OpenOf(M, k, n)
  BY <1>2, <1>3 DEF OpenOf
<1>5. BlockSet(n)' = BlockSet(n) /\ Structures' = Structures
  BY DEF BlockSet, Sides, Structures
<1> QED
  BY <1>1, <1>2, <1>4, <1>5 DEF BlockInv, ToSet

LEMMA PivotsFed ==
  ASSUME NEW n \in Nat, Same(n), PivotInv(n), UNCHANGED smcVars
  PROVE  PivotInv(n)'
<1>1. \A k \in Kinds : Leg(n, Size[k])' = Leg(n, Size[k])
  BY LegKept, SizesAre
<1>2. Kinds' = Kinds /\ Sides' = Sides /\ Size' = Size
  BY DEF Kinds, Structures, Sides, Size
<1> QED
  BY <1>1, <1>2 DEF PivotInv, smcVars, PivotSet

LEMMA PivotsTurned ==
  ASSUME NEW n \in Nat, NEW b, b = n + 1, Same(b), PivotInv(n), SmcBar(b)
  PROVE  PivotInv(b)'
<1>1. \A k \in Kinds : Leg(b, Size[k])' = Leg(b, Size[k])
  BY LegKept, SizesAre
<1>2. Kinds' = Kinds /\ Sides' = Sides /\ Size' = Size /\ PivotSet(b)' = PivotSet(b)
  BY DEF Kinds, Structures, Sides, Size, PivotSet
<1>3. legs' = [k \in Kinds |-> Leg(b, Size[k])]
  BY DEF SmcBar
<1>4. pivots' \in [Kinds -> [Sides -> PivotSet(b)]]
  <2> DEFINE new(k, s) == LET p == NewPivot(k, s, b)
                          IN [p EXCEPT !.crossed = @ \/ (k \in Structures /\ Breaks(k, s, b))]
  <2>1. \A k \in Kinds, s \in Sides : new(k, s) \in PivotSet(b)
    <3> SUFFICES ASSUME NEW k \in Kinds, NEW s \in Sides PROVE new(k, s) \in PivotSet(b)
      OBVIOUS
    <3>1. PICK p : p = NewPivot(k, s, b)
      OBVIOUS
    <3>2. p \in PivotSet(b)
      <4>1. p \in PivotSet(n)
        BY <3>1, NewPivotIn
      <4> QED
        BY <4>1 DEF PivotSet
    <3>3. \A c \in BOOLEAN : [p EXCEPT !.crossed = @ \/ c] \in PivotSet(b)
      BY <3>2 DEF PivotSet
    <3> QED
      BY <3>1, <3>3
  <2>2. pivots' = [k \in Kinds |-> [s \in Sides |-> new(k, s)]]
    BY DEF SmcBar
  <2> HIDE DEF new
  <2> QED
    BY <2>1, <2>2
<1> QED
  BY <1>1, <1>2, <1>3, <1>4 DEF PivotInv

-----------------------------------------------------------------------------
(***************************************************************************)
(* SmartMoney: the swing pivots are broken once, at their first crossing,  *)
(* and the trailing extremes are those of the list.                        *)
(***************************************************************************)
EventSet(n) ==
  {e \in [kind : Structures, side : Sides, tag : {"CHoCH", "BOS"}, from : 1 .. n, to : 1 .. n] :
     e.kind = "swing" => e.from + SwingLength <= e.to}

Crossings(s, f, n) == {j \in f + SwingLength .. n : Crosses(s, f, j)}
SwingTo(E, s, f) == {e.to : e \in {x \in E : x.kind = "swing" /\ x.side = s /\ x.from = f}}
Only(j) == IF j = 0 THEN {} ELSE {j}

\* Pivot p of side s has been crossed at the first candle beyond it, E being the breaks so far.
BrokenOnce(p, E, s, n) ==
  p.at # 0 =>
    /\ p.at + SwingLength <= n
    /\ p.crossed <=> FirstOf(Crossings(s, p.at, n)) # 0
    /\ Filter[<<"swing", s>>] = "All" => SwingTo(E, s, p.at) = Only(FirstOf(Crossings(s, p.at, n)))

StructInv(n) ==
  /\ events \in Seq(EventSet(n))
  /\ \A s \in Sides : BrokenOnce(pivots["swing"][s], ToSet(events), s, n)

IsExtreme(s, x, n) ==
  /\ x \in 0 .. n /\ (x = 0 <=> n = 0)
  /\ \A j \in 1 .. n : ~Beyond(s, Level(s, j), Level(s, x))
ExtremeInv(n) == trailing \in [Sides -> Int] /\ \A s \in Sides : IsExtreme(s, trailing[s], n)

LEMMA CrossesKept ==
  ASSUME NEW n \in Nat, Same(n), NEW s \in Sides, NEW f \in 1 .. n, NEW j \in 1 .. n
  PROVE  Crosses(s, f, j)' = Crosses(s, f, j)
<1>1. CASE j = 1
  BY <1>1, PricesKept DEF Crosses, Beyond
<1>2. CASE j # 1
  <2>1. PICK c : c = j - 1
    OBVIOUS
  <2>2. c \in 1 .. n
    BY <1>2, <2>1
  <2> QED
    BY <2>1, <2>2, PricesKept DEF Crosses, Beyond
<1> QED
  BY <1>1, <1>2

LEMMA FirstOfZero ==
  ASSUME NEW n \in Nat, NEW S \in SUBSET (1 .. n)
  PROVE  FirstOf(S) \in 0 .. n /\ (FirstOf(S) = 0 <=> S = {})
<1>1. CASE S # {}
  <2>1. PICK m : m = Min(S)
    OBVIOUS
  <2>2. 1 \in Int /\ n \in Int
    OBVIOUS
  <2>3. m \in S
    BY <1>1, <2>1, <2>2, SpanExtremes
  <2>4. FirstOf(S) = m
    BY <1>1, <2>1 DEF FirstOf
  <2> QED
    BY <1>1, <2>3, <2>4
<1>2. CASE S = {}
  BY <1>2 DEF FirstOf
<1> QED
  BY <1>1, <1>2

LEMMA CrossingsKept ==
  ASSUME NEW n \in Nat, Same(n), NEW s \in Sides, NEW f \in 1 .. n
  PROVE  Crossings(s, f, n)' = Crossings(s, f, n)
<1>1. \A j \in f + SwingLength .. n : j \in 1 .. n
  BY SizesArePositive
<1> QED
  BY <1>1, CrossesKept DEF Crossings

LEMMA BrokenOnceKept ==
  ASSUME NEW n \in Nat, Same(n), NEW s \in Sides, NEW p \in PivotSet(n), NEW E,
         BrokenOnce(p, E, s, n)
  PROVE  BrokenOnce(p, E, s, n)'
<1>1. p.at \in 0 .. n
  BY DEF PivotSet
<1>2. CASE p.at # 0
  <2>1. PICK f : f = p.at
    OBVIOUS
  <2>2. f \in 1 .. n
    BY <1>1, <1>2, <2>1
  <2>3. Crossings(s, f, n)' = Crossings(s, f, n)
    BY <2>2, CrossingsKept
  <2>4. FirstOf(Crossings(s, p.at, n))' = FirstOf(Crossings(s, p.at, n))
    BY <2>1, <2>3 DEF FirstOf
  <2> QED
    BY <2>4 DEF BrokenOnce, SwingTo, Only
<1>3. CASE p.at = 0
  BY <1>3 DEF BrokenOnce
<1> QED
  BY <1>2, <1>3

EventOf(k, s, b) ==
  [kind |-> k, side |-> s, tag |-> Tag(k, s, b), from |-> NewPivot(k, s, b).at, to |-> b]

LEMMA EventIs ==
  ASSUME NEW k, NEW s, NEW b
  PROVE  /\ Event(k, s, b) = <<>> \/ (Breaks(k, s, b) /\ Event(k, s, b) = << EventOf(k, s, b) >>)
         /\ Filter[<<k, s>>] = "All" /\ Breaks(k, s, b) => Event(k, s, b) = << EventOf(k, s, b) >>
BY DEF Event, EventOf

LEMMA NewPivotOf ==
  ASSUME NEW n \in Nat, NEW b, b = n + 1, PivotInv(n), NEW s \in Sides,
         BrokenOnce(pivots["swing"][s], ToSet(events), s, n), events \in Seq(EventSet(n)),
         NEW q, q = NewPivot("swing", s, b), q.at # 0
  PROVE  /\ q.at \in 1 .. n /\ q.at + SwingLength <= b
         /\ q.crossed <=> FirstOf(Crossings(s, q.at, n)) # 0
         /\ Filter[<<"swing", s>>] = "All" =>
              SwingTo(ToSet(events), s, q.at) = Only(FirstOf(Crossings(s, q.at, n)))
<1>0. "swing" \in Kinds /\ Size["swing"] = SwingLength /\ SwingLength \in Nat \ {0}
  BY SizesAre, SizesArePositive
<1>1. q.at \in 1 .. n
  <2>1. q \in PivotSet(n)
    BY <1>0, NewPivotIn
  <2> QED
    BY <2>1 DEF PivotSet
<1>2. CASE Confirms("swing", s, b)
  <2>1. q = [at |-> b - SwingLength, crossed |-> FALSE]
    BY <1>0, <1>2 DEF NewPivot
  <2>2. q.at = b - SwingLength /\ q.crossed = FALSE
    BY <2>1
  <2>3. Crossings(s, q.at, n) = {}
    BY <1>0, <2>2 DEF Crossings
  <2>4. SwingTo(ToSet(events), s, q.at) = {}
    <3>1. \A e \in ToSet(events) : e \in EventSet(n)
      BY DEF ToSet
    <3>2. \A e \in EventSet(n) : e.kind = "swing" => e.from # q.at
      BY <1>0, <2>2 DEF EventSet
    <3> QED
      BY <3>1, <3>2 DEF SwingTo
  <2> QED
    BY <1>0, <1>1, <2>2, <2>3, <2>4 DEF FirstOf, Only
<1>3. CASE ~Confirms("swing", s, b)
  <2>1. q = pivots["swing"][s]
    BY <1>3 DEF NewPivot
  <2>2. q.at + SwingLength <= n
    BY <2>1 DEF BrokenOnce
  <2>3. q.at + SwingLength <= b
    BY <1>0, <1>1, <2>2
  <2> QED
    BY <1>1, <2>1, <2>3 DEF BrokenOnce
<1> QED
  BY <1>2, <1>3

LEMMA NewEventsIn ==
  ASSUME NEW n \in Nat, NEW b, b = n + 1, PivotInv(n), StructInv(n)
  PROVE  /\ NewEvents(b) \in Seq(EventSet(b))
         /\ ToSet(NewEvents(b)) = ToSet(Event("internal", "bullish", b))
              \cup ToSet(Event("internal", "bearish", b))
              \cup ToSet(Event("swing", "bullish", b)) \cup ToSet(Event("swing", "bearish", b))
<1>1. \A k \in Structures, s \in Sides : Event(k, s, b) \in Seq(EventSet(b))
  <2> SUFFICES ASSUME NEW k \in Structures, NEW s \in Sides, Breaks(k, s, b)
               PROVE  EventOf(k, s, b) \in EventSet(b)
    BY EventIs, Singletons
  <2>1. PICK q : q = NewPivot(k, s, b)
    OBVIOUS
  <2>2. q.at # 0 /\ q \in PivotSet(n)
    BY <2>1, SizesAre, NewPivotIn DEF Breaks
  <2>3. q.at \in 1 .. b
    BY <2>2 DEF PivotSet
  <2>4. k = "swing" => q.at + SwingLength <= b
    BY <2>1, <2>2, NewPivotOf DEF StructInv
  <2>5. PICK e : e = EventOf(k, s, b)
    OBVIOUS
  <2>6. b \in 1 .. b /\ Tag(k, s, b) \in {"CHoCH", "BOS"}
    BY DEF Tag
  <2>7. e \in [kind : Structures, side : Sides, tag : {"CHoCH", "BOS"}, from : 1 .. b, to : 1 .. b]
        /\ e.kind = k /\ e.from = q.at /\ e.to = b
    BY <2>1, <2>3, <2>5, <2>6 DEF EventOf
  <2> QED
    BY <2>4, <2>5, <2>7 DEF EventSet
<1>2. PICK A, w, x, y, z : A = EventSet(b)
        /\ w = Event("internal", "bullish", b) /\ x = Event("internal", "bearish", b)
        /\ y = Event("swing", "bullish", b) /\ z = Event("swing", "bearish", b)
  OBVIOUS
<1>3. w \in Seq(A) /\ x \in Seq(A) /\ y \in Seq(A) /\ z \in Seq(A)
  BY <1>1, <1>2 DEF Structures, Sides
<1>4. NewEvents(b) = w \o x \o y \o z
  BY <1>2 DEF NewEvents
<1>5. PICK u : u = w \o x
  OBVIOUS
<1>6. u \in Seq(A) /\ ToSet(u) = ToSet(w) \cup ToSet(x)
  BY <1>3, <1>5, JoinedSet, ArrayParts
<1>7. PICK v : v = u \o y
  OBVIOUS
<1>8. v \in Seq(A) /\ ToSet(v) = ToSet(u) \cup ToSet(y)
  BY <1>3, <1>6, <1>7, JoinedSet, ArrayParts
<1>9. v \o z \in Seq(A) /\ ToSet(v \o z) = ToSet(v) \cup ToSet(z)
  BY <1>3, <1>8, JoinedSet, ArrayParts
<1>10. NewEvents(b) = v \o z
  BY <1>4, <1>5, <1>7
<1> QED
  BY <1>2, <1>6, <1>8, <1>9, <1>10

LEMMA SwingEventIs ==
  ASSUME NEW n \in Nat, NEW b, b = n + 1, PivotInv(n), StructInv(n), NEW s \in Sides,
         Filter[<<"swing", s>>] = "All", NEW f, f = NewPivot("swing", s, b).at
  PROVE  SwingTo(ToSet(NewEvents(b)), s, f) = IF Breaks("swing", s, b) THEN {b} ELSE {}
<1>1. \A k, t : \A e \in ToSet(Event(k, t, b)) : e = EventOf(k, t, b) /\ Breaks(k, t, b)
  <2> SUFFICES ASSUME NEW k, NEW t, NEW e \in ToSet(Event(k, t, b))
               PROVE  e = EventOf(k, t, b) /\ Breaks(k, t, b)
    OBVIOUS
  <2>1. Event(k, t, b) = <<>> \/ (Breaks(k, t, b) /\ Event(k, t, b) = << EventOf(k, t, b) >>)
    BY EventIs
  <2> QED
    BY <2>1, OneIn
<1>2. \A k, t : LET e == EventOf(k, t, b)
                IN e.kind = k /\ e.side = t /\ e.from = NewPivot(k, t, b).at /\ e.to = b
  BY DEF EventOf
<1>3. \A e \in ToSet(NewEvents(b)) : \E k \in Structures, t \in Sides : e \in ToSet(Event(k, t, b))
  BY NewEventsIn DEF Structures, Sides
<1>4. ToSet(Event("swing", s, b)) \subseteq ToSet(NewEvents(b))
  BY NewEventsIn DEF Sides
<1>5. \A e \in ToSet(NewEvents(b)) : e.kind = "swing" /\ e.side = s =>
        e = EventOf("swing", s, b) /\ Breaks("swing", s, b)
  BY <1>1, <1>2, <1>3
<1>6. CASE Breaks("swing", s, b)
  <2>1. PICK e : e = EventOf("swing", s, b)
    OBVIOUS
  <2>2. e.kind = "swing" /\ e.side = s /\ e.from = f /\ e.to = b
    BY <1>2, <2>1
  <2>3. Event("swing", s, b) = << e >>
    BY <1>6, <2>1, EventIs
  <2>4. e \in ToSet(NewEvents(b))
    BY <1>4, <2>3, OneIn
  <2>5. {x \in ToSet(NewEvents(b)) : x.kind = "swing" /\ x.side = s /\ x.from = f} = {e}
    BY <1>5, <2>1, <2>2, <2>4
  <2>6. SwingTo(ToSet(NewEvents(b)), s, f) = {x.to : x \in {e}}
    BY <2>5 DEF SwingTo
  <2> QED
    BY <1>6, <2>2, <2>6
<1>7. CASE ~Breaks("swing", s, b)
  <2>1. {x \in ToSet(NewEvents(b)) : x.kind = "swing" /\ x.side = s /\ x.from = f} = {}
    BY <1>5, <1>7
  <2> QED
    BY <1>7, <2>1 DEF SwingTo
<1> QED
  BY <1>6, <1>7

LEMMA BrokenNext ==
  ASSUME NEW n \in Nat, NEW b, b = n + 1, PivotInv(n), StructInv(n), NEW s \in Sides,
         NEW E, E = ToSet(events) \cup ToSet(NewEvents(b)),
         NEW p, p.at = NewPivot("swing", s, b).at,
         p.crossed <=> NewPivot("swing", s, b).crossed \/ Breaks("swing", s, b)
  PROVE  BrokenOnce(p, E, s, b)
<1> SUFFICES ASSUME p.at # 0
             PROVE  /\ p.at + SwingLength <= b
                    /\ p.crossed <=> FirstOf(Crossings(s, p.at, b)) # 0
                    /\ Filter[<<"swing", s>>] = "All" =>
                         SwingTo(E, s, p.at) = Only(FirstOf(Crossings(s, p.at, b)))
  BY DEF BrokenOnce
<1>1. PICK q, f : q = NewPivot("swing", s, b) /\ f = p.at
  OBVIOUS
<1>2. q.at = f /\ f # 0
  BY <1>1
<1>3. /\ f \in 1 .. n /\ f + SwingLength <= b
      /\ q.crossed <=> FirstOf(Crossings(s, f, n)) # 0
      /\ Filter[<<"swing", s>>] = "All" =>
           SwingTo(ToSet(events), s, f) = Only(FirstOf(Crossings(s, f, n)))
  BY <1>1, <1>2, NewPivotOf DEF StructInv
<1>4. Breaks("swing", s, b) <=> ~q.crossed /\ Crosses(s, f, b)
  BY <1>1, <1>2 DEF Breaks
<1>5. PICK old, next, m, H : /\ old = FirstOf(Crossings(s, f, n)) /\ next = FirstOf(Crossings(s, f, b))
                             /\ m = f + SwingLength /\ H = {j \in 1 .. b : Crosses(s, f, j)}
  OBVIOUS
<1>6. m \in 1 .. n + 1 /\ H \in SUBSET Nat
  BY <1>3, <1>5, SizesArePositive
<1>7. Crossings(s, f, n) = H \cap (m .. n) /\ Crossings(s, f, b) = H \cap (m .. n + 1)
      /\ (n + 1 \in H <=> Crosses(s, f, b))
  BY <1>5, <1>6 DEF Crossings
<1>8. next = IF old = 0 /\ Crosses(s, f, b) THEN b ELSE old
  <2>1. FirstOf(H \cap (m .. n + 1)) =
          IF FirstOf(H \cap (m .. n)) = 0 /\ n + 1 \in H THEN n + 1 ELSE FirstOf(H \cap (m .. n))
    BY <1>6, FirstOfNext
  <2> QED
    BY <1>5, <1>7, <2>1
<1>9. q.crossed <=> old # 0
  BY <1>3, <1>5
<1>10. p.crossed <=> next # 0
  BY <1>1, <1>4, <1>8, <1>9
<1>11. ASSUME Filter[<<"swing", s>>] = "All"
       PROVE  SwingTo(E, s, f) = Only(next)
  <2>1. SwingTo(ToSet(events), s, f) = Only(old)
    BY <1>3, <1>5, <1>11
  <2>2. SwingTo(ToSet(NewEvents(b)), s, f) = IF Breaks("swing", s, b) THEN {b} ELSE {}
    BY <1>1, <1>2, <1>11, SwingEventIs
  <2>3. SwingTo(E, s, f) = SwingTo(ToSet(events), s, f) \cup SwingTo(ToSet(NewEvents(b)), s, f)
    BY DEF SwingTo
  <2>4. CASE old = 0 /\ Crosses(s, f, b)
    <3>1. Breaks("swing", s, b) /\ next = b /\ b # 0
      BY <1>4, <1>8, <1>9, <2>4
    <3>2. SwingTo(ToSet(NewEvents(b)), s, f) = {b} /\ Only(old) = {} /\ Only(next) = {b}
      BY <2>2, <2>4, <3>1 DEF Only
    <3> QED
      BY <2>1, <2>3, <3>2
  <2>5. CASE ~(old = 0 /\ Crosses(s, f, b))
    <3>1. ~Breaks("swing", s, b) /\ next = old
      BY <1>4, <1>8, <1>9, <2>5
    <3> QED
      BY <2>1, <2>2, <2>3, <3>1
  <2> QED
    BY <2>4, <2>5
<1> QED
  BY <1>1, <1>3, <1>5, <1>10, <1>11

LEMMA StructTurned ==
  ASSUME NEW n \in Nat, NEW b, b = n + 1, Same(b), PivotInv(n), StructInv(n), SmcBar(b)
  PROVE  StructInv(b)'
<1>1. PICK L, E, P : L = events' /\ E = ToSet(events) \cup ToSet(NewEvents(b)) /\ P = pivots'["swing"]
  OBVIOUS
<1>2. L \in Seq(EventSet(b)) /\ ToSet(L) = E
  <2>1. PICK A : A = EventSet(b)
    OBVIOUS
  <2>2. EventSet(n) \subseteq A /\ events \in Seq(EventSet(n))
    BY <2>1 DEF EventSet, StructInv
  <2>3. events \in Seq(A)
    BY <2>2, ArrayIn
  <2>4. NewEvents(b) \in Seq(A)
    BY <2>1, NewEventsIn
  <2>5. L = events \o NewEvents(b)
    BY <1>1 DEF SmcBar
  <2>6. L \in Seq(A)
    BY <2>3, <2>4, <2>5, ArrayParts
  <2> QED
    BY <1>1, <2>1, <2>3, <2>4, <2>5, <2>6, JoinedSet
<1>3. \A s \in Sides : P[s] \in PivotSet(b) /\ BrokenOnce(P[s], E, s, b)
  <2> SUFFICES ASSUME NEW s \in Sides PROVE P[s] \in PivotSet(b) /\ BrokenOnce(P[s], E, s, b)
    OBVIOUS
  <2>1. PICK q, p : q = NewPivot("swing", s, b) /\ p = P[s]
    OBVIOUS
  <2>2. "swing" \in Kinds /\ "swing" \in Structures
    BY SizesAre
  <2>3. q \in PivotSet(n)
    BY <2>1, <2>2, NewPivotIn
  <2>4. p = [q EXCEPT !.crossed = @ \/ Breaks("swing", s, b)]
    <3>1. p = LET x == NewPivot("swing", s, b)
              IN [x EXCEPT !.crossed = @ \/ ("swing" \in Structures /\ Breaks("swing", s, b))]
      BY <1>1, <2>1, <2>2 DEF SmcBar
    <3> QED
      BY <2>1, <2>2, <3>1
  <2>5. \A c \in BOOLEAN : LET x == [q EXCEPT !.crossed = @ \/ c]
                           IN x \in PivotSet(b) /\ x.at = q.at /\ (x.crossed <=> q.crossed \/ c)
    BY <2>3 DEF PivotSet
  <2>6. p \in PivotSet(b) /\ p.at = q.at /\ (p.crossed <=> q.crossed \/ Breaks("swing", s, b))
    BY <2>4, <2>5
  <2>7. BrokenOnce(p, E, s, b)
    BY <1>1, <2>1, <2>6, BrokenNext
  <2> QED
    BY <2>1, <2>6, <2>7
<1>4. \A s \in Sides : BrokenOnce(P[s], E, s, b)'
  BY <1>3, BrokenOnceKept
<1>5. EventSet(b)' = EventSet(b) /\ Sides' = Sides
  BY DEF EventSet, Structures, Sides
<1>6. ToSet(events)' = E
  BY <1>1, <1>2 DEF ToSet
<1> QED
  BY <1>1, <1>2, <1>4, <1>5, <1>6 DEF StructInv

LEMMA StructFed ==
  ASSUME NEW n \in Nat, Same(n), PivotInv(n), StructInv(n), UNCHANGED smcVars
  PROVE  StructInv(n)'
<1>1. PICK E, P : E = ToSet(events) /\ P = pivots["swing"]
  OBVIOUS
<1>2. events' = events /\ pivots' = pivots
  BY DEF smcVars
<1>3. \A s \in Sides : P[s] \in PivotSet(n) /\ BrokenOnce(P[s], E, s, n)
  BY <1>1, SizesAre DEF StructInv, PivotInv
<1>4. \A s \in Sides : BrokenOnce(P[s], E, s, n)'
  BY <1>3, BrokenOnceKept
<1>5. EventSet(n)' = EventSet(n) /\ Sides' = Sides
  BY DEF EventSet, Structures, Sides
<1>6. ToSet(events)' = E
  BY <1>1, <1>2 DEF ToSet
<1> QED
  BY <1>1, <1>2, <1>4, <1>5, <1>6 DEF StructInv

LEMMA ExtremeKept ==
  ASSUME NEW n \in Nat, Same(n), NEW s \in Sides, NEW x, IsExtreme(s, x, n)
  PROVE  IsExtreme(s, x, n)'
<1>1. ASSUME NEW j \in 1 .. n
      PROVE  Beyond(s, Level(s, j), Level(s, x))' = Beyond(s, Level(s, j), Level(s, x))
  <2>1. x \in 1 .. n
    BY DEF IsExtreme
  <2> QED
    BY <2>1, PricesKept DEF Beyond
<1> QED
  BY <1>1 DEF IsExtreme

LEMMA ExtremeNext ==
  ASSUME CandlesOK, NEW n \in Nat, NEW b, b = n + 1, b <= Len(candles), PivotInv(n),
         NEW s \in Sides, IsExtreme(s, trailing[s], n)
  PROVE  IsExtreme(s, Extreme(s, b), b)
<1>1. PICK old, p, pivot : /\ old = trailing[s] /\ p = b - SwingLength
        /\ pivot = (IF /\ Confirms("swing", s, b)
                       /\ old = 0 \/ ~Beyond(s, Level(s, old), Level(s, p)) THEN p ELSE old)
  OBVIOUS
<1>2. Extreme(s, b) = IF pivot = 0 \/ Beyond(s, Level(s, b), Level(s, pivot)) THEN b ELSE pivot
  BY <1>1 DEF Extreme
<1>3. \A j \in 1 .. b : Level(s, j) \in Int
  <2>1. \A j \in 1 .. b : j \in 1 .. Len(candles)
    BY DEF CandlesOK
  <2> QED
    BY <2>1, PriceTypes
<1>4. Confirms("swing", s, b) => p \in 1 .. n
  BY <1>1, SizesAre, ConfirmedLate
<1>5. IsExtreme(s, pivot, n)
  <2>1. CASE pivot = old
    BY <1>1, <2>1
  <2>2. CASE pivot # old
    <3>1. pivot = p /\ p \in 1 .. n /\ (old = 0 \/ ~Beyond(s, Level(s, old), Level(s, p)))
      BY <1>1, <1>4, <2>2
    <3>2. old \in 1 .. n /\ ~Beyond(s, Level(s, old), Level(s, p))
          /\ \A j \in 1 .. n : ~Beyond(s, Level(s, j), Level(s, old))
      BY <1>1, <3>1 DEF IsExtreme
    <3>3. \A j \in 1 .. n : ~Beyond(s, Level(s, j), Level(s, p))
      <4>1. \A j \in 1 .. n : j \in 1 .. b
        OBVIOUS
      <4> QED
        BY <1>3, <3>1, <3>2, <4>1 DEF Beyond
    <3> QED
      BY <3>1, <3>3 DEF IsExtreme
  <2> QED
    BY <2>1, <2>2
<1>6. b \in 1 .. b /\ b # 0 /\ \A j \in 1 .. b : j \in 1 .. n \/ j = b
  OBVIOUS
<1>7. CASE pivot = 0
  <2>1. n = 0
    BY <1>5, <1>7 DEF IsExtreme
  <2>2. 1 .. b = {b} /\ Extreme(s, b) = b
    BY <1>2, <1>7, <2>1
  <2> QED
    BY <1>3, <1>6, <2>2 DEF IsExtreme, Beyond
<1>8. CASE pivot # 0 /\ Beyond(s, Level(s, b), Level(s, pivot))
  <2>1. Extreme(s, b) = b /\ pivot \in 1 .. b
    BY <1>2, <1>5, <1>8 DEF IsExtreme
  <2>2. \A j \in 1 .. n : ~Beyond(s, Level(s, j), Level(s, pivot)) /\ j \in 1 .. b
    BY <1>5 DEF IsExtreme
  <2>3. \A j \in 1 .. b : ~Beyond(s, Level(s, j), Level(s, b))
    BY <1>3, <1>6, <1>8, <2>1, <2>2 DEF Beyond
  <2> QED
    BY <1>6, <2>1, <2>3 DEF IsExtreme
<1>9. CASE pivot # 0 /\ ~Beyond(s, Level(s, b), Level(s, pivot))
  <2>1. Extreme(s, b) = pivot /\ pivot \in 1 .. n
    BY <1>2, <1>5, <1>9 DEF IsExtreme
  <2>2. \A j \in 1 .. b : ~Beyond(s, Level(s, j), Level(s, pivot))
    BY <1>5, <1>6, <1>9 DEF IsExtreme
  <2>3. pivot \in 0 .. b /\ (pivot = 0 <=> b = 0)
    BY <2>1
  <2> QED
    BY <2>1, <2>2, <2>3 DEF IsExtreme
<1> QED
  BY <1>7, <1>8, <1>9

LEMMA ExtremesTurned ==
  ASSUME CandlesOK, NEW n \in Nat, NEW b, b = n + 1, b <= Len(candles), Same(b),
         PivotInv(n), ExtremeInv(n), SmcBar(b)
  PROVE  ExtremeInv(b)'
<1>1. PICK T : T = trailing'
  OBVIOUS
<1>2. T = [s \in Sides |-> Extreme(s, b)]
  BY <1>1 DEF SmcBar
<1>3. \A s \in Sides : IsExtreme(s, T[s], b)
  BY <1>2, ExtremeNext DEF ExtremeInv
<1>4. \A s \in Sides : IsExtreme(s, T[s], b)'
  BY <1>3, ExtremeKept
<1>5. T \in [Sides -> Int]
  <2>1. \A s \in Sides : T[s] \in Int
    BY <1>3 DEF IsExtreme
  <2> QED
    BY <1>2, <2>1
<1> QED
  BY <1>1, <1>4, <1>5 DEF ExtremeInv, Sides

LEMMA ExtremesFed ==
  ASSUME NEW n \in Nat, Same(n), ExtremeInv(n), UNCHANGED smcVars
  PROVE  ExtremeInv(n)'
<1>1. PICK T : T = trailing
  OBVIOUS
<1>2. trailing' = T
  BY <1>1 DEF smcVars
<1>3. \A s \in Sides : IsExtreme(s, T[s], n)'
  BY <1>1, ExtremeKept DEF ExtremeInv
<1> QED
  BY <1>1, <1>2, <1>3 DEF ExtremeInv, Sides

SmcInv(n) == GapInv(n) /\ PivotInv(n) /\ BlockInv(n) /\ StructInv(n) /\ ExtremeInv(n)

LEMMA SmcFed ==
  ASSUME NEW n \in Nat, Same(n), SmcInv(n), UNCHANGED smcVars
  PROVE  SmcInv(n)'
<1>1. GapInv(n)'
  <2>1. gaps' = gaps
    BY DEF smcVars
  <2>2. OpenGaps(n)' = OpenGaps(n) /\ GapSet(n)' = GapSet(n)
    BY OpenGapsKept DEF GapSet, Sides
  <2> QED
    BY <2>1, <2>2 DEF SmcInv, GapInv, ToSet
<1> QED
  BY <1>1, PivotsFed, BlocksFed, StructFed, ExtremesFed DEF SmcInv

LEMMA SmcTurned ==
  ASSUME CandlesOK, NEW n \in Nat, NEW b, b = n + 1, b <= Len(candles), Same(b),
         SmcInv(n), SmcBar(b)
  PROVE  SmcInv(b)'
BY GapsTurned, PivotsTurned, BlocksTurned, StructTurned, ExtremesTurned DEF SmcInv

LEMMA GapsSay ==
  ASSUME NEW n \in Nat, n = bar, SmcInv(n)
  PROVE  GapsAsDefined
<1>1. Bars = 1 .. n
  BY DEF Bars
<1> QED
  BY <1>1 DEF SmcInv, GapInv, GapsAsDefined, OpenGaps, GapSet

LEMMA BlocksSay ==
  ASSUME NEW n \in Nat, n = bar, SmcInv(n)
  PROVE  BlocksAsDefined
BY DEF SmcInv, BlockInv, BlocksAsDefined, OpenOf

LEMMA CrossingsSay ==
  ASSUME NEW n \in Nat, n = bar, SmcInv(n)
  PROVE  CrossingsAsDefined
<1> SUFFICES ASSUME NEW s \in Sides, NEW p, p = pivots["swing"][s], p.at # 0,
                    NEW past, past = {j \in p.at + SwingLength .. bar : Crosses(s, p.at, j)}
             PROVE  /\ p.crossed <=> past # {}
                    /\ Filter[<<"swing", s>>] = "All" =>
                         {e.to : e \in {x \in ToSet(events) :
                            x.kind = "swing" /\ x.side = s /\ x.from = p.at}} =
                           IF past = {} THEN {} ELSE {Min(past)}
  BY DEF CrossingsAsDefined
<1>1. past = Crossings(s, p.at, n)
  BY DEF Crossings
<1>2. BrokenOnce(p, ToSet(events), s, n)
  BY DEF SmcInv, StructInv
<1>3. past \in SUBSET (1 .. n)
  <2>1. p.at \in 0 .. n
    BY SizesAre DEF SmcInv, PivotInv, PivotSet
  <2> QED
    BY <2>1, SizesArePositive
<1>4. FirstOf(past) \in 0 .. n /\ (FirstOf(past) = 0 <=> past = {})
  BY <1>3, FirstOfZero
<1>5. p.crossed <=> past # {}
  BY <1>1, <1>2, <1>4 DEF BrokenOnce
<1>6. ASSUME Filter[<<"swing", s>>] = "All"
      PROVE  SwingTo(ToSet(events), s, p.at) = IF past = {} THEN {} ELSE {Min(past)}
  <2>1. SwingTo(ToSet(events), s, p.at) = Only(FirstOf(past))
    BY <1>1, <1>2, <1>6 DEF BrokenOnce
  <2>2. past # {} => FirstOf(past) = Min(past)
    BY DEF FirstOf
  <2> QED
    BY <1>4, <2>1, <2>2 DEF Only
<1> QED
  BY <1>5, <1>6 DEF SwingTo

LEMMA ExtremesSay ==
  ASSUME CandlesOK, NEW n \in Nat, n = bar, SmcInv(n)
  PROVE  ExtremesAsDefined
<1> SUFFICES ASSUME n # 0
             PROVE  /\ High(trailing["bullish"]) = Max({High(j) : j \in 1 .. n})
                    /\ Low(trailing["bearish"]) = Min({Low(j) : j \in 1 .. n})
  BY DEF ExtremesAsDefined, Bars
<1>1. PICK h, l : h = trailing["bullish"] /\ l = trailing["bearish"]
  OBVIOUS
<1>2. IsExtreme("bullish", h, n) /\ IsExtreme("bearish", l, n)
  BY <1>1 DEF SmcInv, ExtremeInv, Sides
<1>3. \A j \in 1 .. n : High(j) \in Int /\ Low(j) \in Int
  <2>1. \A j \in 1 .. n : j \in 1 .. Len(candles)
    BY DEF CandlesOK
  <2> QED
    BY <2>1, PriceTypes
<1>4. h \in 1 .. n /\ \A j \in 1 .. n : High(j) <= High(h)
  <2>1. h \in 1 .. n /\ \A j \in 1 .. n : ~(High(j) > High(h))
    BY <1>2 DEF IsExtreme, Beyond, Level
  <2> QED
    BY <1>3, <2>1
<1>5. l \in 1 .. n /\ \A j \in 1 .. n : Low(l) <= Low(j)
  <2>1. l \in 1 .. n /\ \A j \in 1 .. n : ~(Low(j) < Low(l))
    BY <1>2 DEF IsExtreme, Beyond, Level
  <2> QED
    BY <1>3, <2>1
<1> DEFINE S == {High(j) : j \in 1 .. n}
           T == {Low(j) : j \in 1 .. n}
<1>6. S \in SUBSET Int /\ High(h) \in S /\ \A y \in S : y <= High(h)
  BY <1>3, <1>4
<1>7. T \in SUBSET Int /\ Low(l) \in T /\ \A y \in T : Low(l) <= y
  BY <1>3, <1>5
<1> HIDE DEF S, T
<1>8. Max(S) = High(h) /\ Min(T) = Low(l)
  BY <1>6, <1>7, MaxIs, MinIs
<1> QED
  BY <1>1, <1>8 DEF S, T

-----------------------------------------------------------------------------
(***************************************************************************)
(* SessionStats.  The running sums are those of the closes since the       *)
(* session's first candle, and the line drawn from them is the least       *)
(* squares line of these.                                                  *)
(***************************************************************************)

\* y and x are the sums of the first closes from f on, plain and weighted by position.
Sums(y, x, f, m) ==
  /\ y \in [0 .. m -> Int] /\ x \in [0 .. m -> Int] /\ y[0] = 0 /\ x[0] = 0
  /\ \A j \in 1 .. m : /\ y[j] = y[j - 1] + Close(f + j - 1)
                       /\ x[j] = x[j - 1] + Close(f + j - 1) * j

SessionSet == [in : BOOLEAN, start : Int, count : Int, high : Int, low : Int,
               sumY : Int, sumYX : Int]

\* The session that began with candle f, at candle n.
Sitting(r, f, n) ==
  /\ f \in 1 .. n /\ r.start = f /\ Starts(StatsWindow, f, n) /\ r.count = n - f + 1
  /\ r.high = Highest(f, n) /\ r.low = Lowest(f, n)
  /\ \E y, x : Sums(y, x, f, n - f + 1) /\ r.sumY = y[n - f + 1] /\ r.sumYX = x[n - f + 1]

SessionAt(r, n) ==
  /\ r \in SessionSet /\ (r.in <=> n # 0 /\ InSession(n))
  /\ r.in => \E f \in 1 .. n : Sitting(r, f, n)

LEMMA SumsKept ==
  ASSUME NEW n \in Nat, Same(n), NEW f \in 1 .. n, NEW m, m = n - f + 1, NEW y, NEW x,
         Sums(y, x, f, m)
  PROVE  Sums(y, x, f, m)'
<1>1. ASSUME NEW j \in 1 .. m PROVE Close(f + j - 1)' = Close(f + j - 1)
  <2>1. PICK k : k = f + j - 1
    OBVIOUS
  <2>2. k \in 1 .. n
    BY <2>1
  <2>3. Close(k)' = Close(k)
    BY <2>2, PricesKept
  <2> QED
    BY <2>1, <2>3
<1> QED
  BY <1>1 DEF Sums

LEMMA SessionKept ==
  ASSUME NEW n \in Nat, Same(n), NEW r, SessionAt(r, n)
  PROVE  SessionAt(r, n)'
<1>1. ASSUME NEW f \in 1 .. n, Sitting(r, f, n) PROVE Sitting(r, f, n)'
  <2>1. n \in 1 .. n
    BY <1>1
  <2>2. Highest(f, n)' = Highest(f, n) /\ Lowest(f, n)' = Lowest(f, n)
    <3>1. \A j \in f .. n : High(j)' = High(j) /\ Low(j)' = Low(j)
      BY PricesKept
    <3> QED
      BY <3>1 DEF Highest, Lowest
  <2>3. Starts(StatsWindow, f, n)' = Starts(StatsWindow, f, n)
    BY DEF Starts, InWindow, Hour
  <2>4. PICK m : m = n - f + 1
    OBVIOUS
  <2>5. PICK y, x : Sums(y, x, f, m) /\ r.sumY = y[m] /\ r.sumYX = x[m]
    BY <1>1, <2>4 DEF Sitting
  <2>6. Sums(y, x, f, m)'
    BY <2>4, <2>5, SumsKept
  <2>7. \E a, c : Sums(a, c, f, n - f + 1)' /\ r.sumY = a[n - f + 1] /\ r.sumYX = c[n - f + 1]
    BY <2>4, <2>5, <2>6
  <2> QED
    BY <1>1, <2>2, <2>3, <2>7 DEF Sitting
<1>2. InSession(n)' = InSession(n)
  BY DEF InSession, InWindow, Hour
<1> QED
  BY <1>1, <1>2 DEF SessionAt, SessionSet

LEMMA SumsGrow ==
  ASSUME CandlesOK, NEW n \in Nat, NEW b, b = n + 1, b <= Len(candles), NEW f \in 1 .. n,
         NEW m, m = n - f + 1, NEW y, NEW x, Sums(y, x, f, m)
  PROVE  \E a, c : /\ Sums(a, c, f, m + 1) /\ a[m + 1] = y[m] + Close(b)
                   /\ c[m + 1] = x[m] + Close(b) * (m + 1)
<1>1. b \in 1 .. Len(candles) /\ m \in Nat /\ f + (m + 1) - 1 = b
  BY DEF CandlesOK
<1>2. Close(b) \in Int
  BY <1>1, PriceTypes
<1> DEFINE a == [j \in 0 .. m + 1 |-> IF j = m + 1 THEN y[m] + Close(b) ELSE y[j]]
           c == [j \in 0 .. m + 1 |-> IF j = m + 1 THEN x[m] + Close(b) * (m + 1) ELSE x[j]]
<1>3. a \in [0 .. m + 1 -> Int] /\ c \in [0 .. m + 1 -> Int]
  <2>1. \A j \in 0 .. m + 1 : j # m + 1 => j \in 0 .. m
    BY <1>1
  <2>2. y[m] + Close(b) \in Int /\ x[m] + Close(b) * (m + 1) \in Int
    <3>1. m \in 0 .. m
      BY <1>1
    <3>2. y[m] \in Int /\ x[m] \in Int
      BY <3>1 DEF Sums
    <3> QED
      BY <1>1, <1>2, <3>2
  <2> QED
    BY <2>1, <2>2 DEF Sums
<1>4. a[m + 1] = y[m] + Close(b) /\ c[m + 1] = x[m] + Close(b) * (m + 1)
      /\ \A j \in 0 .. m : a[j] = y[j] /\ c[j] = x[j]
  BY <1>1
<1> HIDE DEF a, c
<1>5. a[0] = 0 /\ c[0] = 0
  BY <1>1, <1>4 DEF Sums
<1>6. ASSUME NEW j \in 1 .. m + 1
      PROVE  a[j] = a[j - 1] + Close(f + j - 1) /\ c[j] = c[j - 1] + Close(f + j - 1) * j
  <2>1. CASE j = m + 1
    <3>1. j - 1 = m /\ m \in 0 .. m /\ f + j - 1 = b
      BY <1>1, <2>1
    <3> QED
      BY <1>4, <2>1, <3>1
  <2>2. CASE j # m + 1
    <3>1. j \in 1 .. m /\ j \in 0 .. m /\ j - 1 \in 0 .. m
      BY <1>1, <2>2
    <3> QED
      BY <1>4, <3>1 DEF Sums
  <2> QED
    BY <2>1, <2>2
<1>7. Sums(a, c, f, m + 1)
  BY <1>3, <1>5, <1>6 DEF Sums
<1> QED
  BY <1>4, <1>7

LEMMA SumsBegin ==
  ASSUME CandlesOK, NEW b \in 1 .. Len(candles)
  PROVE  \E y, x : Sums(y, x, b, 1) /\ y[1] = Close(b) /\ x[1] = Close(b)
<1>1. Close(b) \in Int /\ b + 1 - 1 = b
  BY PriceTypes DEF CandlesOK
<1> DEFINE y == [j \in 0 .. 1 |-> IF j = 0 THEN 0 ELSE Close(b)]
<1>2. y \in [0 .. 1 -> Int] /\ y[0] = 0 /\ y[1] = Close(b)
  BY <1>1
<1> HIDE DEF y
<1>3. ASSUME NEW j \in 1 .. 1
      PROVE  y[j] = y[j - 1] + Close(b + j - 1) /\ y[j] = y[j - 1] + Close(b + j - 1) * j
  <2>1. j = 1 /\ j - 1 = 0 /\ b + j - 1 = b
    BY <1>1
  <2> QED
    BY <1>1, <1>2, <2>1
<1>4. Sums(y, y, b, 1)
  BY <1>2, <1>3 DEF Sums
<1> QED
  BY <1>2, <1>4

LEMMA SessionNext ==
  ASSUME CandlesOK, NEW n \in Nat, NEW b, b = n + 1, b <= Len(candles),
         NEW r, r = session, SessionAt(r, n), NEW s, s = session', StatsBar(b)
  PROVE  SessionAt(s, b)
<1>1. b \in 1 .. Len(candles) /\ b \in 1 .. b /\ b # 0
  BY DEF CandlesOK
<1>2. High(b) \in Int /\ Low(b) \in Int /\ Close(b) \in Int
  BY <1>1, PriceTypes
<1>3. CASE ~InSession(b)
  <2>1. s = [r EXCEPT !.in = FALSE]
    BY <1>3 DEF StatsBar
  <2>2. s \in SessionSet /\ s.in = FALSE
    BY <2>1 DEF SessionAt, SessionSet
  <2> QED
    BY <1>3, <2>2 DEF SessionAt
<1>4. CASE InSession(b) /\ r.in
  <2>1. PICK f \in 1 .. n : Sitting(r, f, n)
    BY <1>4 DEF SessionAt
  <2>2. PICK m : m = n - f + 1
    OBVIOUS
  <2>3. PICK y, x : Sums(y, x, f, m) /\ r.sumY = y[m] /\ r.sumYX = x[m]
    BY <2>1, <2>2 DEF Sitting
  <2>4. r.count = m /\ r.start = f /\ r.high = Highest(f, n) /\ r.low = Lowest(f, n)
        /\ Starts(StatsWindow, f, n)
    BY <2>1, <2>2 DEF Sitting
  <2>5. PICK H, L, Y, X : H = Max({r.high, High(b)}) /\ L = Min({r.low, Low(b)})
                          /\ Y = r.sumY + Close(b) /\ X = r.sumYX + Close(b) * (r.count + 1)
    OBVIOUS
  <2>6. s = [r EXCEPT !.count = m + 1, !.high = H, !.low = L, !.sumY = Y, !.sumYX = X]
    BY <1>4, <2>4, <2>5 DEF StatsBar, Continued
  <2>7. Highest(f, b) = H /\ Lowest(f, b) = L
    <3>1. Widened(RangeOf(f, n), b) = RangeOf(f, b)
      BY <2>1, RangeWidens
    <3>2. PICK q : q = RangeOf(f, n)
      OBVIOUS
    <3>3. q.high = r.high /\ q.low = r.low /\ q \in [from : {f}, high : {r.high}, low : {r.low}]
      BY <2>4, <3>2 DEF RangeOf
    <3>4. Widened(q, b) = [q EXCEPT !.high = H, !.low = L]
      BY <2>5, <3>3 DEF Widened
    <3>5. Widened(q, b).high = H /\ Widened(q, b).low = L
      BY <3>3, <3>4
    <3>6. RangeOf(f, b).high = Highest(f, b) /\ RangeOf(f, b).low = Lowest(f, b)
      BY DEF RangeOf
    <3> QED
      BY <3>1, <3>2, <3>5, <3>6
  <2>8. H \in Int /\ L \in Int
    <3>1. b \in 1 .. Len(candles) /\ f \in 1 .. b
      BY <1>1
    <3> QED
      BY <2>7, <3>1, HighestIs
  <2>9. m \in Nat /\ m + 1 = b - f + 1 /\ Y \in Int /\ X \in Int
    <3>1. r.sumY \in Int /\ r.sumYX \in Int
      BY DEF SessionAt, SessionSet
    <3>2. m \in Nat /\ m + 1 = b - f + 1
      BY <2>2
    <3>3. PICK v, w : v = Close(b) /\ w = v * (m + 1)
      OBVIOUS
    <3>4. v \in Int /\ w \in Int
      BY <1>2, <3>2, <3>3
    <3>5. Y = r.sumY + v /\ X = r.sumYX + w
      BY <2>4, <2>5, <3>3
    <3> QED
      BY <3>1, <3>2, <3>4, <3>5
  <2>10. s \in SessionSet /\ s.count = m + 1 /\ s.high = H /\ s.low = L /\ s.sumY = Y /\ s.sumYX = X
         /\ s.start = r.start /\ s.in = r.in
    <3>1. r \in SessionSet /\ m + 1 \in Int
      BY <2>9 DEF SessionAt
    <3> QED
      BY <2>6, <2>8, <2>9, <3>1 DEF SessionSet
  <2>11. PICK a, c : /\ Sums(a, c, f, m + 1) /\ a[m + 1] = y[m] + Close(b)
                     /\ c[m + 1] = x[m] + Close(b) * (m + 1)
    BY <2>2, <2>3, SumsGrow
  <2>12. Starts(StatsWindow, f, b) /\ f \in 1 .. b
    <3>1. \A j \in f .. b : j \in f .. n \/ j = b
      OBVIOUS
    <3> QED
      BY <1>4, <2>4, <3>1 DEF Starts, InSession
  <2>13. \E e, g : Sums(e, g, f, b - f + 1) /\ s.sumY = e[b - f + 1] /\ s.sumYX = g[b - f + 1]
    <3>1. s.sumY = a[m + 1] /\ s.sumYX = c[m + 1]
      BY <2>3, <2>4, <2>5, <2>10, <2>11
    <3> QED
      BY <2>9, <2>11, <3>1
  <2>14. Sitting(s, f, b)
    BY <2>4, <2>7, <2>9, <2>10, <2>12, <2>13 DEF Sitting
  <2> QED
    BY <1>1, <1>4, <2>10, <2>12, <2>14 DEF SessionAt
<1>5. CASE InSession(b) /\ ~r.in
  <2>1. PICK c : c = Close(b)
    OBVIOUS
  <2>2. s = [in |-> TRUE, start |-> b, count |-> 1, high |-> High(b), low |-> Low(b),
             sumY |-> c, sumYX |-> c]
    BY <1>5, <2>1 DEF StatsBar, Opened
  <2>3. s \in SessionSet /\ s.in = TRUE /\ s.start = b /\ s.count = 1 /\ s.high = High(b)
        /\ s.low = Low(b) /\ s.sumY = c /\ s.sumYX = c
    BY <1>1, <1>2, <2>1, <2>2 DEF SessionSet
  <2>4. Highest(b, b) = High(b) /\ Lowest(b, b) = Low(b)
    <3>1. Span(b) = RangeOf(b, b)
      BY <1>1, SpanIsRange
    <3>2. Span(b).high = High(b) /\ Span(b).low = Low(b)
      BY DEF Span
    <3>3. RangeOf(b, b).high = Highest(b, b) /\ RangeOf(b, b).low = Lowest(b, b)
      BY DEF RangeOf
    <3> QED
      BY <3>1, <3>2, <3>3
  <2>5. Starts(StatsWindow, b, b)
    <3>1. b .. b = {b} /\ b - 1 = n /\ (b = 1 <=> n = 0)
      BY <1>1
    <3> QED
      BY <1>5, <3>1 DEF Starts, SessionAt, InSession
  <2>6. b - b + 1 = 1
    BY <1>1
  <2>7. \E y, x : Sums(y, x, b, b - b + 1) /\ s.sumY = y[b - b + 1] /\ s.sumYX = x[b - b + 1]
    BY <1>1, <2>1, <2>3, <2>6, SumsBegin
  <2>8. Sitting(s, b, b)
    BY <1>1, <2>3, <2>4, <2>5, <2>6, <2>7 DEF Sitting
  <2> QED
    BY <1>1, <1>5, <2>3, <2>8 DEF SessionAt
<1> QED
  BY <1>3, <1>4, <1>5

\* A sum does not depend on the order of its terms.
LEMMA SumWithout ==
  ASSUME NEW S, IsFiniteSet(S), NEW f \in [S -> Int]
  PROVE  \A T \in SUBSET S : /\ SumOn(f, S)[T] \in Int
                             /\ \A x \in T : SumOn(f, S)[T] = f[x] + SumOn(f, S)[T \ {x}]
<1> DEFINE G == {T \in SUBSET S :
                   /\ SumOn(f, S)[T] \in Int
                   /\ \A x \in T : SumOn(f, S)[T] = f[x] + SumOn(f, S)[T \ {x}]}
<1>0. \A s \in SUBSET S : s # {} =>
        SumOn(f, S)[s] = f[First(s)] + SumOn(f, S)[s \ {First(s)}]
  BY SumOnStep
<1>1. {} \in G
  BY SumOnDef
<1>2. \A T \in SUBSET S : (\A U \in SUBSET T : U # T => U \in G) => T \in G
  <2> SUFFICES ASSUME NEW T \in SUBSET S, T # {}, \A U \in SUBSET T : U # T => U \in G
               PROVE  T \in G
    BY <1>1
  <2>1. PICK y : y = First(T)
    OBVIOUS
  <2>2. y \in T /\ T \ {y} \in G /\ f[y] \in Int
    BY <2>1, FirstIn
  <2>3. SumOn(f, S)[T] = f[y] + SumOn(f, S)[T \ {y}]
    BY <1>0, <2>1
  <2>4. SumOn(f, S)[T] \in Int
    BY <2>2, <2>3
  <2>5. ASSUME NEW x \in T PROVE SumOn(f, S)[T] = f[x] + SumOn(f, S)[T \ {x}]
    <3>1. CASE x = y
      BY <2>3, <3>1
    <3>2. CASE x # y
      <4>1. x \in T \ {y} /\ y \in T \ {x} /\ T \ {x} \in G /\ f[x] \in Int
        BY <2>2, <3>2
      <4>2. PICK U : U = (T \ {x}) \ {y}
        OBVIOUS
      <4>3. U = (T \ {y}) \ {x} /\ U \in G
        BY <2>2, <4>2
      <4>4. SumOn(f, S)[T \ {y}] = f[x] + SumOn(f, S)[U]
        BY <2>2, <4>1, <4>3
      <4>5. SumOn(f, S)[T \ {x}] = f[y] + SumOn(f, S)[U]
        BY <4>1, <4>2
      <4>6. SumOn(f, S)[U] \in Int
        BY <4>3
      <4> HIDE DEF G
      <4> QED
        BY <2>2, <2>3, <4>1, <4>4, <4>5, <4>6
    <3> QED
      BY <3>1, <3>2
  <2> QED
    BY <2>4, <2>5
<1> HIDE DEF G
<1>3. \A T \in SUBSET S : T \in G
  BY <1>1, <1>2, FiniteInduction
<1> QED
  BY <1>3 DEF G

LEMMA SumSpan ==
  ASSUME NEW n \in Nat, NEW f \in [1 .. n -> Int]
  PROVE  /\ SumOn(f, 1 .. n)[1 .. 0] = 0
         /\ \A m \in 0 .. n : SumOn(f, 1 .. n)[1 .. m] \in Int
         /\ \A m \in 0 .. n : m # n =>
              SumOn(f, 1 .. n)[1 .. m + 1] = f[m + 1] + SumOn(f, 1 .. n)[1 .. m]
<1>1. IsFiniteSet(1 .. n)
  BY FS_Interval
<1>2. PICK g : g = SumOn(f, 1 .. n)
  OBVIOUS
<1>3. /\ \A T \in SUBSET (1 .. n) : /\ g[T] \in Int
                                   /\ \A x \in T : g[T] = f[x] + g[T \ {x}]
      /\ g[{}] = 0
  <2>1. PICK S : S = 1 .. n
    OBVIOUS
  <2>2. IsFiniteSet(S) /\ f \in [S -> Int] /\ g = SumOn(f, S)
    BY <1>1, <1>2, <2>1
  <2>3. \A T \in SUBSET S : /\ SumOn(f, S)[T] \in Int
                            /\ \A x \in T : SumOn(f, S)[T] = f[x] + SumOn(f, S)[T \ {x}]
    BY <2>2, SumWithout
  <2>4. SumOn(f, S)[{}] = 0
    BY <2>2, SumOnDef
  <2> QED
    BY <2>1, <2>2, <2>3, <2>4
<1>4. 1 .. 0 = {}
  OBVIOUS
<1>5. ASSUME NEW m \in 0 .. n, m # n
      PROVE  g[1 .. m + 1] = f[m + 1] + g[1 .. m]
  <2>1. PICK M, v : M = 1 .. m + 1 /\ v = m + 1
    OBVIOUS
  <2>2. v \in M /\ v \in Int
    BY <2>1
  <2>3. M \in SUBSET (1 .. n)
    BY <1>5, <2>1
  <2>4. M \ {v} = 1 .. m
    BY <2>1
  <2>5. g[M] = f[v] + g[M \ {v}]
    BY <1>3, <2>2, <2>3
  <2> QED
    BY <2>1, <2>4, <2>5
<1>6. \A m \in 0 .. n : 1 .. m \in SUBSET (1 .. n)
  OBVIOUS
<1> QED
  BY <1>2, <1>3, <1>4, <1>5, <1>6

(***************************************************************************)
(* The sum of the deviations of closes c from a line a + (j - 1) d, plain  *)
(* and weighted, in terms of the sums y and x of the closes; k scales them.*)
(***************************************************************************)
Deviates(f, g, c, y, x, n, k, a, d) ==
  /\ c \in [1 .. n -> Int] /\ y \in [0 .. n -> Int] /\ x \in [0 .. n -> Int]
  /\ y[0] = 0 /\ x[0] = 0
  /\ \A j \in 1 .. n : y[j] = y[j - 1] + c[j] /\ x[j] = x[j - 1] + c[j] * j
  /\ f \in [1 .. n -> Int] /\ \A j \in 1 .. n : f[j] = k * c[j] - (a + (j - 1) * d)
  /\ g \in [1 .. n -> Int] /\ \A j \in 1 .. n : g[j] = j * f[j]

ComesTo(s, t, Y, X, n, k, a, d) ==
  /\ 2 * s = 2 * k * Y - 2 * n * a - n * (n - 1) * d
  /\ 6 * t = 6 * k * X - 3 * n * (n + 1) * a - 2 * (n - 1) * n * (n + 1) * d

LEMMA DeviationSums ==
  ASSUME NEW n \in Nat, NEW k \in Int, NEW a \in Int, NEW d \in Int,
         NEW c, NEW y, NEW x, NEW f, NEW g, Deviates(f, g, c, y, x, n, k, a, d)
  PROVE  ComesTo(SumOn(f, 1 .. n)[1 .. n], SumOn(g, 1 .. n)[1 .. n], y[n], x[n], n, k, a, d)
<1>0. /\ c \in [1 .. n -> Int] /\ y \in [0 .. n -> Int] /\ x \in [0 .. n -> Int]
      /\ y[0] = 0 /\ x[0] = 0
      /\ \A j \in 1 .. n : y[j] = y[j - 1] + c[j] /\ x[j] = x[j - 1] + c[j] * j
      /\ f \in [1 .. n -> Int] /\ \A j \in 1 .. n : f[j] = k * c[j] - (a + (j - 1) * d)
      /\ g \in [1 .. n -> Int] /\ \A j \in 1 .. n : g[j] = j * f[j]
  BY DEF Deviates
<1> DEFINE F(m) == SumOn(f, 1 .. n)[1 .. m]
           H(m) == SumOn(g, 1 .. n)[1 .. m]
           P(m) == m <= n =>
                     /\ 2 * F(m) = 2 * k * y[m] - 2 * m * a - m * (m - 1) * d
                     /\ 6 * H(m) = 6 * k * x[m] - 3 * m * (m + 1) * a
                                     - 2 * (m - 1) * m * (m + 1) * d
           G == {m \in Nat : P(m)}
<1>1. F(0) = 0 /\ H(0) = 0
  BY <1>0, SumSpan
<1>2. \A m \in 0 .. n : F(m) \in Int /\ H(m) \in Int
  BY <1>0, SumSpan
<1>3. \A m \in 0 .. n : m # n => F(m + 1) = f[m + 1] + F(m) /\ H(m + 1) = g[m + 1] + H(m)
  BY <1>0, SumSpan
<1> HIDE DEF F, H
<1>4. 0 \in G
  BY <1>0, <1>1
<1>5. \A m \in Nat : m \in G => m + 1 \in G
  <2> SUFFICES ASSUME NEW m \in Nat, P(m), NEW z, z = m + 1 PROVE P(z)
    <3> HIDE DEF P
    <3> QED
      OBVIOUS
  <2> SUFFICES ASSUME z <= n
               PROVE  /\ 2 * F(z) = 2 * k * y[z] - 2 * z * a - z * (z - 1) * d
                      /\ 6 * H(z) = 6 * k * x[z] - 3 * z * (z + 1) * a
                                      - 2 * (z - 1) * z * (z + 1) * d
    OBVIOUS
  <2>1. m \in 0 .. n /\ m # n /\ m + 1 \in 1 .. n /\ m + 1 - 1 = m
    OBVIOUS
  <2>2. PICK e, s, t, p, q : e = c[m + 1] /\ s = F(m) /\ t = H(m) /\ p = y[m] /\ q = x[m]
    OBVIOUS
  <2>3. e \in Int /\ s \in Int /\ t \in Int /\ p \in Int /\ q \in Int
    BY <1>0, <1>2, <2>1, <2>2
  <2>10. z \in 1 .. n /\ z - 1 = m
    BY <2>1
  <2>11. /\ y[z] = y[z - 1] + c[z] /\ x[z] = x[z - 1] + c[z] * z
         /\ f[z] = k * c[z] - (a + (z - 1) * d) /\ g[z] = z * f[z]
    BY <1>0, <2>10
  <2>4. y[m + 1] = p + e /\ x[m + 1] = q + e * (m + 1)
    BY <2>2, <2>10, <2>11
  <2>5. f[m + 1] = k * e - (a + m * d) /\ g[m + 1] = (m + 1) * (k * e - (a + m * d))
    BY <2>2, <2>10, <2>11
  <2>6. F(m + 1) = (k * e - (a + m * d)) + s /\ H(m + 1) = (m + 1) * (k * e - (a + m * d)) + t
    BY <1>3, <2>1, <2>2, <2>5
  <2>7. /\ 2 * s = 2 * k * p - 2 * m * a - m * (m - 1) * d
        /\ 6 * t = 6 * k * q - 3 * m * (m + 1) * a - 2 * (m - 1) * m * (m + 1) * d
    BY <2>1, <2>2
  <2> HIDE DEF G
  <2>8. 2 * ((k * e - (a + m * d)) + s) = 2 * k * (p + e) - 2 * (m + 1) * a
                                            - (m + 1) * (m + 1 - 1) * d
    BY <2>3, <2>7
  <2>9. 6 * ((m + 1) * (k * e - (a + m * d)) + t) =
          6 * k * (q + e * (m + 1)) - 3 * (m + 1) * (m + 1 + 1) * a
            - 2 * (m + 1 - 1) * (m + 1) * (m + 1 + 1) * d
    BY <2>3, <2>7
  <2> HIDE DEF P
  <2> QED
    BY <2>4, <2>6, <2>8, <2>9
<1>6. n \in G
  <2> HIDE DEF G
  <2> QED
    BY <1>4, <1>5, CountInduction
<1> QED
  BY <1>6 DEF F, H, ComesTo

\* The first and the last end of the fitted line, and what they make of k, a and d.
EndsFor(F, L, k, a, d, Y, X, n) ==
  /\ F = 4 * Y * (n + 1) - 6 * X
  /\ L = 6 * X - 2 * Y * (n + 1)
  /\ k = n * (n + 1) * (n - 1)
  /\ a = F * (n - 1)
  /\ d = L - F

\* The ends of the line are chosen so that both sums vanish.
LEMMA LineFits ==
  ASSUME NEW n \in Nat, NEW Y \in Int, NEW X \in Int, NEW s \in Int, NEW t \in Int,
         NEW F, NEW L, NEW k, NEW a, NEW d,
         EndsFor(F, L, k, a, d, Y, X, n), ComesTo(s, t, Y, X, n, k, a, d)
  PROVE  s = 0 /\ t = 0
<1>. USE DEF EndsFor
<1>0. /\ 2 * s = 2 * k * Y - 2 * n * (F * (n - 1)) - n * (n - 1) * (L - F)
      /\ 6 * t = 6 * k * X - 3 * n * (n + 1) * (F * (n - 1)) - 2 * (n - 1) * n * (n + 1) * (L - F)
  BY DEF ComesTo
<1>1. 2 * (n * (n + 1) * (n - 1)) * Y - 2 * n * ((4 * Y * (n + 1) - 6 * X) * (n - 1))
        - n * (n - 1) * ((6 * X - 2 * Y * (n + 1)) - (4 * Y * (n + 1) - 6 * X)) = 0
  OBVIOUS
<1>2. 6 * (n * (n + 1) * (n - 1)) * X - 3 * n * (n + 1) * ((4 * Y * (n + 1) - 6 * X) * (n - 1))
        - 2 * (n - 1) * n * (n + 1) * ((6 * X - 2 * Y * (n + 1)) - (4 * Y * (n + 1) - 6 * X)) = 0
  OBVIOUS
<1> QED
  BY <1>0, <1>1, <1>2

StatsInv(n) == SessionAt(session, n)

LEMMA StatsFed ==
  ASSUME NEW n \in Nat, Same(n), StatsInv(n), UNCHANGED session
  PROVE  StatsInv(n)'
<1>1. PICK r : r = session
  OBVIOUS
<1>2. session' = r /\ SessionAt(r, n)'
  BY <1>1, SessionKept DEF StatsInv
<1> QED
  BY <1>2 DEF StatsInv

LEMMA StatsTurned ==
  ASSUME CandlesOK, NEW n \in Nat, NEW b, b = n + 1, b <= Len(candles), Same(b),
         StatsInv(n), StatsBar(b)
  PROVE  StatsInv(b)'
<1>1. PICK r, s : r = session /\ s = session'
  OBVIOUS
<1>2. SessionAt(s, b)
  BY <1>1, SessionNext DEF StatsInv
<1>3. SessionAt(s, b)'
  BY <1>2, SessionKept
<1> QED
  BY <1>1, <1>3 DEF StatsInv

LEMMA StatsSay ==
  ASSUME CandlesOK, NEW n \in Nat, n = bar, StatsInv(n)
  PROVE  SessionLineFits
<1> SUFFICES ASSUME session.in PROVE SessionLineFits
  BY DEF SessionLineFits
<1>1. PICK f \in 1 .. n : Sitting(session, f, n)
  BY DEF StatsInv, SessionAt
<1>2. PICK m : m = n - f + 1
  OBVIOUS
<1>3. m \in Nat /\ m >= 1 /\ session.count = m /\ session.start = f
      /\ session.high = Highest(f, n) /\ session.low = Lowest(f, n) /\ Starts(StatsWindow, f, n)
  BY <1>1, <1>2 DEF Sitting
<1>4. PICK y, x : Sums(y, x, f, m) /\ session.sumY = y[m] /\ session.sumYX = x[m]
  BY <1>1, <1>2 DEF Sitting
<1>5. m = Cardinality(f .. n)
  BY <1>2, FS_Interval
<1>6. (\A b \in f .. n : InSession(b)) /\ (f = 1 \/ ~InSession(f - 1))
  BY <1>3 DEF Starts, InSession
<1>7. session.high = Max({High(b) : b \in f .. n}) /\ session.low = Min({Low(b) : b \in f .. n})
  BY <1>3 DEF Highest, Lowest
<1> DEFINE At(j) == FirstEnd * (session.count - 1) + (j - 1) * (LastEnd - FirstEnd)
           Off(j) == Close(session.start + j - 1) * session.count * (session.count + 1)
                       * (session.count - 1) - At(j)
           OffAt(j) == j * Off(j)
<1>8. MapThenSumSet(Off, 1 .. session.count) = 0 /\ MapThenSumSet(OffAt, 1 .. session.count) = 0
  <2>1. \A j \in 1 .. m : Close(f + j - 1) \in Int
    <3> SUFFICES ASSUME NEW j \in 1 .. m PROVE Close(f + j - 1) \in Int
      OBVIOUS
    <3>1. PICK i : i = f + j - 1
      OBVIOUS
    <3>2. i \in 1 .. Len(candles)
      BY <1>2, <3>1 DEF CandlesOK
    <3> QED
      BY <3>1, <3>2, PriceTypes
  <2>2. PICK k, F, L, Y, X : k = m * (m + 1) * (m - 1) /\ F = FirstEnd /\ L = LastEnd
                             /\ Y = y[m] /\ X = x[m]
    OBVIOUS
  <2>3. Y \in Int /\ X \in Int
    <3>1. m \in 0 .. m
      BY <1>3
    <3> QED
      BY <1>4, <2>2, <3>1 DEF Sums
  <2>4. F = 4 * Y * (m + 1) - 6 * X /\ L = 6 * X - 2 * Y * (m + 1)
    BY <1>3, <1>4, <2>2, <2>3 DEF FirstEnd, LastEnd
  <2>5. k \in Int /\ F \in Int /\ L \in Int
    BY <1>3, <2>2, <2>3, <2>4
  <2> DEFINE c == [j \in 1 .. m |-> Close(f + j - 1)]
             u == [j \in 1 .. m |-> Off(j)]
             v == [j \in 1 .. m |-> OffAt(j)]
  <2>6. \A j \in 1 .. m : Off(j) = k * c[j] - (F * (m - 1) + (j - 1) * (L - F))
    <3> SUFFICES ASSUME NEW j \in 1 .. m
                 PROVE  Off(j) = k * c[j] - (F * (m - 1) + (j - 1) * (L - F))
      OBVIOUS
    <3>1. PICK e : e = Close(f + j - 1)
      OBVIOUS
    <3>2. e \in Int /\ c[j] = e
      BY <2>1, <3>1
    <3>3. e * m * (m + 1) * (m - 1) = k * e
      BY <1>3, <2>2, <3>2
    <3>4. Off(j) = e * m * (m + 1) * (m - 1) - (F * (m - 1) + (j - 1) * (L - F))
      BY <1>3, <2>2, <3>1
    <3> HIDE DEF c
    <3> QED
      BY <3>2, <3>3, <3>4
  <2>7. c \in [1 .. m -> Int] /\ \A j \in 1 .. m : c[j] = Close(f + j - 1)
    BY <2>1
  <2>8. \A j \in 1 .. m : Off(j) \in Int /\ OffAt(j) \in Int /\ u[j] = Off(j) /\ v[j] = j * Off(j)
    <3>1. \A j \in 1 .. m : Off(j) \in Int
      <4> SUFFICES ASSUME NEW j \in 1 .. m PROVE Off(j) \in Int
        OBVIOUS
      <4>1. PICK e : e = c[j]
        OBVIOUS
      <4>2. e \in Int /\ Off(j) = k * e - (F * (m - 1) + (j - 1) * (L - F))
        BY <2>6, <2>7, <4>1
      <4> HIDE DEF Off
      <4> QED
        BY <1>3, <2>5, <4>2
    <3> HIDE DEF Off
    <3> QED
      BY <3>1
  <2>9. u \in [1 .. m -> Int] /\ v \in [1 .. m -> Int]
    <3> HIDE DEF Off, OffAt
    <3> QED
      BY <2>8
  <2> DEFINE old(h) == [z \in SUBSET (1 .. m) |->
                          IF z = {} THEN 0 ELSE Off(First(z)) + h[z \ {First(z)}]]
             new(h) == [z \in SUBSET (1 .. m) |->
                          IF z = {} THEN 0 ELSE u[First(z)] + h[z \ {First(z)}]]
             oldAt(h) == [z \in SUBSET (1 .. m) |->
                          IF z = {} THEN 0 ELSE OffAt(First(z)) + h[z \ {First(z)}]]
             newAt(h) == [z \in SUBSET (1 .. m) |->
                          IF z = {} THEN 0 ELSE v[First(z)] + h[z \ {First(z)}]]
  <2>10. MapThenSumSet(Off, 1 .. session.count) = SumOn(u, 1 .. m)[1 .. m]
    <3>1. MapThenSumSet(Off, 1 .. session.count) = (CHOOSE h : h = old(h))[1 .. m]
      BY <1>3 DEF MapThenSumSet, MapThenFoldSet, First
    <3>2. SumOn(u, 1 .. m) = CHOOSE h : h = new(h)
      BY DEF SumOn, IsSum
    <3>3. \A h : old(h) = new(h)
      <4>1. \A z \in SUBSET (1 .. m) : z # {} => Off(First(z)) = u[First(z)]
        <5>1. \A z \in SUBSET (1 .. m) : z # {} => First(z) \in 1 .. m
          BY FirstIn
        <5>2. \A j \in 1 .. m : Off(j) = u[j]
          BY <2>8
        <5> HIDE DEF Off, u
        <5> QED
          BY <5>1, <5>2
      <4> HIDE DEF Off, u
      <4> QED
        BY <4>1
    <3> HIDE DEF old, new, Off, u
    <3> QED
      BY <3>1, <3>2, <3>3
  <2>11. MapThenSumSet(OffAt, 1 .. session.count) = SumOn(v, 1 .. m)[1 .. m]
    <3>1. MapThenSumSet(OffAt, 1 .. session.count) = (CHOOSE h : h = oldAt(h))[1 .. m]
      BY <1>3 DEF MapThenSumSet, MapThenFoldSet, First
    <3>2. SumOn(v, 1 .. m) = CHOOSE h : h = newAt(h)
      BY DEF SumOn, IsSum
    <3>3. \A h : oldAt(h) = newAt(h)
      <4>1. \A z \in SUBSET (1 .. m) : z # {} => OffAt(First(z)) = v[First(z)]
        <5>1. \A z \in SUBSET (1 .. m) : z # {} => First(z) \in 1 .. m
          BY FirstIn
        <5>2. \A j \in 1 .. m : OffAt(j) = v[j]
          BY <2>8
        <5> HIDE DEF OffAt, v
        <5> QED
          BY <5>1, <5>2
      <4> HIDE DEF OffAt, v
      <4> QED
        BY <4>1
    <3> HIDE DEF oldAt, newAt, OffAt, v
    <3> QED
      BY <3>1, <3>2, <3>3
  <2>12. PICK s, t, a, d : /\ s = SumOn(u, 1 .. m)[1 .. m] /\ t = SumOn(v, 1 .. m)[1 .. m]
                           /\ a = F * (m - 1) /\ d = L - F
    OBVIOUS
  <2>13. a \in Int /\ d \in Int /\ s \in Int /\ t \in Int
    <3>1. m \in 0 .. m
      BY <1>3
    <3> HIDE DEF u, v
    <3>2. s \in Int /\ t \in Int
      BY <1>3, <2>9, <2>12, <3>1, SumSpan
    <3>3. a \in Int /\ d \in Int
      BY <1>3, <2>5, <2>12
    <3> QED
      BY <3>2, <3>3
  <2>14. \A j \in 1 .. m : u[j] = k * c[j] - (a + (j - 1) * d) /\ v[j] = j * u[j]
    <3> HIDE DEF Off, OffAt, u, v, c
    <3> QED
      BY <2>6, <2>8, <2>12
  <2> HIDE DEF Off, OffAt, u, v, c
  <2>15. ComesTo(s, t, Y, X, m, k, a, d)
    <3>1. /\ y \in [0 .. m -> Int] /\ x \in [0 .. m -> Int] /\ y[0] = 0 /\ x[0] = 0
          /\ \A j \in 1 .. m : y[j] = y[j - 1] + c[j] /\ x[j] = x[j - 1] + c[j] * j
      BY <1>4, <2>7 DEF Sums
    <3>2. Deviates(u, v, c, y, x, m, k, a, d)
      BY <2>7, <2>9, <2>14, <3>1 DEF Deviates
    <3> QED
      BY <1>3, <2>2, <2>5, <2>12, <2>13, <3>2, DeviationSums
  <2>16. s = 0 /\ t = 0
    <3>1. EndsFor(F, L, k, a, d, Y, X, m)
      BY <1>3, <2>2, <2>4, <2>12 DEF EndsFor
    <3> QED
      BY <1>3, <2>3, <2>13, <2>15, <3>1, LineFits
  <2> QED
    BY <2>10, <2>11, <2>12, <2>16
<1>9. session.count = Cardinality(session.start .. bar)
      /\ (\A b \in session.start .. bar : InSession(b))
      /\ (session.start = 1 \/ ~InSession(session.start - 1))
      /\ session.high = Max({High(b) : b \in session.start .. bar})
      /\ session.low = Min({Low(b) : b \in session.start .. bar})
  BY <1>3, <1>5, <1>6, <1>7
<1> QED
  BY <1>8, <1>9 DEF SessionLineFits, MapThenSumSet, MapThenFoldSet

-----------------------------------------------------------------------------
(***************************************************************************)
(* The studies together.  All of them have been over the first n candles.  *)
(***************************************************************************)

\* The invariant says when each zone ended and which lines are drawn.
LEMMA ZonesSay ==
  ASSUME NEW n \in Nat, n = bar, IctInv(n)
  PROVE  ZonesAsDefined /\ LinesAsDefined
<1>1. \A x \in DOMAIN obs :
        obs[x].brokenAt = FirstBar(obs[x].made, LAMBDA j : BodyPasses(obs[x], j))
  <2> SUFFICES ASSUME NEW x \in DOMAIN obs
               PROVE  obs[x].brokenAt = FirstBar(obs[x].made, LAMBDA j : BodyPasses(obs[x], j))
    OBVIOUS
  <2>1. obs[x] \in ObSet(n, n)
    BY DEF IctInv
  <2> QED
    BY <2>1 DEF ObSet, FirstOf, FirstBar
<1>2. \A s \in Sides : \A x \in DOMAIN fvgs[s] :
        fvgs[s][x].hitAt = FirstBar(fvgs[s][x].at, LAMBDA j : Hits(fvgs[s][x], j))
  <2> SUFFICES ASSUME NEW s \in Sides, NEW x \in DOMAIN fvgs[s]
               PROVE  fvgs[s][x].hitAt = FirstBar(fvgs[s][x].at, LAMBDA j : Hits(fvgs[s][x], j))
    OBVIOUS
  <2>1. fvgs[s] \in Seq(FvgSet(n, n))
    BY DEF IctInv
  <2>2. fvgs[s][x] \in FvgSet(n, n)
    BY <2>1
  <2> QED
    BY <2>2 DEF FvgSet, FirstOf, FirstBar
<1>3. \A x \in DOMAIN pools :
        pools[x].broken <=> \E j \in pools[x].made .. bar : ClosesPast(pools[x], j)
  <2> SUFFICES ASSUME NEW x \in DOMAIN pools
               PROVE  pools[x].broken <=> \E j \in pools[x].made .. bar : ClosesPast(pools[x], j)
    OBVIOUS
  <2>1. pools[x] \in PoolSet(n, n)
    BY DEF IctInv
  <2> QED
    BY <2>1 DEF PoolSet
<1>4. LinesAsDefined
  BY DEF IctInv, LinesOf, Drawn, LinesAsDefined
<1> QED
  BY <1>1, <1>2, <1>3, <1>4 DEF ZonesAsDefined

LEMMA MsbZonesSay ==
  ASSUME NEW n \in Nat, n = bar, MsbInv(n)
  PROVE  MsbZonesAsDefined
BY DEF MsbInv, Whole, InOrder, MsbZonesAsDefined

StudiesAt(n) == IctInv(n) /\ MsbInv(n) /\ KzInv(n) /\ SmcInv(n) /\ StatsInv(n)

ChartInv == CandlesOK /\ \E n \in Nat : n = bar /\ StudiesAt(n)

LEMMA StudiesBegin ==
  ASSUME Init
  PROVE  ChartInv
<1>1. CandlesOK /\ bar = 0
  BY DEF Init, CandlesInit, CandlesOK
<1>2. IctInv(0)
  <2>1. fvgs \in [Sides -> Seq(FvgSet(0, 0))]
    BY DEF Init, IctInit
  <2>2. SwingsBy(0) = {} /\ Passages(0) = {}
    BY DEF SwingsBy, Passages
  <2>3. zz = <<>> /\ lines = <<>> /\ trend = "none" /\ obs = <<>> /\ pools = <<>>
    BY DEF Init, IctInit
  <2>4. Listed(zz, 0) /\ Turned(trend, Passages(0)) /\ LinesOf(lines, Passages(0))
    BY <2>2, <2>3 DEF Listed, Turned, LinesOf, Drawn, ToSet, Sides
  <2> QED
    BY <2>1, <2>3, <2>4 DEF IctInv
<1>3. MsbInv(0)
  BY DEF Init, MsbInit, MsbInv, Whole, InOrder, ToSet
<1>4. KzInv(0)
  <2>1. \A w \in Sessions : Tracks(trackers[w], w, 0)
    BY DEF Init, KzInit, Outside, Tracks
  <2>2. RunSet(0) = {}
    BY DEF RunSet
  <2> QED
    BY <2>1, <2>2 DEF Init, KzInit, KzInv, ZonesOf
<1>5. SmcInv(0)
  <2>1. GapInv(0)
    BY DEF Init, SmcInit, GapInv, OpenGaps, GapSet, ToSet
  <2>2. PivotInv(0)
    <3>1. \A k \in Kinds : Leg(0, Size[k]) = 0
      BY SizesAre, LegIs
    <3> QED
      BY <3>1 DEF Init, SmcInit, PivotInv, PivotSet, NoPivot
  <2>3. BlockInv(0)
    BY DEF Init, SmcInit, BlockInv, OpenOf, ToSet
  <2>4. StructInv(0)
    BY SizesAre DEF Init, SmcInit, StructInv, BrokenOnce, NoPivot
  <2>5. ExtremeInv(0)
    BY DEF Init, SmcInit, ExtremeInv, IsExtreme
  <2> QED
    BY <2>1, <2>2, <2>3, <2>4, <2>5 DEF SmcInv
<1>6. StatsInv(0)
  BY DEF Init, StatsInit, NoSession, StatsInv, SessionAt, SessionSet
<1> QED
  BY <1>1, <1>2, <1>3, <1>4, <1>5, <1>6 DEF ChartInv, StudiesAt

\* A candle that arrives, or a step that changes nothing, leaves the studies where they are.
LEMMA StudiesFed ==
  ASSUME NEW n \in Nat, Same(n), StudiesAt(n),
         UNCHANGED <<smcVars, ictVars, kzVars, msbVars, session>>
  PROVE  StudiesAt(n)'
BY IctFed, MsbFed, KzFed, SmcFed, StatsFed DEF StudiesAt

LEMMA StudiesTurned ==
  ASSUME CandlesOK, NEW n \in Nat, NEW b, b = n + 1, b <= Len(candles), Same(b), StudiesAt(n),
         SmcBar(b), IctBar(b), KzBar(b), MsbBar(b), StatsBar(b)
  PROVE  StudiesAt(b)'
<1>1. IctInv(b)'
  BY IctTurned DEF StudiesAt
<1> QED
  BY <1>1, MsbTurned, KzTurned, SmcTurned, StatsTurned DEF StudiesAt

LEMMA StudiesStep ==
  ASSUME ChartInv, [Next]_vars
  PROVE  ChartInv'
<1>1. PICK n \in Nat : n = bar /\ StudiesAt(n)
  BY DEF ChartInv
<1>2. CandlesOK
  BY DEF ChartInv
<1>3. CASE Feed
  <2>1. PICK s \in Shapes : Arrive(s) /\ UNCHANGED <<smcVars, ictVars, kzVars, msbVars, session>>
    BY <1>3 DEF Feed
  <2>2. CandlesOK' /\ bar' = n /\ Same(n)
    BY <1>1, <1>2, <2>1, ArriveGrows
  <2>3. StudiesAt(n)'
    BY <1>1, <2>1, <2>2, StudiesFed
  <2> QED
    BY <2>2, <2>3 DEF ChartInv
<1>4. CASE Study
  <2>1. PICK b : b = n + 1
    OBVIOUS
  <2>2. b = bar + 1 /\ Turn
    BY <1>1, <1>4, <2>1 DEF Study
  <2>3. SmcBar(b) /\ IctBar(b) /\ KzBar(b) /\ MsbBar(b) /\ StatsBar(b)
    BY <1>4, <2>2 DEF Study
  <2>4. CandlesOK' /\ bar' = b /\ b <= Len(candles) /\ Same(b)
    BY <1>1, <1>2, <2>1, <2>2, TurnMoves
  <2>5. StudiesAt(b)'
    BY <1>1, <1>2, <2>1, <2>3, <2>4, StudiesTurned
  <2> QED
    BY <2>1, <2>4, <2>5 DEF ChartInv
<1>5. CASE UNCHANGED vars
  <2>1. candles' = candles /\ bar' = bar /\ UNCHANGED <<smcVars, ictVars, kzVars, msbVars, session>>
    BY <1>5 DEF vars
  <2>2. Same(n) /\ CandlesOK'
    BY <1>2, <2>1 DEF Same, CandlesOK
  <2>3. StudiesAt(n)'
    BY <1>1, <2>1, <2>2, StudiesFed
  <2> QED
    BY <1>1, <2>1, <2>2, <2>3 DEF ChartInv
<1> QED
  BY <1>3, <1>4, <1>5 DEF Next

\* For any candles and settings, however long the list: after n turns of their loops
\* the five studies are what their invariants say of the first n candles.
THEOREM StudiesHold == Spec => []ChartInv
<1>1. Init => ChartInv
  BY StudiesBegin
<1>2. ChartInv /\ [Next]_vars => ChartInv'
  BY StudiesStep
<1> QED
  BY <1>1, <1>2, PTL DEF Spec


\* The gaps listed are those formed and not mitigated by any candle since, in the
\* order they formed, though the loop deletes from the array it walks over
\* (detectFVG, mitigateFVGs and the splices at the end of the loop of calculateSMC).
THEOREM FairValueGapsAreOpen == Spec => []GapsAsDefined
<1>1. ChartInv => GapsAsDefined
  <2> SUFFICES ASSUME ChartInv PROVE GapsAsDefined
    OBVIOUS
  <2>1. PICK n \in Nat : n = bar /\ StudiesAt(n)
    BY DEF ChartInv
  <2> QED
    BY <2>1, GapsSay DEF ChartInv, StudiesAt
<1> QED
  BY <1>1, StudiesHold, PTL

\* The order blocks of each structure are those stored and not mitigated since, newest
\* first (storeOrderBlock, mitigateOrderBlocks and the same splices).
THEOREM OrderBlocksAreOpen == Spec => []BlocksAsDefined
<1>1. ChartInv => BlocksAsDefined
  <2> SUFFICES ASSUME ChartInv PROVE BlocksAsDefined
    OBVIOUS
  <2>1. PICK n \in Nat : n = bar /\ StudiesAt(n)
    BY DEF ChartInv
  <2> QED
    BY <2>1, BlocksSay DEF ChartInv, StudiesAt
<1> QED
  BY <1>1, StudiesHold, PTL

\* A swing pivot is crossed, and its break listed, at the first candle that crosses it,
\* and the trailing extremes are those of the whole list (processLeg
\* and processStructure).
THEOREM StructureIsOfTheList == Spec => []StructureAsDefined
<1>1. ChartInv => StructureAsDefined
  <2> SUFFICES ASSUME ChartInv PROVE StructureAsDefined
    OBVIOUS
  <2>1. PICK n \in Nat : n = bar /\ StudiesAt(n)
    BY DEF ChartInv
  <2> QED
    BY <2>1, CrossingsSay, ExtremesSay DEF ChartInv, StudiesAt, StructureAsDefined
<1> QED
  BY <1>1, StudiesHold, PTL

\* An order block turns breaker at the first body past it, a gap is filled at the first
\* candle through it and a pool is taken once a close is beyond its margin, whatever
\* came after (the mitigation loops of calculateLuxIctConcepts).
THEOREM ZonesEndOnce == Spec => []ZonesAsDefined
<1>1. ChartInv => ZonesAsDefined
  <2> SUFFICES ASSUME ChartInv PROVE ZonesAsDefined
    OBVIOUS
  <2>1. PICK n \in Nat : n = bar /\ StudiesAt(n)
    BY DEF ChartInv
  <2> QED
    BY <2>1, ZonesSay DEF ChartInv, StudiesAt
<1> QED
  BY <1>1, StudiesHold, PTL

\* The structure lines are those of the candles that were first to close past a level on
\* its side, each a break where the passage before it was of its side and a shift
\* elsewhere, though the loop knows only its newest swing, the side of the last passage
\* and the lines it has (mssDir, zz and the filter of msLines).
THEOREM LinesAreFirstPassages == Spec => []LinesAsDefined
<1>1. ChartInv => LinesAsDefined
  <2> SUFFICES ASSUME ChartInv PROVE LinesAsDefined
    OBVIOUS
  <2>1. PICK n \in Nat : n = bar /\ StudiesAt(n)
    BY DEF ChartInv
  <2> QED
    BY <2>1, ZonesSay DEF ChartInv, StudiesAt
<1> QED
  BY <1>1, StudiesHold, PTL

\* The sessions listed are the longest runs of candles inside their windows, with the
\* range of exactly those candles and their two levels mitigated at the first candle
\* beyond (calculateICTSuite).
THEOREM SessionsAreRuns == Spec => []SessionsAsDefined
<1>1. ChartInv => SessionsAsDefined
  <2> SUFFICES ASSUME ChartInv PROVE SessionsAsDefined
    OBVIOUS
  <2>1. PICK n \in Nat : n = bar /\ StudiesAt(n)
    BY DEF ChartInv
  <2> QED
    BY <2>1, KzSays DEF ChartInv, StudiesAt
<1> QED
  BY <1>1, StudiesHold, PTL

\* The zones kept are those ever made that no candle has closed through, in the order
\* they were made (calculateMsbOb).
THEOREM MsbZonesAreUnbroken == Spec => []MsbZonesAsDefined
<1>1. ChartInv => MsbZonesAsDefined
  <2> SUFFICES ASSUME ChartInv PROVE MsbZonesAsDefined
    OBVIOUS
  <2>1. PICK n \in Nat : n = bar /\ StudiesAt(n)
    BY DEF ChartInv
  <2> QED
    BY <2>1, MsbZonesSay DEF ChartInv, StudiesAt
<1> QED
  BY <1>1, StudiesHold, PTL

\* The line drawn for a session from its running sums is the least squares line of the
\* closes since its first candle, for sessions of any length (calculateSessions).
THEOREM SessionLineIsLeastSquares == Spec => []SessionLineFits
<1>1. ChartInv => SessionLineFits
  <2> SUFFICES ASSUME ChartInv PROVE SessionLineFits
    OBVIOUS
  <2>1. PICK n \in Nat : n = bar /\ StudiesAt(n)
    BY DEF ChartInv
  <2> QED
    BY <2>1, StatsSay DEF ChartInv, StudiesAt
<1> QED
  BY <1>1, StudiesHold, PTL

=============================================================================
