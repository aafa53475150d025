-------------------------- MODULE ScullStoresProofs --------------------------
(***************************************************************************)
(* Proofs about the storage of the five drivers of ScullStores, for every  *)
(* geometry (StoresAssumption), every size of a write and any number of    *)
(* users.  The list of quantum sets is a value, so the lemmas about the    *)
(* operators of ScullStorage are the larger part: what following the list, *)
(* preparing an item and copying into a quantum do to the list's shape.    *)
(***************************************************************************)
EXTENDS ScullStores, TLAPS, SequenceTheorems

(* Division with rest.                                                     *)
LEMMA DivMod ==
  ASSUME NEW a \in Nat, NEW b \in Nat \ {0}
  PROVE  /\ a \div b \in Nat /\ a % b \in 0 .. b - 1
         /\ a = b * (a \div b) + (a % b)
OBVIOUS

(* ... and its uniqueness.                                                 *)
LEMMA DivModUnique ==
  ASSUME NEW a \in Nat, NEW b \in Nat \ {0}, NEW x \in Nat, NEW r \in 0 .. b - 1, a = b * x + r
  PROVE  a \div b = x /\ a % b = r
<1>1. /\ a \div b \in Nat /\ a % b \in 0 .. b - 1
      /\ a = b * (a \div b) + (a % b)
  BY DivMod
<1> DEFINE y == a \div b
           t == a % b
<1> HIDE DEF y, t
<1>2. y \in Nat /\ t \in 0 .. b - 1 /\ b * x + r = b * y + t
  BY <1>1 DEF y, t
<1>3. b * (x - y) = t - r
  BY <1>2
<1>4. x = y
  <2>1. CASE x > y
    <3>1. b * (x - y) >= b
      BY <1>2, <2>1
    <3> QED BY <1>2, <1>3, <3>1
  <2>2. CASE x < y
    <3>1. b * (y - x) >= b
      BY <1>2, <2>2
    <3>2. b * (y - x) = r - t
      BY <1>2
    <3> QED BY <1>2, <3>2, <3>1
  <2> QED BY <1>2, <2>1, <2>2
<1> QED BY <1>2, <1>4 DEF y, t

(* A product that is not zero.                                             *)
LEMMA ProductPositive ==
  ASSUME NEW a \in Nat \ {0}, NEW b \in Nat \ {0}
  PROVE  a * b \in Nat \ {0}
OBVIOUS

(* An index below a * b lies in one of b blocks of a.                      *)
LEMMA BlockBound ==
  ASSUME NEW a \in Nat \ {0}, NEW b \in Nat \ {0}, NEW x \in Nat, x < a * b
  PROVE  x \div a \in 0 .. b - 1
<1>1. /\ x \div a \in Nat /\ x % a \in 0 .. a - 1
      /\ x = a * (x \div a) + (x % a)
  BY DivMod
<1> DEFINE y == x \div a
           t == x % a
<1> HIDE DEF y, t
<1>2. y \in Nat /\ t \in 0 .. a - 1 /\ x = a * y + t
  BY <1>1 DEF y, t
<1>3. ~(y >= b)
  <2> SUFFICES ASSUME y >= b PROVE FALSE
    OBVIOUS
  <2>1. a * (y - b) >= 0
    BY <1>2
  <2>2. a * y >= a * b
    BY <1>2, <2>1
  <2> QED BY <1>2, <2>2
<1> QED BY <1>2, <1>3 DEF y
-----------------------------------------------------------------------------
(* The arrays of s pointers to quanta, and the lists of them.              *)
Arrays(s, Quantum) == [0 .. s - 1 -> Quantum \cup {NULL}]
Lists(s, Quantum)  == Seq(Arrays(s, Quantum) \cup {NULL})

(* The quanta of q bytes of B.                                             *)
QuantaOf(q, B) == [0 .. q - 1 -> B]

(* Where a position lives: inside an array, inside a quantum.              *)
LEMMA Coordinates ==
  ASSUME NEW q \in Nat \ {0}, NEW s \in Nat \ {0}, NEW pos \in Nat
  PROVE  /\ item(<<q, s>>, pos) \in Nat
         /\ s_pos(<<q, s>>, pos) \in 0 .. s - 1
         /\ q_pos(<<q, s>>, pos) \in 0 .. q - 1
<1> DEFINE b == q * s
           r == pos % b
<1>1. b \in Nat \ {0}
  BY ProductPositive
<1>2. pos \div b \in Nat /\ r \in 0 .. b - 1
  BY <1>1, DivMod
<1>3. r \in Nat /\ r < q * s
  BY <1>1, <1>2
<1> HIDE DEF r
<1>4. r \div q \in 0 .. s - 1 /\ r % q \in 0 .. q - 1
  BY <1>3, BlockBound, DivMod
<1> QED BY <1>2, <1>4 DEF item, s_pos, q_pos, itemsize, r

(* The bytes of a quantum have neighbouring positions.                     *)
LEMMA SameQuantum ==
  ASSUME NEW q \in Nat \ {0}, NEW s \in Nat \ {0}, NEW pos \in Nat, NEW i \in Nat,
         q_pos(<<q, s>>, pos) + i < q
  PROVE  /\ item(<<q, s>>, pos + i) = item(<<q, s>>, pos)
         /\ s_pos(<<q, s>>, pos + i) = s_pos(<<q, s>>, pos)
         /\ q_pos(<<q, s>>, pos + i) = q_pos(<<q, s>>, pos) + i
<1> DEFINE b == q * s
           r == pos % b
           n == pos \div b
           t == r \div q
           u == r % q
<1>1. b \in Nat \ {0}
  BY ProductPositive
<1>2. n \in Nat /\ r \in 0 .. b - 1 /\ pos = b * n + r
  BY <1>1, DivMod
<1>3. r \in Nat /\ r < q * s
  BY <1>1, <1>2
<1>4. item(<<q, s>>, pos) = n /\ s_pos(<<q, s>>, pos) = t /\ q_pos(<<q, s>>, pos) = u
  BY DEF item, s_pos, q_pos, itemsize
<1>5. /\ item(<<q, s>>, pos + i) = (pos + i) \div b
      /\ s_pos(<<q, s>>, pos + i) = ((pos + i) % b) \div q
      /\ q_pos(<<q, s>>, pos + i) = ((pos + i) % b) % q
  BY DEF item, s_pos, q_pos, itemsize
<1> HIDE DEF r, n
<1>6. t \in 0 .. s - 1 /\ u \in 0 .. q - 1 /\ r = q * t + u
  BY <1>3, BlockBound, DivMod
<1>7. u + i < q
  BY <1>4
<1> HIDE DEF t, u
<1>8. r + i = q * t + (u + i) /\ r + i \in Nat /\ u + i \in 0 .. q - 1
  <2>1. q * t \in Nat
    BY <1>6
  <2> QED BY <1>3, <1>6, <1>7, <2>1
<1>9. (r + i) \div q = t /\ (r + i) % q = u + i
  <2> DEFINE a == r + i
             v == u + i
  <2>1. a \in Nat /\ v \in 0 .. q - 1 /\ a = q * t + v /\ t \in Nat
    BY <1>6, <1>8
  <2> HIDE DEF a, v
  <2>2. a \div q = t /\ a % q = v
    BY <2>1, DivModUnique, Zenon
  <2> QED BY <2>2 DEF a, v
<1>10. r + i < b
  <2>1. q * t + q <= q * s
    <3>1. q * (s - 1 - t) >= 0
      BY <1>6
    <3> QED BY <1>6, <3>1
  <2>2. q * t \in Nat /\ q * s \in Nat
    BY <1>6
  <2>3. r + i < q * t + q
    BY <1>6, <1>7, <2>2
  <2> QED BY <1>3, <2>1, <2>2, <2>3
<1> HIDE DEF b
<1>11. (pos + i) \div b = n /\ (pos + i) % b = r + i
  <2>1. pos + i = b * n + (r + i) /\ r + i \in 0 .. b - 1
    BY <1>1, <1>2, <1>8, <1>10
  <2> DEFINE a == pos + i
             v == r + i
  <2>2. a \in Nat /\ v \in 0 .. b - 1 /\ a = b * n + v /\ n \in Nat
    BY <1>2, <2>1
  <2> HIDE DEF a, v
  <2>3. a \div b = n /\ a % b = v
    BY <1>1, <2>2, DivModUnique, Zenon
  <2> QED BY <2>3 DEF a, v
<1> QED BY <1>4, <1>5, <1>9, <1>11

(* A position before another is in the same item or in one before it.      *)
LEMMA ItemMonotonic ==
  ASSUME NEW q \in Nat \ {0}, NEW s \in Nat \ {0}, NEW m \in Nat, NEW n \in Nat, m <= n
  PROVE  item(<<q, s>>, m) <= item(<<q, s>>, n)
<1> DEFINE b == q * s
           x == m \div b
           y == n \div b
<1>1. b \in Nat \ {0}
  BY ProductPositive
<1> HIDE DEF b
<1>2. /\ x \in Nat /\ m % b \in 0 .. b - 1 /\ m = b * x + (m % b)
      /\ y \in Nat /\ n % b \in 0 .. b - 1 /\ n = b * y + (n % b)
  BY <1>1, DivMod
<1>3. item(<<q, s>>, m) = x /\ item(<<q, s>>, n) = y
  BY DEF item, itemsize, b
<1> HIDE DEF x, y
<1>4. ~(x > y)
  <2> SUFFICES ASSUME x > y PROVE FALSE
    OBVIOUS
  <2>1. b * (x - y - 1) >= 0
    BY <1>1, <1>2
  <2>2. b * x >= b * y + b
    BY <1>1, <1>2, <2>1
  <2> QED BY <1>1, <1>2, <2>2
<1> QED BY <1>2, <1>3, <1>4
-----------------------------------------------------------------------------
(* A longer list: the items it had, then empty ones.                       *)
LEMMA LongerShape ==
  ASSUME NEW S, NULL \in S, NEW d \in Seq(S), NEW k \in Nat
  PROVE  /\ Longer(d, k) \in Seq(S) /\ Len(Longer(d, k)) = Len(d) + k
         /\ \A i \in 1 .. Len(d) : Longer(d, k)[i] = d[i]
         /\ \A i \in Len(d) + 1 .. Len(d) + k : Longer(d, k)[i] = NULL
<1> DEFINE e == [i \in 1 .. k |-> NULL]
<1>1. e \in [1 .. k -> S] /\ \A i \in 1 .. k : e[i] = NULL
  OBVIOUS
<1> HIDE DEF e
<1>2. e \in Seq(S) /\ Len(e) = k
  BY <1>1
<1>3. /\ d \o e \in Seq(S) /\ Len(d \o e) = Len(d) + k
      /\ \A i \in 1 .. Len(d) + k : (d \o e)[i] = IF i <= Len(d) THEN d[i] ELSE e[i - Len(d)]
  BY <1>2, ConcatProperties
<1>4. Longer(d, k) = d \o e
  BY DEF Longer, e
<1>5. Len(d) \in Nat
  OBVIOUS
<1>6. ASSUME NEW i \in Len(d) + 1 .. Len(d) + k PROVE (d \o e)[i] = NULL
  <2>1. i \in 1 .. Len(d) + k /\ ~(i <= Len(d)) /\ i - Len(d) \in 1 .. k
    BY <1>5
  <2> QED BY <1>1, <1>3, <2>1
<1> QED BY <1>3, <1>4, <1>5, <1>6

(* The list when item n has been found or made.                            *)
LEMMA FollowShape ==
  ASSUME NEW S, NULL \in S, NEW d \in Seq(S), NEW n \in Nat
  PROVE  /\ scull_follow(d, n) \in Seq(S)
         /\ Len(scull_follow(d, n)) >= Len(d) /\ n < Len(scull_follow(d, n))
         /\ \A i \in 1 .. Len(d) : scull_follow(d, n)[i] = d[i]
         /\ \A i \in Len(d) + 1 .. Len(scull_follow(d, n)) : scull_follow(d, n)[i] = NULL
<1> DEFINE k == IF n < Len(d) THEN 0 ELSE n + 1 - Len(d)
<1>1. Len(d) \in Nat /\ k \in Nat /\ n < Len(d) + k
  OBVIOUS
<1>2. scull_follow(d, n) = Longer(d, k)
  BY DEF scull_follow
<1> HIDE DEF k
<1>3. /\ Longer(d, k) \in Seq(S) /\ Len(Longer(d, k)) = Len(d) + k
      /\ \A i \in 1 .. Len(d) : Longer(d, k)[i] = d[i]
      /\ \A i \in Len(d) + 1 .. Len(d) + k : Longer(d, k)[i] = NULL
  BY <1>1, LongerShape
<1> QED BY <1>1, <1>2, <1>3

(* ... and when an allocation failed on the way.                           *)
LEMMA FollowFailsShape ==
  ASSUME NEW S, NULL \in S, NEW d \in Seq(S), NEW n \in Nat, NEW x \in scull_follow_fails(d, n)
  PROVE  /\ x \in Seq(S) /\ Len(x) >= Len(d)
         /\ \A i \in 1 .. Len(d) : x[i] = d[i]
         /\ \A i \in Len(d) + 1 .. Len(x) : x[i] = NULL
<1>1. PICK k \in 0 .. n - Len(d) : x = Longer(d, k)
  BY DEF scull_follow_fails
<1>2. Len(d) \in Nat /\ k \in Nat
  OBVIOUS
<1>3. /\ Longer(d, k) \in Seq(S) /\ Len(Longer(d, k)) = Len(d) + k
      /\ \A i \in 1 .. Len(d) : Longer(d, k)[i] = d[i]
      /\ \A i \in Len(d) + 1 .. Len(d) + k : Longer(d, k)[i] = NULL
  BY <1>2, LongerShape
<1> QED BY <1>1, <1>2, <1>3

(* One item of a list replaced.                                            *)
LEMMA ItemReplaced ==
  ASSUME NEW S, NEW d \in Seq(S), NEW n \in 1 .. Len(d), NEW e \in S
  PROVE  /\ [d EXCEPT ![n] = e] \in Seq(S) /\ Len([d EXCEPT ![n] = e]) = Len(d)
         /\ [d EXCEPT ![n] = e][n] = e
         /\ \A i \in 1 .. Len(d) : i # n => [d EXCEPT ![n] = e][i] = d[i]
OBVIOUS

(* The array of a position allocated.                                      *)
LEMMA ArrayShape ==
  ASSUME NEW s \in Nat, NEW Q, NEW q, NEW pos, NEW d \in Lists(s, Q),
         item(<<q, s>>, pos) \in Nat, item(<<q, s>>, pos) < Len(d)
  PROVE  LET g == <<q, s>>
             x == WithArray(d, g, pos)
             n == item(g, pos) + 1
         IN  /\ x \in Lists(s, Q) /\ Len(x) = Len(d)
             /\ x[n] \in Arrays(s, Q)
             /\ d[n] # NULL => x[n] = d[n]
             /\ d[n] = NULL => \A j \in 0 .. s - 1 : x[n][j] = NULL
             /\ \A i \in 1 .. Len(d) : i # n => x[i] = d[i]
<1> DEFINE g == <<q, s>>
           n == item(g, pos) + 1
           e == [i \in 0 .. s - 1 |-> NULL]
           S == Arrays(s, Q) \cup {NULL}
<1>1. n \in 1 .. Len(d)
  OBVIOUS
<1>2. d \in Seq(S) /\ d[n] \in S
  BY <1>1, ElementOfSeq DEF Lists
<1>3. e \in Arrays(s, Q) /\ \A j \in 0 .. s - 1 : e[j] = NULL
  BY DEF Arrays
<1>4. WithArray(d, g, pos) = IF d[n] # NULL THEN d ELSE [d EXCEPT ![n] = e]
  BY DEF WithArray
<1> HIDE DEF g, n, e
<1>5. CASE d[n] # NULL
  BY <1>1, <1>2, <1>4, <1>5 DEF Lists, g, n
<1>6. CASE d[n] = NULL
  <2>1. /\ [d EXCEPT ![n] = e] \in Seq(S) /\ Len([d EXCEPT ![n] = e]) = Len(d)
        /\ [d EXCEPT ![n] = e][n] = e
        /\ \A i \in 1 .. Len(d) : i # n => [d EXCEPT ![n] = e][i] = d[i]
    <3> HIDE DEF S
    <3>1. e \in S
      BY <1>3 DEF S
    <3> QED BY <1>1, <1>2, <3>1, ItemReplaced
  <2> QED BY <1>3, <1>4, <1>6, <2>1 DEF Lists, g, n
<1> QED BY <1>5, <1>6

(* One quantum of an array replaced.                                       *)
LEMMA QuantumReplaced ==
  ASSUME NEW s \in Nat, NEW Q, NEW d \in Lists(s, Q), NEW n \in 1 .. Len(d), d[n] \in Arrays(s, Q),
         NEW j \in 0 .. s - 1, NEW e \in Q
  PROVE  LET x == [d EXCEPT ![n][j] = e]
         IN  /\ x \in Lists(s, Q) /\ Len(x) = Len(d)
             /\ x[n] \in Arrays(s, Q) /\ x[n][j] = e
             /\ \A k \in 0 .. s - 1 : k # j => x[n][k] = d[n][k]
             /\ \A i \in 1 .. Len(d) : i # n => x[i] = d[i]
<1> DEFINE a == [d[n] EXCEPT ![j] = e]
           S == Arrays(s, Q) \cup {NULL}
<1>1. /\ a \in Arrays(s, Q) /\ a[j] = e
      /\ \A k \in 0 .. s - 1 : k # j => a[k] = d[n][k]
  BY DEF Arrays
<1>2. d \in Seq(S)
  BY DEF Lists
<1>3. [d EXCEPT ![n][j] = e] = [d EXCEPT ![n] = a]
  OBVIOUS
<1> HIDE DEF a
<1>4. /\ [d EXCEPT ![n] = a] \in Seq(S) /\ Len([d EXCEPT ![n] = a]) = Len(d)
      /\ [d EXCEPT ![n] = a][n] = a
      /\ \A i \in 1 .. Len(d) : i # n => [d EXCEPT ![n] = a][i] = d[i]
  <2> HIDE DEF S
  <2>1. a \in S
    BY <1>1 DEF S
  <2> QED BY <1>2, <2>1, ItemReplaced
<1> QED BY <1>1, <1>3, <1>4 DEF Lists

(* The quantum of a position allocated.                                    *)
LEMMA QuantumShape ==
  ASSUME NEW s \in Nat, NEW Q, NEW q, NEW pos, NEW d \in Lists(s, Q), NEW fresh \in Q,
         item(<<q, s>>, pos) \in Nat, item(<<q, s>>, pos) < Len(d),
         d[item(<<q, s>>, pos) + 1] \in Arrays(s, Q), s_pos(<<q, s>>, pos) \in 0 .. s - 1
  PROVE  LET g == <<q, s>>
             x == WithQuantum(d, g, pos, fresh)
             n == item(g, pos) + 1
             j == s_pos(g, pos)
         IN  /\ x \in Lists(s, Q) /\ Len(x) = Len(d)
             /\ x[n] \in Arrays(s, Q) /\ x[n][j] \in Q
             /\ QuantumAt(d, g, pos) # NULL => x = d
             /\ QuantumAt(d, g, pos) = NULL => x[n][j] = fresh
             /\ \A k \in 0 .. s - 1 : k # j => x[n][k] = d[n][k]
             /\ \A i \in 1 .. Len(d) : i # n => x[i] = d[i]
<1> DEFINE g == <<q, s>>
           n == item(g, pos) + 1
           j == s_pos(g, pos)
<1>1. n \in 1 .. Len(d) /\ j \in 0 .. s - 1 /\ d[n] \in Arrays(s, Q)
  OBVIOUS
<1>2. WithQuantum(d, g, pos, fresh) = IF QuantumAt(d, g, pos) # NULL THEN d ELSE [d EXCEPT ![n][j] = fresh]
  BY DEF WithQuantum
<1>3. QuantumAt(d, g, pos) # NULL => d[n][j] \in Q
  <2>1. QuantumAt(d, g, pos) # NULL => d[n][j] # NULL
    BY DEF QuantumAt
  <2> QED BY <1>1, <2>1 DEF Arrays
<1> HIDE DEF g, n, j
<1>4. CASE QuantumAt(d, g, pos) # NULL
  BY <1>1, <1>2, <1>3, <1>4 DEF g, n, j
<1>5. CASE QuantumAt(d, g, pos) = NULL
  <2> DEFINE x == [d EXCEPT ![n][j] = fresh]
  <2>1. /\ x \in Lists(s, Q) /\ Len(x) = Len(d)
        /\ x[n] \in Arrays(s, Q) /\ x[n][j] = fresh
        /\ \A k \in 0 .. s - 1 : k # j => x[n][k] = d[n][k]
        /\ \A i \in 1 .. Len(d) : i # n => x[i] = d[i]
    BY <1>1, QuantumReplaced
  <2> HIDE DEF x
  <2>2. WithQuantum(d, g, pos, fresh) = x
    BY <1>2, <1>5 DEF x
  <2> QED BY <1>5, <2>1, <2>2 DEF g, n, j
<1> QED BY <1>4, <1>5

(* Everything down to the quantum is there.                                *)
LEMMA PreparedShape ==
  ASSUME NEW q \in Nat \ {0}, NEW s \in Nat \ {0}, NEW Q, NEW pos \in Nat,
         NEW d \in Lists(s, Q), NEW fresh \in Q
  PROVE  LET g == <<q, s>>
             x == Prepared(d, g, pos, fresh)
             n == item(g, pos) + 1
             j == s_pos(g, pos)
         IN  /\ x \in Lists(s, Q) /\ Len(x) >= Len(d) /\ n \in 1 .. Len(x)
             /\ x[n] \in Arrays(s, Q) /\ x[n][j] \in Q
<1> DEFINE g == <<q, s>>
           n == item(g, pos) + 1
           j == s_pos(g, pos)
           S == Arrays(s, Q) \cup {NULL}
           f == scull_follow(d, item(g, pos))
           a == WithArray(f, g, pos)
           x == WithQuantum(a, g, pos, fresh)
<1>1. item(g, pos) \in Nat /\ j \in 0 .. s - 1
  BY Coordinates
<1>2. f \in Lists(s, Q) /\ Len(f) >= Len(d) /\ item(g, pos) < Len(f)
  <2>1. NULL \in S /\ d \in Seq(S)
    BY DEF Lists
  <2> HIDE DEF S
  <2>2. f \in Seq(S) /\ Len(f) >= Len(d) /\ item(g, pos) < Len(f)
    BY <1>1, <2>1, FollowShape
  <2> QED BY <2>2 DEF Lists, S
<1> HIDE DEF f
<1>3. a \in Lists(s, Q) /\ Len(a) = Len(f) /\ a[n] \in Arrays(s, Q)
  BY <1>1, <1>2, ArrayShape
<1> HIDE DEF a
<1>4. x \in Lists(s, Q) /\ Len(x) = Len(a) /\ x[n] \in Arrays(s, Q) /\ x[n][j] \in Q
  BY <1>1, <1>2, <1>3, QuantumShape
<1>5. Prepared(d, g, pos, fresh) = x
  BY DEF Prepared, f, a
<1> HIDE DEF x
<1>6. n \in 1 .. Len(x) /\ Len(x) >= Len(d)
  <2>1. Len(d) \in Nat /\ Len(f) \in Nat
    BY <1>2 DEF Lists
  <2> QED BY <1>1, <1>2, <1>3, <1>4, <2>1
<1> QED BY <1>4, <1>5, <1>6

(* What is left when an allocation fails.                                  *)
LEMMA NotPreparedShape ==
  ASSUME NEW q \in Nat \ {0}, NEW s \in Nat \ {0}, NEW Q, NEW pos \in Nat,
         NEW d \in Lists(s, Q), NEW x \in NotPrepared(d, <<q, s>>, pos)
  PROVE  x \in Lists(s, Q) /\ Len(x) >= Len(d)
<1> DEFINE g == <<q, s>>
           S == Arrays(s, Q) \cup {NULL}
           f == scull_follow(d, item(g, pos))
<1>1. item(g, pos) \in Nat
  BY Coordinates
<1>2. NULL \in S /\ d \in Seq(S)
  BY DEF Lists
<1>3. f \in Lists(s, Q) /\ Len(f) >= Len(d) /\ item(g, pos) < Len(f)
  <2> HIDE DEF S
  <2>2. f \in Seq(S) /\ Len(f) >= Len(d) /\ item(g, pos) < Len(f)
    BY <1>1, <1>2, FollowShape
  <2> QED BY <2>2 DEF Lists, S
<1>4. CASE x \in scull_follow_fails(d, item(g, pos))
  <2> HIDE DEF S
  <2>1. x \in Seq(S) /\ Len(x) >= Len(d)
    BY <1>1, <1>2, <1>4, FollowFailsShape
  <2> QED BY <2>1 DEF Lists, S
<1>5. CASE x = f
  BY <1>3, <1>5
<1>6. CASE x = WithArray(f, g, pos)
  <2> HIDE DEF f
  <2>1. x \in Lists(s, Q) /\ Len(x) = Len(f)
    BY <1>1, <1>3, <1>6, ArrayShape
  <2> QED BY <1>3, <2>1
<1>7. \/ x \in scull_follow_fails(d, item(g, pos)) \/ x = f \/ x = WithArray(f, g, pos)
  <2> HIDE DEF f
  <2> QED BY DEF NotPrepared, f
<1> QED BY <1>4, <1>5, <1>6, <1>7

(* What a read may leave when it finds nothing.                            *)
LEMMA HolesShape ==
  ASSUME NEW q \in Nat \ {0}, NEW s \in Nat \ {0}, NEW Q, NEW pos \in Nat,
         NEW d \in Lists(s, Q), NEW x,
         x \in Holes(d, <<q, s>>, pos) \/ x = scull_follow(d, item(<<q, s>>, pos))
  PROVE  x \in Lists(s, Q) /\ Len(x) >= Len(d)
<1> DEFINE g == <<q, s>>
           S == Arrays(s, Q) \cup {NULL}
           f == scull_follow(d, item(g, pos))
<1>1. item(g, pos) \in Nat
  BY Coordinates
<1>2. NULL \in S /\ d \in Seq(S)
  BY DEF Lists
<1> HIDE DEF S
<1>3. CASE x = f
  <2>1. x \in Seq(S) /\ Len(x) >= Len(d)
    BY <1>1, <1>2, <1>3, FollowShape
  <2> QED BY <2>1 DEF Lists, S
<1>4. CASE x \in scull_follow_fails(d, item(g, pos))
  <2>1. x \in Seq(S) /\ Len(x) >= Len(d)
    BY <1>1, <1>2, <1>4, FollowFailsShape
  <2> QED BY <2>1 DEF Lists, S
<1> QED BY <1>3, <1>4 DEF Holes

(* A copy into a quantum that is there.                                    *)
LEMMA CopyInShape ==
  ASSUME NEW q \in Nat \ {0}, NEW s \in Nat \ {0}, NEW B,
         NEW pos \in Nat, NEW d \in Lists(s, QuantaOf(q, B)), item(<<q, s>>, pos) + 1 \in 1 .. Len(d),
         d[item(<<q, s>>, pos) + 1] \in Arrays(s, QuantaOf(q, B)),
         d[item(<<q, s>>, pos) + 1][s_pos(<<q, s>>, pos)] \in QuantaOf(q, B),
         NEW k \in Nat, NEW str, \A i \in 1 .. k : str[i] \in B
  PROVE  LET x == CopyIn(d, <<q, s>>, pos, str, k)
         IN  x \in Lists(s, QuantaOf(q, B)) /\ Len(x) = Len(d)
<1> DEFINE g == <<q, s>>
           n == item(g, pos) + 1
           j == s_pos(g, pos)
           o == q_pos(g, pos)
           e == [i \in DOMAIN d[n][j] |-> IF o <= i /\ i < o + k THEN str[i - o + 1] ELSE d[n][j][i]]
<1>1. j \in 0 .. s - 1 /\ o \in 0 .. q - 1
  BY Coordinates
<1>2. CopyIn(d, g, pos, str, k) = [d EXCEPT ![n][j] = e]
  BY DEF CopyIn
<1> HIDE DEF o
<1>3. \A i \in 0 .. q - 1 : o <= i /\ i < o + k => i - o + 1 \in 1 .. k
  BY <1>1
<1>4. e \in QuantaOf(q, B)
  BY <1>3 DEF QuantaOf
<1>5. n \in 1 .. Len(d) /\ d[n] \in Arrays(s, QuantaOf(q, B)) /\ s \in Nat
  OBVIOUS
<1> HIDE DEF e, j, n
<1>6. [d EXCEPT ![n][j] = e] \in Lists(s, QuantaOf(q, B)) /\ Len([d EXCEPT ![n][j] = e]) = Len(d)
  BY <1>1, <1>4, <1>5, QuantumReplaced, SMTT(30)
<1> QED BY <1>2, <1>6

(* The list and the size after a write of c bytes at pos.                  *)
LEMMA WriteCovers ==
  ASSUME NEW q \in Nat \ {0}, NEW s \in Nat \ {0}, NEW pos \in Nat, NEW c \in Nat,
         c <= q - q_pos(<<q, s>>, pos), NEW size0 \in Nat, NEW m \in Nat, NEW n \in Nat,
         size0 > 0 => item(<<q, s>>, size0 - 1) < m,
         m <= n, item(<<q, s>>, pos) < n
  PROVE  LET new == IF size0 < pos + c THEN pos + c ELSE size0
         IN  new > 0 => item(<<q, s>>, new - 1) < n
<1> DEFINE g == <<q, s>>
<1>0. q_pos(g, pos) \in 0 .. q - 1 /\ item(g, pos) \in Nat
  BY Coordinates
<1>1. CASE size0 < pos + c /\ c = 0
  <2>1. pos > 0 /\ pos - 1 \in Nat /\ pos + c = pos
    BY <1>1
  <2>2. item(g, pos - 1) \in Nat /\ item(g, pos - 1) <= item(g, pos)
    BY <2>1, Coordinates, ItemMonotonic
  <2> QED BY <1>0, <1>1, <2>1, <2>2
<1>2. CASE size0 < pos + c /\ c > 0
  <2> DEFINE e == c - 1
  <2>1. e \in Nat /\ pos + e = (pos + c) - 1 /\ q_pos(g, pos) + e < q
    BY <1>0, <1>2
  <2> HIDE DEF e
  <2>2. item(g, pos + e) = item(g, pos)
    BY <2>1, SameQuantum
  <2> QED BY <1>2, <2>1, <2>2
<1>3. CASE ~(size0 < pos + c)
  <2>1. size0 > 0 => size0 - 1 \in Nat /\ item(g, size0 - 1) \in Nat
    BY Coordinates
  <2> QED BY <1>3, <2>1
<1> QED BY <1>1, <1>2, <1>3
-----------------------------------------------------------------------------

(* The operators of ScullStorage are the same in scull ...                 *)
LEMMA FullStorage ==
  /\ Full!Free = Free /\ Full!Counts = Counts /\ Full!UserData = UserData
  /\ \A a, b : Full!min(a, b) = min(a, b)
  /\ \A n : Full!FreshBytes(n) = FreshBytes(n)
  /\ \A g : Full!itemsize(g) = itemsize(g)
  /\ \A g, pos : /\ Full!item(g, pos) = item(g, pos) /\ Full!s_pos(g, pos) = s_pos(g, pos)
                 /\ Full!q_pos(g, pos) = q_pos(g, pos)
  /\ \A d, n : Full!scull_follow(d, n) = scull_follow(d, n)
  /\ \A d, g, pos : /\ Full!QuantumAt(d, g, pos) = QuantumAt(d, g, pos)
                    /\ Full!Holes(d, g, pos) = Holes(d, g, pos)
                    /\ Full!NotPrepared(d, g, pos) = NotPrepared(d, g, pos)
  /\ \A d, g, pos, fresh : Full!Prepared(d, g, pos, fresh) = Prepared(d, g, pos, fresh)
  /\ \A d, g, pos, s, k : Full!CopyIn(d, g, pos, s, k) = CopyIn(d, g, pos, s, k)
  /\ \A d, g, n : Full!Covers(d, g, n) <=> Covers(d, g, n)
  /\ \A d, g, Q : Full!Shaped(d, g, Q) <=> Shaped(d, g, Q)
<1>1. /\ Full!Free = Free /\ Full!Counts = Counts /\ Full!UserData = UserData
      /\ \A a, b : Full!min(a, b) = min(a, b)
      /\ \A n : Full!FreshBytes(n) = FreshBytes(n)
      /\ \A g : Full!itemsize(g) = itemsize(g)
  BY Zenon DEF Full!Free, Free, Full!Counts, Counts, Full!UserData, UserData, Full!min, min,
     Full!FreshBytes, FreshBytes, Full!itemsize, itemsize
<1>2. \A g, pos : /\ Full!item(g, pos) = item(g, pos) /\ Full!s_pos(g, pos) = s_pos(g, pos)
                  /\ Full!q_pos(g, pos) = q_pos(g, pos)
  BY Zenon DEF Full!item, item, Full!s_pos, s_pos, Full!q_pos, q_pos, Full!itemsize, itemsize
<1>3. \A d, n : Full!scull_follow(d, n) = scull_follow(d, n)
  BY Zenon DEF Full!scull_follow, scull_follow, Full!Longer, Longer
<1>4. \A d, n : Full!scull_follow_fails(d, n) = scull_follow_fails(d, n)
  BY Zenon DEF Full!scull_follow_fails, scull_follow_fails, Full!Longer, Longer
<1>5. \A d, g, pos : Full!QuantumAt(d, g, pos) = QuantumAt(d, g, pos)
  BY Zenon DEF Full!QuantumAt, QuantumAt, Full!item, item, Full!s_pos, s_pos, Full!itemsize, itemsize
<1>6. \A d, g, pos : Full!WithArray(d, g, pos) = WithArray(d, g, pos)
  BY Zenon DEF Full!WithArray, WithArray, Full!item, item, Full!itemsize, itemsize
<1>7. \A d, g, pos, fresh : Full!WithQuantum(d, g, pos, fresh) = WithQuantum(d, g, pos, fresh)
  BY ZenonT(30) DEF Full!WithQuantum, WithQuantum, Full!QuantumAt, QuantumAt, Full!item, item, Full!s_pos, s_pos,
     Full!itemsize, itemsize
<1>8. \A d, g, pos, fresh : Full!Prepared(d, g, pos, fresh) = Prepared(d, g, pos, fresh)
  BY <1>2, <1>3, <1>6, <1>7 DEF Full!Prepared, Prepared
<1>9. \A d, g, pos : Full!Holes(d, g, pos) = Holes(d, g, pos)
  BY <1>2, <1>3, <1>4, <1>5 DEF Full!Holes, Holes
<1>10. \A d, g, pos : Full!NotPrepared(d, g, pos) = NotPrepared(d, g, pos)
  BY <1>2, <1>3, <1>4, <1>5, <1>6 DEF Full!NotPrepared, NotPrepared
<1>11. \A d, g, pos, s, k : Full!CopyIn(d, g, pos, s, k) = CopyIn(d, g, pos, s, k)
  <2> SUFFICES ASSUME NEW d, NEW g, NEW pos, NEW s, NEW k
               PROVE  Full!CopyIn(d, g, pos, s, k) = CopyIn(d, g, pos, s, k)
    OBVIOUS
  <2> DEFINE e(n, j, o) ==
               [d EXCEPT ![n][j] = [i \in DOMAIN d[n][j] |->
                  IF o <= i /\ i < o + k THEN s[i - o + 1] ELSE d[n][j][i]]]
  <2>1. CopyIn(d, g, pos, s, k) = e(item(g, pos) + 1, s_pos(g, pos), q_pos(g, pos))
    BY DEF CopyIn
  <2>2. Full!CopyIn(d, g, pos, s, k) = e(Full!item(g, pos) + 1, Full!s_pos(g, pos), Full!q_pos(g, pos))
    BY DEF Full!CopyIn
  <2> HIDE DEF e
  <2> QED BY <1>2, <2>1, <2>2
<1>12. /\ \A d, g, n : Full!Covers(d, g, n) <=> Covers(d, g, n)
       /\ \A d, g, Q : Full!Shaped(d, g, Q) <=> Shaped(d, g, Q)
  BY Zenon DEF Full!Covers, Covers, Full!Shaped, Shaped, Full!item, item, Full!itemsize, itemsize
<1> QED BY <1>1, <1>2, <1>3, <1>5, <1>8, <1>9, <1>10, <1>11, <1>12

(* ... in scullc, scullp and scullv ...                                    *)
LEMMA MemStorage ==
  /\ Mem!Free = Free /\ Mem!Counts = Counts /\ Mem!UserData = UserData
  /\ \A a, b : Mem!min(a, b) = min(a, b)
  /\ \A n : Mem!FreshBytes(n) = FreshBytes(n)
  /\ \A g : Mem!itemsize(g) = itemsize(g)
  /\ \A g, pos : /\ Mem!item(g, pos) = item(g, pos) /\ Mem!s_pos(g, pos) = s_pos(g, pos)
                 /\ Mem!q_pos(g, pos) = q_pos(g, pos)
  /\ \A d, n : Mem!scull_follow(d, n) = scull_follow(d, n)
  /\ \A d, g, pos : /\ Mem!QuantumAt(d, g, pos) = QuantumAt(d, g, pos)
                    /\ Mem!Holes(d, g, pos) = Holes(d, g, pos)
                    /\ Mem!NotPrepared(d, g, pos) = NotPrepared(d, g, pos)
  /\ \A d, g, pos, fresh : Mem!Prepared(d, g, pos, fresh) = Prepared(d, g, pos, fresh)
  /\ \A d, g, pos, s, k : Mem!CopyIn(d, g, pos, s, k) = CopyIn(d, g, pos, s, k)
  /\ \A d, g, n : Mem!Covers(d, g, n) <=> Covers(d, g, n)
  /\ \A d, g, Q : Mem!Shaped(d, g, Q) <=> Shaped(d, g, Q)
<1>1. /\ Mem!Free = Free /\ Mem!Counts = Counts /\ Mem!UserData = UserData
      /\ \A a, b : Mem!min(a, b) = min(a, b)
      /\ \A n : Mem!FreshBytes(n) = FreshBytes(n)
      /\ \A g : Mem!itemsize(g) = itemsize(g)
  BY Zenon DEF Mem!Free, Free, Mem!Counts, Counts, Mem!UserData, UserData, Mem!min, min,
     Mem!FreshBytes, FreshBytes, Mem!itemsize, itemsize
<1>2. \A g, pos : /\ Mem!item(g, pos) = item(g, pos) /\ Mem!s_pos(g, pos) = s_pos(g, pos)
                  /\ Mem!q_pos(g, pos) = q_pos(g, pos)
  BY Zenon DEF Mem!item, item, Mem!s_pos, s_pos, Mem!q_pos, q_pos, Mem!itemsize, itemsize
<1>3. \A d, n : Mem!scull_follow(d, n) = scull_follow(d, n)
  BY Zenon DEF Mem!scull_follow, scull_follow, Mem!Longer, Longer
<1>4. \A d, n : Mem!scull_follow_fails(d, n) = scull_follow_fails(d, n)
  BY Zenon DEF Mem!scull_follow_fails, scull_follow_fails, Mem!Longer, Longer
<1>5. \A d, g, pos : Mem!QuantumAt(d, g, pos) = QuantumAt(d, g, pos)
  BY Zenon DEF Mem!QuantumAt, QuantumAt, Mem!item, item, Mem!s_pos, s_pos, Mem!itemsize, itemsize
<1>6. \A d, g, pos : Mem!WithArray(d, g, pos) = WithArray(d, g, pos)
  BY Zenon DEF Mem!WithArray, WithArray, Mem!item, item, Mem!itemsize, itemsize
<1>7. \A d, g, pos, fresh : Mem!WithQuantum(d, g, pos, fresh) = WithQuantum(d, g, pos, fresh)
  BY ZenonT(30) DEF Mem!WithQuantum, WithQuantum, Mem!QuantumAt, QuantumAt, Mem!item, item, Mem!s_pos, s_pos,
     Mem!itemsize, itemsize
<1>8. \A d, g, pos, fresh : Mem!Prepared(d, g, pos, fresh) = Prepared(d, g, pos, fresh)
  BY <1>2, <1>3, <1>6, <1>7 DEF Mem!Prepared, Prepared
<1>9. \A d, g, pos : Mem!Holes(d, g, pos) = Holes(d, g, pos)
  BY <1>2, <1>3, <1>4, <1>5 DEF Mem!Holes, Holes
<1>10. \A d, g, pos : Mem!NotPrepared(d, g, pos) = NotPrepared(d, g, pos)
  BY <1>2, <1>3, <1>4, <1>5, <1>6 DEF Mem!NotPrepared, NotPrepared
<1>11. \A d, g, pos, s, k : Mem!CopyIn(d, g, pos, s, k) = CopyIn(d, g, pos, s, k)
  <2> SUFFICES ASSUME NEW d, NEW g, NEW pos, NEW s, NEW k
               PROVE  Mem!CopyIn(d, g, pos, s, k) = CopyIn(d, g, pos, s, k)
    OBVIOUS
  <2> DEFINE e(n, j, o) ==
               [d EXCEPT ![n][j] = [i \in DOMAIN d[n][j] |->
                  IF o <= i /\ i < o + k THEN s[i - o + 1] ELSE d[n][j][i]]]
  <2>1. CopyIn(d, g, pos, s, k) = e(item(g, pos) + 1, s_pos(g, pos), q_pos(g, pos))
    BY DEF CopyIn
  <2>2. Mem!CopyIn(d, g, pos, s, k) = e(Mem!item(g, pos) + 1, Mem!s_pos(g, pos), Mem!q_pos(g, pos))
    BY DEF Mem!CopyIn
  <2> HIDE DEF e
  <2> QED BY <1>2, <2>1, <2>2
<1>12. /\ \A d, g, n : Mem!Covers(d, g, n) <=> Covers(d, g, n)
       /\ \A d, g, Q : Mem!Shaped(d, g, Q) <=> Shaped(d, g, Q)
  BY Zenon DEF Mem!Covers, Covers, Mem!Shaped, Shaped, Mem!item, item, Mem!itemsize, itemsize
<1> QED BY <1>1, <1>2, <1>3, <1>5, <1>8, <1>9, <1>10, <1>11, <1>12

(* ... and in scull_device.                                                *)
LEMMA OldStorage ==
  /\ Old!Free = Free /\ Old!Counts = Counts /\ Old!UserData = UserData
  /\ \A a, b : Old!min(a, b) = min(a, b)
  /\ \A n : Old!FreshBytes(n) = FreshBytes(n)
  /\ \A g : Old!itemsize(g) = itemsize(g)
  /\ \A g, pos : /\ Old!item(g, pos) = item(g, pos) /\ Old!s_pos(g, pos) = s_pos(g, pos)
                 /\ Old!q_pos(g, pos) = q_pos(g, pos)
  /\ \A d, n : Old!scull_follow(d, n) = scull_follow(d, n)
  /\ \A d, g, pos : /\ Old!QuantumAt(d, g, pos) = QuantumAt(d, g, pos)
                    /\ Old!Holes(d, g, pos) = Holes(d, g, pos)
                    /\ Old!NotPrepared(d, g, pos) = NotPrepared(d, g, pos)
  /\ \A d, g, pos, fresh : Old!Prepared(d, g, pos, fresh) = Prepared(d, g, pos, fresh)
  /\ \A d, g, pos, s, k : Old!CopyIn(d, g, pos, s, k) = CopyIn(d, g, pos, s, k)
  /\ \A d, g, n : Old!Covers(d, g, n) <=> Covers(d, g, n)
  /\ \A d, g, Q : Old!Shaped(d, g, Q) <=> Shaped(d, g, Q)
<1>1. /\ Old!Free = Free /\ Old!Counts = Counts /\ Old!UserData = UserData
      /\ \A a, b : Old!min(a, b) = min(a, b)
      /\ \A n : Old!FreshBytes(n) = FreshBytes(n)
      /\ \A g : Old!itemsize(g) = itemsize(g)
  BY Zenon DEF Old!Free, Free, Old!Counts, Counts, Old!UserData, UserData, Old!min, min,
     Old!FreshBytes, FreshBytes, Old!itemsize, itemsize
<1>2. \A g, pos : /\ Old!item(g, pos) = item(g, pos) /\ Old!s_pos(g, pos) = s_pos(g, pos)
                  /\ Old!q_pos(g, pos) = q_pos(g, pos)
  BY Zenon DEF Old!item, item, Old!s_pos, s_pos, Old!q_pos, q_pos, Old!itemsize, itemsize
<1>3. \A d, n : Old!scull_follow(d, n) = scull_follow(d, n)
  BY Zenon DEF Old!scull_follow, scull_follow, Old!Longer, Longer
<1>4. \A d, n : Old!scull_follow_fails(d, n) = scull_follow_fails(d, n)
  BY Zenon DEF Old!scull_follow_fails, scull_follow_fails, Old!Longer, Longer
<1>5. \A d, g, pos : Old!QuantumAt(d, g, pos) = QuantumAt(d, g, pos)
  BY Zenon DEF Old!QuantumAt, QuantumAt, Old!item, item, Old!s_pos, s_pos, Old!itemsize, itemsize
<1>6. \A d, g, pos : Old!WithArray(d, g, pos) = WithArray(d, g, pos)
  BY Zenon DEF Old!WithArray, WithArray, Old!item, item, Old!itemsize, itemsize
<1>7. \A d, g, pos, fresh : Old!WithQuantum(d, g, pos, fresh) = WithQuantum(d, g, pos, fresh)
  BY ZenonT(30) DEF Old!WithQuantum, WithQuantum, Old!QuantumAt, QuantumAt, Old!item, item, Old!s_pos, s_pos,
     Old!itemsize, itemsize
<1>8. \A d, g, pos, fresh : Old!Prepared(d, g, pos, fresh) = Prepared(d, g, pos, fresh)
  BY <1>2, <1>3, <1>6, <1>7 DEF Old!Prepared, Prepared
<1>9. \A d, g, pos : Old!Holes(d, g, pos) = Holes(d, g, pos)
  BY <1>2, <1>3, <1>4, <1>5 DEF Old!Holes, Holes
<1>10. \A d, g, pos : Old!NotPrepared(d, g, pos) = NotPrepared(d, g, pos)
  BY <1>2, <1>3, <1>4, <1>5, <1>6 DEF Old!NotPrepared, NotPrepared
<1>11. \A d, g, pos, s, k : Old!CopyIn(d, g, pos, s, k) = CopyIn(d, g, pos, s, k)
  <2> SUFFICES ASSUME NEW d, NEW g, NEW pos, NEW s, NEW k
               PROVE  Old!CopyIn(d, g, pos, s, k) = CopyIn(d, g, pos, s, k)
    OBVIOUS
  <2> DEFINE e(n, j, o) ==
               [d EXCEPT ![n][j] = [i \in DOMAIN d[n][j] |->
                  IF o <= i /\ i < o + k THEN s[i - o + 1] ELSE d[n][j][i]]]
  <2>1. CopyIn(d, g, pos, s, k) = e(item(g, pos) + 1, s_pos(g, pos), q_pos(g, pos))
    BY DEF CopyIn
  <2>2. Old!CopyIn(d, g, pos, s, k) = e(Old!item(g, pos) + 1, Old!s_pos(g, pos), Old!q_pos(g, pos))
    BY DEF Old!CopyIn
  <2> HIDE DEF e
  <2> QED BY <1>2, <2>1, <2>2
<1>12. /\ \A d, g, n : Old!Covers(d, g, n) <=> Covers(d, g, n)
       /\ \A d, g, Q : Old!Shaped(d, g, Q) <=> Shaped(d, g, Q)
  BY Zenon DEF Old!Covers, Covers, Old!Shaped, Shaped, Old!item, item, Old!itemsize, itemsize
<1> QED BY <1>1, <1>2, <1>3, <1>5, <1>8, <1>9, <1>10, <1>11, <1>12
-----------------------------------------------------------------------------
Bytes == Byte \cup {Unwritten}

(* A geometry that is not empty.                                           *)
LEMMA NotEmpty ==
  ASSUME NEW q \in Nat, NEW s \in Nat, itemsize(<<q, s>>) # 0
  PROVE  q \in Nat \ {0} /\ s \in Nat \ {0}
BY DEF itemsize

(* The other way round.                                                    *)
LEMMA EmptyNot ==
  ASSUME NEW q \in Nat \ {0}, NEW s \in Nat \ {0}
  PROVE  itemsize(<<q, s>>) # 0
BY ProductPositive DEF itemsize

(* A longer list covers what it covered.                                   *)
LEMMA CoversLonger ==
  ASSUME NEW q \in Nat, NEW s \in Nat, NEW n \in Nat, NEW Q, NEW d \in Lists(s, Q), NEW x \in Lists(s, Q),
         Covers(d, <<q, s>>, n), Len(x) >= Len(d)
  PROVE  Covers(x, <<q, s>>, n)
<1> SUFFICES ASSUME n > 0 PROVE itemsize(<<q, s>>) # 0 /\ item(<<q, s>>, n - 1) < Len(x)
  BY DEF Covers
<1>1. itemsize(<<q, s>>) # 0 /\ item(<<q, s>>, n - 1) < Len(d)
  BY DEF Covers
<1>2. q \in Nat \ {0} /\ s \in Nat \ {0} /\ n - 1 \in Nat
  BY <1>1, NotEmpty
<1>3. item(<<q, s>>, n - 1) \in Nat
  BY <1>2, Coordinates
<1>4. Len(x) \in Nat /\ Len(d) \in Nat
  BY DEF Lists
<1> QED BY <1>1, <1>3, <1>4

(* The list after a write of k bytes, or of k bytes before a fault.        *)
LEMMA WriteShape ==
  ASSUME NEW q \in Nat \ {0}, NEW s \in Nat \ {0}, NEW pos \in Nat,
         NEW d \in Lists(s, QuantaOf(q, Bytes)), NEW k \in Nat, NEW str, \A i \in 1 .. k : str[i] \in Bytes
  PROVE  LET x == CopyIn(Prepared(d, <<q, s>>, pos, FreshBytes(q)), <<q, s>>, pos, str, k)
         IN  /\ x \in Lists(s, QuantaOf(q, Bytes)) /\ Len(x) >= Len(d)
             /\ item(<<q, s>>, pos) < Len(x)
<1> DEFINE g == <<q, s>>
           y == Prepared(d, g, pos, FreshBytes(q))
           Q == QuantaOf(q, Bytes)
           x == CopyIn(y, g, pos, str, k)
<1>1. FreshBytes(q) \in Q /\ d \in Lists(s, Q)
  BY DEF FreshBytes, QuantaOf, Bytes
<1>2. /\ y \in Lists(s, Q) /\ Len(y) >= Len(d) /\ item(g, pos) + 1 \in 1 .. Len(y)
      /\ y[item(g, pos) + 1] \in Arrays(s, Q)
      /\ y[item(g, pos) + 1][s_pos(g, pos)] \in Q
  <2> HIDE DEF Q
  <2> QED BY <1>1, PreparedShape
<1> HIDE DEF y
<1>3. x \in Lists(s, Q) /\ Len(x) = Len(y)
  BY <1>2, CopyInShape
<1>4. item(g, pos) \in Nat /\ Len(y) \in Nat
  BY <1>2, Coordinates DEF Lists
<1> QED BY <1>2, <1>3, <1>4 DEF y

(* What the user gives is a sequence of bytes.                             *)
LEMMA UserBytes ==
  ASSUME NEW str \in UserData
  PROVE  Len(str) \in Nat /\ \A i \in 1 .. Len(str) : str[i] \in Bytes
BY StorageAssumption DEF UserData, Counts, Bytes

(* The storage of one driver, made for its geometry and reaching its size. *)
StoreOK(d, q, s, n) ==
  /\ q \in Nat /\ s \in Nat /\ n \in Nat
  /\ d \in Lists(s, QuantaOf(q, Bytes))
  /\ Covers(d, <<q, s>>, n)

(* A new list.                                                             *)
LEMMA StoreFree == ASSUME NEW q \in Nat, NEW s \in Nat PROVE StoreOK(Free, q, s, 0)
<1>1. Free \in Seq(Arrays(s, QuantaOf(q, Bytes)) \cup {NULL})
  BY DEF Free
<1> QED BY <1>1 DEF StoreOK, Covers, Lists

(* A read, also one that has to extend the list.                           *)
LEMMA StoreRead ==
  ASSUME NEW d, NEW q, NEW s, NEW n, StoreOK(d, q, s, n), NEW pos \in Nat, pos < n, NEW x,
         x \in Holes(d, <<q, s>>, pos) \/ x = scull_follow(d, item(<<q, s>>, pos))
  PROVE  StoreOK(x, q, s, n)
<1>1. n > 0 /\ itemsize(<<q, s>>) # 0
  BY DEF StoreOK, Covers
<1>2. q \in Nat \ {0} /\ s \in Nat \ {0}
  BY <1>1, NotEmpty DEF StoreOK
<1>3. x \in Lists(s, QuantaOf(q, Bytes)) /\ Len(x) >= Len(d)
  BY <1>2, HolesShape DEF StoreOK
<1> QED BY <1>3, CoversLonger DEF StoreOK

(* A write that fails for lack of memory.                                  *)
LEMMA StoreNoMem ==
  ASSUME NEW d, NEW q, NEW s, NEW n, StoreOK(d, q, s, n), itemsize(<<q, s>>) # 0,
         NEW pos \in Nat, NEW x \in NotPrepared(d, <<q, s>>, pos)
  PROVE  StoreOK(x, q, s, n)
<1>1. q \in Nat \ {0} /\ s \in Nat \ {0}
  BY NotEmpty DEF StoreOK
<1>2. x \in Lists(s, QuantaOf(q, Bytes)) /\ Len(x) >= Len(d)
  BY <1>1, NotPreparedShape DEF StoreOK
<1> QED BY <1>2, CoversLonger DEF StoreOK

(* A write of k bytes that fails later, and one that succeeds.             *)
LEMMA StoreWrite ==
  ASSUME NEW d, NEW q, NEW s, NEW n, StoreOK(d, q, s, n), itemsize(<<q, s>>) # 0,
         NEW pos \in Nat, NEW str \in UserData, NEW k \in Nat, k <= Len(str)
  PROVE  LET x == CopyIn(Prepared(d, <<q, s>>, pos, FreshBytes(q)), <<q, s>>, pos, str, k)
         IN  /\ StoreOK(x, q, s, n)
             /\ k <= q - q_pos(<<q, s>>, pos)
                  => StoreOK(x, q, s, IF n < pos + k THEN pos + k ELSE n)
<1> DEFINE x == CopyIn(Prepared(d, <<q, s>>, pos, FreshBytes(q)), <<q, s>>, pos, str, k)
<1>1. q \in Nat \ {0} /\ s \in Nat \ {0}
  BY NotEmpty DEF StoreOK
<1>2. \A i \in 1 .. k : str[i] \in Bytes
  BY UserBytes
<1>3. x \in Lists(s, QuantaOf(q, Bytes)) /\ Len(x) >= Len(d) /\ item(<<q, s>>, pos) < Len(x)
  BY <1>1, <1>2, WriteShape DEF StoreOK
<1> HIDE DEF x
<1>4. StoreOK(x, q, s, n)
  BY <1>3, CoversLonger DEF StoreOK
<1>5. ASSUME k <= q - q_pos(<<q, s>>, pos)
      PROVE  StoreOK(x, q, s, IF n < pos + k THEN pos + k ELSE n)
  <2> DEFINE new == IF n < pos + k THEN pos + k ELSE n
  <2>1. n > 0 => item(<<q, s>>, n - 1) < Len(d)
    BY DEF StoreOK, Covers
  <2>2. Len(x) \in Nat /\ Len(d) \in Nat /\ n \in Nat /\ Len(d) <= Len(x)
    BY <1>3 DEF Lists, StoreOK
  <2>3. new > 0 => item(<<q, s>>, new - 1) < Len(x)
    BY <1>1, <1>3, <1>5, <2>1, <2>2, WriteCovers
  <2>4. new \in Nat
    BY <2>2
  <2> HIDE DEF new
  <2>5. StoreOK(x, q, s, new)
    BY <1>1, <1>3, <2>3, <2>4 DEF StoreOK, Covers
  <2> QED BY <2>5 DEF new
<1> QED BY <1>4, <1>5 DEF x
-----------------------------------------------------------------------------
Positions == f_pos \in [Procs -> Nat]

(* What a read takes and a write puts.                                     *)
LEMMA CountIsNat ==
  ASSUME NEW q \in Nat \ {0}, NEW s \in Nat \ {0}, NEW pos \in Nat, NEW m \in Nat
  PROVE  /\ min(m, q - q_pos(<<q, s>>, pos)) \in Nat
         /\ min(m, q - q_pos(<<q, s>>, pos)) <= m
         /\ min(m, q - q_pos(<<q, s>>, pos)) <= q - q_pos(<<q, s>>, pos)
<1>1. q_pos(<<q, s>>, pos) \in 0 .. q - 1
  BY Coordinates
<1> QED BY <1>1 DEF min

(* A position moved by what a read takes.                                  *)
LEMMA PositionMoves ==
  ASSUME Positions, NEW p \in Procs, NEW c \in Nat, f_pos' = [f_pos EXCEPT ![p] = @ + c]
  PROVE  Positions'
BY DEF Positions

(* ... and by llseek.                                                      *)
LEMMA PositionSet ==
  ASSUME Positions, NEW p \in Procs, NEW n \in Nat, f_pos' = [f_pos EXCEPT ![p] = n]
  PROVE  Positions'
BY DEF Positions

(* What a user of scull relies on.                                         *)
FullInv ==
  /\ StoreOK(data, quantum, qset, size)
  /\ new_quantum \in Nat /\ new_qset \in Nat
  /\ Positions

(* Every step of scull keeps it.                                           *)
LEMMA FullStep ==
  ASSUME FullInv, Full!Next
  PROVE  FullInv'
<1> DEFINE g == <<quantum, qset>>
<1> USE FullStorage DEF Full!geometry, Full!future, Full!CanLock
<1>0. quantum \in Nat /\ qset \in Nat /\ size \in Nat
  BY DEF FullInv, StoreOK
<1>1. ASSUME NEW p \in Procs, NEW wronly \in BOOLEAN, Full!scull_dev_open(p, wronly) PROVE FullInv'
  <2>1. f_pos' = [f_pos EXCEPT ![p] = 0] /\ UNCHANGED <<new_quantum, new_qset>>
    BY <1>1 DEF Full!scull_dev_open
  <2>2. Positions'
    BY <2>1, PositionSet DEF FullInv
  <2>3. CASE UNCHANGED <<data, size, quantum, qset>>
    BY <2>1, <2>2, <2>3 DEF FullInv, StoreOK
  <2>4. CASE data' = Free /\ size' = 0 /\ quantum' = new_quantum /\ qset' = new_qset
    <3>1. StoreOK(Free, new_quantum, new_qset, 0)
      BY StoreFree DEF FullInv
    <3> QED BY <2>1, <2>2, <2>4, <3>1 DEF FullInv
  <2> QED BY <1>1, <2>3, <2>4 DEF Full!scull_dev_open, Full!scull_trim
<1>2. ASSUME NEW p \in Procs, Full!scull_dev_release(p) \/ Full!scull_dev_write_oops(p) PROVE FullInv'
  <2>1. /\ f_pos' = [f_pos EXCEPT ![p] = 0]
        /\ UNCHANGED <<data, size, quantum, qset, new_quantum, new_qset>>
    BY <1>2 DEF Full!scull_dev_release, Full!scull_dev_write_oops
  <2>2. Positions'
    BY <2>1, PositionSet DEF FullInv
  <2> QED BY <2>1, <2>2 DEF FullInv
<1>3. ASSUME NEW p \in Procs, Full!scull_dev_read_none(p) PROVE FullInv'
  <2>1. /\ UNCHANGED <<size, quantum, qset, new_quantum, new_qset, f_pos>>
        /\ data' = data \/ (f_pos[p] < size /\ data' \in Holes(data, g, f_pos[p]))
    BY <1>3 DEF Full!scull_dev_read_none
  <2>2. f_pos[p] \in Nat
    BY DEF FullInv, Positions
  <2>3. StoreOK(data', quantum, qset, size)
    BY <2>1, <2>2, StoreRead DEF FullInv
  <2> QED BY <2>1, <2>3 DEF FullInv, Positions
<1>4. ASSUME NEW p \in Procs, NEW n \in Counts, Full!scull_dev_read(p, n) PROVE FullInv'
  <2> DEFINE c == min(min(n, size - f_pos[p]), quantum - q_pos(g, f_pos[p]))
  <2>1. /\ UNCHANGED <<size, quantum, qset, new_quantum, new_qset>>
        /\ f_pos[p] < size /\ data' = scull_follow(data, item(g, f_pos[p]))
        /\ f_pos' = f_pos \/ f_pos' = [f_pos EXCEPT ![p] = @ + c]
    BY <1>4 DEF Full!scull_dev_read
  <2>2. f_pos[p] \in Nat
    BY DEF FullInv, Positions
  <2>3. StoreOK(data', quantum, qset, size)
    BY <2>1, <2>2, StoreRead DEF FullInv
  <2>4. c \in Nat
    <3>1. quantum \in Nat \ {0} /\ qset \in Nat \ {0}
      BY <1>0, <2>1, <2>2, NotEmpty DEF FullInv, StoreOK, Covers
    <3>2. min(n, size - f_pos[p]) \in Nat
      BY <1>0, <2>1, <2>2, StorageAssumption DEF min, Counts
    <3> QED BY <2>2, <3>1, <3>2, CountIsNat
  <2> HIDE DEF c
  <2>5. Positions'
    BY <2>1, <2>4, PositionMoves DEF FullInv, Positions
  <2> QED BY <2>1, <2>3, <2>5 DEF FullInv
<1>5. ASSUME NEW p \in Procs, NEW s \in UserData, Full!scull_dev_write(p, s) PROVE FullInv'
  <2> DEFINE c == min(Len(s), quantum - q_pos(g, f_pos[p]))
             x == CopyIn(Prepared(data, g, f_pos[p], FreshBytes(quantum)), g, f_pos[p], s, c)
  <2>1. /\ UNCHANGED <<quantum, qset, new_quantum, new_qset>> /\ itemsize(g) # 0
        /\ data' = x
        /\ f_pos' = [f_pos EXCEPT ![p] = @ + c]
        /\ size' = IF size < f_pos'[p] THEN f_pos'[p] ELSE size
    BY <1>5 DEF Full!scull_dev_write, Full!WriteCount, Full!Writable
  <2>2. f_pos[p] \in Nat
    BY DEF FullInv, Positions
  <2>3. quantum \in Nat \ {0} /\ qset \in Nat \ {0}
    BY <1>0, <2>1, NotEmpty
  <2>4. Len(s) \in Nat
    BY UserBytes
  <2>5. c \in Nat /\ c <= Len(s) /\ c <= quantum - q_pos(g, f_pos[p])
    BY <2>2, <2>3, <2>4, CountIsNat
  <2> HIDE DEF c
  <2>6. StoreOK(x, quantum, qset, IF size < f_pos[p] + c THEN f_pos[p] + c ELSE size)
    BY <2>1, <2>2, <2>5, StoreWrite DEF FullInv
  <2> HIDE DEF x
  <2>7. f_pos'[p] = f_pos[p] + c
    BY <2>1 DEF FullInv, Positions
  <2>8. Positions'
    BY <2>1, <2>5, PositionMoves DEF FullInv
  <2>9. StoreOK(data', quantum', qset', size')
    BY <2>1, <2>6, <2>7
  <2> QED BY <2>1, <2>8, <2>9 DEF FullInv
<1>6. ASSUME NEW p \in Procs, NEW s \in UserData, Full!scull_dev_write_fault(p, s) PROVE FullInv'
  <2> DEFINE c == min(Len(s), quantum - q_pos(g, f_pos[p]))
  <2>1. PICK k \in 0 .. c - 1 :
          data' = CopyIn(Prepared(data, g, f_pos[p], FreshBytes(quantum)), g, f_pos[p], s, k)
    BY <1>6 DEF Full!scull_dev_write_fault, Full!WriteCount, Full!Writable
  <2>2. UNCHANGED <<size, quantum, qset, new_quantum, new_qset, f_pos>> /\ itemsize(g) # 0
    BY <1>6 DEF Full!scull_dev_write_fault
  <2>3. f_pos[p] \in Nat /\ Len(s) \in Nat
    BY UserBytes DEF FullInv, Positions
  <2>4. quantum \in Nat \ {0} /\ qset \in Nat \ {0}
    BY <1>0, <2>2, NotEmpty
  <2>5. c \in Nat /\ c <= Len(s)
    BY <2>3, <2>4, CountIsNat
  <2> HIDE DEF c
  <2>6. k \in Nat /\ k <= Len(s)
    BY <2>3, <2>5
  <2>7. StoreOK(data', quantum, qset, size)
    BY <2>1, <2>2, <2>3, <2>6, StoreWrite DEF FullInv
  <2> QED BY <2>2, <2>7 DEF FullInv, Positions
<1>7. ASSUME NEW p \in Procs, Full!scull_dev_write_nomem(p) PROVE FullInv'
  <2>1. /\ UNCHANGED <<size, quantum, qset, new_quantum, new_qset, f_pos>> /\ itemsize(g) # 0
        /\ data' \in NotPrepared(data, g, f_pos[p])
    BY <1>7 DEF Full!scull_dev_write_nomem
  <2>2. f_pos[p] \in Nat
    BY DEF FullInv, Positions
  <2>3. StoreOK(data', quantum, qset, size)
    BY <2>1, <2>2, StoreNoMem DEF FullInv
  <2> QED BY <2>1, <2>3 DEF FullInv, Positions
<1>8. ASSUME NEW p \in Procs,
             \/ Full!scull_dev_ioctl_reset(p) \/ Full!scull_dev_ioctl_xload(p)
             \/ \E v \in Full!Stores : Full!scull_dev_ioctl_set(p, v) \/ Full!scull_dev_ioctl_xstore(p, v)
      PROVE  FullInv'
  <2>1. /\ UNCHANGED <<data, size, quantum, qset, f_pos>>
        /\ new_quantum' \in Nat /\ new_qset' \in Nat
    BY <1>8, StorageAssumption DEF FullInv, Full!scull_dev_ioctl_reset, Full!scull_dev_ioctl_xload,
       Full!scull_dev_ioctl_set, Full!scull_dev_ioctl_xstore, Full!Stores
  <2> QED BY <2>1 DEF FullInv, Positions
<1>9. ASSUME NEW p \in Procs, NEW off, NEW whence, Full!scull_dev_llseek(p, off, whence) PROVE FullInv'
  <2>1. /\ UNCHANGED <<data, size, quantum, qset, new_quantum, new_qset>>
        /\ \E n \in 0 .. MaxPos : f_pos' = [f_pos EXCEPT ![p] = n]
    BY <1>9 DEF Full!scull_dev_llseek
  <2>2. Positions'
    <3>1. PICK n \in 0 .. MaxPos : f_pos' = [f_pos EXCEPT ![p] = n]
      BY <2>1
    <3>2. n \in Nat
      BY StorageAssumption
    <3> QED BY <3>1, <3>2, PositionSet DEF FullInv
  <2> QED BY <2>1, <2>2 DEF FullInv
<1> QED BY <1>1, <1>2, <1>3, <1>4, <1>5, <1>6, <1>7, <1>8, <1>9 DEF Full!Next

(* A write that got as far as its quantum.                                 *)
LEMMA StorePrepared ==
  ASSUME NEW d, NEW q, NEW s, NEW n, StoreOK(d, q, s, n), itemsize(<<q, s>>) # 0, NEW pos \in Nat
  PROVE  StoreOK(Prepared(d, <<q, s>>, pos, FreshBytes(q)), q, s, n)
<1> DEFINE Q == QuantaOf(q, Bytes)
           x == Prepared(d, <<q, s>>, pos, FreshBytes(q))
<1>1. q \in Nat \ {0} /\ s \in Nat \ {0}
  BY NotEmpty DEF StoreOK
<1>2. FreshBytes(q) \in Q /\ d \in Lists(s, Q)
  BY DEF FreshBytes, QuantaOf, Bytes, StoreOK
<1>3. x \in Lists(s, Q) /\ Len(x) >= Len(d)
  <2> HIDE DEF Q
  <2> QED BY <1>1, <1>2, PreparedShape
<1> HIDE DEF x
<1>4. StoreOK(x, q, s, n)
  BY <1>3, CoversLonger DEF StoreOK
<1> QED BY <1>4 DEF x

(* What a user of scullc, scullp or scullv relies on.                      *)
MemInv ==
  /\ StoreOK(data, quantum, qset, size)
  /\ quantum = MemQuantum /\ qset = MemQset
  /\ Positions

(* Every step of theirs keeps it.                                          *)
LEMMA MemStep ==
  ASSUME MemInv, Mem!Next
  PROVE  MemInv'
<1> DEFINE g == <<quantum, qset>>
<1> USE MemStorage DEF Mem!geometry
<1>0. /\ quantum \in Nat \ {0} /\ qset \in Nat \ {0} /\ size \in Nat /\ itemsize(g) # 0
  BY StoresAssumption, EmptyNot DEF MemInv, StoreOK
<1>1. ASSUME NEW p \in Procs, NEW wronly \in BOOLEAN, Mem!Open(p, wronly) PROVE MemInv'
  <2>1. f_pos' = [f_pos EXCEPT ![p] = 0] /\ UNCHANGED <<quantum, qset>>
    BY <1>1 DEF Mem!Open
  <2>2. Positions'
    BY <2>1, PositionSet DEF MemInv
  <2>3. CASE UNCHANGED <<data, size>>
    BY <2>1, <2>2, <2>3 DEF MemInv, StoreOK
  <2>4. CASE data' = Free /\ size' = 0
    <3>1. StoreOK(Free, quantum, qset, 0)
      BY <1>0, StoreFree
    <3> QED BY <2>1, <2>2, <2>4, <3>1 DEF MemInv
  <2> QED BY <1>1, <2>3, <2>4 DEF Mem!Open, Mem!trim
<1>2. ASSUME NEW p \in Procs, Mem!scullX_dev_release(p) PROVE MemInv'
  <2>1. f_pos' = [f_pos EXCEPT ![p] = 0] /\ UNCHANGED <<data, size, quantum, qset>>
    BY <1>2 DEF Mem!scullX_dev_release
  <2>2. Positions'
    BY <2>1, PositionSet DEF MemInv
  <2> QED BY <2>1, <2>2 DEF MemInv
<1>3. ASSUME NEW p \in Procs, Mem!ReadNone(p) PROVE MemInv'
  <2>1. /\ UNCHANGED <<size, quantum, qset, f_pos>>
        /\ data' = data \/ (f_pos[p] < size /\ data' \in Holes(data, g, f_pos[p]))
    BY <1>3 DEF Mem!ReadNone
  <2>2. f_pos[p] \in Nat
    BY DEF MemInv, Positions
  <2>3. StoreOK(data', quantum, qset, size)
    BY <2>1, <2>2, StoreRead DEF MemInv
  <2> QED BY <2>1, <2>3 DEF MemInv, Positions
<1>4. ASSUME NEW p \in Procs, NEW n \in Counts, NEW buf, Mem!ReadQuantum(p, n, buf) PROVE MemInv'
  <2> DEFINE c == min(min(n, size - f_pos[p]), quantum - q_pos(g, f_pos[p]))
  <2>1. /\ UNCHANGED <<size, quantum, qset>>
        /\ f_pos[p] < size /\ data' = scull_follow(data, item(g, f_pos[p]))
        /\ f_pos' = f_pos \/ f_pos' = [f_pos EXCEPT ![p] = @ + c]
    BY <1>4 DEF Mem!ReadQuantum
  <2>2. f_pos[p] \in Nat
    BY DEF MemInv, Positions
  <2>3. StoreOK(data', quantum, qset, size)
    BY <2>1, <2>2, StoreRead DEF MemInv
  <2>4. c \in Nat
    <3>1. min(n, size - f_pos[p]) \in Nat
      BY <1>0, <2>1, <2>2, StorageAssumption DEF min, Counts
    <3> QED BY <1>0, <2>2, <3>1, CountIsNat
  <2> HIDE DEF c
  <2>5. Positions'
    BY <2>1, <2>4, PositionMoves DEF MemInv, Positions
  <2> QED BY <2>1, <2>3, <2>5 DEF MemInv
<1>5. ASSUME NEW p \in Procs, NEW s \in UserData, UNCHANGED <<quantum, qset>>, Mem!WriteAll(p, s) PROVE MemInv'
  <2> DEFINE c == min(Len(s), quantum - q_pos(g, f_pos[p]))
             x == CopyIn(Prepared(data, g, f_pos[p], FreshBytes(quantum)), g, f_pos[p], s, c)
  <2>1. /\ data' = x
        /\ f_pos' = [f_pos EXCEPT ![p] = @ + c]
        /\ size' = IF size < f_pos'[p] THEN f_pos'[p] ELSE size
    BY <1>5 DEF Mem!WriteAll, Mem!WriteCount, Mem!Writable
  <2>2. f_pos[p] \in Nat /\ Len(s) \in Nat
    BY UserBytes DEF MemInv, Positions
  <2>3. c \in Nat /\ c <= Len(s) /\ c <= quantum - q_pos(g, f_pos[p])
    BY <1>0, <2>2, CountIsNat
  <2> HIDE DEF c
  <2>4. StoreOK(x, quantum, qset, IF size < f_pos[p] + c THEN f_pos[p] + c ELSE size)
    BY <1>0, <2>2, <2>3, StoreWrite DEF MemInv
  <2> HIDE DEF x
  <2>5. f_pos'[p] = f_pos[p] + c
    BY <2>1 DEF MemInv, Positions
  <2>6. Positions'
    BY <2>1, <2>3, PositionMoves DEF MemInv
  <2>7. StoreOK(data', quantum', qset', size')
    BY <1>5, <2>1, <2>4, <2>5
  <2> QED BY <1>5, <2>6, <2>7 DEF MemInv
<1>6. ASSUME NEW p \in Procs, NEW s \in UserData, NEW k \in 0 .. Len(s), UNCHANGED <<quantum, qset>>,
             Mem!WriteFault(p, s, k)
      PROVE  MemInv'
  <2>1. /\ UNCHANGED <<size, f_pos>>
        /\ data' = CopyIn(Prepared(data, g, f_pos[p], FreshBytes(quantum)), g, f_pos[p], s, k)
    BY <1>6 DEF Mem!WriteFault, Mem!Writable
  <2>2. f_pos[p] \in Nat /\ Len(s) \in Nat
    BY UserBytes DEF MemInv, Positions
  <2>3. k \in Nat /\ k <= Len(s)
    BY <2>2
  <2>4. StoreOK(data', quantum, qset, size)
    BY <1>0, <2>1, <2>2, <2>3, StoreWrite DEF MemInv
  <2> QED BY <1>6, <2>1, <2>4 DEF MemInv, Positions
<1>7. ASSUME NEW p \in Procs, UNCHANGED <<quantum, qset>>, Mem!WriteNoMem(p) \/ Mem!WriteOverrun(p)
      PROVE  MemInv'
  <2>1. /\ UNCHANGED <<size, f_pos>>
        /\ \/ data' \in NotPrepared(data, g, f_pos[p])
           \/ data' = Prepared(data, g, f_pos[p], FreshBytes(quantum))
    BY <1>7 DEF Mem!WriteNoMem, Mem!WriteOverrun, Mem!Writable
  <2>2. f_pos[p] \in Nat
    BY DEF MemInv, Positions
  <2>3. StoreOK(data', quantum, qset, size)
    BY <1>0, <2>1, <2>2, StoreNoMem, StorePrepared DEF MemInv
  <2> QED BY <1>7, <2>1, <2>3 DEF MemInv, Positions
<1>8. ASSUME NEW p \in Procs, NEW off, NEW whence, Mem!Seek(p, off, whence) PROVE MemInv'
  <2>1. /\ UNCHANGED <<data, size, quantum, qset>>
        /\ \E n \in 0 .. MaxPos : f_pos' = [f_pos EXCEPT ![p] = n]
    BY <1>8 DEF Mem!Seek
  <2>2. PICK n \in 0 .. MaxPos : f_pos' = [f_pos EXCEPT ![p] = n]
    BY <2>1
  <2>3. n \in Nat
    BY StorageAssumption
  <2>4. Positions'
    BY <2>2, <2>3, PositionSet DEF MemInv
  <2> QED BY <2>1, <2>4 DEF MemInv
<1>9. CASE Mem!Smashed
  BY <1>9 DEF Mem!Smashed, Mem!vars, MemInv, Positions
<1>10. ASSUME NEW p \in Procs, Mem!scullc(p) PROVE MemInv'
  <2>1. ASSUME NEW s \in UserData, Mem!scullc_dev_write(p, s) PROVE MemInv'
    BY <1>5, <1>6, <1>7, <2>1 DEF Mem!scullc_dev_write, Mem!Write
  <2> QED BY <1>1, <1>3, <1>4, <1>8, <1>10, <2>1 DEF Mem!scullc, Mem!scullc_dev_open, Mem!scullc_dev_read,
           Mem!Read, Mem!scullc_dev_llseek
<1>11. ASSUME NEW p \in Procs, NEW s \in UserData, Mem!Write(p), Mem!WriteAtOnce(p, s) PROVE MemInv'
  <2>1. 0 \in 0 .. Len(s)
    BY UserBytes
  <2> QED BY <1>5, <1>6, <1>7, <1>11, <2>1 DEF Mem!WriteAtOnce, Mem!Write
<1>12. ASSUME NEW p \in Procs, Mem!scullp(p) PROVE MemInv'
  BY <1>1, <1>3, <1>4, <1>8, <1>11, <1>12 DEF Mem!scullp, Mem!scullp_dev_open, Mem!scullp_dev_read,
     Mem!scullp_dev_write, Mem!Read, Mem!scullp_dev_llseek
<1>13. ASSUME NEW p \in Procs, Mem!scullv(p) PROVE MemInv'
  BY <1>1, <1>3, <1>4, <1>8, <1>11, <1>13 DEF Mem!scullv, Mem!scullv_dev_open, Mem!scullv_dev_read,
     Mem!scullv_dev_write, Mem!Read, Mem!scullv_dev_llseek
<1> QED BY <1>2, <1>9, <1>10, <1>12, <1>13 DEF Mem!Next
-----------------------------------------------------------------------------
(* A quantum that is found is one of the list's.                           *)
LEMMA QuantumFound ==
  ASSUME NEW q \in Nat \ {0}, NEW s \in Nat \ {0}, NEW pos \in Nat, NEW Q, NEW d \in Lists(s, Q),
         QuantumAt(d, <<q, s>>, pos) # NULL
  PROVE  QuantumAt(d, <<q, s>>, pos) \in Q
<1> DEFINE n == item(<<q, s>>, pos)
           j == s_pos(<<q, s>>, pos)
<1>1. n \in Nat /\ j \in 0 .. s - 1
  BY Coordinates
<1>2. ~(n >= Len(d)) /\ d[n + 1] # NULL /\ QuantumAt(d, <<q, s>>, pos) = d[n + 1][j]
  BY DEF QuantumAt
<1> HIDE DEF n, j
<1>3. n + 1 \in 1 .. Len(d) /\ d \in Seq(Arrays(s, Q) \cup {NULL})
  BY <1>1, <1>2 DEF Lists
<1>4. d[n + 1] \in Arrays(s, Q)
  BY <1>2, <1>3, ElementOfSeq
<1> QED BY <1>1, <1>2, <1>4 DEF Arrays

(* The quantum that a write of scull_device prepared has the size the      *)
(* write went on with, or the one it was found with.                       *)
LEMMA QuantumPrepared ==
  ASSUME NEW q \in Nat \ {0}, NEW pos \in Nat, NEW d \in Lists(DEFAULT_SCULL_QSET, {q})
  PROVE  QuantumAt(Prepared(d, <<q, DEFAULT_SCULL_QSET>>, pos, q), <<q, DEFAULT_SCULL_QSET>>, pos) = q
<1> DEFINE s == DEFAULT_SCULL_QSET
           g == <<q, s>>
           n == item(g, pos)
           j == s_pos(g, pos)
           x == Prepared(d, g, pos, q)
           Q == {q}
<1>0. s \in Nat \ {0} /\ q \in Q /\ d \in Lists(s, Q)
  BY StorageAssumption
<1>1. n \in Nat /\ j \in 0 .. s - 1
  BY <1>0, Coordinates
<1>2. /\ x \in Lists(s, Q) /\ n + 1 \in 1 .. Len(x)
      /\ x[n + 1] \in Arrays(s, Q) /\ x[n + 1][j] \in Q
  <2> HIDE DEF Q, s
  <2> QED BY <1>0, PreparedShape
<1>3. x[n + 1] # NULL
  <2>1. x[n + 1] \in [0 .. s - 1 -> Nat \cup {NULL}]
    BY <1>2 DEF Arrays
  <2> QED BY <2>1, StoresAssumption
<1>4. Len(x) \in Nat /\ ~(n >= Len(x))
  BY <1>1, <1>2 DEF Lists
<1>5. QuantumAt(x, g, pos) = x[n + 1][j]
  <2> HIDE DEF x
  <2> QED BY <1>3, <1>4 DEF QuantumAt
<1> QED BY <1>2, <1>5

(* The storage of scull_device: arrays of the one size there is, and, as   *)
(* long as nobody went on with an outdated geometry, quanta of the current *)
(* size and a list that reaches the size.                                  *)
OldStore(d, q, n) ==
  /\ d \in Lists(DEFAULT_SCULL_QSET, Nat)
  /\ ~outdated => /\ d \in Lists(DEFAULT_SCULL_QSET, {q})
                  /\ Covers(d, <<q, DEFAULT_SCULL_QSET>>, n)

(* What holds of scull_device.                                             *)
OldInv ==
  /\ quantum \in Nat /\ new_quantum \in Nat /\ size \in Nat
  /\ qset = DEFAULT_SCULL_QSET /\ new_qset = DEFAULT_SCULL_QSET
  /\ Positions
  /\ loaded \in [Procs -> (Nat \X {DEFAULT_SCULL_QSET}) \cup {NULL}]
  /\ OldStore(data, quantum, size)
  /\ outdated \in BOOLEAN /\ overrun \in BOOLEAN /\ (overrun => outdated)

(* A read or write that holds the semaphore: what it went on with.         *)
LEMMA LockedFacts ==
  ASSUME OldInv, NEW p \in Procs, Old!Locked(p)
  PROVE  /\ loaded[p][1] \in Nat /\ loaded[p] = <<loaded[p][1], DEFAULT_SCULL_QSET>>
         /\ loaded' \in [Procs -> (Nat \X {DEFAULT_SCULL_QSET}) \cup {NULL}]
         /\ outdated' \in BOOLEAN /\ (outdated => outdated')
         /\ ~outdated' => ~outdated /\ loaded[p][1] = quantum
         /\ f_pos[p] \in Nat
<1>1. /\ loaded[p] # NULL /\ loaded' = [loaded EXCEPT ![p] = NULL]
      /\ outdated' = (outdated \/ loaded[p] # <<quantum, qset>>)
  BY DEF Old!Locked, Old!geometry
<1>2. loaded[p] \in Nat \X {DEFAULT_SCULL_QSET}
  BY <1>1 DEF OldInv
<1>3. loaded[p][1] \in Nat /\ loaded[p] = <<loaded[p][1], DEFAULT_SCULL_QSET>>
  BY <1>2
<1>4. /\ outdated' \in BOOLEAN /\ (outdated => outdated')
      /\ ~outdated' => ~outdated /\ loaded[p] = <<quantum, qset>>
  BY <1>1, Zenon DEF OldInv
<1> QED BY <1>1, <1>3, <1>4 DEF OldInv, Positions

(* Its list only grows, and stays in shape.                                *)
LEMMA OldGrows ==
  ASSUME OldInv, NEW p \in Procs, Old!Locked(p), itemsize(loaded[p]) # 0, UNCHANGED <<quantum, size>>,
         \/ data' \in Holes(data, loaded[p], f_pos[p])
         \/ data' = scull_follow(data, item(loaded[p], f_pos[p]))
         \/ data' \in NotPrepared(data, loaded[p], f_pos[p])
         \/ data' = Prepared(data, loaded[p], f_pos[p], loaded[p][1])
  PROVE  OldStore(data, quantum, size)'
<1> DEFINE q == loaded[p][1]
           s == DEFAULT_SCULL_QSET
<1>1. /\ q \in Nat /\ loaded[p] = <<q, s>> /\ f_pos[p] \in Nat
      /\ ~outdated' => ~outdated /\ q = quantum
  BY LockedFacts
<1>2. q \in Nat \ {0} /\ s \in Nat \ {0}
  BY <1>1, NotEmpty, StorageAssumption
<1> HIDE DEF q, s
<1>3. ASSUME NEW Q, data \in Lists(s, Q), q \in Q PROVE data' \in Lists(s, Q) /\ Len(data') >= Len(data)
  <2>1. data' = Prepared(data, <<q, s>>, f_pos[p], q) => data' \in Lists(s, Q) /\ Len(data') >= Len(data)
    BY <1>1, <1>2, <1>3, PreparedShape
  <2>2. data' \in NotPrepared(data, <<q, s>>, f_pos[p]) => data' \in Lists(s, Q) /\ Len(data') >= Len(data)
    BY <1>1, <1>2, <1>3, NotPreparedShape
  <2>3. \/ data' \in Holes(data, <<q, s>>, f_pos[p])
        \/ data' = scull_follow(data, item(<<q, s>>, f_pos[p]))
        => data' \in Lists(s, Q) /\ Len(data') >= Len(data)
    BY <1>1, <1>2, <1>3, HolesShape
  <2> QED BY <1>1, <2>1, <2>2, <2>3 DEF q
<1>4. data' \in Lists(s, Nat)
  <2>1. data \in Lists(s, Nat)
    BY DEF OldInv, OldStore, s
  <2> QED BY <1>1, <1>3, <2>1
<1>5. ASSUME ~outdated'
      PROVE  data' \in Lists(s, {quantum}) /\ Covers(data', <<quantum, s>>, size)
  <2>1. data \in Lists(s, {quantum}) /\ Covers(data, <<quantum, s>>, size) /\ q = quantum
    BY <1>1, <1>5 DEF OldInv, OldStore, s
  <2>2. data' \in Lists(s, {quantum}) /\ Len(data') >= Len(data)
    BY <1>3, <2>1
  <2>3. quantum \in Nat /\ s \in Nat /\ size \in Nat
    BY <1>2 DEF OldInv
  <2> QED BY <2>1, <2>2, <2>3, CoversLonger
<1> QED BY <1>4, <1>5 DEF OldStore, s

(* Every step of scull_device keeps its invariant.                         *)
LEMMA OldStep ==
  ASSUME OldInv, Old!Next
  PROVE  OldInv'
<1> DEFINE s == DEFAULT_SCULL_QSET
<1> USE OldStorage DEF Old!geometry, Old!globals, Old!harm
<1>1. ASSUME NEW p \in Procs, NEW wronly \in BOOLEAN, Old!scull_open(p, wronly) PROVE OldInv'
  <2>1. /\ f_pos' = [f_pos EXCEPT ![p] = 0]
        /\ UNCHANGED <<new_quantum, new_qset, loaded, overrun, outdated>>
    BY <1>1 DEF Old!scull_open
  <2>2. Positions'
    BY <2>1, PositionSet DEF OldInv
  <2>3. CASE UNCHANGED <<data, size, quantum, qset>>
    BY <2>1, <2>2, <2>3 DEF OldInv, OldStore
  <2>4. CASE data' = Free /\ size' = 0 /\ quantum' = new_quantum /\ qset' = new_qset
    <3>1. \A Q : Free \in Lists(s, Q)
      BY DEF Free, Lists
    <3>2. Covers(Free, <<new_quantum, s>>, 0)
      BY DEF Covers
    <3>3. OldStore(data, quantum, size)'
      BY <2>4, <3>1, <3>2 DEF OldStore
    <3> QED BY <2>1, <2>2, <2>4, <3>3 DEF OldInv
  <2> QED BY <1>1, <2>3, <2>4 DEF Old!scull_open, Old!scull_trim
<1>2. ASSUME NEW p \in Procs, Old!scull_release(p) PROVE OldInv'
  <2>1. /\ f_pos' = [f_pos EXCEPT ![p] = 0]
        /\ UNCHANGED <<data, size, quantum, qset, new_quantum, new_qset, loaded, overrun, outdated>>
    BY <1>2 DEF Old!scull_release
  <2>2. Positions'
    BY <2>1, PositionSet DEF OldInv
  <2> QED BY <2>1, <2>2 DEF OldInv, OldStore
<1>3. ASSUME NEW p \in Procs, Old!scull_load(p) \/ Old!scull_interrupted(p) PROVE OldInv'
  <2>1. /\ loaded' = [loaded EXCEPT ![p] = <<quantum, qset>>] \/ loaded' = [loaded EXCEPT ![p] = NULL]
        /\ UNCHANGED <<data, size, quantum, qset, new_quantum, new_qset, f_pos, overrun, outdated>>
    BY <1>3 DEF Old!scull_load, Old!scull_interrupted
  <2>2. <<quantum, qset>> \in Nat \X {DEFAULT_SCULL_QSET}
    BY DEF OldInv
  <2>3. loaded' \in [Procs -> (Nat \X {DEFAULT_SCULL_QSET}) \cup {NULL}]
    BY <2>1, <2>2 DEF OldInv
  <2> QED BY <2>1, <2>3 DEF OldInv, OldStore, Positions
<1>4. ASSUME NEW p \in Procs, Old!scull_read_none(p) \/ Old!scull_write_nomem(p) PROVE OldInv'
  <2>1. /\ Old!Locked(p)
        /\ UNCHANGED <<size, quantum, qset, new_quantum, new_qset, f_pos, overrun>>
        /\ \/ data' = data
           \/ /\ itemsize(loaded[p]) # 0
              /\ \/ data' \in Holes(data, loaded[p], f_pos[p])
                 \/ data' \in NotPrepared(data, loaded[p], f_pos[p])
    BY <1>4 DEF Old!scull_read_none, Old!scull_write_nomem
  <2>2. /\ loaded' \in [Procs -> (Nat \X {DEFAULT_SCULL_QSET}) \cup {NULL}]
        /\ outdated' \in BOOLEAN /\ (outdated => outdated')
        /\ ~outdated' => ~outdated
    BY <2>1, LockedFacts
  <2>3. OldStore(data, quantum, size)'
    <3>1. CASE data' = data
      BY <2>1, <2>2, <3>1 DEF OldInv, OldStore
    <3> QED BY <2>1, <3>1, OldGrows
  <2> QED BY <2>1, <2>2, <2>3 DEF OldInv, Positions
<1>5. ASSUME NEW p \in Procs, NEW n \in Counts, Old!scull_read(p, n) PROVE OldInv'
  <2> DEFINE q == loaded[p][1]
             o == q_pos(loaded[p], f_pos[p])
             c == min(min(n, size - f_pos[p]), q - o)
             h == QuantumAt(data', loaded[p], f_pos[p])
  <2>1. /\ Old!Locked(p) /\ f_pos[p] < size /\ itemsize(loaded[p]) # 0
        /\ UNCHANGED <<size, quantum, qset, new_quantum, new_qset>>
        /\ data' = scull_follow(data, item(loaded[p], f_pos[p]))
        /\ h # NULL
        /\ f_pos' = [f_pos EXCEPT ![p] = @ + c] \/ f_pos' = f_pos
        /\ overrun' = ~(o + c <= h)
    BY <1>5 DEF Old!scull_read, Old!Room, Old!Inside
  <2>2. /\ q \in Nat /\ loaded[p] = <<q, s>> /\ f_pos[p] \in Nat
        /\ loaded' \in [Procs -> (Nat \X {DEFAULT_SCULL_QSET}) \cup {NULL}]
        /\ outdated' \in BOOLEAN
        /\ ~outdated' => q = quantum
    BY <2>1, LockedFacts
  <2>3. OldStore(data, quantum, size)'
    BY <2>1, OldGrows
  <2>4. q \in Nat \ {0} /\ s \in Nat \ {0}
    BY <2>1, <2>2, NotEmpty, StorageAssumption
  <2>5. o \in 0 .. q - 1 /\ c \in Nat /\ c <= q - o
    <3>1. min(n, size - f_pos[p]) \in Nat
      BY <2>1, <2>2, StorageAssumption DEF min, Counts, OldInv
    <3> QED BY <2>2, <2>4, <3>1, CountIsNat, Coordinates
  <2>6. ~outdated' => h = q
    <3> SUFFICES ASSUME ~outdated' PROVE h = q
      OBVIOUS
    <3>1. data' \in Lists(s, {q})
      BY <2>1, <2>2, <2>3 DEF OldStore
    <3>2. QuantumAt(data', <<q, s>>, f_pos[p]) \in {q}
      <4> HIDE DEF q, s
      <4>1. QuantumAt(data', <<q, s>>, f_pos[p]) # NULL
        BY <2>1, <2>2
      <4> QED BY <2>2, <2>4, <3>1, <4>1, QuantumFound
    <3> QED BY <2>2, <3>2
  <2> HIDE DEF q, o, c, h
  <2>7. overrun' \in BOOLEAN /\ (overrun' => outdated')
    <3>1. ~outdated' => o + c <= h
      BY <2>4, <2>5, <2>6
    <3> QED BY <2>1, <3>1
  <2>8. Positions'
    BY <2>1, <2>5, PositionMoves DEF OldInv, Positions
  <2> QED BY <2>1, <2>2, <2>3, <2>7, <2>8 DEF OldInv
<1>6. ASSUME NEW p \in Procs, NEW n \in Counts, Old!scull_write(p, n) PROVE OldInv'
  <2> DEFINE q == loaded[p][1]
             o == q_pos(loaded[p], f_pos[p])
             c == min(n, q - o)
             h == QuantumAt(data', loaded[p], f_pos[p])
             new == IF size < f_pos[p] + c THEN f_pos[p] + c ELSE size
  <2>1. /\ Old!Locked(p) /\ itemsize(loaded[p]) # 0
        /\ UNCHANGED <<quantum, qset, new_quantum, new_qset>>
        /\ data' = Prepared(data, loaded[p], f_pos[p], q)
        /\ \/ /\ f_pos' = [f_pos EXCEPT ![p] = @ + c]
              /\ size' = IF size < f_pos'[p] THEN f_pos'[p] ELSE size
           \/ UNCHANGED <<f_pos, size>>
        /\ overrun' = ~(o + c <= h)
    BY <1>6 DEF Old!scull_write, Old!WriteCount, Old!Room, Old!Inside, Old!Writable
  <2>2. /\ q \in Nat /\ loaded[p] = <<q, s>> /\ f_pos[p] \in Nat
        /\ loaded' \in [Procs -> (Nat \X {DEFAULT_SCULL_QSET}) \cup {NULL}]
        /\ outdated' \in BOOLEAN
        /\ ~outdated' => ~outdated /\ q = quantum
    BY <2>1, LockedFacts
  <2>3. q \in Nat \ {0} /\ s \in Nat \ {0} /\ n \in Nat /\ size \in Nat
    <3>1. n \in Nat /\ size \in Nat /\ s \in Nat
      BY StorageAssumption DEF Counts, OldInv
    <3> HIDE DEF q, s
    <3> QED BY <2>1, <2>2, <3>1, NotEmpty
  <2>4. o \in 0 .. q - 1 /\ c \in Nat /\ c <= q - o
    BY <2>2, <2>3, CountIsNat, Coordinates
  <2>5. size' = size \/ size' = new
    BY <2>1, <2>2 DEF OldInv, Positions
  <2>6. data' \in Lists(s, Nat)
    <3>1. data \in Lists(s, Nat)
      BY DEF OldInv, OldStore
    <3> HIDE DEF q, s
    <3> QED BY <2>1, <2>2, <2>3, <3>1, PreparedShape
  <2>7. ASSUME ~outdated'
        PROVE  /\ data' \in Lists(s, {q}) /\ Covers(data', <<q, s>>, size')
               /\ h = q
    <3>1. data \in Lists(s, {q}) /\ Covers(data, <<q, s>>, size) /\ q \in {q}
      BY <2>2, <2>7 DEF OldInv, OldStore
    <3> HIDE DEF q, o, c, new
    <3>2. /\ data' \in Lists(s, {q}) /\ Len(data') >= Len(data)
          /\ item(<<q, s>>, f_pos[p]) + 1 \in 1 .. Len(data')
      <4> HIDE DEF s
      <4> QED BY <2>1, <2>2, <2>3, <3>1, PreparedShape
    <3>3. h = q
      BY <2>1, <2>2, <2>3, <3>1, QuantumPrepared
    <3> HIDE DEF s, h
    <3>4. Len(data') \in Nat /\ Len(data) \in Nat /\ Len(data) <= Len(data')
      BY <3>1, <3>2 DEF Lists
    <3>5. size > 0 => item(<<q, s>>, size - 1) < Len(data)
      BY <3>1 DEF Covers
    <3>6. item(<<q, s>>, f_pos[p]) < Len(data')
      <4>1. item(<<q, s>>, f_pos[p]) \in Nat
        BY <2>2, <2>3, Coordinates
      <4> QED BY <3>2, <3>4, <4>1
    <3>7. c <= q - q_pos(<<q, s>>, f_pos[p])
      BY <2>2, <2>4 DEF o
    <3>8. new > 0 => item(<<q, s>>, new - 1) < Len(data')
      BY <2>2, <2>3, <2>4, <3>4, <3>5, <3>6, <3>7, WriteCovers DEF new
    <3>9. Covers(data', <<q, s>>, new)
      BY <2>1, <2>2, <3>8 DEF Covers
    <3>10. Covers(data', <<q, s>>, size)
      BY <2>3, <3>1, <3>2, CoversLonger
    <3> QED BY <2>5, <3>2, <3>3, <3>9, <3>10
  <2>8. size' \in Nat
    BY <2>2, <2>3, <2>4, <2>5
  <2> HIDE DEF q, o, c, h, new
  <2>9. OldStore(data, quantum, size)'
    BY <2>1, <2>2, <2>6, <2>7 DEF OldStore
  <2>10. overrun' \in BOOLEAN /\ (overrun' => outdated')
    <3>1. ~outdated' => o + c <= h
      BY <2>3, <2>4, <2>7
    <3> QED BY <2>1, <3>1
  <2>11. Positions'
    BY <2>1, <2>4, PositionMoves DEF OldInv, Positions
  <2> QED BY <2>1, <2>2, <2>8, <2>9, <2>10, <2>11 DEF OldInv
<1>7. ASSUME NEW p \in Procs, Old!scull_oops(p) PROVE OldInv'
  <2>1. /\ Old!Locked(p) /\ f_pos' = [f_pos EXCEPT ![p] = 0]
        /\ UNCHANGED <<data, size, quantum, qset, new_quantum, new_qset, overrun>>
    BY <1>7 DEF Old!scull_oops
  <2>2. /\ loaded' \in [Procs -> (Nat \X {DEFAULT_SCULL_QSET}) \cup {NULL}]
        /\ outdated' \in BOOLEAN /\ (outdated => outdated')
        /\ ~outdated' => ~outdated
    BY <2>1, LockedFacts
  <2>3. Positions'
    BY <2>1, PositionSet DEF OldInv
  <2> QED BY <2>1, <2>2, <2>3 DEF OldInv, OldStore
<1>8. ASSUME NEW p \in Procs, Old!scull_ioctl(p) PROVE OldInv'
  <2>1. /\ UNCHANGED <<data, size, quantum, qset, f_pos, loaded, overrun, outdated>>
        /\ new_quantum' \in Nat /\ new_qset' = DEFAULT_SCULL_QSET
    <3>1. UNCHANGED <<data, size, quantum, qset, f_pos, loaded, overrun, outdated>>
      BY <1>8 DEF Old!scull_ioctl
    <3>2. \/ new_quantum' = DEFAULT_SCULL_QUANTUM /\ new_qset' = DEFAULT_SCULL_QSET
          \/ new_quantum' \in Quanta \cup {0} /\ new_qset' = new_qset
      BY <1>8 DEF Old!scull_ioctl
    <3>3. new_qset = DEFAULT_SCULL_QSET
      BY DEF OldInv
    <3>4. DEFAULT_SCULL_QUANTUM \in Nat /\ Quanta \cup {0} \subseteq Nat
      BY StorageAssumption
    <3> QED BY <3>1, <3>2, <3>3, <3>4, Zenon
  <2> QED BY <2>1 DEF OldInv, OldStore, Positions
<1>9. ASSUME NEW p \in Procs, NEW off, NEW whence, Old!scull_llseek(p, off, whence) PROVE OldInv'
  <2>1. /\ UNCHANGED <<data, size, quantum, qset, new_quantum, new_qset, loaded, overrun, outdated>>
        /\ \E n \in 0 .. MaxPos : f_pos' = [f_pos EXCEPT ![p] = n]
    BY <1>9 DEF Old!scull_llseek
  <2>2. PICK n \in 0 .. MaxPos : f_pos' = [f_pos EXCEPT ![p] = n]
    BY <2>1
  <2>3. n \in Nat
    BY StorageAssumption
  <2>4. Positions'
    BY <2>2, <2>3, PositionSet DEF OldInv
  <2> QED BY <2>1, <2>4 DEF OldInv, OldStore
<1>10. CASE Old!Smashed
  BY <1>10 DEF Old!Smashed, Old!vars, OldInv, OldStore, Positions
<1> QED BY <1>1, <1>2, <1>3, <1>4, <1>5, <1>6, <1>7, <1>8, <1>9, <1>10 DEF Old!Next
-----------------------------------------------------------------------------
(* The inductive invariant of the five drivers.                            *)
StoresInv ==
  /\ driver = "scull" => FullInv
  /\ driver \in Mem!Drivers => MemInv
  /\ driver = "scull_device" => OldInv

(* scullc, scullp and scullv are told apart when they are loaded.          *)
LEMMA DriverStays ==
  ASSUME Mem!Next
  PROVE  driver' = driver
<1>1. ASSUME NEW p, NEW wronly, Mem!Open(p, wronly) PROVE driver' = driver
  BY <1>1 DEF Mem!Open
<1>2. ASSUME NEW p, NEW n, NEW buf, Mem!Read(p, n, buf) PROVE driver' = driver
  BY <1>2 DEF Mem!Read, Mem!ReadNone, Mem!ReadQuantum
<1>3. ASSUME NEW p, Mem!Write(p) PROVE driver' = driver
  BY <1>3 DEF Mem!Write
<1>4. ASSUME NEW p, NEW off, NEW whence, Mem!Seek(p, off, whence) PROVE driver' = driver
  BY <1>4 DEF Mem!Seek
<1>5. ASSUME NEW p, Mem!scullc(p) PROVE driver' = driver
  BY <1>1, <1>2, <1>3, <1>4, <1>5 DEF Mem!scullc, Mem!scullc_dev_open, Mem!scullc_dev_read,
     Mem!scullc_dev_write, Mem!scullc_dev_llseek
<1>6. ASSUME NEW p, Mem!scullp(p) PROVE driver' = driver
  BY <1>1, <1>2, <1>3, <1>4, <1>6 DEF Mem!scullp, Mem!scullp_dev_open, Mem!scullp_dev_read,
     Mem!scullp_dev_write, Mem!scullp_dev_llseek
<1>7. ASSUME NEW p, Mem!scullv(p) PROVE driver' = driver
  BY <1>1, <1>2, <1>3, <1>4, <1>7 DEF Mem!scullv, Mem!scullv_dev_open, Mem!scullv_dev_read,
     Mem!scullv_dev_write, Mem!scullv_dev_llseek
<1>8. ASSUME NEW p, Mem!scullX_dev_release(p) PROVE driver' = driver
  BY <1>8 DEF Mem!scullX_dev_release
<1>9. CASE Mem!Smashed
  BY <1>9 DEF Mem!Smashed, Mem!vars
<1> QED BY <1>5, <1>6, <1>7, <1>8, <1>9 DEF Mem!Next

(* A driver is loaded with an empty list.                                  *)
LEMMA StoresInit == Init => StoresInv
<1> SUFFICES ASSUME Init PROVE StoresInv
  OBVIOUS
<1>0. "scull" \notin Mem!Drivers /\ "scull_device" \notin Mem!Drivers
  BY DEF Mem!Drivers
<1>1. CASE driver = "scull" /\ Full!Init
  <2>1. /\ data = Free /\ size = 0 /\ quantum \in Nat /\ qset \in Nat
        /\ new_quantum = quantum /\ new_qset = qset /\ f_pos = [p \in Procs |-> 0]
    BY <1>1, StorageAssumption, FullStorage DEF Full!Init
  <2>2. StoreOK(Free, quantum, qset, 0) /\ Positions
    BY <2>1, StoreFree DEF Positions
  <2> QED BY <1>0, <1>1, <2>1, <2>2 DEF StoresInv, FullInv
<1>2. CASE Mem!Init
  <2>1. /\ data = Free /\ size = 0 /\ quantum = MemQuantum /\ qset = MemQset /\ driver \in Mem!Drivers
        /\ f_pos = [p \in Procs |-> 0]
    BY <1>2, MemStorage DEF Mem!Init
  <2>2. quantum \in Nat /\ qset \in Nat
    BY <2>1, StoresAssumption
  <2>3. StoreOK(Free, quantum, qset, 0) /\ Positions
    BY <2>1, <2>2, StoreFree DEF Positions
  <2> QED BY <1>0, <2>1, <2>3 DEF StoresInv, MemInv
<1>3. CASE driver = "scull_device" /\ Old!Init
  <2>1. /\ data = Free /\ size = 0
        /\ quantum = DEFAULT_SCULL_QUANTUM /\ qset = DEFAULT_SCULL_QSET
        /\ new_quantum = quantum /\ new_qset = qset
        /\ f_pos = [p \in Procs |-> 0] /\ loaded = [p \in Procs |-> NULL]
        /\ overrun = FALSE /\ outdated = FALSE
    BY <1>3, OldStorage DEF Old!Init
  <2>2. \A Q : Free \in Lists(DEFAULT_SCULL_QSET, Q)
    BY DEF Free, Lists
  <2>3. OldStore(data, quantum, size)
    BY <2>1, <2>2 DEF OldStore, Covers
  <2>4. /\ Positions /\ quantum \in Nat
        /\ loaded \in [Procs -> (Nat \X {DEFAULT_SCULL_QSET}) \cup {NULL}]
    BY <2>1, StorageAssumption DEF Positions
  <2>5. OldInv
    BY <2>1, <2>3, <2>4 DEF OldInv
  <2> QED BY <1>0, <1>3, <2>5 DEF StoresInv
<1> QED BY <1>1, <1>2, <1>3 DEF Init

(* A step is a step of the driver that is loaded.                          *)
LEMMA StoresStep == StoresInv /\ [Next]_vars => StoresInv'
<1> SUFFICES ASSUME StoresInv, [Next]_vars PROVE StoresInv'
  OBVIOUS
<1>0. "scull" \notin Mem!Drivers /\ "scull_device" \notin Mem!Drivers /\ Mem!Drivers' = Mem!Drivers
  BY DEF Mem!Drivers
<1>1. CASE driver = "scull" /\ Full!Next /\ driver' = driver
  <2>1. FullInv'
    BY <1>1, FullStep DEF StoresInv
  <2> QED BY <1>0, <1>1, <2>1 DEF StoresInv
<1>2. CASE driver \in Mem!Drivers /\ Mem!Next
  <2>1. MemInv' /\ driver' = driver
    BY <1>2, MemStep, DriverStays DEF StoresInv
  <2> QED BY <1>0, <1>2, <2>1 DEF StoresInv
<1>3. CASE driver = "scull_device" /\ Old!Next /\ driver' = driver
  <2>1. OldInv'
    BY <1>3, OldStep DEF StoresInv
  <2> QED BY <1>0, <1>3, <2>1 DEF StoresInv
<1>4. CASE UNCHANGED vars
  <2>1. /\ UNCHANGED <<driver, data, size, quantum, qset, f_pos, overrun>>
        /\ UNCHANGED <<new_quantum, new_qset, loaded, outdated>>
    BY <1>4 DEF vars, both, old
  <2>2. /\ FullInv' <=> FullInv
        /\ MemInv' <=> MemInv
        /\ OldInv' <=> OldInv
    BY <2>1 DEF FullInv, MemInv, OldInv, OldStore, Positions
  <2> QED BY <1>0, <2>1, <2>2 DEF StoresInv
<1> QED BY <1>1, <1>2, <1>3, <1>4 DEF Next

(* The storage of every driver has the shape its geometry says.            *)
THEOREM StoresCorrect == Spec => []StoresInv
BY StoresInit, StoresStep, PTL DEF Spec

(* A list of arrays of s pointers is shaped as trim expects.               *)
LEMMA ListsShaped ==
  ASSUME NEW q, NEW s, NEW Q, NEW d \in Lists(s, Q)
  PROVE  Shaped(d, <<q, s>>, Q)
<1>1. ASSUME NEW i \in 1 .. Len(d), d[i] # NULL
      PROVE  DOMAIN d[i] = 0 .. s - 1 /\ \A j \in 0 .. s - 1 : d[i][j] # NULL => d[i][j] \in Q
  <2>1. d \in Seq(Arrays(s, Q) \cup {NULL})
    BY DEF Lists
  <2>2. d[i] \in Arrays(s, Q)
    BY <1>1, <2>1, ElementOfSeq
  <2> QED BY <2>2 DEF Arrays
<1> QED BY <1>1 DEF Shaped

(* trim frees each pointer that was allocated and no other, and no copy    *)
(* leaves a quantum, whatever ioctl does to the future geometry; in        *)
(* scull_device the quanta may differ once a call went on with an outdated *)
(* geometry, the arrays never.                                             *)
THEOREM StorageKeepsShape == Spec => []GeometryMatchesData
<1>1. StoresInv => GeometryMatchesData
  <2> SUFFICES ASSUME StoresInv PROVE GeometryMatchesData
    OBVIOUS
  <2>1. ASSUME StoreOK(data, quantum, qset, size)
        PROVE  Shaped(data, <<quantum, qset>>, [0 .. quantum - 1 -> Byte \cup {Unwritten}])
    <3>1. Shaped(data, <<quantum, qset>>, QuantaOf(quantum, Bytes))
      BY <2>1, ListsShaped DEF StoreOK
    <3> QED BY <3>1 DEF QuantaOf, Bytes
  <2>2. driver = "scull" => Full!GeometryMatchesData
    BY <2>1, FullStorage DEF StoresInv, FullInv, Full!GeometryMatchesData, Full!geometry
  <2>3. driver \in Mem!Drivers => Mem!GeometryMatchesData
    BY <2>1, MemStorage DEF StoresInv, MemInv, Mem!GeometryMatchesData, Mem!geometry
  <2>4. driver = "scull_device" => Old!GeometryMatchesData
    <3> SUFFICES ASSUME OldInv
                 PROVE  /\ Shaped(data, <<quantum, qset>>, Nat)
                        /\ ~outdated => Shaped(data, <<quantum, qset>>, {quantum})
      BY OldStorage DEF StoresInv, Old!GeometryMatchesData, Old!geometry
    <3> QED BY ListsShaped DEF OldInv, OldStore
  <2> QED BY <2>2, <2>3, <2>4 DEF GeometryMatchesData
<1> QED BY <1>1, StoresCorrect, PTL

(* A read never divides by zero and finds every item below size in the     *)
(* list, also after writes that failed for lack of memory.                 *)
THEOREM ReadsFindTheirItem == Spec => []ListCoversSize
<1>1. StoresInv => ListCoversSize
  <2> SUFFICES ASSUME StoresInv PROVE ListCoversSize
    OBVIOUS
  <2>1. driver = "scull" => Full!ListCoversSize
    BY FullStorage DEF StoresInv, FullInv, StoreOK, Full!ListCoversSize, Full!geometry
  <2>2. driver \in Mem!Drivers => Mem!ListCoversSize
    BY MemStorage DEF StoresInv, MemInv, StoreOK, Mem!ListCoversSize, Mem!geometry
  <2>3. driver = "scull_device" => Old!ListCoversSize
    BY OldStorage DEF StoresInv, OldInv, OldStore, Old!ListCoversSize, Old!geometry
  <2> QED BY <2>1, <2>2, <2>3 DEF ListCoversSize
<1> QED BY <1>1, StoresCorrect, PTL

(* scull_device: the window between the load of the geometry and the       *)
(* semaphore is the only way a copy can leave its quantum, whatever ioctl  *)
(* stores in the globals.                                                  *)
THEOREM OverrunsAreOutdated == Spec => []OverrunsNeedOutdated
<1>1. StoresInv => OverrunsNeedOutdated
  BY DEF StoresInv, OldInv, OverrunsNeedOutdated, Old!OverrunsNeedOutdated
<1> QED BY <1>1, StoresCorrect, PTL
=============================================================================
