--------------------------- MODULE ScullFileProofs ---------------------------
(***************************************************************************)
(* Proof that scull, scullc, scullp and scullv are sparse files: the       *)
(* refinement of SparseFile by ScullStores.                                *)
(***************************************************************************)
EXTENDS ScullStoresProofs

(* The item that holds position pos, or the array that could.              *)
HasArray(d, g, pos) == item(g, pos) < Len(d) /\ d[item(g, pos) + 1] # NULL
Slot(d, g, pos)     == d[item(g, pos) + 1][s_pos(g, pos)]

(* The byte at a position.                                                 *)
LEMMA ByteAtValue ==
  ASSUME NEW q \in Nat \ {0}, NEW s \in Nat \ {0}, NEW pos \in Nat, NEW Q, NEW d \in Lists(s, Q)
  PROVE  /\ HasArray(d, <<q, s>>, pos) => QuantumAt(d, <<q, s>>, pos) = Slot(d, <<q, s>>, pos)
         /\ ~HasArray(d, <<q, s>>, pos) => QuantumAt(d, <<q, s>>, pos) = NULL
         /\ QuantumAt(d, <<q, s>>, pos) = NULL => ByteAt(d, <<q, s>>, pos) = Unwritten
         /\ QuantumAt(d, <<q, s>>, pos) # NULL
              => ByteAt(d, <<q, s>>, pos) = QuantumAt(d, <<q, s>>, pos)[q_pos(<<q, s>>, pos)]
<1> DEFINE g == <<q, s>>
<1>1. item(g, pos) \in Nat /\ itemsize(g) # 0
  BY Coordinates, EmptyNot
<1>2. Len(d) \in Nat
  BY DEF Lists
<1>3. item(g, pos) >= Len(d) <=> ~(item(g, pos) < Len(d))
  BY <1>1, <1>2
<1> HIDE DEF g
<1>4. /\ HasArray(d, g, pos) => QuantumAt(d, g, pos) = Slot(d, g, pos)
      /\ ~HasArray(d, g, pos) => QuantumAt(d, g, pos) = NULL
  BY <1>3, Zenon DEF HasArray, Slot, QuantumAt
<1>5. /\ QuantumAt(d, g, pos) = NULL => ByteAt(d, g, pos) = Unwritten
      /\ QuantumAt(d, g, pos) # NULL => ByteAt(d, g, pos) = QuantumAt(d, g, pos)[q_pos(g, pos)]
  BY <1>1, Zenon DEF ByteAt
<1> QED BY <1>4, <1>5 DEF g

(* A list that only got longer holds the same bytes.                       *)
LEMMA LongerSameBytes ==
  ASSUME NEW q \in Nat \ {0}, NEW s \in Nat \ {0}, NEW Q, NEW d \in Lists(s, Q), NEW x \in Lists(s, Q),
         Len(x) >= Len(d), \A i \in 1 .. Len(d) : x[i] = d[i],
         \A i \in Len(d) + 1 .. Len(x) : x[i] = NULL, NEW pos \in Nat
  PROVE  /\ QuantumAt(x, <<q, s>>, pos) = QuantumAt(d, <<q, s>>, pos)
         /\ ByteAt(x, <<q, s>>, pos) = ByteAt(d, <<q, s>>, pos)
<1> DEFINE g == <<q, s>>
           n == item(g, pos)
<1>0. Len(d) \in Nat /\ Len(x) \in Nat
  BY DEF Lists
<1>1. n \in Nat /\ Len(d) \in Nat /\ Len(x) \in Nat
  BY <1>0, Coordinates
<1>2. QuantumAt(x, g, pos) = QuantumAt(d, g, pos)
  <2>1. CASE n < Len(d)
    <3>1. n + 1 \in 1 .. Len(d) /\ n < Len(x)
      BY <1>1, <2>1
    <3>2. x[n + 1] = d[n + 1]
      BY <3>1
    <3>3. ~(n >= Len(d)) /\ ~(n >= Len(x))
      BY <1>1, <2>1, <3>1
    <3> HIDE DEF g
    <3> QED BY <3>2, <3>3 DEF QuantumAt
  <2>2. CASE n >= Len(d)
    <3>1. n < Len(x) => n + 1 \in Len(d) + 1 .. Len(x)
      BY <1>1, <2>2
    <3>2. n < Len(x) => x[n + 1] = NULL
      BY <3>1
    <3>3. n >= Len(x) \/ n < Len(x)
      BY <1>1
    <3> HIDE DEF g
    <3> QED BY <2>2, <3>2, <3>3 DEF QuantumAt
  <2> QED BY <1>1, <2>1, <2>2
<1> HIDE DEF g
<1> QED BY <1>2 DEF ByteAt, g

(* A list whose item n was given an empty array holds the same bytes.      *)
LEMMA ArraySameBytes ==
  ASSUME NEW q \in Nat \ {0}, NEW s \in Nat \ {0}, NEW Q, NEW d \in Lists(s, Q), NEW at \in Nat,
         item(<<q, s>>, at) < Len(d), NEW pos \in Nat
  PROVE  LET x == WithArray(d, <<q, s>>, at)
         IN  /\ QuantumAt(x, <<q, s>>, pos) = QuantumAt(d, <<q, s>>, pos)
             /\ ByteAt(x, <<q, s>>, pos) = ByteAt(d, <<q, s>>, pos)
<1> DEFINE g == <<q, s>>
           n == item(g, at)
           m == item(g, pos)
           j == s_pos(g, pos)
           x == WithArray(d, g, at)
<1>0. Len(d) \in Nat
  BY DEF Lists
<1>1. n \in Nat /\ m \in Nat /\ j \in 0 .. s - 1 /\ Len(d) \in Nat
  BY <1>0, Coordinates
<1>2. /\ x \in Lists(s, Q) /\ Len(x) = Len(d)
      /\ d[n + 1] # NULL => x[n + 1] = d[n + 1]
      /\ d[n + 1] = NULL => \A k \in 0 .. s - 1 : x[n + 1][k] = NULL
      /\ \A i \in 1 .. Len(d) : i # n + 1 => x[i] = d[i]
  BY <1>1, ArrayShape
<1> HIDE DEF x
<1>3. QuantumAt(x, g, pos) = QuantumAt(d, g, pos)
  <2>0. /\ QuantumAt(x, g, pos) = IF m >= Len(d) \/ x[m + 1] = NULL THEN NULL ELSE x[m + 1][j]
        /\ QuantumAt(d, g, pos) = IF m >= Len(d) \/ d[m + 1] = NULL THEN NULL ELSE d[m + 1][j]
    BY <1>2 DEF QuantumAt
  <2> HIDE DEF m, j, n
  <2>1. CASE m >= Len(d)
    BY <2>0, <2>1
  <2>2. CASE m < Len(d) /\ m # n
    <3>1. m + 1 \in 1 .. Len(d) /\ m + 1 # n + 1
      BY <1>1, <2>2
    <3>2. x[m + 1] = d[m + 1]
      BY <1>2, <3>1
    <3> QED BY <2>0, <3>2
  <2>3. CASE m = n /\ d[n + 1] # NULL
    BY <1>2, <2>0, <2>3
  <2>4. CASE m = n /\ d[n + 1] = NULL
    <3>1. x[n + 1][j] = NULL
      BY <1>1, <1>2, <2>4
    <3> QED BY <2>0, <2>4, <3>1
  <2> QED BY <1>1, <2>1, <2>2, <2>3, <2>4
<1> HIDE DEF g
<1>4. ByteAt(x, g, pos) = ByteAt(d, g, pos)
  BY <1>3 DEF ByteAt
<1> QED BY <1>3, <1>4 DEF x, g

-----------------------------------------------------------------------------
(* The bytes of the file d are those of the file x.                        *)
SameBytes(x, d, q, s) == \A pos \in Nat : ByteAt(x, <<q, s>>, pos) = ByteAt(d, <<q, s>>, pos)

(* Neither a quantum nor an array of them is the null pointer.             *)
Distinct(q, s) == NULL \notin QuantaOf(q, Bytes) /\ NULL \notin Arrays(s, QuantaOf(q, Bytes))

(* Following the list changes no byte, ...                                 *)
LEMMA FollowSameBytes ==
  ASSUME NEW q \in Nat \ {0}, NEW s \in Nat \ {0}, NEW Q, NEW d \in Lists(s, Q), NEW n \in Nat, NEW x,
         x = scull_follow(d, n) \/ x \in scull_follow_fails(d, n)
  PROVE  x \in Lists(s, Q) /\ SameBytes(x, d, q, s)
<1> DEFINE S == Arrays(s, Q) \cup {NULL}
<1>1. NULL \in S /\ d \in Seq(S)
  BY DEF Lists
<1>2. /\ x \in Seq(S) /\ Len(x) >= Len(d)
      /\ \A i \in 1 .. Len(d) : x[i] = d[i]
      /\ \A i \in Len(d) + 1 .. Len(x) : x[i] = NULL
  <2> HIDE DEF S
  <2>1. CASE x = scull_follow(d, n)
    BY <1>1, <2>1, FollowShape
  <2>2. CASE x \in scull_follow_fails(d, n)
    BY <1>1, <2>2, FollowFailsShape
  <2> QED BY <2>1, <2>2
<1>3. x \in Lists(s, Q)
  BY <1>2 DEF Lists
<1>4. \A pos \in Nat : ByteAt(x, <<q, s>>, pos) = ByteAt(d, <<q, s>>, pos)
  BY <1>2, <1>3, LongerSameBytes
<1> QED BY <1>3, <1>4 DEF SameBytes

(* ... nor does a fresh quantum, ...                                       *)
LEMMA QuantumSameBytes ==
  ASSUME NEW q \in Nat \ {0}, NEW s \in Nat \ {0}, Distinct(q, s), NEW d \in Lists(s, QuantaOf(q, Bytes)),
         NEW at \in Nat, item(<<q, s>>, at) < Len(d),
         d[item(<<q, s>>, at) + 1] \in Arrays(s, QuantaOf(q, Bytes))
  PROVE  SameBytes(WithQuantum(d, <<q, s>>, at, FreshBytes(q)), d, q, s)
<1> DEFINE g == <<q, s>>
           Q == QuantaOf(q, Bytes)
           fresh == FreshBytes(q)
           x == WithQuantum(d, g, at, fresh)
           n == item(g, at)
           j == s_pos(g, at)
<1>0. Len(d) \in Nat /\ fresh \in Q /\ \A i \in 0 .. q - 1 : fresh[i] = Unwritten
  BY DEF Lists, FreshBytes, QuantaOf, Bytes
<1>1. n \in Nat /\ j \in 0 .. s - 1
  BY Coordinates
<1> HIDE DEF fresh, Q
<1>2. /\ x \in Lists(s, Q) /\ Len(x) = Len(d)
      /\ x[n + 1] \in Arrays(s, Q)
      /\ QuantumAt(d, g, at) # NULL => x = d
      /\ QuantumAt(d, g, at) = NULL => x[n + 1][j] = fresh
      /\ \A k \in 0 .. s - 1 : k # j => x[n + 1][k] = d[n + 1][k]
      /\ \A i \in 1 .. Len(d) : i # n + 1 => x[i] = d[i]
  <2>1. d \in Lists(s, Q) /\ d[n + 1] \in Arrays(s, Q)
    BY DEF Q
  <2> QED BY <1>0, <1>1, <2>1, QuantumShape
<1>3. x[n + 1] # NULL /\ d[n + 1] # NULL
  BY <1>2 DEF Distinct, Q
<1> SUFFICES ASSUME NEW pos \in Nat
             PROVE  ByteAt(x, g, pos) = ByteAt(d, g, pos)
  BY DEF SameBytes, fresh
<1> DEFINE m == item(g, pos)
           k == s_pos(g, pos)
           o == q_pos(g, pos)
<1>4. m \in Nat /\ k \in 0 .. s - 1 /\ o \in 0 .. q - 1
  BY Coordinates
<1>5. d \in Lists(s, Q)
  BY DEF Q
<1> HIDE DEF x
<1>6. /\ QuantumAt(x, g, pos) = IF m >= Len(d) \/ x[m + 1] = NULL THEN NULL ELSE x[m + 1][k]
      /\ QuantumAt(d, g, pos) = IF m >= Len(d) \/ d[m + 1] = NULL THEN NULL ELSE d[m + 1][k]
      /\ QuantumAt(d, g, at) = IF n >= Len(d) \/ d[n + 1] = NULL THEN NULL ELSE d[n + 1][j]
  BY <1>2 DEF QuantumAt
<1>7. /\ ByteAt(x, g, pos) = IF QuantumAt(x, g, pos) = NULL THEN Unwritten ELSE QuantumAt(x, g, pos)[o]
      /\ ByteAt(d, g, pos) = IF QuantumAt(d, g, pos) = NULL THEN Unwritten ELSE QuantumAt(d, g, pos)[o]
  <2>1. itemsize(g) # 0
    BY EmptyNot
  <2> HIDE DEF g
  <2> QED BY <2>1 DEF ByteAt
<1> HIDE DEF m, k, o, n, j, g
<1>8. CASE m # n
  <2>1. QuantumAt(x, g, pos) = QuantumAt(d, g, pos)
    <3>1. CASE m >= Len(d)
      BY <1>6, <3>1
    <3>2. CASE m < Len(d)
      <4>1. m + 1 \in 1 .. Len(d) /\ m + 1 # n + 1
        BY <1>0, <1>1, <1>4, <1>8, <3>2
      <4>2. x[m + 1] = d[m + 1]
        BY <1>2, <4>1
      <4> QED BY <1>6, <4>2
    <3> QED BY <1>0, <1>4, <3>1, <3>2
  <2> QED BY <1>7, <2>1
<1>9. CASE m = n /\ k # j
  <2>1. x[n + 1][k] = d[n + 1][k]
    BY <1>2, <1>4, <1>9
  <2>2. QuantumAt(x, g, pos) = QuantumAt(d, g, pos)
    BY <1>3, <1>6, <1>9, <2>1
  <2> QED BY <1>7, <2>2
<1>10. CASE m = n /\ k = j /\ QuantumAt(d, g, at) = NULL
  <2>1. QuantumAt(d, g, pos) = NULL
    BY <1>6, <1>10
  <2>2. QuantumAt(x, g, pos) = NULL \/ QuantumAt(x, g, pos) = fresh
    BY <1>2, <1>6, <1>10
  <2> QED BY <1>0, <1>4, <1>7, <2>1, <2>2
<1>11. CASE QuantumAt(d, g, at) # NULL
  BY <1>2, <1>11
<1> QED BY <1>8, <1>9, <1>10, <1>11

(* ... so a write that fails before it copies changes none, and one that   *)
(* goes on finds a quantum.                                                *)
LEMMA PreparedSameBytes ==
  ASSUME NEW q \in Nat \ {0}, NEW s \in Nat \ {0}, Distinct(q, s), NEW d \in Lists(s, QuantaOf(q, Bytes)),
         NEW at \in Nat
  PROVE  SameBytes(Prepared(d, <<q, s>>, at, FreshBytes(q)), d, q, s)
<1> DEFINE g == <<q, s>>
           Q == QuantaOf(q, Bytes)
           n == item(g, at)
           f == scull_follow(d, n)
           a == WithArray(f, g, at)
           x == WithQuantum(a, g, at, FreshBytes(q))
<1>1. n \in Nat
  BY Coordinates
<1> HIDE DEF Q
<1>2. d \in Lists(s, Q)
  BY DEF Q
<1>3. f \in Lists(s, Q) /\ SameBytes(f, d, q, s)
  <2> HIDE DEF n
  <2> QED BY <1>1, <1>2, FollowSameBytes
<1>4. n < Len(f)
  <2> DEFINE S == Arrays(s, Q) \cup {NULL}
  <2>1. NULL \in S /\ d \in Seq(S)
    BY <1>2 DEF Lists
  <2> HIDE DEF S, n
  <2> QED BY <1>1, <2>1, FollowShape
<1> HIDE DEF f
<1>5. a \in Lists(s, Q) /\ Len(a) = Len(f) /\ a[n + 1] \in Arrays(s, Q)
  BY <1>1, <1>3, <1>4, ArrayShape
<1>6. SameBytes(a, f, q, s)
  BY <1>3, <1>4, ArraySameBytes DEF SameBytes
<1> HIDE DEF a
<1>7. SameBytes(x, a, q, s)
  <2>1. n < Len(a)
    BY <1>4, <1>5
  <2> QED BY <1>5, <2>1, QuantumSameBytes DEF Q
<1> HIDE DEF x
<1>8. SameBytes(x, d, q, s)
  BY <1>3, <1>6, <1>7 DEF SameBytes
<1> QED BY <1>8 DEF Prepared, x, a, f

LEMMA NotPreparedSameBytes ==
  ASSUME NEW q \in Nat \ {0}, NEW s \in Nat \ {0}, NEW Q, NEW d \in Lists(s, Q),
         NEW at \in Nat, NEW x \in NotPrepared(d, <<q, s>>, at)
  PROVE  SameBytes(x, d, q, s)
<1> DEFINE g == <<q, s>>
           n == item(g, at)
           f == scull_follow(d, n)
           a == WithArray(f, g, at)
<1>1. n \in Nat
  BY Coordinates
<1>2. x \in scull_follow_fails(d, n) \/ x = f \/ x = a
  BY DEF NotPrepared
<1>3. f \in Lists(s, Q) /\ SameBytes(f, d, q, s)
      /\ (x \in scull_follow_fails(d, n) => SameBytes(x, d, q, s))
  <2> HIDE DEF n
  <2> QED BY <1>1, FollowSameBytes
<1>4. n < Len(f)
  <2> DEFINE S == Arrays(s, Q) \cup {NULL}
  <2>1. NULL \in S /\ d \in Seq(S)
    BY DEF Lists
  <2> HIDE DEF S, n
  <2> QED BY <1>1, <2>1, FollowShape
<1> HIDE DEF f
<1>5. SameBytes(a, f, q, s)
  BY <1>3, <1>4, ArraySameBytes DEF SameBytes
<1> HIDE DEF a
<1> QED BY <1>2, <1>3, <1>5 DEF SameBytes

LEMMA HolesSameBytes ==
  ASSUME NEW q \in Nat \ {0}, NEW s \in Nat \ {0}, NEW Q, NEW d \in Lists(s, Q),
         NEW at \in Nat, NEW x,
         x \in Holes(d, <<q, s>>, at) \/ x = scull_follow(d, item(<<q, s>>, at))
  PROVE  SameBytes(x, d, q, s)
<1> DEFINE n == item(<<q, s>>, at)
<1>1. n \in Nat
  BY Coordinates
<1>2. x \in scull_follow_fails(d, n) \/ x = scull_follow(d, n)
  BY DEF Holes
<1> HIDE DEF n
<1> QED BY <1>1, <1>2, FollowSameBytes

(* A position is where its coordinates say.                                *)
LEMMA PositionSum ==
  ASSUME NEW q \in Nat \ {0}, NEW s \in Nat \ {0}, NEW pos \in Nat
  PROVE  pos = itemsize(<<q, s>>) * item(<<q, s>>, pos) + q * s_pos(<<q, s>>, pos) + q_pos(<<q, s>>, pos)
<1> DEFINE b == q * s
           r == pos % b
<1>1. b \in Nat \ {0}
  BY ProductPositive
<1> HIDE DEF b
<1>2. pos \div b \in Nat /\ r \in 0 .. b - 1 /\ pos = b * (pos \div b) + r
  BY <1>1, DivMod
<1>3. r \in Nat
  BY <1>1, <1>2
<1> HIDE DEF r
<1>4. r \div q \in Nat /\ r % q \in 0 .. q - 1 /\ r = q * (r \div q) + (r % q)
  BY <1>3, DivMod
<1>5. /\ itemsize(<<q, s>>) = b /\ item(<<q, s>>, pos) = pos \div b
      /\ s_pos(<<q, s>>, pos) = r \div q /\ q_pos(<<q, s>>, pos) = r % q
  BY DEF item, s_pos, q_pos, itemsize, r, b
<1> DEFINE u == b * (pos \div b)
           v == q * (r \div q)
<1>6. u \in Nat /\ v \in Nat
  BY <1>1, <1>2, <1>4
<1>7. pos = u + r /\ r = v + (r % q) /\ r % q \in Nat
  BY <1>2, <1>4
<1> HIDE DEF u, v
<1>8. pos = u + v + (r % q)
  BY <1>6, <1>7
<1> QED BY <1>5, <1>8 DEF u, v

(* The list d with e for the quantum j of item n, and what that is.        *)
Replaces(x, d, n, j, e) == x = [d EXCEPT ![n][j] = e]

Replaced(x, d, s, Q, n, j, e) ==
  /\ Len(x) = Len(d) /\ x[n] \in Arrays(s, Q) /\ x[n][j] = e
  /\ \A k \in 0 .. s - 1 : k # j => x[n][k] = d[n][k]
  /\ \A i \in 1 .. Len(d) : i # n => x[i] = d[i]

LEMMA ReplacedQuantum ==
  ASSUME NEW s \in Nat, NEW Q, NEW d \in Lists(s, Q), NEW n \in 1 .. Len(d), d[n] \in Arrays(s, Q),
         NEW j \in 0 .. s - 1, NEW e \in Q, NEW x, Replaces(x, d, n, j, e)
  PROVE  Replaced(x, d, s, Q, n, j, e)
BY QuantumReplaced DEF Replaces, Replaced

(* What a write that copies changes: the positions it says, each to the    *)
(* byte the user gave for it, and no other.                                *)
LEMMA CopyInBytes ==
  ASSUME NEW q \in Nat \ {0}, NEW s \in Nat \ {0}, Distinct(q, s), NEW d \in Lists(s, QuantaOf(q, Bytes)),
         NEW at \in Nat, item(<<q, s>>, at) + 1 \in 1 .. Len(d),
         d[item(<<q, s>>, at) + 1] \in Arrays(s, QuantaOf(q, Bytes)),
         d[item(<<q, s>>, at) + 1][s_pos(<<q, s>>, at)] \in QuantaOf(q, Bytes),
         NEW k \in Nat, k <= q - q_pos(<<q, s>>, at), NEW str, \A i \in 1 .. k : str[i] \in Bytes,
         NEW pos \in Nat
  PROVE  ByteAt(CopyIn(d, <<q, s>>, at, str, k), <<q, s>>, pos)
           = IF at <= pos /\ pos < at + k THEN str[pos - at + 1] ELSE ByteAt(d, <<q, s>>, pos)
<1> DEFINE g == <<q, s>>
           Q == QuantaOf(q, Bytes)
           n == item(g, at)
           j == s_pos(g, at)
           o == q_pos(g, at)
           m == item(g, pos)
           t == s_pos(g, pos)
           u == q_pos(g, pos)
           was == d[n + 1][j]
           now == [i \in DOMAIN was |-> IF o <= i /\ i < o + k THEN str[i - o + 1] ELSE was[i]]
           x == [d EXCEPT ![n + 1][j] = now]
<1>1. /\ n \in Nat /\ j \in 0 .. s - 1 /\ o \in 0 .. q - 1
      /\ m \in Nat /\ t \in 0 .. s - 1 /\ u \in 0 .. q - 1
  BY Coordinates
<1>2. CopyIn(d, g, at, str, k) = x
  BY DEF CopyIn
<1>3. \A i \in 0 .. q - 1 : now[i] = IF o <= i /\ i < o + k THEN str[i - o + 1] ELSE was[i]
  <2>1. DOMAIN was = 0 .. q - 1
    BY DEF QuantaOf
  <2> HIDE DEF was, o
  <2> QED BY <2>1
<1>4. now \in Q
  <2>1. DOMAIN was = 0 .. q - 1 /\ \A i \in 0 .. q - 1 : was[i] \in Bytes
    BY DEF QuantaOf
  <2>2. \A i \in 0 .. q - 1 : o <= i /\ i < o + k => i - o + 1 \in 1 .. k
    <3> HIDE DEF o, was, now
    <3> QED BY <1>1
  <2> HIDE DEF was, o
  <2> QED BY <2>1, <2>2 DEF QuantaOf
<1>5. d \in Lists(s, Q) /\ d[n + 1] \in Arrays(s, Q) /\ was \in Q /\ Len(d) \in Nat
      /\ n + 1 \in 1 .. Len(d)
  BY DEF Lists
<1>6. d[n + 1] # NULL /\ was # NULL /\ now # NULL /\ \A a \in Arrays(s, Q) : a # NULL
  BY <1>4, <1>5 DEF Distinct
<1> HIDE DEF now, Q
<1>7. /\ Len(x) = Len(d) /\ x[n + 1] \in Arrays(s, Q) /\ x[n + 1][j] = now
      /\ \A i \in 0 .. s - 1 : i # j => x[n + 1][i] = d[n + 1][i]
      /\ \A i \in 1 .. Len(d) : i # n + 1 => x[i] = d[i]
  <2> DEFINE a == n + 1
  <2>1. a \in 1 .. Len(d) /\ d[a] \in Arrays(s, Q) /\ s \in Nat /\ d \in Lists(s, Q) /\ j \in 0 .. s - 1
    BY <1>1, <1>5
  <2>2. Replaces(x, d, a, j, now)
    BY DEF Replaces
  <2> HIDE DEF x, j, a, n, was
  <2>3. Replaced(x, d, s, Q, a, j, now)
    BY <1>4, <2>1, <2>2, ReplacedQuantum
  <2> QED BY <2>3 DEF Replaced, a
<1>8. x[n + 1] # NULL
  BY <1>6, <1>7
<1> HIDE DEF x
<1>9. /\ QuantumAt(x, g, pos) = IF m >= Len(d) \/ x[m + 1] = NULL THEN NULL ELSE x[m + 1][t]
      /\ QuantumAt(d, g, pos) = IF m >= Len(d) \/ d[m + 1] = NULL THEN NULL ELSE d[m + 1][t]
  BY <1>7 DEF QuantumAt
<1>10. /\ ByteAt(x, g, pos) = IF QuantumAt(x, g, pos) = NULL THEN Unwritten ELSE QuantumAt(x, g, pos)[u]
       /\ ByteAt(d, g, pos) = IF QuantumAt(d, g, pos) = NULL THEN Unwritten ELSE QuantumAt(d, g, pos)[u]
  <2>1. itemsize(g) # 0
    BY EmptyNot
  <2> HIDE DEF g
  <2> QED BY <2>1 DEF ByteAt
<1>11. m = n /\ t = j => pos - at = u - o
  <2> DEFINE b == itemsize(g) * n + q * j
  <2>1. at = itemsize(g) * n + q * j + o /\ pos = itemsize(g) * m + q * t + u
    BY PositionSum
  <2>2. b \in Nat
    <3>1. itemsize(g) \in Nat
      BY ProductPositive DEF itemsize
    <3>2. n \in Nat /\ j \in Nat /\ q \in Nat
      BY <1>1
    <3> HIDE DEF n, j, g
    <3>3. itemsize(g) * n \in Nat /\ q * j \in Nat
      BY <3>1, <3>2
    <3> QED BY <3>3
  <2>3. m = n /\ t = j => at = b + o /\ pos = b + u
    BY <2>1
  <2> HIDE DEF b, m, n, t, j, o, u
  <2> QED BY <1>1, <2>2, <2>3
<1>12. at <= pos /\ pos < at + k => m = n /\ t = j
  <2> SUFFICES ASSUME at <= pos, pos < at + k PROVE m = n /\ t = j
    OBVIOUS
  <2> DEFINE i == pos - at
  <2>1. i \in Nat /\ o + i < q /\ pos = at + i
    <3> HIDE DEF m, t, u, was, now
    <3> QED BY <1>1
  <2> HIDE DEF i
  <2>2. m = item(g, at + i) /\ t = s_pos(g, at + i)
    BY <2>1
  <2> HIDE DEF m, t
  <2> QED BY <2>1, <2>2, SameQuantum
<1> HIDE DEF m, n, t, j, o, u, was, g
<1>13. CASE m = n /\ t = j
  <2>1. ~(m >= Len(d))
    BY <1>1, <1>5, <1>13
  <2>2. QuantumAt(x, g, pos) = now /\ QuantumAt(d, g, pos) = was
    BY <1>6, <1>7, <1>8, <1>9, <1>13, <2>1 DEF was
  <2>3. ByteAt(x, g, pos) = now[u] /\ ByteAt(d, g, pos) = was[u]
    BY <1>6, <1>10, <2>2
  <2>4. /\ o <= u <=> at <= pos
        /\ u < o + k <=> pos < at + k
        /\ u - o + 1 = pos - at + 1
    BY <1>1, <1>11, <1>13
  <2>5. now[u] = IF o <= u /\ u < o + k THEN str[u - o + 1] ELSE was[u]
    BY <1>1, <1>3
  <2> QED BY <1>2, <2>3, <2>4, <2>5 DEF g
<1>14. CASE ~(m = n /\ t = j)
  <2>1. QuantumAt(x, g, pos) = QuantumAt(d, g, pos)
    <3>1. CASE m = n
      <4>1. x[n + 1][t] = d[n + 1][t]
        BY <1>1, <1>7, <1>14, <3>1
      <4> QED BY <1>6, <1>8, <1>9, <3>1, <4>1
    <3>2. CASE m # n /\ m < Len(d)
      <4>1. m + 1 \in 1 .. Len(d) /\ m + 1 # n + 1
        BY <1>1, <1>5, <3>2
      <4>2. x[m + 1] = d[m + 1]
        BY <1>7, <4>1
      <4> QED BY <1>9, <4>2
    <3>3. CASE m >= Len(d)
      BY <1>9, <3>3
    <3> QED BY <1>1, <1>5, <3>1, <3>2, <3>3
  <2>2. ByteAt(x, g, pos) = ByteAt(d, g, pos)
    BY <1>10, <2>1
  <2> QED BY <1>2, <1>12, <1>14, <2>2 DEF g
<1> QED BY <1>13, <1>14

(* A read returns the bytes of the file.                                   *)
LEMMA CopyOutBytes ==
  ASSUME NEW q \in Nat \ {0}, NEW s \in Nat \ {0}, NEW d, NEW at \in Nat,
         QuantumAt(d, <<q, s>>, at) # NULL, NEW k \in Nat, k <= q - q_pos(<<q, s>>, at), NEW i \in 1 .. k
  PROVE  CopyOut(d, <<q, s>>, at, k)[i] = ByteAt(d, <<q, s>>, at + i - 1)
<1> DEFINE g == <<q, s>>
           h == i - 1
           pos == at + h
<1>1. q_pos(g, at) \in 0 .. q - 1 /\ h \in Nat
  BY Coordinates
<1>2. q_pos(g, at) + h < q
  BY <1>1
<1> HIDE DEF h
<1>3. item(g, pos) = item(g, at) /\ s_pos(g, pos) = s_pos(g, at) /\ q_pos(g, pos) = q_pos(g, at) + h
  BY <1>1, <1>2, SameQuantum
<1>4. itemsize(g) # 0
  BY EmptyNot
<1> HIDE DEF g, pos
<1>5. QuantumAt(d, g, pos) = QuantumAt(d, g, at)
  BY <1>3 DEF QuantumAt
<1>6. ByteAt(d, g, pos) = QuantumAt(d, g, at)[q_pos(g, at) + h]
  BY <1>3, <1>4, <1>5 DEF ByteAt, g
<1>7. CopyOut(d, g, at, k)[i] = QuantumAt(d, g, at)[q_pos(g, at) + i - 1]
  BY DEF CopyOut
<1>8. q_pos(g, at) + i - 1 = q_pos(g, at) + h /\ at + i - 1 = pos
  BY <1>1 DEF h, pos
<1> QED BY <1>6, <1>7, <1>8 DEF g
-----------------------------------------------------------------------------
(* The file of a list.                                                     *)
LEMMA SameContent ==
  ASSUME NEW q, NEW s, NEW d, NEW x, SameBytes(x, d, q, s)
  PROVE  Content(x, <<q, s>>) = Content(d, <<q, s>>)
<1>1. \A i \in 0 .. MaxPos - 1 : ByteAt(x, <<q, s>>, i) = ByteAt(d, <<q, s>>, i)
  BY StorageAssumption DEF SameBytes
<1> QED BY <1>1, Zenon DEF Content

LEMMA EmptyContent ==
  ASSUME NEW q \in Nat, NEW s \in Nat
  PROVE  Content(Free, <<q, s>>) = [i \in 0 .. MaxPos - 1 |-> Unwritten]
<1> DEFINE g == <<q, s>>
<1>1. ASSUME NEW i \in 0 .. MaxPos - 1 PROVE ByteAt(Free, g, i) = Unwritten
  <2>1. CASE itemsize(g) = 0
    BY <2>1 DEF ByteAt
  <2>2. CASE itemsize(g) # 0
    <3>1. q \in Nat \ {0} /\ s \in Nat \ {0} /\ i \in Nat
      BY <2>2, NotEmpty
    <3>2. item(g, i) \in Nat
      BY <3>1, Coordinates
    <3>3. Len(Free) = 0
      BY DEF Free
    <3> HIDE DEF g
    <3>4. item(g, i) >= Len(Free)
      BY <3>2, <3>3
    <3>5. QuantumAt(Free, g, i) = NULL
      BY <3>4, Zenon DEF QuantumAt
    <3> QED BY <3>5, Zenon DEF ByteAt
  <2> QED BY <2>1, <2>2
<1> HIDE DEF g
<1>2. Content(Free, g) = [i \in 0 .. MaxPos - 1 |-> Unwritten]
  BY <1>1, Zenon DEF Content
<1> QED BY <1>2 DEF g

(* The content c with the first k bytes of str stored from at on.          *)
Overlaid(c, at, str, k) ==
  [i \in 0 .. MaxPos - 1 |-> IF at <= i /\ i < at + k THEN str[i - at + 1] ELSE c[i]]

LEMMA WrittenContent ==
  ASSUME NEW d, NEW q, NEW s, NEW n, StoreOK(d, q, s, n), itemsize(<<q, s>>) # 0, Distinct(q, s),
         NEW at \in Nat, NEW str \in UserData, NEW k \in Nat, k <= Len(str), k <= q - q_pos(<<q, s>>, at)
  PROVE  Content(CopyIn(Prepared(d, <<q, s>>, at, FreshBytes(q)), <<q, s>>, at, str, k), <<q, s>>)
           = Overlaid(Content(d, <<q, s>>), at, str, k)
<1> DEFINE g == <<q, s>>
           Q == QuantaOf(q, Bytes)
           y == Prepared(d, g, at, FreshBytes(q))
           x == CopyIn(y, g, at, str, k)
<1>1. q \in Nat \ {0} /\ s \in Nat \ {0} /\ d \in Lists(s, Q)
  BY NotEmpty DEF StoreOK
<1>2. FreshBytes(q) \in Q
  BY DEF FreshBytes, QuantaOf, Bytes
<1>3. /\ y \in Lists(s, Q) /\ item(g, at) + 1 \in 1 .. Len(y)
      /\ y[item(g, at) + 1] \in Arrays(s, Q) /\ y[item(g, at) + 1][s_pos(g, at)] \in Q
  <2> HIDE DEF Q
  <2> QED BY <1>1, <1>2, PreparedShape
<1>4. SameBytes(y, d, q, s)
  BY <1>1, PreparedSameBytes
<1>5. \A i \in 1 .. k : str[i] \in Bytes
  BY UserBytes
<1> HIDE DEF y
<1>6. ASSUME NEW i \in 0 .. MaxPos - 1
      PROVE  ByteAt(x, g, i) = IF at <= i /\ i < at + k THEN str[i - at + 1] ELSE Content(d, g)[i]
  <2>1. i \in Nat
    OBVIOUS
  <2>2. ByteAt(x, g, i) = IF at <= i /\ i < at + k THEN str[i - at + 1] ELSE ByteAt(y, g, i)
    BY <1>1, <1>3, <1>5, <2>1, CopyInBytes, SMTT(30)
  <2>3. ByteAt(y, g, i) = ByteAt(d, g, i)
    BY <1>4, <2>1 DEF SameBytes
  <2>4. Content(d, g)[i] = ByteAt(d, g, i)
    BY DEF Content
  <2> QED BY <2>2, <2>3, <2>4
<1> HIDE DEF x, g
<1>7. Content(x, g) = [i \in 0 .. MaxPos - 1 |-> IF at <= i /\ i < at + k THEN str[i - at + 1]
                                                 ELSE Content(d, g)[i]]
  <2>1. Content(x, g) = [i \in 0 .. MaxPos - 1 |-> ByteAt(x, g, i)]
    BY DEF Content
  <2> QED BY <1>6, <2>1, Zenon
<1> QED BY <1>7 DEF x, y, g, Overlaid

(* Neither following the list nor preparing it changes the file.           *)
LEMMA KeptContent ==
  ASSUME NEW d, NEW q, NEW s, NEW n, StoreOK(d, q, s, n), itemsize(<<q, s>>) # 0, Distinct(q, s),
         NEW at \in Nat, NEW x,
         \/ x \in Holes(d, <<q, s>>, at) \/ x = scull_follow(d, item(<<q, s>>, at))
         \/ x \in NotPrepared(d, <<q, s>>, at) \/ x = Prepared(d, <<q, s>>, at, FreshBytes(q))
  PROVE  Content(x, <<q, s>>) = Content(d, <<q, s>>)
<1>1. q \in Nat \ {0} /\ s \in Nat \ {0} /\ d \in Lists(s, QuantaOf(q, Bytes))
  BY NotEmpty DEF StoreOK
<1>2. SameBytes(x, d, q, s)
  BY <1>1, HolesSameBytes, NotPreparedSameBytes, PreparedSameBytes
<1> QED BY <1>2, SameContent

(* For the geometries there are, what an array and a quantum must differ   *)
(* from differs from them.                                                 *)
LEMMA DistinctGeometry ==
  ASSUME NEW q \in Quanta \cup {DEFAULT_SCULL_QUANTUM, MemQuantum},
         NEW s \in {DEFAULT_SCULL_QSET, MemQset}
  PROVE  Distinct(q, s)
BY StoresAssumption, Zenon DEF Distinct, QuantaOf, Arrays, Bytes
-----------------------------------------------------------------------------
(* The steps of the file, in terms of the drivers.                         *)
Stored == Content(data, <<quantum, qset>>)

(* The first k bytes of str put at the position of u.                      *)
Puts(u, str, k) == Overlaid(Stored, f_pos[u], str, k)

LEMMA FileTruncate ==
  ASSUME Sparse, Sparse', NEW u \in Procs,
         Stored' = [i \in 0 .. MaxPos - 1 |-> Unwritten], size' = 0,
         f_pos' = [f_pos EXCEPT ![u] = 0], got' = <<>>
  PROVE  File!Next
<1>1. File!Truncate
  BY DEF File!Truncate, File!Pos, Stored
<1>2. (IF Sparse' THEN f_pos' ELSE [p \in Procs |-> 0])
        = [(IF Sparse THEN f_pos ELSE [p \in Procs |-> 0]) EXCEPT ![u] = 0]
  OBVIOUS
<1> QED BY <1>1, <1>2, Zenon DEF File!Next

LEMMA FileSeek ==
  ASSUME Sparse, Sparse', NEW u \in Procs, NEW n \in 0 .. MaxPos, Stored' = Stored, size' = size,
         f_pos' = [f_pos EXCEPT ![u] = n], got' = <<>>
  PROVE  File!Next
<1>1. File!Seek(u)
  BY DEF File!Seek
<1>2. /\ (IF Sparse' THEN Content(data', <<quantum', qset'>>) ELSE Content(Free, <<0, 0>>))
           = (IF Sparse THEN Content(data, <<quantum, qset>>) ELSE Content(Free, <<0, 0>>))
      /\ (IF Sparse' THEN size' ELSE 0) = (IF Sparse THEN size ELSE 0)
  BY DEF Stored
<1> QED BY <1>1, <1>2, Zenon DEF File!Next

LEMMA FileRead ==
  ASSUME Sparse, Sparse', NEW u \in Procs, NEW n \in 0 .. MaxCount, NEW k \in 0 .. n,
         Len(got') = k, f_pos' = [f_pos EXCEPT ![u] = @ + k],
         k = 0 \/ f_pos[u] + k <= size, ~(k = 0 /\ n > 0),
         \A i \in 1 .. k : got'[i] = Stored[f_pos[u] + i - 1],
         Stored' = Stored, size' = size
  PROVE  File!Next
<1>1. File!Read(u)
  BY DEF File!Read, Stored
<1> QED BY <1>1, Zenon DEF File!Next

(* A call that returns nothing and changes nothing is an empty read.       *)
LEMMA FileNothing ==
  ASSUME Sparse, Sparse', Positions, NEW u \in Procs,
         Stored' = Stored, size' = size, f_pos' = f_pos, got' = <<>>
  PROVE  File!Next
<1> DEFINE k == 0
<1>1. f_pos' = [f_pos EXCEPT ![u] = @ + k]
  BY DEF Positions
<1>2. k \in 0 .. MaxCount /\ k \in 0 .. k /\ Len(got') = k /\ k = 0 /\ ~(k = 0 /\ k > 0)
  BY StorageAssumption
<1>3. \A i \in 1 .. k : got'[i] = Stored[f_pos[u] + i - 1]
  OBVIOUS
<1> HIDE DEF k
<1> QED BY <1>1, <1>2, <1>3, FileRead

LEMMA FileWrite ==
  ASSUME Sparse, Sparse', NEW u \in Procs, NEW str \in UserData, NEW k \in 0 .. Len(str),
         k > 0 \/ str = <<>>, f_pos[u] + k <= MaxPos, got' = <<>>,
         f_pos' = [f_pos EXCEPT ![u] = @ + k],
         size' = IF size < f_pos[u] + k THEN f_pos[u] + k ELSE size,
         Stored' = Puts(u, str, k)
  PROVE  File!Next
<1>1. str \in File!Data
  BY DEF File!Data, UserData, Counts
<1>2. File!Put(u, str, k)
  BY DEF File!Put, File!Pos, Puts, Overlaid, Stored
<1> DEFINE at  == IF Sparse THEN f_pos ELSE [p \in Procs |-> 0]
           end == IF Sparse THEN size ELSE 0
<1>3. at[u] + k <= MaxPos /\ at' = [at EXCEPT ![u] = @ + k]
  OBVIOUS
<1>4. end' = IF end < at[u] + k THEN at[u] + k ELSE end
  OBVIOUS
<1>5. File!Write(u)
  BY <1>1, <1>2, <1>3, <1>4, Zenon DEF File!Write
<1> QED BY <1>5, Zenon DEF File!Next

LEMMA FileFailedWrite ==
  ASSUME Sparse, Sparse', NEW u \in Procs, NEW str \in UserData, NEW k \in 0 .. Len(str),
         got' = <<>>, f_pos' = f_pos, size' = size, Stored' = Puts(u, str, k)
  PROVE  File!Next
<1>1. str \in File!Data
  BY DEF File!Data, UserData, Counts
<1>2. File!Put(u, str, k)
  BY DEF File!Put, File!Pos, Puts, Overlaid, Stored
<1>3. File!FailedWrite(u)
  BY <1>1, <1>2 DEF File!FailedWrite
<1> QED BY <1>3, Zenon DEF File!Next
-----------------------------------------------------------------------------
(* The storage of a driver whose file is sparse: no geometry it works with *)
(* makes an array or a quantum a null pointer, and no file is longer than  *)
(* the bound on positions.                                                 *)
FileOK ==
  /\ StoreOK(data, quantum, qset, size) /\ Positions
  /\ itemsize(<<quantum, qset>>) # 0 => Distinct(quantum, qset)
  /\ size <= MaxPos

(* A read that finds nothing, or fails.                                    *)
LEMMA ReadsNothing ==
  ASSUME Sparse, Sparse', FileOK, NEW u \in Procs, UNCHANGED <<size, quantum, qset, f_pos>>, got' = <<>>,
         \/ data' = data
         \/ /\ f_pos[u] < size
            /\ \/ data' \in Holes(data, <<quantum, qset>>, f_pos[u])
               \/ data' = scull_follow(data, item(<<quantum, qset>>, f_pos[u]))
  PROVE  File!Next
<1>1. f_pos[u] \in Nat /\ StoreOK(data, quantum, qset, size)
  BY DEF FileOK, Positions
<1>2. Stored' = Stored
  <2>1. CASE data' = data
    BY <2>1 DEF Stored
  <2>2. CASE data' # data
    <3>1. itemsize(<<quantum, qset>>) # 0
      BY <1>1, <2>2 DEF StoreOK, Covers
    <3>2. Content(data', <<quantum, qset>>) = Content(data, <<quantum, qset>>)
      BY <1>1, <2>2, <3>1, KeptContent DEF FileOK
    <3> QED BY <3>2 DEF Stored
  <2> QED BY <2>1, <2>2
<1> QED BY <1>2, FileNothing DEF FileOK

(* A read that copies.                                                     *)
LEMMA ReadsSome ==
  ASSUME Sparse, Sparse', FileOK, NEW u \in Procs, NEW n \in Counts, NEW c,
         UNCHANGED <<size, quantum, qset>>, f_pos[u] < size,
         data' = scull_follow(data, item(<<quantum, qset>>, f_pos[u])),
         QuantumAt(data', <<quantum, qset>>, f_pos[u]) # NULL,
         c = min(min(n, size - f_pos[u]), quantum - q_pos(<<quantum, qset>>, f_pos[u])),
         got' = CopyOut(data', <<quantum, qset>>, f_pos[u], c),
         f_pos' = [f_pos EXCEPT ![u] = @ + c]
  PROVE  File!Next
<1> DEFINE g == <<quantum, qset>>
           at == f_pos[u]
           m == min(n, size - at)
<1>1. at \in Nat /\ size \in Nat /\ size <= MaxPos /\ StoreOK(data, quantum, qset, size)
  BY DEF FileOK, Positions, StoreOK
<1>2. itemsize(g) # 0
  BY <1>1 DEF StoreOK, Covers
<1>3. quantum \in Nat \ {0} /\ qset \in Nat \ {0} /\ Distinct(quantum, qset)
  BY <1>2, NotEmpty DEF FileOK, StoreOK
<1>4. m \in Nat /\ m <= n /\ at + m <= size
  BY <1>1, StorageAssumption DEF min, Counts
<1>5. c \in Nat /\ c <= m /\ c <= quantum - q_pos(g, at)
  <2> HIDE DEF m, at
  <2> QED BY <1>1, <1>3, <1>4, CountIsNat DEF m, at
<1>6. Content(data', g) = Content(data, g)
  BY <1>1, <1>2, <1>3, KeptContent
<1>7. ASSUME NEW i \in 1 .. c PROVE got'[i] = Stored[at + i - 1]
  <2>1. at + i - 1 \in 0 .. MaxPos - 1
    <3> HIDE DEF m, at
    <3> QED BY <1>1, <1>4, <1>5, StorageAssumption
  <2>2. CopyOut(data', g, at, c)[i] = ByteAt(data', g, at + i - 1)
    BY <1>1, <1>3, <1>5, CopyOutBytes
  <2>3. Content(data', g)[at + i - 1] = ByteAt(data', g, at + i - 1)
    BY <2>1 DEF Content
  <2> QED BY <1>6, <2>2, <2>3 DEF Stored
<1>8. Stored' = Stored
  BY <1>6 DEF Stored
<1>9. Len(got') = c
  <2>1. got' \in [1 .. c -> {got'[i] : i \in 1 .. c}]
    BY DEF CopyOut
  <2> QED BY <1>5, <2>1 DEF CopyOut
<1>10. CASE c = 0
  <2>1. got' = <<>>
    BY <1>9, <1>10 DEF CopyOut
  <2>2. f_pos' = f_pos
    BY <1>10 DEF FileOK, Positions
  <2> QED BY <1>8, <2>1, <2>2, FileNothing DEF FileOK
<1>11. CASE c # 0
  <2>1. c \in 0 .. c /\ c \in 0 .. MaxCount /\ at + c <= size /\ ~(c = 0 /\ c > 0)
    <3> HIDE DEF m, at
    <3> QED BY <1>1, <1>4, <1>5, <1>11, StorageAssumption DEF Counts
  <2> QED BY <1>7, <1>8, <1>9, <2>1, FileRead
<1> QED BY <1>10, <1>11

(* A write that stores the first k bytes of its data.                      *)
LEMMA WriteStores ==
  ASSUME FileOK, NEW u \in Procs, NEW str \in UserData, UNCHANGED <<quantum, qset>>,
         itemsize(<<quantum, qset>>) # 0, NEW k \in Nat, k <= Len(str),
         k <= quantum - q_pos(<<quantum, qset>>, f_pos[u]),
         data' = CopyIn(Prepared(data, <<quantum, qset>>, f_pos[u], FreshBytes(quantum)),
                        <<quantum, qset>>, f_pos[u], str, k)
  PROVE  Stored' = Puts(u, str, k)
<1> DEFINE g == <<quantum, qset>>
           at == f_pos[u]
           x == CopyIn(Prepared(data, g, at, FreshBytes(quantum)), g, at, str, k)
<1>1. /\ at \in Nat /\ Distinct(quantum, qset) /\ StoreOK(data, quantum, qset, size)
      /\ itemsize(g) # 0 /\ k <= quantum - q_pos(g, at) /\ data' = x
  BY DEF FileOK, Positions
<1> HIDE DEF at
<1>2. Content(x, g) = Overlaid(Content(data, g), at, str, k)
  BY <1>1, WrittenContent
<1> HIDE DEF x
<1> QED BY <1>1, <1>2 DEF Stored, Puts, at

LEMMA WritesAll ==
  ASSUME Sparse, Sparse', FileOK, NEW u \in Procs, NEW str \in UserData, NEW c,
         UNCHANGED <<quantum, qset>>, itemsize(<<quantum, qset>>) # 0, got' = <<>>,
         c = min(Len(str), quantum - q_pos(<<quantum, qset>>, f_pos[u])),
         f_pos[u] + c <= MaxPos, f_pos' = [f_pos EXCEPT ![u] = @ + c],
         size' = IF size < f_pos'[u] THEN f_pos'[u] ELSE size,
         data' = CopyIn(Prepared(data, <<quantum, qset>>, f_pos[u], FreshBytes(quantum)),
                        <<quantum, qset>>, f_pos[u], str, c)
  PROVE  File!Next /\ size' <= MaxPos
<1>1. f_pos[u] \in Nat /\ quantum \in Nat \ {0} /\ qset \in Nat \ {0} /\ Len(str) \in Nat
  BY NotEmpty, UserBytes DEF FileOK, Positions, StoreOK
<1>2. c \in Nat /\ c <= Len(str) /\ c <= quantum - q_pos(<<quantum, qset>>, f_pos[u])
  BY <1>1, CountIsNat
<1>3. c > 0 \/ str = <<>>
  <2>1. q_pos(<<quantum, qset>>, f_pos[u]) \in 0 .. quantum - 1
    BY <1>1, Coordinates
  <2>2. c = 0 => Len(str) = 0
    BY <1>1, <2>1 DEF min
  <2>3. Len(str) = 0 => str = <<>>
    BY DEF UserData
  <2> QED BY <1>2, <2>2, <2>3
<1>4. Stored' = Puts(u, str, c)
  BY <1>2, WriteStores
<1>5. f_pos'[u] = f_pos[u] + c
  BY DEF FileOK, Positions
<1>6. c \in 0 .. Len(str)
  BY <1>1, <1>2
<1>7. size' = IF size < f_pos[u] + c THEN f_pos[u] + c ELSE size
  BY <1>5
<1>8. size' <= MaxPos
  BY <1>7 DEF FileOK
<1>9. File!Next
  BY <1>3, <1>4, <1>6, <1>7, FileWrite
<1> QED BY <1>8, <1>9

LEMMA WritesPart ==
  ASSUME Sparse, Sparse', FileOK, NEW u \in Procs, NEW str \in UserData, NEW k \in Nat,
         UNCHANGED <<size, quantum, qset, f_pos>>, itemsize(<<quantum, qset>>) # 0, got' = <<>>,
         k < min(Len(str), quantum - q_pos(<<quantum, qset>>, f_pos[u])),
         data' = CopyIn(Prepared(data, <<quantum, qset>>, f_pos[u], FreshBytes(quantum)),
                        <<quantum, qset>>, f_pos[u], str, k)
  PROVE  File!Next
<1>1. f_pos[u] \in Nat /\ quantum \in Nat \ {0} /\ qset \in Nat \ {0} /\ Len(str) \in Nat
  BY NotEmpty, UserBytes DEF FileOK, Positions, StoreOK
<1>2. k <= Len(str) /\ k <= quantum - q_pos(<<quantum, qset>>, f_pos[u])
  <2>1. q_pos(<<quantum, qset>>, f_pos[u]) \in 0 .. quantum - 1
    BY <1>1, Coordinates
  <2> QED BY <1>1, <2>1 DEF min
<1>3. Stored' = Puts(u, str, k)
  BY <1>2, WriteStores
<1>4. k \in 0 .. Len(str)
  BY <1>1, <1>2
<1> QED BY <1>3, <1>4, FileFailedWrite

(* A write that fails before it copies.                                    *)
LEMMA WritesNothing ==
  ASSUME Sparse, Sparse', FileOK, NEW u \in Procs, UNCHANGED <<size, quantum, qset, f_pos>>,
         itemsize(<<quantum, qset>>) # 0, got' = <<>>,
         \/ data' \in NotPrepared(data, <<quantum, qset>>, f_pos[u])
         \/ data' = Prepared(data, <<quantum, qset>>, f_pos[u], FreshBytes(quantum))
  PROVE  File!Next
<1>1. f_pos[u] \in Nat /\ StoreOK(data, quantum, qset, size) /\ Distinct(quantum, qset)
  BY DEF FileOK, Positions
<1>2. Content(data', <<quantum, qset>>) = Content(data, <<quantum, qset>>)
  BY <1>1, KeptContent
<1>3. Stored' = Stored
  BY <1>2 DEF Stored
<1> QED BY <1>3, FileNothing DEF FileOK
-----------------------------------------------------------------------------
LEMMA FullCopyOut ==
  \A d, g, pos, k : Full!CopyOut(d, g, pos, k) = CopyOut(d, g, pos, k)
BY FullStorage, Zenon DEF Full!CopyOut, CopyOut

LEMMA MemCopyOut ==
  \A d, g, pos, k : Mem!CopyOut(d, g, pos, k) = CopyOut(d, g, pos, k)
BY MemStorage, Zenon DEF Mem!CopyOut, CopyOut

(* The geometries scull works with, now and after the next trim.           *)
FullGeometry ==
  /\ quantum \in Quanta \cup {0, DEFAULT_SCULL_QUANTUM}
  /\ new_quantum \in Quanta \cup {0, DEFAULT_SCULL_QUANTUM}
  /\ qset \in {0, DEFAULT_SCULL_QSET} /\ new_qset \in {0, DEFAULT_SCULL_QSET}

(* Every step of scull is one of the file.                                 *)
LEMMA FullFile ==
  ASSUME FullInv, FullGeometry, size <= MaxPos, Sparse, Sparse', Full!Next
  PROVE  File!Next /\ FullGeometry' /\ size' <= MaxPos
<1> DEFINE g == <<quantum, qset>>
<1> USE FullStorage DEF Full!geometry, Full!future, Full!CanLock
<1>0. FileOK
  <2>1. ASSUME itemsize(g) # 0 PROVE Distinct(quantum, qset)
    <3>1. quantum # 0 /\ qset # 0
      BY <2>1, NotEmpty DEF FullInv, StoreOK
    <3> QED BY <3>1, DistinctGeometry DEF FullGeometry
  <2> QED BY <2>1 DEF FileOK, FullInv
<1>1. ASSUME NEW p \in Procs, NEW wronly \in BOOLEAN, Full!scull_dev_open(p, wronly)
      PROVE  File!Next /\ FullGeometry' /\ size' <= MaxPos
  <2>1. f_pos' = [f_pos EXCEPT ![p] = 0] /\ got' = <<>> /\ UNCHANGED <<new_quantum, new_qset>>
    BY <1>1 DEF Full!scull_dev_open
  <2>2. CASE UNCHANGED <<data, size, quantum, qset>>
    <3>1. Stored' = Stored /\ 0 \in 0 .. MaxPos
      BY <2>2, StorageAssumption DEF Stored
    <3>2. File!Next
      BY <2>1, <2>2, <3>1, FileSeek
    <3> QED BY <2>1, <2>2, <3>2 DEF FullGeometry
  <2>3. CASE data' = Free /\ size' = 0 /\ quantum' = new_quantum /\ qset' = new_qset
    <3>1. Content(Free, <<new_quantum, new_qset>>) = [i \in 0 .. MaxPos - 1 |-> Unwritten]
      BY EmptyContent DEF FullInv
    <3>2. File!Next
      BY <2>1, <2>3, <3>1, FileTruncate DEF Stored
    <3> QED BY <2>1, <2>3, <3>2, StorageAssumption DEF FullGeometry
  <2> QED BY <1>1, <2>2, <2>3 DEF Full!scull_dev_open, Full!scull_trim
<1>2. ASSUME NEW p \in Procs, Full!scull_dev_release(p) \/ Full!scull_dev_write_oops(p)
      PROVE  File!Next /\ FullGeometry' /\ size' <= MaxPos
  <2>1. /\ f_pos' = [f_pos EXCEPT ![p] = 0] /\ got' = <<>>
        /\ UNCHANGED <<data, size, quantum, qset, new_quantum, new_qset>>
    BY <1>2 DEF Full!scull_dev_release, Full!scull_dev_write_oops
  <2>2. Stored' = Stored /\ 0 \in 0 .. MaxPos
    BY <2>1, StorageAssumption DEF Stored
  <2>3. File!Next
    BY <2>1, <2>2, FileSeek
  <2> QED BY <2>1, <2>3 DEF FullGeometry
<1>3. ASSUME NEW p \in Procs, Full!scull_dev_read_none(p)
      PROVE  File!Next /\ FullGeometry' /\ size' <= MaxPos
  <2>1. /\ UNCHANGED <<size, quantum, qset, new_quantum, new_qset, f_pos>> /\ got' = <<>>
        /\ data' = data \/ (f_pos[p] < size /\ data' \in Holes(data, g, f_pos[p]))
    BY <1>3 DEF Full!scull_dev_read_none
  <2>2. File!Next
    BY <1>0, <2>1, ReadsNothing
  <2> QED BY <2>1, <2>2 DEF FullGeometry
<1>4. ASSUME NEW p \in Procs, NEW n \in Counts, Full!scull_dev_read(p, n)
      PROVE  File!Next /\ FullGeometry' /\ size' <= MaxPos
  <2> DEFINE c == min(min(n, size - f_pos[p]), quantum - q_pos(g, f_pos[p]))
  <2>1. /\ UNCHANGED <<size, quantum, qset, new_quantum, new_qset>>
        /\ f_pos[p] < size /\ data' = scull_follow(data, item(g, f_pos[p]))
        /\ QuantumAt(data', g, f_pos[p]) # NULL
        /\ \/ got' = CopyOut(data', g, f_pos[p], c) /\ f_pos' = [f_pos EXCEPT ![p] = @ + c]
           \/ got' = <<>> /\ f_pos' = f_pos
    BY <1>4, FullCopyOut DEF Full!scull_dev_read
  <2>2. File!Next
    <3>1. CASE got' = CopyOut(data', g, f_pos[p], c) /\ f_pos' = [f_pos EXCEPT ![p] = @ + c]
      BY <1>0, <2>1, <3>1, ReadsSome
    <3>2. CASE got' = <<>> /\ f_pos' = f_pos
      BY <1>0, <2>1, <3>2, ReadsNothing
    <3> QED BY <2>1, <3>1, <3>2
  <2> QED BY <2>1, <2>2 DEF FullGeometry
<1>5. ASSUME NEW p \in Procs, NEW s \in UserData, Full!scull_dev_write(p, s)
      PROVE  File!Next /\ FullGeometry' /\ size' <= MaxPos
  <2> DEFINE c == min(Len(s), quantum - q_pos(g, f_pos[p]))
             x == CopyIn(Prepared(data, g, f_pos[p], FreshBytes(quantum)), g, f_pos[p], s, c)
  <2>1. /\ UNCHANGED <<quantum, qset, new_quantum, new_qset>> /\ itemsize(g) # 0 /\ got' = <<>>
        /\ data' = x /\ f_pos[p] + c <= MaxPos
        /\ f_pos' = [f_pos EXCEPT ![p] = @ + c]
        /\ size' = IF size < f_pos'[p] THEN f_pos'[p] ELSE size
    BY <1>5 DEF Full!scull_dev_write, Full!WriteCount, Full!Writable
  <2>2. File!Next /\ size' <= MaxPos
    BY <1>0, <2>1, WritesAll
  <2> QED BY <2>1, <2>2 DEF FullGeometry
<1>6. ASSUME NEW p \in Procs, NEW s \in UserData, Full!scull_dev_write_fault(p, s)
      PROVE  File!Next /\ FullGeometry' /\ size' <= MaxPos
  <2> DEFINE c == min(Len(s), quantum - q_pos(g, f_pos[p]))
  <2>1. PICK k \in 0 .. c - 1 :
          data' = CopyIn(Prepared(data, g, f_pos[p], FreshBytes(quantum)), g, f_pos[p], s, k)
    BY <1>6 DEF Full!scull_dev_write_fault, Full!WriteCount, Full!Writable
  <2>2. /\ UNCHANGED <<size, quantum, qset, new_quantum, new_qset, f_pos>> /\ itemsize(g) # 0
        /\ got' = <<>>
    BY <1>6 DEF Full!scull_dev_write_fault
  <2>3. c \in Nat
    <3>1. /\ quantum \in Nat \ {0} /\ qset \in Nat \ {0}
          /\ f_pos[p] \in Nat /\ Len(s) \in Nat
      BY <2>2, NotEmpty, UserBytes DEF FullInv, StoreOK, Positions
    <3> QED BY <3>1, CountIsNat
  <2>4. k \in Nat /\ k < c
    <3> HIDE DEF c
    <3> QED BY <2>3
  <2>5. File!Next
    BY <1>0, <2>1, <2>2, <2>4, WritesPart
  <2> QED BY <2>2, <2>5 DEF FullGeometry
<1>7. ASSUME NEW p \in Procs, Full!scull_dev_write_nomem(p)
      PROVE  File!Next /\ FullGeometry' /\ size' <= MaxPos
  <2>1. /\ UNCHANGED <<size, quantum, qset, new_quantum, new_qset, f_pos>> /\ itemsize(g) # 0
        /\ data' \in NotPrepared(data, g, f_pos[p]) /\ got' = <<>>
    BY <1>7 DEF Full!scull_dev_write_nomem
  <2>2. File!Next
    BY <1>0, <2>1, WritesNothing
  <2> QED BY <2>1, <2>2 DEF FullGeometry
<1>8. ASSUME NEW p \in Procs,
             \/ Full!scull_dev_ioctl_reset(p) \/ Full!scull_dev_ioctl_xload(p)
             \/ \E v \in Full!Stores : Full!scull_dev_ioctl_set(p, v) \/ Full!scull_dev_ioctl_xstore(p, v)
      PROVE  File!Next /\ FullGeometry' /\ size' <= MaxPos
  <2>1. /\ UNCHANGED <<data, size, quantum, qset, f_pos>> /\ got' = <<>>
        /\ FullGeometry'
    BY <1>8 DEF FullGeometry, Full!scull_dev_ioctl_reset, Full!scull_dev_ioctl_xload,
       Full!scull_dev_ioctl_set, Full!scull_dev_ioctl_xstore, Full!Stores
  <2>2. File!Next
    BY <1>0, <2>1, ReadsNothing
  <2> QED BY <2>1, <2>2
<1>9. ASSUME NEW p \in Procs, NEW off, NEW whence, Full!scull_dev_llseek(p, off, whence)
      PROVE  File!Next /\ FullGeometry' /\ size' <= MaxPos
  <2>1. /\ UNCHANGED <<data, size, quantum, qset, new_quantum, new_qset>> /\ got' = <<>>
        /\ \E n \in 0 .. MaxPos : f_pos' = [f_pos EXCEPT ![p] = n]
    BY <1>9 DEF Full!scull_dev_llseek
  <2>2. Stored' = Stored
    BY <2>1 DEF Stored
  <2>3. File!Next
    BY <2>1, <2>2, FileSeek
  <2> QED BY <2>1, <2>3 DEF FullGeometry
<1> QED BY <1>1, <1>2, <1>3, <1>4, <1>5, <1>6, <1>7, <1>8, <1>9 DEF Full!Next

(* Every step of scullc, scullp and scullv is one of the file.             *)
LEMMA MemFile ==
  ASSUME MemInv, size <= MaxPos, Sparse, Sparse', Mem!Next
  PROVE  /\ File!Next \/ UNCHANGED <<data, size, quantum, qset, f_pos, got>>
         /\ size' <= MaxPos
<1> DEFINE g == <<quantum, qset>>
           Step == File!Next /\ size' <= MaxPos
<1> USE MemStorage DEF Mem!geometry
<1>0. FileOK /\ itemsize(g) # 0 /\ quantum \in Nat \ {0} /\ qset \in Nat \ {0} /\ 0 \in 0 .. MaxPos
  <2>1. quantum = MemQuantum /\ qset = MemQset
    BY DEF MemInv
  <2>2. Distinct(quantum, qset)
    BY <2>1, DistinctGeometry
  <2>3. quantum \in Nat \ {0} /\ qset \in Nat \ {0} /\ 0 \in 0 .. MaxPos
    BY <2>1, StoresAssumption, StorageAssumption
  <2> QED BY <2>2, <2>3, EmptyNot DEF FileOK, MemInv
<1>1. ASSUME NEW p \in Procs, NEW wronly \in BOOLEAN, Mem!Open(p, wronly) PROVE Step
  <2>1. f_pos' = [f_pos EXCEPT ![p] = 0] /\ got' = <<>> /\ UNCHANGED <<quantum, qset>>
    BY <1>1 DEF Mem!Open
  <2>2. CASE UNCHANGED <<data, size>>
    <3>1. Stored' = Stored
      BY <2>1, <2>2 DEF Stored
    <3> QED BY <1>0, <2>1, <2>2, <3>1, FileSeek
  <2>3. CASE data' = Free /\ size' = 0
    <3>1. Content(Free, g) = [i \in 0 .. MaxPos - 1 |-> Unwritten]
      BY <1>0, EmptyContent
    <3>2. Stored' = [i \in 0 .. MaxPos - 1 |-> Unwritten]
      BY <2>1, <2>3, <3>1 DEF Stored
    <3>3. size' <= MaxPos
      BY <2>3, StorageAssumption
    <3> QED BY <2>1, <2>3, <3>2, <3>3, FileTruncate
  <2> QED BY <1>1, <2>2, <2>3 DEF Mem!Open, Mem!trim
<1>2. ASSUME NEW p \in Procs, Mem!scullX_dev_release(p) PROVE Step
  <2>1. /\ f_pos' = [f_pos EXCEPT ![p] = 0] /\ got' = <<>>
        /\ UNCHANGED <<data, size, quantum, qset>>
    BY <1>2 DEF Mem!scullX_dev_release
  <2>2. Stored' = Stored
    BY <2>1 DEF Stored
  <2> QED BY <1>0, <2>1, <2>2, FileSeek
<1>3. ASSUME NEW p \in Procs, Mem!ReadNone(p) PROVE Step
  <2>1. /\ UNCHANGED <<size, quantum, qset, f_pos>> /\ got' = <<>>
        /\ data' = data \/ (f_pos[p] < size /\ data' \in Holes(data, g, f_pos[p]))
    BY <1>3 DEF Mem!ReadNone
  <2> QED BY <1>0, <2>1, ReadsNothing
<1>4. ASSUME NEW p \in Procs, NEW n \in Counts, NEW buf, Mem!ReadQuantum(p, n, buf) PROVE Step
  <2> DEFINE c == min(min(n, size - f_pos[p]), quantum - q_pos(g, f_pos[p]))
  <2>1. /\ UNCHANGED <<size, quantum, qset>>
        /\ f_pos[p] < size /\ data' = scull_follow(data, item(g, f_pos[p]))
        /\ QuantumAt(data', g, f_pos[p]) # NULL
        /\ \/ got' = CopyOut(data', g, f_pos[p], c) /\ f_pos' = [f_pos EXCEPT ![p] = @ + c]
           \/ got' = <<>> /\ f_pos' = f_pos
    BY <1>4, MemCopyOut DEF Mem!ReadQuantum
  <2>2. File!Next
    <3>1. CASE got' = CopyOut(data', g, f_pos[p], c) /\ f_pos' = [f_pos EXCEPT ![p] = @ + c]
      BY <1>0, <2>1, <3>1, ReadsSome
    <3>2. CASE got' = <<>> /\ f_pos' = f_pos
      BY <1>0, <2>1, <3>2, ReadsNothing
    <3> QED BY <2>1, <3>1, <3>2
  <2> QED BY <2>1, <2>2
<1>5. ASSUME NEW p \in Procs, NEW s \in UserData, Mem!Write(p), Mem!WriteAll(p, s) PROVE Step
  <2> DEFINE c == min(Len(s), quantum - q_pos(g, f_pos[p]))
             x == CopyIn(Prepared(data, g, f_pos[p], FreshBytes(quantum)), g, f_pos[p], s, c)
  <2>1. /\ UNCHANGED <<quantum, qset>> /\ got' = <<>>
        /\ data' = x /\ f_pos[p] + c <= MaxPos
        /\ f_pos' = [f_pos EXCEPT ![p] = @ + c]
        /\ size' = IF size < f_pos'[p] THEN f_pos'[p] ELSE size
    BY <1>5 DEF Mem!Write, Mem!WriteAll, Mem!WriteCount, Mem!Writable
  <2> QED BY <1>0, <2>1, WritesAll
<1>6. ASSUME NEW p \in Procs, NEW s \in UserData, NEW k \in 0 .. Len(s), Mem!Write(p), Mem!WriteFault(p, s, k)
      PROVE  Step
  <2>1. /\ UNCHANGED <<size, quantum, qset, f_pos>> /\ got' = <<>>
        /\ data' = CopyIn(Prepared(data, g, f_pos[p], FreshBytes(quantum)), g, f_pos[p], s, k)
        /\ k < min(Len(s), quantum - q_pos(g, f_pos[p]))
    BY <1>6 DEF Mem!Write, Mem!WriteFault, Mem!WriteCount, Mem!Writable
  <2>2. k \in Nat
    BY UserBytes
  <2> QED BY <1>0, <2>1, <2>2, WritesPart
<1>7. ASSUME NEW p \in Procs, Mem!Write(p), Mem!WriteNoMem(p) \/ Mem!WriteOverrun(p) PROVE Step
  <2>1. /\ UNCHANGED <<size, quantum, qset, f_pos>> /\ got' = <<>>
        /\ \/ data' \in NotPrepared(data, g, f_pos[p])
           \/ data' = Prepared(data, g, f_pos[p], FreshBytes(quantum))
    BY <1>7 DEF Mem!Write, Mem!WriteNoMem, Mem!WriteOverrun, Mem!Writable
  <2> QED BY <1>0, <2>1, WritesNothing
<1>8. ASSUME NEW p \in Procs, NEW off, NEW whence, Mem!Seek(p, off, whence) PROVE Step
  <2>1. /\ UNCHANGED <<data, size, quantum, qset>> /\ got' = <<>>
        /\ \E n \in 0 .. MaxPos : f_pos' = [f_pos EXCEPT ![p] = n]
    BY <1>8 DEF Mem!Seek
  <2>2. Stored' = Stored
    BY <2>1 DEF Stored
  <2> QED BY <2>1, <2>2, FileSeek
<1>9. Mem!Smashed => UNCHANGED <<data, size, quantum, qset, f_pos, got>>
  BY DEF Mem!Smashed, Mem!vars
<1> HIDE DEF Step
<1>10. ASSUME NEW p \in Procs, Mem!scullc(p) PROVE Step
  <2>1. ASSUME NEW s \in UserData, Mem!scullc_dev_write(p, s) PROVE Step
    BY <1>5, <1>6, <1>7, <2>1 DEF Mem!scullc_dev_write
  <2> QED BY <1>1, <1>3, <1>4, <1>8, <1>10, <2>1 DEF Mem!scullc, Mem!scullc_dev_open, Mem!scullc_dev_read,
           Mem!Read, Mem!scullc_dev_llseek
<1>11. ASSUME NEW p \in Procs, NEW s \in UserData, Mem!Write(p), Mem!WriteAtOnce(p, s) PROVE Step
  <2>1. 0 \in 0 .. Len(s)
    BY UserBytes
  <2> QED BY <1>5, <1>6, <1>7, <1>11, <2>1 DEF Mem!WriteAtOnce
<1>12. ASSUME NEW p \in Procs, Mem!scullp(p) PROVE Step
  BY <1>1, <1>3, <1>4, <1>8, <1>11, <1>12 DEF Mem!scullp, Mem!scullp_dev_open, Mem!scullp_dev_read,
     Mem!scullp_dev_write, Mem!Read, Mem!scullp_dev_llseek
<1>13. ASSUME NEW p \in Procs, Mem!scullv(p) PROVE Step
  BY <1>1, <1>3, <1>4, <1>8, <1>11, <1>13 DEF Mem!scullv, Mem!scullv_dev_open, Mem!scullv_dev_read,
     Mem!scullv_dev_write, Mem!Read, Mem!scullv_dev_llseek
<1>14. Step \/ Mem!Smashed
  BY <1>2, <1>10, <1>12, <1>13 DEF Mem!Next
<1> QED BY <1>9, <1>14 DEF Step
-----------------------------------------------------------------------------
FileInv ==
  /\ StoresInv
  /\ driver = "scull" => FullGeometry
  /\ Sparse => size <= MaxPos

(* The variables of the file, as the drivers see them.                     *)
LEMMA FileStutter ==
  ASSUME driver' = driver, Sparse => UNCHANGED <<data, size, quantum, qset, f_pos>>, got' = got
  PROVE  UNCHANGED File!vars
<1>1. Sparse' <=> Sparse
  BY DEF Sparse
<1>2. /\ (IF Sparse' THEN f_pos' ELSE [p \in Procs |-> 0]) = (IF Sparse THEN f_pos ELSE [p \in Procs |-> 0])
      /\ (IF Sparse' THEN size' ELSE 0) = (IF Sparse THEN size ELSE 0)
      /\ (IF Sparse' THEN Content(data', <<quantum', qset'>>) ELSE Content(Free, <<0, 0>>))
           = (IF Sparse THEN Content(data, <<quantum, qset>>) ELSE Content(Free, <<0, 0>>))
  BY <1>1
<1> QED BY <1>2, Zenon DEF File!vars

(* Loaded, every driver is an empty file.                                  *)
LEMMA FileInit == Init => FileInv /\ File!Init
<1> SUFFICES ASSUME Init PROVE FileInv /\ File!Init
  OBVIOUS
<1>0. "scull" \notin Mem!Drivers /\ "scull_device" \notin Mem!Drivers
  BY DEF Mem!Drivers
<1>1. StoresInv
  BY StoresInit
<1>2. /\ got = <<>>
      /\ Sparse => /\ f_pos = [p \in Procs |-> 0] /\ size = 0 /\ data = Free
                   /\ quantum \in Nat /\ qset \in Nat
      /\ driver = "scull" => FullGeometry
  <2>1. CASE driver = "scull" /\ Full!Init
    BY <2>1, FullStorage, StorageAssumption DEF Full!Init, FullGeometry
  <2>2. CASE Mem!Init
    BY <1>0, <2>2, MemStorage, StoresAssumption DEF Mem!Init
  <2>3. CASE driver = "scull_device" /\ got = <<>>
    BY <2>3 DEF Sparse
  <2> QED BY <2>1, <2>2, <2>3 DEF Init
<1>3. FileInv
  BY <1>1, <1>2, StorageAssumption DEF FileInv
<1>4. Content(Free, <<0, 0>>) = [i \in 0 .. MaxPos - 1 |-> Unwritten]
  BY EmptyContent
<1>5. Sparse => Content(data, <<quantum, qset>>) = [i \in 0 .. MaxPos - 1 |-> Unwritten]
  BY <1>2, EmptyContent
<1>6. File!Init
  BY <1>2, <1>4, <1>5 DEF File!Init, File!Pos
<1> QED BY <1>3, <1>6

(* A step of the driver that is loaded is a step of the file, or leaves it *)
(* alone.                                                                  *)
LEMMA FileStep == FileInv /\ [Next]_vars => FileInv' /\ [File!Next]_File!vars
<1> SUFFICES ASSUME FileInv, [Next]_vars PROVE FileInv' /\ [File!Next]_File!vars
  OBVIOUS
<1>0. "scull" \notin Mem!Drivers /\ "scull_device" \notin Mem!Drivers
  BY DEF Mem!Drivers
<1>1. StoresInv'
  BY StoresStep DEF FileInv
<1>2. CASE driver = "scull" /\ Full!Next /\ driver' = driver
  <2>1. FullInv /\ FullGeometry /\ size <= MaxPos /\ Sparse /\ Sparse'
    BY <1>2 DEF FileInv, StoresInv, Sparse
  <2>2. File!Next /\ FullGeometry' /\ size' <= MaxPos
    BY <1>2, <2>1, FullFile
  <2> QED BY <1>1, <2>2 DEF FileInv
<1>3. CASE driver \in Mem!Drivers /\ Mem!Next
  <2>1. driver' = driver
    BY <1>3, DriverStays
  <2>2. MemInv /\ size <= MaxPos /\ Sparse /\ Sparse'
    BY <1>0, <1>3, <2>1 DEF FileInv, StoresInv, Sparse
  <2>3. /\ File!Next \/ UNCHANGED <<data, size, quantum, qset, f_pos, got>>
        /\ size' <= MaxPos
    BY <1>3, <2>2, MemFile
  <2>4. [File!Next]_File!vars
    BY <2>1, <2>3, FileStutter
  <2>5. FileInv'
    BY <1>0, <1>1, <1>3, <2>1, <2>3 DEF FileInv
  <2> QED BY <2>4, <2>5
<1>4. CASE driver = "scull_device" /\ driver' = driver /\ got' = got
  <2>1. ~Sparse /\ ~Sparse'
    BY <1>4 DEF Sparse
  <2> QED BY <1>1, <1>4, <2>1, FileStutter DEF FileInv
<1>5. CASE UNCHANGED vars
  <2>1. UNCHANGED <<driver, data, size, quantum, qset, f_pos, got, new_quantum, new_qset>>
    BY <1>5 DEF vars, both
  <2>2. FileInv'
    BY <1>1, <2>1 DEF FileInv, FullGeometry, Sparse
  <2> QED BY <2>1, <2>2, FileStutter
<1> QED BY <1>2, <1>3, <1>4, <1>5 DEF Next

(* What scull, scullc, scullp and scullv promise: a read returns the bytes *)
(* that were written at its position since the last trim, whatever the     *)
(* geometry, and a write that fails moves and extends nothing.             *)
THEOREM StoresAreFiles == Spec => ImplementsSparseFile
BY FileInit, FileStep, PTL DEF Spec, ImplementsSparseFile, File!Spec
=============================================================================
