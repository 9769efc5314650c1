------------------------------ MODULE PartsProofs ------------------------------
(***************************************************************************)
(* The parts of the SDK and of its examples: what each of them keeps, for  *)
(* any agents, threads, clients, stores, calls and handoffs.               *)
(***************************************************************************)
EXTENDS MCParts, EngineProofs, BufferProofs

(* Loops over a list *)

\* A loop over a list that keeps the elements of a set (a comprehension with a condition): what
\* it has after each of the first k.
Loops(s, T, k, f) ==
  \A i \in 0..k :
    f[i] = IF i = 0 THEN <<>> ELSE IF s[i] \in T THEN Append(f[i - 1], s[i]) ELSE f[i - 1]

\* It has a result after each element.
LEMMA LoopRuns ==
  ASSUME NEW S, NEW s \in Seq(S), NEW T
  PROVE  \E f \in [0..Len(s) -> Seq(S)] : Loops(s, T, Len(s), f)
<1> DEFINE Good(k) == \E f \in [0..k -> Seq(S)] : Loops(s, T, k, f)
           Bad == {k \in 0..Len(s) : ~Good(k)}
<1>1. Good(0)
  <2>1. [i \in 0..0 |-> <<>>] \in [0..0 -> Seq(S)]
    <3>1. <<>> \in Seq(S)
      OBVIOUS
    <3> QED BY <3>1
  <2>2. Loops(s, T, 0, [i \in 0..0 |-> <<>>])
    BY DEF Loops
  <2> QED BY <2>1, <2>2
<1>2. ASSUME NEW k \in 0..Len(s), k + 1 \in 0..Len(s), Good(k) PROVE Good(k + 1)
  <2>1. PICK f \in [0..k -> Seq(S)] : Loops(s, T, k, f)
    BY <1>2
  <2>2. PICK n \in Nat : n = k + 1 /\ n \in 1..Len(s)
    BY <1>2
  <2>3. PICK e : e = IF s[n] \in T THEN Append(f[k], s[n]) ELSE f[k]
    OBVIOUS
  <2>4. e \in Seq(S)
    <3>1. f[k] \in Seq(S) /\ s[n] \in S
      BY <1>2, <2>2
    <3> QED BY <2>3, <3>1
  <2>5. PICK g : g = [i \in 0..n |-> IF i = n THEN e ELSE f[i]]
    OBVIOUS
  <2>6. \A i \in 0..n : i # n => i \in 0..k
    BY <2>2
  <2>7. g \in [0..n -> Seq(S)]
    BY <2>4, <2>5, <2>6
  <2>8. \A i \in 0..k : g[i] = f[i] /\ (i # 0 => i - 1 \in 0..k)
    BY <2>2, <2>5
  <2>9. g[n] = e /\ n # 0 /\ n - 1 = k /\ g[k] = f[k]
    BY <2>2, <2>5
  <2>10. Loops(s, T, n, g)
    <3> SUFFICES ASSUME NEW i \in 0..n
                 PROVE  g[i] = IF i = 0 THEN <<>>
                               ELSE IF s[i] \in T THEN Append(g[i - 1], s[i]) ELSE g[i - 1]
      BY DEF Loops
    <3>1. CASE i = n
      BY <2>3, <2>9, <3>1
    <3>2. CASE i # n
      <4>1. i \in 0..k /\ g[i] = f[i] /\ (i # 0 => g[i - 1] = f[i - 1])
        BY <2>6, <2>8, <3>2
      <4> QED BY <2>1, <4>1 DEF Loops
    <3> QED BY <3>1, <3>2
  <2> QED BY <2>2, <2>7, <2>10
<1> HIDE DEF Good
<1>3. Bad = {}
  <2> SUFFICES ASSUME Bad # {} PROVE FALSE
    OBVIOUS
  <2>1. PICK k \in Bad : \A y \in Bad : k <= y
    <3>1. Bad \subseteq Nat
      OBVIOUS
    <3> HIDE DEF Bad
    <3> QED BY <3>1, LeastNumber
  <2>2. k \in 0..Len(s) /\ ~Good(k) /\ k # 0
    BY <1>1
  <2>3. k - 1 \in 0..Len(s) /\ (k - 1) + 1 = k
    BY <2>2
  <2>4. Good(k - 1)
    BY <2>1, <2>3
  <2> QED BY <1>2, <2>2, <2>3, <2>4
<1>4. Good(Len(s))
  <2>1. Len(s) \in 0..Len(s)
    OBVIOUS
  <2> QED BY <1>3, <2>1
<1> QED BY <1>4 DEF Good

\* The elements that are kept, as the modules define them.
Among(s, T) ==
  LET f[i \in 0..Len(s)] ==
        IF i = 0 THEN <<>> ELSE IF s[i] \in T THEN Append(f[i - 1], s[i]) ELSE f[i - 1]
  IN f[Len(s)]

\* Each element that is kept is one of the first k and of the set, each such is kept, and none
\* twice if the list has none twice.
KeptOf(s, T, k, q) ==
  /\ Len(q) <= k
  /\ \A j \in 1..Len(q) : q[j] \in T /\ \E i \in 1..k : s[i] = q[j]
  /\ \A i \in 1..k : s[i] \in T => \E j \in 1..Len(q) : q[j] = s[i]
  /\ (\A i, j \in 1..k : s[i] = s[j] => i = j) => \A i, j \in 1..Len(q) : q[i] = q[j] => i = j

\* One element more.
LEMMA KeepsOne ==
  ASSUME NEW S, NEW s \in Seq(S), NEW T, NEW k \in Nat, k + 1 <= Len(s), NEW q \in Seq(S),
         KeptOf(s, T, k, q)
  PROVE  KeptOf(s, T, k + 1, IF s[k + 1] \in T THEN Append(q, s[k + 1]) ELSE q)
<1>0. PICK n \in Nat : n = k + 1
  OBVIOUS
<1>1. /\ n \in 1..n /\ s[n] \in S /\ \A i \in 1..n : i # n => i \in 1..k
      /\ \A i \in 1..k : i \in 1..n /\ i # n
  BY <1>0
<1>2. CASE s[n] \notin T
  <2>1. KeptOf(s, T, n, q)
    <3>1. Len(q) <= n
      BY <1>0 DEF KeptOf
    <3>2. \A j \in 1..Len(q) : q[j] \in T /\ \E i \in 1..n : s[i] = q[j]
      BY <1>1 DEF KeptOf
    <3>3. \A i \in 1..n : s[i] \in T => \E j \in 1..Len(q) : q[j] = s[i]
      BY <1>1, <1>2 DEF KeptOf
    <3>4. ASSUME \A i, j \in 1..n : s[i] = s[j] => i = j
          PROVE  \A i, j \in 1..Len(q) : q[i] = q[j] => i = j
      BY <1>1, <3>4 DEF KeptOf
    <3> QED BY <3>1, <3>2, <3>3, <3>4 DEF KeptOf
  <2> QED BY <1>0, <1>2, <2>1
<1>3. CASE s[n] \in T
  <2>0. Append(q, s[n]) \in Seq(S)
    BY <1>1, AppendProperties
  <2>1. PICK r \in Seq(S) : r = Append(q, s[n])
    BY <2>0
  <2>2. PICK m \in Nat : m = Len(q)
    OBVIOUS
  <2>3. /\ Len(r) = m + 1 /\ r[m + 1] = s[n]
        /\ \A j \in 1..m : r[j] = q[j] /\ j \in 1..Len(q)
        /\ \A j \in 1..Len(r) : j # m + 1 => j \in 1..m
    BY <1>1, <2>1, <2>2
  <2>4. KeptOf(s, T, n, r)
    <3>1. Len(r) <= n
      BY <1>0, <2>2, <2>3 DEF KeptOf
    <3>2. ASSUME NEW j \in 1..Len(r) PROVE r[j] \in T /\ \E i \in 1..n : s[i] = r[j]
      <4>1. CASE j = m + 1
        BY <1>1, <1>3, <2>3, <4>1
      <4>2. CASE j # m + 1
        BY <1>1, <2>3, <4>2 DEF KeptOf
      <4> QED BY <4>1, <4>2
    <3>3. ASSUME NEW i \in 1..n, s[i] \in T PROVE \E j \in 1..Len(r) : r[j] = s[i]
      <4>1. CASE i = n
        <5>1. m + 1 \in 1..Len(r)
          BY <2>2, <2>3
        <5> QED BY <2>3, <4>1, <5>1
      <4>2. CASE i # n
        <5>1. PICK j \in 1..Len(q) : q[j] = s[i]
          BY <1>1, <3>3, <4>2 DEF KeptOf
        <5>2. j \in 1..m /\ j \in 1..Len(r)
          BY <2>2, <2>3
        <5> QED BY <2>3, <5>1, <5>2
      <4> QED BY <4>1, <4>2
    <3>4. ASSUME \A i, j \in 1..n : s[i] = s[j] => i = j, NEW i \in 1..Len(r), NEW j \in 1..Len(r),
                 r[i] = r[j]
          PROVE  i = j
      <4>1. \A x, y \in 1..Len(q) : q[x] = q[y] => x = y
        BY <1>1, <3>4 DEF KeptOf
      <4>2. ASSUME NEW x \in 1..m PROVE r[x] # s[n]
        <5>1. PICK y \in 1..k : s[y] = q[x]
          BY <2>2, <2>3 DEF KeptOf
        <5> QED BY <1>1, <2>3, <3>4, <5>1
      <4>3. CASE i = m + 1 /\ j # m + 1
        BY <2>3, <3>4, <4>2, <4>3
      <4>4. CASE j = m + 1 /\ i # m + 1
        BY <2>3, <3>4, <4>2, <4>4
      <4>5. CASE i # m + 1 /\ j # m + 1
        <5>1. i \in 1..m /\ j \in 1..m
          BY <2>3, <4>5
        <5>2. q[i] = q[j] /\ i \in 1..Len(q) /\ j \in 1..Len(q)
          BY <2>3, <3>4, <5>1
        <5> QED BY <4>1, <5>2
      <4> QED BY <4>3, <4>4, <4>5
    <3> QED BY <3>1, <3>2, <3>3, <3>4 DEF KeptOf
  <2> QED BY <1>0, <1>3, <2>1, <2>4
<1> QED BY <1>0, <1>2, <1>3

\* What is kept of a list.
LEMMA AmongFacts ==
  ASSUME NEW S, NEW s \in Seq(S), NEW T
  PROVE  Among(s, T) \in Seq(S) /\ KeptOf(s, T, Len(s), Among(s, T))
<1> DEFINE F == CHOOSE f : f = [i \in 0..Len(s) |->
              IF i = 0 THEN <<>> ELSE IF s[i] \in T THEN Append(f[i - 1], s[i]) ELSE f[i - 1]]
           Good(k) == F[k] \in Seq(S) /\ KeptOf(s, T, k, F[k])
           Bad == {k \in 0..Len(s) : ~Good(k)}
<1>1. Among(s, T) = F[Len(s)]
  BY DEF Among
<1>2. \E f : f = [i \in 0..Len(s) |->
              IF i = 0 THEN <<>> ELSE IF s[i] \in T THEN Append(f[i - 1], s[i]) ELSE f[i - 1]]
  <2>1. PICK f \in [0..Len(s) -> Seq(S)] : Loops(s, T, Len(s), f)
    BY LoopRuns
  <2>2. f = [i \in 0..Len(s) |-> f[i]]
    OBVIOUS
  <2>3. f = [i \in 0..Len(s) |->
              IF i = 0 THEN <<>> ELSE IF s[i] \in T THEN Append(f[i - 1], s[i]) ELSE f[i - 1]]
    BY <2>1, <2>2 DEF Loops
  <2> QED BY <2>3
<1>3. F = [i \in 0..Len(s) |->
              IF i = 0 THEN <<>> ELSE IF s[i] \in T THEN Append(F[i - 1], s[i]) ELSE F[i - 1]]
  BY <1>2
<1> HIDE DEF F
<1>4. /\ F[0] = <<>>
      /\ \A i \in 0..Len(s) : i # 0 => F[i] = IF s[i] \in T THEN Append(F[i - 1], s[i]) ELSE F[i - 1]
  <2>1. 0 \in 0..Len(s)
    OBVIOUS
  <2> QED BY <1>3, <2>1
<1>5. Good(0)
  <2>1. <<>> \in Seq(S) /\ Len(<<>>) = 0
    OBVIOUS
  <2>2. F[0] \in Seq(S) /\ Len(F[0]) = 0
    BY <1>4, <2>1
  <2> QED BY <2>2 DEF KeptOf
<1>6. ASSUME NEW k \in 0..Len(s), k # 0, Good(k - 1) PROVE Good(k)
  <2>1. PICK n \in Nat : n = k - 1 /\ n + 1 = k /\ n + 1 <= Len(s)
    BY <1>6
  <2>2. F[k] = IF s[k] \in T THEN Append(F[n], s[k]) ELSE F[n]
    BY <1>4, <1>6, <2>1
  <2>3. F[n] \in Seq(S) /\ KeptOf(s, T, n, F[n]) /\ s[k] \in S
    BY <1>6, <2>1
  <2>4. F[k] \in Seq(S)
    BY <2>2, <2>3
  <2>5. KeptOf(s, T, n + 1, IF s[n + 1] \in T THEN Append(F[n], s[n + 1]) ELSE F[n])
    BY <2>1, <2>3, KeepsOne
  <2> QED BY <2>1, <2>2, <2>4, <2>5
<1> HIDE DEF Good
<1>7. Bad = {}
  <2> SUFFICES ASSUME Bad # {} PROVE FALSE
    OBVIOUS
  <2>1. PICK k \in Bad : \A y \in Bad : k <= y
    <3>1. Bad \subseteq Nat
      OBVIOUS
    <3> HIDE DEF Bad
    <3> QED BY <3>1, LeastNumber
  <2>2. k \in 0..Len(s) /\ ~Good(k) /\ k # 0
    BY <1>5
  <2>3. k - 1 \in 0..Len(s) /\ k - 1 < k
    BY <2>2
  <2>4. Good(k - 1)
    BY <2>1, <2>3
  <2> QED BY <1>6, <2>2, <2>4
<1>8. Good(Len(s))
  <2>1. Len(s) \in 0..Len(s)
    OBVIOUS
  <2> QED BY <1>7, <2>1
<1> QED BY <1>1, <1>8 DEF Good
-------------------------------------------------------------------------------
\* A list has each element of a set once, and no other.
Enumerates(s, T) ==
  /\ \A i \in 1..Len(s) : s[i] \in T
  /\ \A i, j \in 1..Len(s) : s[i] = s[j] => i = j
  /\ \A e \in T : \E i \in 1..Len(s) : s[i] = e

\* A list with a new element at its end.
LEMMA EnumeratesOneMore ==
  ASSUME NEW S, NEW s \in Seq(S), NEW T, NEW e \in S, e \notin T, Enumerates(s, T)
  PROVE  Append(s, e) \in Seq(S) /\ Enumerates(Append(s, e), T \cup {e})
<1>1. PICK r : r = Append(s, e)
  OBVIOUS
<1>2. PICK n \in Nat : n = Len(s)
  OBVIOUS
<1>3. r \in Seq(S) /\ Len(r) = n + 1 /\ r[n + 1] = e /\ \A i \in 1..n : r[i] = s[i]
  BY <1>1, <1>2, AppendProperties
<1>4. /\ \A i \in 1..(n + 1) : i # n + 1 => i \in 1..n
      /\ \A i \in 1..n : i \in 1..(n + 1) /\ i # n + 1
      /\ n + 1 \in 1..(n + 1)
  OBVIOUS
<1>5. \A i \in 1..n : r[i] \in T /\ r[i] # e
  BY <1>2, <1>3 DEF Enumerates
<1>6. \A i \in 1..(n + 1) : r[i] \in T \cup {e}
  BY <1>3, <1>4, <1>5
<1>7. ASSUME NEW i \in 1..(n + 1), NEW j \in 1..(n + 1), r[i] = r[j] PROVE i = j
  <2>1. CASE i \in 1..n /\ j \in 1..n
    BY <1>2, <1>3, <1>7, <2>1 DEF Enumerates
  <2>2. CASE i = n + 1 \/ j = n + 1
    BY <1>3, <1>4, <1>5, <1>7, <2>2
  <2> QED BY <1>4, <2>1, <2>2
<1>8. ASSUME NEW x \in T \cup {e} PROVE \E i \in 1..(n + 1) : r[i] = x
  <2>1. CASE x = e
    BY <1>3, <1>4, <2>1
  <2>2. CASE x \in T
    <3>1. PICK i \in 1..n : s[i] = x
      BY <1>2, <2>2 DEF Enumerates
    <3> QED BY <1>3, <1>4, <3>1
  <2> QED BY <2>1, <2>2
<1> QED BY <1>1, <1>3, <1>6, <1>7, <1>8 DEF Enumerates

\* A list without an element of it.
LEMMA EnumeratesOneLess ==
  ASSUME NEW S, NEW s \in Seq(S), NEW T, NEW e \in T, Enumerates(s, T)
  PROVE  RemoveFirst(s, e) \in Seq(S) /\ Enumerates(RemoveFirst(s, e), T \ {e})
<1> DEFINE I == {i \in 1..Len(s) : s[i] = e}
<1>0. PICK n \in Nat : n = Len(s)
  OBVIOUS
<1>1. PICK k \in 1..n : s[k] = e
  BY <1>0 DEF Enumerates
<1>2. \A i, j \in 1..n : s[i] = s[j] => i = j
  BY <1>0 DEF Enumerates
<1>3. I = {k}
  BY <1>0, <1>1, <1>2
<1>4. RemoveFirst(s, e) = RemoveAt(s, IF I # {} THEN Min(I) ELSE 0)
  <2>1. \E i \in 1..Len(s) : s[i] = e
    BY <1>0, <1>1
  <2> QED BY <2>1 DEF RemoveFirst, SelectInSeq
<1>5. Min(I) = k
  BY <1>3 DEF Min
<1>6. RemoveFirst(s, e) = SubSeq(s, 1, k - 1) \o SubSeq(s, k + 1, Len(s))
  BY <1>3, <1>4, <1>5 DEF RemoveAt
<1> HIDE DEF I
<1>7. PICK x : x = SubSeq(s, 1, k - 1)
  OBVIOUS
<1>8. PICK y : y = SubSeq(s, k + 1, Len(s))
  OBVIOUS
<1>9. x \in Seq(S) /\ Len(x) = k - 1 /\ \A i \in 1..(k - 1) : x[i] = s[i]
  BY <1>0, <1>1, <1>7
<1>10. y \in Seq(S) /\ Len(y) = n - k /\ \A i \in 1..(n - k) : y[i] = s[k + i]
  <2>1. y = SubSeq(s, k + 1, n) /\ \A i \in (k + 1)..n : s[i] \in S
    BY <1>0, <1>1, <1>8
  <2>2. /\ y \in Seq(S)
        /\ Len(y) = IF k + 1 <= n THEN n - (k + 1) + 1 ELSE 0
        /\ \A i \in 1..(n - (k + 1) + 1) : y[i] = s[(k + 1) + i - 1]
    BY <1>1, <2>1, SubSeqProperties
  <2>3. n - (k + 1) + 1 = n - k /\ \A i \in 1..(n - k) : (k + 1) + i - 1 = k + i
    BY <1>1
  <2>4. Len(y) = n - k
    BY <1>1, <2>2, <2>3
  <2>5. ASSUME NEW i \in 1..(n - k) PROVE y[i] = s[k + i]
    <3>1. i \in 1..(n - (k + 1) + 1) /\ (k + 1) + i - 1 = k + i
      BY <2>3
    <3> QED BY <2>2, <3>1
  <2> QED BY <2>2, <2>4, <2>5
<1>11. PICK r : r = x \o y
  OBVIOUS
<1>12. /\ r \in Seq(S) /\ Len(r) = Len(x) + Len(y)
       /\ \A i \in 1..(Len(x) + Len(y)) : r[i] = IF i <= Len(x) THEN x[i] ELSE y[i - Len(x)]
  BY <1>9, <1>10, <1>11, ConcatProperties
<1>13. Len(r) = n - 1
  BY <1>9, <1>10, <1>12
<1>14. \A i \in 1..(n - 1) : r[i] = IF i < k THEN s[i] ELSE s[i + 1]
  <2> SUFFICES ASSUME NEW i \in 1..(n - 1) PROVE r[i] = IF i < k THEN s[i] ELSE s[i + 1]
    OBVIOUS
  <2>0. i \in 1..(Len(x) + Len(y)) /\ k \in Int /\ i \in Int
    BY <1>9, <1>10
  <2>1. r[i] = IF i <= Len(x) THEN x[i] ELSE y[i - Len(x)]
    BY <1>12, <2>0
  <2>2. CASE i < k
    BY <1>9, <2>0, <2>1, <2>2
  <2>3. CASE i >= k
    <3>1. i - (k - 1) \in 1..(n - k) /\ k + (i - (k - 1)) = i + 1
      BY <2>3
    <3>2. r[i] = y[i - (k - 1)]
      BY <1>9, <2>0, <2>1, <2>3
    <3>3. y[i - (k - 1)] = s[i + 1]
      BY <1>10, <3>1
    <3> QED BY <2>0, <2>3, <3>2, <3>3
  <2> QED BY <2>0, <2>2, <2>3
<1>15. \A i \in 1..(n - 1) : \E j \in 1..n : j # k /\ s[j] = r[i] /\ j = (IF i < k THEN i ELSE i + 1)
  <2> SUFFICES ASSUME NEW i \in 1..(n - 1)
               PROVE  \E j \in 1..n : j # k /\ s[j] = r[i] /\ j = (IF i < k THEN i ELSE i + 1)
    OBVIOUS
  <2>1. PICK j \in 1..n : j = (IF i < k THEN i ELSE i + 1)
    OBVIOUS
  <2>2. j # k
    BY <2>1
  <2> QED BY <1>14, <2>1, <2>2
<1>16. \A i \in 1..(n - 1) : r[i] \in T \ {e}
  <2> SUFFICES ASSUME NEW i \in 1..(n - 1) PROVE r[i] \in T \ {e}
    OBVIOUS
  <2>1. PICK j \in 1..n : j # k /\ s[j] = r[i]
    BY <1>15
  <2>2. s[j] \in T
    BY <1>0 DEF Enumerates
  <2> QED BY <1>1, <1>2, <2>1, <2>2
<1>17. ASSUME NEW i \in 1..(n - 1), NEW j \in 1..(n - 1), r[i] = r[j] PROVE i = j
  <2>1. PICK u \in 1..n : u # k /\ s[u] = r[i] /\ u = (IF i < k THEN i ELSE i + 1)
    BY <1>15
  <2>2. PICK v \in 1..n : v # k /\ s[v] = r[j] /\ v = (IF j < k THEN j ELSE j + 1)
    BY <1>15
  <2>3. u = v
    BY <1>2, <1>17, <2>1, <2>2
  <2>4. u = (IF i < k THEN i ELSE i + 1) /\ u = (IF j < k THEN j ELSE j + 1)
    BY <2>1, <2>2, <2>3
  <2> QED BY <2>4
<1>18. ASSUME NEW g \in T \ {e} PROVE \E i \in 1..(n - 1) : r[i] = g
  <2>1. PICK j \in 1..n : s[j] = g
    BY <1>0 DEF Enumerates
  <2>2. j # k
    BY <1>1, <2>1
  <2>3. PICK i \in 1..(n - 1) : i = (IF j < k THEN j ELSE j - 1)
    BY <2>2
  <2>4. r[i] = IF i < k THEN s[i] ELSE s[i + 1]
    BY <1>14
  <2>5. j = IF i < k THEN i ELSE i + 1
    BY <2>2, <2>3
  <2> QED BY <2>1, <2>4, <2>5
<1>19. RemoveFirst(s, e) = r
  BY <1>6, <1>7, <1>8, <1>11
<1> QED BY <1>12, <1>13, <1>16, <1>17, <1>18, <1>19 DEF Enumerates

\* A loop that keeps the elements of a set keeps all of the list that has no others.
LEMMA EnumeratesAmong ==
  ASSUME NEW S, NEW s \in Seq(S), NEW T, NEW U, Enumerates(s, T), T \subseteq U
  PROVE  Among(s, U) \in Seq(S) /\ Enumerates(Among(s, U), T)
<1>1. PICK q : q = Among(s, U)
  OBVIOUS
<1>2. q \in Seq(S) /\ KeptOf(s, U, Len(s), q)
  BY <1>1, AmongFacts
<1>3. /\ \A j \in 1..Len(q) : q[j] \in U /\ \E i \in 1..Len(s) : s[i] = q[j]
      /\ \A i \in 1..Len(s) : s[i] \in U => \E j \in 1..Len(q) : q[j] = s[i]
      /\ (\A i, j \in 1..Len(s) : s[i] = s[j] => i = j) => \A i, j \in 1..Len(q) : q[i] = q[j] => i = j
  BY <1>2 DEF KeptOf
<1>4. \A j \in 1..Len(q) : q[j] \in T
  BY <1>3 DEF Enumerates
<1>5. \A i, j \in 1..Len(q) : q[i] = q[j] => i = j
  BY <1>3 DEF Enumerates
<1>6. ASSUME NEW e \in T PROVE \E j \in 1..Len(q) : q[j] = e
  <2>1. PICK i \in 1..Len(s) : s[i] = e
    BY DEF Enumerates
  <2> QED BY <1>3, <2>1
<1> QED BY <1>1, <1>2, <1>4, <1>5, <1>6 DEF Enumerates
-------------------------------------------------------------------------------
(* The handoff client and its agents *)

\* The handoffs that are pending for an agent.
PendingFor(a) == {h \in SharedIds : Pending(h) /\ offers[h].to = a}

\* The list the client keeps for an agent has its pending handoffs, each once.
OfferInv ==
  /\ offers \in [SharedIds -> Offers \cup {NoOffer}]
  /\ listed \in [SharedAgents -> Seq(SharedIds)] /\ forgotten \subseteq SharedIds
  /\ \A h \in SharedIds : Offered(h) => h \notin forgotten
  /\ \A a \in SharedAgents : Enumerates(listed[a], PendingFor(a))

\* No handoff is offered.
LEMMA InitOffers == OfferInit => OfferInv
<1> SUFFICES ASSUME OfferInit PROVE OfferInv
  OBVIOUS
<1>1. <<>> \in Seq(SharedIds) /\ Len(<<>>) = 0
  OBVIOUS
<1>2. \A a \in SharedAgents : PendingFor(a) = {} /\ listed[a] = <<>>
  BY DEF OfferInit, PendingFor, Pending, Offered
<1>3. \A a \in SharedAgents : Enumerates(listed[a], PendingFor(a))
  BY <1>1, <1>2 DEF Enumerates
<1> QED BY <1>1, <1>3 DEF OfferInit, OfferInv, Offered

\* An offer that is there is one.
LEMMA OfferedIsOffer ==
  ASSUME OfferInv, NEW h \in SharedIds, Offered(h)
  PROVE  offers[h] \in Offers /\ offers[h].to \in SharedAgents /\ offers[h].status \in OfferStatus
<1>1. offers[h] \in Offers
  BY DEF OfferInv, Offered
<1> QED BY <1>1 DEF Offers

\* What an agent is shown: its pending handoffs, each once.
LEMMA Shown ==
  ASSUME OfferInv, NEW a \in SharedAgents
  PROVE  /\ get_pending_handoffs(a) \in Seq(SharedIds)
         /\ Enumerates(get_pending_handoffs(a), PendingFor(a))
<1>1. PICK T : T = {h \in SharedIds : Pending(h)}
  OBVIOUS
<1>2. get_pending_handoffs(a) = Among(listed[a], T)
  BY <1>1 DEF get_pending_handoffs, Among
<1>3. listed[a] \in Seq(SharedIds) /\ Enumerates(listed[a], PendingFor(a)) /\ PendingFor(a) \subseteq T
  BY <1>1 DEF OfferInv, PendingFor
<1> QED BY <1>2, <1>3, EnumeratesAmong

\* The methods keep it.
LEMMA OfferStep == OfferInv /\ [OfferNext]_offerVars => OfferInv'
<1> SUFFICES ASSUME OfferInv, [OfferNext]_offerVars PROVE OfferInv'
  OBVIOUS
<1>0. NoOffer \notin Offers
  BY OfferAssumption
<1>1. ASSUME NEW h \in SharedIds, NEW a \in SharedAgents, request_handoff(h, a) PROVE OfferInv'
  <2>1. PICK e : e = [to |-> a, status |-> "PENDING"]
    OBVIOUS
  <2>2. e \in Offers /\ e.to = a /\ e.status = "PENDING" /\ e # NoOffer
    BY <1>0, <2>1 DEF Offers, OfferStatus
  <2>3. /\ offers' = [offers EXCEPT ![h] = e] /\ listed' = [listed EXCEPT ![a] = Append(listed[a], h)]
        /\ forgotten' = forgotten /\ offers[h] = NoOffer /\ h \notin forgotten
    BY <1>1, <2>1 DEF request_handoff, Offered
  <2>4. /\ offers' \in [SharedIds -> Offers \cup {NoOffer}]
        /\ offers'[h] = e /\ \A g \in SharedIds : g # h => offers'[g] = offers[g]
    BY <2>2, <2>3 DEF OfferInv
  <2>5. ~Pending(h) /\ Pending(h)' /\ \A g \in SharedIds : g # h => (Pending(g)' <=> Pending(g))
    BY <2>2, <2>3, <2>4 DEF Pending, Offered
  <2>6. PendingFor(a)' = PendingFor(a) \cup {h} /\ h \notin PendingFor(a)
    BY <2>2, <2>4, <2>5 DEF PendingFor
  <2>7. \A b \in SharedAgents : b # a => PendingFor(b)' = PendingFor(b)
    BY <2>2, <2>4, <2>5 DEF PendingFor
  <2>8. listed[a] \in Seq(SharedIds) /\ Enumerates(listed[a], PendingFor(a))
    BY DEF OfferInv
  <2>9. /\ Append(listed[a], h) \in Seq(SharedIds)
        /\ Enumerates(Append(listed[a], h), PendingFor(a) \cup {h})
    BY <2>6, <2>8, EnumeratesOneMore
  <2>10. /\ listed' \in [SharedAgents -> Seq(SharedIds)] /\ listed'[a] = Append(listed[a], h)
         /\ \A b \in SharedAgents : b # a => listed'[b] = listed[b]
    BY <2>3, <2>9 DEF OfferInv
  <2>11. \A b \in SharedAgents : Enumerates(listed'[b], PendingFor(b)')
    BY <2>6, <2>7, <2>9, <2>10 DEF OfferInv
  <2>12. \A g \in SharedIds : Offered(g)' => g \notin forgotten'
    BY <2>3, <2>4 DEF OfferInv, Offered
  <2>13. forgotten' \subseteq SharedIds
    BY <2>3 DEF OfferInv
  <2> QED BY <2>4, <2>10, <2>11, <2>12, <2>13 DEF OfferInv
<1>2. ASSUME NEW h \in SharedIds, NEW status \in {"ACCEPTED", "REJECTED"}, answer_handoff(h, status)
      PROVE  OfferInv'
  <2>1. PICK e : e = [offers[h] EXCEPT !.status = status]
    OBVIOUS
  <2>2. Pending(h) /\ Offered(h) /\ offers[h] \in Offers
    BY <1>2, OfferedIsOffer DEF answer_handoff, Pending
  <2>3. PICK a \in SharedAgents : a = offers[h].to
    BY <2>2 DEF Offers
  <2>4. e \in Offers /\ e.to = a /\ e.status = status /\ e # NoOffer
    BY <1>0, <2>1, <2>2, <2>3 DEF Offers, OfferStatus
  <2>5. /\ offers' = [offers EXCEPT ![h] = e] /\ forgotten' = forgotten
        /\ listed' = [listed EXCEPT ![a] = RemoveFirst(listed[a], h)]
    BY <1>2, <2>1, <2>3 DEF answer_handoff, WithOfferStatus
  <2>6. /\ offers' \in [SharedIds -> Offers \cup {NoOffer}]
        /\ offers'[h] = e /\ \A g \in SharedIds : g # h => offers'[g] = offers[g]
    BY <2>4, <2>5 DEF OfferInv
  <2>7. ~Pending(h)' /\ \A g \in SharedIds : g # h => (Pending(g)' <=> Pending(g))
    BY <1>2, <2>4, <2>6 DEF Pending, Offered
  <2>8. PendingFor(a)' = PendingFor(a) \ {h} /\ h \in PendingFor(a)
    BY <2>2, <2>3, <2>6, <2>7 DEF PendingFor
  <2>9. \A b \in SharedAgents : b # a => PendingFor(b)' = PendingFor(b)
    BY <2>3, <2>6, <2>7 DEF PendingFor
  <2>10. listed[a] \in Seq(SharedIds) /\ Enumerates(listed[a], PendingFor(a))
    BY DEF OfferInv
  <2>11. /\ RemoveFirst(listed[a], h) \in Seq(SharedIds)
         /\ Enumerates(RemoveFirst(listed[a], h), PendingFor(a) \ {h})
    BY <2>8, <2>10, EnumeratesOneLess
  <2>12. /\ listed' \in [SharedAgents -> Seq(SharedIds)] /\ listed'[a] = RemoveFirst(listed[a], h)
         /\ \A b \in SharedAgents : b # a => listed'[b] = listed[b]
    BY <2>5, <2>11 DEF OfferInv
  <2>13. \A b \in SharedAgents : Enumerates(listed'[b], PendingFor(b)')
    BY <2>8, <2>9, <2>11, <2>12 DEF OfferInv
  <2>14. \A g \in SharedIds : Offered(g)' => g \notin forgotten'
    BY <2>2, <2>5, <2>6 DEF OfferInv, Offered
  <2>15. forgotten' \subseteq SharedIds
    BY <2>5 DEF OfferInv
  <2> QED BY <2>6, <2>12, <2>13, <2>14, <2>15 DEF OfferInv
<1>3. ASSUME NEW h \in SharedIds, complete_handoff(h) PROVE OfferInv'
  <2>1. PICK e : e = [offers[h] EXCEPT !.status = "COMPLETED"]
    OBVIOUS
  <2>2. offers[h] \in Offers /\ offers[h].status = "ACCEPTED" /\ Offered(h)
    BY <1>3, OfferedIsOffer DEF complete_handoff, Completable, Accepted
  <2>3. e \in Offers /\ e.status = "COMPLETED" /\ e # NoOffer
    BY <1>0, <2>1, <2>2 DEF Offers, OfferStatus
  <2>4. offers' = [offers EXCEPT ![h] = e] /\ listed' = listed /\ forgotten' = forgotten
    BY <1>3, <2>1 DEF complete_handoff, WithOfferStatus
  <2>5. /\ offers' \in [SharedIds -> Offers \cup {NoOffer}]
        /\ offers'[h] = e /\ \A g \in SharedIds : g # h => offers'[g] = offers[g]
    BY <2>3, <2>4 DEF OfferInv
  <2>6. ~Pending(h) /\ ~Pending(h)' /\ \A g \in SharedIds : g # h => (Pending(g)' <=> Pending(g))
    BY <2>2, <2>3, <2>5 DEF Pending, Offered
  <2>7. \A a \in SharedAgents : PendingFor(a)' = PendingFor(a)
    BY <2>5, <2>6 DEF PendingFor
  <2>8. \A b \in SharedAgents : Enumerates(listed'[b], PendingFor(b)')
    BY <2>4, <2>7 DEF OfferInv
  <2>9. \A g \in SharedIds : Offered(g)' => g \notin forgotten'
    BY <2>2, <2>4, <2>5 DEF OfferInv, Offered
  <2>10. forgotten' \subseteq SharedIds /\ listed' \in [SharedAgents -> Seq(SharedIds)]
    BY <2>4 DEF OfferInv
  <2> QED BY <2>5, <2>8, <2>9, <2>10 DEF OfferInv
<1>4. CASE clear_all_handoffs
  <2>1. /\ \A h \in SharedIds : offers'[h] = NoOffer
        /\ offers' \in [SharedIds -> Offers \cup {NoOffer}] /\ forgotten' \subseteq SharedIds
        /\ \A a \in SharedAgents : listed'[a] = <<>>
    BY <1>4 DEF clear_all_handoffs, OfferInv
  <2>2. <<>> \in Seq(SharedIds) /\ Len(<<>>) = 0
    OBVIOUS
  <2>3. listed' \in [SharedAgents -> Seq(SharedIds)]
    BY <1>4, <2>2 DEF clear_all_handoffs
  <2>4. \A h \in SharedIds : ~Offered(h)' /\ ~Pending(h)'
    BY <2>1 DEF Offered, Pending
  <2>5. \A a \in SharedAgents : PendingFor(a)' = {}
    BY <2>4 DEF PendingFor
  <2>6. \A a \in SharedAgents : Enumerates(listed'[a], PendingFor(a)')
    BY <2>1, <2>2, <2>5 DEF Enumerates
  <2> QED BY <2>1, <2>3, <2>4, <2>6 DEF OfferInv
<1>5. CASE UNCHANGED offerVars
  <2>1. \A a \in SharedAgents : PendingFor(a)' = PendingFor(a)
    BY <1>5 DEF offerVars, PendingFor, Pending, Offered
  <2>2. \A h \in SharedIds : Offered(h)' <=> Offered(h)
    BY <1>5 DEF offerVars, Offered
  <2> QED BY <1>5, <2>1, <2>2 DEF offerVars, OfferInv
<1>6. ASSUME NEW h \in SharedIds, accept_handoff(h) \/ reject_handoff(h) PROVE OfferInv'
  <2>1. answer_handoff(h, "ACCEPTED") \/ answer_handoff(h, "REJECTED")
    BY <1>6 DEF accept_handoff, reject_handoff
  <2> QED BY <1>2, <2>1
<1> QED BY <1>1, <1>3, <1>4, <1>5, <1>6 DEF OfferNext

\* The client's type invariant follows: the list has what an agent is shown.
LEMMA OfferInvType == OfferInv => OfferTypeOK
<1> SUFFICES ASSUME OfferInv PROVE OfferTypeOK
  OBVIOUS
<1>1. ASSUME NEW a \in SharedAgents
      PROVE  /\ IsInjective(get_pending_handoffs(a))
             /\ ToSet(get_pending_handoffs(a)) = {h \in SharedIds : Pending(h) /\ offers[h].to = a}
  <2>1. PICK q : q = get_pending_handoffs(a)
    OBVIOUS
  <2>2. q \in Seq(SharedIds) /\ Enumerates(q, PendingFor(a)) /\ DOMAIN q = 1..Len(q)
    BY <2>1, Shown
  <2>3. IsInjective(q)
    BY <2>2 DEF IsInjective, Enumerates
  <2>4. ToSet(q) = PendingFor(a)
    BY <2>2 DEF ToSet, Enumerates
  <2> QED BY <2>1, <2>3, <2>4 DEF PendingFor
<1> QED BY <1>1 DEF OfferTypeOK, OfferInv

\* Every call of the client is a step of the protocol or leaves each stage as it is.
LEMMA OfferStepFollows ==
  OfferInv /\ [OfferNext]_offerVars => [Protocol!Next]_([h \in SharedIds |-> Stage(h)])
<1> SUFFICES ASSUME OfferInv, [OfferNext]_offerVars
             PROVE  [Protocol!Next]_([h \in SharedIds |-> Stage(h)])
  OBVIOUS
<1> DEFINE st == [h \in SharedIds |-> Stage(h)]
<1>0. NoOffer \notin Offers
  BY OfferAssumption
<1>a. \A h \in SharedIds : Offered(h) => h \notin forgotten
  BY DEF OfferInv
<1>b. /\ offers \in [SharedIds -> Offers \cup {NoOffer}]
      /\ \A h \in SharedIds : Offered(h) => offers[h] \in Offers
  BY DEF OfferInv, Offered
<1>1. ASSUME NEW h \in SharedIds, NEW e \in Offers, offers' = [offers EXCEPT ![h] = e],
             forgotten' = forgotten, h \notin forgotten
      PROVE  st' = [st EXCEPT ![h] = e.status]
  <2>1. offers'[h] = e /\ \A g \in SharedIds : g # h => offers'[g] = offers[g]
    BY <1>1, <1>b
  <2>2. Stage(h)' = e.status
    BY <1>0, <1>1, <2>1 DEF Stage, Offered
  <2>3. \A g \in SharedIds : g # h => Stage(g)' = Stage(g)
    BY <1>1, <2>1 DEF Stage, Offered
  <2> QED BY <2>2, <2>3
<1>2. ASSUME NEW h \in SharedIds, NEW a \in SharedAgents, request_handoff(h, a)
      PROVE  Protocol!Moves("none", "PENDING")
  <2>1. PICK e \in Offers : e = [to |-> a, status |-> "PENDING"]
    BY DEF Offers, OfferStatus
  <2>2. offers' = [offers EXCEPT ![h] = e] /\ forgotten' = forgotten /\ h \notin forgotten
    BY <1>2, <2>1 DEF request_handoff
  <2>3. st' = [st EXCEPT ![h] = "PENDING"]
    BY <1>1, <2>1, <2>2
  <2>4. st[h] = "none"
    BY <1>2 DEF request_handoff, Stage
  <2> QED BY <2>3, <2>4 DEF Protocol!Moves
<1>3. ASSUME NEW h \in SharedIds, NEW status \in {"ACCEPTED", "REJECTED"}, answer_handoff(h, status)
      PROVE  Protocol!Moves("PENDING", status)
  <2>1. Offered(h) /\ offers[h].status = "PENDING" /\ offers[h] \in Offers /\ h \notin forgotten
    BY <1>3, <1>a, <1>b DEF answer_handoff, Pending
  <2>2. PICK e : e = [offers[h] EXCEPT !.status = status]
    OBVIOUS
  <2>3. e \in Offers /\ e.status = status
    BY <2>1, <2>2 DEF Offers, OfferStatus
  <2>4. offers' = [offers EXCEPT ![h] = e] /\ forgotten' = forgotten
    BY <1>3, <2>2 DEF answer_handoff, WithOfferStatus
  <2>5. st' = [st EXCEPT ![h] = status]
    BY <1>1, <2>1, <2>3, <2>4
  <2>6. st[h] = "PENDING"
    BY <2>1 DEF Stage
  <2> QED BY <2>5, <2>6 DEF Protocol!Moves
<1>4. ASSUME NEW h \in SharedIds, complete_handoff(h)
      PROVE  Protocol!Moves("ACCEPTED", "COMPLETED")
  <2>1. Offered(h) /\ offers[h].status = "ACCEPTED" /\ offers[h] \in Offers /\ h \notin forgotten
    BY <1>4, <1>a, <1>b DEF complete_handoff, Completable, Accepted
  <2>2. PICK e : e = [offers[h] EXCEPT !.status = "COMPLETED"]
    OBVIOUS
  <2>3. e \in Offers /\ e.status = "COMPLETED"
    BY <2>1, <2>2 DEF Offers, OfferStatus
  <2>4. offers' = [offers EXCEPT ![h] = e] /\ forgotten' = forgotten
    BY <1>4, <2>2 DEF complete_handoff, WithOfferStatus
  <2>5. st' = [st EXCEPT ![h] = "COMPLETED"]
    BY <1>1, <2>1, <2>3, <2>4
  <2>6. st[h] = "ACCEPTED"
    BY <2>1 DEF Stage
  <2> QED BY <2>5, <2>6 DEF Protocol!Moves
<1>5. CASE clear_all_handoffs
  <2>1. /\ \A h \in SharedIds : offers'[h] = NoOffer
        /\ forgotten' = forgotten \cup {h \in SharedIds : Offered(h)}
    BY <1>5 DEF clear_all_handoffs
  <2>2. ASSUME NEW h \in SharedIds
        PROVE  Stage(h)' = IF Stage(h) = "none" THEN "none" ELSE "forgotten"
    <3>1. CASE h \in forgotten
      BY <2>1, <3>1 DEF Stage
    <3>2. CASE Offered(h)
      <4>1. h \in forgotten' /\ offers[h].status \in OfferStatus /\ h \notin forgotten
        BY <1>a, <1>b, <2>1, <3>2 DEF Offers
      <4> QED BY <3>2, <4>1 DEF Stage, OfferStatus
    <3>3. CASE h \notin forgotten /\ ~Offered(h)
      BY <2>1, <3>3 DEF Stage, Offered
    <3> QED BY <3>1, <3>2, <3>3
  <2>3. st' = [h \in SharedIds |-> IF st[h] = "none" THEN "none" ELSE "forgotten"]
    BY <2>2
  <2>4. Protocol!Forgets
    BY <2>3 DEF Protocol!Forgets
  <2> QED BY <2>4 DEF Protocol!Next
<1>6. CASE UNCHANGED offerVars
  <2>1. st' = st
    BY <1>6 DEF offerVars, Stage, Offered
  <2> QED BY <2>1
<1>7. ASSUME NEW h \in SharedIds, accept_handoff(h) \/ reject_handoff(h) PROVE Protocol!Next
  <2>1. answer_handoff(h, "ACCEPTED") \/ answer_handoff(h, "REJECTED")
    BY <1>7 DEF accept_handoff, reject_handoff
  <2>2. Protocol!Moves("PENDING", "ACCEPTED") \/ Protocol!Moves("PENDING", "REJECTED")
    BY <1>3, <2>1
  <2> QED BY <2>2 DEF Protocol!Next
<1> QED BY <1>2, <1>4, <1>5, <1>6, <1>7 DEF OfferNext, Protocol!Next

\* No handoff has left the stage before the first.
LEMMA OfferInitFollows == OfferInit => Protocol!Init
BY DEF OfferInit, Protocol!Init, Stage, Offered

\* What becomes of an offer: it stays with its agent, one that was accepted stays accepted or
\* is completed, or all are forgotten.
OffersStay ==
  /\ forgotten \subseteq forgotten'
  /\ \A h \in SharedIds : Offered(h) =>
       \/ h \in forgotten'
       \/ /\ Offered(h)' /\ offers'[h].to = offers[h].to
          /\ offers[h].status \in {"ACCEPTED", "COMPLETED"}
             => offers'[h].status \in {"ACCEPTED", "COMPLETED"}

LEMMA OffersStayStep == OfferInv /\ [OfferNext]_offerVars => OffersStay
<1> SUFFICES ASSUME OfferInv, [OfferNext]_offerVars PROVE OffersStay
  OBVIOUS
<1>0. NoOffer \notin Offers /\ offers \in [SharedIds -> Offers \cup {NoOffer}]
  BY OfferAssumption DEF OfferInv
<1>1. ASSUME NEW h \in SharedIds, NEW e \in Offers, offers' = [offers EXCEPT ![h] = e],
             forgotten' = forgotten,
             Offered(h) => /\ e.to = offers[h].to
                           /\ e.status = "COMPLETED" \/ offers[h].status = "PENDING"
      PROVE  OffersStay
  <2>1. offers'[h] = e /\ \A g \in SharedIds : g # h => offers'[g] = offers[g]
    BY <1>0, <1>1
  <2>2. ASSUME NEW g \in SharedIds, Offered(g)
        PROVE  /\ Offered(g)' /\ offers'[g].to = offers[g].to
               /\ offers[g].status \in {"ACCEPTED", "COMPLETED"}
                  => offers'[g].status \in {"ACCEPTED", "COMPLETED"}
    <3>1. CASE g = h
      BY <1>0, <1>1, <2>1, <2>2, <3>1 DEF Offered
    <3>2. CASE g # h
      BY <2>1, <2>2, <3>2 DEF Offered
    <3> QED BY <3>1, <3>2
  <2> QED BY <1>1, <2>2 DEF OffersStay
<1>2. ASSUME NEW h \in SharedIds, NEW a \in SharedAgents, request_handoff(h, a) PROVE OffersStay
  <2>1. PICK e \in Offers : e = [to |-> a, status |-> "PENDING"]
    BY DEF Offers, OfferStatus
  <2>2. offers' = [offers EXCEPT ![h] = e] /\ forgotten' = forgotten /\ ~Offered(h)
    BY <1>2, <2>1 DEF request_handoff
  <2> QED BY <1>1, <2>2
<1>3. ASSUME NEW h \in SharedIds, NEW status \in OfferStatus, WithOfferStatus(h, status),
             Offered(h), status = "COMPLETED" \/ Pending(h), forgotten' = forgotten
      PROVE  OffersStay
  <2>1. offers[h] \in Offers
    BY <1>3, OfferedIsOffer
  <2>2. PICK e : e = [offers[h] EXCEPT !.status = status]
    OBVIOUS
  <2>3. e \in Offers /\ e.status = status /\ e.to = offers[h].to
    BY <2>1, <2>2 DEF Offers
  <2>4. offers' = [offers EXCEPT ![h] = e]
    BY <1>3, <2>2 DEF WithOfferStatus
  <2> QED BY <1>1, <1>3, <2>3, <2>4 DEF Pending
<1>4. ASSUME NEW h \in SharedIds, accept_handoff(h) \/ reject_handoff(h) PROVE OffersStay
  <2>1. PICK status \in OfferStatus : answer_handoff(h, status)
    BY <1>4 DEF accept_handoff, reject_handoff, OfferStatus
  <2> QED BY <1>3, <2>1 DEF answer_handoff, Pending
<1>5. ASSUME NEW h \in SharedIds, complete_handoff(h) PROVE OffersStay
  BY <1>3, <1>5 DEF complete_handoff, Completable, Accepted, OfferStatus
<1>6. CASE clear_all_handoffs
  BY <1>6 DEF clear_all_handoffs, OffersStay
<1>7. CASE UNCHANGED offerVars
  BY <1>7 DEF offerVars, OffersStay, Offered
<1> QED BY <1>2, <1>4, <1>5, <1>6, <1>7 DEF OfferNext

\* A handoff is accepted only by accepting it.
LEMMA AcceptedBefore ==
  ASSUME OfferInv, NEW h \in SharedIds, Accepted(h)', ~accept_handoff(h), [OfferNext]_offerVars
  PROVE  Accepted(h) /\ offers'[h] = offers[h]
<1>0. NoOffer \notin Offers /\ offers \in [SharedIds -> Offers \cup {NoOffer}]
  BY OfferAssumption DEF OfferInv
<1>1. ASSUME NEW g \in SharedIds, NEW e, offers' = [offers EXCEPT ![g] = e], e.status # "ACCEPTED"
      PROVE  h # g /\ offers'[h] = offers[h]
  BY <1>0, <1>1 DEF Accepted
<1>2. ASSUME NEW g \in SharedIds, NEW a \in SharedAgents, request_handoff(g, a)
      PROVE  offers'[h] = offers[h]
  <2>1. PICK e : e = [to |-> a, status |-> "PENDING"]
    OBVIOUS
  <2>2. e.status # "ACCEPTED"
    BY <2>1
  <2> QED BY <1>1, <1>2, <2>1, <2>2 DEF request_handoff
<1>3. ASSUME NEW g \in SharedIds, NEW status \in OfferStatus, WithOfferStatus(g, status),
             status # "ACCEPTED", Offered(g)
      PROVE  offers'[h] = offers[h]
  <2>1. PICK e : e = [offers[g] EXCEPT !.status = status]
    OBVIOUS
  <2>2. e.status # "ACCEPTED"
    BY <1>3, <2>1, OfferedIsOffer DEF Offers
  <2> QED BY <1>1, <1>3, <2>1, <2>2 DEF WithOfferStatus
<1>4. ASSUME NEW g \in SharedIds, accept_handoff(g) PROVE offers'[h] = offers[h]
  BY <1>0, <1>4 DEF accept_handoff, answer_handoff, WithOfferStatus
<1>5. ASSUME NEW g \in SharedIds, reject_handoff(g) PROVE offers'[h] = offers[h]
  BY <1>3, <1>5 DEF reject_handoff, answer_handoff, OfferStatus, Pending
<1>6. ASSUME NEW g \in SharedIds, complete_handoff(g) PROVE offers'[h] = offers[h]
  BY <1>3, <1>6 DEF complete_handoff, Completable, Accepted, OfferStatus
<1>7. ~clear_all_handoffs
  BY DEF clear_all_handoffs, Accepted, Offered
<1>8. ASSUME UNCHANGED offerVars PROVE offers'[h] = offers[h]
  BY <1>8 DEF offerVars
<1>9. offers'[h] = offers[h]
  BY <1>2, <1>4, <1>5, <1>6, <1>7, <1>8 DEF OfferNext
<1> QED BY <1>9 DEF Accepted, Offered

\* The handoffs that were offered to an agent, and those of them it has accepted.
OfferedTo(a) == {h \in SharedIds : h \in forgotten \/ (Offered(h) /\ offers[h].to = a)}
TakenUpBy(a) ==
  {h \in SharedIds :
     h \in forgotten \/ (Offered(h) /\ offers[h].to = a
                         /\ offers[h].status \in {"ACCEPTED", "COMPLETED"})}

\* What an agent holds: as many handoffs as its load says and no more than it may, which the
\* client has for it, and each readable one that was accepted for it; and what it looks through
\* was offered to it.
AgentsInv ==
  /\ OfferInv
  /\ found \in [SharedAgents -> Seq(SharedIds)]
  /\ active_handoffs \in [SharedAgents -> SUBSET SharedIds] /\ current_load \in [SharedAgents -> Nat]
  /\ \A a \in SharedAgents :
       /\ IsFiniteSet(active_handoffs[a])
       /\ current_load[a] = Cardinality(active_handoffs[a]) /\ current_load[a] <= MaxTasks
       /\ active_handoffs[a] \subseteq TakenUpBy(a) /\ \A h \in active_handoffs[a] : <<a, h>> \in CanDo
       /\ \A i \in 1..Len(found[a]) : found[a][i] \in OfferedTo(a)
  /\ \A h \in SharedIds \ Unreadable : Accepted(h) => h \in active_handoffs[offers[h].to]

\* No agent has anything.
LEMMA InitAgents == HandoffAgentsInit => AgentsInv
<1> SUFFICES ASSUME HandoffAgentsInit PROVE AgentsInv
  OBVIOUS
<1>1. OfferInv
  BY InitOffers DEF HandoffAgentsInit
<1>2. <<>> \in Seq(SharedIds) /\ Len(<<>>) = 0
  OBVIOUS
<1>3. IsFiniteSet({}) /\ Cardinality({}) = 0
  BY FS_EmptySet
<1>4. \A h \in SharedIds : ~Accepted(h)
  BY DEF HandoffAgentsInit, OfferInit, Accepted, Offered
<1> QED BY <1>1, <1>2, <1>3, <1>4, HandoffAgentsAssumption DEF HandoffAgentsInit, AgentsInv

\* What an agent holds stays its own while the client's methods run.
LEMMA HeldStays ==
  ASSUME OffersStay, NEW a \in SharedAgents
  PROVE  OfferedTo(a) \subseteq OfferedTo(a)' /\ TakenUpBy(a) \subseteq TakenUpBy(a)'
BY DEF OffersStay, OfferedTo, TakenUpBy

\* The agents keep it.
LEMMA AgentsStep == AgentsInv /\ [HandoffAgentsNext]_handoffAgentVars => AgentsInv'
<1> SUFFICES ASSUME AgentsInv, [HandoffAgentsNext]_handoffAgentVars PROVE AgentsInv'
  OBVIOUS
<1>0. OfferInv /\ MaxTasks \in Nat
  BY HandoffAgentsAssumption DEF AgentsInv
<1>a. ASSUME [OfferNext]_offerVars, UNCHANGED agentVars, \A h \in SharedIds : ~accept_handoff(h)
      PROVE  AgentsInv'
  <2>1. OfferInv' /\ OffersStay
    BY <1>0, <1>a, OfferStep, OffersStayStep
  <2>2. \A a \in SharedAgents : OfferedTo(a) \subseteq OfferedTo(a)' /\ TakenUpBy(a) \subseteq TakenUpBy(a)'
    BY <2>1, HeldStays
  <2>3. \A h \in SharedIds : Accepted(h)' => Accepted(h) /\ offers'[h] = offers[h]
    BY <1>0, <1>a, AcceptedBefore
  <2>4. \A h \in SharedIds \ Unreadable : Accepted(h)' => h \in active_handoffs'[offers'[h].to]
    BY <1>a, <2>3 DEF AgentsInv, agentVars
  <2> QED BY <1>a, <2>1, <2>2, <2>4 DEF AgentsInv, agentVars
<1>1. ASSUME NEW h \in SharedIds, NEW a \in SharedAgents, request_handoff(h, a), UNCHANGED agentVars
      PROVE  AgentsInv'
  <2>1. OfferNext
    BY <1>1 DEF OfferNext
  <2>2. \A g \in SharedIds : ~accept_handoff(g)
    <3> SUFFICES ASSUME NEW g \in SharedIds, accept_handoff(g) PROVE FALSE
      OBVIOUS
    <3>1. offers \in [SharedIds -> Offers \cup {NoOffer}] /\ NoOffer \notin Offers
      BY <1>0, OfferAssumption DEF OfferInv
    <3>2. offers'[h].status = "PENDING" /\ g # h /\ offers'[g] = offers[g]
      BY <1>1, <3>1 DEF request_handoff, accept_handoff, answer_handoff, Pending
    <3>3. offers'[g].status = "ACCEPTED" /\ offers[g].status = "PENDING"
      <4>1. offers[g] \in Offers /\ offers' = [offers EXCEPT ![g].status = "ACCEPTED"]
        BY <3>1 DEF accept_handoff, answer_handoff, WithOfferStatus, Pending, Offered
      <4>2. offers[g].status = "PENDING"
        BY DEF accept_handoff, answer_handoff, Pending
      <4> QED BY <3>1, <4>1, <4>2 DEF Offers
    <3> QED BY <3>2, <3>3
  <2> QED BY <1>1, <1>a, <2>1, <2>2
<1>2. ASSUME NEW h \in SharedIds, NEW a \in SharedAgents, agent_completes(a, h) PROVE AgentsInv'
  <2>1. complete_handoff(h) /\ found' = found
    BY <1>2 DEF agent_completes
  <2>2. [OfferNext]_offerVars
    BY <2>1 DEF OfferNext
  <2>3. OfferInv' /\ OffersStay
    BY <1>0, <2>2, OfferStep, OffersStayStep
  <2>4. \A g \in SharedIds : Accepted(g)' => g # h /\ offers'[g] = offers[g] /\ Accepted(g)
    <3>1. offers \in [SharedIds -> Offers \cup {NoOffer}] /\ NoOffer \notin Offers
      BY <1>0, OfferAssumption DEF OfferInv
    <3>2. offers[h] \in Offers /\ offers' = [offers EXCEPT ![h].status = "COMPLETED"]
      BY <2>1, <3>1 DEF complete_handoff, WithOfferStatus, Completable, Accepted, Offered
    <3>3. offers'[h].status = "COMPLETED" /\ \A g \in SharedIds : g # h => offers'[g] = offers[g]
      BY <3>1, <3>2 DEF Offers
    <3> QED BY <3>3 DEF Accepted, Offered
  <2>5. \A b \in SharedAgents : OfferedTo(b) \subseteq OfferedTo(b)' /\ TakenUpBy(b) \subseteq TakenUpBy(b)'
    BY <2>3, HeldStays
  <2>6. CASE h \in active_handoffs[a]
    <3>1. PICK S : S = active_handoffs[a] \ {h}
      OBVIOUS
    <3>2. /\ active_handoffs' = [active_handoffs EXCEPT ![a] = S]
          /\ current_load' = [current_load EXCEPT ![a] = current_load[a] - 1]
      BY <1>2, <2>6, <3>1 DEF agent_completes, LessLoad
    <3>3. IsFiniteSet(active_handoffs[a]) /\ current_load[a] = Cardinality(active_handoffs[a])
      BY DEF AgentsInv
    <3>4. IsFiniteSet(S) /\ Cardinality(S) = current_load[a] - 1
      BY <2>6, <3>1, <3>3, FS_RemoveElement
    <3>5. Cardinality(S) \in Nat
      BY <3>4, FS_CardinalityType
    <3>6. /\ active_handoffs' \in [SharedAgents -> SUBSET SharedIds]
          /\ active_handoffs'[a] = S /\ S \subseteq active_handoffs[a]
          /\ \A b \in SharedAgents : b # a => active_handoffs'[b] = active_handoffs[b]
      BY <3>1, <3>2 DEF AgentsInv
    <3>7. /\ current_load' \in [SharedAgents -> Nat] /\ current_load'[a] = current_load[a] - 1
          /\ \A b \in SharedAgents : b # a => current_load'[b] = current_load[b]
      BY <3>2, <3>4, <3>5 DEF AgentsInv
    <3>8. \A b \in SharedAgents :
            /\ IsFiniteSet(active_handoffs'[b])
            /\ current_load'[b] = Cardinality(active_handoffs'[b]) /\ current_load'[b] <= MaxTasks
      <4> SUFFICES ASSUME NEW b \in SharedAgents
                   PROVE  /\ IsFiniteSet(active_handoffs'[b])
                          /\ current_load'[b] = Cardinality(active_handoffs'[b])
                          /\ current_load'[b] <= MaxTasks
        OBVIOUS
      <4>1. current_load[b] <= MaxTasks /\ current_load[b] \in Nat /\ current_load[a] \in Nat
        BY DEF AgentsInv
      <4>2. CASE b = a
        BY <1>0, <3>4, <3>6, <3>7, <4>1, <4>2
      <4>3. CASE b # a
        BY <3>6, <3>7, <4>1, <4>3 DEF AgentsInv
      <4> QED BY <4>2, <4>3
    <3>9. \A b \in SharedAgents : active_handoffs'[b] \subseteq active_handoffs[b] /\ active_handoffs[b] \subseteq TakenUpBy(b)
      BY <3>6 DEF AgentsInv
    <3>10. \A b \in SharedAgents : \A g \in active_handoffs[b] : <<b, g>> \in CanDo
      BY DEF AgentsInv
    <3>11. ASSUME NEW g \in SharedIds \ Unreadable, Accepted(g)'
           PROVE  g \in active_handoffs'[offers'[g].to]
      <4>1. g # h /\ g \in active_handoffs[offers[g].to] /\ offers'[g] = offers[g]
        BY <2>4, <3>11 DEF AgentsInv
      <4>2. offers[g].to \in SharedAgents
        BY <1>0, <2>4, <3>11, OfferedIsOffer DEF Accepted
      <4> QED BY <3>1, <3>6, <4>1, <4>2
    <3>12. found' \in [SharedAgents -> Seq(SharedIds)]
      BY <2>1 DEF AgentsInv
    <3> QED BY <2>1, <2>3, <2>5, <3>6, <3>7, <3>8, <3>9, <3>10, <3>11, <3>12 DEF AgentsInv
  <2>7. CASE h \notin active_handoffs[a]
    <3>1. active_handoffs' = active_handoffs /\ current_load' = current_load
      BY <1>2, <2>7 DEF agent_completes
    <3>2. \A g \in SharedIds \ Unreadable : Accepted(g)' => g \in active_handoffs'[offers'[g].to]
      BY <2>4, <3>1 DEF AgentsInv
    <3> QED BY <2>1, <2>3, <2>5, <3>1, <3>2 DEF AgentsInv
  <2> QED BY <2>6, <2>7
<1>3. ASSUME NEW a \in SharedAgents, check_pending_handoffs(a) PROVE AgentsInv'
  <2>1. PICK q : q = get_pending_handoffs(a)
    OBVIOUS
  <2>2. q \in Seq(SharedIds) /\ Enumerates(q, PendingFor(a))
    BY <1>0, <2>1, Shown
  <2>3. /\ found' = [found EXCEPT ![a] = q] /\ UNCHANGED offerVars
        /\ active_handoffs' = active_handoffs /\ current_load' = current_load
    BY <1>3, <2>1 DEF check_pending_handoffs
  <2>4. OfferInv'
    BY <1>0, <2>3, OfferStep
  <2>5. /\ found' \in [SharedAgents -> Seq(SharedIds)] /\ found'[a] = q
        /\ \A b \in SharedAgents : b # a => found'[b] = found[b]
    BY <2>2, <2>3 DEF AgentsInv
  <2>6. \A i \in 1..Len(q) : q[i] \in OfferedTo(a)
    <3>1. PendingFor(a) \subseteq OfferedTo(a)
      BY DEF PendingFor, Pending, OfferedTo
    <3> QED BY <2>2, <3>1 DEF Enumerates
  <2>7. \A h : Offered(h)' <=> Offered(h)
    BY <2>3 DEF offerVars, Offered
  <2>8. \A h : Accepted(h)' <=> Accepted(h)
    BY <2>3 DEF offerVars, Offered, Accepted
  <2>9. \A b \in SharedAgents : OfferedTo(b)' = OfferedTo(b) /\ TakenUpBy(b)' = TakenUpBy(b)
    BY <2>3, <2>7 DEF offerVars, OfferedTo, TakenUpBy
  <2>10. ASSUME NEW b \in SharedAgents, NEW i \in 1..Len(found'[b])
         PROVE  found'[b][i] \in OfferedTo(b)'
    <3>1. CASE b = a
      BY <2>5, <2>6, <2>9, <2>10, <3>1
    <3>2. CASE b # a
      <4>1. found'[b] = found[b] /\ i \in 1..Len(found[b])
        BY <2>5, <2>10, <3>2
      <4>2. found[b][i] \in OfferedTo(b)
        BY <4>1 DEF AgentsInv
      <4> QED BY <2>9, <4>1, <4>2
    <3> QED BY <3>1, <3>2
  <2>11. \A h \in SharedIds \ Unreadable : Accepted(h)' => h \in active_handoffs'[offers'[h].to]
    BY <2>3, <2>8 DEF AgentsInv, offerVars
  <2>12. \A b \in SharedAgents :
           /\ IsFiniteSet(active_handoffs'[b])
           /\ current_load'[b] = Cardinality(active_handoffs'[b]) /\ current_load'[b] <= MaxTasks
           /\ active_handoffs'[b] \subseteq TakenUpBy(b)'
           /\ \A h \in active_handoffs'[b] : <<b, h>> \in CanDo
    BY <2>3, <2>9 DEF AgentsInv
  <2>13. /\ active_handoffs' \in [SharedAgents -> SUBSET SharedIds]
         /\ current_load' \in [SharedAgents -> Nat]
    BY <2>3 DEF AgentsInv
  <2> QED BY <2>4, <2>5, <2>10, <2>11, <2>12, <2>13 DEF AgentsInv
<1>4. ASSUME NEW a \in SharedAgents, evaluate_handoff(a) PROVE AgentsInv'
  <2>1. PICK s \in Seq(SharedIds) : s = found[a]
    BY DEF AgentsInv
  <2>2. PICK h \in SharedIds : h = Head(s)
    BY <1>4, <2>1 DEF evaluate_handoff
  <2>3. /\ s # <<>> /\ Len(s) \in Nat \ {0} /\ h = s[1] /\ Tail(s) \in Seq(SharedIds)
        /\ Len(Tail(s)) = Len(s) - 1 /\ \A i \in 1..(Len(s) - 1) : Tail(s)[i] = s[i + 1]
    BY <1>4, <2>1, <2>2 DEF evaluate_handoff
  <2>4. PICK q : q \in {<<>>, Tail(s)} /\ found' = [found EXCEPT ![a] = q]
    BY <1>4, <2>1, <2>2 DEF evaluate_handoff, agent_accepts, agent_rejects, Raises
  <2>5. [OfferNext]_offerVars
    BY <1>4, <2>1, <2>2
    DEF evaluate_handoff, agent_accepts, agent_rejects, Raises, OfferNext
  <2>6. OfferInv' /\ OffersStay
    BY <1>0, <2>5, OfferStep, OffersStayStep
  <2>7. \A b \in SharedAgents : OfferedTo(b) \subseteq OfferedTo(b)' /\ TakenUpBy(b) \subseteq TakenUpBy(b)'
    BY <2>6, HeldStays
  <2>8. /\ found' \in [SharedAgents -> Seq(SharedIds)] /\ found'[a] = q
        /\ \A b \in SharedAgents : b # a => found'[b] = found[b]
    <3>1. q \in Seq(SharedIds)
      <4>1. <<>> \in Seq(SharedIds)
        OBVIOUS
      <4> QED BY <2>3, <2>4, <4>1
    <3> QED BY <2>4, <3>1 DEF AgentsInv
  <2>9. ASSUME NEW b \in SharedAgents, NEW i \in 1..Len(found'[b]) PROVE found'[b][i] \in OfferedTo(b)'
    <3>1. PICK j \in 1..Len(found[b]) : found'[b][i] = found[b][j]
      <4>1. CASE b = a
        <5>1. q = Tail(s)
          <6>1. Len(<<>>) = 0
            OBVIOUS
          <6> QED BY <2>4, <2>8, <2>9, <4>1, <6>1
        <5>2. i \in 1..(Len(s) - 1)
          BY <2>3, <2>8, <2>9, <4>1, <5>1
        <5>3. i + 1 \in 1..Len(s) /\ Tail(s)[i] = s[i + 1]
          BY <2>3, <5>2
        <5> QED BY <2>1, <2>8, <4>1, <5>1, <5>3
      <4>2. CASE b # a
        BY <2>8, <2>9, <4>2
      <4> QED BY <4>1, <4>2
    <3>2. found[b][j] \in OfferedTo(b)
      BY DEF AgentsInv
    <3> QED BY <2>7, <3>1, <3>2
  <2>10. h \in forgotten \/ (Offered(h) /\ offers[h].to = a)
    <3>1. found[a][1] \in OfferedTo(a)
      BY <2>1, <2>3 DEF AgentsInv
    <3> QED BY <2>1, <2>3, <3>1 DEF OfferedTo
  <2>11. CASE UNCHANGED <<active_handoffs, current_load>> /\ (~accept_handoff(h) \/ h \in Unreadable)
    <3>1. \A g \in SharedIds : g # h => ~accept_handoff(g) \/ UNCHANGED offerVars
      <4>1. CASE accept_handoff(h) \/ reject_handoff(h)
        <5>1. offers \in [SharedIds -> Offers \cup {NoOffer}] /\ NoOffer \notin Offers
          BY <1>0, OfferAssumption DEF OfferInv
        <5>2. PICK st \in OfferStatus : answer_handoff(h, st)
          BY <4>1 DEF accept_handoff, reject_handoff, OfferStatus
        <5>3. \A g \in SharedIds : g # h => offers'[g] = offers[g]
          BY <5>1, <5>2 DEF answer_handoff, WithOfferStatus
        <5>4. ASSUME NEW g \in SharedIds, accept_handoff(g), g # h PROVE FALSE
          <6>1. offers[g] \in Offers /\ offers' = [offers EXCEPT ![g].status = "ACCEPTED"]
            BY <5>1, <5>4 DEF accept_handoff, answer_handoff, WithOfferStatus, Pending, Offered
          <6>2. offers[g].status = "PENDING"
            BY <5>4 DEF accept_handoff, answer_handoff, Pending
          <6>3. offers'[g].status = "ACCEPTED"
            BY <5>1, <6>1 DEF Offers
          <6> QED BY <5>3, <5>4, <6>2, <6>3
        <5> QED BY <5>4
      <4>2. CASE UNCHANGED offerVars
        BY <4>2
      <4> QED BY <1>4, <2>1, <2>2, <4>1, <4>2
          DEF evaluate_handoff, agent_accepts, agent_rejects, Raises
    <3>2. ASSUME NEW g \in SharedIds \ Unreadable, Accepted(g)'
          PROVE  g \in active_handoffs'[offers'[g].to]
      <4>1. ~accept_handoff(g) \/ UNCHANGED offerVars
        BY <2>11, <3>1, <3>2
      <4>2. Accepted(g) /\ offers'[g] = offers[g]
        <5>1. CASE ~accept_handoff(g)
          BY <1>0, <2>5, <3>2, <5>1, AcceptedBefore
        <5>2. CASE UNCHANGED offerVars
          BY <3>2, <5>2 DEF offerVars, Accepted, Offered
        <5> QED BY <4>1, <5>1, <5>2
      <4> QED BY <2>11, <4>2 DEF AgentsInv
    <3> QED BY <2>6, <2>7, <2>8, <2>9, <2>11, <3>2 DEF AgentsInv
  <2>12. CASE can_accept(a, h) /\ agent_accepts(a, h) /\ h \notin Unreadable
    <3>1. /\ accept_handoff(h)
          /\ active_handoffs' = [active_handoffs EXCEPT ![a] = active_handoffs[a] \cup {h}]
          /\ current_load' = [current_load EXCEPT ![a] = current_load[a] + 1]
          /\ current_load[a] < MaxTasks /\ <<a, h>> \in CanDo
      BY <2>12 DEF agent_accepts, can_accept, has_capacity
    <3>2. offers \in [SharedIds -> Offers \cup {NoOffer}] /\ NoOffer \notin Offers
      BY <1>0, OfferAssumption DEF OfferInv
    <3>3. Offered(h) /\ Pending(h) /\ offers[h] \in Offers /\ h \notin forgotten
      BY <1>0, <3>1, OfferedIsOffer DEF accept_handoff, answer_handoff, Pending, OfferInv
    <3>4. offers[h].to = a /\ offers[h].status = "PENDING"
      BY <2>10, <3>3 DEF Pending
    <3>5. offers' = [offers EXCEPT ![h].status = "ACCEPTED"]
      BY <3>1 DEF accept_handoff, answer_handoff, WithOfferStatus
    <3>6. /\ offers'[h].status = "ACCEPTED" /\ offers'[h].to = a /\ offers'[h] \in Offers
          /\ \A g \in SharedIds : g # h => offers'[g] = offers[g]
      BY <3>2, <3>3, <3>4, <3>5 DEF Offers, OfferStatus
    <3>7. h \notin active_handoffs[a]
      <4>1. h \notin TakenUpBy(a)
        BY <3>3, <3>4 DEF TakenUpBy
      <4> QED BY <4>1 DEF AgentsInv
    <3>8. IsFiniteSet(active_handoffs[a]) /\ current_load[a] = Cardinality(active_handoffs[a])
      BY DEF AgentsInv
    <3>9. PICK S : S = active_handoffs[a] \cup {h}
      OBVIOUS
    <3>10. IsFiniteSet(S) /\ Cardinality(S) = current_load[a] + 1
      BY <3>7, <3>8, <3>9, FS_AddElement
    <3>11. /\ active_handoffs' \in [SharedAgents -> SUBSET SharedIds] /\ active_handoffs'[a] = S
           /\ \A b \in SharedAgents : b # a => active_handoffs'[b] = active_handoffs[b]
      BY <3>1, <3>9 DEF AgentsInv
    <3>12. /\ current_load' \in [SharedAgents -> Nat] /\ current_load'[a] = current_load[a] + 1
           /\ \A b \in SharedAgents : b # a => current_load'[b] = current_load[b]
      BY <3>1 DEF AgentsInv
    <3>13. \A b \in SharedAgents :
             /\ IsFiniteSet(active_handoffs'[b])
             /\ current_load'[b] = Cardinality(active_handoffs'[b]) /\ current_load'[b] <= MaxTasks
      <4> SUFFICES ASSUME NEW b \in SharedAgents
                   PROVE  /\ IsFiniteSet(active_handoffs'[b])
                          /\ current_load'[b] = Cardinality(active_handoffs'[b])
                          /\ current_load'[b] <= MaxTasks
        OBVIOUS
      <4>1. current_load[a] \in Nat /\ MaxTasks \in Nat /\ current_load[a] + 1 <= MaxTasks
        <5>1. current_load[a] \in Nat
          BY DEF AgentsInv
        <5> QED BY <1>0, <3>1, <5>1
      <4>2. CASE b = a
        BY <3>10, <3>11, <3>12, <4>1, <4>2
      <4>3. CASE b # a
        BY <3>11, <3>12, <4>3 DEF AgentsInv
      <4> QED BY <4>2, <4>3
    <3>14. ASSUME NEW b \in SharedAgents, NEW g \in active_handoffs'[b]
           PROVE  <<b, g>> \in CanDo /\ g \in TakenUpBy(b)'
      <4>1. CASE b = a /\ g = h
        BY <3>1, <3>2, <3>6, <4>1 DEF Offered, TakenUpBy
      <4>2. CASE ~(b = a /\ g = h)
        <5>1. g \in active_handoffs[b]
          BY <3>9, <3>11, <3>14, <4>2
        <5> QED BY <2>7, <5>1 DEF AgentsInv
      <4> QED BY <4>1, <4>2
    <3>15. ASSUME NEW g \in SharedIds \ Unreadable, Accepted(g)'
           PROVE  g \in active_handoffs'[offers'[g].to]
      <4>1. CASE g = h
        BY <3>6, <3>9, <3>11, <4>1
      <4>2. CASE g # h
        <5>1. Accepted(g) /\ offers'[g] = offers[g]
          BY <3>6, <3>15, <4>2 DEF Accepted, Offered
        <5>2. g \in active_handoffs[offers[g].to] /\ offers[g].to \in SharedAgents
          BY <1>0, <5>1, OfferedIsOffer DEF AgentsInv, Accepted
        <5> QED BY <3>9, <3>11, <5>1, <5>2
      <4> QED BY <4>1, <4>2
    <3> QED BY <2>6, <2>8, <2>9, <3>11, <3>12, <3>13, <3>14, <3>15 DEF AgentsInv
  <2>13. ~accept_handoff(h) \/ ~reject_handoff(h)
    <3> SUFFICES ASSUME accept_handoff(h), reject_handoff(h) PROVE FALSE
      OBVIOUS
    <3>1. offers \in [SharedIds -> Offers \cup {NoOffer}] /\ offers[h] \in Offers
      BY <1>0, OfferedIsOffer DEF OfferInv, accept_handoff, answer_handoff, Pending
    <3>2. /\ offers' = [offers EXCEPT ![h].status = "ACCEPTED"]
          /\ offers' = [offers EXCEPT ![h].status = "REJECTED"]
      BY DEF accept_handoff, reject_handoff, answer_handoff, WithOfferStatus
    <3>3. offers'[h].status = "ACCEPTED" /\ offers'[h].status = "REJECTED"
      BY <3>1, <3>2 DEF Offers
    <3> QED BY <3>3
  <2>14. CASE agent_rejects(a, h)
    BY <2>11, <2>13, <2>14 DEF agent_rejects
  <2>15. CASE ~Pending(h) /\ Raises(a)
    BY <2>11, <2>15 DEF Raises, accept_handoff, answer_handoff
  <2>16. CASE can_accept(a, h) /\ agent_accepts(a, h) /\ h \in Unreadable
    BY <2>11, <2>16 DEF agent_accepts
  <2> QED BY <1>4, <2>1, <2>2, <2>12, <2>14, <2>15, <2>16 DEF evaluate_handoff
<1>5. ASSUME clear_all_handoffs, UNCHANGED agentVars PROVE AgentsInv'
  <2>1. OfferNext
    BY <1>5 DEF OfferNext
  <2>2. \A h \in SharedIds : ~accept_handoff(h)
    <3> SUFFICES ASSUME NEW h \in SharedIds, accept_handoff(h) PROVE FALSE
      OBVIOUS
    <3>1. Pending(h) /\ forgotten' = forgotten /\ h \in forgotten'
      BY <1>5 DEF accept_handoff, answer_handoff, clear_all_handoffs, Pending
    <3> QED BY <1>0, <3>1 DEF OfferInv, Pending
  <2> QED BY <1>5, <1>a, <2>1, <2>2
<1>6. CASE UNCHANGED handoffAgentVars
  <2>1. UNCHANGED offerVars /\ UNCHANGED agentVars
    BY <1>6 DEF handoffAgentVars
  <2>2. OfferInv' /\ \A h : (Offered(h)' <=> Offered(h)) /\ (Accepted(h)' <=> Accepted(h))
    BY <1>0, <2>1, OfferStep DEF offerVars, Offered, Accepted
  <2>3. \A a \in SharedAgents : OfferedTo(a)' = OfferedTo(a) /\ TakenUpBy(a)' = TakenUpBy(a)
    BY <2>1, <2>2 DEF offerVars, OfferedTo, TakenUpBy
  <2> QED BY <2>1, <2>2, <2>3 DEF AgentsInv, agentVars, offerVars
<1> QED BY <1>1, <1>2, <1>3, <1>4, <1>5, <1>6 DEF HandoffAgentsNext

\* What the agents promise follows.
LEMMA AgentsInvHolds == AgentsInv => WorkIsAccepted /\ HandoffAgentsTypeOK
<1> SUFFICES ASSUME AgentsInv PROVE WorkIsAccepted /\ HandoffAgentsTypeOK
  OBVIOUS
<1>1. OfferTypeOK
  BY OfferInvType DEF AgentsInv
<1>2. ASSUME NEW a \in SharedAgents
      PROVE  /\ current_load[a] = Cardinality(active_handoffs[a]) /\ current_load[a] <= MaxTasks
             /\ \A h \in active_handoffs[a] :
                  /\ <<a, h>> \in CanDo
                  /\ h \in forgotten \/ (offers[h].to = a /\ offers[h].status \in {"ACCEPTED", "COMPLETED"})
             /\ \A h \in SharedIds \ Unreadable :
                  Accepted(h) /\ offers[h].to = a => h \in active_handoffs[a]
  BY DEF AgentsInv, TakenUpBy
<1>3. HandoffAgentsTypeOK
  BY <1>1 DEF AgentsInv, HandoffAgentsTypeOK
<1> QED BY <1>2, <1>3 DEF WorkIsAccepted

\* A step of the agents is a step of the client, or leaves it as it is.
LEMMA AgentsUseClient ==
  AgentsInv /\ [HandoffAgentsNext]_handoffAgentVars => [OfferNext]_offerVars
<1> SUFFICES ASSUME AgentsInv, [HandoffAgentsNext]_handoffAgentVars PROVE [OfferNext]_offerVars
  OBVIOUS
<1>1. ASSUME NEW a \in SharedAgents, evaluate_handoff(a) PROVE OfferNext \/ UNCHANGED offerVars
  <2>1. PICK h \in SharedIds : h = Head(found[a])
    <3>1. found[a] \in Seq(SharedIds) /\ found[a] # <<>>
      BY <1>1 DEF AgentsInv, evaluate_handoff
    <3> QED BY <3>1
  <2>2. accept_handoff(h) \/ reject_handoff(h) \/ UNCHANGED offerVars
    BY <1>1, <2>1 DEF evaluate_handoff, agent_accepts, agent_rejects, Raises
  <2> QED BY <2>2 DEF OfferNext
<1> QED BY <1>1 DEF HandoffAgentsNext, OfferNext, check_pending_handoffs, agent_completes,
                    handoffAgentVars
-------------------------------------------------------------------------------
(* The agent runtime *)

RuntimeInv == RuntimeTypeOK /\ RequestOutlivesSections /\ TaskAndReasonMatch

\* Which transitions there are.
LEMMA TransitionFacts ==
  ASSUME NEW s \in AgentState, NEW to \in ValidTransitions[s]
  PROVE  /\ to \in AgentState \ {"INITIALIZING"} /\ s # "COMPLETED"
         /\ s = "INITIALIZING" => to = "RUNNABLE"
         /\ s = "RUNNABLE" => to = "SCHEDULED"
         /\ to = "RECOVERING" => s = "FAILED"
<1>1. ValidTransitions[s] =
     CASE s = "INITIALIZING" -> {"RUNNABLE"}
       [] s = "RUNNABLE" -> {"SCHEDULED"}
       [] s = "SCHEDULED" -> {"RUNNING"}
       [] s = "RUNNING" -> {"WAITING", "WAITING_RESOURCES", "SUSPENDED", "COMPLETED",
                            "FAILED", "SHUTTING_DOWN"}
       [] s \in {"WAITING", "WAITING_RESOURCES"} -> {"RUNNING"}
       [] s = "SUSPENDED" -> {"RESUMED"}
       [] s = "RESUMED" -> {"RUNNING"}
       [] s = "COMPLETED" -> {}
       [] s = "FAILED" -> {"RECOVERING"}
       [] s = "RECOVERING" -> {"RUNNABLE", "FAILED"}
       [] s = "SHUTTING_DOWN" -> {"FAILED"}
  BY DEF ValidTransitions
<1>2. CASE s = "INITIALIZING" \/ s = "RUNNABLE" \/ s = "SCHEDULED"
  BY <1>1, <1>2 DEF AgentState
<1>3. CASE s = "RUNNING"
  BY <1>1, <1>3 DEF AgentState
<1>4. CASE s = "WAITING" \/ s = "WAITING_RESOURCES" \/ s = "SUSPENDED" \/ s = "RESUMED"
  BY <1>1, <1>4 DEF AgentState
<1>5. CASE s = "COMPLETED" \/ s = "FAILED"
  BY <1>1, <1>5 DEF AgentState
<1>6. CASE s = "RECOVERING" \/ s = "SHUTTING_DOWN"
  BY <1>1, <1>6 DEF AgentState
<1> QED BY <1>2, <1>3, <1>4, <1>5, <1>6 DEF AgentState

\* An agent begins with no task, no section and no request.
LEMMA InitRuntime == RuntimeInit => RuntimeInv
<1> SUFFICES ASSUME RuntimeInit PROVE RuntimeInv
  OBVIOUS
<1>1. <<>> \in Seq({"yes", "no"})
  OBVIOUS
<1> QED BY <1>1 DEF RuntimeInit, RuntimeInv, RuntimeTypeOK, AgentState,
                    RequestOutlivesSections, TaskAndReasonMatch

\* A life-cycle method keeps task and reason right if it is given right ones.
LEMMA MethodKeeps ==
  ASSUME RuntimeInv, NEW to \in AgentState \ {"INITIALIZING"},
         NEW task \in AgentTasks \cup {NoTaskId}, NEW after \in AgentTasks \cup {NoTaskId},
         NEW reason \in {"none", "some"}, Method(to, task, reason, after),
         to = "COMPLETED" => after = NoTaskId,
         to = "FAILED" => reason = "some", to \notin {"FAILED", "RUNNABLE"} => reason = failureReason,
         to = "SCHEDULED" => after # NoTaskId,
         to \notin {"COMPLETED", "SCHEDULED"} => after = currentTask
  PROVE  RuntimeInv'
<1>1. RuntimeTypeOK'
  BY DEF Method, RuntimeInv, RuntimeTypeOK, Preemption
<1>2. RequestOutlivesSections'
  BY DEF Method, RuntimeInv, RequestOutlivesSections, Preemption, safe_point
<1>3. TaskAndReasonMatch'
  <2>1. CASE legal' = "no"
    BY <2>1 DEF TaskAndReasonMatch
  <2>2. CASE /\ to \in ValidTransitions[state]
             /\ state' = to /\ currentTask' = after /\ failureReason' = reason /\ UNCHANGED legal
    <3>1. /\ state # "COMPLETED" /\ (state = "INITIALIZING" => to = "RUNNABLE")
          /\ (state = "RUNNABLE" => to = "SCHEDULED") /\ (to = "RECOVERING" => state = "FAILED")
      BY <2>2, TransitionFacts DEF RuntimeInv, RuntimeTypeOK
    <3> QED BY <2>2, <3>1 DEF RuntimeInv, TaskAndReasonMatch
  <2> QED BY <2>1, <2>2 DEF Method
<1> QED BY <1>1, <1>2, <1>3 DEF RuntimeInv

\* Every call of the agent's thread and every control message keeps it.
LEMMA RuntimeStep == RuntimeInv /\ [RuntimeNext]_runtimeVars => RuntimeInv'
<1> SUFFICES ASSUME RuntimeInv, [RuntimeNext]_runtimeVars PROVE RuntimeInv'
  OBVIOUS
<1>0. /\ currentTask \in AgentTasks \cup {NoTaskId} /\ failureReason \in {"none", "some"}
      /\ sections \in Seq({"yes", "no"}) /\ requested \in {"yes", "no"} /\ NoTaskId \notin AgentTasks
      /\ \A t \in AgentTasks : t \in AgentTasks \cup {NoTaskId} /\ t # NoTaskId
      /\ NoTaskId \in AgentTasks \cup {NoTaskId} /\ "some" \in {"none", "some"} /\ "none" \in {"none", "some"}
  BY RuntimeAssumption DEF RuntimeInv, RuntimeTypeOK
<1>1. ASSUME NEW t \in AgentTasks, schedule(t) PROVE RuntimeInv'
  BY <1>0, <1>1, MethodKeeps DEF schedule, AgentState
<1>2. CASE complete
  BY <1>0, <1>2, MethodKeeps DEF complete, AgentState
<1>3. CASE start \/ complete_recovery
  BY <1>0, <1>3, MethodKeeps DEF start, complete_recovery, AgentState
<1>4. CASE run \/ wait \/ wait_resources \/ suspend \/ resume
  <2>1. PICK to \in {"RUNNING", "WAITING", "WAITING_RESOURCES", "SUSPENDED", "RESUMED"} :
          Method(to, currentTask, failureReason, currentTask)
    BY <1>4 DEF run, wait, wait_resources, suspend, resume
  <2> QED BY <1>0, <2>1, MethodKeeps DEF AgentState
<1>5. CASE fail \/ fail_recovery
  BY <1>0, <1>5, MethodKeeps DEF fail, fail_recovery, AgentState
<1>6. CASE shutDown \/ recover
  <2>1. PICK to \in {"SHUTTING_DOWN", "RECOVERING"} :
          Method(to, currentTask, failureReason, currentTask)
    BY <1>6 DEF shutDown, recover
  <2> QED BY <1>0, <2>1, MethodKeeps DEF AgentState
<1>7. CASE on_control
  BY <1>7 DEF on_control, RuntimeInv, RuntimeTypeOK, RequestOutlivesSections, TaskAndReasonMatch, safe_point
<1>8. CASE enter_non_preemptible
  <2>1. /\ Append(sections, requested) \in Seq({"yes", "no"}) /\ Append(sections, requested) # <<>>
        /\ sections = <<>> => Append(sections, requested)[1] = requested
        /\ sections # <<>> => Append(sections, requested)[1] = sections[1]
    <3>1. CASE sections = <<>>
      BY <1>0, <3>1
    <3>2. CASE sections # <<>>
      BY <1>0, <3>2, AppendProperties
    <3> QED BY <3>1, <3>2
  <2> QED BY <1>8, <2>1
      DEF enter_non_preemptible, RuntimeInv, RuntimeTypeOK, RequestOutlivesSections, TaskAndReasonMatch, safe_point
<1>9. CASE leave_non_preemptible
  <2>1. PICK n \in Nat : n = Len(sections) /\ n # 0
    BY <1>0, <1>9 DEF leave_non_preemptible
  <2>2. PICK s : s = SubSeq(sections, 1, n - 1)
    OBVIOUS
  <2>3. /\ s \in Seq({"yes", "no"}) /\ Len(s) = n - 1 /\ (n # 1 => s # <<>> /\ s[1] = sections[1])
    <3>1. s \in Seq({"yes", "no"}) /\ Len(s) = n - 1 /\ \A i \in 1..(n - 1) : s[i] = sections[i]
      BY <1>0, <2>1, <2>2, SubSeqProperties
    <3> QED BY <2>1, <3>1
  <2>4. n = 1 => s = <<>>
    BY <2>3
  <2>5. SavedFlag \in {"yes", "no"} /\ (n = 1 => SavedFlag = sections[1])
    BY <1>0, <2>1 DEF SavedFlag
  <2> QED BY <1>9, <2>1, <2>2, <2>3, <2>4, <2>5
      DEF leave_non_preemptible, RuntimeInv, RuntimeTypeOK, RequestOutlivesSections, TaskAndReasonMatch, safe_point
<1>10. CASE UNCHANGED runtimeVars
  BY <1>10 DEF runtimeVars, RuntimeInv, RuntimeTypeOK, RequestOutlivesSections, TaskAndReasonMatch, safe_point
<1> QED BY <1>1, <1>2, <1>3, <1>4, <1>5, <1>6, <1>7, <1>8, <1>9, <1>10 DEF RuntimeNext, Lifecycle
-------------------------------------------------------------------------------
(* Delegation depths *)

\* A delegation in turn has a parent in turn.
DepthInv ==
  /\ DepthTypeOK /\ DepthsAreVerified
  /\ \A d \in inTurn : ParentOf[d] # NoParent => ParentOf[d] \in inTurn

\* No delegation is noted.
LEMMA InitDepth == DepthInit => DepthInv
BY DEF DepthInit, DepthInv, DepthTypeOK, DepthsAreVerified, Noted

\* Every request keeps it, and every word of the application.
LEMMA DepthStep == DepthInv /\ [DepthNext]_depthVars => DepthInv'
<1> SUFFICES ASSUME DepthInv, [DepthNext]_depthVars PROVE DepthInv'
  OBVIOUS
<1>0. /\ depth_registry \in [DelegationIds -> 0..MaxDepth \cup {NotNoted}]
      /\ inTurn \subseteq DelegationIds /\ MaxDepth \in Nat
      /\ \A d \in inTurn : /\ Noted(d) /\ depth_registry[d] \in 0..MaxDepth /\ depth_registry[d] < MaxDepth
                           /\ ParentOf[d] # NoParent =>
                                /\ ParentOf[d] \in inTurn
                                /\ depth_registry[d] = depth_registry[ParentOf[d]] + 1
      /\ ParentOf \in [DelegationIds -> DelegationIds \cup {NoParent}] /\ NoParent \notin DelegationIds
  BY DepthAssumption DEF DepthInv, DepthTypeOK, DepthsAreVerified, Noted
<1>1. ASSUME NEW d \in DelegationIds, NEW passed \in DelegationIds \cup {NoParent},
             NEW claimed \in 0..MaxDepth, NEW limit \in 0..MaxDepth,
             accept_at_depth(d, passed, claimed, limit)
      PROVE  DepthInv'
  <2>1. PICK depth : depth = verify_depth(d, passed, claimed)
    OBVIOUS
  <2>2. /\ passed \in {ParentOf[d], NoParent} /\ depth < depth_limit(limit)
        /\ depth_registry' = [depth_registry EXCEPT ![d] = depth]
        /\ inTurn' = IF ~Noted(d) /\ (ParentOf[d] = NoParent \/ (passed # NoParent /\ Descends(d, passed)))
                     THEN inTurn \cup {d} ELSE inTurn
    BY <1>1, <2>1 DEF accept_at_depth
  <2>3. depth_limit(limit) \in 0..MaxDepth /\ depth_limit(limit) <= MaxDepth
    BY <1>0 DEF depth_limit, Lower
  <2>4. depth \in Nat /\ depth < MaxDepth
    <3>1. passed # NoParent /\ Noted(passed) => depth_registry[passed] \in Nat
      BY <1>0 DEF Noted
    <3>2. Noted(d) => depth_registry[d] \in Nat
      BY <1>0 DEF Noted
    <3>3. depth \in Nat
      BY <1>0, <2>1, <3>1, <3>2 DEF verify_depth
    <3> QED BY <1>0, <2>2, <2>3, <3>3
  <2>5. /\ depth_registry' \in [DelegationIds -> 0..MaxDepth \cup {NotNoted}]
        /\ depth_registry'[d] = depth
        /\ \A e \in DelegationIds : e # d => depth_registry'[e] = depth_registry[e]
    BY <1>0, <2>2, <2>4
  <2>6. ASSUME d \in inTurn PROVE depth = depth_registry[d]
    <3>1. CASE passed = NoParent
      BY <1>0, <2>1, <2>6, <3>1 DEF verify_depth
    <3>2. CASE passed # NoParent
      <4>1. passed = ParentOf[d] /\ passed \in inTurn /\ depth_registry[d] = depth_registry[passed] + 1
        BY <1>0, <2>2, <2>6, <3>2
      <4>2. Noted(passed)
        BY <1>0, <4>1
      <4> QED BY <2>1, <3>2, <4>1, <4>2 DEF verify_depth
    <3> QED BY <3>1, <3>2
  <2>7. \A e \in inTurn : depth_registry'[e] = depth_registry[e]
    BY <1>0, <2>5, <2>6
  <2>8. inTurn \subseteq inTurn'
    BY <2>2
  <2>9. CASE inTurn' = inTurn
    <3>1. DepthTypeOK'
      <4>1. \A e \in inTurn : Noted(e)'
        BY <1>0, <2>7 DEF Noted
      <4> QED BY <1>0, <2>5, <2>9, <4>1 DEF DepthTypeOK
    <3> QED BY <1>0, <2>7, <2>9, <3>1 DEF DepthInv, DepthsAreVerified
  <2>10. CASE /\ inTurn' = inTurn \cup {d} /\ ~Noted(d)
              /\ ParentOf[d] = NoParent \/ (passed # NoParent /\ Descends(d, passed))
    <3>1. d \notin inTurn /\ \A e \in inTurn : e # d
      BY <1>0, <2>10
    <3>2. ParentOf[d] # NoParent => /\ ParentOf[d] \in inTurn
                                    /\ depth = depth_registry[ParentOf[d]] + 1
      BY <2>1, <2>2, <2>10 DEF verify_depth, Descends
    <3>3. DepthTypeOK'
      <4>1. \A e \in inTurn' : Noted(e)'
        BY <1>0, <2>4, <2>5, <2>7, <2>10, DepthAssumption DEF Noted
      <4> QED BY <1>0, <2>5, <2>10, <4>1 DEF DepthTypeOK
    <3>4. ASSUME NEW e \in inTurn'
          PROVE  /\ depth_registry'[e] < MaxDepth
                 /\ ParentOf[e] # NoParent =>
                      ParentOf[e] \in inTurn' /\ depth_registry'[e] = depth_registry'[ParentOf[e]] + 1
      <4>1. CASE e = d
        BY <2>4, <2>5, <2>7, <2>8, <3>2, <4>1
      <4>2. CASE e # d
        <5>1. e \in inTurn
          BY <2>10, <4>2
        <5> QED BY <1>0, <2>7, <2>8, <5>1
      <4> QED BY <4>1, <4>2
    <3> QED BY <3>3, <3>4 DEF DepthInv, DepthsAreVerified
  <2> QED BY <2>2, <2>9, <2>10
<1>2. ASSUME NEW d \in DelegationIds, NEW depth \in 0..MaxDepth, register_verified_depth(d, depth)
      PROVE  DepthInv'
  BY <1>0, <1>2 DEF register_verified_depth, DepthInv, DepthTypeOK, DepthsAreVerified
<1>3. CASE UNCHANGED depthVars
  BY <1>3 DEF depthVars, DepthInv, DepthTypeOK, DepthsAreVerified, Noted
<1> QED BY <1>1, <1>2, <1>3 DEF DepthNext
-------------------------------------------------------------------------------
(* Shared contexts, for agents that copied the version they read or have the live one *)

\* What an agent has seen of a context that was never deleted is an earlier version of it, or
\* this one with its data.
SeenBefore(x, y) == x.version <= y.version /\ (x.version = y.version => x.data = y.data)
ContextInv ==
  /\ ContextTypeOK /\ NoLostUpdate
  /\ \A a \in ContextAgents, c \in ContextIds \ recreated :
       seen[a][c] # NoContext => Exists(c) /\ SeenBefore(seen[a][c], contexts[c])

\* There is no context.
LEMMA InitContexts == ContextInit => ContextInv
BY SharedContextAssumption DEF ContextInit, ContextInv, ContextTypeOK, NoLostUpdate, CopiedOnly, Exists

\* A call that changes one context, and shows it to an agent or not.
LEMMA OneContext ==
  ASSUME ContextInv, NEW c \in ContextIds, NEW e \in Context, contexts' = [contexts EXCEPT ![c] = e],
         recreated' = recreated, accepted' \in [ContextIds -> SUBSET Updates], made' \in 0..MaxCreated,
         \A d \in ContextIds : d # c => accepted'[d] = accepted[d],
         updatedLive' \in {updatedLive, updatedLive \cup {c}},
         c \in CopiedOnly' => accepted'[c] \subseteq e.data,
         Exists(c) /\ c \notin recreated => SeenBefore(contexts[c], e),
         \/ seen' = seen
         \/ \E a \in ContextAgents : seen' = [seen EXCEPT ![a] = [seen[a] EXCEPT ![c] = e]]
  PROVE  ContextInv'
<1>0. /\ contexts \in [ContextIds -> Context \cup {NoContext}]
      /\ seen \in [ContextAgents -> [ContextIds -> Context \cup {NoContext}]]
      /\ NoContext \notin Context /\ e # NoContext
      /\ \A x \in Context : x.version \in Nat
  BY NoContextAssumption DEF ContextInv, ContextTypeOK, Context
<1>1. contexts'[c] = e /\ \A d \in ContextIds : d # c => contexts'[d] = contexts[d]
  BY <1>0
<1>2. Exists(c)' /\ \A d \in ContextIds : d # c => (Exists(d)' <=> Exists(d))
  BY <1>0, <1>1 DEF Exists
<1>3. /\ seen' \in [ContextAgents -> [ContextIds -> Context \cup {NoContext}]]
      /\ \A a \in ContextAgents, d \in ContextIds :
           seen'[a][d] = seen[a][d] \/ (d = c /\ seen'[a][d] = e)
  <2>1. CASE seen' = seen
    BY <1>0, <2>1
  <2>2. ASSUME NEW a \in ContextAgents, seen' = [seen EXCEPT ![a] = [seen[a] EXCEPT ![c] = e]]
        PROVE  /\ seen' \in [ContextAgents -> [ContextIds -> Context \cup {NoContext}]]
               /\ \A b \in ContextAgents, d \in ContextIds :
                    seen'[b][d] = seen[b][d] \/ (d = c /\ seen'[b][d] = e)
    <3>1. PICK f \in [ContextIds -> Context \cup {NoContext}] : f = [seen[a] EXCEPT ![c] = e]
      BY <1>0
    <3>2. \A d \in ContextIds : f[d] = seen[a][d] \/ (d = c /\ f[d] = e)
      BY <1>0, <3>1
    <3>3. seen' = [seen EXCEPT ![a] = f]
      BY <2>2, <3>1
    <3> QED BY <1>0, <3>2, <3>3
  <2> QED BY <2>1, <2>2
<1>4. ContextTypeOK'
  BY <1>0, <1>1, <1>3 DEF ContextInv, ContextTypeOK
<1>5. NoLostUpdate'
  <2>1. \A d \in CopiedOnly' : d # c => d \in CopiedOnly
    BY DEF CopiedOnly
  <2>2. CopiedOnly' \subseteq ContextIds
    BY DEF CopiedOnly
  <2> QED BY <1>1, <1>2, <2>1, <2>2 DEF ContextInv, NoLostUpdate
<1>6. ASSUME NEW a \in ContextAgents, NEW d \in ContextIds \ recreated, seen'[a][d] # NoContext
      PROVE  Exists(d)' /\ SeenBefore(seen'[a][d], contexts'[d])
  <2>1. CASE d # c
    BY <1>1, <1>2, <1>3, <1>6, <2>1 DEF ContextInv
  <2>2. CASE d = c /\ seen'[a][d] = e
    BY <1>0, <1>1, <1>2, <2>2 DEF SeenBefore
  <2>3. CASE d = c /\ seen'[a][d] = seen[a][d]
    <3>1. Exists(c) /\ SeenBefore(seen[a][c], contexts[c]) /\ SeenBefore(contexts[c], e)
      BY <1>6, <2>3 DEF ContextInv
    <3>2. seen[a][c].version \in Nat /\ contexts[c].version \in Nat /\ e.version \in Nat
      <4>1. seen[a][c] \in Context /\ contexts[c] \in Context
        BY <1>0, <1>6, <2>3, <3>1 DEF Exists
      <4> QED BY <1>0, <4>1
    <3>3. SeenBefore(seen[a][c], e)
      BY <3>1, <3>2 DEF SeenBefore
    <3> QED BY <1>1, <1>2, <2>3, <3>3
  <2> QED BY <1>3, <2>1, <2>2, <2>3
<1> QED BY <1>4, <1>5, <1>6 DEF ContextInv

\* The methods keep it.
LEMMA ContextStep ==
  ASSUME ContextInv, [ContextNext]_contextVars PROVE ContextInv'
<1>0. /\ contexts \in [ContextIds -> Context \cup {NoContext}] /\ made \in 0..MaxCreated
      /\ seen \in [ContextAgents -> [ContextIds -> Context \cup {NoContext}]]
      /\ accepted \in [ContextIds -> SUBSET Updates] /\ recreated \subseteq ContextIds
      /\ NoContext \notin Context /\ MaxVersion \in Nat \ {0} /\ MaxCreated \in Nat
  BY NoContextAssumption, SharedContextAssumption DEF ContextInv, ContextTypeOK
<1>a. \A c \in ContextIds : Exists(c) =>
        /\ contexts[c] \in Context /\ contexts[c].version \in 1..MaxVersion
        /\ contexts[c].data \subseteq Updates
        /\ c \in CopiedOnly => accepted[c] \subseteq contexts[c].data
  BY <1>0 DEF Exists, Context, ContextInv, NoLostUpdate
<1>1. ASSUME NEW c \in ContextIds, create(c) PROVE ContextInv'
  <2>1. PICK e : e = [object |-> made + 1, version |-> 1, data |-> {}, lockedBy |-> NotLocked]
    OBVIOUS
  <2>2. e \in Context /\ contexts' = [contexts EXCEPT ![c] = e] /\ made' \in 0..MaxCreated
        /\ accepted' = [accepted EXCEPT ![c] = {}] /\ seen' = seen /\ recreated' = recreated
        /\ updatedLive' = updatedLive
    BY <1>0, <1>1, <2>1 DEF create, Context
  <2>3. /\ accepted' \in [ContextIds -> SUBSET Updates] /\ accepted'[c] = {}
        /\ \A d \in ContextIds : d # c => accepted'[d] = accepted[d]
    BY <1>0, <2>2
  <2> QED BY <1>1, <2>2, <2>3, OneContext DEF create
<1>2. ASSUME NEW a \in ContextAgents, NEW c \in ContextIds, get(a, c) PROVE ContextInv'
  <2>1. PICK e \in Context : e = contexts[c]
    BY <1>2, <1>a DEF get
  <2>2. /\ contexts' = contexts /\ contexts' = [contexts EXCEPT ![c] = e] /\ accepted' = accepted
        /\ made' = made /\ recreated' = recreated /\ updatedLive' = updatedLive
        /\ seen' = [seen EXCEPT ![a] = [seen[a] EXCEPT ![c] = e]]
    BY <1>0, <1>2, <2>1 DEF get, Sees
  <2>3. SeenBefore(contexts[c], e)
    BY <1>2, <1>a, <2>1 DEF SeenBefore, get
  <2>4. c \in CopiedOnly' => accepted'[c] \subseteq e.data
    BY <1>2, <1>a, <2>1, <2>2 DEF get, CopiedOnly
  <2> QED BY <1>0, <2>2, <2>3, <2>4, OneContext
<1>3. ASSUME NEW a \in ContextAgents, NEW c \in ContextIds, update(a, c) PROVE ContextInv'
  <2>1. PICK v \in 2..MaxVersion : v = contexts[c].version + 1
    BY <1>0, <1>3, <1>a DEF update
  <2>2. PICK x \in Context : x = seen[a][c]
    BY <1>0, <1>3 DEF update
  <2>3. PICK e : e = [contexts[c] EXCEPT !.version = v, !.data = x.data \cup {<<a, v>>}]
    OBVIOUS
  <2>4. Exists(c) /\ contexts[c] \in Context
    BY <1>3, <1>a DEF update
  <2>5. <<a, v>> \in Updates /\ x.data \subseteq Updates
    BY <2>2 DEF Updates, Context
  <2>6. e \in Context /\ e.version = v /\ e.data = x.data \cup {<<a, v>>}
    <3>1. PICK y : y = x.data \cup {<<a, v>>}
      OBVIOUS
    <3>2. y \in SUBSET Updates /\ v \in 1..MaxVersion
      BY <1>0, <2>5, <3>1
    <3>3. e = [contexts[c] EXCEPT !.version = v, !.data = y]
      BY <2>3, <3>1
    <3> QED BY <2>4, <3>1, <3>2, <3>3 DEF Context
  <2>7. /\ contexts' = [contexts EXCEPT ![c].version = v, ![c].data = x.data \cup {<<a, v>>}]
        /\ accepted' = [accepted EXCEPT ![c] = accepted[c] \cup {<<a, v>>}]
        /\ made' = made /\ recreated' = recreated /\ Sees(a, c)
    BY <1>3, <2>1, <2>2 DEF update
  <2>8. contexts' = [contexts EXCEPT ![c] = e]
    BY <1>0, <2>3, <2>7
  <2>9. seen' = [seen EXCEPT ![a] = [seen[a] EXCEPT ![c] = e]]
    BY <1>0, <2>7, <2>8 DEF Sees
  <2>10. /\ accepted' \in [ContextIds -> SUBSET Updates]
         /\ accepted'[c] = accepted[c] \cup {<<a, v>>}
         /\ \A d \in ContextIds : d # c => accepted'[d] = accepted[d]
    BY <1>0, <2>5, <2>7
  <2>11. c \in CopiedOnly' => c \in CopiedOnly /\ x.data = contexts[c].data
    <3> SUFFICES ASSUME c \in CopiedOnly' PROVE c \in CopiedOnly /\ x.data = contexts[c].data
      OBVIOUS
    <3>0. c \in CopiedOnly /\ c \notin recreated /\ a \notin Aliased
      BY <1>3, <2>7 DEF update, CopiedOnly
    <3>1. SeenBefore(x, contexts[c])
      BY <1>3, <2>2, <3>0 DEF update, ContextInv
    <3>2. contexts[c].version = x.version
      BY <1>3, <2>2, <3>0 DEF update, Updatable, Expected
    <3> QED BY <3>0, <3>1, <3>2 DEF SeenBefore
  <2>12. c \in CopiedOnly' => accepted'[c] \subseteq e.data
    BY <1>a, <2>4, <2>6, <2>10, <2>11
  <2>13. SeenBefore(contexts[c], e)
    BY <1>a, <2>1, <2>4, <2>6 DEF SeenBefore
  <2>14. \/ seen' = seen
         \/ \E b \in ContextAgents : seen' = [seen EXCEPT ![b] = [seen[b] EXCEPT ![c] = e]]
    BY <2>9
  <2>15. /\ made' \in 0..MaxCreated /\ recreated' = recreated
         /\ updatedLive' \in {updatedLive, updatedLive \cup {c}}
    BY <1>0, <1>3, <2>7 DEF update
  <2> HIDE DEF ContextInv
  <2> QED BY <2>6, <2>8, <2>10, <2>12, <2>13, <2>14, <2>15, OneContext
<1>4. ASSUME NEW c \in ContextIds, NEW who \in ContextAgents \cup {NotLocked}, Exists(c),
             contexts' = [contexts EXCEPT ![c].lockedBy = who],
             UNCHANGED <<seen, made, accepted, recreated, updatedLive>>
      PROVE  ContextInv'
  <2>1. PICK e : e = [contexts[c] EXCEPT !.lockedBy = who]
    OBVIOUS
  <2>2. e \in Context /\ e.version = contexts[c].version /\ e.data = contexts[c].data
    BY <1>4, <1>a, <2>1 DEF Context
  <2>3. contexts' = [contexts EXCEPT ![c] = e]
    BY <1>4, <2>1
  <2>4. SeenBefore(contexts[c], e)
    BY <1>4, <1>a, <2>2 DEF SeenBefore
  <2>5. c \in CopiedOnly' => accepted'[c] \subseteq e.data
    BY <1>4, <1>a, <2>2 DEF CopiedOnly
  <2> QED BY <1>0, <1>4, <2>2, <2>3, <2>4, <2>5, OneContext
<1>5. ASSUME NEW a \in ContextAgents, NEW c \in ContextIds, lock(a, c) \/ unlock(a, c) PROVE ContextInv'
  BY <1>4, <1>5 DEF lock, unlock
<1>6. ASSUME NEW gone \in SUBSET ContextIds, Drops(gone) PROVE ContextInv'
  <2>1. /\ contexts' = [c \in ContextIds |-> IF c \in gone THEN NoContext ELSE contexts[c]]
        /\ recreated' = recreated \cup gone /\ seen' = seen /\ made' = made /\ accepted' = accepted
        /\ updatedLive' = updatedLive
    BY <1>6 DEF Drops
  <2>2. ContextTypeOK'
    <3>1. updatedLive \subseteq ContextIds
      BY DEF ContextInv, ContextTypeOK
    <3> QED BY <1>0, <2>1, <3>1 DEF ContextTypeOK
  <2>3. \A c \in ContextIds \ recreated' :
          c \in ContextIds \ recreated /\ contexts'[c] = contexts[c] /\ (Exists(c)' <=> Exists(c))
    BY <2>1 DEF Exists
  <2>4. NoLostUpdate'
    BY <2>1, <2>3 DEF ContextInv, NoLostUpdate, CopiedOnly
  <2> QED BY <2>1, <2>2, <2>3, <2>4 DEF ContextInv
<1>7. CASE UNCHANGED contextVars
  BY <1>7 DEF contextVars, ContextInv, ContextTypeOK, NoLostUpdate, CopiedOnly, Exists
<1>8. ASSUME NEW c \in ContextIds, delete(c) PROVE ContextInv'
  BY <1>6, <1>8 DEF delete
<1>9. CASE clear
  BY <1>6, <1>9 DEF clear
<1> QED BY <1>1, <1>2, <1>3, <1>5, <1>7, <1>8, <1>9 DEF ContextNext

\* Contexts have their types, also where agents pass on the version of the live object.
LEMMA ContextTypes == ContextTypeOK /\ [ContextNext]_contextVars => ContextTypeOK'
<1> SUFFICES ASSUME ContextTypeOK, [ContextNext]_contextVars PROVE ContextTypeOK'
  OBVIOUS
<1>0. /\ contexts \in [ContextIds -> Context \cup {NoContext}] /\ made \in 0..MaxCreated
      /\ seen \in [ContextAgents -> [ContextIds -> Context \cup {NoContext}]]
      /\ accepted \in [ContextIds -> SUBSET Updates] /\ recreated \subseteq ContextIds
      /\ updatedLive \subseteq ContextIds /\ MaxVersion \in Nat \ {0} /\ MaxCreated \in Nat
  BY SharedContextAssumption DEF ContextTypeOK
<1>a. \A c \in ContextIds : Exists(c) => contexts[c] \in Context
  BY <1>0 DEF Exists
<1>b. ASSUME NEW a \in ContextAgents, NEW c \in ContextIds, Sees(a, c),
             contexts' \in [ContextIds -> Context \cup {NoContext}]
      PROVE  seen' \in [ContextAgents -> [ContextIds -> Context \cup {NoContext}]]
  <2>1. PICK e \in Context \cup {NoContext} : e = contexts'[c]
    BY <1>b
  <2>2. PICK f \in [ContextIds -> Context \cup {NoContext}] : f = [seen[a] EXCEPT ![c] = e]
    BY <1>0, <2>1
  <2>3. seen' = [seen EXCEPT ![a] = f]
    BY <1>b, <2>1, <2>2 DEF Sees
  <2> QED BY <1>0, <2>2, <2>3
<1>1. ASSUME NEW c \in ContextIds, create(c) PROVE ContextTypeOK'
  <2>1. PICK e : e = [object |-> made + 1, version |-> 1, data |-> {}, lockedBy |-> NotLocked]
    OBVIOUS
  <2>2. e \in Context
    BY <1>0, <1>1, <2>1 DEF create, Context
  <2>3. /\ contexts' = [contexts EXCEPT ![c] = e] /\ made' \in 0..MaxCreated
        /\ accepted' = [accepted EXCEPT ![c] = {}] /\ seen' = seen /\ recreated' = recreated
        /\ updatedLive' = updatedLive
    BY <1>0, <1>1, <2>1 DEF create
  <2> QED BY <1>0, <2>2, <2>3 DEF ContextTypeOK
<1>2. ASSUME NEW a \in ContextAgents, NEW c \in ContextIds, get(a, c) PROVE ContextTypeOK'
  <2>1. contexts' = contexts /\ made' = made /\ accepted' = accepted /\ recreated' = recreated
        /\ updatedLive' = updatedLive /\ Sees(a, c)
    BY <1>2 DEF get
  <2> QED BY <1>0, <1>b, <2>1 DEF ContextTypeOK
<1>3. ASSUME NEW a \in ContextAgents, NEW c \in ContextIds, update(a, c) PROVE ContextTypeOK'
  <2>1. contexts[c] \in Context /\ seen[a][c] \in Context
    BY <1>0, <1>3, <1>a DEF update
  <2>2. PICK v \in 2..MaxVersion : v = contexts[c].version + 1
    <3>1. PICK n \in 1..MaxVersion : n = contexts[c].version
      BY <2>1 DEF Context
    <3>2. n < MaxVersion
      BY <1>3, <3>1 DEF update
    <3>3. MaxVersion \in Nat
      BY <1>0
    <3>4. n + 1 \in 2..MaxVersion
      BY <3>2, <3>3
    <3> QED BY <3>1, <3>4
  <2>3. PICK y \in SUBSET Updates : y = seen[a][c].data \cup {<<a, v>>}
    <3>1. <<a, v>> \in Updates /\ seen[a][c].data \subseteq Updates
      BY <2>1 DEF Updates, Context
    <3> QED BY <3>1
  <2>4. [contexts[c] EXCEPT !.version = v, !.data = y] \in Context
    <3>1. v \in 1..MaxVersion
      BY <1>0
    <3> QED BY <2>1, <3>1 DEF Context
  <2>5. /\ contexts' = [contexts EXCEPT ![c].version = v, ![c].data = y]
        /\ accepted' = [accepted EXCEPT ![c] = accepted[c] \cup {<<a, v>>}]
        /\ made' = made /\ recreated' = recreated /\ Sees(a, c)
        /\ updatedLive' \subseteq ContextIds
    BY <1>0, <1>3, <2>2, <2>3 DEF update
  <2>6. contexts' = [contexts EXCEPT ![c] = [contexts[c] EXCEPT !.version = v, !.data = y]]
    BY <1>0, <2>5
  <2>7. contexts' \in [ContextIds -> Context \cup {NoContext}]
    BY <1>0, <2>4, <2>6
  <2>8. accepted' \in [ContextIds -> SUBSET Updates]
    BY <1>0, <2>5 DEF Updates
  <2> QED BY <1>0, <1>b, <2>5, <2>7, <2>8 DEF ContextTypeOK
<1>4. ASSUME NEW a \in ContextAgents, NEW c \in ContextIds, lock(a, c) \/ unlock(a, c) PROVE ContextTypeOK'
  <2>1. PICK who \in ContextAgents \cup {NotLocked} :
          /\ contexts' = [contexts EXCEPT ![c].lockedBy = who] /\ Exists(c)
          /\ UNCHANGED <<seen, made, accepted, recreated, updatedLive>>
    BY <1>4 DEF lock, unlock
  <2>2. contexts' = [contexts EXCEPT ![c] = [contexts[c] EXCEPT !.lockedBy = who]]
    BY <2>1
  <2>3. [contexts[c] EXCEPT !.lockedBy = who] \in Context
    BY <1>a, <2>1 DEF Context
  <2> QED BY <1>0, <2>1, <2>2, <2>3 DEF ContextTypeOK
<1>5. ASSUME NEW gone \in SUBSET ContextIds, Drops(gone) PROVE ContextTypeOK'
  BY <1>0, <1>5 DEF Drops, ContextTypeOK
<1>6. CASE UNCHANGED contextVars
  BY <1>6 DEF contextVars, ContextTypeOK
<1> QED BY <1>1, <1>2, <1>3, <1>4, <1>5, <1>6 DEF ContextNext, delete, clear
-------------------------------------------------------------------------------
(* Negotiation rooms over a store that their clients share *)

\* What a client can be in the middle of.
RoomMethods == [op : {"vote", "decide", "wait"}, paper : Papers]

\* A client has a store, before it does anything with it, and a decision it was told is the one
\* its store has.
RoomInv ==
  /\ proposals \in [Stores -> SUBSET Papers] /\ ballots \in [Stores -> [Papers -> SUBSET RoomClients]]
  /\ verdicts \in [Stores -> [Papers -> Verdicts \cup {NoVerdict}]]
  /\ storeOf \in [RoomClients -> Stores \cup {NoStore}] /\ defaultStore \in Stores \cup {NoStore}
  /\ storesMade \in 0..MaxStores /\ heard \in [RoomClients -> [Papers -> Verdicts \cup {NoVerdict}]]
  /\ \A s \in Stores, p \in Papers :
       ballots[s][p] # {} \/ verdicts[s][p] # NoVerdict => p \in proposals[s]
  /\ doing \in [RoomClients -> {Nothing} \cup RoomMethods]
  /\ \A c \in RoomClients :
       doing[c] # Nothing => storeOf[c] \in Stores /\ doing[c].paper \in proposals[storeOf[c]]
  /\ \A c \in RoomClients, p \in Papers :
       heard[c][p] # NoVerdict => storeOf[c] \in Stores /\ heard[c][p] = verdicts[storeOf[c]][p]

\* There is no proposal and nobody has a store.
LEMMA InitRoom == RoomClientInit => RoomInv
BY RoomClientAssumption DEF RoomClientInit, RoomInv

\* Who is in the middle of a method works on a paper of its store.
LEMMA DoingFacts ==
  ASSUME RoomInv, NEW c \in RoomClients, doing[c].op # "none"
  PROVE  /\ doing[c].paper \in Papers /\ storeOf[c] \in Stores
         /\ doing[c].paper \in proposals[storeOf[c]]
BY DEF RoomInv, RoomMethods, Nothing

\* The clients' calls keep it.
LEMMA RoomStep == RoomInv /\ [RoomClientNext]_roomClientVars => RoomInv'
<1> SUFFICES ASSUME RoomInv, [RoomClientNext]_roomClientVars PROVE RoomInv'
  OBVIOUS
<1>0. MaxStores \in Nat \ {0} /\ NoStore \notin Stores /\ NoVerdict \notin Verdicts
  BY RoomClientAssumption DEF Stores
<1>1. ASSUME NEW c \in RoomClients, get_default_store(c) PROVE RoomInv'
  <2>1. PICK s \in Stores : storeOf' = [storeOf EXCEPT ![c] = s]
    BY <1>0, <1>1 DEF get_default_store, RoomInv, Stores
  <2>2. /\ storeOf[c] = NoStore /\ UNCHANGED <<proposals, ballots, verdicts, doing, heard>>
        /\ defaultStore' \in Stores \cup {NoStore} /\ storesMade' \in 0..MaxStores
    BY <1>0, <1>1 DEF get_default_store, RoomInv, Stores, StoreState
  <2>3. doing[c] = Nothing /\ \A p \in Papers : heard[c][p] = NoVerdict
    BY <1>0, <2>2 DEF RoomInv
  <2>4. storeOf' \in [RoomClients -> Stores \cup {NoStore}] /\ \A b \in RoomClients : b # c => storeOf'[b] = storeOf[b]
    BY <2>1 DEF RoomInv
  <2>5. \A b \in RoomClients :
          doing'[b] # Nothing => storeOf'[b] \in Stores /\ doing'[b].paper \in proposals'[storeOf'[b]]
    BY <2>2, <2>3, <2>4 DEF RoomInv
  <2>6. \A b \in RoomClients, p \in Papers :
          heard'[b][p] # NoVerdict => storeOf'[b] \in Stores /\ heard'[b][p] = verdicts'[storeOf'[b]][p]
    <3> SUFFICES ASSUME NEW b \in RoomClients, NEW p \in Papers, heard'[b][p] # NoVerdict
                 PROVE  storeOf'[b] \in Stores /\ heard'[b][p] = verdicts'[storeOf'[b]][p]
      OBVIOUS
    <3>1. b # c /\ heard[b][p] # NoVerdict
      BY <2>2, <2>3
    <3>2. storeOf'[b] = storeOf[b] /\ storeOf[b] \in Stores /\ heard[b][p] = verdicts[storeOf[b]][p]
      BY <2>4, <3>1 DEF RoomInv
    <3> QED BY <2>2, <3>2
  <2> QED BY <2>2, <2>4, <2>5, <2>6 DEF RoomInv
<1>2. CASE reset_default_store
  BY <1>2 DEF reset_default_store, RoomInv, StoreState
<1>3. ASSUME NEW c \in RoomClients, NEW p \in Papers, submit_proposal(c, p) PROVE RoomInv'
  <2>1. PICK s \in Stores : s = storeOf[c]
    BY <1>3 DEF submit_proposal, RoomInv
  <2>2. /\ proposals' = [proposals EXCEPT ![s] = proposals[s] \cup {p}] /\ p \notin proposals[s]
        /\ ballots' = [ballots EXCEPT ![s] = [ballots[s] EXCEPT ![p] = {}]]
        /\ UNCHANGED <<verdicts, storeOf, defaultStore, storesMade, doing, heard>>
    BY <1>3, <2>1 DEF submit_proposal, Where, RoomInv
  <2>3. proposals' \in [Stores -> SUBSET Papers] /\ \A u \in Stores : proposals[u] \subseteq proposals'[u]
    BY <2>2 DEF RoomInv
  <2>4. PICK f \in [Papers -> SUBSET RoomClients] : f = [ballots[s] EXCEPT ![p] = {}]
    BY DEF RoomInv
  <2>5. \A q \in Papers : f[q] \in {{}, ballots[s][q]}
    BY <2>4 DEF RoomInv
  <2>6. /\ ballots' \in [Stores -> [Papers -> SUBSET RoomClients]]
        /\ \A u \in Stores, q \in Papers : ballots'[u][q] \in {{}, ballots[u][q]}
    BY <2>2, <2>4, <2>5 DEF RoomInv
  <2>7. \A u \in Stores, q \in Papers :
          ballots'[u][q] # {} \/ verdicts'[u][q] # NoVerdict => q \in proposals'[u]
    BY <2>2, <2>3, <2>6 DEF RoomInv
  <2> QED BY <2>2, <2>3, <2>6, <2>7 DEF RoomInv
<1>4. ASSUME NEW c \in RoomClients, NEW verb \in {"vote", "decide", "wait"}, NEW p \in Papers,
             FindsProposal(c, verb, p)
      PROVE  RoomInv'
  <2>1. PICK m \in RoomMethods : m = [op |-> verb, paper |-> p]
    BY DEF RoomMethods
  <2>2. /\ doing' = [doing EXCEPT ![c] = m] /\ m.paper = p
        /\ storeOf[c] \in Stores /\ p \in proposals[storeOf[c]]
        /\ UNCHANGED <<proposals, ballots, verdicts, storeOf, defaultStore, storesMade, heard>>
    BY <1>4, <2>1 DEF FindsProposal, StoreState, Where, RoomInv
  <2>3. /\ doing' \in [RoomClients -> {Nothing} \cup RoomMethods]
        /\ \A b \in RoomClients :
             doing'[b] # Nothing => storeOf[b] \in Stores /\ doing'[b].paper \in proposals[storeOf[b]]
    BY <2>2 DEF RoomInv
  <2> QED BY <2>2, <2>3 DEF RoomInv
<1>5. ASSUME NEW c \in RoomClients, Ends(c)
      PROVE  /\ doing' \in [RoomClients -> {Nothing} \cup RoomMethods]
             /\ \A b \in RoomClients : doing'[b] \in {Nothing, doing[b]}
  BY <1>5 DEF Ends, RoomInv
<1>6. ASSUME NEW c \in RoomClients, add_vote(c) PROVE RoomInv'
  <2>1. PICK s \in Stores, p \in Papers : s = storeOf[c] /\ p = doing[c].paper /\ p \in proposals[s]
    BY <1>6, DoingFacts DEF add_vote
  <2>2. /\ ballots' = [ballots EXCEPT ![s] = [ballots[s] EXCEPT ![p] = ballots[s][p] \cup {c}]]
        /\ UNCHANGED <<proposals, verdicts, storeOf, defaultStore, storesMade, heard>>
    BY <1>6, <2>1 DEF add_vote, Where, RoomInv
  <2>3. PICK f \in [Papers -> SUBSET RoomClients] : f = [ballots[s] EXCEPT ![p] = ballots[s][p] \cup {c}]
    <3>1. ballots[s] \in [Papers -> SUBSET RoomClients] /\ ballots[s][p] \cup {c} \in SUBSET RoomClients
      BY <2>1 DEF RoomInv
    <3>2. [ballots[s] EXCEPT ![p] = ballots[s][p] \cup {c}] \in [Papers -> SUBSET RoomClients]
      BY <3>1
    <3> QED BY <3>2
  <2>4. \A q \in Papers : f[q] = ballots[s][q] \/ q = p
    BY <2>1, <2>3 DEF RoomInv
  <2>5. /\ ballots' \in [Stores -> [Papers -> SUBSET RoomClients]]
        /\ \A u \in Stores, q \in Papers : ballots'[u][q] = ballots[u][q] \/ (u = s /\ q = p)
    BY <2>1, <2>2, <2>3, <2>4 DEF RoomInv
  <2>6. \A u \in Stores, q \in Papers :
          ballots'[u][q] # {} \/ verdicts'[u][q] # NoVerdict => q \in proposals'[u]
    BY <2>1, <2>2, <2>5 DEF RoomInv
  <2>7. Ends(c)
    BY <1>6 DEF add_vote
  <2>8. /\ doing' \in [RoomClients -> {Nothing} \cup RoomMethods]
        /\ \A b \in RoomClients :
             doing'[b] # Nothing => storeOf[b] \in Stores /\ doing'[b].paper \in proposals[storeOf[b]]
    BY <1>5, <2>7 DEF RoomInv
  <2>9. \A b \in RoomClients, q \in Papers :
          heard'[b][q] # NoVerdict => storeOf'[b] \in Stores /\ heard'[b][q] = verdicts'[storeOf'[b]][q]
    BY <2>2 DEF RoomInv
  <2>10. \A b \in RoomClients :
          doing'[b] # Nothing => storeOf'[b] \in Stores /\ doing'[b].paper \in proposals'[storeOf'[b]]
    BY <2>2, <2>8
  <2>11. /\ proposals' \in [Stores -> SUBSET Papers] /\ verdicts' \in [Stores -> [Papers -> Verdicts \cup {NoVerdict}]]
         /\ storeOf' \in [RoomClients -> Stores \cup {NoStore}] /\ defaultStore' \in Stores \cup {NoStore}
         /\ storesMade' \in 0..MaxStores /\ heard' \in [RoomClients -> [Papers -> Verdicts \cup {NoVerdict}]]
    BY <2>2 DEF RoomInv
  <2> QED BY <2>5, <2>6, <2>8, <2>9, <2>10, <2>11 DEF RoomInv
<1>7. ASSUME NEW c \in RoomClients, NEW v \in Verdicts, save_decision(c, v) PROVE RoomInv'
  <2>1. PICK s \in Stores, p \in Papers : s = storeOf[c] /\ p = doing[c].paper /\ p \in proposals[s]
    BY <1>7, DoingFacts DEF save_decision
  <2>2. PICK w \in Verdicts : w = FirstVerdict(c, v) /\ (verdicts[s][p] # NoVerdict => w = verdicts[s][p])
    BY <2>1 DEF FirstVerdict, RoomInv
  <2>3. /\ verdicts' = [verdicts EXCEPT ![s] = [verdicts[s] EXCEPT ![p] = w]]
        /\ UNCHANGED <<proposals, ballots, storeOf, defaultStore, storesMade, heard>>
    BY <1>7, <2>1, <2>2 DEF save_decision, Where, RoomInv
  <2>4. PICK f \in [Papers -> Verdicts \cup {NoVerdict}] : f = [verdicts[s] EXCEPT ![p] = w]
    BY DEF RoomInv
  <2>5. \A q \in Papers : f[q] = verdicts[s][q] \/ (q = p /\ verdicts[s][q] = NoVerdict)
    BY <2>1, <2>2, <2>4 DEF RoomInv
  <2>6. /\ verdicts' \in [Stores -> [Papers -> Verdicts \cup {NoVerdict}]]
        /\ \A u \in Stores, q \in Papers :
             verdicts'[u][q] = verdicts[u][q] \/ (u = s /\ q = p /\ verdicts[u][q] = NoVerdict)
    BY <2>1, <2>3, <2>4, <2>5 DEF RoomInv
  <2>7. \A u \in Stores, q \in Papers :
          ballots'[u][q] # {} \/ verdicts'[u][q] # NoVerdict => q \in proposals'[u]
    BY <2>1, <2>3, <2>6 DEF RoomInv
  <2>8. \A b \in RoomClients, q \in Papers :
          heard'[b][q] # NoVerdict => storeOf'[b] \in Stores /\ heard'[b][q] = verdicts'[storeOf'[b]][q]
    BY <2>3, <2>6 DEF RoomInv
  <2>9. Ends(c)
    BY <1>7 DEF save_decision
  <2> QED BY <1>5, <2>3, <2>6, <2>7, <2>8, <2>9 DEF RoomInv
<1>8. ASSUME NEW c \in RoomClients, Polled(c) PROVE RoomInv'
  <2>1. PICK s \in Stores, p \in Papers : s = storeOf[c] /\ p = doing[c].paper
    BY <1>8, DoingFacts DEF Polled
  <2>2. /\ heard' = [heard EXCEPT ![c] = [heard[c] EXCEPT ![p] = verdicts[s][p]]]
        /\ UNCHANGED <<proposals, ballots, verdicts, storeOf, defaultStore, storesMade>>
    BY <1>8, <2>1 DEF Polled, Where, StoreState, RoomInv
  <2>3. PICK f \in [Papers -> Verdicts \cup {NoVerdict}] : f = [heard[c] EXCEPT ![p] = verdicts[s][p]]
    <3>1. heard[c] \in [Papers -> Verdicts \cup {NoVerdict}] /\ verdicts[s][p] \in Verdicts \cup {NoVerdict}
      BY <2>1 DEF RoomInv
    <3>2. [heard[c] EXCEPT ![p] = verdicts[s][p]] \in [Papers -> Verdicts \cup {NoVerdict}]
      BY <3>1
    <3> QED BY <3>2
  <2>4. \A q \in Papers : f[q] = heard[c][q] \/ f[q] = verdicts[s][q]
    BY <2>1, <2>3 DEF RoomInv
  <2>5. /\ heard' \in [RoomClients -> [Papers -> Verdicts \cup {NoVerdict}]]
        /\ \A b \in RoomClients, q \in Papers :
             heard'[b][q] = heard[b][q] \/ (b = c /\ heard'[b][q] = verdicts[s][q])
    BY <2>1, <2>2, <2>3, <2>4 DEF RoomInv
  <2>6. \A b \in RoomClients, q \in Papers :
          heard'[b][q] # NoVerdict => storeOf'[b] \in Stores /\ heard'[b][q] = verdicts'[storeOf'[b]][q]
    BY <2>1, <2>2, <2>5 DEF RoomInv
  <2>7. Ends(c)
    BY <1>8 DEF Polled
  <2> QED BY <1>5, <2>2, <2>5, <2>6, <2>7 DEF RoomInv
<1>9. ASSUME NEW c \in RoomClients, WaitTimesOut(c) PROVE RoomInv'
  BY <1>5, <1>9 DEF WaitTimesOut, RoomInv, Where, StoreState
<1>10. ASSUME UNCHANGED roomClientVars PROVE RoomInv'
  BY <1>10 DEF roomClientVars, RoomInv
<1> QED
  BY <1>1, <1>2, <1>3, <1>4, <1>6, <1>7, <1>8, <1>9, <1>10 DEF RoomClientNext

\* The invariant has the agreement and the types.
LEMMA RoomAgrees == RoomInv => RoomClientTypeOK /\ HeardTheSame
<1> SUFFICES ASSUME RoomInv PROVE RoomClientTypeOK /\ HeardTheSame
  OBVIOUS
<1>1. \A c \in RoomClients : doing[c].op \in {"none", "vote", "decide", "wait"}
  BY DEF RoomInv, RoomMethods, Nothing
<1>2. RoomClientTypeOK
  BY <1>1 DEF RoomInv, RoomClientTypeOK
<1>3. HeardTheSame
  BY DEF RoomInv, HeardTheSame
<1> QED BY <1>2, <1>3
-------------------------------------------------------------------------------
(* A2A tasks that were set in motion *)

\* What a handler may be doing.
ServingStates ==
  {Resting} \cup [at : {"route", "working", "failed", "schedule", "answer", "preempt", "cancel"},
                  task : A2ATasks]
  \cup [at : {"write"}, task : A2ATasks, artifacts : SUBSET Artifacts2]

\* The tasks of send_message calls under way, and of those that have marked theirs.
SentBy(s) == {t \in A2ATasks : serving[s].at \in {"route", "working", "failed", "schedule", "answer"}
                               /\ serving[s].task = t}
MarkedBy(s) == {t \in SentBy(s) : serving[s].at \in {"schedule", "answer"}}

\* A durable store has every task that a call of send_message has made, until the call ends and
\* after; past the marking the task is no longer as it was submitted.
TasksInv ==
  /\ taskStates \in [A2ATasks -> TaskState \cup {NoTask}]
  /\ results \in [A2ATasks -> SUBSET Artifacts2]
  /\ routed \subseteq A2ATasks /\ answered \subseteq A2ATasks
  /\ serving \in [Handlers -> ServingStates]
  /\ Durable => \A t \in routed \cup answered : OnRecord(t)
  /\ Durable => \A s \in Handlers : \A t \in SentBy(s) : OnRecord(t)
  /\ \A t \in answered : taskStates[t] # "submitted"
  /\ \A s \in Handlers : \A t \in MarkedBy(s) : taskStates[t] # "submitted"

\* Every handler rests.
LEMMA InitTasks == A2AInit => TasksInv
BY NoTaskAssumption DEF A2AInit, TasksInv, ServingStates, SentBy, MarkedBy, Resting, OnRecord, TaskState

\* A handler that goes to its next step has the task it goes with, the others what they had.
LEMMA GoesFacts ==
  ASSUME TasksInv, NEW s \in Handlers, NEW t \in A2ATasks,
         NEW where \in {"route", "working", "failed", "schedule", "answer", "preempt", "cancel"},
         Goes(s, where, t)
  PROVE  /\ serving' \in [Handlers -> ServingStates]
         /\ \A r \in Handlers : r # s => serving'[r] = serving[r]
         /\ serving'[s].at = where /\ serving'[s].task = t
<1>1. PICK v \in ServingStates : v = [at |-> where, task |-> t]
  BY DEF ServingStates
<1> QED BY <1>1 DEF Goes, TasksInv

\* One that rests has none.
LEMMA RestsFacts ==
  ASSUME TasksInv, NEW s \in Handlers, Rests(s)
  PROVE  /\ serving' \in [Handlers -> ServingStates]
         /\ \A r \in Handlers : r # s => serving'[r] = serving[r]
         /\ serving'[s].at = "idle"
<1>1. Resting \in ServingStates /\ Resting.at = "idle"
  BY DEF ServingStates, Resting
<1> QED BY <1>1 DEF Rests, TasksInv

\* Who does not rest has a task.
LEMMA AtTask ==
  ASSUME TasksInv, NEW s \in Handlers, ~At(s, "idle")
  PROVE  serving[s].task \in A2ATasks
BY DEF TasksInv, ServingStates, At, Resting

\* update_state keeps who is on record, and makes no task submitted.
LEMMA PutsFacts ==
  ASSUME TasksInv, NEW t \in A2ATasks, NEW goal \in {"working", "completed", "failed", "canceled"},
         Puts(t, goal)
  PROVE  /\ taskStates' \in [A2ATasks -> TaskState \cup {NoTask}]
         /\ \A u \in A2ATasks : OnRecord(u) => OnRecord(u)'
         /\ \A u \in A2ATasks : taskStates'[u] = "submitted" => taskStates[u] = "submitted" /\ u # t
BY NoTaskAssumption DEF Puts, TasksInv, OnRecord, TaskState

\* The steps of the handlers, of the agents that report and of the gateway keep it.
LEMMA TasksStep == TasksInv /\ [A2ANext]_a2aVars => TasksInv'
<1> SUFFICES ASSUME TasksInv, [A2ANext]_a2aVars PROVE TasksInv'
  OBVIOUS
<1>0. NoTask \notin TaskState
  BY NoTaskAssumption
<1>1. ASSUME NEW s \in Handlers, NEW t \in A2ATasks, create_task(s, t) PROVE TasksInv'
  <2>1. /\ serving' \in [Handlers -> ServingStates]
        /\ \A r \in Handlers : r # s => serving'[r] = serving[r]
        /\ serving'[s].at = "route" /\ serving'[s].task = t
    BY <1>1, GoesFacts DEF create_task
  <2>2. /\ t \notin routed \cup answered /\ \A r \in Handlers : t \notin SentBy(r)
        /\ UNCHANGED <<results, routed, answered>>
    BY <1>1 DEF create_task, Used, SentBy, At
  <2>3. /\ taskStates' \in [A2ATasks -> TaskState \cup {NoTask}] /\ OnRecord(t)'
        /\ \A u \in A2ATasks : u # t => taskStates'[u] = taskStates[u]
    BY <1>0, <1>1 DEF create_task, TaskRecorded, TasksInv, TaskState, OnRecord
  <2>4. \A r \in Handlers : r # s => SentBy(r)' = SentBy(r) /\ MarkedBy(r)' = MarkedBy(r)
    BY <2>1 DEF SentBy, MarkedBy
  <2>5. SentBy(s)' = {t} /\ MarkedBy(s)' = {}
    BY <2>1 DEF SentBy, MarkedBy
  <2>6. /\ \A u \in routed' \cup answered' : u # t /\ (OnRecord(u) => OnRecord(u)')
        /\ \A u \in answered' : taskStates'[u] # "submitted"
    BY <2>2, <2>3 DEF TasksInv, OnRecord
  <2>7. Durable => \A r \in Handlers : \A u \in SentBy(r)' : OnRecord(u)'
    BY <2>2, <2>3, <2>4, <2>5 DEF TasksInv, OnRecord, SentBy
  <2>8. \A r \in Handlers : \A u \in MarkedBy(r)' : taskStates'[u] # "submitted"
    BY <2>2, <2>3, <2>4, <2>5 DEF TasksInv, MarkedBy, SentBy
  <2> QED BY <2>1, <2>2, <2>3, <2>6, <2>7, <2>8 DEF TasksInv
<1> DEFINE Keeps ==
      /\ taskStates' \in [A2ATasks -> TaskState \cup {NoTask}]
      /\ \A u \in A2ATasks : OnRecord(u) => OnRecord(u)'
      /\ \A u \in A2ATasks : taskStates'[u] = "submitted" => taskStates[u] = "submitted"
<1>2. ASSUME NEW s \in Handlers, UNCHANGED results, Keeps,
             serving' \in [Handlers -> ServingStates],
             \A r \in Handlers : r # s => serving'[r] = serving[r],
             SentBy(s)' \subseteq SentBy(s),
             \A t \in MarkedBy(s)' : t \in MarkedBy(s) \/ taskStates'[t] # "submitted",
             routed' \subseteq routed \cup SentBy(s), answered' \subseteq answered \cup MarkedBy(s)
      PROVE  TasksInv'
  <2>1. \A r \in Handlers : r # s => SentBy(r)' = SentBy(r) /\ MarkedBy(r)' = MarkedBy(r)
    BY <1>2 DEF SentBy, MarkedBy
  <2>2. \A r \in Handlers : SentBy(r) \subseteq A2ATasks /\ MarkedBy(r) \subseteq SentBy(r)
    BY DEF SentBy, MarkedBy
  <2>3. routed' \subseteq A2ATasks /\ answered' \subseteq A2ATasks
    BY <1>2, <2>2 DEF TasksInv
  <2>4. Durable => \A t \in routed' \cup answered' : OnRecord(t)'
    BY <1>2, <2>2, <2>3 DEF TasksInv
  <2>5. Durable => \A r \in Handlers : \A t \in SentBy(r)' : OnRecord(t)'
    BY <1>2, <2>1, <2>2 DEF TasksInv
  <2>6. \A t \in answered' : taskStates'[t] # "submitted"
    BY <1>2, <2>2, <2>3 DEF TasksInv
  <2>7. \A r \in Handlers : \A t \in MarkedBy(r)' : taskStates'[t] # "submitted"
    <3> SUFFICES ASSUME NEW r \in Handlers, NEW t \in MarkedBy(r)', taskStates'[t] = "submitted" PROVE FALSE
      OBVIOUS
    <3>1. t \in MarkedBy(r) /\ t \in A2ATasks
      BY <1>2, <2>1, <2>2
    <3> QED BY <1>2, <3>1 DEF TasksInv
  <2> QED BY <1>2, <2>3, <2>4, <2>5, <2>6, <2>7 DEF TasksInv
<1>3. UNCHANGED taskStates => Keeps
  BY DEF TasksInv, OnRecord
<1>4. ASSUME NEW s \in Handlers, Routes(s) PROVE TasksInv'
  <2>1. serving[s].task \in A2ATasks /\ serving[s].at = "route"
    BY <1>4, AtTask DEF Routes, At
  <2>2. PICK where \in {"working", "failed"} : Goes(s, where, serving[s].task)
    BY <1>4 DEF Routes
  <2>3. /\ serving' \in [Handlers -> ServingStates]
        /\ \A r \in Handlers : r # s => serving'[r] = serving[r]
        /\ serving'[s].at = where /\ serving'[s].task = serving[s].task
    BY <2>1, <2>2, GoesFacts
  <2>4. SentBy(s)' = {serving[s].task} /\ SentBy(s) = {serving[s].task} /\ MarkedBy(s)' = {}
    BY <2>1, <2>3 DEF SentBy, MarkedBy
  <2>5. /\ UNCHANGED <<taskStates, results, answered>> /\ routed' \subseteq routed \cup {serving[s].task}
    BY <1>4 DEF Routes
  <2> HIDE DEF Keeps
  <2> QED BY <1>2, <1>3, <2>3, <2>4, <2>5
<1>5. ASSUME NEW s \in Handlers, MarksTask(s) PROVE TasksInv'
  <2>1. serving[s].task \in A2ATasks /\ serving[s].at \in {"working", "failed"}
    BY <1>5, AtTask DEF MarksTask, At
  <2>2. PICK where \in {"schedule"} : Goes(s, where, serving[s].task)
    BY <1>5 DEF MarksTask
  <2>3. /\ serving' \in [Handlers -> ServingStates]
        /\ \A r \in Handlers : r # s => serving'[r] = serving[r]
        /\ serving'[s].at = where /\ serving'[s].task = serving[s].task
    BY <2>1, <2>2, GoesFacts
  <2>4. SentBy(s)' = {serving[s].task} /\ SentBy(s) = {serving[s].task} /\ MarkedBy(s)' = {serving[s].task}
    BY <2>1, <2>3 DEF SentBy, MarkedBy
  <2>5. Puts(serving[s].task, serving[s].at)
    BY <1>5 DEF MarksTask
  <2>6. Keeps /\ taskStates'[serving[s].task] # "submitted"
    BY <2>1, <2>5, PutsFacts
  <2>7. UNCHANGED <<results, routed, answered>>
    BY <1>5 DEF MarksTask
  <2> HIDE DEF Keeps
  <2> QED BY <1>2, <2>3, <2>4, <2>6, <2>7
<1>6. ASSUME NEW s \in Handlers, Schedules(s) PROVE TasksInv'
  <2>1. serving[s].task \in A2ATasks /\ serving[s].at = "schedule"
    BY <1>6, AtTask DEF Schedules, At
  <2>2. Goes(s, "answer", serving[s].task) /\ UNCHANGED <<taskStates, results, routed, answered>>
    BY <1>6 DEF Schedules
  <2>3. /\ serving' \in [Handlers -> ServingStates]
        /\ \A r \in Handlers : r # s => serving'[r] = serving[r]
        /\ serving'[s].at = "answer" /\ serving'[s].task = serving[s].task
    BY <2>1, <2>2, GoesFacts
  <2>4. SentBy(s)' = SentBy(s) /\ MarkedBy(s)' = MarkedBy(s)
    BY <2>1, <2>3 DEF SentBy, MarkedBy
  <2> HIDE DEF Keeps
  <2> QED BY <1>2, <1>3, <2>2, <2>3, <2>4
<1>7. ASSUME NEW s \in Handlers, AnswersClient(s) PROVE TasksInv'
  <2>1. serving[s].task \in A2ATasks /\ serving[s].at = "answer"
    BY <1>7, AtTask DEF AnswersClient, At
  <2>2. /\ Rests(s) /\ answered' = answered \cup {serving[s].task} /\ UNCHANGED <<taskStates, results, routed>>
    BY <1>7 DEF AnswersClient
  <2>3. /\ serving' \in [Handlers -> ServingStates]
        /\ \A r \in Handlers : r # s => serving'[r] = serving[r]
        /\ serving'[s].at = "idle"
    BY <2>2, RestsFacts
  <2>4. SentBy(s)' = {} /\ MarkedBy(s)' = {} /\ MarkedBy(s) = {serving[s].task}
    BY <2>1, <2>3 DEF SentBy, MarkedBy
  <2> HIDE DEF Keeps
  <2> QED BY <1>2, <1>3, <2>2, <2>3, <2>4
<1>8. ASSUME NEW s \in Handlers, NEW t \in A2ATasks, FindsTask(s, t, "preempt") PROVE TasksInv'
  <2>1. Goes(s, "preempt", t) /\ UNCHANGED <<taskStates, results, routed, answered>>
    BY <1>8 DEF FindsTask
  <2>2. /\ serving' \in [Handlers -> ServingStates]
        /\ \A r \in Handlers : r # s => serving'[r] = serving[r]
        /\ serving'[s].at = "preempt"
    BY <2>1, GoesFacts
  <2>3. SentBy(s)' = {} /\ MarkedBy(s)' = {}
    BY <2>2 DEF SentBy, MarkedBy
  <2> HIDE DEF Keeps
  <2> QED BY <1>2, <1>3, <2>1, <2>2, <2>3
<1>9. ASSUME NEW s \in Handlers, Preempts(s) PROVE TasksInv'
  <2>0. serving[s].task \in A2ATasks
    BY <1>9, AtTask DEF Preempts, At
  <2>1. Goes(s, "cancel", serving[s].task) /\ UNCHANGED <<taskStates, results, routed, answered>>
    BY <1>9 DEF Preempts
  <2>2. /\ serving' \in [Handlers -> ServingStates]
        /\ \A r \in Handlers : r # s => serving'[r] = serving[r]
        /\ serving'[s].at = "cancel"
    BY <2>0, <2>1, GoesFacts
  <2>3. SentBy(s)' = {} /\ MarkedBy(s)' = {}
    BY <2>2 DEF SentBy, MarkedBy
  <2> HIDE DEF Keeps
  <2> QED BY <1>2, <1>3, <2>1, <2>2, <2>3
<1>10. ASSUME NEW s \in Handlers, Cancels(s) PROVE TasksInv'
  <2>1. serving[s].task \in A2ATasks
    BY <1>10, AtTask DEF Cancels, At
  <2>2. Rests(s) /\ Puts(serving[s].task, "canceled") /\ UNCHANGED <<results, routed, answered>>
    BY <1>10 DEF Cancels
  <2>3. /\ serving' \in [Handlers -> ServingStates]
        /\ \A r \in Handlers : r # s => serving'[r] = serving[r]
        /\ serving'[s].at = "idle"
    BY <2>2, RestsFacts
  <2>4. SentBy(s)' = {} /\ MarkedBy(s)' = {}
    BY <2>3 DEF SentBy, MarkedBy
  <2>5. Keeps
    BY <2>1, <2>2, PutsFacts
  <2> HIDE DEF Keeps
  <2> QED BY <1>2, <2>2, <2>3, <2>4, <2>5
<1>11. ASSUME NEW s \in Handlers, NEW t \in A2ATasks, NEW x \in Artifacts2, ReadsArtifacts(s, t, x)
       PROVE  TasksInv'
  <2>1. PICK v \in ServingStates : v = [at |-> "write", task |-> t, artifacts |-> results[t] \cup {x}]
    BY DEF ServingStates, TasksInv
  <2>2. serving' = [serving EXCEPT ![s] = v] /\ v.at = "write" /\ UNCHANGED <<taskStates, results, routed, answered>>
    BY <1>11, <2>1 DEF ReadsArtifacts
  <2>3. /\ serving' \in [Handlers -> ServingStates]
        /\ \A r \in Handlers : r # s => serving'[r] = serving[r]
        /\ serving'[s].at = "write"
    BY <2>2 DEF TasksInv
  <2>4. SentBy(s)' = {} /\ MarkedBy(s)' = {}
    BY <2>3 DEF SentBy, MarkedBy
  <2> HIDE DEF Keeps
  <2> QED BY <1>2, <1>3, <2>2, <2>3, <2>4
<1>12. ASSUME NEW s \in Handlers, WritesArtifacts(s) PROVE TasksInv'
  <2>1. serving[s].task \in A2ATasks /\ serving[s].artifacts \subseteq Artifacts2
    BY <1>12 DEF WritesArtifacts, TasksInv, ServingStates, At, Resting
  <2>2. Rests(s) /\ UNCHANGED <<taskStates, routed, answered>> /\ results' \in [A2ATasks -> SUBSET Artifacts2]
    BY <1>12, <2>1 DEF WritesArtifacts, TasksInv
  <2>3. /\ serving' \in [Handlers -> ServingStates]
        /\ \A r \in Handlers : r # s => serving'[r] = serving[r]
        /\ serving'[s].at = "idle"
    BY <2>2, RestsFacts
  <2>4. \A r \in Handlers : SentBy(r)' \subseteq SentBy(r) /\ MarkedBy(r)' \subseteq MarkedBy(r)
    BY <2>3 DEF SentBy, MarkedBy
  <2> QED BY <2>2, <2>3, <2>4 DEF TasksInv, OnRecord
<1>13. ASSUME NEW t \in A2ATasks, NEW goal \in {"completed", "failed"}, update_state(t, goal) PROVE TasksInv'
  <2>1. Puts(t, goal) /\ UNCHANGED <<results, routed, serving, answered>>
    BY <1>13 DEF update_state
  <2>2. Keeps
    BY <2>1, PutsFacts
  <2>3. \A r \in Handlers : SentBy(r)' = SentBy(r) /\ MarkedBy(r)' = MarkedBy(r)
                            /\ SentBy(r) \subseteq A2ATasks /\ MarkedBy(r) \subseteq A2ATasks
    BY <2>1 DEF SentBy, MarkedBy
  <2> QED BY <2>1, <2>2, <2>3 DEF TasksInv
<1>14. ASSUME GatewayRestarts PROVE TasksInv'
  <2>1. /\ serving' = [s \in Handlers |-> Resting] /\ UNCHANGED <<routed, answered>>
        /\ taskStates' \in [A2ATasks -> TaskState \cup {NoTask}] /\ results' \in [A2ATasks -> SUBSET Artifacts2]
        /\ Durable => UNCHANGED taskStates
        /\ \A t \in A2ATasks : taskStates'[t] \in {taskStates[t], NoTask}
    BY <1>14 DEF GatewayRestarts, TasksInv
  <2>2. \A r \in Handlers : serving'[r] \in ServingStates /\ SentBy(r)' = {} /\ MarkedBy(r)' = {}
    BY <2>1 DEF SentBy, MarkedBy, Resting, ServingStates
  <2>3. \A t \in answered : taskStates'[t] # "submitted"
    BY <1>0, <2>1 DEF TasksInv, TaskState
  <2> QED BY <2>1, <2>2, <2>3 DEF TasksInv, OnRecord
<1>15. ASSUME UNCHANGED a2aVars PROVE TasksInv'
  BY <1>15 DEF a2aVars, TasksInv, OnRecord, SentBy, MarkedBy
<1> HIDE DEF Keeps
<1>16. ASSUME NEW s \in Handlers, MarkFails(s) PROVE TasksInv'
  <2>1. serving[s].task \in A2ATasks /\ serving[s].at = "working"
    BY <1>16, AtTask DEF MarkFails, At
  <2>2. Goes(s, "failed", serving[s].task) /\ UNCHANGED <<taskStates, results, routed, answered>>
    BY <1>16 DEF MarkFails
  <2>3. /\ serving' \in [Handlers -> ServingStates]
        /\ \A r \in Handlers : r # s => serving'[r] = serving[r]
        /\ serving'[s].at = "failed" /\ serving'[s].task = serving[s].task
    BY <2>1, <2>2, GoesFacts
  <2>4. SentBy(s)' = SentBy(s) /\ MarkedBy(s)' = MarkedBy(s)
    BY <2>1, <2>3 DEF SentBy, MarkedBy
  <2> HIDE DEF Keeps
  <2> QED BY <1>2, <1>3, <2>2, <2>3, <2>4
<1> QED
  BY <1>1, <1>4, <1>5, <1>6, <1>7, <1>8, <1>9, <1>10, <1>11, <1>12, <1>13, <1>14, <1>15, <1>16 DEF A2ANext

\* What the gateway has set in motion is known.
LEMMA TasksAreKnown == TasksInv => A2ATypeOK /\ SetInMotionIsKnown
<1> SUFFICES ASSUME TasksInv PROVE A2ATypeOK /\ SetInMotionIsKnown
  OBVIOUS
<1>1. \A s \in Handlers : At(s, "idle") \/ serving[s].task \in A2ATasks
  BY AtTask
<1> QED BY <1>1 DEF TasksInv, A2ATypeOK, SetInMotionIsKnown
-------------------------------------------------------------------------------
(* Files, for one process that writes them or several *)

\* What a file may have, what a process may be doing, and the files of the room's store.
AllItems == UNION {Items(f) : f \in Files}
FileContents == {Missing, Half, Mixed} \cup [is : {"whole"}, of : SUBSET AllItems]
DoingSomething ==
  [at : {"begun", "open", "closed", "votes"}, file : Files, adds : SUBSET AllItems,
   value : SUBSET AllItems, open : {"none", "path", "temp", "gone"}]
RoomFiles == {"proposal", "votes", "decision"}
OnceFiles == {"proposal", "decision"}

\* An item of a file is one of them all.
LEMMA ItemsInAll == ASSUME NEW f \in Files PROVE Items(f) \subseteq AllItems
BY DEF AllItems

\* The four files; the three of the room have their items.
LEMMA FourFiles ==
  /\ RoomFiles \subseteq Files /\ OnceFiles \subseteq RoomFiles /\ "policy" \in Files /\ "policy" \notin RoomFiles
  /\ \A f \in Files : f \in RoomFiles \/ f = "policy"
  /\ Items("proposal") = {"paper"}
BY DEF Files, RoomFiles, OnceFiles, Items

\* However many processes write, a file has nothing but what is of its kind, and who is in a
\* method writes such to it.
FileKinds(f) == [path : Content(f), temp : Content(f)]
OpFits(d) ==
  d = NoOp \/ ( /\ d \in DoingSomething /\ d.adds \subseteq Items(d.file) /\ d.value \subseteq Items(d.file)
                /\ d.at = "open" => d.open # "none" )
FileTypes ==
  /\ DOMAIN folder = Files /\ DOMAIN returned = Files /\ DOMAIN op = Writers
  /\ wrote \in [Files -> SUBSET Writers]
  /\ \A f \in Files : folder[f] \in FileKinds(f) /\ returned[f] \subseteq Items(f)
  /\ \A p \in Writers : OpFits(op[p])

\* There is no file.
LEMMA InitFileTypes == FilesInit => FileTypes
BY DEF FilesInit, FileTypes, FileKinds, Content, OpFits

\* What one reads from a file is of its kind.
LEMMA ReadsItems ==
  ASSUME FileTypes, NEW f \in Files PROVE Read(f) \subseteq Items(f)
<1>1. folder[f].path \in Content(f)
  BY DEF FileTypes, FileKinds
<1> QED BY <1>1 DEF Content, Read, Missing, Half, Mixed, Whole

\* One process goes to another stage of a method, or out of it.
LEMMA OneProcess ==
  ASSUME FileTypes, NEW p \in Writers, NEW d, OpFits(d), Step(p, d),
         DOMAIN folder' = Files, DOMAIN returned' = Files, wrote' \in [Files -> SUBSET Writers],
         \A f \in Files : folder'[f] \in FileKinds(f) /\ returned'[f] \subseteq Items(f)
  PROVE  FileTypes'
<1>1. DOMAIN op' = Writers /\ \A q \in Writers : op'[q] = d \/ op'[q] = op[q]
  BY DEF Step, FileTypes
<1>2. \A q \in Writers : OpFits(op'[q])
  BY <1>1 DEF FileTypes
<1> QED BY <1>1, <1>2 DEF FileTypes

\* A file's two names each get content of its kind.
LEMMA KindsKept ==
  ASSUME NEW f, NEW v \in FileKinds(f), NEW o \in {"path", "temp"}, NEW c \in Content(f)
  PROVE  [v EXCEPT ![o] = c] \in FileKinds(f)
BY DEF FileKinds

\* One name of one file changes.
LEMMA OneFile ==
  ASSUME FileTypes, NEW f \in Files, NEW o \in {"path", "temp"}, NEW c \in Content(f),
         folder' = [folder EXCEPT ![f][o] = c]
  PROVE  DOMAIN folder' = Files /\ \A g \in Files : folder'[g] \in FileKinds(g)
<1>1. PICK v \in FileKinds(f) : v = [folder[f] EXCEPT ![o] = c]
  <2>1. folder[f] \in FileKinds(f)
    BY DEF FileTypes
  <2> QED BY <2>1, KindsKept
<1>2. folder' = [folder EXCEPT ![f] = v]
  BY <1>1
<1> QED BY <1>1, <1>2 DEF FileTypes

\* Something more was saved.
LEMMA OneReturned ==
  ASSUME FileTypes, NEW f \in Files, NEW s, s \subseteq Items(f),
         returned' = returned \/ returned' = [returned EXCEPT ![f] = s]
  PROVE  DOMAIN returned' = Files /\ \A g \in Files : returned'[g] \subseteq Items(g)
BY DEF FileTypes

\* The stages of a method keep the file, what is added and what is written.
LEMMA StagesFit ==
  ASSUME NEW d, OpFits(d), d # NoOp,
         NEW where \in {"open", "closed", "votes"}, NEW o \in {"path", "temp", "gone"}
  PROVE  /\ OpFits([d EXCEPT !.at = where, !.open = o])
         /\ OpFits([d EXCEPT !.open = o])
         /\ where # "open" => OpFits([d EXCEPT !.at = where])
<1>1. d \in DoingSomething /\ d.adds \subseteq Items(d.file) /\ d.value \subseteq Items(d.file)
  BY DEF OpFits
<1>2. PICK x : x = [d EXCEPT !.at = where, !.open = o]
  OBVIOUS
<1>3. x \in DoingSomething /\ x.file = d.file /\ x.adds = d.adds /\ x.value = d.value /\ x.open = o
  BY <1>1, <1>2 DEF DoingSomething
<1>4. OpFits(x)
  BY <1>1, <1>3 DEF OpFits
<1>5. PICK y : y = [d EXCEPT !.open = o]
  OBVIOUS
<1>6. y \in DoingSomething /\ y.file = d.file /\ y.adds = d.adds /\ y.value = d.value /\ y.open = o
  BY <1>1, <1>5 DEF DoingSomething
<1>7. OpFits(y)
  BY <1>1, <1>6 DEF OpFits
<1>8. PICK z : z = [d EXCEPT !.at = where]
  OBVIOUS
<1>9. z \in DoingSomething /\ z.file = d.file /\ z.adds = d.adds /\ z.value = d.value /\ z.at = where
  BY <1>1, <1>8 DEF DoingSomething
<1>10. where # "open" => OpFits(z)
  BY <1>1, <1>9 DEF OpFits
<1> QED BY <1>2, <1>4, <1>5, <1>7, <1>8, <1>10

\* The processes keep it, their deaths too.
LEMMA FileTypesStep == FileTypes /\ [FilesNext]_fileVars => FileTypes'
<1> SUFFICES ASSUME FileTypes, [FilesNext]_fileVars PROVE FileTypes'
  OBVIOUS
<1>0. /\ DOMAIN folder = Files /\ DOMAIN returned = Files /\ DOMAIN op = Writers
      /\ wrote \in [Files -> SUBSET Writers]
      /\ \A f \in Files : folder[f] \in FileKinds(f) /\ returned[f] \subseteq Items(f)
      /\ \A p \in Writers : OpFits(op[p])
  BY DEF FileTypes
<1>a. OpFits(NoOp) /\ NoOp.at = "none"
  BY DEF OpFits, NoOp
<1>b. {"proposal", "votes"} \subseteq Files /\ Items("proposal") = {"paper"}
  BY DEF Files, Items
<1>c. ASSUME NEW p \in Writers, op[p] # NoOp
      PROVE  /\ op[p] \in DoingSomething /\ op[p].file \in Files
             /\ op[p].adds \subseteq Items(op[p].file) /\ op[p].value \subseteq Items(op[p].file)
             /\ op[p].at = "open" => op[p].open \in {"path", "temp", "gone"}
  <2>1. OpFits(op[p])
    BY <1>0
  <2> QED BY <1>c, <2>1 DEF OpFits, DoingSomething
<1>d. \A f \in Files : {Missing, Half, Mixed} \subseteq Content(f)
  BY DEF Content
<1>1. ASSUME NEW p \in Writers, NEW f \in Files, NEW x \in Items(f), Begins(p, f, x) PROVE FileTypes'
  <2>1. {x} \subseteq Items(f) /\ Read(f) \cup {x} \subseteq Items(f) /\ Items(f) \subseteq AllItems
    BY ReadsItems, ItemsInAll
  <2>2. PICK d \in DoingSomething :
          /\ d = [at |-> "begun", file |-> f, adds |-> {x}, value |-> Read(f) \cup {x}, open |-> "none"]
          /\ d.at = "begun" /\ d.file = f /\ d.adds = {x} /\ d.value = Read(f) \cup {x}
    <3>1. [at |-> "begun", file |-> f, adds |-> {x}, value |-> Read(f) \cup {x}, open |-> "none"] \in DoingSomething
      BY <2>1 DEF DoingSomething
    <3> QED BY <3>1
  <2>3. OpFits(d)
    BY <2>1, <2>2 DEF OpFits
  <2>4. Step(p, d) /\ UNCHANGED <<folder, returned>> /\ wrote' = [wrote EXCEPT ![f] = wrote[f] \cup {p}]
    BY <1>1, <2>2 DEF Begins
  <2>5. wrote' \in [Files -> SUBSET Writers]
    BY <1>0, <2>4
  <2> QED BY <1>0, <2>3, <2>4, <2>5, OneProcess
<1>2. ASSUME NEW p \in Writers, Opens(p) PROVE FileTypes'
  <2>1. op[p].at = "begun" /\ UNCHANGED <<returned, wrote>>
    BY <1>2 DEF Opens
  <2>2. op[p] # NoOp
    BY <1>a, <2>1
  <2>3. PICK f \in Files, o \in {"path", "temp"} :
          /\ f = op[p].file /\ o = OpensWhich(f) /\ folder' = [folder EXCEPT ![f][o] = Half]
          /\ Step(p, [op[p] EXCEPT !.at = "open", !.open = o])
    BY <1>2, <1>c, <2>2 DEF Opens, OpensWhich
  <2>4. OpFits([op[p] EXCEPT !.at = "open", !.open = o])
    BY <1>0, <2>2, StagesFit
  <2>5. DOMAIN folder' = Files /\ \A g \in Files : folder'[g] \in FileKinds(g)
    BY <1>d, <2>3, OneFile
  <2> QED BY <1>0, <2>1, <2>3, <2>4, <2>5, OneProcess
<1>3. ASSUME NEW p \in Writers, Closes(p) PROVE FileTypes'
  <2>1. op[p].at = "open" /\ UNCHANGED wrote
    BY <1>3 DEF Closes
  <2>2. op[p] # NoOp
    BY <1>a, <2>1
  <2>3. PICK f \in Files, o \in {"path", "temp", "gone"} : f = op[p].file /\ o = op[p].open
    BY <1>c, <2>1, <2>2
  <2>4. DOMAIN folder' = Files /\ \A g \in Files : folder'[g] \in FileKinds(g)
    <3>1. CASE o = "gone"
      BY <1>0, <1>3, <2>3, <3>1 DEF Closes
    <3>2. CASE o # "gone"
      <4>1. PICK c \in Contents(folder[f][o], op[p].value) : folder' = [folder EXCEPT ![f][o] = c]
        BY <1>3, <2>3, <3>2 DEF Closes
      <4>2. op[p].value \subseteq Items(f)
        BY <1>c, <2>2, <2>3
      <4>3. c \in Content(f)
        BY <4>1, <4>2 DEF Contents, Content
      <4> QED BY <2>3, <3>2, <4>1, <4>3, OneFile
    <3> QED BY <3>1, <3>2
  <2>5. CASE OpensWhich(f) = "temp" /\ op[p].adds # {}
    <3>1. Step(p, [op[p] EXCEPT !.at = "closed"]) /\ UNCHANGED returned
      BY <1>3, <2>3, <2>5 DEF Closes
    <3>2. OpFits([op[p] EXCEPT !.at = "closed"])
      BY <1>0, <2>2, StagesFit
    <3> QED BY <1>0, <2>1, <2>4, <3>1, <3>2, OneProcess
  <2>6. CASE ~(OpensWhich(f) = "temp" /\ op[p].adds # {})
    <3>1. /\ Step(p, NoOp)
          /\ returned' = IF op[p].adds = {} THEN [returned EXCEPT !["proposal"] = {"paper"}]
                         ELSE [returned EXCEPT ![f] = returned[f] \cup op[p].adds]
      BY <1>3, <2>3, <2>6 DEF Closes
    <3>2. returned[f] \cup op[p].adds \subseteq Items(f)
      BY <1>0, <1>c, <2>2, <2>3
    <3>3. DOMAIN returned' = Files /\ \A g \in Files : returned'[g] \subseteq Items(g)
      <4>1. CASE op[p].adds = {}
        BY <1>b, <3>1, <4>1, OneReturned
      <4>2. CASE op[p].adds # {}
        BY <3>1, <3>2, <4>2, OneReturned
      <4> QED BY <4>1, <4>2
    <3> QED BY <1>0, <1>a, <2>1, <2>4, <3>1, <3>3, OneProcess
  <2> QED BY <2>5, <2>6
<1>4. ASSUME NEW p \in Writers, Renames(p) PROVE FileTypes'
  <2>1. op[p].at = "closed" /\ op[p] # NoOp /\ UNCHANGED wrote
    BY <1>4, <1>a DEF Renames
  <2>2. PICK f \in Files : f = op[p].file
    BY <1>c, <2>1
  <2>3. CASE folder[f].temp = Missing
    <3>1. Step(p, NoOp) /\ UNCHANGED <<folder, returned>>
      BY <1>4, <2>2, <2>3 DEF Renames
    <3> QED BY <1>0, <1>a, <2>1, <3>1, OneProcess
  <2>4. CASE folder[f].temp # Missing
    <3>1. /\ folder' = [folder EXCEPT ![f] = [path |-> folder[f].temp, temp |-> Missing]]
          /\ op' = [Renamed(f, p) EXCEPT ![p] =
                      IF f = "proposal" THEN [Renamed(f, p)[p] EXCEPT !.at = "votes"] ELSE NoOp]
          /\ returned' = IF f = "proposal" THEN returned ELSE [returned EXCEPT ![f] = returned[f] \cup op[p].adds]
      BY <1>4, <2>2, <2>4 DEF Renames
    <3>2. DOMAIN folder' = Files /\ \A g \in Files : folder'[g] \in FileKinds(g)
      <4>1. [path |-> folder[f].temp, temp |-> Missing] \in FileKinds(f)
        <5>1. folder[f].temp \in Content(f) /\ Missing \in Content(f)
          BY <1>0, <1>d DEF FileKinds
        <5> QED BY <5>1 DEF FileKinds
      <4> QED BY <1>0, <3>1, <4>1
    <3>3. DOMAIN returned' = Files /\ \A g \in Files : returned'[g] \subseteq Items(g)
      <4>1. returned[f] \cup op[p].adds \subseteq Items(f)
        BY <1>0, <1>c, <2>1, <2>2
      <4> QED BY <3>1, <4>1, OneReturned
    <3>4. DOMAIN Renamed(f, p) = Writers /\ Renamed(f, p)[p] = op[p]
      BY DEF Renamed
    <3>5. ASSUME NEW q \in Writers, q # p PROVE OpFits(Renamed(f, p)[q])
      <4>1. /\ op[q] # NoOp => \/ Renamed(f, p)[q] = op[q]
                               \/ \E o \in {"path", "gone"} : Renamed(f, p)[q] = [op[q] EXCEPT !.open = o]
            /\ op[q] = NoOp => Renamed(f, p)[q] = op[q]
        BY <3>5 DEF Renamed
      <4>2. op[q] # NoOp => \A o \in {"path", "gone"} : OpFits([op[q] EXCEPT !.open = o])
        BY <1>0, StagesFit
      <4> QED BY <1>0, <4>1, <4>2
    <3>6. OpFits([op[p] EXCEPT !.at = "votes"])
      BY <1>0, <2>1, StagesFit
    <3>7. DOMAIN op' = Writers /\ \A q \in Writers : OpFits(op'[q])
      BY <1>a, <3>1, <3>4, <3>5, <3>6
    <3> QED BY <1>0, <2>1, <3>2, <3>3, <3>7 DEF FileTypes
  <2> QED BY <2>3, <2>4
<1>5. ASSUME NEW p \in Writers, InitializesVotes(p) PROVE FileTypes'
  <2>1. CASE folder["votes"].path # Missing
    <3>1. Step(p, NoOp) /\ returned' = [returned EXCEPT !["proposal"] = {"paper"}]
          /\ UNCHANGED <<folder, wrote>>
      BY <1>5, <2>1 DEF InitializesVotes
    <3>2. DOMAIN returned' = Files /\ \A g \in Files : returned'[g] \subseteq Items(g)
      BY <1>b, <3>1, OneReturned
    <3> QED BY <1>0, <1>a, <3>1, <3>2, OneProcess
  <2>2. CASE folder["votes"].path = Missing
    <3>1. PICK d \in DoingSomething :
            /\ d = [at |-> "open", file |-> "votes", adds |-> {}, value |-> {}, open |-> "path"]
            /\ d.adds = {} /\ d.value = {} /\ d.open = "path"
      <4>1. [at |-> "open", file |-> "votes", adds |-> {}, value |-> {}, open |-> "path"] \in DoingSomething
        BY <1>b DEF DoingSomething
      <4> QED BY <4>1
    <3>2. Step(p, d) /\ UNCHANGED returned /\ folder' = [folder EXCEPT !["votes"]["path"] = Half]
          /\ wrote' = [wrote EXCEPT !["votes"] = wrote["votes"] \cup {p}]
      BY <1>5, <2>2, <3>1 DEF InitializesVotes
    <3>3. OpFits(d)
      BY <3>1 DEF OpFits
    <3>4. DOMAIN folder' = Files /\ \A g \in Files : folder'[g] \in FileKinds(g)
      BY <1>b, <1>d, <3>2, OneFile
    <3>5. wrote' \in [Files -> SUBSET Writers]
      BY <1>0, <1>b, <3>2
    <3> QED BY <1>0, <3>2, <3>3, <3>4, <3>5, OneProcess
  <2> QED BY <2>1, <2>2
<1>6. ASSUME NEW p \in Writers, Dies(p) PROVE FileTypes'
  <2>1. Step(p, NoOp) /\ UNCHANGED <<folder, returned, wrote>>
    BY <1>6 DEF Dies
  <2> QED BY <1>0, <1>a, <2>1, OneProcess
<1>7. CASE UNCHANGED fileVars
  BY <1>7 DEF fileVars, FileTypes
<1> QED BY <1>1, <1>2, <1>3, <1>4, <1>5, <1>6, <1>7 DEF FilesNext

\* The types follow.
LEMMA FileTypesHold == FileTypes => FilesTypeOK
<1> SUFFICES ASSUME FileTypes PROVE FilesTypeOK
  OBVIOUS
<1>1. /\ \A f \in Files : folder[f].path \in Content(f) /\ folder[f].temp \in Content(f) /\ returned[f] \subseteq Items(f)
      /\ wrote \in [Files -> SUBSET Writers]
  BY DEF FileTypes, FileKinds
<1>2. \A p \in Writers : op[p].at \in {"none", "begun", "open", "closed", "votes"}
  BY DEF FileTypes, OpFits, DoingSomething, NoOp
<1> QED BY <1>1, <1>2 DEF FilesTypeOK

\* A method that adds one item to what its file has. A proposal and a decision are the first.
Adding(p) ==
  \E x \in Items(op[p].file) :
    /\ op[p].adds = {x}
    /\ op[p].file # "policy" => op[p].value = Read(op[p].file) \cup {x}
    /\ op[p].file \in OnceFiles => folder[op[p].file].path = Missing
ProposalSaved == folder["proposal"].path = Whole({"paper"})

\* save_proposal has saved it and goes on to the votes.
Initializes(p) == op[p] # NoOp /\ (op[p].at = "votes" \/ op[p].adds = {})

\* Who is in a method has begun to write its file, and the list of votes has no item only when
\* the proposal was saved first.
Begun(p) ==
  op[p] # NoOp =>
    /\ p \in wrote[op[p].file]
    /\ op[p].adds = {} => op[p].at = "open" /\ op[p].file = "votes"
    /\ op[p].at = "votes" => op[p].file = "proposal"
    /\ Initializes(p) => p \in wrote["proposal"]

\* How far it is shows in a file that nobody else writes: what it opened is half, what it
\* closed is whole.
HasBegun(p) == op[p].at = "begun" => Adding(p)
HasOpened(p) ==
  op[p].at = "open" =>
    \/ Adding(p) /\ op[p].open = OpensWhich(op[p].file) /\ folder[op[p].file][op[p].open] = Half
    \/ /\ op[p].file = "votes" /\ op[p].adds = {} /\ op[p].value = {} /\ op[p].open = "path"
       /\ folder["votes"].path = Half
HasClosed(p) ==
  op[p].at = "closed" =>
    Adding(p) /\ op[p].file # "policy" /\ folder[op[p].file].temp = Whole(op[p].value)
Shows(p) == HasBegun(p) /\ HasOpened(p) /\ HasClosed(p)
StageFits(p) ==
  /\ op[p] # NoOp /\ WrittenByOne(op[p].file) => Shows(p)
  /\ Initializes(p) /\ WrittenByOne("proposal") => ProposalSaved

\* A file of the room has what was saved in it, and a proposal or decision is one.
Single(f) == folder[f].path = Missing \/ \E x \in AllItems : folder[f].path = Whole({x})
Kept(f) == (f \in RoomFiles => returned[f] \subseteq Read(f)) /\ (f \in OnceFiles => Single(f))

FilesInv ==
  /\ FileTypes
  /\ \A p \in Writers : Begun(p) /\ StageFits(p)
  /\ \A f \in Files : WrittenByOne(f) => Kept(f)

\* There is no file.
LEMMA InitFiles == FilesInit => FilesInv
<1> SUFFICES ASSUME FilesInit PROVE FilesInv
  OBVIOUS
<1>1. \A p \in Writers : Begun(p) /\ StageFits(p)
  BY DEF FilesInit, Begun, StageFits, Initializes
<1>2. \A f \in Files : Kept(f)
  BY DEF FilesInit, Kept, Single, Read
<1> QED BY <1>1, <1>2, InitFileTypes DEF FilesInv

\* A file that nobody touches, and what a method that ends returned is in it.
LEMMA KeptElsewhere ==
  ASSUME FilesInv, NEW f \in Files, folder'[f] = folder[f], wrote[f] \subseteq wrote'[f],
         f \in RoomFiles => returned'[f] \subseteq returned[f] \cup Read(f)
  PROVE  WrittenByOne(f)' => Kept(f)'
<1> SUFFICES ASSUME WrittenByOne(f)' PROVE Kept(f)'
  OBVIOUS
<1>1. WrittenByOne(f)
  BY DEF WrittenByOne
<1>2. Kept(f) /\ Read(f)' = Read(f) /\ (Single(f) => Single(f)')
  BY <1>1 DEF FilesInv, Read, Single
<1> QED BY <1>2 DEF Kept

\* Another process is where it was, but when both write the one file that changes; then nothing
\* is said of it.
LEMMA OthersStay ==
  ASSUME FilesInv, NEW p \in Writers, NEW g \in Files, p \in wrote'[g],
         \A f \in Files : wrote[f] \subseteq wrote'[f],
         \A f \in Files : f # g => folder'[f] = folder[f],
         NEW q \in Writers, q # p,
         \/ op'[q] = op[q]
         \/ /\ op[q] # NoOp /\ op'[q] # NoOp /\ op[q].file = g /\ op'[q].file = g
            /\ op'[q].at = op[q].at /\ op'[q].adds = op[q].adds
  PROVE  Begun(q)' /\ StageFits(q)'
<1>0. FileTypes /\ Begun(q) /\ StageFits(q)
  BY DEF FilesInv
<1>1. /\ (op'[q] # NoOp) <=> (op[q] # NoOp)
      /\ op[q] # NoOp => op[q].file \in Files /\ op'[q].file = op[q].file /\ op'[q].at = op[q].at
                         /\ op'[q].adds = op[q].adds
      /\ Initializes(q)' <=> Initializes(q)
  <2>1. op[q] # NoOp => op[q].file \in Files
    BY <1>0 DEF FileTypes, OpFits, DoingSomething
  <2>2. /\ (op'[q] # NoOp) <=> (op[q] # NoOp)
        /\ op[q] # NoOp => op'[q].file = op[q].file /\ op'[q].at = op[q].at /\ op'[q].adds = op[q].adds
    OBVIOUS
  <2> QED BY <2>1, <2>2 DEF Initializes
<1>2. "proposal" \in Files
  BY DEF Files
<1>3. Begun(q)'
  BY <1>0, <1>1, <1>2 DEF Begun
<1>4. ASSUME op'[q] # NoOp, WrittenByOne(op[q].file)' PROVE Shows(q)'
  <2>1. PICK f \in Files : f = op[q].file /\ f = op'[q].file /\ q \in wrote[f] /\ q \in wrote'[f]
    BY <1>0, <1>1, <1>4 DEF Begun
  <2>2. f # g
    BY <1>4, <2>1 DEF WrittenByOne
  <2>3. op'[q] = op[q] /\ folder'[f] = folder[f]
    BY <2>1, <2>2
  <2>4. WrittenByOne(f)
    BY <1>4, <2>1 DEF WrittenByOne
  <2>5. Shows(q)
    BY <1>0, <1>1, <1>4, <2>1, <2>4 DEF StageFits
  <2>6. Read(f)' = Read(f)
    BY <2>3 DEF Read
  <2>7. Adding(q)' <=> Adding(q)
    BY <2>1, <2>3, <2>6 DEF Adding
  <2> QED BY <2>1, <2>3, <2>5, <2>7 DEF Shows, HasBegun, HasOpened, HasClosed
<1>5. ASSUME Initializes(q)', WrittenByOne("proposal")' PROVE ProposalSaved'
  <2>1. q \in wrote["proposal"] /\ q \in wrote'["proposal"] /\ WrittenByOne("proposal")
    BY <1>0, <1>1, <1>2, <1>5 DEF Begun, Initializes, WrittenByOne
  <2>2. g # "proposal"
    BY <1>5, <2>1 DEF WrittenByOne
  <2>3. ProposalSaved
    BY <1>0, <1>1, <1>5, <2>1 DEF StageFits
  <2> QED BY <1>2, <2>2, <2>3 DEF ProposalSaved
<1> QED BY <1>3, <1>4, <1>5 DEF StageFits

\* A step of one process, in a method or out of it.
LEMMA OneSteps ==
  ASSUME FilesInv, FileTypes', NEW p \in Writers, NEW g \in Files, p \in wrote'[g], NEW d, Step(p, d),
         \A f \in Files : wrote[f] \subseteq wrote'[f],
         \A f \in Files : f # g => folder'[f] = folder[f],
         d # NoOp => Begun(p)' /\ StageFits(p)',
         \A f \in Files : WrittenByOne(f)' => Kept(f)'
  PROVE  FilesInv'
<1>1. op'[p] = d /\ \A q \in Writers : q # p => op'[q] = op[q]
  BY DEF Step, FilesInv, FileTypes
<1>2. d = NoOp => Begun(p)' /\ StageFits(p)'
  BY <1>1 DEF Begun, StageFits, Initializes
<1>3. ASSUME NEW q \in Writers PROVE Begun(q)' /\ StageFits(q)'
  <2>1. CASE q = p
    BY <1>2, <2>1
  <2>2. CASE q # p
    <3>1. op'[q] = op[q]
      BY <1>1, <2>2
    <3> HIDE DEF FilesInv
    <3> QED BY <2>2, <3>1, OthersStay
  <2> QED BY <2>1, <2>2
<1> QED BY <1>3 DEF FilesInv

\* Who does something has a file.
LEMMA DoesSomething ==
  ASSUME FileTypes, NEW p \in Writers, op[p].at # "none"
  PROVE  op[p] # NoOp /\ op[p] \in DoingSomething /\ op[p].file \in Files
<1>1. OpFits(op[p]) /\ NoOp.at = "none"
  BY DEF FileTypes, NoOp
<1> QED BY <1>1 DEF OpFits, DoingSomething

\* A file's two names are different ones.
LEMMA OtherName ==
  ASSUME FileTypes, NEW f \in Files, NEW o \in {"path", "temp"}, NEW c,
         folder' = [folder EXCEPT ![f][o] = c]
  PROVE  /\ folder'[f][o] = c /\ \A g \in Files : g # f => folder'[g] = folder[g]
         /\ o = "temp" => folder'[f].path = folder[f].path
<1>1. folder[f] \in FileKinds(f) /\ DOMAIN folder = Files
  BY DEF FileTypes
<1>2. PICK v : v = folder[f]
  OBVIOUS
<1>3. v \in FileKinds(f)
  BY <1>1, <1>2
<1>4. /\ [v EXCEPT ![o] = c][o] = c
      /\ o = "temp" => [v EXCEPT ![o] = c].path = v.path
  BY <1>3 DEF FileKinds
<1>5. folder' = [folder EXCEPT ![f] = [v EXCEPT ![o] = c]]
  BY <1>2
<1> QED BY <1>1, <1>2, <1>4, <1>5

\* A file has nothing else.
LEMMA WholeIsRead ==
  ASSUME NEW f \in Files, NEW s, folder[f].path = Whole(s) PROVE Read(f) = s
BY DEF Read, Whole

\* The steps of the processes keep it, their deaths too.
LEMMA FilesStep == FilesInv /\ [FilesNext]_fileVars => FilesInv'
<1> SUFFICES ASSUME FilesInv, [FilesNext]_fileVars PROVE FilesInv'
  OBVIOUS
<1>a. FileTypes /\ FileTypes'
  BY FileTypesStep DEF FilesInv
<1>b. /\ DOMAIN folder = Files /\ DOMAIN returned = Files /\ DOMAIN op = Writers
      /\ wrote \in [Files -> SUBSET Writers] /\ NoOp.at = "none"
  BY <1>a DEF FileTypes, NoOp
<1>c. ASSUME NEW p \in Writers
      PROVE  Begun(p) /\ StageFits(p) /\ (op[p] # NoOp => p \in wrote[op[p].file])
  BY DEF FilesInv, Begun
<1>d. {"proposal", "votes"} \subseteq Files
  BY DEF Files
<1>e. ASSUME UNCHANGED <<folder, returned>>, \A f \in Files : wrote[f] \subseteq wrote'[f]
      PROVE  \A f \in Files : WrittenByOne(f)' => Kept(f)'
  BY <1>e, KeptElsewhere
<1>1. ASSUME NEW p \in Writers, NEW f \in Files, NEW x \in Items(f), Begins(p, f, x) PROVE FilesInv'
  <2>1. PICK d : d = [at |-> "begun", file |-> f, adds |-> {x}, value |-> Read(f) \cup {x}, open |-> "none"]
    OBVIOUS
  <2>2. /\ Step(p, d) /\ UNCHANGED <<folder, returned>> /\ Accepts(f, x)
        /\ wrote' = [wrote EXCEPT ![f] = wrote[f] \cup {p}]
    BY <1>1, <2>1 DEF Begins
  <2>3. p \in wrote'[f] /\ \A g \in Files : wrote[g] \subseteq wrote'[g]
    BY <1>b, <2>2
  <2>4. op'[p] = d /\ d.at = "begun" /\ d.file = f /\ d.adds = {x} /\ d.value = Read(f) \cup {x} /\ d # NoOp
    BY <1>b, <2>1, <2>2 DEF Step
  <2>5. ~Initializes(p)' /\ Begun(p)'
    BY <2>3, <2>4 DEF Initializes, Begun
  <2>6. f \in OnceFiles => folder[f].path = Missing
    BY <2>2 DEF Accepts, OnceFiles
  <2>7. Read(f)' = Read(f)
    BY <2>2 DEF Read
  <2>8. Adding(p)'
    BY <2>2, <2>4, <2>6, <2>7 DEF Adding
  <2>9. StageFits(p)'
    BY <2>4, <2>5, <2>8 DEF StageFits, Shows, HasBegun, HasOpened, HasClosed
  <2>10. \A g \in Files : WrittenByOne(g)' => Kept(g)'
    BY <1>e, <2>2, <2>3
  <2> QED BY <1>a, <2>2, <2>3, <2>5, <2>9, <2>10, OneSteps
<1>2. ASSUME NEW p \in Writers, Opens(p) PROVE FilesInv'
  <2>1. op[p].at = "begun" /\ UNCHANGED <<returned, wrote>>
    BY <1>2 DEF Opens
  <2>2. op[p] # NoOp /\ op[p] \in DoingSomething /\ op[p].file \in Files
    BY <1>a, <2>1, DoesSomething
  <2>3. PICK f \in Files, o \in {"path", "temp"} : f = op[p].file /\ o = OpensWhich(f)
    BY <2>2 DEF OpensWhich
  <2>4. PICK d : d = [op[p] EXCEPT !.at = "open", !.open = o]
    OBVIOUS
  <2>5. Step(p, d) /\ folder' = [folder EXCEPT ![f][o] = Half]
    BY <1>2, <2>3, <2>4 DEF Opens
  <2>6. /\ op'[p] = d /\ d # NoOp /\ d.at = "open" /\ d.file = f /\ d.open = o
        /\ d.adds = op[p].adds /\ d.value = op[p].value
    BY <1>b, <2>2, <2>3, <2>4, <2>5 DEF Step, DoingSomething
  <2>7. /\ folder'[f][o] = Half /\ \A g \in Files : g # f => folder'[g] = folder[g]
        /\ f # "policy" => folder'[f].path = folder[f].path /\ Read(f)' = Read(f)
    <3>0. \A c : folder' = [folder EXCEPT ![f][o] = c] =>
            /\ folder'[f][o] = c /\ \A g \in Files : g # f => folder'[g] = folder[g]
            /\ o = "temp" => folder'[f].path = folder[f].path
      BY <1>a, OtherName
    <3>1. /\ folder'[f][o] = Half /\ \A g \in Files : g # f => folder'[g] = folder[g]
          /\ o = "temp" => folder'[f].path = folder[f].path
      BY <2>5, <3>0
    <3> QED BY <2>3, <3>1 DEF OpensWhich, Read
  <2>8. p \in wrote[f] /\ op[p].adds # {} /\ ~Initializes(p)' /\ Begun(p)'
    BY <1>c, <2>1, <2>2, <2>3, <2>6 DEF Begun, Initializes
  <2>9. ASSUME WrittenByOne(f) PROVE Shows(p)'
    <3>1. Adding(p)
      BY <1>c, <2>1, <2>2, <2>3, <2>9 DEF StageFits, Shows, HasBegun
    <3>2. PICK x \in Items(f) :
            /\ op[p].adds = {x} /\ (f # "policy" => op[p].value = Read(f) \cup {x})
            /\ f \in OnceFiles => folder[f].path = Missing
      BY <2>3, <3>1 DEF Adding
    <3>3. Adding(p)'
      BY <2>6, <2>7, <3>2, FourFiles DEF Adding
    <3> QED BY <2>3, <2>6, <2>7, <3>3 DEF Shows, HasBegun, HasOpened, HasClosed
  <2>10. StageFits(p)'
    BY <2>1, <2>6, <2>8, <2>9 DEF StageFits, WrittenByOne
  <2>11. ASSUME NEW g \in Files, WrittenByOne(g)' PROVE Kept(g)'
    <3>1. CASE g # f
      BY <2>1, <2>7, <2>11, <3>1, KeptElsewhere
    <3>2. CASE g = f /\ f = "policy"
      BY <3>2, FourFiles DEF Kept
    <3>3. CASE g = f /\ f # "policy"
      <4>1. Kept(f)
        BY <2>1, <2>11, <3>3 DEF FilesInv, WrittenByOne
      <4> QED BY <2>1, <2>7, <3>3, <4>1 DEF Kept, Single
    <3> QED BY <3>1, <3>2, <3>3
  <2> QED BY <1>a, <2>1, <2>5, <2>7, <2>8, <2>10, <2>11, OneSteps
<1>3. ASSUME NEW p \in Writers, Closes(p), op[p].adds = {} PROVE FilesInv'
  <2>1. op[p].at = "open" /\ UNCHANGED wrote
    BY <1>3 DEF Closes
  <2>2. op[p] # NoOp /\ op[p] \in DoingSomething
    BY <1>a, <2>1, DoesSomething
  <2>3. op[p].file = "votes" /\ p \in wrote["votes"] /\ Initializes(p) /\ p \in wrote["proposal"]
    BY <1>3, <1>c, <2>2 DEF Begun, Initializes
  <2>4. /\ Step(p, NoOp) /\ returned' = [returned EXCEPT !["proposal"] = {"paper"}]
        /\ \A g \in Files : g # "votes" => folder'[g] = folder[g]
    BY <1>3, <1>b, <2>3 DEF Closes
  <2>5. ASSUME NEW g \in Files, WrittenByOne(g)' PROVE Kept(g)'
    <3>0. WrittenByOne(g) /\ Kept(g)
      BY <2>1, <2>5 DEF FilesInv, WrittenByOne
    <3>1. CASE g = "proposal"
      <4>1. Read("proposal") = {"paper"}
        BY <1>c, <1>d, <2>3, <3>0, <3>1, WholeIsRead DEF StageFits, ProposalSaved
      <4> QED BY <1>b, <2>1, <2>4, <2>5, <3>1, <4>1, KeptElsewhere
    <3>2. CASE g = "votes"
      <4>1. op[p].value = {} /\ op[p].open = "path" /\ folder["votes"].path = Half
        BY <1>3, <1>c, <2>1, <2>2, <2>3, <3>0, <3>2 DEF StageFits, Shows, HasOpened, Adding
      <4>2. returned["votes"] = {}
        BY <3>0, <3>2, <4>1 DEF Kept, RoomFiles, Read, Half
      <4> QED BY <1>b, <2>4, <3>2, <4>2 DEF Kept, OnceFiles
    <3>3. CASE g \notin {"proposal", "votes"}
      BY <1>b, <2>1, <2>4, <2>5, <3>3, KeptElsewhere
    <3> QED BY <3>1, <3>2, <3>3
  <2> QED BY <1>a, <1>d, <2>1, <2>3, <2>4, <2>5, OneSteps
<1>4. ASSUME NEW p \in Writers, Closes(p), op[p].adds # {}, op[p].file # "policy" PROVE FilesInv'
  <2>1. op[p].at = "open" /\ UNCHANGED wrote
    BY <1>4 DEF Closes
  <2>2. op[p] # NoOp /\ op[p] \in DoingSomething /\ op[p].file \in Files
    BY <1>a, <2>1, DoesSomething
  <2>3. PICK f \in Files : f = op[p].file /\ f # "policy" /\ p \in wrote[f]
    BY <1>4, <1>c, <2>2
  <2>4. PICK d : d = [op[p] EXCEPT !.at = "closed"]
    OBVIOUS
  <2>5. Step(p, d) /\ UNCHANGED returned /\ \A g \in Files : g # f => folder'[g] = folder[g]
    BY <1>4, <1>b, <2>3, <2>4 DEF Closes, OpensWhich
  <2>6. /\ op'[p] = d /\ d # NoOp /\ d.at = "closed" /\ d.file = f
        /\ d.adds = op[p].adds /\ d.value = op[p].value
    BY <1>b, <2>2, <2>3, <2>4, <2>5 DEF Step, DoingSomething
  <2>7. ~Initializes(p)' /\ Begun(p)'
    BY <1>4, <2>1, <2>3, <2>6 DEF Begun, Initializes
  <2>8. ASSUME WrittenByOne(f)
        PROVE  /\ Shows(p)' /\ folder'[f].path = folder[f].path
    <3>1. Adding(p) /\ op[p].open = "temp" /\ folder[f]["temp"] = Half
      BY <1>4, <1>c, <2>1, <2>2, <2>3, <2>8 DEF StageFits, Shows, HasOpened, OpensWhich
    <3>2. folder' = [folder EXCEPT ![f]["temp"] = Whole(op[p].value)]
      BY <1>4, <2>3, <3>1 DEF Closes, Contents
    <3>3. folder'[f]["temp"] = Whole(op[p].value) /\ folder'[f].path = folder[f].path
      BY <1>a, <3>2, OtherName
    <3>4. Read(f)' = Read(f)
      BY <3>3 DEF Read
    <3>5. Adding(p)'
      BY <2>3, <2>6, <3>1, <3>3, <3>4 DEF Adding
    <3> QED BY <2>3, <2>6, <3>3, <3>5 DEF Shows, HasBegun, HasOpened, HasClosed
  <2>9. StageFits(p)'
    BY <2>1, <2>6, <2>7, <2>8 DEF StageFits, WrittenByOne
  <2>10. ASSUME NEW g \in Files, WrittenByOne(g)' PROVE Kept(g)'
    <3>1. CASE g # f
      BY <2>1, <2>5, <2>10, <3>1, KeptElsewhere
    <3>2. CASE g = f
      <4>1. WrittenByOne(f) /\ Kept(f)
        BY <2>1, <2>10, <3>2 DEF FilesInv, WrittenByOne
      <4> QED BY <2>5, <2>8, <3>2, <4>1 DEF Kept, Single, Read
    <3> QED BY <3>1, <3>2
  <2> QED BY <1>a, <2>1, <2>3, <2>5, <2>7, <2>9, <2>10, OneSteps
<1>5. ASSUME NEW p \in Writers, Closes(p), op[p].adds # {}, op[p].file = "policy" PROVE FilesInv'
  <2>1. op[p].at = "open" /\ UNCHANGED wrote
    BY <1>5 DEF Closes
  <2>2. op[p] # NoOp /\ "policy" \in Files /\ p \in wrote["policy"]
    BY <1>5, <1>a, <1>c, <2>1, DoesSomething
  <2>3. /\ Step(p, NoOp) /\ returned' = [returned EXCEPT !["policy"] = returned["policy"] \cup op[p].adds]
        /\ \A g \in Files : g # "policy" => folder'[g] = folder[g]
    BY <1>5, <1>b DEF Closes, OpensWhich
  <2>4. ASSUME NEW g \in Files, WrittenByOne(g)' PROVE Kept(g)'
    <3>1. CASE g = "policy"
      BY <3>1, FourFiles DEF Kept
    <3>2. CASE g # "policy"
      BY <1>b, <2>1, <2>3, <2>4, <3>2, KeptElsewhere
    <3> QED BY <3>1, <3>2
  <2> QED BY <1>a, <2>1, <2>2, <2>3, <2>4, OneSteps
<1>6. ASSUME NEW p \in Writers, Renames(p) PROVE FilesInv'
  <2>1. op[p].at = "closed" /\ UNCHANGED wrote
    BY <1>6 DEF Renames
  <2>2. op[p] # NoOp /\ op[p] \in DoingSomething /\ op[p].file \in Files
    BY <1>a, <2>1, DoesSomething
  <2>3. PICK f \in Files : f = op[p].file /\ p \in wrote[f]
    BY <1>c, <2>2
  <2>4. CASE folder[f].temp = Missing
    <3>1. Step(p, NoOp) /\ UNCHANGED <<folder, returned>>
      BY <1>6, <2>3, <2>4 DEF Renames
    <3>2. \A g \in Files : WrittenByOne(g)' => Kept(g)'
      BY <1>e, <2>1, <3>1
    <3> QED BY <1>a, <2>1, <2>3, <3>1, <3>2, OneSteps
  <2>5. CASE folder[f].temp # Missing
    <3>1. /\ folder' = [folder EXCEPT ![f] = [path |-> folder[f].temp, temp |-> Missing]]
          /\ op' = [Renamed(f, p) EXCEPT ![p] =
                      IF f = "proposal" THEN [Renamed(f, p)[p] EXCEPT !.at = "votes"] ELSE NoOp]
          /\ returned' = IF f = "proposal" THEN returned ELSE [returned EXCEPT ![f] = returned[f] \cup op[p].adds]
      BY <1>6, <2>3, <2>5 DEF Renames
    <3>2. DOMAIN Renamed(f, p) = Writers /\ Renamed(f, p)[p] = op[p]
      BY DEF Renamed
    <3>3. op'[p] = IF f = "proposal" THEN [op[p] EXCEPT !.at = "votes"] ELSE NoOp
      BY <3>1, <3>2
    <3>4. folder'[f].path = folder[f].temp /\ \A g \in Files : g # f => folder'[g] = folder[g]
      BY <1>b, <3>1
    <3>5. ASSUME NEW q \in Writers, q # p PROVE Begun(q)' /\ StageFits(q)'
      <4>1. op'[q] = Renamed(f, p)[q]
        BY <3>1, <3>2, <3>5
      <4>2. \/ op'[q] = op[q]
            \/ /\ op[q] # NoOp /\ op[q].file = f
               /\ \E o \in {"path", "gone"} : op'[q] = [op[q] EXCEPT !.open = o]
        BY <3>5, <4>1 DEF Renamed
      <4>3. op[q] # NoOp => op[q] \in DoingSomething
        BY <1>a DEF FileTypes, OpFits
      <4>4. \/ op'[q] = op[q]
            \/ /\ op[q] # NoOp /\ op'[q] # NoOp /\ op[q].file = f /\ op'[q].file = f
               /\ op'[q].at = op[q].at /\ op'[q].adds = op[q].adds
        <5>1. ASSUME NEW o \in {"path", "gone"}, op[q] \in DoingSomething, op'[q] = [op[q] EXCEPT !.open = o]
              PROVE  /\ op'[q] \in DoingSomething /\ op'[q].file = op[q].file
                     /\ op'[q].at = op[q].at /\ op'[q].adds = op[q].adds
          BY <5>1 DEF DoingSomething
        <5>2. \A x \in DoingSomething : x # NoOp
          BY <1>b DEF DoingSomething
        <5> QED BY <4>2, <4>3, <5>1, <5>2
      <4> HIDE DEF FilesInv
      <4> QED BY <2>1, <2>3, <3>4, <3>5, <4>4, OthersStay
    <3>6. ASSUME WrittenByOne(f)
          PROVE  /\ folder[f].temp = Whole(op[p].value) /\ f # "policy"
                 /\ \E x \in Items(f) : /\ op[p].adds = {x} /\ op[p].value = Read(f) \cup {x}
                                        /\ f \in OnceFiles => op[p].value = {x}
      <4>1. Adding(p) /\ f # "policy" /\ folder[f].temp = Whole(op[p].value)
        BY <1>c, <2>1, <2>2, <2>3, <3>6 DEF StageFits, Shows, HasClosed
      <4>2. PICK x \in Items(f) : /\ op[p].adds = {x} /\ op[p].value = Read(f) \cup {x}
                                  /\ f \in OnceFiles => folder[f].path = Missing
        BY <2>3, <4>1 DEF Adding
      <4>3. f \in OnceFiles => Read(f) = {}
        BY <4>2 DEF Read, Missing
      <4> QED BY <4>1, <4>2, <4>3
    <3>7. Begun(p)' /\ StageFits(p)'
      <4>1. CASE f # "proposal"
        <5>1. op'[p] = NoOp
          BY <3>3, <4>1
        <5> QED BY <5>1 DEF Begun, StageFits, Initializes
      <4>2. CASE f = "proposal"
        <5>1. op'[p].at = "votes" /\ op'[p].file = "proposal" /\ op'[p].adds = op[p].adds
          BY <2>2, <2>3, <3>3, <4>2 DEF DoingSomething
        <5>2. op[p].adds # {}
          BY <1>c, <2>1, <2>2 DEF Begun
        <5>3. Begun(p)'
          BY <2>1, <2>3, <4>2, <5>1, <5>2 DEF Begun, Initializes
        <5>4. WrittenByOne("proposal") => ProposalSaved'
          BY <3>4, <3>6, <4>2, FourFiles DEF ProposalSaved, OnceFiles
        <5> QED BY <2>1, <5>1, <5>3, <5>4 DEF StageFits, Shows, HasBegun, HasOpened, HasClosed, WrittenByOne
      <4> QED BY <4>1, <4>2
    <3>8. ASSUME NEW g \in Files, WrittenByOne(g)' PROVE Kept(g)'
      <4>0. WrittenByOne(g) /\ Kept(g)
        BY <2>1, <3>8 DEF FilesInv, WrittenByOne
      <4>1. CASE g # f
        BY <1>b, <2>1, <3>1, <3>4, <3>8, <4>1, KeptElsewhere
      <4>2. CASE g = f
        <5>1. PICK x \in Items(f) : /\ op[p].adds = {x} /\ op[p].value = Read(f) \cup {x}
                                    /\ f \in OnceFiles => op[p].value = {x}
          BY <3>6, <4>0, <4>2
        <5>2. folder'[f].path = Whole(op[p].value) /\ Read(f)' = op[p].value
          <6>1. folder'[f].path = Whole(op[p].value)
            BY <3>4, <3>6, <4>0, <4>2
          <6> QED BY <6>1 DEF Read, Whole
        <5>3. f \in RoomFiles => returned'[f] \subseteq Read(f)'
          BY <1>b, <3>1, <4>0, <4>2, <5>1, <5>2 DEF Kept
        <5>4. f \in OnceFiles => Single(f)'
          BY <5>1, <5>2, ItemsInAll DEF Single
        <5> QED BY <4>2, <5>3, <5>4 DEF Kept
      <4> QED BY <4>1, <4>2
    <3>9. \A q \in Writers : Begun(q)' /\ StageFits(q)'
      BY <3>5, <3>7
    <3> QED BY <1>a, <3>8, <3>9 DEF FilesInv
  <2> QED BY <2>4, <2>5
<1>7. ASSUME NEW p \in Writers, InitializesVotes(p) PROVE FilesInv'
  <2>1. op[p].at = "votes"
    BY <1>7 DEF InitializesVotes
  <2>2. op[p] # NoOp
    BY <1>b, <2>1
  <2>3. op[p].file = "proposal" /\ p \in wrote["proposal"] /\ Initializes(p)
    BY <1>c, <2>1, <2>2 DEF Begun, Initializes
  <2>4. WrittenByOne("proposal") => ProposalSaved
    BY <1>c, <2>3 DEF StageFits
  <2>5. CASE folder["votes"].path # Missing
    <3>1. Step(p, NoOp) /\ returned' = [returned EXCEPT !["proposal"] = {"paper"}] /\ UNCHANGED <<folder, wrote>>
      BY <1>7, <2>5 DEF InitializesVotes
    <3>2. ASSUME NEW g \in Files, WrittenByOne(g)' PROVE Kept(g)'
      <4>1. CASE g = "proposal"
        <5>1. Read("proposal") = {"paper"}
          BY <1>d, <2>4, <3>1, <3>2, <4>1, WholeIsRead DEF WrittenByOne, ProposalSaved
        <5> QED BY <1>b, <3>1, <3>2, <4>1, <5>1, KeptElsewhere
      <4>2. CASE g # "proposal"
        BY <1>b, <3>1, <3>2, <4>2, KeptElsewhere
      <4> QED BY <4>1, <4>2
    <3> QED BY <1>a, <1>d, <2>3, <3>1, <3>2, OneSteps
  <2>6. CASE folder["votes"].path = Missing
    <3>1. PICK d : d = [at |-> "open", file |-> "votes", adds |-> {}, value |-> {}, open |-> "path"]
      OBVIOUS
    <3>2. /\ Step(p, d) /\ UNCHANGED returned /\ folder' = [folder EXCEPT !["votes"]["path"] = Half]
          /\ wrote' = [wrote EXCEPT !["votes"] = wrote["votes"] \cup {p}]
      BY <1>7, <2>6, <3>1 DEF InitializesVotes
    <3>3. folder'["votes"].path = Half /\ \A g \in Files : g # "votes" => folder'[g] = folder[g]
      BY <1>a, <1>d, <3>2, OtherName
    <3>4. p \in wrote'["votes"] /\ p \in wrote'["proposal"] /\ \A g \in Files : wrote[g] \subseteq wrote'[g]
      BY <1>b, <1>d, <2>3, <3>2
    <3>5. /\ op'[p] = d /\ d # NoOp /\ d.at = "open" /\ d.file = "votes" /\ d.adds = {} /\ d.value = {}
          /\ d.open = "path"
      BY <1>b, <3>1, <3>2 DEF Step
    <3>6. Begun(p)' /\ Shows(p)'
      BY <3>3, <3>4, <3>5 DEF Begun, Initializes, Shows, HasBegun, HasOpened, HasClosed
    <3>7. WrittenByOne("proposal")' => ProposalSaved'
      BY <1>d, <2>4, <3>3, <3>4 DEF WrittenByOne, ProposalSaved
    <3>8. StageFits(p)'
      BY <3>6, <3>7 DEF StageFits
    <3>9. ASSUME NEW g \in Files, WrittenByOne(g)' PROVE Kept(g)'
      <4>1. CASE g # "votes"
        BY <3>2, <3>3, <3>4, <3>9, <4>1, KeptElsewhere
      <4>2. CASE g = "votes"
        <5>1. Kept("votes")
          BY <1>d, <3>4, <3>9, <4>2 DEF FilesInv, WrittenByOne
        <5>2. returned["votes"] = {}
          BY <2>6, <5>1 DEF Kept, RoomFiles, Read, Missing
        <5> QED BY <3>2, <4>2, <5>2 DEF Kept, OnceFiles
      <4> QED BY <4>1, <4>2
    <3> QED BY <1>a, <1>d, <3>2, <3>3, <3>4, <3>6, <3>8, <3>9, OneSteps
  <2> QED BY <2>5, <2>6
<1>8. ASSUME NEW p \in Writers, Dies(p) PROVE FilesInv'
  <2>1. Step(p, NoOp) /\ UNCHANGED <<folder, returned, wrote>> /\ op[p] # NoOp
    BY <1>8 DEF Dies
  <2>2. PICK f \in Files : f = op[p].file /\ p \in wrote[f]
    BY <1>a, <1>c, <2>1 DEF FileTypes, OpFits, DoingSomething
  <2>3. \A g \in Files : WrittenByOne(g)' => Kept(g)'
    BY <1>e, <2>1
  <2> QED BY <1>a, <2>1, <2>2, <2>3, OneSteps
<1>9. ASSUME UNCHANGED fileVars PROVE FilesInv'
  <2>1. UNCHANGED <<folder, op, returned, wrote>>
    BY <1>9 DEF fileVars
  <2>2. \A g \in Files : WrittenByOne(g)' => Kept(g)'
    BY <1>e, <2>1
  <2>3. \A p \in Writers : (Begun(p) <=> Begun(p)') /\ (StageFits(p) <=> StageFits(p)')
    BY <2>1 DEF Begun, StageFits, Shows, HasBegun, HasOpened, HasClosed, Adding, Read, Initializes,
                ProposalSaved, WrittenByOne
  <2> QED BY <1>a, <2>2, <2>3 DEF FilesInv
<1> QED BY <1>1, <1>2, <1>3, <1>4, <1>5, <1>6, <1>7, <1>8, <1>9 DEF FilesNext

\* What methods returned from saving is read.
LEMMA FilesSurvive == FilesInv => RecordsSurvive
<1> SUFFICES ASSUME FilesInv PROVE RecordsSurvive
  OBVIOUS
<1>1. ASSUME NEW f \in {"proposal", "decision"}, WrittenByOne(f)
      PROVE  folder[f].path.is \in {"missing", "whole"} /\ Cardinality(Read(f)) <= 1
  <2>0. Single(f)
    BY <1>1 DEF FilesInv, Kept, OnceFiles, Files
  <2>1. CASE folder[f].path = Missing
    BY <2>1, FS_EmptySet DEF Read, Missing
  <2>2. ASSUME NEW x \in AllItems, folder[f].path = Whole({x})
        PROVE  folder[f].path.is \in {"missing", "whole"} /\ Cardinality(Read(f)) <= 1
    <3>1. Cardinality({x}) = 1
      BY FS_Singleton
    <3> QED BY <2>2, <3>1 DEF Read, Whole
  <2> QED BY <2>0, <2>1, <2>2 DEF Single
<1>2. \A f \in {"proposal", "votes", "decision"} : WrittenByOne(f) => returned[f] \subseteq Read(f)
  BY DEF FilesInv, Kept, RoomFiles, Files
<1> QED BY <1>1, <1>2 DEF RecordsSurvive
-------------------------------------------------------------------------------
(* Feature flags that threads share *)

\* The values that flags are given, the objects that keep them, and what threads may be doing.
FlagValues == {NoValue} \cup {Text(x) : x \in Texts}
FlagObjects == [overrides : [Flags -> FlagValues], config : [Flags -> FlagValues]]
ThreadStates ==
  {Calm} \cup [at : {"loads"}, next : {"rests", "creates"}]
  \cup [at : {"creates"}, config : [Flags -> FlagValues]] \cup [at : {"has"}, flags : Nat]

\* A configuration that was loaded or set: its flags and a number.
ConfigFits(c) == c.flags \in [Flags -> FlagValues] /\ c.retries \in Nat

\* What is promised is set on the shared flags, which no thread is about to replace with some
\* that it makes.
FlagsInv ==
  /\ instances \in Seq(FlagObjects) /\ Len(instances) <= MaxInstances
  /\ global_flags = NoFlags \/ global_flags \in DOMAIN instances
  /\ thread \in [AppThreads -> ThreadStates]
  /\ \A t \in AppThreads : thread[t].at = "has" => thread[t].flags \in DOMAIN instances
  /\ global_config # NoSettings => ConfigFits(global_config)
  /\ promised \in [Flags -> FlagValues]
  /\ \A f \in Flags : promised[f] # NoValue =>
       /\ global_flags \in DOMAIN instances /\ \A u \in AppThreads : ~Makes(u)
       /\ instances[global_flags].overrides[f] = promised[f]

\* Nobody has asked for any.
LEMMA InitFlags == FlagsInit => FlagsInv
<1> SUFFICES ASSUME FlagsInit PROVE FlagsInv
  OBVIOUS
<1>1. <<>> \in Seq(FlagObjects)
  OBVIOUS
<1>2. Len(instances) <= MaxInstances
  BY FlagsAssumption DEF FlagsInit
<1>3. promised \in [Flags -> FlagValues] /\ \A f \in Flags : promised[f] = NoValue
  BY DEF FlagsInit, NoOverrides, FlagValues
<1>4. thread \in [AppThreads -> ThreadStates] /\ \A t \in AppThreads : thread[t].at = "rests"
  BY DEF FlagsInit, ThreadStates, Calm
<1> QED BY <1>1, <1>2, <1>3, <1>4 DEF FlagsInit, FlagsInv

\* What is loaded and what the application makes gives values to flags.
LEMMA ConfigValues ==
  /\ \A b \in BOOLEAN : ConfigFits(load_config(b))
  /\ \A c \in CustomFlags : ConfigFits(Custom(c))
<1>1. ASSUME NEW b \in BOOLEAN PROVE ConfigFits(load_config(b))
  <2>1. load_config(b).flags \in [Flags -> FlagValues]
    BY TextsAssumption DEF load_config, FlagValues
  <2>2. Retries(b) \in Nat
    BY TextsAssumption DEF Retries, DefaultRetries
  <2> QED BY <2>1, <2>2 DEF load_config, ConfigFits
<1>2. ASSUME NEW c \in CustomFlags PROVE ConfigFits(Custom(c))
  BY TextsAssumption DEF Custom, FlagValues, ConfigFits, DefaultRetries
<1> QED BY <1>1, <1>2

\* The flags objects stay, and one more comes.
LEMMA OneMore ==
  ASSUME instances \in Seq(FlagObjects), NEW o \in FlagObjects
  PROVE  /\ Append(instances, o) \in Seq(FlagObjects) /\ Len(Append(instances, o)) = Len(instances) + 1
         /\ DOMAIN instances \subseteq DOMAIN Append(instances, o)
         /\ Len(instances) + 1 \in DOMAIN Append(instances, o)
         /\ \A i \in DOMAIN instances : Append(instances, o)[i] = instances[i]
BY AppendProperties

\* A thread goes to another state, the others stay in theirs.
LEMMA DoesFacts ==
  ASSUME FlagsInv, NEW t \in AppThreads, NEW s \in ThreadStates, Does(t, s)
  PROVE  /\ thread' \in [AppThreads -> ThreadStates] /\ thread'[t] = s
         /\ \A u \in AppThreads : u # t => thread'[u] = thread[u]
BY DEF Does, FlagsInv

\* The states a thread goes to.
LEMMA StatesToGoTo ==
  /\ \A next \in {"rests", "creates"} : [at |-> "loads", next |-> next] \in ThreadStates
  /\ \A config \in [Flags -> FlagValues] : [at |-> "creates", config |-> config] \in ThreadStates
  /\ \A n \in Nat : [at |-> "has", flags |-> n] \in ThreadStates
<1>1. \A next \in {"rests", "creates"} : [at |-> "loads", next |-> next] \in ThreadStates
  BY DEF ThreadStates
<1>2. \A config \in [Flags -> FlagValues] : [at |-> "creates", config |-> config] \in ThreadStates
  BY DEF ThreadStates
<1>3. \A n \in Nat : [at |-> "has", flags |-> n] \in ThreadStates
  BY DEF ThreadStates
<1> QED BY <1>1, <1>2, <1>3

\* What threads do keeps it.
LEMMA FlagsStep == FlagsInv /\ [FlagsNext]_flagVars => FlagsInv'
<1> SUFFICES ASSUME FlagsInv, [FlagsNext]_flagVars PROVE FlagsInv'
  OBVIOUS
\* Steps that leave the objects alone, in which no thread begins to make flags but where
\* there are none.
<1>1. ASSUME NEW t \in AppThreads, NEW s \in ThreadStates, Does(t, s), UNCHANGED <<instances, global_flags, promised>>,
             global_config' # NoSettings => ConfigFits(global_config'),
             s.at = "has" => s.flags \in DOMAIN instances,
             \/ s.at \in {"rests", "has"}
             \/ s.at = "loads" /\ s.next # "creates"
             \/ Makes(t) \/ global_flags = NoFlags
      PROVE  FlagsInv'
  <2>1. /\ thread' \in [AppThreads -> ThreadStates] /\ thread'[t] = s
        /\ \A u \in AppThreads : u # t => thread'[u] = thread[u]
    BY <1>1, DoesFacts
  <2>2. \A u \in AppThreads : thread'[u].at = "has" => thread'[u].flags \in DOMAIN instances
    BY <1>1, <2>1 DEF FlagsInv
  <2>3. ASSUME NEW f \in Flags, promised[f] # NoValue
        PROVE  \A u \in AppThreads : ~Makes(u)'
    <3>1. global_flags \in DOMAIN instances /\ (\A u \in AppThreads : ~Makes(u))
      BY <2>3 DEF FlagsInv
    <3>2. global_flags # NoFlags
      BY <3>1, FlagsAssumption DEF FlagsInv
    <3>3. ~Makes(t)'
      BY <1>1, <2>1, <3>1, <3>2 DEF Makes
    <3>4. \A u \in AppThreads : u # t => (Makes(u)' <=> Makes(u))
      BY <2>1 DEF Makes
    <3> QED BY <3>1, <3>3, <3>4
  <2> QED BY <1>1, <2>1, <2>2, <2>3 DEF FlagsInv
<1>2. ASSUME NEW c, ConfigFits(c), set_config(c) PROVE FlagsInv'
  BY <1>2 DEF set_config, FlagsInv, Makes
<1>3. Calm \in ThreadStates /\ Calm.at = "rests"
  BY DEF ThreadStates, Calm
<1>4. ASSUME NEW t \in AppThreads, NEW next \in {"rests", "creates"}, get_config(t, next),
             next = "rests" \/ global_flags = NoFlags
      PROVE  FlagsInv'
  <2>1. UNCHANGED <<global_config, instances, global_flags, promised>>
    BY <1>4 DEF get_config
  <2>2. CASE global_config = NoSettings
    <3>1. PICK s \in ThreadStates : s = [at |-> "loads", next |-> next] /\ s.at = "loads" /\ s.next = next
      BY StatesToGoTo
    <3>2. Does(t, s)
      BY <1>4, <2>2, <3>1 DEF get_config
    <3> QED BY <1>1, <1>4, <2>1, <2>2, <3>1, <3>2
  <2>3. CASE global_config # NoSettings /\ next = "rests"
    <3>1. Does(t, Calm)
      BY <1>4, <2>3 DEF get_config
    <3>2. ConfigFits(global_config')
      BY <2>1, <2>3 DEF FlagsInv
    <3> QED BY <1>1, <1>3, <2>1, <3>1, <3>2
  <2>4. CASE global_config # NoSettings /\ next # "rests"
    <3>1. global_config.flags \in [Flags -> FlagValues] /\ global_flags = NoFlags
      BY <1>4, <2>4 DEF FlagsInv, ConfigFits
    <3>2. PICK s \in ThreadStates : s = [at |-> "creates", config |-> global_config.flags] /\ s.at = "creates"
      BY <3>1, StatesToGoTo
    <3>3. Does(t, s)
      BY <1>4, <2>4, <3>2 DEF get_config
    <3>4. ConfigFits(global_config')
      BY <2>1, <2>4 DEF FlagsInv
    <3> QED BY <1>1, <2>1, <3>1, <3>2, <3>3, <3>4
  <2> QED BY <1>4, <2>2, <2>3, <2>4
<1>5. ASSUME NEW t \in AppThreads, Loads(t) PROVE FlagsInv'
  <2>1. /\ thread[t].at = "loads" /\ global_config' = load_config(FALSE)
        /\ UNCHANGED <<instances, global_flags, promised>>
    BY <1>5 DEF Loads
  <2>2. /\ thread[t].next \in {"rests", "creates"} /\ ConfigFits(global_config')
        /\ global_config'.flags \in [Flags -> FlagValues]
    <3>1. thread[t] \in ThreadStates
      BY DEF FlagsInv
    <3>2. thread[t].next \in {"rests", "creates"}
      BY <2>1, <3>1 DEF ThreadStates, Calm
    <3>3. ConfigFits(global_config')
      BY <2>1, ConfigValues
    <3> QED BY <3>2, <3>3 DEF ConfigFits
  <2>3. CASE thread[t].next = "rests"
    <3>1. Does(t, Calm)
      BY <1>5, <2>3 DEF Loads
    <3> QED BY <1>1, <1>3, <2>1, <2>2, <3>1
  <2>4. CASE thread[t].next = "creates"
    <3>1. PICK s \in ThreadStates : s = [at |-> "creates", config |-> global_config'.flags] /\ s.at = "creates"
      BY <2>2, StatesToGoTo
    <3>2. Does(t, s) /\ Makes(t)
      BY <1>5, <2>1, <2>4, <3>1 DEF Loads, Makes
    <3> QED BY <1>1, <2>1, <2>2, <3>1, <3>2
  <2> QED BY <2>2, <2>3, <2>4
<1>6. ASSUME NEW t \in AppThreads, get_feature_flags(t) PROVE FlagsInv'
  <2>1. CASE global_flags # NoFlags
    <3>1. Does(t, [at |-> "has", flags |-> global_flags]) /\ UNCHANGED <<global_config, instances, global_flags, promised>>
      BY <1>6, <2>1 DEF get_feature_flags, AlreadyThere
    <3>2. global_flags \in DOMAIN instances /\ global_flags \in Nat
      BY <2>1 DEF FlagsInv
    <3>3. PICK s \in ThreadStates : s = [at |-> "has", flags |-> global_flags] /\ s.at = "has" /\ s.flags = global_flags
      BY <3>2, StatesToGoTo
    <3>4. global_config' # NoSettings => ConfigFits(global_config')
      BY <3>1 DEF FlagsInv
    <3> QED BY <1>1, <3>1, <3>2, <3>3, <3>4
  <2>2. CASE global_flags = NoFlags
    BY <1>4, <1>6, <2>2 DEF get_feature_flags, AlreadyThere
  <2> QED BY <2>1, <2>2
<1>7. ASSUME NEW t \in AppThreads, Creates(t) PROVE FlagsInv'
  <2>1. Makes(t) /\ thread[t].config \in [Flags -> FlagValues] /\ NoOverrides \in [Flags -> FlagValues]
    BY <1>7 DEF Creates, Makes, FlagsInv, ThreadStates, Calm, NoOverrides, FlagValues
  <2>2. PICK o \in FlagObjects : o = [overrides |-> NoOverrides, config |-> thread[t].config]
    BY <2>1 DEF FlagObjects
  <2>3. /\ Len(instances) < MaxInstances /\ instances' = Append(instances, o)
        /\ global_flags' = Len(instances) + 1 /\ UNCHANGED <<global_config, promised>>
        /\ Does(t, [at |-> "has", flags |-> Len(instances) + 1])
    BY <1>7, <2>2 DEF Creates
  <2>4. /\ instances' \in Seq(FlagObjects) /\ Len(instances') = Len(instances) + 1
        /\ DOMAIN instances \subseteq DOMAIN instances' /\ Len(instances) + 1 \in DOMAIN instances'
    BY <2>2, <2>3, OneMore DEF FlagsInv
  <2>5. Len(instances) \in Nat /\ Len(instances') <= MaxInstances
    BY <2>3, <2>4, FlagsAssumption, LenProperties DEF FlagsInv
  <2>6. PICK s \in ThreadStates :
          s = [at |-> "has", flags |-> Len(instances) + 1] /\ s.at = "has" /\ s.flags = Len(instances) + 1
    <3>1. Len(instances) + 1 \in Nat
      BY <2>5
    <3> QED BY <3>1, StatesToGoTo
  <2>7. /\ thread' \in [AppThreads -> ThreadStates] /\ thread'[t] = s
        /\ \A u \in AppThreads : u # t => thread'[u] = thread[u]
    BY <2>3, <2>6, DoesFacts
  <2>8. \A u \in AppThreads : thread'[u].at = "has" => thread'[u].flags \in DOMAIN instances'
    BY <2>4, <2>6, <2>7 DEF FlagsInv
  <2>9. \A f \in Flags : promised[f] = NoValue
    BY <2>1 DEF FlagsInv
  <2> QED BY <2>3, <2>4, <2>5, <2>7, <2>8, <2>9 DEF FlagsInv
<1>8. ASSUME NEW c \in CustomFlags, set_feature_flags(c) PROVE FlagsInv'
  <2>1. PICK o \in FlagObjects : o = [overrides |-> NoOverrides, config |-> Custom(c).flags]
    BY ConfigValues DEF ConfigFits, FlagObjects, NoOverrides, FlagValues
  <2>2. /\ Len(instances) < MaxInstances /\ instances' = Append(instances, o)
        /\ global_flags' = Len(instances) + 1 /\ promised' = NoOverrides /\ UNCHANGED <<global_config, thread>>
    BY <1>8, <2>1 DEF set_feature_flags
  <2>3. /\ instances' \in Seq(FlagObjects) /\ Len(instances') = Len(instances) + 1
        /\ DOMAIN instances \subseteq DOMAIN instances' /\ Len(instances) + 1 \in DOMAIN instances'
    BY <2>1, <2>2, OneMore DEF FlagsInv
  <2>4. Len(instances') <= MaxInstances
    BY <2>2, <2>3, FlagsAssumption, LenProperties DEF FlagsInv
  <2>5. promised' \in [Flags -> FlagValues] /\ \A f \in Flags : promised'[f] = NoValue
    BY <2>2 DEF NoOverrides, FlagValues
  <2> QED BY <2>2, <2>3, <2>4, <2>5 DEF FlagsInv
<1>9. ASSUME NEW t \in AppThreads, NEW f \in Flags, NEW v \in {NoValue} \cup {Text(x) : x \in FlagTexts},
             set_flag(t, f, v)
      PROVE  FlagsInv'
  <2>1. v \in FlagValues
    BY TextsAssumption DEF FlagValues
  <2>2. PICK i \in DOMAIN instances : i = thread[t].flags
    BY <1>9 DEF set_flag, FlagsInv
  <2>3. PICK o \in FlagObjects :
          /\ o = [instances[i] EXCEPT !.overrides = [instances[i].overrides EXCEPT ![f] = v]]
          /\ o.overrides[f] = v /\ \A g \in Flags : g # f => o.overrides[g] = instances[i].overrides[g]
    <3>1. instances[i] \in FlagObjects
      BY <2>2, ElementOfSeq DEF FlagsInv
    <3>2. PICK old \in [Flags -> FlagValues] : old = instances[i].overrides
      BY <3>1 DEF FlagObjects
    <3>3. PICK ov \in [Flags -> FlagValues] : ov = [old EXCEPT ![f] = v]
      BY <2>1
    <3>4. ov[f] = v /\ \A g \in Flags : g # f => ov[g] = instances[i].overrides[g]
      BY <3>2, <3>3
    <3>5. /\ [instances[i] EXCEPT !.overrides = ov] \in FlagObjects
          /\ [instances[i] EXCEPT !.overrides = ov].overrides = ov
      BY <3>1 DEF FlagObjects
    <3> QED BY <3>2, <3>3, <3>4, <3>5
  <2>4. /\ instances' = [instances EXCEPT ![i] = o] /\ UNCHANGED <<global_config, global_flags>> /\ Does(t, Calm)
        /\ promised' = IF i = global_flags /\ ~\E u \in AppThreads : Makes(u)
                       THEN [promised EXCEPT ![f] = v] ELSE promised
    BY <1>9, <2>2, <2>3 DEF set_flag
  <2>5. /\ instances' \in Seq(FlagObjects) /\ Len(instances') = Len(instances) /\ DOMAIN instances' = DOMAIN instances
        /\ instances'[i] = o /\ \A j \in DOMAIN instances : j # i => instances'[j] = instances[j]
    BY <2>2, <2>4, ExceptSeq DEF FlagsInv
  <2>6. /\ thread' \in [AppThreads -> ThreadStates] /\ thread'[t] = Calm
        /\ \A u \in AppThreads : u # t => thread'[u] = thread[u]
    BY <1>3, <2>4, DoesFacts
  <2>7. \A u \in AppThreads : thread'[u].at = "has" => thread'[u].flags \in DOMAIN instances'
    BY <1>3, <2>5, <2>6 DEF FlagsInv
  <2>8. \A u \in AppThreads : Makes(u)' => Makes(u)
    BY <1>3, <2>6 DEF Makes
  <2>9. promised' \in [Flags -> FlagValues]
    BY <2>1, <2>4 DEF FlagsInv
  <2>10. ASSUME NEW g \in Flags, promised'[g] # NoValue
         PROVE  /\ global_flags' \in DOMAIN instances' /\ \A u \in AppThreads : ~Makes(u)'
                /\ instances'[global_flags'].overrides[g] = promised'[g]
    <3>1. CASE i = global_flags /\ ~\E u \in AppThreads : Makes(u)
      <4>1. promised' = [promised EXCEPT ![f] = v]
        BY <2>4, <3>1
      <4>2. g = f => promised'[g] = v
        BY <4>1 DEF FlagsInv
      <4>3. g # f => promised'[g] = promised[g] /\ instances[i].overrides[g] = promised[g]
        BY <2>10, <3>1, <4>1 DEF FlagsInv
      <4> QED BY <2>2, <2>3, <2>4, <2>5, <2>8, <3>1, <4>2, <4>3
    <3>2. CASE ~(i = global_flags /\ ~\E u \in AppThreads : Makes(u))
      <4>1. promised' = promised
        BY <2>4, <3>2
      <4>2. /\ global_flags \in DOMAIN instances /\ \A u \in AppThreads : ~Makes(u)
            /\ instances[global_flags].overrides[g] = promised[g]
        BY <2>10, <4>1 DEF FlagsInv
      <4> QED BY <2>4, <2>5, <2>8, <3>2, <4>1, <4>2
    <3> QED BY <3>1, <3>2
  <2>11. global_config' # NoSettings => ConfigFits(global_config')
    BY <2>4 DEF FlagsInv
  <2>12. Len(instances') <= MaxInstances /\ (global_flags' = NoFlags \/ global_flags' \in DOMAIN instances')
    BY <2>4, <2>5 DEF FlagsInv
  <2> QED BY <2>5, <2>6, <2>7, <2>9, <2>10, <2>11, <2>12 DEF FlagsInv
<1>10. ASSUME UNCHANGED flagVars PROVE FlagsInv'
  BY <1>10 DEF flagVars, FlagsInv, Makes
<1>11. \A c \in CustomFlags : ConfigFits(Custom(c))
  BY ConfigValues
<1>12. ConfigFits(load_config(TRUE))
  BY ConfigValues
<1>13. ASSUME NEW t \in AppThreads, thread[t].at = "rests", get_config(t, "rests") PROVE FlagsInv'
  BY <1>4, <1>13
<1> QED
  BY <1>2, <1>5, <1>6, <1>7, <1>8, <1>9, <1>10, <1>11, <1>12, <1>13 DEF FlagsNext

\* It has what the type invariant asks for.
LEMMA FlagsTypes == FlagsInv => FlagsTypeOK
<1> SUFFICES ASSUME FlagsInv PROVE FlagsTypeOK
  OBVIOUS
<1>1. FlagValues \subseteq Values
  BY DEF FlagValues, Values, Text
<1>2. \A w : w \in [Flags -> FlagValues] => w \in [Flags -> Values]
  BY <1>1
<1>3. ASSUME NEW i \in DOMAIN instances
      PROVE  instances[i] \in [overrides : [Flags -> Values], config : [Flags -> Values]]
  <2>1. instances[i] \in FlagObjects
    BY ElementOfSeq DEF FlagsInv
  <2> QED BY <1>2, <2>1 DEF FlagObjects
<1>4. ASSUME NEW t \in AppThreads PROVE thread[t].at \in {"rests", "loads", "creates", "has"}
  BY DEF FlagsInv, ThreadStates, Calm
<1> QED BY <1>2, <1>3, <1>4 DEF FlagsInv, FlagsTypeOK, ConfigFits

\* The first of the places has the flag, whether it is asked for or listed.
LEMMA FirstPlace ==
  ASSUME NEW i, NEW f \in Flags
  PROVE  /\ get_all_flags(i)[f] = get_value(i, f)
         /\ instances[i].overrides[f] # NoValue => get_value(i, f) = instances[i].overrides[f]
<1> DEFINE a == instances[i].overrides[f]
           b == FromEnv(f)
           c == instances[i].config[f]
           places == <<a, b, c>>
           First(n) == places[n] # NoValue /\ \A m \in 1..(n - 1) : places[m] = NoValue
<1>1. get_all_flags(i)[f] = IF a # NoValue THEN a ELSE IF b # NoValue THEN b ELSE c
  BY DEF get_all_flags, Over
<1>2. places[1] = a /\ places[2] = b /\ places[3] = c
  OBVIOUS
<1>3. get_value(i, f) = IF \A n \in 1..3 : places[n] = NoValue THEN NoValue ELSE places[CHOOSE n \in 1..3 : First(n)]
  BY DEF get_value
<1> HIDE DEF places
<1>4. CASE a # NoValue
  <2>1. First(1) /\ \A n \in 1..3 : First(n) => n = 1
    BY <1>2, <1>4
  <2>2. (CHOOSE n \in 1..3 : First(n)) = 1
    BY <2>1
  <2> QED BY <1>1, <1>2, <1>3, <1>4, <2>2
<1>5. CASE a = NoValue /\ b # NoValue
  <2>1. First(2) /\ \A n \in 1..3 : First(n) => n = 2
    BY <1>2, <1>5
  <2>2. (CHOOSE n \in 1..3 : First(n)) = 2
    BY <2>1
  <2> QED BY <1>1, <1>2, <1>3, <1>5, <2>2
<1>6. CASE a = NoValue /\ b = NoValue /\ c # NoValue
  <2>1. First(3) /\ \A n \in 1..3 : First(n) => n = 3
    BY <1>2, <1>6
  <2>2. (CHOOSE n \in 1..3 : First(n)) = 3
    BY <2>1
  <2> QED BY <1>1, <1>2, <1>3, <1>6, <2>2
<1>7. CASE a = NoValue /\ b = NoValue /\ c = NoValue
  <2>1. \A n \in 1..3 : places[n] = NoValue
    BY <1>2, <1>7
  <2> QED BY <1>1, <1>3, <1>7, <2>1
<1> QED BY <1>4, <1>5, <1>6, <1>7

\* The invariant has what is promised.
LEMMA FlagsAreHeld == FlagsInv => FlagsHold
<1> SUFFICES ASSUME FlagsInv PROVE FlagsHold
  OBVIOUS
<1>1. ASSUME NEW f \in Flags, promised[f] # NoValue PROVE get_value(global_flags, f) = promised[f]
  <2>1. instances[global_flags].overrides[f] = promised[f]
    BY <1>1 DEF FlagsInv
  <2> QED BY <1>1, <2>1, FirstPlace
<1> QED BY <1>1, FirstPlace DEF FlagsHold
-------------------------------------------------------------------------------
(* Streams of tools, with ids of their own or shared ones *)

OwnCallIds == \A c, d \in ToolCalls : call_id[c] = call_id[d] => c = d

FramePlaces == {"created", "entering", "step", "error", "progress", "output", "result", "cancelled",
           "ended", "leaving", "gone"}
StreamStates == [tool : Tools \cup {"none"}, at : FramePlaces, step : 0..ToolSteps]
StreamHandlers ==
  [last : Int, ordered : BOOLEAN, result : {"none", "RESULT", "CANCELLED"}, cancelled : BOOLEAN]
Entered(g) == g.at \notin {"created", "entering", "gone"}

\* The tool a stream has by where it is, and how far it can be in its steps.
ToolFits(g) ==
  /\ g.at = "entering" => g.tool \in Tools
  /\ g.at \in {"step", "progress", "output", "result", "cancelled"} => g.tool \in Tools \ {"unknown"}
  /\ g.at = "error" => g.tool = "unknown"
  /\ g.at = "output" => g.tool # "long_computation"
  /\ g.at \in {"progress", "output"} => g.step < ToolSteps

\* The frames sent since a cancellation: the step in which it came is finished, and then the
\* stream sees it.
FewAreLate(g, l) ==
  /\ l <= 3 /\ (g.at \in {"created", "entering"} => l = -1)
  /\ g.at \in {"progress", "error"} => l <= 0
  /\ g.at = "output" => l <= 1
  /\ g.at \in {"step", "result", "cancelled"} => l <= 2

\* The last frame's number, before the next's.
FramesFit(g, h) ==
  /\ g.at \in {"created", "entering", "error"} => h.last = -1 /\ h.ordered = TRUE
  /\ g.at \in {"step", "progress", "result", "cancelled"} =>
       h.last < 2 * g.step /\ (g.tool = "long_computation" => h.last < g.step)
  /\ g.at = "output" => h.last < 2 * g.step + 1
  /\ h.ordered = TRUE \/ (g.tool = "file_search" /\ h.cancelled = TRUE)

\* A call's stream, its reader, what is counted of its lateness and its event.
CallFine(g, h, l, e) ==
  /\ g \in StreamStates /\ h \in StreamHandlers /\ l \in Int
  /\ ToolFits(g) /\ FewAreLate(g, l) /\ FramesFit(g, h)
  /\ Entered(g) /\ l >= 0 => e = "set"

ToolsInv ==
  /\ DOMAIN generator = ToolCalls /\ DOMAIN handler = ToolCalls /\ DOMAIN late = ToolCalls
  /\ cancel_events \in [CallIds -> {"none", "clear", "set"}]
  /\ \A c \in ToolCalls : CallFine(generator[c], handler[c], late[c], cancel_events[call_id[c]])

\* No stream has begun.
LEMMA InitTools == ToolInit => ToolsInv
<1> SUFFICES ASSUME ToolInit PROVE ToolsInv
  OBVIOUS
<1>1. ToolSteps \in Nat
  BY ToolAssumption
<1>2. [tool |-> "none", at |-> "created", step |-> 0] \in StreamStates
  BY <1>1 DEF StreamStates, FramePlaces
<1>3. NewHandler \in StreamHandlers /\ NewHandler.last = -1 /\ NewHandler.ordered = TRUE
  BY DEF NewHandler, StreamHandlers
<1>4. CallFine([tool |-> "none", at |-> "created", step |-> 0], NewHandler, -1, "none")
  BY <1>2, <1>3 DEF CallFine, ToolFits, FewAreLate, FramesFit, Entered
<1>5. \A c \in ToolCalls : call_id[c] \in CallIds
  BY DEF CallIds
<1>6. cancel_events \in [CallIds -> {"none", "clear", "set"}]
  BY DEF ToolInit
<1>7. ASSUME NEW c \in ToolCalls PROVE CallFine(generator[c], handler[c], late[c], cancel_events[call_id[c]])
  <2>1. /\ generator[c] = [tool |-> "none", at |-> "created", step |-> 0] /\ handler[c] = NewHandler
        /\ late[c] = -1 /\ cancel_events[call_id[c]] = "none"
    BY <1>5, <1>7 DEF ToolInit
  <2> QED BY <1>4, <2>1
<1>8. DOMAIN generator = ToolCalls /\ DOMAIN handler = ToolCalls /\ DOMAIN late = ToolCalls
  BY DEF ToolInit
<1> QED BY <1>6, <1>7, <1>8 DEF ToolsInv

\* Fields of a stream that goes on.
LEMMA StreamFields ==
  ASSUME NEW g \in StreamStates, NEW where \in FramePlaces
  PROVE  /\ [g EXCEPT !.at = where] \in StreamStates /\ [g EXCEPT !.at = where].at = where
         /\ [g EXCEPT !.at = where].tool = g.tool /\ [g EXCEPT !.at = where].step = g.step
BY DEF StreamStates

\* A stream that goes on somewhere.
LEMMA GoingOn ==
  ASSUME ToolsInv, NEW c \in ToolCalls, NEW where \in FramePlaces, GoesOn(c, where)
  PROVE  \E g \in StreamStates :
           /\ generator' = [generator EXCEPT ![c] = g] /\ g.at = where
           /\ g.tool = generator[c].tool /\ g.step = generator[c].step
<1>1. PICK old \in StreamStates : old = generator[c]
  BY DEF ToolsInv, CallFine
<1>2. PICK g \in StreamStates : /\ g = [old EXCEPT !.at = where] /\ g.at = where
                           /\ g.tool = old.tool /\ g.step = old.step
  BY StreamFields
<1>3. generator' = [generator EXCEPT ![c] = g]
  BY <1>1, <1>2 DEF GoesOn, ToolsInv
<1> QED BY <1>1, <1>2, <1>3

\* The next step of a stream, from one of its steps.
LEMMA NextFields ==
  ASSUME NEW g \in StreamStates, g.step < ToolSteps
  PROVE  LET r == [g EXCEPT !.at = "step", !.step = g.step + 1]
         IN  r \in StreamStates /\ r.at = "step" /\ r.tool = g.tool /\ r.step = g.step + 1
<1>1. ToolSteps \in Nat /\ g.step \in 0..ToolSteps /\ g.step + 1 \in 0..ToolSteps
  BY ToolAssumption DEF StreamStates
<1>2. PICK n \in 0..ToolSteps : n = g.step + 1
  BY <1>1
<1>3. LET r == [g EXCEPT !.at = "step", !.step = n]
      IN  r \in StreamStates /\ r.at = "step" /\ r.tool = g.tool /\ r.step = n
  BY <1>2 DEF StreamStates, FramePlaces
<1> QED BY <1>2, <1>3

\* A reader that handles a frame; those in order follow the last one.
LEMMA HandlesFrame ==
  ASSUME NEW h \in StreamHandlers, NEW kind \in {"PROGRESS", "OUTPUT", "RESULT", "CANCELLED", "ERROR"}, NEW n \in Int
  PROVE  /\ Handled(h, kind, n) \in StreamHandlers /\ Handled(h, kind, n).last = n
         /\ h.ordered = TRUE /\ n > h.last => Handled(h, kind, n).ordered = TRUE
         /\ h.cancelled = TRUE \/ kind = "CANCELLED" => Handled(h, kind, n).cancelled = TRUE
<1>1. h.last \in Int /\ h.ordered \in BOOLEAN /\ h.cancelled \in BOOLEAN
  BY DEF StreamHandlers
<1>2. (h.ordered /\ n > h.last) \in BOOLEAN /\ (h.cancelled \/ kind = "CANCELLED") \in BOOLEAN
  OBVIOUS
<1>3. h.result \in {"none", "RESULT", "CANCELLED"}
  BY DEF StreamHandlers
<1>4. (IF kind \in {"RESULT", "CANCELLED"} THEN kind ELSE h.result) \in {"none", "RESULT", "CANCELLED"}
  BY <1>3
<1>5. Handled(h, kind, n) \in StreamHandlers
  BY <1>2, <1>4 DEF Handled, StreamHandlers
<1>6. /\ Handled(h, kind, n).last = n /\ Handled(h, kind, n).ordered = (h.ordered /\ n > h.last)
      /\ Handled(h, kind, n).cancelled = (h.cancelled \/ kind = "CANCELLED")
  BY DEF Handled
<1>7. h.ordered = TRUE /\ n > h.last => Handled(h, kind, n).ordered = TRUE
  BY <1>6
<1>8. h.cancelled = TRUE \/ kind = "CANCELLED" => Handled(h, kind, n).cancelled = TRUE
  BY <1>6
<1> QED BY <1>5, <1>6, <1>7, <1>8

\* A reader's frames are in order, or those of a search that was cancelled.
KeepsOrder(h, tool) == h.ordered = TRUE \/ (tool = "file_search" /\ h.cancelled = TRUE)
\* A frame with a greater number than the last one keeps the order.
LEMMA HandledInOrder ==
  ASSUME NEW h \in StreamHandlers, NEW kind \in {"PROGRESS", "OUTPUT", "RESULT", "CANCELLED", "ERROR"},
         NEW n \in Int, n > h.last, NEW tool, KeepsOrder(h, tool)
  PROVE  \E g \in StreamHandlers : g = Handled(h, kind, n) /\ g.last = n /\ KeepsOrder(g, tool)
<1>1. Handled(h, kind, n) \in StreamHandlers /\ Handled(h, kind, n).last = n
  BY HandlesFrame
<1>2. CASE h.ordered = TRUE
  BY <1>1, <1>2, HandlesFrame DEF KeepsOrder
<1>3. CASE tool = "file_search" /\ h.cancelled = TRUE
  <2>1. Handled(h, kind, n).cancelled = TRUE
    BY <1>3, HandlesFrame
  <2> QED BY <1>1, <1>3, <2>1 DEF KeepsOrder
<1> QED BY <1>2, <1>3 DEF KeepsOrder

\* The number of a tool's next frame.
LEMMA FrameNumbers ==
  ASSUME NEW c \in ToolCalls, generator[c] \in StreamStates
  PROVE  /\ generator[c].tool \in {"file_search", "code_analysis"} =>
              /\ SequenceOf(c, "PROGRESS") = 2 * generator[c].step
              /\ SequenceOf(c, "RESULT") = 2 * generator[c].step
              /\ SequenceOf(c, "OUTPUT") = 2 * generator[c].step + 1
         /\ generator[c].tool = "code_analysis" => SequenceOf(c, "CANCELLED") = 2 * generator[c].step
         /\ generator[c].tool = "file_search" => SequenceOf(c, "CANCELLED") = generator[c].step
         /\ generator[c].tool = "long_computation" =>
              \A kind \in {"PROGRESS", "RESULT", "CANCELLED"} : SequenceOf(c, kind) = generator[c].step
         /\ generator[c].tool = "unknown" => SequenceOf(c, "ERROR") = 0
         /\ generator[c].step \in Int /\ 2 * generator[c].step \in Int /\ generator[c].step >= 0
<1>1. generator[c].step \in Nat
  BY ToolAssumption DEF StreamStates
<1>2. generator[c].tool \in {"file_search", "code_analysis"} =>
        /\ SequenceOf(c, "PROGRESS") = 2 * generator[c].step
        /\ SequenceOf(c, "RESULT") = 2 * generator[c].step
        /\ SequenceOf(c, "OUTPUT") = 2 * generator[c].step + 1
  BY DEF SequenceOf, file_search, code_analysis
<1>3. generator[c].tool = "code_analysis" => SequenceOf(c, "CANCELLED") = 2 * generator[c].step
  BY DEF SequenceOf, code_analysis
<1>4. generator[c].tool = "file_search" => SequenceOf(c, "CANCELLED") = generator[c].step
  BY DEF SequenceOf, file_search
<1>5. generator[c].tool = "long_computation" =>
        \A kind \in {"PROGRESS", "RESULT", "CANCELLED"} : SequenceOf(c, kind) = generator[c].step
  BY DEF SequenceOf, long_computation
<1>6. generator[c].tool = "unknown" => SequenceOf(c, "ERROR") = 0
  BY DEF SequenceOf
<1> QED BY <1>1, <1>2, <1>3, <1>4, <1>5, <1>6

\* Where one call's stream moves and stays fine, the others do.
LEMMA OneStream ==
  ASSUME ToolsInv, NEW c \in ToolCalls,
         DOMAIN generator' = ToolCalls, DOMAIN handler' = ToolCalls, DOMAIN late' = ToolCalls,
         cancel_events' \in [CallIds -> {"none", "clear", "set"}],
         CallFine(generator'[c], handler'[c], late'[c], cancel_events'[call_id[c]]),
         \A d \in ToolCalls : d # c =>
           /\ generator'[d] = generator[d] /\ handler'[d] = handler[d] /\ late'[d] = late[d]
           /\ cancel_events'[call_id[d]] = cancel_events[call_id[d]]
  PROVE  ToolsInv'
<1>1. ASSUME NEW d \in ToolCalls
      PROVE  CallFine(generator'[d], handler'[d], late'[d], cancel_events'[call_id[d]])
  <2>1. CASE d = c
    BY <2>1
  <2>2. CASE d # c
    <3>1. CallFine(generator[d], handler[d], late[d], cancel_events[call_id[d]])
      BY DEF ToolsInv
    <3> QED BY <2>2, <3>1
  <2> QED BY <2>1, <2>2
<1> QED BY <1>1 DEF ToolsInv

\* A step without a frame, that leaves the events alone.
LEMMA SilentStep ==
  ASSUME ToolsInv, NEW c \in ToolCalls, NEW g \in StreamStates, UNCHANGED cancel_events, Silent(c),
         generator' = [generator EXCEPT ![c] = g],
         CallFine(g, handler[c], late[c], cancel_events[call_id[c]])
  PROVE  ToolsInv'
<1>1. /\ DOMAIN generator' = ToolCalls /\ generator'[c] = g
      /\ \A d \in ToolCalls : d # c => generator'[d] = generator[d]
  BY DEF ToolsInv
<1>2. UNCHANGED <<handler, late>>
  BY DEF Silent
<1> QED BY <1>1, <1>2, OneStream DEF ToolsInv

\* A step with a frame.
LEMMA FrameStep ==
  ASSUME ToolsInv, NEW c \in ToolCalls, NEW g \in StreamStates,
         NEW kind \in {"PROGRESS", "OUTPUT", "RESULT", "CANCELLED", "ERROR"}, Yields(c, kind),
         generator' = [generator EXCEPT ![c] = g],
         CallFine(g, Handled(handler[c], kind, SequenceOf(c, kind)),
                  IF late[c] >= 0 THEN late[c] + 1 ELSE late[c], cancel_events[call_id[c]])
  PROVE  ToolsInv'
<1>1. /\ DOMAIN generator' = ToolCalls /\ generator'[c] = g
      /\ \A d \in ToolCalls : d # c => generator'[d] = generator[d]
  BY DEF ToolsInv
<1>2. /\ DOMAIN handler' = ToolCalls /\ handler'[c] = Handled(handler[c], kind, SequenceOf(c, kind))
      /\ \A d \in ToolCalls : d # c => handler'[d] = handler[d]
  BY DEF Yields, ToolsInv
<1>3. /\ DOMAIN late' = ToolCalls /\ late'[c] = IF late[c] >= 0 THEN late[c] + 1 ELSE late[c]
      /\ \A d \in ToolCalls : d # c => late'[d] = late[d]
  BY DEF Yields, ToolsInv
<1>4. UNCHANGED cancel_events
  BY DEF Yields
<1> QED BY <1>1, <1>2, <1>3, <1>4, OneStream DEF ToolsInv

\* The streams, their readers and the canceller keep it.
LEMMA ToolsStep == ToolsInv /\ OwnCallIds /\ [ToolNext]_toolVars => ToolsInv'
<1> SUFFICES ASSUME ToolsInv, OwnCallIds, [ToolNext]_toolVars PROVE ToolsInv'
  OBVIOUS
<1>0. \A c \in ToolCalls : call_id[c] \in CallIds
  BY DEF CallIds
<1>1. ASSUME NEW c \in ToolCalls PROVE
        /\ CallFine(generator[c], handler[c], late[c], cancel_events[call_id[c]])
        /\ generator[c] \in StreamStates /\ handler[c] \in StreamHandlers /\ late[c] \in Int
        /\ ToolFits(generator[c]) /\ FewAreLate(generator[c], late[c]) /\ FramesFit(generator[c], handler[c])
        /\ Entered(generator[c]) /\ late[c] >= 0 => cancel_events[call_id[c]] = "set"
        /\ handler[c].last \in Int /\ generator[c].step \in Nat /\ ToolSteps \in Nat
  BY <1>1, ToolAssumption DEF ToolsInv, CallFine, StreamHandlers, StreamStates
<1>2. ASSUME NEW c \in ToolCalls, generator[c].at = "created", FirstFrame(c) PROVE ToolsInv'
  <2>1. PICK t \in Tools : generator' = [generator EXCEPT ![c] = [generator[c] EXCEPT !.tool = t, !.at = "entering"]]
    BY <1>2, ToolAssumption DEF FirstFrame
  <2>2. UNCHANGED cancel_events /\ Silent(c)
    BY <1>2 DEF FirstFrame
  <2>3. PICK g \in StreamStates : /\ g = [generator[c] EXCEPT !.tool = t, !.at = "entering"]
                                  /\ g.at = "entering" /\ g.tool = t
    <3>1. generator[c] \in StreamStates
      BY <1>1
    <3>2. [generator[c] EXCEPT !.tool = t, !.at = "entering"] \in StreamStates
      BY <3>1 DEF StreamStates, FramePlaces
    <3>3. /\ [generator[c] EXCEPT !.tool = t, !.at = "entering"].at = "entering"
          /\ [generator[c] EXCEPT !.tool = t, !.at = "entering"].tool = t
      BY <3>1 DEF StreamStates
    <3> QED BY <3>2, <3>3
  <2>4. CallFine(g, handler[c], late[c], cancel_events[call_id[c]])
    <3>1. ToolFits(g) /\ FewAreLate(g, late[c]) /\ ~Entered(g)
      BY <1>1, <1>2, <2>3 DEF ToolFits, FewAreLate, Entered
    <3>2. FramesFit(g, handler[c])
      BY <1>1, <1>2, <2>3 DEF FramesFit
    <3> QED BY <1>1, <3>1, <3>2 DEF CallFine
  <2> QED BY <2>1, <2>2, <2>3, <2>4, SilentStep
<1>3. ASSUME NEW c \in ToolCalls, generator[c].at = "entering", FirstFrame(c) PROVE ToolsInv'
  <2>1. PICK where \in {"error", "step"} :
          /\ GoesOn(c, where) /\ where = IF generator[c].tool = "unknown" THEN "error" ELSE "step"
          /\ cancel_events' = [cancel_events EXCEPT ![call_id[c]] = "clear"] /\ Silent(c)
    BY <1>3 DEF FirstFrame
  <2>2. PICK g \in StreamStates : /\ generator' = [generator EXCEPT ![c] = g] /\ g.at = where
                              /\ g.tool = generator[c].tool /\ g.step = generator[c].step
    <3>1. where \in FramePlaces
      BY DEF FramePlaces
    <3> QED BY <2>1, <3>1, GoingOn
  <2>3. /\ DOMAIN generator' = ToolCalls /\ generator'[c] = g
        /\ \A d \in ToolCalls : d # c => generator'[d] = generator[d]
    BY <2>1, <2>2 DEF GoesOn, ToolsInv
  <2>4. /\ cancel_events' \in [CallIds -> {"none", "clear", "set"}]
        /\ \A d \in ToolCalls : d # c => cancel_events'[call_id[d]] = cancel_events[call_id[d]]
    BY <1>0, <2>1 DEF ToolsInv, OwnCallIds
  <2>5. UNCHANGED <<handler, late>>
    BY <2>1 DEF Silent
  <2>6. late[c] = -1 /\ handler[c].last = -1 /\ handler[c].ordered = TRUE
    BY <1>1, <1>3 DEF FewAreLate, FramesFit
  <2>7. CASE where = "step"
    <3>1. g.tool \in Tools \ {"unknown"}
      <4>1. generator[c].tool \in Tools
        BY <1>1, <1>3 DEF ToolFits
      <4> QED BY <2>1, <2>2, <2>7, <4>1
    <3>2. ToolFits(g) /\ FewAreLate(g, late[c]) /\ ~(late[c] >= 0)
      BY <2>2, <2>6, <2>7, <3>1 DEF ToolFits, FewAreLate
    <3>3. FramesFit(g, handler[c])
      <4>1. g.step \in Nat
        BY <1>1, <2>2
      <4>2. g.at = "step" /\ handler[c].last = -1 /\ handler[c].ordered = TRUE /\ -1 < g.step /\ -1 < 2 * g.step
        BY <2>2, <2>6, <2>7, <4>1
      <4> QED BY <4>2 DEF FramesFit
    <3> QED BY <1>1, <2>3, <2>4, <2>5, <3>2, <3>3, OneStream DEF CallFine, ToolsInv
  <2>8. CASE where = "error"
    <3>1. ToolFits(g) /\ FewAreLate(g, late[c]) /\ FramesFit(g, handler[c]) /\ ~(late[c] >= 0)
      BY <2>1, <2>2, <2>6, <2>8 DEF ToolFits, FewAreLate, FramesFit
    <3> QED BY <1>1, <2>3, <2>4, <2>5, <3>1, OneStream DEF CallFine, ToolsInv
  <2> QED BY <2>7, <2>8
<1>4. ASSUME NEW c \in ToolCalls, Checks(c) PROVE ToolsInv'
  <2>1. PICK where \in {"result", "cancelled", "progress"} :
          /\ GoesOn(c, where) /\ generator[c].at = "step" /\ UNCHANGED cancel_events /\ Silent(c)
          /\ where = "progress" => generator[c].step # ToolSteps /\ cancel_events[call_id[c]] # "set"
    BY <1>4 DEF Checks, check_cancelled
  <2>2. PICK g \in StreamStates : /\ generator' = [generator EXCEPT ![c] = g] /\ g.at = where
                              /\ g.tool = generator[c].tool /\ g.step = generator[c].step
    <3>1. where \in FramePlaces
      BY DEF FramePlaces
    <3> QED BY <2>1, <3>1, GoingOn
  <2>3. generator[c].step <= ToolSteps /\ generator[c].step \in Nat /\ ToolSteps \in Nat
    BY <1>1 DEF StreamStates
  <2>4. ToolFits(g)
    BY <1>1, <2>1, <2>2, <2>3 DEF ToolFits
  <2>5. FewAreLate(g, late[c])
    BY <1>1, <2>1, <2>2 DEF FewAreLate, Entered
  <2>6. FramesFit(g, handler[c])
    BY <1>1, <2>1, <2>2 DEF FramesFit
  <2>7. Entered(g) => Entered(generator[c])
    BY <2>1 DEF Entered
  <2>8. CallFine(g, handler[c], late[c], cancel_events[call_id[c]])
    BY <1>1, <2>4, <2>5, <2>6, <2>7 DEF CallFine
  <2> QED BY <2>1, <2>2, <2>8, SilentStep DEF GoesOn
<1> DEFINE LateNow(c) == IF late[c] >= 0 THEN late[c] + 1 ELSE late[c]
<1>5. ASSUME NEW c \in ToolCalls, Progresses(c) PROVE ToolsInv'
  <2>1. generator[c].at = "progress" /\ Yields(c, "PROGRESS")
    BY <1>5 DEF Progresses
  <2>2. PICK h \in StreamHandlers :
          /\ h = Handled(handler[c], "PROGRESS", SequenceOf(c, "PROGRESS")) /\ h.last = SequenceOf(c, "PROGRESS")
          /\ h.ordered = TRUE \/ (generator[c].tool = "file_search" /\ h.cancelled = TRUE)
    <3>1. SequenceOf(c, "PROGRESS") \in Int /\ SequenceOf(c, "PROGRESS") > handler[c].last
      BY <1>1, <2>1, FrameNumbers DEF ToolFits, Tools, FramesFit
    <3>2. KeepsOrder(handler[c], generator[c].tool)
      BY <1>1 DEF FramesFit, KeepsOrder
    <3>3. handler[c] \in StreamHandlers
      BY <1>1
    <3>4. PICK h \in StreamHandlers :
            /\ h = Handled(handler[c], "PROGRESS", SequenceOf(c, "PROGRESS")) /\ h.last = SequenceOf(c, "PROGRESS")
            /\ KeepsOrder(h, generator[c].tool)
      BY <3>1, <3>2, <3>3, HandledInOrder
    <3> QED BY <3>4 DEF KeepsOrder
  <2>3. LateNow(c) \in Int /\ LateNow(c) <= 1 /\ (LateNow(c) >= 0 => late[c] >= 0)
    BY <1>1, <2>1 DEF FewAreLate
  <2>4. Entered(generator[c]) /\ generator[c].step < ToolSteps /\ generator[c].tool \in Tools \ {"unknown"}
    BY <1>1, <2>1 DEF Entered, ToolFits
  <2>5. CASE generator[c].tool = "long_computation"
    <3>1. PICK g \in StreamStates : /\ g = [generator[c] EXCEPT !.at = "step", !.step = generator[c].step + 1]
                                /\ g.at = "step" /\ g.tool = generator[c].tool /\ g.step = generator[c].step + 1
      BY <1>1, <2>4, NextFields
    <3>2. generator' = [generator EXCEPT ![c] = g]
      BY <1>5, <2>5, <3>1 DEF Progresses, NextStep
    <3>3. ToolFits(g) /\ FewAreLate(g, LateNow(c))
      BY <2>3, <2>4, <3>1 DEF ToolFits, FewAreLate
    <3>4. FramesFit(g, h)
      <4>1. generator[c].step \in Nat /\ h.last = generator[c].step
        BY <1>1, <2>2, <2>5, FrameNumbers
      <4>2. h.last < g.step /\ h.last < 2 * g.step
        BY <3>1, <4>1
      <4> QED BY <2>2, <3>1, <4>2 DEF FramesFit
    <3>5. CallFine(g, h, LateNow(c), cancel_events[call_id[c]])
      BY <1>1, <2>3, <2>4, <3>3, <3>4 DEF CallFine
    <3> QED BY <2>1, <2>2, <3>2, <3>5, FrameStep
  <2>6. CASE generator[c].tool # "long_computation"
    <3>1. GoesOn(c, "output") /\ "output" \in FramePlaces
      BY <1>5, <2>6 DEF Progresses, FramePlaces
    <3>2. PICK g \in StreamStates : /\ generator' = [generator EXCEPT ![c] = g] /\ g.at = "output"
                                /\ g.tool = generator[c].tool /\ g.step = generator[c].step
      BY <3>1, GoingOn
    <3>3. ToolFits(g) /\ FewAreLate(g, LateNow(c))
      BY <2>3, <2>4, <2>6, <3>2 DEF ToolFits, FewAreLate
    <3>4. SequenceOf(c, "PROGRESS") = 2 * generator[c].step
      BY <1>1, <2>4, <2>6, FrameNumbers DEF Tools
    <3>5. FramesFit(g, h)
      <4>1. generator[c].step \in Nat /\ h.last = 2 * generator[c].step
        BY <1>1, <2>2, <3>4
      <4>2. h.last < 2 * g.step + 1
        BY <3>2, <4>1
      <4> QED BY <2>2, <3>2, <4>2 DEF FramesFit
    <3>6. CallFine(g, h, LateNow(c), cancel_events[call_id[c]])
      BY <1>1, <2>3, <2>4, <3>3, <3>5 DEF CallFine
    <3> QED BY <2>1, <2>2, <3>2, <3>6, FrameStep
  <2> QED BY <2>5, <2>6
<1>6. ASSUME NEW c \in ToolCalls, Outputs(c) PROVE ToolsInv'
  <2>1. generator[c].at = "output" /\ Yields(c, "OUTPUT") /\ NextStep(c)
    BY <1>6 DEF Outputs
  <2>2. generator[c].tool \in {"file_search", "code_analysis"} /\ generator[c].step < ToolSteps /\ Entered(generator[c])
    BY <1>1, <2>1 DEF ToolFits, Tools, Entered
  <2>3. SequenceOf(c, "OUTPUT") = 2 * generator[c].step + 1 /\ SequenceOf(c, "OUTPUT") \in Int
    BY <1>1, <2>2, FrameNumbers
  <2>4. PICK h \in StreamHandlers :
          /\ h = Handled(handler[c], "OUTPUT", SequenceOf(c, "OUTPUT")) /\ h.last = SequenceOf(c, "OUTPUT")
          /\ h.ordered = TRUE \/ (generator[c].tool = "file_search" /\ h.cancelled = TRUE)
    <3>1. SequenceOf(c, "OUTPUT") > handler[c].last
      BY <1>1, <2>1, <2>3 DEF FramesFit
    <3>2. KeepsOrder(handler[c], generator[c].tool)
      BY <1>1 DEF FramesFit, KeepsOrder
    <3>3. handler[c] \in StreamHandlers
      BY <1>1
    <3>4. PICK h \in StreamHandlers :
            /\ h = Handled(handler[c], "OUTPUT", SequenceOf(c, "OUTPUT")) /\ h.last = SequenceOf(c, "OUTPUT")
            /\ KeepsOrder(h, generator[c].tool)
      BY <2>3, <3>1, <3>2, <3>3, HandledInOrder
    <3> QED BY <3>4 DEF KeepsOrder
  <2>5. LateNow(c) \in Int /\ LateNow(c) <= 2 /\ (LateNow(c) >= 0 => late[c] >= 0)
    BY <1>1, <2>1 DEF FewAreLate
  <2>6. PICK g \in StreamStates : /\ g = [generator[c] EXCEPT !.at = "step", !.step = generator[c].step + 1]
                              /\ g.at = "step" /\ g.tool = generator[c].tool /\ g.step = generator[c].step + 1
    BY <1>1, <2>2, NextFields
  <2>7. generator' = [generator EXCEPT ![c] = g]
    BY <2>1, <2>6 DEF NextStep
  <2>8. ToolFits(g) /\ FewAreLate(g, LateNow(c))
    BY <2>2, <2>5, <2>6 DEF ToolFits, FewAreLate, Tools
  <2>9. FramesFit(g, h)
    <3>1. generator[c].step \in Nat /\ h.last = 2 * generator[c].step + 1
      BY <1>1, <2>3, <2>4
    <3>2. h.last < 2 * g.step /\ g.tool # "long_computation"
      BY <2>2, <2>6, <3>1
    <3> QED BY <2>4, <2>6, <3>2 DEF FramesFit
  <2>10. CallFine(g, h, LateNow(c), cancel_events[call_id[c]])
    BY <1>1, <2>2, <2>5, <2>8, <2>9 DEF CallFine
  <2> QED BY <2>1, <2>4, <2>7, <2>10, FrameStep
<1>7. ASSUME NEW c \in ToolCalls, Concludes(c) PROVE ToolsInv'
  <2>1. PICK kind \in {"RESULT", "CANCELLED", "ERROR"} :
          /\ Yields(c, kind) /\ GoesOn(c, "ended") /\ generator[c].at \in {"result", "cancelled", "error"}
          /\ kind = LastFrames[generator[c].at]
    BY <1>7 DEF Concludes, LastFrames
  <2>2. /\ generator[c].at = "result" => kind = "RESULT"
        /\ generator[c].at = "cancelled" => kind = "CANCELLED"
        /\ generator[c].at = "error" => kind = "ERROR"
    BY <2>1 DEF LastFrames
  <2>3. generator[c].tool \in Tools /\ (generator[c].at = "error" <=> generator[c].tool = "unknown")
    BY <1>1, <2>1 DEF ToolFits, Tools
  <2>4. /\ SequenceOf(c, kind) \in Int
        /\ SequenceOf(c, kind) > handler[c].last \/ (kind = "CANCELLED" /\ generator[c].tool = "file_search")
    <3>1. generator[c].step \in Nat /\ handler[c].last \in Int
      BY <1>1
    <3>2. /\ generator[c].at = "error" => handler[c].last = -1
          /\ generator[c].at \in {"result", "cancelled"} =>
               /\ handler[c].last < 2 * generator[c].step
               /\ generator[c].tool = "long_computation" => handler[c].last < generator[c].step
      BY <1>1 DEF FramesFit
    <3>3. generator[c] \in StreamStates
      BY <1>1
    <3>4. CASE generator[c].at = "error"
      <4>1. SequenceOf(c, kind) = 0 /\ handler[c].last = -1
        BY <2>2, <2>3, <3>2, <3>3, <3>4, FrameNumbers
      <4> QED BY <4>1
    <3>5. CASE generator[c].at = "result"
      <4>1. SequenceOf(c, kind) =
              IF generator[c].tool = "long_computation" THEN generator[c].step ELSE 2 * generator[c].step
        BY <2>2, <2>3, <3>3, <3>5, FrameNumbers DEF Tools
      <4> QED BY <3>1, <3>2, <3>5, <4>1
    <3>6. CASE generator[c].at = "cancelled"
      <4>1. SequenceOf(c, kind) =
              IF generator[c].tool = "code_analysis" THEN 2 * generator[c].step ELSE generator[c].step
        BY <2>2, <2>3, <3>3, <3>6, FrameNumbers DEF Tools
      <4>2. generator[c].tool \in {"file_search", "code_analysis", "long_computation"}
        BY <2>3, <3>6 DEF Tools
      <4> QED BY <2>2, <3>1, <3>2, <3>6, <4>1, <4>2
    <3> QED BY <2>1, <3>4, <3>5, <3>6
  <2>5. KeepsOrder(handler[c], generator[c].tool)
    BY <1>1 DEF FramesFit, KeepsOrder
  <2>6. PICK h \in StreamHandlers :
          /\ h = Handled(handler[c], kind, SequenceOf(c, kind))
          /\ h.ordered = TRUE \/ (generator[c].tool = "file_search" /\ h.cancelled = TRUE)
    <3>1. handler[c] \in StreamHandlers
      BY <1>1
    <3>2. PICK h \in StreamHandlers :
            h = Handled(handler[c], kind, SequenceOf(c, kind)) /\ KeepsOrder(h, generator[c].tool)
      <4>1. CASE SequenceOf(c, kind) > handler[c].last
        BY <2>1, <2>4, <2>5, <3>1, <4>1, HandledInOrder
      <4>2. CASE kind = "CANCELLED" /\ generator[c].tool = "file_search"
        BY <2>1, <2>4, <3>1, <4>2, HandlesFrame DEF KeepsOrder
      <4> QED BY <2>4, <4>1, <4>2
    <3> QED BY <3>2 DEF KeepsOrder
  <2>7. LateNow(c) \in Int /\ LateNow(c) <= 3 /\ (LateNow(c) >= 0 => late[c] >= 0)
    BY <1>1, <2>1 DEF FewAreLate
  <2>8. PICK g \in StreamStates : /\ generator' = [generator EXCEPT ![c] = g] /\ g.at = "ended"
                              /\ g.tool = generator[c].tool /\ g.step = generator[c].step
    <3>1. "ended" \in FramePlaces
      BY DEF FramePlaces
    <3> QED BY <2>1, <3>1, GoingOn
  <2>9. ToolFits(g) /\ FewAreLate(g, LateNow(c)) /\ FramesFit(g, h) /\ Entered(generator[c])
    BY <2>1, <2>6, <2>7, <2>8 DEF ToolFits, FewAreLate, FramesFit, Entered
  <2>10. CallFine(g, h, LateNow(c), cancel_events[call_id[c]])
    BY <1>1, <2>7, <2>9 DEF CallFine
  <2> QED BY <2>1, <2>6, <2>8, <2>10, FrameStep
<1>8. ASSUME NEW c \in ToolCalls, generator[c].at \in {"output", "step", "ended"}, ClosesStream(c) PROVE ToolsInv'
  <2>1. GoesOn(c, "leaving") /\ UNCHANGED cancel_events /\ Silent(c)
    BY <1>8 DEF ClosesStream
  <2>2. PICK g \in StreamStates : /\ generator' = [generator EXCEPT ![c] = g] /\ g.at = "leaving"
                              /\ g.tool = generator[c].tool /\ g.step = generator[c].step
    <3>1. "leaving" \in FramePlaces
      BY DEF FramePlaces
    <3> QED BY <2>1, <3>1, GoingOn
  <2>3. ToolFits(g) /\ FewAreLate(g, late[c]) /\ FramesFit(g, handler[c]) /\ Entered(generator[c])
    BY <1>1, <1>8, <2>2 DEF ToolFits, FewAreLate, FramesFit, Entered
  <2>4. CallFine(g, handler[c], late[c], cancel_events[call_id[c]])
    BY <1>1, <2>3 DEF CallFine
  <2> QED BY <2>1, <2>2, <2>4, SilentStep DEF GoesOn
<1>9. ASSUME NEW c \in ToolCalls, generator[c].at = "leaving", ClosesStream(c) PROVE ToolsInv'
  <2>1. GoesOn(c, "gone") /\ cancel_events' = [cancel_events EXCEPT ![call_id[c]] = "none"] /\ Silent(c)
    BY <1>9 DEF ClosesStream
  <2>2. PICK g \in StreamStates : /\ generator' = [generator EXCEPT ![c] = g] /\ g.at = "gone"
                              /\ g.tool = generator[c].tool /\ g.step = generator[c].step
    <3>1. "gone" \in FramePlaces
      BY DEF FramePlaces
    <3> QED BY <2>1, <3>1, GoingOn
  <2>3. /\ DOMAIN generator' = ToolCalls /\ generator'[c] = g
        /\ \A d \in ToolCalls : d # c => generator'[d] = generator[d]
    BY <2>1, <2>2 DEF GoesOn, ToolsInv
  <2>4. /\ cancel_events' \in [CallIds -> {"none", "clear", "set"}]
        /\ \A d \in ToolCalls : d # c => cancel_events'[call_id[d]] = cancel_events[call_id[d]]
    BY <1>0, <2>1 DEF ToolsInv, OwnCallIds
  <2>5. UNCHANGED <<handler, late>>
    BY <2>1 DEF Silent
  <2>6. ToolFits(g) /\ FewAreLate(g, late[c]) /\ FramesFit(g, handler[c]) /\ ~Entered(g)
    BY <1>1, <1>9, <2>2 DEF ToolFits, FewAreLate, FramesFit, Entered
  <2>7. CallFine(g, handler[c], late[c], cancel_events'[call_id[c]])
    BY <1>1, <2>6 DEF CallFine
  <2> QED BY <2>3, <2>4, <2>5, <2>7, OneStream DEF ToolsInv
<1>10. ASSUME CallsCancel, UNCHANGED <<generator, active_calls, handler>>, UNCHANGED <<cancel_events, late>> PROVE ToolsInv'
  BY <1>10 DEF ToolsInv
<1>11. ASSUME CallsCancel, UNCHANGED <<generator, active_calls, handler>>, ~UNCHANGED <<cancel_events, late>> PROVE ToolsInv'
  <2>1. /\ cancel_events' = [cancel_events EXCEPT ![canceller.id] = "set"]
        /\ late' = [c \in ToolCalls |->
                      IF call_id[c] = canceller.id /\ late[c] < 0
                         /\ generator[c].at \notin {"created", "entering", "gone"}
                      THEN 0 ELSE late[c]]
    BY <1>11 DEF CallsCancel
  <2>2. cancel_events' \in [CallIds -> {"none", "clear", "set"}]
    BY <2>1 DEF ToolsInv
  <2>3. ASSUME NEW c \in ToolCalls
        PROVE  CallFine(generator[c], handler[c], late'[c], cancel_events'[call_id[c]])
    <3>1. late'[c] = late[c] \/ (Entered(generator[c]) /\ call_id[c] = canceller.id /\ late'[c] = 0)
      BY <2>1 DEF Entered
    <3>2. FewAreLate(generator[c], late'[c]) /\ late'[c] \in Int
      BY <1>1, <3>1 DEF FewAreLate, Entered
    <3>3. cancel_events'[call_id[c]] = "set" \/ (cancel_events'[call_id[c]] = cancel_events[call_id[c]] /\ late'[c] = late[c])
      BY <1>0, <2>1, <3>1 DEF ToolsInv
    <3> QED BY <1>1, <3>2, <3>3 DEF CallFine
  <2> QED BY <1>11, <2>1, <2>2, <2>3 DEF ToolsInv
<1>12. ASSUME UNCHANGED toolVars PROVE ToolsInv'
  BY <1>12 DEF toolVars, ToolsInv
<1>13. ASSUME NEW c \in ToolCalls, FirstFrame(c) PROVE ToolsInv'
  BY <1>2, <1>3, <1>13 DEF FirstFrame
<1>14. ASSUME NEW c \in ToolCalls, ClosesStream(c) PROVE ToolsInv'
  BY <1>8, <1>9, <1>14 DEF ClosesStream
<1> QED
  BY <1>4, <1>5, <1>6, <1>7, <1>10, <1>11, <1>12, <1>13, <1>14 DEF ToolNext

\* The invariant bounds what comes after a cancellation and has the frames in order.
LEMMA CallsAreStopped == ToolsInv => CancelStopsCalls
<1> SUFFICES ASSUME ToolsInv, NEW c \in ToolCalls
             PROVE  late[c] <= 3 /\ (~handler[c].ordered => generator[c].tool = "file_search" /\ handler[c].cancelled)
  BY DEF CancelStopsCalls
<1>1. FewAreLate(generator[c], late[c]) /\ FramesFit(generator[c], handler[c])
  BY DEF ToolsInv, CallFine
<1> QED BY <1>1 DEF FewAreLate, FramesFit

\* What is bounded of a call even if another has its id: it has its tool and its step, and its
\* frames since a cancellation are no more than all it has sent.
FramesBefore(g) ==
  CASE g.at = "output" -> 2 * g.step + 1
    [] g.at \in {"ended", "leaving", "gone"} -> 2 * ToolSteps + 1
    [] OTHER -> 2 * g.step
CallTyped(g, h, l) ==
  /\ g \in StreamStates /\ ToolFits(g)
  /\ h \in StreamHandlers /\ h.last \in -1..(2 * ToolSteps)
  /\ l \in Int /\ l >= -1 /\ l <= FramesBefore(g)
ToolTypes ==
  /\ DOMAIN generator = ToolCalls /\ DOMAIN handler = ToolCalls /\ DOMAIN late = ToolCalls
  /\ active_calls \subseteq CallIds
  /\ \A c \in ToolCalls : CallTyped(generator[c], handler[c], late[c])

\* No stream has begun.
LEMMA InitToolTypes == ToolInit => ToolTypes
<1> SUFFICES ASSUME ToolInit PROVE ToolTypes
  OBVIOUS
<1>1. ToolSteps \in Nat
  BY ToolAssumption
<1>2. PICK g \in StreamStates : /\ g = [tool |-> "none", at |-> "created", step |-> 0]
                                /\ g.at = "created" /\ g.step = 0
  <2>1. [tool |-> "none", at |-> "created", step |-> 0] \in StreamStates
    BY <1>1 DEF StreamStates, FramePlaces
  <2> QED BY <2>1
<1>3. NewHandler \in StreamHandlers /\ NewHandler.last = -1 /\ -1 \in -1..(2 * ToolSteps)
  BY <1>1 DEF NewHandler, StreamHandlers
<1>4. ToolFits(g) /\ FramesBefore(g) = 0
  <2>1. 2 * g.step = 0
    BY <1>2
  <2> QED BY <1>2, <2>1 DEF ToolFits, FramesBefore
<1>5. CallTyped(g, NewHandler, -1)
  BY <1>3, <1>4 DEF CallTyped
<1> QED BY <1>2, <1>5 DEF ToolInit, ToolTypes

\* The bound on the frames is a number, and greater where the stream goes than where it was.
LEMMA FramesCount ==
  ASSUME NEW g \in StreamStates
  PROVE  /\ FramesBefore(g) \in Int /\ FramesBefore(g) >= 0 /\ FramesBefore(g) <= 2 * ToolSteps + 1
         /\ g.step \in 0..ToolSteps /\ ToolSteps \in Nat /\ g.step \in Nat
         /\ g.at = "output" => FramesBefore(g) = 2 * g.step + 1
         /\ g.at \in {"ended", "leaving", "gone"} => FramesBefore(g) = 2 * ToolSteps + 1
         /\ g.at \notin {"output", "ended", "leaving", "gone"} => FramesBefore(g) = 2 * g.step
<1>1. PICK n \in 0..ToolSteps : n = g.step
  BY DEF StreamStates
<1>2. ToolSteps \in Nat /\ n \in Nat /\ n <= ToolSteps
  BY <1>1, ToolAssumption
<1>3. /\ g.at = "output" => FramesBefore(g) = 2 * n + 1
      /\ g.at \in {"ended", "leaving", "gone"} => FramesBefore(g) = 2 * ToolSteps + 1
      /\ g.at \notin {"output", "ended", "leaving", "gone"} => FramesBefore(g) = 2 * n
  BY <1>1 DEF FramesBefore
<1>4. /\ 2 * n \in Int /\ 2 * n >= 0 /\ 2 * n <= 2 * ToolSteps + 1
      /\ 2 * n + 1 \in Int /\ 2 * n + 1 >= 0 /\ 2 * n + 1 <= 2 * ToolSteps + 1
      /\ 2 * ToolSteps + 1 \in Int /\ 2 * ToolSteps + 1 >= 0 /\ 2 * ToolSteps + 1 <= 2 * ToolSteps + 1
  BY <1>2
<1>5. FramesBefore(g) \in {2 * n, 2 * n + 1, 2 * ToolSteps + 1}
  BY <1>3
<1> QED BY <1>1, <1>2, <1>3, <1>4, <1>5

\* One call's stream and reader move, the others stay.
LEMMA OneTyped ==
  ASSUME ToolTypes, NEW c \in ToolCalls, NEW g, NEW h, NEW l, CallTyped(g, h, l),
         generator' = [generator EXCEPT ![c] = g], active_calls' \subseteq CallIds,
         DOMAIN handler' = ToolCalls, DOMAIN late' = ToolCalls, handler'[c] = h, late'[c] = l,
         \A d \in ToolCalls : d # c => handler'[d] = handler[d] /\ late'[d] = late[d]
  PROVE  ToolTypes'
<1>1. /\ DOMAIN generator' = ToolCalls /\ generator'[c] = g
      /\ \A d \in ToolCalls : d # c => generator'[d] = generator[d]
  BY DEF ToolTypes
<1>2. ASSUME NEW d \in ToolCalls PROVE CallTyped(generator'[d], handler'[d], late'[d])
  BY <1>1 DEF ToolTypes
<1> QED BY <1>1, <1>2 DEF ToolTypes

\* A step without a frame.
LEMMA SilentTyped ==
  ASSUME ToolTypes, NEW c \in ToolCalls, NEW g \in StreamStates, ToolFits(g), Silent(c),
         generator' = [generator EXCEPT ![c] = g], active_calls' \subseteq CallIds,
         FramesBefore(generator[c]) <= FramesBefore(g)
  PROVE  ToolTypes'
<1>1. CallTyped(generator[c], handler[c], late[c])
  BY DEF ToolTypes
<1>2. /\ handler[c] \in StreamHandlers /\ handler[c].last \in -1..(2 * ToolSteps) /\ late[c] \in Int
      /\ late[c] >= -1 /\ late[c] <= FramesBefore(generator[c]) /\ generator[c] \in StreamStates
  BY <1>1 DEF CallTyped
<1>3. FramesBefore(g) \in Int /\ FramesBefore(generator[c]) \in Int
  BY <1>2, FramesCount
<1>4. late[c] <= FramesBefore(g)
  BY <1>2, <1>3
<1>5. CallTyped(g, handler[c], late[c])
  BY <1>2, <1>4 DEF CallTyped
<1>6. handler' = handler /\ late' = late /\ DOMAIN handler = ToolCalls /\ DOMAIN late = ToolCalls
  BY DEF Silent, ToolTypes
<1> QED BY <1>5, <1>6, OneTyped

\* A step with a frame.
LEMMA FrameTyped ==
  ASSUME ToolTypes, NEW c \in ToolCalls, NEW g \in StreamStates, ToolFits(g),
         NEW kind \in {"PROGRESS", "OUTPUT", "RESULT", "CANCELLED", "ERROR"}, Yields(c, kind),
         SequenceOf(c, kind) \in 0..(2 * ToolSteps),
         generator' = [generator EXCEPT ![c] = g],
         FramesBefore(generator[c]) + 1 <= FramesBefore(g)
  PROVE  ToolTypes'
<1>1. CallTyped(generator[c], handler[c], late[c])
  BY DEF ToolTypes
<1>2. /\ handler[c] \in StreamHandlers /\ late[c] \in Int
      /\ late[c] >= -1 /\ late[c] <= FramesBefore(generator[c]) /\ generator[c] \in StreamStates
  BY <1>1 DEF CallTyped
<1>3. FramesBefore(g) \in Int /\ FramesBefore(generator[c]) \in Int /\ ToolSteps \in Nat
  BY <1>2, FramesCount
<1>4. PICK l \in Int : l = IF late[c] >= 0 THEN late[c] + 1 ELSE late[c]
  BY <1>2
<1>5. l >= -1 /\ l <= FramesBefore(g)
  BY <1>2, <1>3, <1>4
<1>6. PICK n \in Int : n = SequenceOf(c, kind) /\ n \in -1..(2 * ToolSteps)
  BY <1>3
<1>7. PICK h \in StreamHandlers : h = Handled(handler[c], kind, n) /\ h.last = n
  <2>1. Handled(handler[c], kind, n) \in StreamHandlers /\ Handled(handler[c], kind, n).last = n
    BY <1>2, <1>6, HandlesFrame
  <2> QED BY <2>1
<1>8. CallTyped(g, h, l)
  BY <1>5, <1>6, <1>7 DEF CallTyped
<1>9. /\ DOMAIN handler' = ToolCalls /\ DOMAIN late' = ToolCalls /\ handler'[c] = h /\ late'[c] = l
      /\ \A d \in ToolCalls : d # c => handler'[d] = handler[d] /\ late'[d] = late[d]
      /\ active_calls' = active_calls
  BY <1>4, <1>6, <1>7 DEF Yields, ToolTypes
<1>10. active_calls' \subseteq CallIds
  BY <1>9 DEF ToolTypes
<1> QED BY <1>8, <1>9, <1>10, OneTyped

\* A stream that goes on to another place.
LEMMA GoesOnTyped ==
  ASSUME ToolTypes, NEW c \in ToolCalls, NEW where \in FramePlaces, GoesOn(c, where)
  PROVE  \E g \in StreamStates :
           /\ generator' = [generator EXCEPT ![c] = g] /\ g.at = where
           /\ g.tool = generator[c].tool /\ g.step = generator[c].step
<1>1. PICK old \in StreamStates : old = generator[c]
  BY DEF ToolTypes, CallTyped
<1>2. PICK g \in StreamStates : /\ g = [old EXCEPT !.at = where] /\ g.at = where
                                /\ g.tool = old.tool /\ g.step = old.step
  BY StreamFields
<1>3. generator' = [generator EXCEPT ![c] = g]
  BY <1>1, <1>2 DEF GoesOn, ToolTypes
<1> QED BY <1>1, <1>2, <1>3

\* The streams, their readers and the canceller keep their types.
LEMMA ToolTypesStep == ToolTypes /\ [ToolNext]_toolVars => ToolTypes'
<1> SUFFICES ASSUME ToolTypes, [ToolNext]_toolVars PROVE ToolTypes'
  OBVIOUS
<1>0. ASSUME NEW c \in ToolCalls
      PROVE  /\ call_id[c] \in CallIds /\ generator[c] \in StreamStates /\ ToolFits(generator[c])
             /\ generator[c].step \in Nat /\ generator[c].step <= ToolSteps /\ ToolSteps \in Nat
  <2>1. CallTyped(generator[c], handler[c], late[c])
    BY DEF ToolTypes
  <2>2. generator[c] \in StreamStates /\ ToolFits(generator[c])
    BY <2>1 DEF CallTyped
  <2>3. generator[c].step \in 0..ToolSteps /\ ToolSteps \in Nat
    BY <2>2, FramesCount
  <2> QED BY <2>2, <2>3 DEF CallIds
<1>a. active_calls \subseteq CallIds
  BY DEF ToolTypes
<1>b. {"entering", "step", "error", "output", "result", "cancelled", "progress", "ended", "leaving", "gone"} \subseteq FramePlaces
  BY DEF FramePlaces
<1>1. ASSUME NEW c \in ToolCalls, FirstFrame(c), generator[c].at = "created" PROVE ToolTypes'
  <2>1. PICK t \in Tools : generator' = [generator EXCEPT ![c] = [generator[c] EXCEPT !.tool = t, !.at = "entering"]]
    BY <1>1, ToolAssumption DEF FirstFrame
  <2>2. active_calls' \subseteq CallIds /\ Silent(c)
    BY <1>0, <1>1, <1>a DEF FirstFrame
  <2>3. PICK g \in StreamStates : /\ g = [generator[c] EXCEPT !.tool = t, !.at = "entering"]
                                  /\ g.at = "entering" /\ g.tool = t /\ g.step = generator[c].step
    <3>1. generator[c] \in StreamStates
      BY <1>0
    <3>2. [generator[c] EXCEPT !.tool = t, !.at = "entering"] \in StreamStates
      BY <3>1 DEF StreamStates, FramePlaces
    <3>3. /\ [generator[c] EXCEPT !.tool = t, !.at = "entering"].at = "entering"
          /\ [generator[c] EXCEPT !.tool = t, !.at = "entering"].tool = t
          /\ [generator[c] EXCEPT !.tool = t, !.at = "entering"].step = generator[c].step
      BY <3>1 DEF StreamStates
    <3> QED BY <3>2, <3>3
  <2>4. FramesBefore(generator[c]) = 2 * generator[c].step /\ FramesBefore(g) = 2 * g.step
    BY <1>0, <1>1, <2>3, FramesCount
  <2>5. ToolFits(g) /\ FramesBefore(generator[c]) <= FramesBefore(g)
    BY <1>0, <2>3, <2>4 DEF ToolFits
  <2> QED BY <2>1, <2>2, <2>3, <2>5, SilentTyped
<1>2. ASSUME NEW c \in ToolCalls, FirstFrame(c), generator[c].at = "entering" PROVE ToolTypes'
  <2>1. PICK where \in {"error", "step"} :
          /\ GoesOn(c, where) /\ where = IF generator[c].tool = "unknown" THEN "error" ELSE "step"
          /\ active_calls' = active_calls /\ Silent(c)
    BY <1>2 DEF FirstFrame
  <2>2. PICK g \in StreamStates : /\ generator' = [generator EXCEPT ![c] = g] /\ g.at = where
                                  /\ g.tool = generator[c].tool /\ g.step = generator[c].step
    BY <1>b, <2>1, GoesOnTyped
  <2>3. FramesBefore(generator[c]) = 2 * generator[c].step /\ FramesBefore(g) = 2 * g.step
    BY <1>0, <1>2, <2>1, <2>2, FramesCount
  <2>4. generator[c].tool \in Tools
    BY <1>0, <1>2 DEF ToolFits
  <2>5. ToolFits(g) /\ FramesBefore(generator[c]) <= FramesBefore(g)
    BY <1>0, <2>1, <2>2, <2>3, <2>4 DEF ToolFits
  <2> QED BY <1>a, <2>1, <2>2, <2>5, SilentTyped
<1>3. ASSUME NEW c \in ToolCalls, Checks(c) PROVE ToolTypes'
  <2>1. PICK where \in {"result", "cancelled", "progress"} :
          /\ GoesOn(c, where) /\ generator[c].at = "step" /\ active_calls' = active_calls /\ Silent(c)
          /\ where = "progress" => generator[c].step # ToolSteps
    BY <1>3 DEF Checks
  <2>2. PICK g \in StreamStates : /\ generator' = [generator EXCEPT ![c] = g] /\ g.at = where
                                  /\ g.tool = generator[c].tool /\ g.step = generator[c].step
    BY <1>b, <2>1, GoesOnTyped
  <2>3. FramesBefore(generator[c]) = 2 * generator[c].step /\ FramesBefore(g) = 2 * g.step
    BY <1>0, <2>1, <2>2, FramesCount
  <2>4. ToolFits(g) /\ FramesBefore(generator[c]) <= FramesBefore(g)
    BY <1>0, <2>1, <2>2, <2>3 DEF ToolFits
  <2> QED BY <1>a, <2>1, <2>2, <2>4, SilentTyped
<1>4. ASSUME NEW c \in ToolCalls, generator[c].at \in {"progress", "output"}
      PROVE  /\ generator[c].step < ToolSteps /\ generator[c].tool \in Tools \ {"unknown"}
             /\ generator[c].at = "output" => generator[c].tool # "long_computation"
             /\ \E g \in StreamStates : /\ g = [generator[c] EXCEPT !.at = "step", !.step = generator[c].step + 1]
                                        /\ ToolFits(g) /\ FramesBefore(g) = 2 * generator[c].step + 2
  <2>1. /\ generator[c].step < ToolSteps /\ generator[c].tool \in Tools \ {"unknown"}
        /\ generator[c].at = "output" => generator[c].tool # "long_computation"
    BY <1>0, <1>4 DEF ToolFits
  <2>2. PICK g \in StreamStates : /\ g = [generator[c] EXCEPT !.at = "step", !.step = generator[c].step + 1]
                                  /\ g.at = "step" /\ g.tool = generator[c].tool /\ g.step = generator[c].step + 1
    BY <1>0, <2>1, NextFields
  <2>3. FramesBefore(g) = 2 * g.step
    BY <2>2, FramesCount
  <2>4. 2 * g.step = 2 * generator[c].step + 2
    BY <1>0, <2>2
  <2>5. ToolFits(g)
    BY <2>1, <2>2 DEF ToolFits
  <2> QED BY <2>1, <2>2, <2>3, <2>4, <2>5
<1>5. ASSUME NEW c \in ToolCalls, Progresses(c) PROVE ToolTypes'
  <2>1. generator[c].at = "progress" /\ Yields(c, "PROGRESS")
    BY <1>5 DEF Progresses
  <2>2. generator[c].step < ToolSteps /\ generator[c].tool \in Tools \ {"unknown"}
    BY <1>4, <2>1
  <2>3. FramesBefore(generator[c]) = 2 * generator[c].step
    BY <1>0, <2>1, FramesCount
  <2>4. SequenceOf(c, "PROGRESS") \in 0..(2 * ToolSteps)
    <3>1. SequenceOf(c, "PROGRESS") \in {generator[c].step, 2 * generator[c].step}
      BY <1>0, <2>2, FrameNumbers DEF Tools
    <3>2. generator[c].step \in 0..(2 * ToolSteps) /\ 2 * generator[c].step \in 0..(2 * ToolSteps)
      BY <1>0
    <3> QED BY <3>1, <3>2
  <2>5. CASE generator[c].tool = "long_computation"
    <3>1. PICK g \in StreamStates : /\ g = [generator[c] EXCEPT !.at = "step", !.step = generator[c].step + 1]
                                    /\ ToolFits(g) /\ FramesBefore(g) = 2 * generator[c].step + 2
      BY <1>4, <2>1
    <3>2. generator' = [generator EXCEPT ![c] = g]
      BY <1>5, <2>5, <3>1 DEF Progresses, NextStep
    <3>3. FramesBefore(generator[c]) + 1 <= FramesBefore(g)
      BY <1>0, <2>3, <3>1
    <3> QED BY <2>1, <2>4, <3>1, <3>2, <3>3, FrameTyped
  <2>6. CASE generator[c].tool # "long_computation"
    <3>1. GoesOn(c, "output")
      BY <1>5, <2>6 DEF Progresses
    <3>2. PICK g \in StreamStates : /\ generator' = [generator EXCEPT ![c] = g] /\ g.at = "output"
                                    /\ g.tool = generator[c].tool /\ g.step = generator[c].step
      BY <1>b, <3>1, GoesOnTyped
    <3>3. FramesBefore(g) = 2 * g.step + 1
      BY <3>2, FramesCount
    <3>4. FramesBefore(generator[c]) + 1 <= FramesBefore(g) /\ ToolFits(g)
      BY <1>0, <2>2, <2>3, <2>6, <3>2, <3>3 DEF ToolFits
    <3> QED BY <2>1, <2>4, <3>2, <3>4, FrameTyped
  <2> QED BY <2>5, <2>6
<1>6. ASSUME NEW c \in ToolCalls, Outputs(c) PROVE ToolTypes'
  <2>1. generator[c].at = "output" /\ Yields(c, "OUTPUT") /\ NextStep(c)
    BY <1>6 DEF Outputs
  <2>2. PICK g \in StreamStates : /\ g = [generator[c] EXCEPT !.at = "step", !.step = generator[c].step + 1]
                                  /\ ToolFits(g) /\ FramesBefore(g) = 2 * generator[c].step + 2
    BY <1>4, <2>1
  <2>3. /\ generator[c].step < ToolSteps /\ generator[c].tool \in Tools \ {"unknown"}
        /\ generator[c].tool # "long_computation"
    BY <1>4, <2>1
  <2>4. SequenceOf(c, "OUTPUT") = 2 * generator[c].step + 1
    BY <1>0, <2>3, FrameNumbers DEF Tools
  <2>5. SequenceOf(c, "OUTPUT") \in 0..(2 * ToolSteps)
    BY <1>0, <2>3, <2>4
  <2>6. FramesBefore(generator[c]) = 2 * generator[c].step + 1
    BY <1>0, <2>1, FramesCount
  <2>7. FramesBefore(generator[c]) + 1 <= FramesBefore(g) /\ generator' = [generator EXCEPT ![c] = g]
    BY <1>0, <2>1, <2>2, <2>6 DEF NextStep
  <2> QED BY <2>1, <2>2, <2>5, <2>7, FrameTyped
<1>7. ASSUME NEW c \in ToolCalls, Concludes(c) PROVE ToolTypes'
  <2>1. PICK kind \in {"RESULT", "CANCELLED", "ERROR"} :
          /\ Yields(c, kind) /\ GoesOn(c, "ended") /\ generator[c].at \in {"result", "cancelled", "error"}
          /\ kind = LastFrames[generator[c].at]
    BY <1>7 DEF Concludes, LastFrames
  <2>2. generator[c].at = "error" <=> kind = "ERROR"
    BY <2>1 DEF LastFrames
  <2>3. generator[c].tool \in Tools /\ (generator[c].at = "error" <=> generator[c].tool = "unknown")
    BY <1>0, <2>1 DEF ToolFits, Tools
  <2>4. SequenceOf(c, kind) \in {0, generator[c].step, 2 * generator[c].step}
    BY <1>0, <2>1, <2>2, <2>3, FrameNumbers DEF Tools
  <2>5. SequenceOf(c, kind) \in 0..(2 * ToolSteps)
    <3>1. /\ 0 \in 0..(2 * ToolSteps) /\ generator[c].step \in 0..(2 * ToolSteps)
          /\ 2 * generator[c].step \in 0..(2 * ToolSteps)
      BY <1>0
    <3> QED BY <2>4, <3>1
  <2>6. PICK g \in StreamStates : /\ generator' = [generator EXCEPT ![c] = g] /\ g.at = "ended"
                                  /\ g.tool = generator[c].tool /\ g.step = generator[c].step
    BY <1>b, <2>1, GoesOnTyped
  <2>7. FramesBefore(generator[c]) = 2 * generator[c].step /\ FramesBefore(g) = 2 * ToolSteps + 1
    BY <1>0, <2>1, <2>6, FramesCount
  <2>8. FramesBefore(generator[c]) + 1 <= FramesBefore(g) /\ ToolFits(g)
    BY <1>0, <2>6, <2>7 DEF ToolFits
  <2> QED BY <2>1, <2>5, <2>6, <2>8, FrameTyped
<1>8. ASSUME NEW c \in ToolCalls, ClosesStream(c) PROVE ToolTypes'
  <2>1. PICK where \in {"leaving", "gone"} : GoesOn(c, where) /\ active_calls' \subseteq active_calls /\ Silent(c)
    BY <1>8 DEF ClosesStream
  <2>2. PICK g \in StreamStates : /\ generator' = [generator EXCEPT ![c] = g] /\ g.at = where
                                  /\ g.tool = generator[c].tool /\ g.step = generator[c].step
    BY <1>b, <2>1, GoesOnTyped
  <2>3. FramesBefore(g) = 2 * ToolSteps + 1 /\ FramesBefore(generator[c]) <= 2 * ToolSteps + 1
    BY <1>0, <2>2, FramesCount
  <2>4. ToolFits(g) /\ FramesBefore(generator[c]) <= FramesBefore(g)
    BY <2>2, <2>3 DEF ToolFits
  <2> QED BY <1>a, <2>1, <2>2, <2>4, SilentTyped
<1>9. ASSUME CallsCancel, UNCHANGED <<generator, active_calls, handler>> PROVE ToolTypes'
  <2>1. /\ DOMAIN late' = ToolCalls
        /\ \A c \in ToolCalls : late'[c] = late[c] \/ late'[c] = 0
    BY <1>9 DEF CallsCancel, ToolTypes
  <2>2. ASSUME NEW c \in ToolCalls PROVE CallTyped(generator[c], handler[c], late'[c])
    <3>1. CallTyped(generator[c], handler[c], late[c]) /\ FramesBefore(generator[c]) >= 0
      BY <1>0, FramesCount DEF ToolTypes
    <3> QED BY <2>1, <3>1 DEF CallTyped
  <2> QED BY <1>9, <2>1, <2>2 DEF ToolTypes
<1>10. CASE UNCHANGED toolVars
  BY <1>10 DEF toolVars, ToolTypes
<1>11. ASSUME NEW c \in ToolCalls, FirstFrame(c) PROVE ToolTypes'
  BY <1>1, <1>2, <1>11 DEF FirstFrame
<1> QED BY <1>3, <1>5, <1>6, <1>7, <1>8, <1>9, <1>10, <1>11 DEF ToolNext

\* The bounds of the type.
LEMMA ToolTypesHold == ToolTypes => ToolTypeOK
<1> SUFFICES ASSUME ToolTypes, NEW c \in ToolCalls
             PROVE  /\ generator[c].step \in 0..ToolSteps
                    /\ handler[c].last \in -1..(2 * ToolSteps) /\ late[c] \in -1..(2 * ToolSteps + 1)
  BY DEF ToolTypeOK, ToolTypes
<1>1. CallTyped(generator[c], handler[c], late[c])
  BY DEF ToolTypes
<1>2. /\ generator[c] \in StreamStates /\ handler[c].last \in -1..(2 * ToolSteps)
      /\ late[c] \in Int /\ late[c] >= -1 /\ late[c] <= FramesBefore(generator[c])
  BY <1>1 DEF CallTyped
<1>3. /\ generator[c].step \in 0..ToolSteps /\ ToolSteps \in Nat /\ FramesBefore(generator[c]) \in Int
      /\ FramesBefore(generator[c]) <= 2 * ToolSteps + 1
  BY <1>2, FramesCount
<1>4. late[c] \in -1..(2 * ToolSteps + 1)
  BY <1>2, <1>3
<1> QED BY <1>2, <1>3, <1>4
-------------------------------------------------------------------------------
(* Calls through the interceptors *)

CallStates ==
  {IdleThread} \cup [at : {"authorize", "limit", "handler"}, req : CallRequests, trace : {Unset}, correlation : {Unset}]
Buckets == {NoBucket} \cup [tokens : 0..Burst, last : 0..MaxClock]
Windows == [from : 0..MaxClock, latest : 0..MaxClock, admitted : [Actors -> Nat]]
Serving == {t \in PoolThreads : StageOf(t) # "idle"}

\* The contexts of a thread: none, those of its call, or none again when the call's stream runs.
ContextsFit(t) ==
  IF StageOf(t) = "idle" \/ (StageOf(t) = "handler" /\ Streams(Request(t)))
  THEN traces[t] = Unset /\ correlations[t] = Unset
  ELSE /\ traces[t] = IF HasParent(Request(t)) THEN FromTrace(Request(t)) ELSE Unset
       /\ correlations[t] = IF HasParent(Request(t)) THEN FromTrace(Request(t)) ELSE correlation_id(Request(t))

\* What an actor was admitted and what its bucket still has: nothing before the bucket was
\* refilled since one counts, then no more than the burst and what the rate brought.
BucketFits(b, from, latest, admitted) ==
  /\ b = NoBucket => admitted = 0
  /\ b # NoBucket =>
       /\ b.last <= latest
       /\ b.last < from => admitted = 0
       /\ b.last >= from => admitted + b.tokens <= Burst + PerTick * (b.last - from)

ChainInv ==
  /\ calls \in [PoolThreads -> CallStates]
  /\ DOMAIN traces = PoolThreads /\ DOMAIN correlations = PoolThreads
  /\ \A t \in PoolThreads : ContextsFit(t)
  /\ \A t \in PoolThreads : StageOf(t) \in {"limit", "handler"} => authorize(Request(t))
  /\ inFlight = Cardinality(Serving)
  /\ buckets \in [Actors -> Buckets] /\ wallClock \in 0..MaxClock /\ window \in Windows
  /\ window.from <= wallClock /\ wallClock <= window.latest
  /\ \A a \in Actors : BucketFits(buckets[a], window.from, window.latest, window.admitted[a])

\* Every thread is idle.
LEMMA InitChain == ChainInit => ChainInv
<1> SUFFICES ASSUME ChainInit PROVE ChainInv
  OBVIOUS
<1>1. Serving = {}
  BY DEF ChainInit, Serving, StageOf, IdleThread
<1>2. inFlight = Cardinality(Serving)
  BY <1>1, FS_EmptySet DEF ChainInit
<1>3. calls \in [PoolThreads -> CallStates] /\ \A t \in PoolThreads : calls[t].at = "idle"
  BY DEF ChainInit, CallStates, IdleThread
<1>4. window \in Windows /\ wallClock \in 0..MaxClock /\ window.from = 0 /\ window.latest = 0 /\ wallClock = 0
      /\ \A a \in Actors : window.admitted[a] = 0
  BY ChainAssumption DEF ChainInit, Windows
<1>5. buckets \in [Actors -> Buckets] /\ \A a \in Actors : buckets[a] = NoBucket
  BY DEF ChainInit, Buckets
<1>6. \A a \in Actors : BucketFits(buckets[a], window.from, window.latest, window.admitted[a])
  BY <1>4, <1>5 DEF BucketFits
<1>7. \A t \in PoolThreads : ContextsFit(t) /\ StageOf(t) = "idle"
  BY <1>3 DEF ContextsFit, StageOf, ChainInit
<1>8. DOMAIN traces = PoolThreads /\ DOMAIN correlations = PoolThreads
  BY DEF ChainInit
<1> QED BY <1>2, <1>3, <1>4, <1>5, <1>6, <1>7, <1>8 DEF ChainInv

\* One who is served is counted when it comes, and one less when it goes.
LEMMA ServingCounts ==
  ASSUME NEW t \in PoolThreads, ChainInv
  PROVE  /\ IsFiniteSet(Serving)
         /\ t \notin Serving => Cardinality(Serving \cup {t}) = inFlight + 1
         /\ t \in Serving => Cardinality(Serving \ {t}) = inFlight - 1
<1>1. IsFiniteSet(Serving)
  BY ChainAssumption, FS_Subset DEF Serving
<1>2. t \notin Serving => Cardinality(Serving \cup {t}) = Cardinality(Serving) + 1
  BY <1>1, FS_AddElement
<1>3. t \in Serving => Cardinality(Serving \ {t}) = Cardinality(Serving) - 1
  BY <1>1, FS_RemoveElement
<1> QED BY <1>1, <1>2, <1>3 DEF ChainInv

\* A refilled bucket has no more than the burst and what the time since brought, so a token
\* taken from it keeps the bound.
LEMMA BucketRefills ==
  ASSUME NEW b \in Buckets, NEW w \in 0..MaxClock, NEW from \in 0..MaxClock, NEW latest \in 0..MaxClock, NEW n \in Nat,
         from <= w, w <= latest, BucketFits(b, from, latest, n),
         NEW held, held = IF b = NoBucket THEN [tokens |-> Burst, last |-> w] ELSE b,
         NEW tokens, tokens = IF w > held.last THEN Fewer(Burst, held.tokens + (w - held.last) * PerTick) ELSE held.tokens,
         NEW last, last = IF w > held.last THEN w ELSE held.last
  PROVE  /\ tokens \in 0..Burst /\ last \in 0..MaxClock /\ last <= latest /\ last >= from
         /\ n + tokens <= Burst + PerTick * (last - from)
<1>0. Burst \in Nat /\ PerTick \in Nat /\ MaxClock \in Nat
  BY ChainAssumption
<1>1. CASE b = NoBucket
  <2>1. held.tokens = Burst /\ held.last = w /\ n = 0
    BY <1>1 DEF BucketFits
  <2>2. tokens = Burst /\ last = w
    BY <2>1
  <2>3. PerTick * (w - from) >= 0
    BY <1>0
  <2> QED BY <1>0, <2>1, <2>2, <2>3
<1>2. CASE b # NoBucket
  <2>1. held = b /\ b.tokens \in 0..Burst /\ b.last \in 0..MaxClock /\ b.last <= latest
    BY <1>2 DEF BucketFits, Buckets
  <2>2. CASE w > b.last
    <3>1. last = w /\ tokens = Fewer(Burst, b.tokens + (w - b.last) * PerTick)
      BY <2>1, <2>2
    <3>2. (w - b.last) * PerTick \in Nat /\ PerTick * (w - from) \in Nat
      BY <1>0, <2>1, <2>2
    <3>3. tokens \in 0..Burst /\ tokens <= b.tokens + (w - b.last) * PerTick
      BY <1>0, <2>1, <3>1, <3>2 DEF Fewer
    <3>4. CASE b.last < from
      <4>1. n = 0
        BY <1>2, <3>4 DEF BucketFits
      <4>2. tokens <= Burst + PerTick * (w - from)
        <5>1. \A x \in Nat : tokens <= Burst + x
          BY <1>0, <3>3
        <5> QED BY <3>2, <5>1
      <4>3. n + tokens = tokens
        BY <1>0, <3>3, <4>1
      <4> QED BY <3>1, <3>3, <4>2, <4>3
    <3>5. CASE b.last >= from
      <4>1. n + b.tokens <= Burst + PerTick * (b.last - from)
        BY <1>2, <3>5 DEF BucketFits
      <4>2. PerTick * (b.last - from) + (w - b.last) * PerTick = PerTick * (w - from)
        BY <1>0, <2>1
      <4>3. PerTick * (b.last - from) \in Int
        BY <1>0, <2>1
      <4> QED BY <1>0, <2>1, <3>1, <3>2, <3>3, <4>1, <4>2, <4>3
    <3> QED BY <2>1, <3>4, <3>5
  <2>3. CASE ~(w > b.last)
    <3>1. last = b.last /\ tokens = b.tokens /\ b.last >= from
      BY <2>1, <2>3
    <3>2. n + b.tokens <= Burst + PerTick * (b.last - from)
      BY <1>2, <3>1 DEF BucketFits
    <3> QED BY <2>1, <3>1, <3>2
  <2> QED BY <2>2, <2>3
<1> QED BY <1>1, <1>2

\* A thread that goes to another stage with its call, or becomes idle; the others stay.
LEMMA CallMoves ==
  ASSUME ChainInv, NEW t \in PoolThreads, StageOf(t) # "idle", NEW where \in {"authorize", "limit", "handler"},
         MovesOn(t, where)
  PROVE  /\ calls' \in [PoolThreads -> CallStates]
         /\ calls'[t].at = where /\ calls'[t].req = calls[t].req
         /\ \A u \in PoolThreads : u # t => calls'[u] = calls[u]
<1>1. calls[t] \in [at : {"authorize", "limit", "handler"}, req : CallRequests, trace : {Unset}, correlation : {Unset}]
  BY DEF ChainInv, CallStates, StageOf, IdleThread
<1>2. PICK v \in CallStates : v = [calls[t] EXCEPT !.at = where] /\ v.at = where /\ v.req = calls[t].req
  <2>1. /\ [calls[t] EXCEPT !.at = where].at = where /\ [calls[t] EXCEPT !.at = where].req = calls[t].req
        /\ [calls[t] EXCEPT !.at = where] \in [at : {"authorize", "limit", "handler"}, req : CallRequests,
                                               trace : {Unset}, correlation : {Unset}]
    BY <1>1
  <2> QED BY <2>1 DEF CallStates
<1> QED BY <1>2 DEF MovesOn, ChainInv

\* One that leaves leaves no context, and restores those before it.
LEMMA CallLeaves ==
  ASSUME ChainInv, NEW t \in PoolThreads, LeavesMetrics(t)
  PROVE  /\ calls' \in [PoolThreads -> CallStates] /\ calls'[t].at = "idle"
         /\ \A u \in PoolThreads : u # t => calls'[u] = calls[u]
         /\ StageOf(t) # "idle" => inFlight' = Cardinality(Serving')
<1>1. calls' \in [PoolThreads -> CallStates] /\ calls'[t] = IdleThread
  BY DEF LeavesMetrics, ChainInv, CallStates
<1>2. \A u \in PoolThreads : u # t => calls'[u] = calls[u]
  BY DEF LeavesMetrics, ChainInv
<1>3. ASSUME StageOf(t) # "idle" PROVE inFlight' = Cardinality(Serving')
  <2>1. Serving' = Serving \ {t} /\ t \in Serving
    BY <1>1, <1>2, <1>3 DEF Serving, StageOf, IdleThread
  <2> QED BY <2>1, ServingCounts DEF LeavesMetrics
<1> QED BY <1>1, <1>2, <1>3 DEF IdleThread

\* Contexts that are left are those there were: none.
LEMMA ContextsLeft ==
  ASSUME ChainInv, NEW t \in PoolThreads, StageOf(t) # "idle", LeavesBoth(t)
  PROVE  /\ DOMAIN traces' = PoolThreads /\ DOMAIN correlations' = PoolThreads
         /\ traces'[t] = Unset /\ correlations'[t] = Unset
         /\ \A u \in PoolThreads : u # t => traces'[u] = traces[u] /\ correlations'[u] = correlations[u]
<1>1. calls[t].trace = Unset /\ calls[t].correlation = Unset
  BY DEF ChainInv, CallStates, StageOf, IdleThread
<1> QED BY <1>1 DEF LeavesBoth, ChainInv

\* The part about the calls and the part about the rate.
CallsInv ==
  /\ calls \in [PoolThreads -> CallStates]
  /\ DOMAIN traces = PoolThreads /\ DOMAIN correlations = PoolThreads
  /\ \A t \in PoolThreads : ContextsFit(t)
  /\ \A t \in PoolThreads : StageOf(t) \in {"limit", "handler"} => authorize(Request(t))
  /\ inFlight = Cardinality(Serving)
RatesInv ==
  /\ buckets \in [Actors -> Buckets] /\ wallClock \in 0..MaxClock /\ window \in Windows
  /\ window.from <= wallClock /\ wallClock <= window.latest
  /\ \A a \in Actors : BucketFits(buckets[a], window.from, window.latest, window.admitted[a])

\* Where one thread moves, with its call and its contexts, the others' stay.
LEMMA OneThread ==
  ASSUME ChainInv, NEW t \in PoolThreads,
         calls' \in [PoolThreads -> CallStates],
         DOMAIN traces' = PoolThreads, DOMAIN correlations' = PoolThreads, inFlight' = Cardinality(Serving'),
         ContextsFit(t)', StageOf(t)' \in {"limit", "handler"} => authorize(Request(t))',
         \A u \in PoolThreads : u # t =>
           calls'[u] = calls[u] /\ traces'[u] = traces[u] /\ correlations'[u] = correlations[u]
  PROVE  CallsInv'
<1>1. ASSUME NEW u \in PoolThreads, u # t
      PROVE  ContextsFit(u)' /\ (StageOf(u)' \in {"limit", "handler"} => authorize(Request(u))')
  <2>1. ContextsFit(u) /\ (StageOf(u) \in {"limit", "handler"} => authorize(Request(u)))
    BY DEF ChainInv
  <2>2. calls'[u] = calls[u] /\ traces'[u] = traces[u] /\ correlations'[u] = correlations[u]
    BY <1>1
  <2>3. StageOf(u)' = StageOf(u) /\ Request(u)' = Request(u)
    BY <2>2 DEF StageOf, Request
  <2> QED BY <2>1, <2>2, <2>3 DEF ContextsFit, authorize, method_permissions
<1> QED BY <1>1 DEF CallsInv

\* A call that leaves, refused or done.
LEMMA LeavingStep ==
  ASSUME ChainInv, NEW t \in PoolThreads, StageOf(t) # "idle", LeavesMetrics(t),
         LeavesBoth(t) \/ (UNCHANGED <<traces, correlations>> /\ traces[t] = Unset /\ correlations[t] = Unset)
  PROVE  CallsInv'
<1>1. /\ calls' \in [PoolThreads -> CallStates] /\ calls'[t].at = "idle"
      /\ \A u \in PoolThreads : u # t => calls'[u] = calls[u]
      /\ inFlight' = Cardinality(Serving')
  BY CallLeaves
<1>2. /\ DOMAIN traces' = PoolThreads /\ DOMAIN correlations' = PoolThreads
      /\ traces'[t] = Unset /\ correlations'[t] = Unset
      /\ \A u \in PoolThreads : u # t => traces'[u] = traces[u] /\ correlations'[u] = correlations[u]
  BY ContextsLeft DEF ChainInv
<1>3. ContextsFit(t)' /\ StageOf(t)' = "idle"
  BY <1>1, <1>2 DEF ContextsFit, StageOf
<1> QED BY <1>1, <1>2, <1>3, OneThread

\* The calls, the actors' messages and the clock keep it.
LEMMA ChainStep == ChainInv /\ [ChainNext]_chainVars => ChainInv'
<1> SUFFICES ASSUME ChainInv, [ChainNext]_chainVars PROVE ChainInv'
  OBVIOUS
<1>1. ChainInv' <=> CallsInv' /\ RatesInv'
  BY DEF ChainInv, CallsInv, RatesInv
<1>2. CallsInv /\ RatesInv
  BY DEF ChainInv, CallsInv, RatesInv
<1>3. UNCHANGED <<buckets, wallClock, window>> => RatesInv'
  BY <1>2 DEF RatesInv
<1>4. UNCHANGED <<calls, traces, correlations, inFlight>> => CallsInv'
  BY <1>2 DEF CallsInv, ContextsFit, StageOf, Request, Serving, authorize, method_permissions
<1>5. ASSUME NEW t \in PoolThreads, NEW r \in CallRequests, Enters(t, r) PROVE ChainInv'
  <2>1. /\ StageOf(t) = "idle" /\ traces[t] = Unset /\ correlations[t] = Unset
        /\ inFlight' = inFlight + 1 /\ UNCHANGED <<buckets, wallClock, window>>
    BY <1>5 DEF Enters, ChainInv, ContextsFit
  <2>2. PICK v \in CallStates :
          v = [at |-> "authorize", req |-> r, trace |-> Unset, correlation |-> Unset] /\ v.at = "authorize" /\ v.req = r
    <3>1. [at |-> "authorize", req |-> r, trace |-> Unset, correlation |-> Unset] \in CallStates
      BY DEF CallStates
    <3> QED BY <3>1
  <2>3. /\ calls' \in [PoolThreads -> CallStates] /\ calls'[t] = v
        /\ \A u \in PoolThreads : u # t => calls'[u] = calls[u]
    BY <1>5, <2>1, <2>2 DEF Enters, ChainInv
  <2>4. Serving' = Serving \cup {t} /\ t \notin Serving
    BY <2>1, <2>2, <2>3 DEF Serving, StageOf
  <2>5. inFlight' = Cardinality(Serving')
    BY <2>1, <2>4, ServingCounts
  <2>6. EntersLogging(t, r) = correlation_id(r)
    BY <2>1 DEF EntersLogging
  <2>7. /\ DOMAIN traces' = PoolThreads /\ DOMAIN correlations' = PoolThreads
        /\ traces'[t] = IF HasParent(r) THEN FromTrace(r) ELSE Unset
        /\ correlations'[t] = IF HasParent(r) THEN FromTrace(r) ELSE correlation_id(r)
        /\ \A u \in PoolThreads : u # t => traces'[u] = traces[u] /\ correlations'[u] = correlations[u]
    BY <1>5, <2>1, <2>6 DEF Enters, EntersTracing, ChainInv
  <2>8. StageOf(t)' = "authorize" /\ Request(t)' = r
    BY <2>2, <2>3 DEF StageOf, Request
  <2>9. ContextsFit(t)'
    BY <2>7, <2>8 DEF ContextsFit
  <2>10. CallsInv'
    BY <2>3, <2>5, <2>7, <2>8, <2>9, OneThread
  <2> QED BY <1>1, <1>3, <2>1, <2>10
<1>6. ASSUME NEW t \in PoolThreads, Authorizes(t) PROVE ChainInv'
  <2>1. StageOf(t) = "authorize" /\ UNCHANGED <<buckets, wallClock, window>>
    BY <1>6 DEF Authorizes
  <2>2. CASE authorize(Request(t))
    <3>1. MovesOn(t, "limit") /\ UNCHANGED <<traces, correlations, inFlight>>
      BY <1>6, <2>2 DEF Authorizes
    <3>2. /\ calls' \in [PoolThreads -> CallStates] /\ calls'[t].at = "limit" /\ calls'[t].req = calls[t].req
          /\ \A u \in PoolThreads : u # t => calls'[u] = calls[u]
      BY <2>1, <3>1, CallMoves
    <3>3. Serving' = Serving
      BY <2>1, <3>2 DEF Serving, StageOf
    <3>4. StageOf(t)' = "limit" /\ Request(t)' = Request(t)
      BY <3>2 DEF StageOf, Request
    <3>5. ContextsFit(t)'
      BY <2>1, <3>1, <3>4 DEF ContextsFit, ChainInv
    <3>6. authorize(Request(t))'
      BY <2>2, <3>4 DEF authorize, method_permissions
    <3>7. CallsInv'
      BY <3>1, <3>2, <3>3, <3>5, <3>6, OneThread DEF ChainInv
    <3> QED BY <1>1, <1>3, <2>1, <3>7
  <2>3. CASE ~authorize(Request(t))
    <3>1. LeavesMetrics(t) /\ LeavesBoth(t)
      BY <1>6, <2>3 DEF Authorizes, Refuses
    <3>2. CallsInv'
      BY <2>1, <3>1, LeavingStep
    <3> QED BY <1>1, <1>3, <2>1, <3>2
  <2> QED BY <2>2, <2>3
<1>7. ASSUME NEW t \in PoolThreads, HandlerEnds(t) PROVE ChainInv'
  <2>1. /\ StageOf(t) = "handler" /\ LeavesMetrics(t) /\ UNCHANGED <<buckets, wallClock, window>>
        /\ LeavesBoth(t) \/ (Streams(Request(t)) /\ UNCHANGED <<traces, correlations>>)
    BY <1>7 DEF HandlerEnds
  <2>2. Streams(Request(t)) => traces[t] = Unset /\ correlations[t] = Unset
    BY <2>1 DEF ChainInv, ContextsFit
  <2>3. CallsInv'
    BY <2>1, <2>2, LeavingStep
  <2> QED BY <1>1, <1>3, <2>1, <2>3
<1>8. ASSUME NEW t \in PoolThreads, Allows(t) PROVE ChainInv'
  <2> DEFINE a == Request(t).actor
             b == Bucket(a)
             limited == Request(t).method = "SendMessage"
             ok == ~limited \/ TokensNow(b) >= 1
  <2>1. StageOf(t) = "limit" /\ UNCHANGED wallClock /\ authorize(Request(t))
    BY <1>8 DEF Allows, ChainInv
  <2>2. Request(t) \in CallRequests /\ a \in Actors
    BY <2>1 DEF ChainInv, CallStates, StageOf, Request, IdleThread, Actors
  <2>3. CallsInv'
    <3>1. CASE ~ok
      <4>1. LeavesMetrics(t) /\ LeavesBoth(t)
        BY <1>8, <3>1 DEF Allows, Refuses
      <4> QED BY <2>1, <4>1, LeavingStep
    <3>2. CASE ok
      <4>1. /\ MovesOn(t, "handler") /\ UNCHANGED inFlight
            /\ IF Streams(Request(t)) THEN LeavesBoth(t) ELSE UNCHANGED <<traces, correlations>>
        BY <1>8, <3>2 DEF Allows
      <4>2. /\ calls' \in [PoolThreads -> CallStates] /\ calls'[t].at = "handler" /\ calls'[t].req = calls[t].req
            /\ \A u \in PoolThreads : u # t => calls'[u] = calls[u]
        BY <2>1, <4>1, CallMoves
      <4>3. Serving' = Serving
        BY <2>1, <4>2 DEF Serving, StageOf
      <4>4. StageOf(t)' = "handler" /\ Request(t)' = Request(t)
        BY <4>2 DEF StageOf, Request
      <4>5. authorize(Request(t))'
        BY <2>1, <4>4 DEF authorize, method_permissions
      <4>6. CASE Streams(Request(t))
        <5>1. /\ DOMAIN traces' = PoolThreads /\ DOMAIN correlations' = PoolThreads
              /\ traces'[t] = Unset /\ correlations'[t] = Unset
              /\ \A u \in PoolThreads : u # t => traces'[u] = traces[u] /\ correlations'[u] = correlations[u]
          BY <2>1, <4>1, <4>6, ContextsLeft
        <5>2. ContextsFit(t)'
          BY <4>4, <4>6, <5>1 DEF ContextsFit, Streams
        <5> QED BY <4>1, <4>2, <4>3, <4>5, <5>1, <5>2, OneThread DEF ChainInv
      <4>7. CASE ~Streams(Request(t))
        <5>1. UNCHANGED <<traces, correlations>>
          BY <4>1, <4>7
        <5>2. ContextsFit(t)
          BY DEF ChainInv
        <5>3. ContextsFit(t)'
          BY <2>1, <4>4, <4>7, <5>1, <5>2 DEF ContextsFit, Streams
        <5> QED BY <4>1, <4>2, <4>3, <4>5, <5>1, <5>3, OneThread DEF ChainInv
      <4> QED BY <4>6, <4>7
    <3> QED BY <3>1, <3>2
  <2>4. RatesInv'
    <3>1. CASE ~limited
      <4>1. UNCHANGED <<buckets, window>>
        BY <1>8, <3>1 DEF Allows
      <4> QED BY <1>3, <2>1, <4>1
    <3>2. CASE limited
      <4>1. PICK tokens \in 0..Burst, last \in 0..MaxClock :
              /\ tokens = TokensNow(b) /\ last = RefillTime(b) /\ last <= window.latest /\ last >= window.from
              /\ window.admitted[a] + tokens <= Burst + PerTick * (last - window.from)
        <5>1. /\ buckets[a] \in Buckets /\ window.from \in 0..MaxClock /\ window.latest \in 0..MaxClock
              /\ window.admitted[a] \in Nat /\ wallClock \in 0..MaxClock
              /\ BucketFits(buckets[a], window.from, window.latest, window.admitted[a])
              /\ window.from <= wallClock /\ wallClock <= window.latest
          BY <2>2 DEF ChainInv, Windows
        <5>2. b = IF buckets[a] = NoBucket THEN [tokens |-> Burst, last |-> wallClock] ELSE buckets[a]
          BY DEF Bucket
        <5> HIDE DEF b, a
        <5> QED BY <5>1, <5>2, BucketRefills DEF TokensNow, RefillTime
      <4>2. /\ buckets' = [buckets EXCEPT ![a] = [tokens |-> IF ok THEN tokens - 1 ELSE tokens, last |-> last]]
            /\ window' = IF ok THEN [window EXCEPT !.admitted = [window.admitted EXCEPT ![a] = window.admitted[a] + 1]]
                         ELSE window
            /\ ok <=> tokens >= 1
        BY <1>8, <3>2, <4>1 DEF Allows
      <4>3. PICK left \in 0..Burst : left = IF ok THEN tokens - 1 ELSE tokens
        BY <4>1, <4>2, ChainAssumption
      <4>4. PICK v \in Buckets : v = [tokens |-> left, last |-> last] /\ v.tokens = left /\ v.last = last /\ v # NoBucket
        <5>1. [tokens |-> left, last |-> last] \in Buckets
          BY DEF Buckets
        <5>2. [tokens |-> left, last |-> last].tokens # NoBucket.tokens
          BY DEF NoBucket
        <5> QED BY <5>1, <5>2
      <4>5. buckets' \in [Actors -> Buckets] /\ buckets'[a] = v /\ \A c \in Actors : c # a => buckets'[c] = buckets[c]
        BY <2>2, <4>2, <4>3, <4>4 DEF ChainInv
      <4>6. /\ window' \in Windows /\ window'.from = window.from /\ window'.latest = window.latest
            /\ window'.admitted[a] = (IF ok THEN window.admitted[a] + 1 ELSE window.admitted[a])
            /\ \A c \in Actors : c # a => window'.admitted[c] = window.admitted[c]
        <5>1. window \in Windows /\ window.admitted[a] \in Nat
          BY <2>2 DEF ChainInv, Windows
        <5>2. PICK old \in [Actors -> Nat], n \in Nat : old = window.admitted /\ n = window.admitted[a] + 1
          BY <5>1 DEF Windows
        <5> HIDE DEF ok, a
        <5>3. PICK ad \in [Actors -> Nat] :
                ad = [old EXCEPT ![a] = n] /\ ad[a] = n /\ \A c \in Actors : c # a => ad[c] = old[c]
          <6>1. [old EXCEPT ![a] = n] \in [Actors -> Nat]
            OBVIOUS
          <6>2. [old EXCEPT ![a] = n][a] = n
            BY <2>2
          <6>3. \A c \in Actors : c # a => [old EXCEPT ![a] = n][c] = old[c]
            OBVIOUS
          <6> QED BY <6>1, <6>2, <6>3
        <5>4. [window EXCEPT !.admitted = ad] \in Windows
          BY <5>1 DEF Windows
        <5>5. window' = IF ok THEN [window EXCEPT !.admitted = ad] ELSE window
          BY <4>2, <5>2, <5>3
        <5> QED BY <5>1, <5>2, <5>3, <5>4, <5>5 DEF Windows
      <4>7. BucketFits(buckets'[a], window'.from, window'.latest, window'.admitted[a])
        <5>1. /\ window'.admitted[a] + left = window.admitted[a] + tokens
              /\ window.admitted[a] \in Nat
          BY <2>2, <4>1, <4>3, <4>6 DEF ChainInv, Windows
        <5>2. window'.admitted[a] + v.tokens <= Burst + PerTick * (v.last - window'.from)
          BY <4>1, <4>4, <4>6, <5>1
        <5>3. v.last <= window'.latest /\ ~(v.last < window'.from)
          BY <2>2, <4>1, <4>4, <4>6 DEF ChainInv, Windows
        <5> QED BY <4>4, <4>5, <5>2, <5>3 DEF BucketFits
      <4>8. \A c \in Actors : BucketFits(buckets'[c], window'.from, window'.latest, window'.admitted[c])
        BY <4>5, <4>6, <4>7 DEF ChainInv
      <4> QED BY <2>1, <4>5, <4>6, <4>8 DEF RatesInv, ChainInv
    <3> QED BY <3>1, <3>2
  <2> QED BY <1>1, <2>3, <2>4
<1>9. ASSUME NEW to \in 0..MaxClock, SetsClock(to) PROVE ChainInv'
  <2>1. UNCHANGED <<calls, traces, correlations, inFlight, buckets>> /\ wallClock' = to
    BY <1>9 DEF SetsClock
  <2>2. /\ window \in Windows /\ window.from \in 0..MaxClock /\ window.latest \in 0..MaxClock
        /\ window.admitted \in [Actors -> Nat] /\ MaxClock \in Nat
    BY ChainAssumption DEF ChainInv, Windows
  <2>3. PICK latest \in 0..MaxClock, from \in 0..MaxClock :
          /\ latest = IF to > window.latest THEN to ELSE window.latest
          /\ from = Fewer(to, window.from)
    BY <2>2 DEF Fewer
  <2>4. latest >= to /\ latest >= window.latest /\ from <= to /\ from <= window.from
    BY <2>2, <2>3 DEF Fewer
  <2>5. window' = [window EXCEPT !.latest = latest, !.from = from]
    BY <1>9, <2>3 DEF SetsClock
  <2>6. window' \in Windows /\ window'.latest = latest /\ window'.from = from /\ window'.admitted = window.admitted
    BY <2>2, <2>5 DEF Windows
  <2>7. ASSUME NEW a \in Actors PROVE BucketFits(buckets[a], from, latest, window.admitted[a])
    <3>1. BucketFits(buckets[a], window.from, window.latest, window.admitted[a]) /\ buckets[a] \in Buckets
          /\ window.admitted[a] \in Nat
      BY <2>2 DEF ChainInv
    <3>2. CASE buckets[a] = NoBucket
      BY <3>1, <3>2 DEF BucketFits
    <3>3. CASE buckets[a] # NoBucket
      <4>1. PICK n \in 0..Burst, last \in 0..MaxClock : n = buckets[a].tokens /\ last = buckets[a].last
        BY <3>1, <3>3 DEF Buckets
      <4>2. last <= latest
        BY <2>2, <2>4, <3>1, <3>3, <4>1 DEF BucketFits
      <4>3. last < from => window.admitted[a] = 0
        BY <2>2, <2>4, <3>1, <3>3, <4>1 DEF BucketFits
      <4>4. ASSUME last >= from PROVE window.admitted[a] + n <= Burst + PerTick * (last - from)
        <5>0. PerTick \in Nat /\ Burst \in Nat
          BY ChainAssumption
        <5>1. CASE last < window.from
          <6>1. window.admitted[a] = 0
            BY <3>1, <3>3, <4>1, <5>1 DEF BucketFits
          <6>2. PerTick * (last - from) \in Nat
            BY <2>2, <4>4, <5>0
          <6>3. \A x \in Nat : 0 + n <= Burst + x
            BY <5>0
          <6> QED BY <6>1, <6>2, <6>3
        <5>2. CASE last >= window.from
          <6>1. window.admitted[a] + n <= Burst + PerTick * (last - window.from)
            BY <3>1, <3>3, <4>1, <5>2 DEF BucketFits
          <6>2. PerTick * (last - from) = PerTick * (last - window.from) + PerTick * (window.from - from)
            BY <2>2, <5>0
          <6>3. PerTick * (window.from - from) \in Nat /\ PerTick * (last - window.from) \in Int
            BY <2>2, <2>4, <5>0
          <6>4. \A x \in Int, y \in Nat : window.admitted[a] + n <= Burst + x => window.admitted[a] + n <= Burst + (x + y)
            BY <3>1, <5>0
          <6> QED BY <6>1, <6>2, <6>3, <6>4
        <5> QED BY <2>2, <5>1, <5>2
      <4> QED BY <3>3, <4>1, <4>2, <4>3, <4>4 DEF BucketFits
    <3> QED BY <3>2, <3>3
  <2>8. RatesInv'
    BY <2>1, <2>2, <2>4, <2>6, <2>7 DEF RatesInv, ChainInv
  <2> QED BY <1>1, <1>4, <2>1, <2>8
<1>10. ASSUME Counts PROVE ChainInv'
  <2>1. /\ wallClock = window.latest /\ UNCHANGED <<calls, traces, correlations, inFlight, buckets, wallClock>>
        /\ window' = [from |-> wallClock, latest |-> wallClock, admitted |-> [a \in Actors |-> 0]]
    BY <1>10 DEF Counts
  <2>2. /\ wallClock \in 0..MaxClock /\ wallClock \in Int /\ window' \in Windows /\ window'.from = wallClock
        /\ window'.latest = wallClock /\ \A a \in Actors : window'.admitted[a] = 0
    BY <2>1, ChainAssumption DEF ChainInv, Windows
  <2>3. ASSUME NEW a \in Actors PROVE BucketFits(buckets[a], wallClock, wallClock, 0)
    <3>1. BucketFits(buckets[a], window.from, window.latest, window.admitted[a]) /\ buckets[a] \in Buckets
      BY DEF ChainInv
    <3>2. CASE buckets[a] = NoBucket
      BY <3>2 DEF BucketFits
    <3>3. CASE buckets[a] # NoBucket
      <4>1. PICK n \in 0..Burst, last \in 0..MaxClock : n = buckets[a].tokens /\ last = buckets[a].last
        BY <3>1, <3>3 DEF Buckets
      <4>2. last <= wallClock
        BY <2>1, <3>1, <3>3, <4>1 DEF BucketFits
      <4>3. last >= wallClock => PerTick * (last - wallClock) = 0
        <5>1. last >= wallClock => last - wallClock = 0
          BY <2>2, <4>2
        <5>2. PerTick * 0 = 0
          BY ChainAssumption
        <5> QED BY <5>1, <5>2
      <4> QED BY <3>3, <4>1, <4>2, <4>3, ChainAssumption DEF BucketFits
    <3> QED BY <3>2, <3>3
  <2>4. RatesInv'
    BY <2>1, <2>2, <2>3 DEF RatesInv, ChainInv
  <2> QED BY <1>1, <1>4, <2>1, <2>4
<1>11. ASSUME UNCHANGED chainVars PROVE ChainInv'
  BY <1>1, <1>3, <1>4, <1>11 DEF chainVars
<1> QED
  BY <1>5, <1>6, <1>7, <1>8, <1>9, <1>10, <1>11 DEF ChainNext

\* The invariant has that calls leave no trace.
LEMMA CallsAreClean == ChainInv => CallsLeaveNoTrace
<1> SUFFICES ASSUME ChainInv, NEW t \in PoolThreads
             PROVE  IF StageOf(t) = "idle" THEN traces[t] = Unset /\ correlations[t] = Unset
                    ELSE /\ traces[t] \in {Unset, FromTrace(Request(t))}
                         /\ correlations[t] \in {Unset, FromRequest(Request(t)), FromTrace(Request(t))}
                         /\ StageOf(t) = "handler" /\ ~Streams(Request(t)) =>
                              /\ Request(t).traced => traces[t] = FromTrace(Request(t))
                              /\ Request(t).correlated => correlations[t] # Unset
  BY DEF CallsLeaveNoTrace, ChainInv, Serving
<1>1. ContextsFit(t)
  BY DEF ChainInv
<1>2. FromTrace(Request(t)) # Unset /\ FromRequest(Request(t)) # Unset
  <2>1. FromTrace(Request(t)).kind = "trace" /\ FromRequest(Request(t)).kind = "request" /\ Unset.kind = "none"
    BY DEF FromTrace, FromRequest, Unset
  <2> QED BY <2>1
<1> QED BY <1>1, <1>2 DEF ContextsFit, HasParent, correlation_id

\* And that actors are admitted within their rate, for themselves.
LEMMA RatesAreKept == ChainInv => AdmittedInBound
<1> SUFFICES ASSUME ChainInv PROVE AdmittedInBound
  OBVIOUS
<1>1. ASSUME NEW a \in Actors PROVE window.admitted[a] <= Burst + PerTick * (window.latest - window.from)
  <2>1. /\ BucketFits(buckets[a], window.from, window.latest, window.admitted[a]) /\ buckets[a] \in Buckets
        /\ window.admitted[a] \in Nat /\ window.from \in Nat /\ window.latest \in Nat /\ window.from <= window.latest
        /\ Burst \in Nat /\ PerTick \in Nat
    BY ChainAssumption DEF ChainInv, Windows
  <2>2. PerTick * (window.latest - window.from) \in Nat
    BY <2>1
  <2>3. CASE window.admitted[a] = 0
    BY <2>1, <2>2, <2>3
  <2>4. CASE window.admitted[a] # 0
    <3>1. /\ buckets[a].last \in Nat /\ buckets[a].tokens \in Nat
          /\ buckets[a].last <= window.latest /\ buckets[a].last >= window.from
          /\ window.admitted[a] + buckets[a].tokens <= Burst + PerTick * (buckets[a].last - window.from)
      BY <2>1, <2>4, ChainAssumption DEF BucketFits, Buckets
    <3>2. PerTick * (window.latest - window.from) =
            PerTick * (buckets[a].last - window.from) + PerTick * (window.latest - buckets[a].last)
      BY <2>1, <3>1
    <3>3. PerTick * (window.latest - buckets[a].last) \in Nat /\ PerTick * (buckets[a].last - window.from) \in Int
      BY <2>1, <3>1
    <3>4. \A x \in Int, y \in Nat :
            window.admitted[a] + buckets[a].tokens <= Burst + x => window.admitted[a] <= Burst + (x + y)
      BY <2>1, <3>1
    <3> QED BY <3>1, <3>2, <3>3, <3>4
  <2> QED BY <2>3, <2>4
<1>2. ASSUME NEW t \in PoolThreads, StageOf(t) = "handler"
      PROVE  LET r == Request(t) IN
             /\ r.method \in {"SendMessage", "StreamIncoming"} => r.agent = r.actor
             /\ r.method = "RequestPreemption" => r.actor = SchedulerAgent
  BY <1>2 DEF ChainInv, authorize, method_permissions, self_bound_methods
<1> QED BY <1>1, <1>2 DEF AdmittedInBound

\* The trace and the correlation id of each thread are nobody's, a caller's or a request's.
ContextsTyped == traces \in [PoolThreads -> Contexts] /\ correlations \in [PoolThreads -> Contexts]

\* They are nobody's.
LEMMA InitContextsTyped == ChainInit => ContextsTyped
BY DEF ChainInit, ContextsTyped, Contexts

\* A wrapper sets its own and restores what there was before it.
LEMMA ContextsTypedStep == ChainInv /\ ContextsTyped /\ [ChainNext]_chainVars => ContextsTyped'
<1> SUFFICES ASSUME ChainInv, ContextsTyped, [ChainNext]_chainVars PROVE ContextsTyped'
  OBVIOUS
<1>1. ASSUME NEW t \in PoolThreads, NEW r \in CallRequests, Enters(t, r) PROVE ContextsTyped'
  <2>1. /\ Unset \in Contexts /\ FromTrace(r) \in Contexts /\ correlation_id(r) \in Contexts
        /\ EntersLogging(t, r) \in Contexts
    BY DEF Contexts, ContextsTyped, correlation_id, EntersLogging
  <2> QED BY <1>1, <2>1 DEF ContextsTyped, Enters, EntersTracing
<1>2. ASSUME NEW t \in PoolThreads, StageOf(t) # "idle", LeavesBoth(t) PROVE ContextsTyped'
  <2>1. calls[t].trace = Unset /\ calls[t].correlation = Unset /\ Unset \in Contexts
    BY <1>2 DEF ChainInv, CallStates, StageOf, IdleThread, Contexts
  <2> QED BY <1>2, <2>1 DEF LeavesBoth, ContextsTyped
<1>3. ASSUME UNCHANGED <<traces, correlations>> PROVE ContextsTyped'
  BY <1>3 DEF ContextsTyped
<1>4. ASSUME NEW t \in PoolThreads, Authorizes(t) \/ Allows(t) \/ HandlerEnds(t) PROVE ContextsTyped'
  <2>1. StageOf(t) # "idle" /\ (LeavesBoth(t) \/ UNCHANGED <<traces, correlations>>)
    BY <1>4 DEF Authorizes, Allows, HandlerEnds, Refuses
  <2> QED BY <1>2, <1>3, <2>1
<1>5. ASSUME UNCHANGED chainVars \/ Counts \/ \E to \in 0..MaxClock : SetsClock(to) PROVE ContextsTyped'
  BY <1>3, <1>5 DEF chainVars, Counts, SetsClock
<1> QED BY <1>1, <1>4, <1>5 DEF ChainNext

\* Calls, contexts, the gauge and the buckets have their types.
LEMMA ChainTypes == ChainInv /\ ContextsTyped => ChainTypeOK
<1> SUFFICES ASSUME ChainInv, ContextsTyped PROVE ChainTypeOK
  OBVIOUS
<1>1. ASSUME NEW t \in PoolThreads
      PROVE  /\ StageOf(t) \in {"idle", "authorize", "limit", "handler"}
             /\ StageOf(t) # "idle" => Request(t) \in CallRequests
  <2>1. calls[t] \in CallStates
    BY DEF ChainInv
  <2> QED BY <2>1 DEF CallStates, IdleThread, StageOf, Request
<1>2. inFlight \in 0..Cardinality(PoolThreads)
  <2>1. /\ IsFiniteSet(PoolThreads) /\ Serving \subseteq PoolThreads
    BY ChainAssumption DEF Serving
  <2>2. Cardinality(Serving) <= Cardinality(PoolThreads) /\ IsFiniteSet(Serving)
    BY <2>1, FS_Subset
  <2>3. Cardinality(Serving) \in Nat /\ Cardinality(PoolThreads) \in Nat
    BY <2>1, <2>2, FS_CardinalityType
  <2> QED BY <2>2, <2>3 DEF ChainInv
<1>3. \A a \in Actors : \/ buckets[a] = NoBucket
                        \/ buckets[a].tokens \in 0..Burst /\ buckets[a].last \in 0..MaxClock
  BY DEF ChainInv, Buckets
<1> QED BY <1>1, <1>2, <1>3 DEF ChainTypeOK, ContextsTyped, ChainInv
-------------------------------------------------------------------------------
(* Peers in turn *)

\* A number is a multiple of a divisor and what is left of it.
HasQuotient(c, n) == \E q \in Nat, r \in 0..(n - 1) : c = n * q + r
\* Each number is: what is left when the divisor is taken from it as many times as it goes.
LEMMA QuotientExists ==
  ASSUME NEW n \in Nat \ {0}, NEW c \in Nat
  PROVE  HasQuotient(c, n)
<1> DEFINE Rest == {r \in Nat : \E q \in Nat : c = n * q + r}
<1>1. c \in Rest
  <2>1. 0 \in Nat /\ c = n * 0 + c
    OBVIOUS
  <2> QED BY <2>1
<1>2. PICK r \in Rest : \A y \in Rest : r <= y
  <2>1. Rest \subseteq Nat /\ Rest # {}
    BY <1>1
  <2> HIDE DEF Rest
  <2> QED BY <2>1, LeastNumber
<1>3. PICK q \in Nat : c = n * q + r
  BY <1>2
<1>4. r < n
  <2> SUFFICES ASSUME r >= n PROVE FALSE
    BY <1>2
  <2>1. n * (q + 1) = n * q + n
    OBVIOUS
  <2>2. PICK m \in Int : m = n * q
    OBVIOUS
  <2>3. c = n * (q + 1) + (r - n) /\ r - n \in Nat /\ r - n < r
    BY <1>2, <1>3, <2>1, <2>2
  <2>4. q + 1 \in Nat
    OBVIOUS
  <2>5. r - n \in Rest
    BY <2>3, <2>4
  <2>6. ~ r <= r - n
    BY <1>2, <2>3
  <2> QED BY <1>2, <2>5, <2>6
<1>5. r \in 0..(n - 1)
  BY <1>2, <1>4
<1> QED BY <1>3, <1>5 DEF HasQuotient

\* The remainder of a sum of a multiple.
LEMMA RemainderOf ==
  ASSUME NEW n \in Nat \ {0}, NEW q \in Nat, NEW r \in 0..(n - 1)
  PROVE  (n * q + r) % n = r
OBVIOUS

\* The place in a list that the cursor comes to.
LEMMA NextPlace ==
  ASSUME NEW n \in Nat \ {0}, NEW R \in Nat \ {0}, R % n = 0, NEW c \in 0..(R - 1)
  PROVE  /\ c % n \in 0..(n - 1)
         /\ (c + 1) % R \in 0..(R - 1)
         /\ ((c + 1) % R) % n = IF (c % n) + 1 < n THEN (c % n) + 1 ELSE 0
<1>0. c \in Nat
  OBVIOUS
<1>1. PICK q \in Nat, r \in 0..(n - 1) : c = n * q + r
  <2>1. HasQuotient(c, n)
    BY <1>0, QuotientExists
  <2> QED BY <2>1 DEF HasQuotient
<1>2. c % n = r
  BY <1>1, RemainderOf
<1>3. (c + 1) % n = IF r + 1 < n THEN r + 1 ELSE 0
  <2>0. PICK m \in Int : m = n * q
    OBVIOUS
  <2>1. CASE r + 1 < n
    <3>1. c + 1 = n * q + (r + 1) /\ r + 1 \in 0..(n - 1)
      BY <1>1, <2>0, <2>1
    <3>2. (n * q + (r + 1)) % n = r + 1
      BY <3>1, RemainderOf
    <3> QED BY <2>1, <3>1, <3>2
  <2>2. CASE ~ r + 1 < n
    <3>1. n * (q + 1) = n * q + n
      OBVIOUS
    <3>2. r + 1 = n
      BY <2>2
    <3>3. c + 1 = n * (q + 1) + 0 /\ 0 \in 0..(n - 1) /\ q + 1 \in Nat
      BY <1>1, <2>0, <3>1, <3>2
    <3>4. (n * (q + 1) + 0) % n = 0
      BY <3>3, RemainderOf
    <3> QED BY <2>2, <3>3, <3>4
  <2> QED BY <2>1, <2>2
<1>4. (c + 1) % R = IF c + 1 < R THEN c + 1 ELSE 0
  OBVIOUS
<1>5. CASE c + 1 < R
  BY <1>2, <1>3, <1>4, <1>5
<1>6. CASE c + 1 = R
  <2>1. 0 % n = 0
    OBVIOUS
  <2>2. (c + 1) % n = 0
    BY <1>6
  <2> QED BY <1>2, <1>3, <1>4, <1>6, <2>1, <2>2
<1> QED BY <1>5, <1>6

KnownPeers == [serves : BOOLEAN, silent : 0..(Liveness + 1), cooldown : 0..MaxCooldown]

\* A peer on the list that said it is overloaded is not forgotten, and its cooldown is no shorter.
Spared(p) ==
  /\ runtime[p] = Unknown => overload[p] = 0
  /\ runtime[p] # Unknown => overload[p] <= runtime[p].cooldown

RuntimesInv ==
  /\ runtime \in [Peers -> KnownPeers \cup {Unknown}] /\ overload \in [Peers -> 0..MaxCooldown]
  /\ \A p \in Peers \ dropped : Spared(p)

\* A place on a list of n that goes round, counted from 1 and from 0.
Place(x, n) == IF x <= n THEN x ELSE x - n
Before(x, n) == IF x < n THEN x ELSE x - n

\* Who is chosen one after the other from a list, from a place on.
InTurn(list, chosen, s) == \A j \in 1..Len(chosen) : chosen[j] = list[Place(s + j, Len(list))]

\* The last turns went round the list once at most, and the cursor is where they came to.
TurnsFit(list, chosen, c) ==
  /\ list # <<>> /\ IsInjective(list) /\ Len(chosen) <= Len(list) /\ CursorRounds % Len(list) = 0
  /\ \E s \in 0..(Len(list) - 1) :
       InTurn(list, chosen, s) /\ c % Len(list) = Before(s + Len(chosen), Len(list))

TurnsInv ==
  /\ peers \in PeerLists \cup {<<>>} /\ cursor \in 0..(CursorRounds - 1)
  /\ turns \in [list : Seq(Peers), chosen : Seq(Peers)]
  /\ \/ turns.list = <<>> /\ turns.chosen = <<>>
     \/ TurnsFit(turns.list, turns.chosen, cursor)

PeersInv == RuntimesInv /\ TurnsInv

\* One is chosen after the others.
LEMMA OneTurn ==
  ASSUME NEW S, NEW list \in Seq(S), NEW chosen \in Seq(S), NEW s \in 0..(Len(list) - 1),
         list # <<>>, Len(chosen) < Len(list), InTurn(list, chosen, s)
  PROVE  InTurn(list, Append(chosen, list[Before(s + Len(chosen), Len(list)) + 1]), s)
<1>1. PICK n \in Nat : n = Len(list) /\ n > 0
  OBVIOUS
<1>2. PICK k \in Nat : k = Len(chosen) /\ k < n
  BY <1>1
<1>3. PICK e : e = list[Before(s + k, n) + 1]
  OBVIOUS
<1>4. e = list[Place(s + (k + 1), n)]
  <2>1. Before(s + k, n) + 1 = Place(s + (k + 1), n)
    BY <1>1, <1>2 DEF Before, Place
  <2> QED BY <1>3, <2>1
<1>5. Before(s + k, n) + 1 \in 1..n
  BY <1>1, <1>2 DEF Before
<1>6. e \in S
  BY <1>1, <1>3, <1>5
<1>7. PICK r : r = Append(chosen, e)
  OBVIOUS
<1>8. r \in Seq(S) /\ Len(r) = k + 1 /\ r[k + 1] = e /\ \A j \in 1..k : r[j] = chosen[j]
  BY <1>2, <1>6, <1>7, AppendProperties
<1>9. ASSUME NEW j \in 1..(k + 1) PROVE r[j] = list[Place(s + j, n)]
  <2>1. CASE j = k + 1
    BY <1>4, <1>8, <2>1
  <2>2. CASE j # k + 1
    <3>1. j \in 1..k
      BY <1>2, <2>2
    <3> QED BY <1>1, <1>2, <1>8, <3>1 DEF InTurn
  <2> QED BY <2>1, <2>2
<1>10. InTurn(list, r, s)
  BY <1>1, <1>8, <1>9 DEF InTurn
<1> QED BY <1>1, <1>2, <1>3, <1>7, <1>10

\* The first of a whole round is left out.
LEMMA TurnsShift ==
  ASSUME NEW S, NEW list \in Seq(S), NEW chosen \in Seq(S), NEW s \in 0..(Len(list) - 1),
         list # <<>>, Len(chosen) = Len(list), InTurn(list, chosen, s)
  PROVE  \E z \in 0..(Len(list) - 1) :
           /\ InTurn(list, Tail(chosen), z)
           /\ Before(s + Len(chosen), Len(list)) = Before(z + Len(Tail(chosen)), Len(list))
<1>1. PICK n \in Nat : n = Len(list) /\ n > 0
  OBVIOUS
<1>2. PICK z \in 0..(n - 1) : z = IF s + 1 < n THEN s + 1 ELSE 0
  BY <1>1
<1>3. PICK t : t = Tail(chosen)
  OBVIOUS
<1>4. t \in Seq(S) /\ Len(t) = n - 1 /\ \A j \in 1..(n - 1) : t[j] = chosen[j + 1]
  BY <1>1, <1>3, HeadTailProperties
<1>5. ASSUME NEW j \in 1..(n - 1) PROVE t[j] = list[Place(z + j, n)]
  <2>1. j + 1 \in 1..Len(chosen)
    BY <1>1
  <2>2. t[j] = list[Place(s + (j + 1), n)]
    BY <1>1, <1>4, <2>1 DEF InTurn
  <2>3. Place(s + (j + 1), n) = Place(z + j, n)
    BY <1>1, <1>2 DEF Place
  <2> QED BY <2>2, <2>3
<1>6. InTurn(list, t, z)
  BY <1>1, <1>4, <1>5 DEF InTurn
<1>7. Before(s + n, n) = Before(z + (n - 1), n)
  BY <1>1, <1>2 DEF Before
<1> QED BY <1>1, <1>2, <1>3, <1>4, <1>6, <1>7

\* Nobody is chosen twice in one round.
LEMMA TurnsDiffer ==
  ASSUME NEW S, NEW list \in Seq(S), NEW chosen \in Seq(S), NEW s \in 0..(Len(list) - 1),
         IsInjective(list), Len(chosen) <= Len(list), InTurn(list, chosen, s)
  PROVE  IsInjective(chosen)
<1>1. PICK n \in Nat : n = Len(list)
  OBVIOUS
<1>2. DOMAIN chosen = 1..Len(chosen) /\ DOMAIN list = 1..n
  BY <1>1
<1>3. ASSUME NEW i \in 1..Len(chosen), NEW j \in 1..Len(chosen), chosen[i] = chosen[j]
      PROVE  i = j
  <2>1. i \in 1..n /\ j \in 1..n
    BY <1>1
  <2>2. Place(s + i, n) \in 1..n /\ Place(s + j, n) \in 1..n
    BY <1>1, <2>1 DEF Place
  <2>3. list[Place(s + i, n)] = list[Place(s + j, n)]
    BY <1>1, <1>3 DEF InTurn
  <2>4. Place(s + i, n) = Place(s + j, n)
    BY <1>2, <2>2, <2>3 DEF IsInjective
  <2> QED BY <1>1, <2>1, <2>4 DEF Place
<1> QED BY <1>2, <1>3 DEF IsInjective

\* Nothing is known of the peers.
LEMMA InitPeers == PeersInit => PeersInv
<1> SUFFICES ASSUME PeersInit PROVE PeersInv
  OBVIOUS
<1>1. RuntimesInv
  BY PeersAssumption DEF PeersInit, RuntimesInv, Spared
<1>2. turns \in [list : Seq(Peers), chosen : Seq(Peers)]
  <2>1. <<>> \in Seq(Peers)
    OBVIOUS
  <2> QED BY <2>1 DEF PeersInit
<1>3. TurnsInv
  BY <1>2, PeersAssumption DEF PeersInit, TurnsInv
<1> QED BY <1>1, <1>3 DEF PeersInv

\* Each operation leaves what was said of overload in force.
LEMMA RuntimesStep == RuntimesInv /\ [PeersNext]_peerVars => RuntimesInv'
<1> SUFFICES ASSUME RuntimesInv, [PeersNext]_peerVars PROVE RuntimesInv'
  OBVIOUS
<1>0. /\ \A p \in Peers : runtime[p] \in KnownPeers \cup {Unknown} /\ overload[p] \in 0..MaxCooldown
      /\ Fresh \in KnownPeers /\ Fresh.cooldown = 0
      /\ Liveness \in Nat /\ MaxCooldown \in Nat /\ Unknown \notin KnownPeers
  BY PeersAssumption DEF RuntimesInv, Fresh, KnownPeers
<1>00. \A p \in Peers : RuntimeOf(p) \in KnownPeers /\ RuntimeOf(p).cooldown \in 0..MaxCooldown
  BY <1>0 DEF RuntimeOf, KnownPeers
<1>1. ASSUME NEW l \in PeerLists, set_peers(l) PROVE RuntimesInv'
  <2>1. runtime' \in [Peers -> KnownPeers \cup {Unknown}]
    BY <1>1, <1>00 DEF set_peers
  <2>2. overload' = overload
    BY <1>1 DEF set_peers
  <2>3. ASSUME NEW p \in Peers \ dropped' PROVE Spared(p)'
    <3>1. p \in ToSet(l) /\ p \in Peers \ dropped /\ runtime'[p] = RuntimeOf(p)
      BY <1>1 DEF set_peers
    <3>2. Spared(p)
      BY <3>1 DEF RuntimesInv
    <3>3. RuntimeOf(p) \in KnownPeers /\ RuntimeOf(p) # Unknown
      BY <1>0, <1>00
    <3>4. overload[p] <= RuntimeOf(p).cooldown
      BY <1>0, <3>2 DEF Spared, RuntimeOf
    <3> QED BY <2>2, <3>1, <3>3, <3>4 DEF Spared
  <2> QED BY <2>1, <2>2, <2>3 DEF RuntimesInv
<1>2. ASSUME NEW p \in Peers, NEW s \in BOOLEAN, NEW silent \in 0..(Liveness + 1),
             NEW c \in 0..MaxCooldown, update_peer_runtime_state(p, s, silent, c)
      PROVE  RuntimesInv'
  <2>1. PICK r \in KnownPeers : r = [serves |-> s, silent |-> silent, cooldown |-> c] /\ r.cooldown = c
    <3>1. [serves |-> s, silent |-> silent, cooldown |-> c] \in KnownPeers
      BY DEF KnownPeers
    <3>2. [serves |-> s, silent |-> silent, cooldown |-> c].cooldown = c
      OBVIOUS
    <3> QED BY <3>1, <3>2
  <2>2. runtime' = [runtime EXCEPT ![p] = r]
    BY <1>2, <2>1 DEF update_peer_runtime_state
  <2>3. PICK o \in 0..MaxCooldown : o = IF c = RuntimeOf(p).cooldown THEN overload[p] ELSE c
    BY <1>0
  <2>4. overload' = [overload EXCEPT ![p] = o] /\ dropped' = dropped
    BY <1>2, <2>3 DEF update_peer_runtime_state
  <2>5. runtime' \in [Peers -> KnownPeers \cup {Unknown}] /\ overload' \in [Peers -> 0..MaxCooldown]
    BY <2>2, <2>4 DEF RuntimesInv
  <2>6. ASSUME NEW q \in Peers \ dropped' PROVE Spared(q)'
    <3>1. Spared(q) /\ q \in Peers
      BY <2>4 DEF RuntimesInv
    <3>2. CASE q # p
      <4>1. runtime'[q] = runtime[q] /\ overload'[q] = overload[q]
        BY <2>2, <2>4, <3>2 DEF RuntimesInv
      <4> QED BY <3>1, <4>1 DEF Spared
    <3>3. CASE q = p
      <4>1. runtime'[q] = r /\ overload'[q] = o /\ r # Unknown
        BY <1>0, <2>2, <2>4, <3>1, <3>3 DEF RuntimesInv
      <4>2. o <= c
        BY <1>0, <2>3, <3>1, <3>3 DEF Spared, RuntimeOf
      <4> QED BY <2>1, <4>1, <4>2 DEF Spared
    <3> QED BY <3>2, <3>3
  <2> QED BY <2>5, <2>6 DEF RuntimesInv
<1>3. ASSUME NEW p \in Peers, NEW c \in 0..MaxCooldown, record_peer_overloaded(p, c)
      PROVE  RuntimesInv'
  <2>0. PICK b \in KnownPeers : b = RuntimeOf(p) /\ b.cooldown \in 0..MaxCooldown
    BY <1>00
  <2>1. PICK m \in 0..MaxCooldown : m = LongestCooldown(p, c) /\ c <= m /\ b.cooldown <= m
    BY <1>0, <2>0 DEF LongestCooldown, Longer
  <2>2. PICK r \in KnownPeers : r = [b EXCEPT !.cooldown = m] /\ r.cooldown = m
    <3>1. [b EXCEPT !.cooldown = m] \in KnownPeers
      BY DEF KnownPeers
    <3>2. [b EXCEPT !.cooldown = m].cooldown = m
      BY DEF KnownPeers
    <3> QED BY <3>1, <3>2
  <2>3. runtime' = [runtime EXCEPT ![p] = r]
    BY <1>3, <2>0, <2>1, <2>2 DEF record_peer_overloaded
  <2>4. PICK o \in 0..MaxCooldown : o = Longer(overload[p], c)
    BY <1>0 DEF Longer
  <2>5. overload' = [overload EXCEPT ![p] = o]
        /\ dropped' = IF overload[p] = 0 THEN dropped \ {p} ELSE dropped
    BY <1>3, <2>4 DEF record_peer_overloaded
  <2>6. runtime' \in [Peers -> KnownPeers \cup {Unknown}] /\ overload' \in [Peers -> 0..MaxCooldown]
    BY <2>3, <2>5 DEF RuntimesInv
  <2>7. ASSUME NEW q \in Peers \ dropped' PROVE Spared(q)'
    <3>1. CASE q # p
      <4>1. runtime'[q] = runtime[q] /\ overload'[q] = overload[q] /\ q \in Peers \ dropped
        BY <2>3, <2>5, <3>1 DEF RuntimesInv
      <4> QED BY <4>1 DEF Spared, RuntimesInv
    <3>2. CASE q = p
      <4>1. runtime'[q] = r /\ overload'[q] = o /\ r # Unknown
        BY <1>0, <2>3, <2>5, <3>2 DEF RuntimesInv
      <4>2. overload[p] <= m
        <5>1. CASE overload[p] = 0
          BY <2>1, <5>1
        <5>2. CASE overload[p] # 0
          <6>1. p \in Peers \ dropped
            BY <2>5, <3>2, <5>2
          <6>2. Spared(p)
            BY <6>1 DEF RuntimesInv
          <6> QED BY <1>0, <2>0, <2>1, <5>2, <6>2 DEF Spared, RuntimeOf
        <5> QED BY <5>1, <5>2
      <4>3. o <= m
        BY <1>0, <2>1, <2>4, <4>2 DEF Longer
      <4> QED BY <2>2, <4>1, <4>3 DEF Spared
    <3> QED BY <3>1, <3>2
  <2> QED BY <2>6, <2>7 DEF RuntimesInv
<1>4. ASSUME NEW well \in SUBSET Peers, select_peer(well) PROVE RuntimesInv'
  <2>1. UNCHANGED <<runtime, overload, dropped>>
    BY <1>4 DEF select_peer
  <2> QED BY <2>1 DEF RuntimesInv, Spared
<1>5. ASSUME PeerTimePasses PROVE RuntimesInv'
  <2>1. dropped' = dropped /\ \A n \in 0..MaxCooldown : Less(n) \in 0..MaxCooldown
    <3>1. dropped' = dropped
      BY <1>5 DEF PeerTimePasses
    <3>2. \A n \in 0..MaxCooldown : Less(n) \in 0..MaxCooldown
      BY <1>0 DEF Less
    <3> QED BY <3>1, <3>2
  <2>2. overload' \in [Peers -> 0..MaxCooldown] /\ \A p \in Peers : overload'[p] = Less(overload[p])
    BY <1>0, <1>5, <2>1 DEF PeerTimePasses
  <2>3. ASSUME NEW p \in Peers, runtime[p] = Unknown PROVE runtime'[p] = Unknown
    BY <1>5, <2>3 DEF PeerTimePasses
  <2>4. ASSUME NEW p \in Peers, runtime[p] # Unknown
        PROVE  runtime'[p] \in KnownPeers /\ runtime'[p].cooldown = Less(runtime[p].cooldown)
    <3>1. PICK r \in KnownPeers : r = runtime[p]
      BY <1>0, <2>4
    <3>2. r.silent \in 0..(Liveness + 1) /\ r.cooldown \in 0..MaxCooldown
      BY DEF KnownPeers
    <3>3. PICK u \in 0..(Liveness + 1) : u = IF r.silent > Liveness THEN r.silent ELSE r.silent + 1
      BY <1>0, <3>2
    <3>4. PICK v \in 0..MaxCooldown : v = Less(r.cooldown)
      BY <2>1, <3>2
    <3>5. runtime'[p] = [r EXCEPT !.silent = u, !.cooldown = v]
      BY <1>5, <2>4, <3>1, <3>3, <3>4 DEF PeerTimePasses
    <3>6. [r EXCEPT !.silent = u, !.cooldown = v] \in KnownPeers
          /\ [r EXCEPT !.silent = u, !.cooldown = v].cooldown = v
      BY DEF KnownPeers
    <3> QED BY <3>1, <3>4, <3>5, <3>6
  <2>5. runtime' \in [Peers -> KnownPeers \cup {Unknown}]
    <3>1. DOMAIN runtime' = Peers /\ runtime' = [p \in Peers |-> runtime'[p]]
      BY <1>5 DEF PeerTimePasses
    <3> QED BY <2>3, <2>4, <3>1
  <2>6. ASSUME NEW p \in Peers \ dropped' PROVE Spared(p)'
    <3>1. Spared(p) /\ p \in Peers
      BY <2>1 DEF RuntimesInv
    <3>2. CASE runtime[p] = Unknown
      <4>1. overload'[p] = 0
        BY <2>2, <3>1, <3>2 DEF Spared, Less
      <4> QED BY <2>3, <3>1, <3>2, <4>1 DEF Spared
    <3>3. CASE runtime[p] # Unknown
      <4>1. runtime[p].cooldown \in 0..MaxCooldown /\ overload[p] <= runtime[p].cooldown
        BY <1>0, <3>1, <3>3 DEF Spared, KnownPeers
      <4>2. Less(overload[p]) <= Less(runtime[p].cooldown)
        BY <1>0, <3>1, <4>1 DEF Less
      <4>3. overload'[p] <= runtime'[p].cooldown /\ runtime'[p] # Unknown
        BY <1>0, <2>2, <2>4, <3>1, <3>3, <4>2
      <4> QED BY <4>3 DEF Spared
    <3> QED BY <3>2, <3>3
  <2> QED BY <2>2, <2>5, <2>6 DEF RuntimesInv
<1>6. ASSUME NEW p \in Peers, NEW s \in BOOLEAN, touch_peer_heartbeat(p, s) PROVE RuntimesInv'
  <2>1. 0 \in 0..(Liveness + 1) /\ RuntimeOf(p).cooldown \in 0..MaxCooldown
    BY <1>0, <1>00
  <2>2. update_peer_runtime_state(p, s, 0, RuntimeOf(p).cooldown)
    BY <1>6 DEF touch_peer_heartbeat
  <2> QED BY <1>2, <2>1, <2>2
<1>7. ASSUME UNCHANGED peerVars PROVE RuntimesInv'
  BY <1>7 DEF peerVars, RuntimesInv, Spared
<1> QED BY <1>1, <1>2, <1>3, <1>4, <1>5, <1>6, <1>7 DEF PeersNext

\* Who is healthy is listed in the order of the list, none twice, from lists whose lengths the
\* cursor's rounds are multiples of.
LEMMA HealthyAreListed ==
  ASSUME TurnsInv, NEW well \in SUBSET Peers, healthy_peers(well) # <<>>
  PROVE  /\ healthy_peers(well) \in Seq(Peers) /\ IsInjective(healthy_peers(well))
         /\ CursorRounds % Len(healthy_peers(well)) = 0
<1>1. PICK T : T = {p \in well : is_healthy(p)}
  OBVIOUS
<1>2. healthy_peers(well) = Among(peers, T)
  BY <1>1 DEF healthy_peers, Among
<1>3. PICK h : h = healthy_peers(well)
  OBVIOUS
<1>4. peers \in Seq(Peers) /\ (peers # <<>> => peers \in PeerLists)
  <2>1. CASE peers = <<>>
    BY <2>1
  <2>2. CASE peers # <<>>
    <3>1. peers \in PeerLists
      BY <2>2 DEF TurnsInv
    <3>2. peers \in Seq(ToSet(peers)) /\ ToSet(peers) \subseteq Peers
      BY <3>1, PeersAssumption DEF Peers
    <3> QED BY <3>1, <3>2
  <2> QED BY <2>1, <2>2
<1>5. h \in Seq(Peers) /\ KeptOf(peers, T, Len(peers), h)
  BY <1>2, <1>3, <1>4, AmongFacts
<1>6. Len(h) \in 1..Len(peers)
  BY <1>3, <1>4, <1>5 DEF KeptOf
<1>7. peers \in PeerLists
  BY <1>4, <1>6
<1>8. \A i, j \in 1..Len(peers) : peers[i] = peers[j] => i = j
  BY <1>4, <1>7, PeersAssumption DEF IsInjective
<1>9. \A i, j \in 1..Len(h) : h[i] = h[j] => i = j
  BY <1>5, <1>8 DEF KeptOf
<1>10. IsInjective(h)
  BY <1>5, <1>9 DEF IsInjective
<1>11. CursorRounds % Len(h) = 0
  BY <1>6, <1>7, PeersAssumption
<1> QED BY <1>3, <1>5, <1>10, <1>11

\* Each operation leaves the cursor where the last turns came to.
LEMMA TurnsStep == TurnsInv /\ [PeersNext]_peerVars => TurnsInv'
<1> SUFFICES ASSUME TurnsInv, [PeersNext]_peerVars PROVE TurnsInv'
  OBVIOUS
<1>1. ASSUME UNCHANGED <<cursor, turns>>, peers' \in PeerLists \cup {<<>>} PROVE TurnsInv'
  BY <1>1 DEF TurnsInv
<1>2. ASSUME NEW well \in SUBSET Peers, select_peer(well) PROVE TurnsInv'
  <2>1. PICK h : h = healthy_peers(well) /\ h # <<>>
    BY <1>2 DEF select_peer
  <2>2. h \in Seq(Peers) /\ IsInjective(h) /\ CursorRounds % Len(h) = 0
    BY <2>1, HealthyAreListed
  <2>3. PICK n \in Nat \ {0} : n = Len(h)
    BY <2>1, <2>2
  <2>4. PICK c \in 0..(CursorRounds - 1) : c = cursor
    BY DEF TurnsInv
  <2>5. /\ c % n \in 0..(n - 1) /\ NextCursor(c) \in 0..(CursorRounds - 1)
        /\ NextCursor(c) % n = IF (c % n) + 1 < n THEN (c % n) + 1 ELSE 0
    <3>1. CursorRounds \in Nat \ {0} /\ CursorRounds % n = 0
      BY <2>2, <2>3, PeersAssumption
    <3> QED BY <3>1, NextPlace DEF NextCursor
  <2>6. PICK before : before = IF turns.list = h THEN turns.chosen ELSE <<>>
    OBVIOUS
  <2>7. PICK last : last = IF Len(before) = Len(h) THEN Tail(before) ELSE before
    OBVIOUS
  <2>8. /\ cursor' = NextCursor(c) /\ peers' = peers
        /\ turns' = [list |-> h, chosen |-> Append(last, h[(c % n) + 1])]
    BY <1>2, <2>1, <2>3, <2>4, <2>6, <2>7 DEF select_peer
  <2>9. \E s \in 0..(n - 1) :
          /\ before \in Seq(Peers) /\ Len(before) <= n /\ InTurn(h, before, s)
          /\ c % n = Before(s + Len(before), n)
    <3>1. CASE turns.list = h
      <4>1. before = turns.chosen /\ before \in Seq(Peers)
        BY <2>6, <3>1 DEF TurnsInv
      <4>2. TurnsFit(h, before, c)
        BY <2>1, <2>4, <3>1, <4>1 DEF TurnsInv
      <4> QED BY <2>3, <4>1, <4>2 DEF TurnsFit
    <3>2. CASE turns.list # h
      <4>1. before = <<>> /\ before \in Seq(Peers)
        BY <2>6, <3>2
      <4>2. Len(before) = 0
        BY <4>1
      <4>3. InTurn(h, before, c % n)
        BY <4>2 DEF InTurn
      <4>4. c % n = Before((c % n) + Len(before), n)
        BY <2>5, <4>2 DEF Before
      <4> QED BY <2>3, <2>5, <4>1, <4>2, <4>3, <4>4
    <3> QED BY <3>1, <3>2
  <2>10. \E z \in 0..(n - 1) :
          /\ last \in Seq(Peers) /\ Len(last) < n /\ InTurn(h, last, z)
          /\ c % n = Before(z + Len(last), n)
    <3>1. PICK s \in 0..(n - 1) :
          /\ before \in Seq(Peers) /\ Len(before) <= n /\ InTurn(h, before, s)
          /\ c % n = Before(s + Len(before), n)
      BY <2>9
    <3>2. CASE Len(before) = n
      <4>1. last = Tail(before) /\ before # <<>>
        BY <2>3, <2>7, <3>1, <3>2
      <4>2. last \in Seq(Peers) /\ Len(last) < n
        BY <3>1, <3>2, <4>1, HeadTailProperties
      <4>3. \E z \in 0..(n - 1) : InTurn(h, last, z) /\ Before(s + Len(before), n) = Before(z + Len(last), n)
        <5>1. s \in 0..(Len(h) - 1) /\ Len(before) = Len(h)
          BY <2>3, <3>1, <3>2
        <5>2. \E z \in 0..(Len(h) - 1) :
                /\ InTurn(h, Tail(before), z)
                /\ Before(s + Len(before), Len(h)) = Before(z + Len(Tail(before)), Len(h))
          <6>1. h \in Seq(Peers) /\ h # <<>> /\ before \in Seq(Peers) /\ InTurn(h, before, s)
            BY <2>1, <2>2, <3>1
          <6> QED BY <5>1, <6>1, TurnsShift, Zenon
        <5> QED BY <2>3, <4>1, <5>2
      <4> QED BY <3>1, <4>2, <4>3
    <3>3. CASE Len(before) # n
      <4>1. last = before /\ Len(before) < n
        BY <2>3, <2>7, <3>1, <3>3
      <4> QED BY <3>1, <4>1
    <3> QED BY <3>2, <3>3
  <2>11. PICK z \in 0..(n - 1) :
          /\ last \in Seq(Peers) /\ Len(last) < n /\ InTurn(h, last, z)
          /\ c % n = Before(z + Len(last), n)
    BY <2>10
  <2>12. PICK k \in Nat : k = Len(last) /\ k < n
    BY <2>11
  <2>13. PICK r : r = Append(last, h[(c % n) + 1])
    OBVIOUS
  <2>14. InTurn(h, r, z)
    BY <2>1, <2>2, <2>3, <2>11, <2>13, OneTurn
  <2>15. r \in Seq(Peers) /\ Len(r) = k + 1
    <3>1. (c % n) + 1 \in 1..n
      BY <2>5
    <3>2. h[(c % n) + 1] \in Peers
      BY <2>2, <2>3, <3>1
    <3> QED BY <2>11, <2>12, <2>13, <3>2, AppendProperties
  <2>16. NextCursor(c) % n = Before(z + (k + 1), n)
    <3>1. PICK x \in 0..(n - 1) : x = c % n
      BY <2>5
    <3>2. x = Before(z + k, n)
      BY <2>11, <2>12, <3>1
    <3>3. PICK y : y = NextCursor(c) % n /\ y = IF x + 1 < n THEN x + 1 ELSE 0
      BY <2>5, <3>1
    <3> HIDE DEF NextCursor
    <3>4. y = Before(z + (k + 1), n)
      BY <2>12, <3>2, <3>3 DEF Before
    <3> QED BY <3>3, <3>4
  <2>17. TurnsFit(h, r, NextCursor(c))
    BY <2>1, <2>2, <2>3, <2>12, <2>14, <2>15, <2>16 DEF TurnsFit
  <2>18. PICK d \in 0..(CursorRounds - 1) : d = NextCursor(c)
    BY <2>5
  <2>19. turns'.list = h /\ turns'.chosen = r /\ cursor' = d /\ turns' \in [list : Seq(Peers), chosen : Seq(Peers)]
    BY <2>2, <2>8, <2>13, <2>15, <2>18
  <2>20. TurnsFit(h, r, d)
    BY <2>17, <2>18
  <2> QED BY <2>8, <2>19, <2>20 DEF TurnsInv
<1>3. ASSUME PeersNext
      PROVE  \/ UNCHANGED <<cursor, turns>> /\ peers' \in PeerLists \cup {<<>>}
             \/ \E well \in SUBSET Peers : select_peer(well)
  BY <1>3 DEF TurnsInv, PeersNext, set_peers, touch_peer_heartbeat, update_peer_runtime_state,
              record_peer_overloaded, PeerTimePasses
<1>4. ASSUME UNCHANGED peerVars PROVE TurnsInv'
  BY <1>4 DEF peerVars, TurnsInv
<1> QED BY <1>1, <1>2, <1>3, <1>4

\* Each step of a gateway's record of its peers.
LEMMA PeersStep == PeersInv /\ [PeersNext]_peerVars => PeersInv'
BY RuntimesStep, TurnsStep DEF PeersInv

\* Who is overloaded is spared, and the others take turns.
LEMMA PeersTakeTurns == PeersInv => PeersAreSpared
<1> SUFFICES ASSUME PeersInv PROVE PeersAreSpared
  OBVIOUS
<1>1. ASSUME NEW p \in Peers \ dropped, overload[p] > 0 PROVE ~is_healthy(p)
  <2>1. Spared(p) /\ overload[p] \in 0..MaxCooldown /\ runtime[p] \in KnownPeers \cup {Unknown}
    BY DEF PeersInv, RuntimesInv
  <2>2. MaxCooldown \in Nat
    BY PeersAssumption
  <2> QED BY <1>1, <2>1, <2>2 DEF Spared, is_healthy, KnownPeers
<1>2. IsInjective(turns.chosen)
  <2>1. CASE turns.list = <<>> /\ turns.chosen = <<>>
    BY <2>1 DEF IsInjective
  <2>2. CASE TurnsFit(turns.list, turns.chosen, cursor)
    <3>1. turns.list \in Seq(Peers) /\ turns.chosen \in Seq(Peers)
      BY DEF PeersInv, TurnsInv
    <3>2. PICK s \in 0..(Len(turns.list) - 1) : InTurn(turns.list, turns.chosen, s)
      BY <2>2 DEF TurnsFit
    <3>3. IsInjective(turns.list) /\ Len(turns.chosen) <= Len(turns.list)
      BY <2>2 DEF TurnsFit
    <3> QED BY <3>1, <3>2, <3>3, TurnsDiffer
  <2> QED BY <2>1, <2>2 DEF PeersInv, TurnsInv
<1> QED BY <1>1, <1>2 DEF PeersAreSpared

\* Every peer on the list is known.
PeersKnown == \A p \in ToSet(peers) : runtime[p] # Unknown

\* There is none.
LEMMA InitKnown == PeersInit => PeersKnown
<1>1. ToSet(<<>>) = {}
  BY DEF ToSet
<1> QED BY <1>1 DEF PeersInit, PeersKnown

\* Who comes on the list gets an entry, and only who leaves it loses one.
LEMMA KnownStep == PeersInv /\ PeersKnown /\ [PeersNext]_peerVars => PeersKnown'
<1> SUFFICES ASSUME PeersInv, PeersKnown, [PeersNext]_peerVars PROVE PeersKnown'
  OBVIOUS
<1>0. /\ \A p \in Peers : runtime[p] \in KnownPeers \cup {Unknown}
      /\ Fresh \in KnownPeers /\ Liveness \in Nat /\ MaxCooldown \in Nat /\ Unknown \notin KnownPeers
      /\ runtime \in [Peers -> KnownPeers \cup {Unknown}] /\ runtime' \in [Peers -> KnownPeers \cup {Unknown}]
  <2>1. RuntimesInv'
    BY RuntimesStep DEF PeersInv
  <2> QED BY <2>1, PeersAssumption DEF PeersInv, RuntimesInv, Fresh, KnownPeers
<1>1. ASSUME NEW l \in PeerLists, set_peers(l) PROVE PeersKnown'
  <2>1. \A p \in Peers : RuntimeOf(p) # Unknown
    BY <1>0 DEF RuntimeOf
  <2>2. ToSet(l) \subseteq Peers
    BY DEF Peers
  <2>3. peers' = l /\ \A p \in ToSet(l) : runtime'[p] = RuntimeOf(p)
    BY <1>1, <2>2 DEF set_peers
  <2> QED BY <2>1, <2>2, <2>3 DEF PeersKnown
<1>2. ASSUME peers' = peers, NEW p \in Peers, NEW e \in KnownPeers, runtime' = [runtime EXCEPT ![p] = e]
      PROVE  PeersKnown'
  <2>1. \A q \in ToSet(peers) : runtime'[q] = (IF q = p THEN e ELSE runtime[q])
    <3>1. ASSUME NEW q \in ToSet(peers) PROVE q \in Peers
      <4>1. ToSet(<<>>) = {}
        BY DEF ToSet
      <4> QED BY <4>1 DEF PeersInv, TurnsInv, Peers
    <3> QED BY <1>0, <1>2, <3>1
  <2> QED BY <1>0, <1>2, <2>1 DEF PeersKnown
<1>3. ASSUME NEW p \in Peers, NEW s \in BOOLEAN, NEW silent \in 0..(Liveness + 1), NEW c \in 0..MaxCooldown,
             update_peer_runtime_state(p, s, silent, c)
      PROVE  PeersKnown'
  <2>1. [serves |-> s, silent |-> silent, cooldown |-> c] \in KnownPeers
    BY DEF KnownPeers
  <2> QED BY <1>2, <1>3, <2>1 DEF update_peer_runtime_state
<1>4. ASSUME NEW p \in Peers, NEW s \in BOOLEAN, touch_peer_heartbeat(p, s) PROVE PeersKnown'
  <2>1. RuntimeOf(p) \in KnownPeers
    BY <1>0 DEF RuntimeOf
  <2>2. RuntimeOf(p).cooldown \in 0..MaxCooldown /\ 0 \in 0..(Liveness + 1)
    BY <1>0, <2>1 DEF KnownPeers
  <2> QED BY <1>3, <1>4, <2>2 DEF touch_peer_heartbeat
<1>5. ASSUME NEW p \in Peers, NEW c \in 0..MaxCooldown, record_peer_overloaded(p, c) PROVE PeersKnown'
  <2>1. RuntimeOf(p) \in KnownPeers
    BY <1>0 DEF RuntimeOf
  <2>2. LongestCooldown(p, c) \in 0..MaxCooldown
    BY <1>0, <2>1 DEF LongestCooldown, Longer, KnownPeers
  <2>3. [RuntimeOf(p) EXCEPT !.cooldown = LongestCooldown(p, c)] \in KnownPeers
    BY <2>1, <2>2 DEF KnownPeers
  <2> QED BY <1>2, <1>5, <2>3 DEF record_peer_overloaded
<1>6. ASSUME NEW well \in SUBSET Peers, select_peer(well) PROVE PeersKnown'
  BY <1>6 DEF select_peer, PeersKnown
<1>7. CASE PeerTimePasses
  <2>1. peers' = peers
    BY <1>7 DEF PeerTimePasses
  <2>2. ASSUME NEW q \in Peers, runtime[q] # Unknown PROVE runtime'[q] # Unknown
    <3>1. PICK k \in KnownPeers : k = runtime[q]
      BY <1>0, <2>2
    <3>2. runtime'[q] = [k EXCEPT !.silent = IF k.silent > Liveness THEN k.silent ELSE k.silent + 1,
                                  !.cooldown = Less(k.cooldown)]
      BY <1>7, <2>2, <3>1 DEF PeerTimePasses
    <3>3. (IF k.silent > Liveness THEN k.silent ELSE k.silent + 1) \in 0..(Liveness + 1)
      <4>1. k.silent \in 0..(Liveness + 1)
        BY <3>1 DEF KnownPeers
      <4> QED BY <1>0, <4>1
    <3>4. Less(k.cooldown) \in 0..MaxCooldown
      <4>1. k.cooldown \in 0..MaxCooldown
        BY <3>1 DEF KnownPeers
      <4> QED BY <1>0, <4>1 DEF Less
    <3>5. runtime'[q] \in KnownPeers
      BY <3>1, <3>2, <3>3, <3>4 DEF KnownPeers
    <3> QED BY <1>0, <3>5
  <2>3. ToSet(peers) \subseteq Peers
    <3>1. ToSet(<<>>) = {}
      BY DEF ToSet
    <3> QED BY <3>1 DEF PeersInv, TurnsInv, Peers
  <2> QED BY <2>1, <2>2, <2>3 DEF PeersKnown
<1>8. CASE UNCHANGED peerVars
  BY <1>8 DEF peerVars, PeersKnown
<1> QED BY <1>1, <1>3, <1>4, <1>5, <1>6, <1>7, <1>8 DEF PeersNext

\* The list, the cursor and what is known have their types.
LEMMA PeersTypes == PeersInv /\ PeersKnown => PeersTypeOK
BY DEF PeersInv, RuntimesInv, TurnsInv, KnownPeers, PeersKnown, PeersTypeOK
-------------------------------------------------------------------------------
(* Floats *)

\* The greatest of numbers that are none above a bound.
LEMMA GreatestNumber ==
  ASSUME NEW S, S \subseteq Nat, S # {}, NEW k \in Nat, \A x \in S : x <= k
  PROVE  \E x \in S : \A y \in S : y <= x
<1>1. PICK R : R = {k - x : x \in S}
  OBVIOUS
<1>2. \A x \in S : x \in Nat /\ x <= k /\ k - x \in Nat
  OBVIOUS
<1>3. R \subseteq Nat /\ R # {}
  BY <1>1, <1>2
<1>4. PICK r \in R : \A y \in R : r <= y
  BY <1>3, LeastNumber
<1>5. PICK x \in S : r = k - x
  BY <1>1, <1>4
<1>6. \A y \in S : y <= x
  <2> SUFFICES ASSUME NEW y \in S PROVE y <= x
    OBVIOUS
  <2>1. k - y \in R
    BY <1>1
  <2>2. k - x <= k - y
    BY <1>4, <1>5, <2>1
  <2> QED BY <1>2, <2>2
<1> QED BY <1>6

\* Products of larger numbers are larger.
LEMMA LargerProduct ==
  ASSUME NEW i \in Nat, NEW j \in Nat, i <= j, NEW d \in Nat
  PROVE  i * d \in Nat /\ j * d \in Nat /\ i * d <= j * d
<1>1. j - i \in Nat /\ (j - i) * d >= 0 /\ (j - i) * d = j * d - i * d
  OBVIOUS
<1> QED BY <1>1

\* The floats on either side of a cut: the last of those below it and, if there is one, the
\* first above.
LEMMA Neighbours ==
  ASSUME NEW A, NEW k \in Nat, A \subseteq Floats, A # {}, \A x \in A : x <= k
  PROVE  \E l \in A : /\ \A x \in A : x <= l
                      /\ \/ A = Floats
                         \/ \E g \in Floats \ A : \A x \in Floats \ A : g <= x
<1>1. Floats \subseteq Nat
  BY VotingAssumption
<1>2. PICK l \in A : \A x \in A : x <= l
  BY <1>1, GreatestNumber
<1>3. ASSUME A # Floats PROVE \E g \in Floats \ A : \A x \in Floats \ A : g <= x
  BY <1>1, <1>3, LeastNumber
<1> QED BY <1>2, <1>3

\* What is nearest to n/d.
NearestTo(x, n, d) ==
  /\ x \in Floats
  /\ \A y \in Floats : (y > x => (x + y) * d >= 2 * n) /\ (y < x => (x + y) * d <= 2 * n)
\* There is one.
LEMMA NearestIs ==
  ASSUME NEW n \in Nat, NEW d \in Nat \ {0}
  PROVE  NearestTo(Nearest(n, d), n, d)
<1>0. Floats \subseteq Nat /\ 0 \in Floats
  BY VotingAssumption
<1>1. PICK A : A = {x \in Floats : x * d <= n}
  OBVIOUS
<1>2. A \subseteq Floats /\ A # {} /\ \A x \in A : x <= n
  <2>1. 0 * d <= n
    OBVIOUS
  <2>2. ASSUME NEW x \in A PROVE x <= n
    <3>1. x \in Nat /\ x * d \in Nat /\ x * d <= n
      BY <1>0, <1>1
    <3>2. d * x >= 1 * x
      BY <3>1, LargerProduct
    <3>3. x <= d * x /\ d * x = x * d
      BY <3>1, <3>2
    <3> QED BY <3>1, <3>3
  <2> QED BY <1>0, <1>1, <2>1, <2>2
<1>3. PICK l \in A : /\ \A x \in A : x <= l
                     /\ \/ A = Floats
                        \/ \E g \in Floats \ A : \A x \in Floats \ A : g <= x
  BY <1>2, Neighbours
<1>4. l \in Floats /\ l \in Nat /\ l * d \in Nat /\ l * d <= n
  BY <1>0, <1>1, <1>2
<1>5. ASSUME NEW y \in Floats, y < l PROVE (l + y) * d <= 2 * n
  <2>1. y \in Nat /\ l + y \in Nat /\ l + l \in Nat /\ l + y <= l + l
    BY <1>0, <1>4, <1>5
  <2>2. (l + y) * d <= (l + l) * d /\ (l + y) * d \in Nat /\ (l + l) * d \in Nat
    BY <2>1, LargerProduct
  <2>3. (l + l) * d = l * d + l * d
    BY <1>4
  <2> QED BY <1>4, <2>2, <2>3
<1>6. CASE A = Floats
  <2>1. ASSUME NEW y \in Floats, y > l PROVE (l + y) * d >= 2 * n
    <3>1. y <= l /\ y \in Nat
      BY <1>0, <1>3, <1>6
    <3> QED BY <1>4, <2>1, <3>1
  <2>2. NearestTo(l, n, d)
    BY <1>4, <1>5, <2>1 DEF NearestTo
  <2> QED BY <2>2 DEF NearestTo, Nearest
<1>7. CASE A # Floats
  <2>1. PICK g \in Floats : g \notin A /\ \A x \in Floats \ A : g <= x
    BY <1>3, <1>7
  <2>2. g \in Nat /\ g * d \in Nat /\ g * d > n
    BY <1>0, <1>1, <2>1
  <2>3. ASSUME NEW y \in Floats, y > l PROVE y \in Nat /\ g <= y
    <3>1. y \in Nat /\ y \notin A
      BY <1>0, <1>3, <1>4, <2>3
    <3> QED BY <2>1, <3>1
  <2>4. ASSUME NEW y \in Floats, y < g PROVE y \in Nat /\ y <= l
    <3>1. y \in Nat /\ y \in A
      BY <1>0, <2>1, <2>2, <2>4
    <3> QED BY <1>3, <3>1
  <2>5. (l + g) * d \in Nat /\ (g + l) * d = (l + g) * d
    BY <1>4, <2>2
  <2>6. CASE (l + g) * d >= 2 * n
    <3>1. ASSUME NEW y \in Floats, y > l PROVE (l + y) * d >= 2 * n
      <4>1. y \in Nat /\ l + g \in Nat /\ l + y \in Nat /\ l + g <= l + y
        BY <1>4, <2>2, <2>3, <3>1
      <4>2. (l + g) * d <= (l + y) * d /\ (l + y) * d \in Nat
        BY <4>1, LargerProduct
      <4> QED BY <2>5, <2>6, <4>2
    <3>2. NearestTo(l, n, d)
      BY <1>4, <1>5, <3>1 DEF NearestTo
    <3> QED BY <3>2 DEF NearestTo, Nearest
  <2>7. CASE ~((l + g) * d >= 2 * n)
    <3>1. ASSUME NEW y \in Floats, y < g PROVE (g + y) * d <= 2 * n
      <4>1. y \in Nat /\ g + l \in Nat /\ g + y \in Nat /\ g + y <= g + l
        BY <1>4, <2>2, <2>4, <3>1
      <4>2. (g + y) * d <= (g + l) * d /\ (g + y) * d \in Nat
        BY <4>1, LargerProduct
      <4> QED BY <2>5, <2>7, <4>2
    <3>2. ASSUME NEW y \in Floats, y > g PROVE (g + y) * d >= 2 * n
      <4>1. y \in Nat /\ g + g \in Nat /\ g + y \in Nat /\ g + g <= g + y
        BY <1>0, <2>2, <3>2
      <4>2. (g + g) * d <= (g + y) * d /\ (g + y) * d \in Nat /\ (g + g) * d \in Nat
        BY <4>1, LargerProduct
      <4>3. (g + g) * d = g * d + g * d
        BY <2>2
      <4> QED BY <2>2, <4>2, <4>3
    <3>3. NearestTo(g, n, d)
      BY <3>1, <3>2 DEF NearestTo
    <3> QED BY <3>3 DEF NearestTo, Nearest
  <2> QED BY <2>6, <2>7
<1> QED BY <1>6, <1>7

\* It is a number; of 0 it is 0, and of a float the float itself.
LEMMA NearestType ==
  ASSUME NEW n \in Nat, NEW d \in Nat \ {0}
  PROVE  Nearest(n, d) \in Floats /\ Nearest(n, d) \in Nat
<1>1. Nearest(n, d) \in Floats
  BY NearestIs DEF NearestTo
<1> QED BY <1>1, VotingAssumption

LEMMA NearestToNothing ==
  ASSUME NEW d \in Nat \ {0}
  PROVE  Nearest(0, d) = 0
<1>1. PICK x : x = Nearest(0, d) /\ x \in Nat
  BY NearestType
<1>2. 0 \in Floats /\ 0 \in Nat
  BY VotingAssumption
<1>3. 0 < x => (x + 0) * d <= 2 * 0
  BY <1>1, <1>2, NearestIs DEF NearestTo
<1>4. ASSUME 0 < x PROVE FALSE
  <2>1. x * d <= 0
    BY <1>1, <1>3, <1>4
  <2>2. x * d >= x * 1
    <3>1. d * x >= 1 * x
      BY <1>1, LargerProduct
    <3> QED BY <1>1, <3>1
  <2>3. x * d \in Nat /\ x * 1 = x
    BY <1>1
  <2> QED BY <1>1, <1>4, <2>1, <2>2, <2>3
<1> QED BY <1>1, <1>4

LEMMA NearestToFloat ==
  ASSUME NEW n \in Floats
  PROVE  Nearest(n, 1) = n
<1>1. n \in Nat /\ Floats \subseteq Nat
  BY VotingAssumption
<1>2. PICK x : x = Nearest(n, 1) /\ x \in Nat
  BY <1>1, NearestType
<1>3. (n > x => (x + n) * 1 >= 2 * n) /\ (n < x => (x + n) * 1 <= 2 * n)
  BY <1>1, <1>2, NearestIs DEF NearestTo
<1>4. (x + n) * 1 = x + n
  BY <1>1, <1>2
<1> QED BY <1>1, <1>2, <1>3, <1>4

\* What is nearest to a larger number is no smaller.
LEMMA NearestMonotone ==
  ASSUME NEW m \in Nat, NEW n \in Nat, m <= n, NEW d \in Nat \ {0}
  PROVE  Nearest(m, d) <= Nearest(n, d)
<1>1. PICK x \in Floats : x = Nearest(m, d) /\ x \in Nat
  BY NearestType
<1>2. PICK y \in Floats : y = Nearest(n, d) /\ y \in Nat
  BY NearestType
<1>3. CASE m = n
  BY <1>1, <1>2, <1>3
<1>4. CASE m < n
  <2> SUFFICES ASSUME y < x PROVE FALSE
    BY <1>1, <1>2
  <2>1. (x + y) * d <= 2 * m
    BY <1>1, NearestIs DEF NearestTo
  <2>2. (y + x) * d >= 2 * n
    BY <1>2, NearestIs DEF NearestTo
  <2>3. (y + x) * d = (x + y) * d /\ (x + y) * d \in Nat
    BY <1>1, <1>2
  <2> QED BY <1>4, <2>1, <2>2, <2>3
<1> QED BY <1>3, <1>4

\* What is nearest to the root of v.
RootOf(x, v) ==
  /\ x \in Floats
  /\ \A y \in Floats : /\ y > x => (x + y) * (x + y) >= 4 * v * Unit
                       /\ y < x => (x + y) * (x + y) <= 4 * v * Unit
\* Squares of larger numbers are larger.
LEMMA LargerSquare ==
  ASSUME NEW i \in Nat, NEW j \in Nat, i <= j
  PROVE  i * i \in Nat /\ j * j \in Nat /\ i * i <= j * j
<1>1. i * i <= j * i /\ i * i \in Nat /\ j * i \in Nat
  BY LargerProduct
<1>2. i * j <= j * j /\ i * j \in Nat /\ j * j \in Nat
  BY LargerProduct
<1>3. i * j = j * i
  OBVIOUS
<1> QED BY <1>1, <1>2, <1>3

\* There is such a root.
LEMMA RootIs ==
  ASSUME NEW v \in Nat
  PROVE  RootOf(Root(v), v)
<1>0. Floats \subseteq Nat /\ 0 \in Floats /\ Unit \in Nat
  BY VotingAssumption
<1>1. PICK w \in Nat : w = v * Unit /\ 4 * v * Unit = 4 * w
  BY <1>0
<1>2. PICK A : A = {x \in Floats : x * x <= w}
  OBVIOUS
<1>3. A \subseteq Floats /\ A # {} /\ \A x \in A : x <= w
  <2>1. 0 * 0 <= w
    OBVIOUS
  <2>2. ASSUME NEW x \in A PROVE x <= w
    <3>1. x \in Nat /\ x * x \in Nat /\ x * x <= w
      BY <1>0, <1>2
    <3>2. CASE x = 0
      BY <3>2
    <3>3. CASE x # 0
      <4>1. 1 * x <= x * x
        BY <3>1, <3>3, LargerProduct
      <4> QED BY <3>1, <4>1
    <3> QED BY <3>2, <3>3
  <2> QED BY <1>0, <1>2, <2>1, <2>2
<1>4. PICK l \in A : /\ \A x \in A : x <= l
                     /\ \/ A = Floats
                        \/ \E g \in Floats \ A : \A x \in Floats \ A : g <= x
  BY <1>3, Neighbours
<1>5. l \in Floats /\ l \in Nat /\ l * l \in Nat /\ l * l <= w
  BY <1>0, <1>2, <1>3
<1>6. \A i \in Nat : (i + i) * (i + i) = 4 * (i * i)
  OBVIOUS
<1>7. ASSUME NEW y \in Floats, y < l PROVE (l + y) * (l + y) <= 4 * w
  <2>1. y \in Nat /\ l + y \in Nat /\ l + l \in Nat /\ l + y <= l + l
    BY <1>0, <1>5, <1>7
  <2>2. (l + y) * (l + y) <= (l + l) * (l + l) /\ (l + y) * (l + y) \in Nat
    BY <2>1, LargerSquare
  <2> QED BY <1>5, <1>6, <2>2
<1>8. CASE A = Floats
  <2>1. ASSUME NEW y \in Floats, y > l PROVE FALSE
    <3>1. y <= l /\ y \in Nat
      BY <1>0, <1>4, <1>8
    <3> QED BY <1>5, <2>1, <3>1
  <2>2. RootOf(l, v)
    BY <1>1, <1>5, <1>7, <2>1 DEF RootOf
  <2> QED BY <2>2 DEF RootOf, Root
<1>9. CASE A # Floats
  <2>1. PICK g \in Floats : g \notin A /\ \A x \in Floats \ A : g <= x
    BY <1>4, <1>9
  <2>2. g \in Nat /\ g * g \in Nat /\ g * g > w
    BY <1>0, <1>2, <2>1
  <2>3. ASSUME NEW y \in Floats, y > l PROVE y \in Nat /\ g <= y
    <3>1. y \in Nat /\ y \notin A
      BY <1>0, <1>4, <1>5, <2>3
    <3> QED BY <2>1, <3>1
  <2>4. ASSUME NEW y \in Floats, y < g PROVE y \in Nat /\ y <= l
    <3>1. y \in Nat /\ y \in A
      BY <1>0, <2>1, <2>2, <2>4
    <3> QED BY <1>4, <3>1
  <2>5. PICK b \in Nat : b = (l + g) * (l + g) /\ b = (g + l) * (g + l)
    BY <1>5, <2>2
  <2>6. CASE b >= 4 * w
    <3>1. ASSUME NEW y \in Floats, y > l PROVE (l + y) * (l + y) >= 4 * w
      <4>1. y \in Nat /\ l + g \in Nat /\ l + y \in Nat /\ l + g <= l + y
        BY <1>5, <2>2, <2>3, <3>1
      <4>2. (l + g) * (l + g) <= (l + y) * (l + y) /\ (l + y) * (l + y) \in Nat
        BY <4>1, LargerSquare
      <4> QED BY <2>5, <2>6, <4>2
    <3>2. RootOf(l, v)
      BY <1>1, <1>5, <1>7, <3>1 DEF RootOf
    <3> QED BY <3>2 DEF RootOf, Root
  <2>7. CASE b < 4 * w
    <3>1. ASSUME NEW y \in Floats, y < g PROVE (g + y) * (g + y) <= 4 * w
      <4>1. y \in Nat /\ g + l \in Nat /\ g + y \in Nat /\ g + y <= g + l
        BY <1>5, <2>2, <2>4, <3>1
      <4>2. (g + y) * (g + y) <= (g + l) * (g + l) /\ (g + y) * (g + y) \in Nat
        BY <4>1, LargerSquare
      <4> QED BY <2>5, <2>7, <4>2
    <3>2. ASSUME NEW y \in Floats, y > g PROVE (g + y) * (g + y) >= 4 * w
      <4>1. y \in Nat /\ g + g \in Nat /\ g + y \in Nat /\ g + g <= g + y
        BY <1>0, <2>2, <3>2
      <4>2. (g + g) * (g + g) <= (g + y) * (g + y) /\ (g + y) * (g + y) \in Nat
        BY <4>1, LargerSquare
      <4> QED BY <1>6, <2>2, <4>2
    <3>3. RootOf(g, v)
      BY <1>1, <3>1, <3>2 DEF RootOf
    <3> QED BY <3>3 DEF RootOf, Root
  <2> QED BY <2>6, <2>7
<1> QED BY <1>8, <1>9

\* The root is a number, and of 0 it is 0.
LEMMA RootType ==
  ASSUME NEW v \in Nat
  PROVE  Root(v) \in Nat
<1>1. Root(v) \in Floats
  BY RootIs DEF RootOf
<1> QED BY <1>1, VotingAssumption

LEMMA RootOfNothing == Root(0) = 0
<1>1. PICK x : x = Root(0) /\ x \in Nat
  BY RootType
<1>2. 0 \in Floats /\ Unit \in Nat
  BY VotingAssumption
<1>3. 0 < x => (x + 0) * (x + 0) <= 4 * 0 * Unit
  BY <1>1, <1>2, RootIs DEF RootOf
<1>4. 4 * 0 * Unit = 0 /\ x + 0 = x
  BY <1>1, <1>2
<1>5. ASSUME 0 < x PROVE FALSE
  <2>1. 1 * x <= x * x
    BY <1>1, <1>5, LargerProduct
  <2>2. x * x <= 0
    BY <1>3, <1>4, <1>5
  <2> QED BY <1>1, <1>5, <2>1, <2>2
<1> QED BY <1>1, <1>5

\* Sums and products of floats are floats, and no smaller of larger ones.
LEMMA FloatOps ==
  ASSUME NEW a \in Floats, NEW b \in Floats
  PROVE  /\ Plus[a][b] = Nearest(a + b, 1) /\ Plus[a][b] \in Floats
         /\ Times[a][b] = Nearest(a * b, Unit) /\ Times[a][b] \in Floats
         /\ Apart[a][b] = Nearest(IF a < b THEN b - a ELSE a - b, 1) /\ Apart[a][b] \in Floats
<1>1. a \in Nat /\ b \in Nat /\ Unit \in Nat \ {0}
  BY VotingAssumption
<1>2. Plus[a][b] = Nearest(a + b, 1)
  BY DEF Plus
<1>3. Times[a][b] = Nearest(a * b, Unit)
  BY DEF Times
<1>4. Apart[a][b] = Nearest(IF a < b THEN b - a ELSE a - b, 1)
  BY DEF Apart
<1>5. Nearest(a + b, 1) \in Floats
  <2>1. a + b \in Nat
    BY <1>1
  <2> QED BY <2>1, NearestType
<1>6. Nearest(a * b, Unit) \in Floats
  <2>1. a * b \in Nat
    BY <1>1
  <2> QED BY <1>1, <2>1, NearestType
<1>7. Nearest(IF a < b THEN b - a ELSE a - b, 1) \in Floats
  <2>1. (IF a < b THEN b - a ELSE a - b) \in Nat
    BY <1>1
  <2> QED BY <2>1, NearestType
<1> QED BY <1>2, <1>3, <1>4, <1>5, <1>6, <1>7

LEMMA FloatOpsMonotone ==
  ASSUME NEW a \in Floats, NEW b \in Floats, NEW e \in Floats, NEW f \in Floats, a <= e, b <= f
  PROVE  Plus[a][b] <= Plus[e][f] /\ Times[a][b] <= Times[e][f]
<1>1. a \in Nat /\ b \in Nat /\ e \in Nat /\ f \in Nat /\ Unit \in Nat \ {0}
  BY VotingAssumption
<1>2. Plus[a][b] <= Plus[e][f]
  <2>1. a + b \in Nat /\ e + f \in Nat /\ a + b <= e + f
    BY <1>1
  <2>2. Nearest(a + b, 1) <= Nearest(e + f, 1)
    BY <2>1, NearestMonotone
  <2> QED BY <2>2, FloatOps
<1>3. Times[a][b] <= Times[e][f]
  <2>1. a * b \in Nat /\ e * b \in Nat /\ a * b <= e * b
    BY <1>1, LargerProduct
  <2>2. b * e \in Nat /\ f * e \in Nat /\ b * e <= f * e
    BY <1>1, LargerProduct
  <2>3. b * e = e * b /\ f * e = e * f
    BY <1>1
  <2>4. a * b <= e * f /\ e * f \in Nat
    BY <2>1, <2>2, <2>3
  <2>5. Nearest(a * b, Unit) <= Nearest(e * f, Unit)
    BY <1>1, <2>1, <2>4, NearestMonotone
  <2> QED BY <2>5, FloatOps
<1> QED BY <1>2, <1>3

\* A sum as the loop of sum() makes it: what it has after each of the first k.
AddsUp(s, k, f) == \A i \in 0..k : f[i] = IF i = 0 THEN 0 ELSE Plus[f[i - 1]][s[i]]

\* Sums of floats have a loop.
LEMMA SumRuns ==
  ASSUME NEW s \in Seq(Floats)
  PROVE  \E f \in [0..Len(s) -> Floats] : AddsUp(s, Len(s), f)
<1> DEFINE Good(k) == \E f \in [0..k -> Floats] : AddsUp(s, k, f)
           Bad == {k \in 0..Len(s) : ~Good(k)}
<1>1. Good(0)
  <2>1. 0 \in Floats
    BY VotingAssumption
  <2>2. [i \in 0..0 |-> 0] \in [0..0 -> Floats]
    BY <2>1
  <2>3. AddsUp(s, 0, [i \in 0..0 |-> 0])
    BY DEF AddsUp
  <2> QED BY <2>2, <2>3
<1>2. ASSUME NEW k \in 0..Len(s), k + 1 \in 0..Len(s), Good(k) PROVE Good(k + 1)
  <2>1. PICK f \in [0..k -> Floats] : AddsUp(s, k, f)
    BY <1>2
  <2>2. PICK n \in Nat : n = k + 1 /\ n \in 1..Len(s)
    BY <1>2
  <2>3. PICK e : e = Plus[f[k]][s[n]]
    OBVIOUS
  <2>4. e \in Floats
    <3>1. f[k] \in Floats /\ s[n] \in Floats
      BY <1>2, <2>2
    <3> QED BY <2>3, <3>1, FloatOps
  <2>5. PICK g : g = [i \in 0..n |-> IF i = n THEN e ELSE f[i]]
    OBVIOUS
  <2>6. \A i \in 0..n : i # n => i \in 0..k
    BY <2>2
  <2>7. g \in [0..n -> Floats]
    BY <2>4, <2>5, <2>6
  <2>8. \A i \in 0..k : g[i] = f[i] /\ (i # 0 => i - 1 \in 0..k)
    BY <2>2, <2>5
  <2>9. g[n] = e /\ n # 0 /\ n - 1 = k /\ g[k] = f[k]
    BY <2>2, <2>5
  <2>10. AddsUp(s, n, g)
    <3> SUFFICES ASSUME NEW i \in 0..n
                 PROVE  g[i] = IF i = 0 THEN 0 ELSE Plus[g[i - 1]][s[i]]
      BY DEF AddsUp
    <3>1. CASE i = n
      BY <2>3, <2>9, <3>1
    <3>2. CASE i # n
      <4>1. i \in 0..k /\ g[i] = f[i] /\ (i # 0 => g[i - 1] = f[i - 1])
        BY <2>6, <2>8, <3>2
      <4> QED BY <2>1, <4>1 DEF AddsUp
    <3> QED BY <3>1, <3>2
  <2> QED BY <2>2, <2>7, <2>10
<1> HIDE DEF Good
<1>3. Bad = {}
  <2> SUFFICES ASSUME Bad # {} PROVE FALSE
    OBVIOUS
  <2>1. PICK k \in Bad : \A y \in Bad : k <= y
    <3>1. Bad \subseteq Nat
      OBVIOUS
    <3> HIDE DEF Bad
    <3> QED BY <3>1, LeastNumber
  <2>2. k \in 0..Len(s) /\ ~Good(k) /\ k # 0
    BY <1>1
  <2>3. k - 1 \in 0..Len(s) /\ (k - 1) + 1 = k
    BY <2>2
  <2>4. Good(k - 1)
    BY <2>1, <2>3
  <2> QED BY <1>2, <2>2, <2>3, <2>4
<1>4. Good(Len(s))
  <2>1. Len(s) \in 0..Len(s)
    OBVIOUS
  <2> QED BY <1>3, <2>1
<1> QED BY <1>4 DEF Good

\* The sum is what that loop ends with.
LEMMA SumSteps ==
  ASSUME NEW s \in Seq(Floats)
  PROVE  \E f : /\ Sum(s) = f[Len(s)] /\ f[0] = 0
                /\ \A i \in 1..Len(s) : f[i] = Plus[f[i - 1]][s[i]]
<1> DEFINE F == CHOOSE f : f = [i \in 0..Len(s) |-> IF i = 0 THEN 0 ELSE Plus[f[i - 1]][s[i]]]
<1>1. Sum(s) = F[Len(s)]
  BY DEF Sum
<1>2. \E f : f = [i \in 0..Len(s) |-> IF i = 0 THEN 0 ELSE Plus[f[i - 1]][s[i]]]
  <2>1. PICK f \in [0..Len(s) -> Floats] : AddsUp(s, Len(s), f)
    BY SumRuns
  <2>2. f = [i \in 0..Len(s) |-> f[i]]
    OBVIOUS
  <2>3. f = [i \in 0..Len(s) |-> IF i = 0 THEN 0 ELSE Plus[f[i - 1]][s[i]]]
    BY <2>1, <2>2 DEF AddsUp
  <2> QED BY <2>3
<1>3. F = [i \in 0..Len(s) |-> IF i = 0 THEN 0 ELSE Plus[F[i - 1]][s[i]]]
  BY <1>2
<1> HIDE DEF F
<1>4. 0 \in 0..Len(s) /\ \A i \in 1..Len(s) : i \in 0..Len(s) /\ i # 0
  OBVIOUS
<1>5. F[0] = 0 /\ \A i \in 1..Len(s) : F[i] = Plus[F[i - 1]][s[i]]
  BY <1>3, <1>4
<1> QED BY <1>1, <1>5

\* Sums of floats are floats, and no smaller of larger ones.
LEMMA SumsCompare ==
  ASSUME NEW s \in Seq(Floats), NEW t \in Seq(Floats), Len(s) = Len(t),
         \A i \in 1..Len(s) : s[i] <= t[i]
  PROVE  Sum(s) \in Floats /\ Sum(t) \in Floats /\ Sum(s) <= Sum(t)
<1>1. PICK f : Sum(s) = f[Len(s)] /\ f[0] = 0 /\ \A i \in 1..Len(s) : f[i] = Plus[f[i - 1]][s[i]]
  BY SumSteps
<1>2. PICK g : Sum(t) = g[Len(t)] /\ g[0] = 0 /\ \A i \in 1..Len(t) : g[i] = Plus[g[i - 1]][t[i]]
  BY SumSteps
<1> DEFINE Good(k) == f[k] \in Floats /\ g[k] \in Floats /\ f[k] <= g[k]
           Bad == {k \in 0..Len(s) : ~Good(k)}
<1>3. Good(0)
  BY <1>1, <1>2, VotingAssumption
<1>4. ASSUME NEW k \in 1..Len(s), Good(k - 1) PROVE Good(k)
  <2>1. f[k] = Plus[f[k - 1]][s[k]] /\ g[k] = Plus[g[k - 1]][t[k]]
    BY <1>1, <1>2
  <2>2. s[k] \in Floats /\ t[k] \in Floats /\ s[k] <= t[k]
    OBVIOUS
  <2>3. PICK a \in Floats, e \in Floats : a = f[k - 1] /\ e = g[k - 1] /\ a <= e
    BY <1>4
  <2>4. Plus[a][s[k]] \in Floats /\ Plus[e][t[k]] \in Floats
    BY <2>2, FloatOps
  <2>5. Plus[a][s[k]] <= Plus[e][t[k]]
    BY <2>2, <2>3, FloatOpsMonotone
  <2> QED BY <2>1, <2>3, <2>4, <2>5
<1> HIDE DEF Good
<1>5. Bad = {}
  <2> SUFFICES ASSUME Bad # {} PROVE FALSE
    OBVIOUS
  <2>1. PICK k \in Bad : \A y \in Bad : k <= y
    <3>1. Bad \subseteq Nat
      OBVIOUS
    <3> HIDE DEF Bad
    <3> QED BY <3>1, LeastNumber
  <2>2. k \in 1..Len(s) /\ ~Good(k)
    BY <1>3
  <2>3. k - 1 \in 0..Len(s) /\ k - 1 < k
    BY <2>2
  <2>4. Good(k - 1)
    BY <2>1, <2>3
  <2> QED BY <1>4, <2>2, <2>4
<1>6. Good(Len(s))
  <2>1. Len(s) \in 0..Len(s)
    OBVIOUS
  <2> QED BY <1>5, <2>1
<1> QED BY <1>1, <1>2, <1>6 DEF Good

\* The sum of one float is that one.
LEMMA SumOfOne ==
  ASSUME NEW s \in Seq(Floats), Len(s) = 1
  PROVE  Sum(s) = s[1]
<1>1. PICK f : Sum(s) = f[Len(s)] /\ f[0] = 0 /\ \A i \in 1..Len(s) : f[i] = Plus[f[i - 1]][s[i]]
  BY SumSteps
<1>2. PICK a \in Floats : a = s[1] /\ 0 \in Floats /\ a \in Nat
  <2>1. 1 \in 1..Len(s)
    OBVIOUS
  <2>2. s[1] \in Floats
    BY <2>1
  <2> QED BY <2>2, VotingAssumption
<1>3. Sum(s) = Plus[0][a]
  <2>1. PICK i \in 1..Len(s) : i = 1 /\ i = Len(s) /\ i - 1 = 0
    OBVIOUS
  <2>2. f[i] = Plus[f[i - 1]][s[i]]
    BY <1>1
  <2> QED BY <1>1, <1>2, <2>1, <2>2
<1>4. Plus[0][a] = Nearest(0 + a, 1)
  BY <1>2, FloatOps
<1>5. 0 + a = a
  BY <1>2
<1> QED BY <1>2, <1>3, <1>4, <1>5, NearestToFloat
-------------------------------------------------------------------------------
(* Votes *)

\* Votes of a panel, in the order in which they were cast.
Panels == Seq(Votes)

\* What a vote is.
LEMMA VoteFields ==
  ASSUME NEW v \in Votes
  PROVE  /\ v.score \in Floats /\ v.score \in 0..(10 * Unit) /\ v.score \in Nat
         /\ v.confidence \in Floats /\ v.confidence \in Nat /\ v.passed \in BOOLEAN
<1>1. v.score \in Scores /\ v.confidence \in Confidences /\ v.passed \in BOOLEAN
  BY DEF Votes
<1>2. v.score \in Floats /\ v.score \in 0..(10 * Unit) /\ v.confidence \in Floats
  BY <1>1, VotingAssumption
<1>3. v.score \in Nat /\ v.confidence \in Nat
  BY <1>2, VotingAssumption
<1> QED BY <1>1, <1>2, <1>3

\* A panel that has voted.
LEMMA PanelOf ==
  ASSUME NEW vs \in Panels
  PROVE  /\ Count(vs) \in Nat /\ DOMAIN vs = 1..Count(vs) /\ IsFiniteSet(DOMAIN vs)
         /\ (vs # <<>> => Count(vs) \in Nat \ {0}) /\ \A i \in DOMAIN vs : vs[i] \in Votes
<1>1. Count(vs) \in Nat /\ DOMAIN vs = 1..Count(vs) /\ \A i \in DOMAIN vs : vs[i] \in Votes
  BY DEF Panels, Count
<1>2. vs # <<>> => Count(vs) # 0
  BY DEF Panels, Count
<1>3. IsFiniteSet(DOMAIN vs)
  <2>1. PICK n \in Nat : n = Count(vs)
    BY <1>1
  <2>2. 1 \in Int /\ n \in Int
    OBVIOUS
  <2> QED BY <1>1, <2>1, <2>2, FS_Interval
<1> QED BY <1>1, <1>2, <1>3

\* Floats of each vote.
LEMMA ListOf ==
  ASSUME NEW vs \in Panels, NEW f, f = [i \in DOMAIN vs |-> f[i]], \A i \in DOMAIN vs : f[i] \in Floats
  PROVE  f \in Seq(Floats) /\ Len(f) = Count(vs)
<1>1. PICK n \in Nat : n = Count(vs) /\ DOMAIN vs = 1..n
  BY PanelOf
<1>2. f \in [1..n -> Floats]
  BY <1>1
<1>3. f \in Seq(Floats) /\ Len(f) = n
  BY <1>2
<1> QED BY <1>1, <1>3

\* What the aggregators sum up, and the sums they make of it.
LEMMA SumsOfPanel ==
  ASSUME NEW vs \in Panels, vs # <<>>
  PROVE  /\ scores(vs) \in Seq(Floats) /\ Len(scores(vs)) = Count(vs) /\ Sum(scores(vs)) \in Floats
         /\ confidences(vs) \in Seq(Floats) /\ total_confidence(vs) \in Floats
         /\ products(vs) \in Seq(Floats) /\ Len(products(vs)) = Count(vs) /\ Sum(products(vs)) \in Floats
         /\ mean(vs) \in Floats
         /\ squares(vs) \in Seq(Floats) /\ Len(squares(vs)) = Count(vs) /\ Sum(squares(vs)) \in Floats
         /\ variance(vs) \in Nat /\ std_dev(vs) \in Nat
<1>0. Count(vs) \in Nat \ {0} /\ Floats \subseteq Nat
  BY PanelOf, VotingAssumption
<1>1. ASSUME NEW s \in Seq(Floats) PROVE Sum(s) \in Floats
  <2>1. \A i \in 1..Len(s) : s[i] <= s[i]
    <3> SUFFICES ASSUME NEW i \in 1..Len(s) PROVE s[i] <= s[i]
      OBVIOUS
    <3>1. s[i] \in Floats
      OBVIOUS
    <3>2. s[i] \in Nat
      BY <1>0, <3>1
    <3> QED BY <3>2
  <2> QED BY <2>1, SumsCompare
<1>2. scores(vs) \in Seq(Floats) /\ Len(scores(vs)) = Count(vs)
  <2>1. \A i \in DOMAIN vs : scores(vs)[i] \in Floats
    BY PanelOf, VoteFields DEF scores
  <2>2. scores(vs) = [i \in DOMAIN vs |-> scores(vs)[i]]
    BY DEF scores
  <2> QED BY <2>1, <2>2, ListOf
<1>3. confidences(vs) \in Seq(Floats)
  <2>1. \A i \in DOMAIN vs : confidences(vs)[i] \in Floats
    BY PanelOf, VoteFields DEF confidences
  <2>2. confidences(vs) = [i \in DOMAIN vs |-> confidences(vs)[i]]
    BY DEF confidences
  <2> QED BY <2>1, <2>2, ListOf
<1>4. products(vs) \in Seq(Floats) /\ Len(products(vs)) = Count(vs)
  <2>1. \A i \in DOMAIN vs : products(vs)[i] \in Floats
    <3> SUFFICES ASSUME NEW i \in DOMAIN vs PROVE products(vs)[i] \in Floats
      OBVIOUS
    <3>1. products(vs)[i] = Times[vs[i].score][vs[i].confidence]
      BY DEF products
    <3>2. vs[i].score \in Floats /\ vs[i].confidence \in Floats
      BY PanelOf, VoteFields
    <3> QED BY <3>1, <3>2, FloatOps
  <2>2. products(vs) = [i \in DOMAIN vs |-> products(vs)[i]]
    BY DEF products
  <2> QED BY <2>1, <2>2, ListOf
<1>5. mean(vs) \in Floats
  <2>1. Sum(scores(vs)) \in Nat
    BY <1>0, <1>1, <1>2
  <2> QED BY <1>0, <2>1, NearestType DEF mean
<1>6. squares(vs) \in Seq(Floats) /\ Len(squares(vs)) = Count(vs)
  <2>1. \A i \in DOMAIN vs : squares(vs)[i] \in Floats
    <3> SUFFICES ASSUME NEW i \in DOMAIN vs PROVE squares(vs)[i] \in Floats
      OBVIOUS
    <3>1. squares(vs)[i] = Times[Apart[vs[i].score][mean(vs)]][Apart[vs[i].score][mean(vs)]]
      BY DEF squares
    <3>2. vs[i].score \in Floats
      BY PanelOf, VoteFields
    <3>3. Apart[vs[i].score][mean(vs)] \in Floats
      BY <1>5, <3>2, FloatOps
    <3> QED BY <3>1, <3>3, FloatOps
  <2>2. squares(vs) = [i \in DOMAIN vs |-> squares(vs)[i]]
    BY DEF squares
  <2> QED BY <2>1, <2>2, ListOf
<1>7. variance(vs) \in Nat
  <2>1. Sum(squares(vs)) \in Nat
    BY <1>0, <1>1, <1>6
  <2> QED BY <1>0, <2>1, NearestType DEF variance
<1>8. std_dev(vs) \in Nat
  BY <1>7, RootType DEF std_dev
<1>9. total_confidence(vs) \in Floats
  BY <1>1, <1>3 DEF total_confidence
<1> QED BY <1>1, <1>2, <1>3, <1>4, <1>5, <1>6, <1>7, <1>8, <1>9

\* One vote does not deviate.
LEMMA OneVote ==
  ASSUME NEW vs \in Panels, Count(vs) = 1
  PROVE  std_dev(vs) = 0
<1>1. DOMAIN vs = 1..1 /\ vs # <<>> /\ 1 \in DOMAIN vs
  <2>1. DOMAIN vs = 1..1
    BY PanelOf
  <2>2. vs # <<>>
    BY DEF Count
  <2> QED BY <2>1, <2>2
<1>2. PICK a \in Floats : a = vs[1].score
  BY <1>1, PanelOf, VoteFields
<1>3. a \in Nat /\ 0 \in Floats /\ Unit \in Nat \ {0}
  BY <1>2, VotingAssumption
<1>4. mean(vs) = a
  <2>1. scores(vs)[1] = a
    BY <1>1, <1>2 DEF scores
  <2>2. Sum(scores(vs)) = a
    BY <1>1, <2>1, SumsOfPanel, SumOfOne
  <2> QED BY <2>2, NearestToFloat DEF mean
<1>5. squares(vs)[1] = 0
  <2>1. squares(vs)[1] = Times[Apart[a][a]][Apart[a][a]]
    BY <1>1, <1>2, <1>4 DEF squares
  <2>2. Apart[a][a] = 0
    <3>1. Apart[a][a] = Nearest(IF a < a THEN a - a ELSE a - a, 1)
      BY FloatOps
    <3>2. (IF a < a THEN a - a ELSE a - a) = 0
      BY <1>3
    <3> QED BY <3>1, <3>2, NearestToNothing
  <2>3. Times[0][0] = Nearest(0 * 0, Unit)
    BY <1>3, FloatOps
  <2>4. 0 * 0 = 0
    OBVIOUS
  <2>5. Times[0][0] = 0
    BY <1>3, <2>3, <2>4, NearestToNothing
  <2> QED BY <2>1, <2>2, <2>5
<1>6. Sum(squares(vs)) = 0
  BY <1>1, <1>5, SumsOfPanel, SumOfOne
<1>7. variance(vs) = 0
  BY <1>6, NearestToNothing DEF variance
<1> QED BY <1>7, RootOfNothing DEF std_dev

\* Whatever the policy escalates, the coordinator's own test escalates too.
LEMMA PolicyEscalates ==
  ASSUME NEW vs \in Panels, vs # <<>>, NEW pol \in Policies, NEW how \in Strategies,
         apply_policy(aggregate(how, vs), pol) = "ESCALATED_TO_HITL"
  PROVE  should_escalate(vs, pol)
<1>1. aggregate(how, vs).std_dev = std_dev(vs)
  BY DEF aggregate
<1>2. std_dev(vs) > pol.tolerance
  BY <1>1 DEF apply_policy
<1>3. pol.tolerance \in Nat
  BY VotingAssumption
<1>4. Count(vs) # 1
  BY <1>2, <1>3, OneVote
<1>5. Count(vs) >= 2
  BY <1>4, PanelOf
<1> QED BY <1>2, <1>5 DEF should_escalate, SpreadTooWide

\* The bin of a score, one of five.
LEMMA BinOf ==
  ASSUME NEW k \in Nat
  PROVE  /\ Min({k \div (2 * Unit), 4}) \in 0..4
         /\ k <= 3 * Unit => Min({k \div (2 * Unit), 4}) <= 1
         /\ k >= 7 * Unit => Min({k \div (2 * Unit), 4}) >= 3
<1>1. PICK a \in Nat : a = k \div (2 * Unit) /\ (k <= 3 * Unit => a <= 1) /\ (k >= 7 * Unit => a >= 3)
  <2>1. PICK u \in Nat \ {0} : u = Unit
    BY VotingAssumption
  <2>2. PICK m \in Nat \ {0} : m = 2 * u
    BY <2>1
  <2>3. PICK a \in Nat : a = k \div m /\ m * a <= k /\ k < m * (a + 1)
    <3>1. k \div m \in Nat /\ k = m * (k \div m) + (k % m) /\ k % m \in 0..(m - 1)
      OBVIOUS
    <3>2. PICK a \in Nat, r \in 0..(m - 1) : a = k \div m /\ r = k % m
      BY <3>1
    <3>3. k = m * a + r /\ m * (a + 1) = m * a + m
      BY <3>1, <3>2
    <3>4. m * a \in Nat
      OBVIOUS
    <3> QED BY <3>2, <3>3, <3>4
  <2>4. ASSUME k <= 3 * u PROVE a <= 1
    <3> SUFFICES ASSUME 2 <= a PROVE FALSE
      OBVIOUS
    <3>1. 2 * m <= a * m /\ a * m \in Nat
      BY LargerProduct
    <3>2. a * m = m * a
      OBVIOUS
    <3> QED BY <2>2, <2>3, <2>4, <3>1, <3>2
  <2>5. ASSUME k >= 7 * u PROVE a >= 3
    <3> SUFFICES ASSUME a + 1 <= 3 PROVE FALSE
      OBVIOUS
    <3>1. (a + 1) * m <= 3 * m /\ (a + 1) * m \in Nat
      <4>1. a + 1 \in Nat
        OBVIOUS
      <4> QED BY <4>1, LargerProduct
    <3>2. (a + 1) * m = m * (a + 1)
      OBVIOUS
    <3> QED BY <2>2, <2>3, <2>5, <3>1, <3>2
  <2> QED BY <2>1, <2>2, <2>3, <2>4, <2>5
<1>2. Min({a, 4}) \in {a, 4} /\ \A y \in {a, 4} : Min({a, 4}) <= y
  <2>1. \E x \in {a, 4} : \A y \in {a, 4} : x <= y
    OBVIOUS
  <2> QED BY <2>1 DEF Min
<1>3. PICK b : b = Min({a, 4})
  OBVIOUS
<1>4. b \in {a, 4} /\ b <= a /\ b <= 4
  BY <1>2, <1>3
<1>5. b \in 0..4 /\ (a <= 1 => b <= 1) /\ (a >= 3 => b >= 3)
  BY <1>4
<1> QED BY <1>1, <1>3, <1>5

\* A polarized panel is no consensus and has entropy.
LEMMA PolarizedDiffer ==
  ASSUME NEW vs \in Panels, vs # <<>>, detect_polarization(vs)
  PROVE  ~detect_consensus(vs) /\ ~compute_entropy_is_0(vs)
<1>0. PICK u \in Nat \ {0} : u = Unit
  BY VotingAssumption
<1>1. PICK n \in Nat : n = Count(vs) /\ n >= 3
  BY PanelOf DEF detect_polarization
<1>2. ~detect_consensus(vs)
  <2>1. PICK s \in Nat : s = std_dev(vs)
    BY SumsOfPanel
  <2>2. s >= 3 * u
    BY <1>0, <2>1 DEF detect_polarization
  <2>3. s >= 2 * u
    BY <2>2
  <2> QED BY <1>0, <2>1, <2>3 DEF detect_consensus
<1>3. ASSUME NEW S, 10 * Scored(vs, S) >= 3 * n
      PROVE  \E i \in DOMAIN vs : vs[i].score \in S
  <2>1. PICK R : R = {i \in DOMAIN vs : vs[i].score \in S}
    OBVIOUS
  <2>2. R # {}
    <3> SUFFICES ASSUME R = {} PROVE FALSE
      OBVIOUS
    <3>1. Scored(vs, S) = 0
      BY <2>1, FS_EmptySet DEF Scored
    <3> QED BY <1>1, <1>3, <3>1
  <2> QED BY <2>1, <2>2
<1>4. PICK c \in DOMAIN vs : vs[c].score \in 0..(3 * Unit)
  <2>1. 10 * Scored(vs, 0..(3 * Unit)) >= 3 * n
    BY <1>1 DEF detect_polarization
  <2> QED BY <1>3, <2>1
<1>5. PICK e \in DOMAIN vs : vs[e].score \in (7 * Unit)..(10 * Unit)
  <2>1. 10 * Scored(vs, (7 * Unit)..(10 * Unit)) >= 3 * n
    BY <1>1 DEF detect_polarization
  <2> QED BY <1>3, <2>1
<1> DEFINE bin(i) == Min({vs[i].score \div (2 * Unit), 4})
<1>6. bin(c) \in 0..1 /\ bin(e) \in 3..4
  <2>1. PICK i \in Nat : i = vs[c].score /\ i <= 3 * Unit
    BY <1>0, <1>4
  <2>2. PICK j \in Nat : j = vs[e].score /\ j >= 7 * Unit
    BY <1>0, <1>5
  <2>3. Min({i \div (2 * Unit), 4}) \in 0..4 /\ Min({i \div (2 * Unit), 4}) <= 1
    BY <2>1, BinOf
  <2>4. Min({j \div (2 * Unit), 4}) \in 0..4 /\ Min({j \div (2 * Unit), 4}) >= 3
    BY <2>2, BinOf
  <2> QED BY <2>1, <2>2, <2>3, <2>4
<1>7. IsFiniteSet(Bins(vs))
  <2>1. \A i \in DOMAIN vs : bin(i) \in 0..4
    BY PanelOf, VoteFields, BinOf
  <2>2. Bins(vs) = {bin(i) : i \in DOMAIN vs}
    BY DEF Bins
  <2> HIDE DEF bin
  <2>3. Bins(vs) \in SUBSET (0..4)
    BY <2>1, <2>2
  <2>4. IsFiniteSet(0..4)
    <3>1. 0 \in Int /\ 4 \in Int
      OBVIOUS
    <3> QED BY <3>1, FS_Interval
  <2> QED BY <2>3, <2>4, FS_Subset
<1>8. ~compute_entropy_is_0(vs)
  <2> SUFFICES ASSUME Cardinality(Bins(vs)) = 1 PROVE FALSE
    BY DEF compute_entropy_is_0
  <2>1. PICK b : Bins(vs) = {b}
    BY <1>7, FS_Singleton
  <2>2. bin(c) \in Bins(vs) /\ bin(e) \in Bins(vs)
    BY DEF Bins
  <2> HIDE DEF bin
  <2>3. bin(c) = bin(e)
    BY <2>1, <2>2
  <2> QED BY <1>6, <2>3
<1> QED BY <1>2, <1>8

\* A panel one of whose voters thinks better of the paper.
LEMMA BetterPanel ==
  ASSUME NEW vs \in Panels, NEW c \in DOMAIN vs, NEW g \in Scores, g >= vs[c].score
  PROVE  /\ Better(vs, c, g) \in Panels /\ DOMAIN Better(vs, c, g) = DOMAIN vs
         /\ Better(vs, c, g) # <<>>
         /\ \A i \in DOMAIN vs : /\ vs[i].score <= Better(vs, c, g)[i].score
                                 /\ Better(vs, c, g)[i].confidence = vs[i].confidence
                                 /\ Better(vs, c, g)[i].passed = vs[i].passed
<1>1. PICK ws : ws = Better(vs, c, g)
  OBVIOUS
<1>2. PICK v \in Votes : v = vs[c]
  BY PanelOf
<1>3. PICK n \in Nat : n = Count(vs) /\ DOMAIN vs = 1..n
  BY PanelOf
<1>4. /\ DOMAIN ws = DOMAIN vs /\ \A i \in DOMAIN vs : i # c => ws[i] = vs[i]
      /\ ws[c] = [v EXCEPT !.score = g] /\ ws = [i \in DOMAIN vs |-> ws[i]]
  BY <1>1, <1>2 DEF Better
<1>5. /\ ws[c] \in Votes /\ ws[c].score = g /\ ws[c].confidence = v.confidence
      /\ ws[c].passed = v.passed
  BY <1>4 DEF Votes
<1>6. ws \in Panels
  <2>1. \A i \in DOMAIN vs : ws[i] \in Votes
    BY <1>4, <1>5, PanelOf
  <2>2. ws \in [1..n -> Votes]
    BY <1>3, <1>4, <2>1
  <2> QED BY <2>2 DEF Panels
<1>7. ASSUME NEW i \in DOMAIN vs
      PROVE  /\ vs[i].score <= ws[i].score /\ ws[i].confidence = vs[i].confidence
             /\ ws[i].passed = vs[i].passed
  <2>1. v.score \in Nat /\ g \in Nat
    BY VoteFields, VotingAssumption
  <2>2. vs[i].score \in Nat
    BY PanelOf, VoteFields
  <2>3. CASE i = c
    BY <1>2, <1>5, <2>1, <2>3
  <2>4. CASE i # c
    <3>1. ws[i] = vs[i]
      BY <1>4, <2>4
    <3>2. vs[i].score <= vs[i].score
      BY <2>2
    <3> QED BY <3>1, <3>2
  <2> QED BY <2>3, <2>4
<1>8. ws # <<>>
  BY <1>3, <1>4
<1> QED BY <1>1, <1>4, <1>6, <1>7, <1>8

\* What the aggregators make of it.
LEMMA BetterSums ==
  ASSUME NEW vs \in Panels, NEW ws \in Panels, vs # <<>>, ws # <<>>, DOMAIN ws = DOMAIN vs,
         \A i \in DOMAIN vs : /\ vs[i].score <= ws[i].score
                              /\ ws[i].confidence = vs[i].confidence
                              /\ ws[i].passed = vs[i].passed
  PROVE  /\ Count(ws) = Count(vs) /\ Passed(ws) = Passed(vs) /\ Failed(ws) = Failed(vs)
         /\ total_confidence(ws) = total_confidence(vs)
         /\ Sum(scores(vs)) <= Sum(scores(ws)) /\ Sum(products(vs)) <= Sum(products(ws))
<1>1. Count(ws) = Count(vs)
  BY DEF Panels, Count
<1>2. Passed(ws) = Passed(vs)
  <2>1. {i \in DOMAIN ws : ws[i].passed} = {i \in DOMAIN vs : vs[i].passed}
    OBVIOUS
  <2> QED BY <2>1 DEF Passed
<1>3. Failed(ws) = Failed(vs)
  BY <1>1, <1>2 DEF Failed
<1>4. total_confidence(ws) = total_confidence(vs)
  <2>1. confidences(ws) = confidences(vs)
    BY DEF confidences
  <2> QED BY <2>1 DEF total_confidence
<1>5. Sum(scores(vs)) <= Sum(scores(ws))
  <2>1. \A i \in DOMAIN vs : scores(vs)[i] <= scores(ws)[i]
    BY DEF scores
  <2>2. DOMAIN vs = 1..Len(scores(vs))
    BY PanelOf, SumsOfPanel
  <2> QED BY <1>1, <2>1, <2>2, SumsOfPanel, SumsCompare
<1>6. Sum(products(vs)) <= Sum(products(ws))
  <2>1. ASSUME NEW i \in DOMAIN vs PROVE products(vs)[i] <= products(ws)[i]
    <3>1. PICK a \in Floats, e \in Floats, b \in Floats :
            /\ a = vs[i].score /\ e = ws[i].score /\ a <= e
            /\ b = vs[i].confidence /\ b = ws[i].confidence
      BY PanelOf, VoteFields
    <3>2. b <= b
      BY VotingAssumption
    <3>3. Times[a][b] <= Times[e][b]
      BY <3>1, <3>2, FloatOpsMonotone
    <3>4. products(vs)[i] = Times[a][b] /\ products(ws)[i] = Times[e][b]
      BY <3>1 DEF products
    <3> QED BY <3>3, <3>4
  <2>2. DOMAIN vs = 1..Len(products(vs))
    BY PanelOf, SumsOfPanel
  <2> QED BY <1>1, <2>1, <2>2, SumsOfPanel, SumsCompare
<1> QED BY <1>1, <1>2, <1>3, <1>4, <1>5, <1>6

\* A policy's threshold that an aggregate reaches is reached as well when a voter thinks better
\* of the paper: the means do not fall, and the votes passed and the ranks are the same.
LEMMA BetterNotLess ==
  ASSUME NEW vs \in Panels, NEW c \in DOMAIN vs, NEW g \in Scores, g >= vs[c].score, NEW k \in Nat,
         NEW how \in Strategies, aggregate(how, vs).weighted_mean >= k
  PROVE  aggregate(how, Better(vs, c, g)).weighted_mean >= k
<1>1. vs # <<>>
  BY DEF Panels
<1>2. PICK ws \in Panels :
        /\ ws = Better(vs, c, g) /\ DOMAIN ws = DOMAIN vs /\ ws # <<>>
        /\ \A i \in DOMAIN vs : /\ vs[i].score <= ws[i].score
                                /\ ws[i].confidence = vs[i].confidence
                                /\ ws[i].passed = vs[i].passed
  BY BetterPanel
<1>3. /\ Count(ws) = Count(vs) /\ Passed(ws) = Passed(vs) /\ Failed(ws) = Failed(vs)
      /\ total_confidence(ws) = total_confidence(vs)
      /\ Sum(scores(vs)) <= Sum(scores(ws)) /\ Sum(products(vs)) <= Sum(products(ws))
  BY <1>1, <1>2, BetterSums
<1>4. PICK n \in Nat \ {0} : n = Count(vs) /\ n = Count(ws)
  BY <1>1, <1>3, PanelOf
<1>5. PICK t \in Nat : t = total_confidence(vs) /\ t = total_confidence(ws)
  BY <1>1, <1>3, SumsOfPanel, VotingAssumption
<1>6. /\ Sum(scores(vs)) \in Nat /\ Sum(scores(ws)) \in Nat /\ Sum(products(vs)) \in Nat
      /\ Sum(products(ws)) \in Nat /\ mean(vs) \in Nat /\ mean(ws) \in Nat /\ Unit \in Nat
  BY <1>1, <1>2, SumsOfPanel, VotingAssumption
<1>7. mean(vs) <= mean(ws)
  BY <1>3, <1>4, <1>6, NearestMonotone DEF mean
<1>8. ASSUME t > 0
      PROVE  /\ Ratio(Sum(products(vs)), t) \in Nat /\ Ratio(Sum(products(ws)), t) \in Nat
             /\ Ratio(Sum(products(vs)), t) <= Ratio(Sum(products(ws)), t)
  <2>1. PICK a \in Nat, b \in Nat :
          a = Sum(products(vs)) * Unit /\ b = Sum(products(ws)) * Unit /\ a <= b
    BY <1>3, <1>6, LargerProduct
  <2>2. t \in Nat \ {0}
    BY <1>8
  <2>3. Nearest(a, t) \in Nat /\ Nearest(b, t) \in Nat /\ Nearest(a, t) <= Nearest(b, t)
    BY <2>1, <2>2, NearestType, NearestMonotone
  <2> QED BY <2>1, <2>3 DEF Ratio
<1>9. CASE how = "average"
  <2>1. aggregate(how, vs).weighted_mean = mean(vs) /\ aggregate(how, ws).weighted_mean = mean(ws)
    BY <1>9 DEF aggregate
  <2> QED BY <1>2, <1>6, <1>7, <2>1
<1>10. CASE how = "confidence"
  <2>1. /\ aggregate(how, vs).weighted_mean = confidence_weighted(vs)
        /\ aggregate(how, ws).weighted_mean = confidence_weighted(ws)
    BY <1>10 DEF aggregate
  <2>2. CASE t > 0
    <3>1. /\ confidence_weighted(vs) = Ratio(Sum(products(vs)), t)
          /\ confidence_weighted(ws) = Ratio(Sum(products(ws)), t)
      BY <1>5, <2>2 DEF confidence_weighted
    <3> QED BY <1>2, <1>8, <2>1, <2>2, <3>1
  <2>3. CASE ~(t > 0)
    <3>1. confidence_weighted(vs) = mean(vs) /\ confidence_weighted(ws) = mean(ws)
      BY <1>5, <2>3 DEF confidence_weighted
    <3> QED BY <1>2, <1>6, <1>7, <2>1, <3>1
  <2> QED BY <2>2, <2>3
<1>11. CASE how = "majority"
  <2>1. majority(ws) = majority(vs)
    BY <1>3 DEF majority
  <2>2. aggregate(how, vs).weighted_mean = majority(vs) /\ aggregate(how, ws).weighted_mean = majority(ws)
    BY <1>11 DEF aggregate
  <2> QED BY <1>2, <2>1, <2>2
<1>12. CASE how = "borda"
  <2>1. borda(ws) = borda(vs)
    BY <1>3 DEF borda
  <2>2. aggregate(how, vs).weighted_mean = borda(vs) /\ aggregate(how, ws).weighted_mean = borda(ws)
    BY <1>12 DEF aggregate
  <2> QED BY <1>2, <2>1, <2>2
<1> QED BY <1>9, <1>10, <1>11, <1>12 DEF Strategies

\* What the debate's coordinator approves.
LEMMA DebateApproves ==
  ASSUME NEW vs \in Panels, vs # <<>>, aggregate_and_decide(vs) = "APPROVED",
         NEW same, same = [threshold |-> APPROVAL_THRESHOLD, tolerance |-> MAX_STD_DEV]
  PROVE  /\ apply_policy(aggregate("confidence", vs), same) = "APPROVED"
         /\ should_escalate(vs, same) => LowConfidence(vs)
<1>1. /\ ~(std_dev(vs) > MAX_STD_DEV) /\ Failed(vs) = 0
      /\ confidence_weighted(vs) >= APPROVAL_THRESHOLD
  BY DEF aggregate_and_decide, all_passed
<1>2. same.threshold = APPROVAL_THRESHOLD /\ same.tolerance = MAX_STD_DEV
  OBVIOUS
<1>3. /\ aggregate("confidence", vs).weighted_mean = confidence_weighted(vs)
      /\ aggregate("confidence", vs).std_dev = std_dev(vs)
  BY DEF aggregate
<1>4. apply_policy(aggregate("confidence", vs), same) = "APPROVED"
  BY <1>1, <1>2, <1>3 DEF apply_policy
<1>5. \A i \in DOMAIN vs : vs[i].passed
  <2>1. PICK P \in SUBSET DOMAIN vs : P = {i \in DOMAIN vs : vs[i].passed}
    OBVIOUS
  <2>2. PICK n \in Nat : n = Count(vs) /\ DOMAIN vs = 1..n
    BY PanelOf
  <2>3. PICK m \in Nat : m = Cardinality(P)
    BY <2>1, PanelOf, FS_Subset, FS_CardinalityType
  <2>4. m = n
    BY <1>1, <2>1, <2>2, <2>3 DEF Failed, Passed
  <2>5. Cardinality(DOMAIN vs) = n
    <3>1. 1 \in Int /\ n \in Int
      OBVIOUS
    <3>2. Cardinality(1..n) = IF 1 > n THEN 0 ELSE n - 1 + 1
      BY <3>1, FS_Interval
    <3> QED BY <2>2, <3>2
  <2>6. P = DOMAIN vs
    BY <2>1, <2>3, <2>4, <2>5, PanelOf, FS_Subset
  <2> QED BY <2>1, <2>6
<1> QED BY <1>1, <1>2, <1>4, <1>5 DEF should_escalate, SpreadTooWide

\* The parts agree on every panel of votes.
LEMMA PanelsAgree ==
  ASSUME polled \in Panels
  PROVE  DecisionsAgree
<1> SUFFICES ASSUME polled # <<>> PROVE DecisionsAgree
  BY DEF DecisionsAgree
<1>1. ASSUME NEW how \in Strategies, NEW pol \in Policies,
             apply_policy(aggregate(how, polled), pol) = "ESCALATED_TO_HITL"
      PROVE  should_escalate(polled, pol)
  BY <1>1, PolicyEscalates
<1>2. ASSUME NEW how \in Strategies, NEW c \in DOMAIN polled, NEW g \in Scores,
             g >= polled[c].score, NEW pol \in Policies,
             apply_policy(aggregate(how, polled), pol) = "APPROVED"
      PROVE  apply_policy(aggregate(how, Better(polled, c, g)), pol) # "REVISION_REQUESTED"
  <2>1. PICK k \in Nat : k = pol.threshold
    BY VotingAssumption
  <2>2. aggregate(how, polled).weighted_mean >= k
    BY <1>2, <2>1 DEF apply_policy
  <2>3. aggregate(how, Better(polled, c, g)).weighted_mean >= k
    BY <1>2, <2>2, BetterNotLess
  <2> QED BY <2>1, <2>3 DEF apply_policy
<1>3. PoliciesAgree(polled)
  BY <1>1, <1>2 DEF PoliciesAgree
<1>4. detect_polarization(polled) => ~detect_consensus(polled) /\ ~compute_entropy_is_0(polled)
  BY PolarizedDiffer
<1>5. ASSUME aggregate_and_decide(polled) = "APPROVED"
      PROVE  LET same == [threshold |-> APPROVAL_THRESHOLD, tolerance |-> MAX_STD_DEV]
             IN /\ apply_policy(aggregate("confidence", polled), same) = "APPROVED"
                /\ should_escalate(polled, same) => LowConfidence(polled)
  BY <1>5, DebateApproves
<1> QED BY <1>3, <1>4, <1>5 DEF DecisionsAgree

\* The votes of a negotiation are a panel, of as many critics as there are.
PanelInv == polled \in Panels /\ Len(polled) <= PanelSize
\* The critics begin without a vote.
LEMMA InitVotes == VotingInit => PanelInv
BY VotingAssumption DEF VotingInit, PanelInv, Panels

\* A vote is added to the panel.
LEMMA VotesStep == PanelInv /\ [VotingNext]_polled => PanelInv'
<1> SUFFICES ASSUME PanelInv, [VotingNext]_polled PROVE PanelInv'
  OBVIOUS
<1>1. CASE UNCHANGED polled
  BY <1>1 DEF PanelInv
<1>2. ASSUME NEW v \in Votes, CastsVote(v) PROVE PanelInv'
  <2>1. polled' = Append(polled, v) /\ polled \in Seq(Votes) /\ Len(polled) < PanelSize
    BY <1>2 DEF CastsVote, PanelInv, Panels
  <2>2. polled' \in Seq(Votes) /\ Len(polled') = Len(polled) + 1
    BY <2>1
  <2>3. Len(polled) \in Nat /\ PanelSize \in Nat
    BY <2>1, VotingAssumption
  <2> QED BY <2>1, <2>2, <2>3 DEF PanelInv, Panels
<1> QED BY <1>1, <1>2 DEF VotingNext

\* A panel is of votes.
LEMMA VotingTypes == PanelInv => VotingTypeOK
BY DEF PanelInv, Panels, VotingTypeOK
-------------------------------------------------------------------------------
(* The parts together, one of which a behaviour runs *)

\* Each part begins as it does alone.
LEMMA InitParts ==
  Init => /\ RuntimeInit /\ ContextInit /\ HandoffAgentsInit /\ RoomClientInit /\ A2AInit
          /\ ChainInit /\ FlagsInit /\ FilesInit /\ ToolInit /\ PeersInit /\ DepthInit
          /\ VotingInit /\ EngineInit /\ BufferInit
BY DEF Init

\* A step is one of a part's operations, and the others stay as they are: agents and rooms.
LEMMA AgentsMove ==
  [Next]_parts => /\ [RuntimeNext]_runtimeVars /\ [HandoffAgentsNext]_handoffAgentVars
                  /\ [ContextNext]_contextVars /\ [RoomClientNext]_roomClientVars
BY DEF Next, Only, parts

\* The same of tasks, calls and files.
LEMMA CallsMove ==
  [Next]_parts => /\ [A2ANext]_a2aVars /\ [ToolNext]_toolVars /\ [ChainNext]_chainVars
                  /\ [FilesNext]_fileVars
BY DEF Next, Only, parts

\* The same of gateways, flags, votes, the workflow engine and the activity buffer.
LEMMA GatewaysMove ==
  [Next]_parts => /\ [FlagsNext]_flagVars /\ [PeersNext]_peerVars /\ [DepthNext]_depthVars
                  /\ [VotingNext]_polled /\ [EngineNext]_engineVars /\ [BufferNext]_bufferVars
BY DEF Next, Only, parts

\* What agents, files and tools keep has its types: of an agent, its contexts and rooms, the
\* files it writes and the calls of its tools.
KeptTypes ==
  /\ RuntimeInv /\ ContextTypeOK /\ AgentsInv /\ RoomInv /\ TasksInv /\ FileTypes /\ ToolTypes
\* The same of calls, gateways, flags, votes, the engine and the buffer.
SharedTypes ==
  /\ ChainInv /\ ContextsTyped /\ FlagsInv /\ PeersInv /\ PeersKnown /\ DepthInv /\ PanelInv
  /\ EngineTypes /\ BufferInv

\* Whatever the application, its threads and its peers do, and however a process ends, every part
\* keeps what it may: buffers and files as they are written, requests, contexts, graphs,
\* handoffs, rooms, tasks, calls, flags, votes, frames, peers and depths.
THEOREM PartsTypes == Spec => []PartsTypeOK
<1>1. Init => KeptTypes /\ SharedTypes
  <2> SUFFICES ASSUME Init PROVE KeptTypes /\ SharedTypes
    OBVIOUS
  <2>1. RuntimeInv /\ AgentsInv /\ RoomInv /\ TasksInv /\ FileTypes /\ ToolTypes
    BY InitParts, InitRuntime, InitAgents, InitRoom, InitTasks, InitFileTypes, InitToolTypes
  <2>2. ContextTypeOK
    BY InitParts, InitContexts DEF ContextInv
  <2>3. ChainInv /\ ContextsTyped /\ FlagsInv /\ PeersInv /\ PeersKnown
    BY InitParts, InitChain, InitContextsTyped, InitFlags, InitPeers, InitKnown
  <2>4. DepthInv /\ PanelInv /\ EngineTypes /\ BufferInv
    BY InitParts, InitDepth, InitVotes, InitEngineTypes, InitBufferInv
  <2> QED BY <2>1, <2>2, <2>3, <2>4 DEF KeptTypes, SharedTypes
<1>2. KeptTypes /\ [Next]_parts => KeptTypes'
  <2> SUFFICES ASSUME KeptTypes, [Next]_parts PROVE KeptTypes'
    OBVIOUS
  <2>1. RuntimeInv' /\ ContextTypeOK' /\ AgentsInv' /\ RoomInv'
    BY AgentsMove, RuntimeStep, ContextTypes, AgentsStep, RoomStep DEF KeptTypes
  <2>2. TasksInv' /\ FileTypes' /\ ToolTypes'
    BY CallsMove, TasksStep, FileTypesStep, ToolTypesStep DEF KeptTypes
  <2> QED BY <2>1, <2>2 DEF KeptTypes
<1>3. SharedTypes /\ [Next]_parts => SharedTypes'
  <2> SUFFICES ASSUME SharedTypes, [Next]_parts PROVE SharedTypes'
    OBVIOUS
  <2>1. ChainInv' /\ ContextsTyped'
    BY CallsMove, ChainStep, ContextsTypedStep DEF SharedTypes
  <2>2. FlagsInv' /\ PeersInv' /\ PeersKnown'
    BY GatewaysMove, FlagsStep, PeersStep, KnownStep DEF SharedTypes
  <2>3. DepthInv' /\ PanelInv' /\ EngineTypes' /\ BufferInv'
    BY GatewaysMove, DepthStep, VotesStep, EngineTypesStep, BufferStep DEF SharedTypes
  <2> QED BY <2>1, <2>2, <2>3 DEF SharedTypes
<1>4. KeptTypes /\ SharedTypes => PartsTypeOK
  <2> SUFFICES ASSUME KeptTypes, SharedTypes PROVE PartsTypeOK
    OBVIOUS
  <2>1. RuntimeTypeOK /\ ContextTypeOK /\ HandoffAgentsTypeOK /\ RoomClientTypeOK /\ A2ATypeOK
    BY AgentsInvHolds, RoomAgrees, TasksAreKnown DEF KeptTypes, RuntimeInv
  <2>2. FilesTypeOK /\ ToolTypeOK
    BY FileTypesHold, ToolTypesHold DEF KeptTypes
  <2>3. ChainTypeOK /\ FlagsTypeOK /\ PeersTypeOK /\ DepthTypeOK
    BY ChainTypes, FlagsTypes, PeersTypes DEF SharedTypes, DepthInv
  <2>4. VotingTypeOK /\ EngineTypeOK /\ BufferTypeOK
    BY VotingTypes, EngineTypesHold DEF SharedTypes, BufferInv
  <2> QED BY <2>1, <2>2, <2>3, <2>4 DEF PartsTypeOK
<1> QED BY <1>1, <1>2, <1>3, <1>4, PTL DEF Spec

\* An agent's preemption request outlives the sections that may not be preempted, and the task
\* and the reason it keeps are of one request.
THEOREM AgentIsKept == Spec => []AgentKept
<1>1. Init => RuntimeInv
  BY InitParts, InitRuntime
<1>2. RuntimeInv /\ [Next]_parts => RuntimeInv'
  BY AgentsMove, RuntimeStep
<1>3. RuntimeInv => AgentKept
  BY DEF RuntimeInv, AgentKept
<1> QED BY <1>1, <1>2, <1>3, PTL DEF Spec

\* What agents share through a store is not lost, whoever reads the live contexts and whoever
\* writes files: no update of a context that only agents update which copied the version, one
\* verdict for all who wait in a room, and what was saved in a file that one process writes.
THEOREM SharedStoresAreKept == Spec => []SharedStoresAgree
<1> DEFINE StoresInv == ContextInv /\ RoomInv /\ FilesInv
<1>1. Init => StoresInv
  BY InitParts, InitContexts, InitRoom, InitFiles
<1>2. StoresInv /\ [Next]_parts => StoresInv'
  <2> SUFFICES ASSUME StoresInv, [Next]_parts PROVE StoresInv'
    OBVIOUS
  <2>1. [ContextNext]_contextVars /\ [RoomClientNext]_roomClientVars /\ [FilesNext]_fileVars
    BY AgentsMove, CallsMove
  <2>2. ContextInv'
    BY <2>1, ContextStep
  <2>3. RoomInv' /\ FilesInv'
    BY <2>1, RoomStep, FilesStep
  <2> QED BY <2>2, <2>3
<1>3. StoresInv => SharedStoresAgree
  BY RoomAgrees, FilesSurvive DEF ContextInv, SharedStoresAgree
<1> HIDE DEF StoresInv
<1> QED BY <1>1, <1>2, <1>3, PTL DEF Spec

\* A handoff an agent works on is accepted for it, a task that an A2A handler set in motion is
\* known, and one cancelled cancels its calls, when each call has an id of its own.
THEOREM WorkStaysKnown ==
  ASSUME OwnCallIds
  PROVE  Spec => []WorkIsKnown
<1> DEFINE WorkInv == AgentsInv /\ TasksInv /\ ToolsInv
<1>1. Init => WorkInv
  BY InitParts, InitAgents, InitTasks, InitTools
<1>2. WorkInv /\ [Next]_parts => WorkInv'
  <2> SUFFICES ASSUME WorkInv, [Next]_parts PROVE WorkInv'
    OBVIOUS
  <2>1. [HandoffAgentsNext]_handoffAgentVars /\ [A2ANext]_a2aVars /\ [ToolNext]_toolVars
    BY AgentsMove, CallsMove
  <2>2. AgentsInv' /\ TasksInv' /\ ToolsInv'
    BY <2>1, AgentsStep, TasksStep, ToolsStep
  <2> QED BY <2>2
<1>3. WorkInv => WorkIsKnown
  BY AgentsInvHolds, TasksAreKnown, CallsAreStopped DEF WorkIsKnown
<1> HIDE DEF WorkInv
<1> QED BY <1>1, <1>2, <1>3, PTL DEF Spec

\* A call leaves no context on the thread that served it and is admitted within its rate; a
\* gateway admits delegations only as deep as they are, and sends those it has no room for to
\* peers that have some, in turn.
THEOREM AdmissionStaysSound == Spec => []AdmissionIsSound
<1> DEFINE AdmissionInv == ChainInv /\ PeersInv /\ DepthInv
<1>1. Init => AdmissionInv
  BY InitParts, InitChain, InitPeers, InitDepth
<1>2. AdmissionInv /\ [Next]_parts => AdmissionInv'
  <2> SUFFICES ASSUME AdmissionInv, [Next]_parts PROVE AdmissionInv'
    OBVIOUS
  <2>1. [ChainNext]_chainVars /\ [PeersNext]_peerVars /\ [DepthNext]_depthVars
    BY CallsMove, GatewaysMove
  <2>2. ChainInv' /\ PeersInv' /\ DepthInv'
    BY <2>1, ChainStep, PeersStep, DepthStep
  <2> QED BY <2>2
<1>3. AdmissionInv => AdmissionIsSound
  BY CallsAreClean, RatesAreKept, PeersTakeTurns DEF DepthInv, AdmissionIsSound
<1> HIDE DEF AdmissionInv
<1> QED BY <1>1, <1>2, <1>3, PTL DEF Spec

\* The flags a thread was promised are the ones it is given, whoever reloads them meanwhile.
THEOREM FlagsStayHeld == Spec => []FlagsHold
<1>1. Init => FlagsInv
  BY InitParts, InitFlags
<1>2. FlagsInv /\ [Next]_parts => FlagsInv'
  BY GatewaysMove, FlagsStep
<1>3. FlagsInv => FlagsHold
  BY FlagsAreHeld
<1> QED BY <1>1, <1>2, <1>3, PTL DEF Spec

\* Averages, escalations, detectors and decisions agree on every panel of votes a negotiation can
\* come to, of any critics, scores and policies.
THEOREM DecisionsStayConsistent == Spec => []DecisionsAgree
<1>1. Init => PanelInv
  BY InitParts, InitVotes
<1>2. PanelInv /\ [Next]_parts => PanelInv'
  BY GatewaysMove, VotesStep
<1>3. PanelInv => DecisionsAgree
  BY PanelsAgree DEF PanelInv
<1> QED BY <1>1, <1>2, <1>3, PTL DEF Spec

\* A workflow's graph is validated, ordered and planned alike, whatever was drafted, and the
\* engine executes each of its nodes once, after those it depends on, also one it resumes.
THEOREM EngineKeepsOrder == Spec => []EngineRuns
<1>1. Init => EngineInv
  BY InitParts, InitEngine
<1>2. EngineInv /\ [Next]_parts => EngineInv'
  BY GatewaysMove, EngineStep
<1>3. EngineInv => EngineRuns
  BY EngineDoesRun DEF EngineRuns
<1> QED BY <1>1, <1>2, <1>3, PTL DEF Spec

\* The client's handoffs, as its agents use them, go through the stages of the protocol: each
\* step of theirs is one of the protocol's or none.
THEOREM HandoffsFollowProtocol == Spec => FollowsProtocol
<1>1. Init => AgentsInv /\ Protocol!Init
  <2>1. HandoffAgentsInit => OfferInit
    BY DEF HandoffAgentsInit
  <2> QED BY <2>1, InitParts, InitAgents, OfferInitFollows
<1>2. AgentsInv /\ [Next]_parts => AgentsInv'
  BY AgentsMove, AgentsStep
<1>3. AgentsInv /\ [Next]_parts => [Protocol!Next]_([h \in SharedIds |-> Stage(h)])
  <2> SUFFICES ASSUME AgentsInv, [Next]_parts
               PROVE  [Protocol!Next]_([h \in SharedIds |-> Stage(h)])
    OBVIOUS
  <2>1. OfferInv /\ [OfferNext]_offerVars
    BY AgentsMove, AgentsUseClient DEF AgentsInv
  <2> QED BY <2>1, OfferStepFollows
<1> QED BY <1>1, <1>2, <1>3, PTL DEF Spec, FollowsProtocol, Protocol!Spec
===============================================================================
