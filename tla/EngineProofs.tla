----------------------------- MODULE EngineProofs -----------------------------
(***************************************************************************)
(* The workflow engine, for any graph: the searches for cycles, the order  *)
(* and the plan are what their definitions say, and the engine keeps to    *)
(* the order. First the lemmas on recursion and on folds that this takes:  *)
(* the code's searches are recursive functions of what they have visited.  *)
(***************************************************************************)
EXTENDS WorkflowEngine, FiniteSetTheorems, WellFoundedInduction, SequenceTheorems, TLAPS

(* Recursion *)

\* A set of numbers has a least element.
LEMMA LeastNumber ==
  ASSUME NEW S, S \subseteq Nat, S # {}
  PROVE  \E x \in S : \A y \in S : x <= y
<1> DEFINE Below(x) == {y \in S : y < x}
<1>1. PICK F : F = {Below(x) : x \in S}
  OBVIOUS
<1>2. F \subseteq FiniteSubsetsOf(S) /\ F # {}
  <2>1. \A x \in S : IsFiniteSet(Below(x))
    <3> SUFFICES ASSUME NEW x \in S PROVE IsFiniteSet(Below(x))
      OBVIOUS
    <3>1. Below(x) \in SUBSET Nat /\ x \in Nat /\ \A y \in Below(x) : y <= x
      <4>1. x \in Nat /\ Below(x) \subseteq S
        OBVIOUS
      <4>2. \A y \in Below(x) : y \in Nat /\ y < x
        OBVIOUS
      <4> HIDE DEF Below
      <4>3. \A y \in Below(x) : y <= x
        BY <4>1, <4>2
      <4> QED BY <4>1, <4>2, <4>3
    <3> HIDE DEF Below
    <3> QED BY <3>1, FS_BoundedSetOfNaturals
  <2> QED BY <1>1, <2>1 DEF FiniteSubsetsOf
<1>3. PICK T \in F : \A U \in F : ~ (<<U, T>> \in StrictSubsetOrdering(S))
  BY <1>2, WFMin, FS_StrictSubsetOrderingWellFounded
<1>4. PICK x \in S : T = Below(x)
  BY <1>1
<1>5. ASSUME NEW y \in S, y < x PROVE FALSE
  <2>1. Below(y) \in F /\ Below(y) \subseteq Below(x) /\ Below(y) # Below(x)
    <3>1. Below(y) \in F
      BY <1>1
    <3>2. \A z \in S : z < y => z < x
      BY <1>5
    <3>3. y \in Below(x) /\ y \notin Below(y)
      BY <1>5
    <3> QED BY <3>1, <3>2, <3>3
  <2> QED BY <1>3, <1>4, <2>1 DEF StrictSubsetOrdering
<1> QED BY <1>5

\* What holds of an element if it holds of all of lower rank holds of every element.
LEMMA RankInduction ==
  ASSUME NEW X, NEW r, \A x \in X : r[x] \in Nat, NEW G,
         \A x \in X : (\A y \in X : r[y] < r[x] => y \in G) => x \in G
  PROVE  X \subseteq G
<1> SUFFICES ASSUME NEW x0 \in X, x0 \notin G PROVE FALSE
  OBVIOUS
<1>1. PICK Ranks : Ranks = {r[x] : x \in {x \in X : x \notin G}}
  OBVIOUS
<1>2. Ranks \subseteq Nat /\ Ranks # {}
  BY <1>1
<1>3. PICK k \in Ranks : \A j \in Ranks : k <= j
  BY <1>2, LeastNumber
<1>4. PICK x \in X : x \notin G /\ k = r[x]
  BY <1>1, <1>3
<1>5. ASSUME NEW y \in X, r[y] < r[x] PROVE y \in G
  <2> SUFFICES ASSUME y \notin G PROVE FALSE
    OBVIOUS
  <2>1. r[y] \in Ranks
    BY <1>1
  <2>2. PICK i \in Nat, j \in Nat : i = r[y] /\ j = r[x]
    OBVIOUS
  <2>3. j <= i /\ i < j
    BY <1>3, <1>4, <1>5, <2>1, <2>2
  <2> QED BY <2>3
<1> QED BY <1>4, <1>5

\* The functions that give each element one of its own values.
Candidates(X, T, P) == {t \in [X -> T] : \A x \in X : t[x] \in P[x]}

\* The function that B describes, by the function itself.
Solves(t, X, B) == \A x \in X : t[x] = B[<<x, t>>]
\* B gives each element one of its values, and the same for functions that agree at lower rank.
Describes(B, X, T, P, r, N) ==
  /\ \A x \in X : r[x] \in 0..N
  /\ \A x \in X : P[x] \subseteq T /\ P[x] # {}
  /\ \A x \in X, t \in Candidates(X, T, P) : B[<<x, t>>] \in P[x]
  /\ \A x \in X, t \in Candidates(X, T, P), u \in Candidates(X, T, P) :
       (\A y \in X : r[y] < r[x] => t[y] = u[y]) => B[<<x, t>>] = B[<<x, u>>]
\* A function is defined by what its value is from its values at lower rank.
LEMMA RecursionExists ==
  ASSUME NEW X, NEW T, NEW P, NEW r, NEW N \in Nat, NEW B, Describes(B, X, T, P, r, N)
  PROVE  \E t \in Candidates(X, T, P) : Solves(t, X, B)
<1>0. /\ \A x \in X : r[x] \in 0..N
      /\ \A x \in X : P[x] \subseteq T /\ P[x] # {}
      /\ \A x \in X, t \in Candidates(X, T, P) : B[<<x, t>>] \in P[x]
      /\ \A x \in X, t \in Candidates(X, T, P), u \in Candidates(X, T, P) :
           (\A y \in X : r[y] < r[x] => t[y] = u[y]) => B[<<x, t>>] = B[<<x, u>>]
  BY DEF Describes
<1> DEFINE C == Candidates(X, T, P)
           Upto(k) == \E t \in C : \A x \in X : r[x] < k => t[x] = B[<<x, t>>]
           Bad == {k \in Nat : ~Upto(k)}
<1>1. Upto(0)
  <2>1. PICK t : t = [x \in X |-> CHOOSE y \in P[x] : TRUE]
    OBVIOUS
  <2>2. t \in C
    BY <1>0, <2>1 DEF Candidates
  <2>3. \A x \in X : ~(r[x] < 0)
    BY <1>0
  <2> QED BY <2>2, <2>3
<1>2. ASSUME NEW k \in Nat, Upto(k) PROVE Upto(k + 1)
  <2>1. PICK t \in C : \A x \in X : r[x] < k => t[x] = B[<<x, t>>]
    BY <1>2
  <2>2. PICK u : u = [x \in X |-> IF r[x] < k THEN t[x] ELSE B[<<x, t>>]]
    OBVIOUS
  <2>3. u \in C
    <3>1. \A x \in X : u[x] \in P[x] /\ u[x] \in T
      BY <1>0, <2>2 DEF Candidates
    <3> QED BY <2>2, <3>1 DEF Candidates
  <2>4. ASSUME NEW x \in X, r[x] < k + 1 PROVE u[x] = B[<<x, u>>]
    <3>1. u[x] = B[<<x, t>>]
      BY <2>1, <2>2
    <3>2. ASSUME NEW y \in X, r[y] < r[x] PROVE t[y] = u[y]
      <4>1. PICK i \in Nat, j \in Nat : i = r[y] /\ j = r[x] /\ i < j /\ j < k + 1
        BY <1>0, <2>4, <3>2
      <4>2. i < k
        BY <4>1
      <4> QED BY <2>2, <4>1, <4>2
    <3>3. B[<<x, t>>] = B[<<x, u>>]
      BY <1>0, <2>1, <2>3, <3>2
    <3> QED BY <3>1, <3>3
  <2> QED BY <2>3, <2>4
<1> HIDE DEF Upto
<1>3. Bad = {}
  <2> SUFFICES ASSUME Bad # {} PROVE FALSE
    OBVIOUS
  <2>1. PICK k \in Bad : \A y \in Bad : k <= y
    <3>1. Bad \subseteq Nat
      OBVIOUS
    <3> HIDE DEF Bad
    <3> QED BY <3>1, LeastNumber
  <2>2. k \in Nat /\ ~Upto(k) /\ k # 0
    BY <1>1
  <2>3. k - 1 \in Nat /\ ~(k <= k - 1) /\ (k - 1) + 1 = k
    BY <2>2
  <2>4. Upto(k - 1)
    BY <2>1, <2>3
  <2> QED BY <1>2, <2>2, <2>3, <2>4
<1>4. PICK t \in C : \A x \in X : r[x] < N + 1 => t[x] = B[<<x, t>>]
  <2>1. N + 1 \in Nat
    OBVIOUS
  <2>2. Upto(N + 1)
    BY <1>3, <2>1
  <2> QED BY <2>2 DEF Upto
<1>5. \A x \in X : r[x] < N + 1
  BY <1>0
<1> QED BY <1>4, <1>5 DEF Solves
-------------------------------------------------------------------------------
(* Folds over a set *)

\* The element whose turn it is.
Chosen(s) == CHOOSE y \in s : TRUE

\* What is left without the chosen element.
LEMMA OneLessOf ==
  ASSUME NEW S, IsFiniteSet(S), NEW s \in SUBSET S, s # {}
  PROVE  /\ Chosen(s) \in s /\ Chosen(s) \in S /\ s \ {Chosen(s)} \in SUBSET S
         /\ Cardinality(s) \in Nat /\ Cardinality(s \ {Chosen(s)}) \in Nat
         /\ Cardinality(s) = Cardinality(s \ {Chosen(s)}) + 1
<1>1. PICK x : x = Chosen(s) /\ x \in s
  BY DEF Chosen
<1>2. IsFiniteSet(s)
  BY FS_Subset
<1>3. IsFiniteSet(s \ {x}) /\ Cardinality(s \ {x}) = Cardinality(s) - 1
  BY <1>1, <1>2, FS_RemoveElement
<1>4. Cardinality(s) \in Nat /\ Cardinality(s \ {x}) \in Nat
  BY <1>2, <1>3, FS_CardinalityType
<1>5. Cardinality(s) = Cardinality(s \ {x}) + 1
  BY <1>3, <1>4
<1> QED BY <1>1, <1>4, <1>5

\* What holds of no element, and of a set if of the set without its chosen element, holds of
\* all subsets.
LEMMA SubsetInduction ==
  ASSUME NEW S, IsFiniteSet(S), NEW G, {} \in G,
         \A s \in SUBSET S : s # {} /\ s \ {Chosen(s)} \in G => s \in G
  PROVE  SUBSET S \subseteq G
<1>0. PICK X : X = SUBSET S
  OBVIOUS
<1>1. PICK r : r = [s \in X |-> Cardinality(s)]
  OBVIOUS
<1>2. \A s \in X : r[s] \in Nat
  BY <1>0, <1>1, FS_Subset, FS_CardinalityType
<1>3. ASSUME NEW s \in X, \A y \in X : r[y] < r[s] => y \in G PROVE s \in G
  <2>1. CASE s # {}
    <3>1. PICK w : w = s \ {Chosen(s)}
      OBVIOUS
    <3>2. /\ w \in X /\ Cardinality(s) \in Nat /\ Cardinality(w) \in Nat
          /\ Cardinality(s) = Cardinality(w) + 1
      BY <1>0, <2>1, <3>1, OneLessOf
    <3>3. r[w] < r[s]
      BY <1>1, <3>2
    <3>4. w \in G
      BY <1>3, <3>2, <3>3
    <3> QED BY <1>0, <2>1, <3>1, <3>4
  <2> QED BY <2>1
<1>4. X \subseteq G
  BY <1>2, <1>3, RankInduction
<1> QED BY <1>0, <1>4

\* A fold: of one element after the other.
FoldsUp(g, v, b, S) ==
  g[{}] = b /\ \A s \in SUBSET S : s # {} => g[s] = v[<<Chosen(s), g[s \ {Chosen(s)}]>>]
FoldMade(g, v, b, S) ==
  g = [s \in SUBSET S |-> IF s = {} THEN b ELSE LET x == CHOOSE y \in s : TRUE IN v[<<x, g[s \ {x}]>>]]
\* There is one.
LEMMA FoldExists ==
  ASSUME NEW S, IsFiniteSet(S), NEW T, NEW b \in T, NEW v, \A x \in S, y \in T : v[<<x, y>>] \in T
  PROVE  \E g \in [SUBSET S -> T] : FoldMade(g, v, b, S)
<1>1. PICK X : X = SUBSET S
  OBVIOUS
<1>2. PICK r : r = [s \in X |-> Cardinality(s)]
  OBVIOUS
<1>3. PICK N \in Nat : N = Cardinality(S)
  BY FS_CardinalityType
<1>4. \A s \in X : r[s] \in 0..N
  BY <1>1, <1>2, <1>3, FS_Subset, FS_CardinalityType
<1>5. PICK P : P = [s \in X |-> T]
  OBVIOUS
<1>6. PICK C : C = Candidates(X, T, P) /\ \A t \in C : t \in [X -> T]
  BY DEF Candidates
<1>7. PICK B : B = [z \in X \X C |-> IF z[1] = {} THEN b ELSE v[<<Chosen(z[1]), z[2][z[1] \ {Chosen(z[1])}]>>]]
  OBVIOUS
<1>8. ASSUME NEW s \in X, NEW t \in C
      PROVE  B[<<s, t>>] = IF s = {} THEN b ELSE v[<<Chosen(s), t[s \ {Chosen(s)}]>>]
  BY <1>7
<1>9. ASSUME NEW s \in X, NEW t \in C PROVE B[<<s, t>>] \in P[s]
  <2>1. CASE s = {}
    BY <1>5, <1>8, <2>1
  <2>2. CASE s # {}
    <3>1. PICK x \in S, w \in X : x = Chosen(s) /\ w = s \ {Chosen(s)}
      BY <1>1, <2>2, OneLessOf
    <3>2. t[w] \in T
      BY <1>6
    <3> QED BY <1>5, <1>8, <2>2, <3>1, <3>2
  <2> QED BY <2>1, <2>2
<1>10. ASSUME NEW s \in X, NEW t \in C, NEW u \in C, \A y \in X : r[y] < r[s] => t[y] = u[y]
       PROVE  B[<<s, t>>] = B[<<s, u>>]
  <2>1. CASE s = {}
    BY <1>8, <2>1
  <2>2. CASE s # {}
    <3>1. PICK w \in X : w = s \ {Chosen(s)} /\ Cardinality(s) \in Nat /\ Cardinality(w) \in Nat
                          /\ Cardinality(s) = Cardinality(w) + 1
      BY <1>1, <2>2, OneLessOf
    <3>2. r[w] < r[s]
      BY <1>2, <3>1
    <3>3. t[w] = u[w]
      BY <1>10, <3>2
    <3>4. B[<<s, t>>] = v[<<Chosen(s), t[w]>>]
      BY <1>8, <2>2, <3>1
    <3>5. B[<<s, u>>] = v[<<Chosen(s), u[w]>>]
      BY <1>8, <2>2, <3>1
    <3> QED BY <3>3, <3>4, <3>5
  <2> QED BY <2>1, <2>2
<1>11. \A s \in X : P[s] \subseteq T /\ P[s] # {}
  BY <1>5
<1>12. PICK g \in C : \A s \in X : g[s] = B[<<s, g>>]
  <2>1. /\ \A s \in X, t \in Candidates(X, T, P) : B[<<s, t>>] \in P[s]
        /\ \A s \in X, t \in Candidates(X, T, P), u \in Candidates(X, T, P) :
             (\A y \in X : r[y] < r[s] => t[y] = u[y]) => B[<<s, t>>] = B[<<s, u>>]
    BY <1>6, <1>9, <1>10
  <2>2. Describes(B, X, T, P, r, N)
    BY <1>4, <1>11, <2>1 DEF Describes
  <2>3. \E g \in Candidates(X, T, P) : Solves(g, X, B)
    BY <2>2, RecursionExists
  <2> QED BY <1>6, <2>3 DEF Solves
<1>13. \A s \in X : g[s] = IF s = {} THEN b ELSE LET x == CHOOSE y \in s : TRUE IN v[<<x, g[s \ {x}]>>]
  BY <1>8, <1>12 DEF Chosen
<1>14. g \in [SUBSET S -> T]
  BY <1>1, <1>6
<1> QED BY <1>1, <1>13, <1>14 DEF FoldMade

\* What the fold of ForEach is.
LEMMA ForEachFolds ==
  ASSUME NEW S, IsFiniteSet(S), NEW T, NEW b \in T, NEW v, \A x \in S, y \in T : v[<<x, y>>] \in T
  PROVE  \E g : FoldsUp(g, v, b, S) /\ ForEach(v, b, S) = g[S]
<1> DEFINE Made(g) == FoldMade(g, v, b, S)
<1>1. \E g : Made(g)
  BY FoldExists
<1>2. Made(CHOOSE g : Made(g))
  BY <1>1
<1>3. ForEach(v, b, S) = (CHOOSE g : Made(g))[S]
  BY DEF ForEach, FoldSet, MapThenFoldSet, FoldMade
<1> HIDE DEF Made
<1>4. PICK g : Made(g) /\ ForEach(v, b, S) = g[S]
  BY <1>2, <1>3
<1>5. \A s \in SUBSET S :
        g[s] = IF s = {} THEN b ELSE LET x == CHOOSE y \in s : TRUE IN v[<<x, g[s \ {x}]>>]
  BY <1>4 DEF Made, FoldMade
<1>6. g[{}] = b
  <2>1. {} \in SUBSET S
    OBVIOUS
  <2> QED BY <1>5, <2>1
<1>7. \A s \in SUBSET S : s # {} => g[s] = v[<<Chosen(s), g[s \ {Chosen(s)}]>>]
  BY <1>5 DEF Chosen
<1> QED BY <1>4, <1>6, <1>7 DEF FoldsUp

\* What every call keeps, of the nodes it has been through and of what the search has seen, it
\* keeps for all of them.
LEMMA ForEachKeeps ==
  ASSUME NEW S, IsFiniteSet(S), NEW T, NEW b \in T, NEW v, \A x \in S, y \in T : v[<<x, y>>] \in T,
         NEW I, <<{}, b>> \in I,
         \A W \in SUBSET S, x \in S, y \in T :
           x \notin W /\ <<W, y>> \in I => <<W \cup {x}, v[<<x, y>>]>> \in I
  PROVE  ForEach(v, b, S) \in T /\ <<S, ForEach(v, b, S)>> \in I
<1>1. PICK g : FoldsUp(g, v, b, S) /\ ForEach(v, b, S) = g[S]
  BY ForEachFolds
<1>2. PICK G : G = {s \in SUBSET S : g[s] \in T /\ <<s, g[s]>> \in I}
  OBVIOUS
<1>3. {} \in G
  BY <1>1, <1>2 DEF FoldsUp
<1>4. ASSUME NEW s \in SUBSET S, s # {}, s \ {Chosen(s)} \in G PROVE s \in G
  <2>1. PICK x \in S, W \in SUBSET S : x = Chosen(s) /\ x \in s /\ W = s \ {x}
    BY <1>4, OneLessOf
  <2>2. g[W] \in T /\ <<W, g[W]>> \in I
    BY <1>2, <1>4, <2>1
  <2>3. g[s] = v[<<x, g[W]>>] /\ s = W \cup {x} /\ x \notin W
    BY <1>1, <1>4, <2>1 DEF FoldsUp
  <2>4. g[s] \in T /\ <<s, g[s]>> \in I
    BY <2>2, <2>3
  <2> QED BY <1>2, <2>4
<1>5. S \in G
  BY <1>3, <1>4, SubsetInduction
<1> QED BY <1>1, <1>2, <1>5

\* Calls that are the same on what they keep do the same.
LEMMA ForEachSame ==
  ASSUME NEW S, IsFiniteSet(S), NEW T, NEW b \in T, NEW v, \A x \in S, y \in T : v[<<x, y>>] \in T,
         NEW w, \A x \in S, y \in T : w[<<x, y>>] \in T,
         NEW I, b \in I,
         \A x \in S, y \in T : y \in I => v[<<x, y>>] \in I /\ v[<<x, y>>] = w[<<x, y>>]
  PROVE  ForEach(v, b, S) = ForEach(w, b, S)
<1>1. PICK g : FoldsUp(g, v, b, S) /\ ForEach(v, b, S) = g[S]
  BY ForEachFolds
<1>2. PICK h : FoldsUp(h, w, b, S) /\ ForEach(w, b, S) = h[S]
  BY ForEachFolds
<1>3. PICK G : G = {s \in SUBSET S : g[s] \in T /\ g[s] \in I /\ g[s] = h[s]}
  OBVIOUS
<1>4. {} \in G
  BY <1>1, <1>2, <1>3 DEF FoldsUp
<1>5. ASSUME NEW s \in SUBSET S, s # {}, s \ {Chosen(s)} \in G PROVE s \in G
  <2>1. PICK x \in S, W \in SUBSET S : x = Chosen(s) /\ x \in s /\ W = s \ {x}
    BY <1>5, OneLessOf
  <2>2. PICK y \in T : y = g[W] /\ y = h[W] /\ y \in I
    BY <1>3, <1>5, <2>1
  <2>3. g[s] = v[<<x, y>>]
    BY <1>1, <1>5, <2>1, <2>2 DEF FoldsUp
  <2>4. h[s] = w[<<x, y>>]
    BY <1>2, <1>5, <2>1, <2>2 DEF FoldsUp
  <2>5. g[s] \in T /\ g[s] \in I /\ g[s] = h[s]
    BY <2>2, <2>3, <2>4
  <2> QED BY <1>3, <2>5
<1>6. S \in G
  BY <1>4, <1>5, SubsetInduction
<1> QED BY <1>1, <1>2, <1>3, <1>6
-------------------------------------------------------------------------------
(* The search for a cycle *)

\* Nodes, finitely many, each with nodes it depends on.
IsGraph(deps) == IsFiniteSet(DOMAIN deps) /\ deps \in [DOMAIN deps -> SUBSET DOMAIN deps]
SearchCalls(deps) == (DOMAIN deps) \X Searches(deps)
\* What a search can come to that has seen as much.
More(deps, s) == {u \in Searches(deps) : s.visited \subseteq u.visited}
\* How many nodes a search has not seen.
Unseen(deps, s) == Cardinality((DOMAIN deps) \ s.visited)

\* A set that grows leaves fewer.
LEMMA FewerLeft ==
  ASSUME NEW D, IsFiniteSet(D), NEW V, NEW W, V \subseteq W
  PROVE  /\ Cardinality(D \ V) \in 0..Cardinality(D) /\ Cardinality(D) \in Nat
         /\ Cardinality(D \ W) \in Nat /\ Cardinality(D \ W) <= Cardinality(D \ V)
         /\ \A n \in D : n \in W /\ n \notin V => Cardinality(D \ W) < Cardinality(D \ V)
<1>1. /\ IsFiniteSet(D \ V) /\ D \ V \in SUBSET D /\ D \ W \in SUBSET (D \ V) /\ D \ W \in SUBSET D
      /\ IsFiniteSet(D \ W)
  BY FS_Subset
<1>2. PICK i \in Nat : i = Cardinality(D \ V)
  BY <1>1, FS_CardinalityType
<1>3. PICK j \in Nat : j = Cardinality(D \ W)
  BY <1>1, FS_CardinalityType
<1>4. PICK k \in Nat : k = Cardinality(D)
  BY FS_CardinalityType
<1>5. i <= k
  BY <1>1, <1>2, <1>4, FS_Subset
<1>6. j <= i
  BY <1>1, <1>2, <1>3, FS_Subset
<1>7. ASSUME NEW n \in D, n \in W, n \notin V PROVE j < i
  <2>1. D \ W # D \ V
    BY <1>7
  <2>2. i # j
    BY <1>1, <1>2, <1>3, <2>1, FS_Subset
  <2> QED BY <1>6, <2>2
<1> QED BY <1>2, <1>3, <1>4, <1>5, <1>6, <1>7

\* The parts of a search and its updates.
OnPath(n, s) == \E i \in DOMAIN s.path : s.path[i] = n
CycleOf(n, s) == {s.path[j] : j \in {j \in DOMAIN s.path : \A i \in DOMAIN s.path : s.path[i] = n => i <= j}}
EntersNode(n, s) == [s EXCEPT !.visited = @ \cup {n}, !.path = Append(@, n)]
ClosesCycle(n, s) == [s EXCEPT !.cycle = CycleOf(n, s)]
LeavesNode(t, s) == [t EXCEPT !.path = s.path]
SearchOf(deps, s, V, p, C) == s \in Searches(deps) /\ s.visited = V /\ s.path = p /\ s.cycle = C

\* A search has its parts.
LEMMA SearchParts ==
  ASSUME NEW deps, NEW s \in Searches(deps)
  PROVE  /\ s.visited \subseteq DOMAIN deps /\ s.path \in Seq(DOMAIN deps) /\ s.cycle \subseteq DOMAIN deps
         /\ \A i \in DOMAIN s.path : s.path[i] \in DOMAIN deps
<1>1. s.visited \subseteq DOMAIN deps /\ s.path \in Seq(DOMAIN deps) /\ s.cycle \subseteq DOMAIN deps
  BY DEF Searches
<1>2. \A i \in DOMAIN s.path : s.path[i] \in DOMAIN deps
  BY <1>1, ElementOfSeq
<1> QED BY <1>1, <1>2

\* Each update changes what it says.
LEMMA SearchUpdates ==
  ASSUME NEW deps, NEW n \in DOMAIN deps, NEW s \in Searches(deps)
  PROVE  /\ SearchOf(deps, EntersNode(n, s), s.visited \cup {n}, Append(s.path, n), s.cycle)
         /\ SearchOf(deps, ClosesCycle(n, s), s.visited, s.path, CycleOf(n, s))
         /\ \A t \in Searches(deps) : SearchOf(deps, LeavesNode(t, s), t.visited, s.path, t.cycle)
<1>1. s.visited \subseteq DOMAIN deps /\ s.path \in Seq(DOMAIN deps) /\ s.cycle \subseteq DOMAIN deps
  BY SearchParts
<1>2. SearchOf(deps, EntersNode(n, s), s.visited \cup {n}, Append(s.path, n), s.cycle)
  <2>1. PICK p \in Seq(DOMAIN deps) : p = Append(s.path, n)
    BY <1>1, AppendProperties
  <2>2. PICK V \in SUBSET DOMAIN deps : V = s.visited \cup {n}
    BY <1>1
  <2>3. EntersNode(n, s) = [s EXCEPT !.visited = V, !.path = p]
    BY <2>1, <2>2 DEF EntersNode
  <2>4. [s EXCEPT !.visited = V, !.path = p] \in Searches(deps)
    BY DEF Searches
  <2>5. PICK u : u = [s EXCEPT !.visited = V, !.path = p]
    OBVIOUS
  <2>6. u.visited = V /\ u.path = p /\ u.cycle = s.cycle
    BY <2>5 DEF Searches
  <2> QED BY <2>1, <2>2, <2>3, <2>4, <2>5, <2>6 DEF SearchOf
<1>3. SearchOf(deps, ClosesCycle(n, s), s.visited, s.path, CycleOf(n, s))
  <2>1. PICK C \in SUBSET DOMAIN deps : C = CycleOf(n, s)
    BY SearchParts DEF CycleOf
  <2>2. ClosesCycle(n, s) = [s EXCEPT !.cycle = C]
    BY <2>1 DEF ClosesCycle
  <2>3. [s EXCEPT !.cycle = C] \in Searches(deps)
    BY DEF Searches
  <2>4. PICK u : u = [s EXCEPT !.cycle = C]
    OBVIOUS
  <2>5. u.visited = s.visited /\ u.path = s.path /\ u.cycle = C
    BY <2>4 DEF Searches
  <2> QED BY <2>1, <2>2, <2>3, <2>4, <2>5 DEF SearchOf
<1>4. ASSUME NEW t \in Searches(deps) PROVE SearchOf(deps, LeavesNode(t, s), t.visited, s.path, t.cycle)
  <2>1. PICK p \in Seq(DOMAIN deps) : p = s.path
    BY <1>1
  <2>2. LeavesNode(t, s) = [t EXCEPT !.path = p]
    BY <2>1 DEF LeavesNode
  <2>3. [t EXCEPT !.path = p] \in Searches(deps)
    BY DEF Searches
  <2>4. PICK u : u = [t EXCEPT !.path = p]
    OBVIOUS
  <2>5. u.visited = t.visited /\ u.path = p /\ u.cycle = t.cycle
    BY <2>4 DEF Searches
  <2> QED BY <2>1, <2>2, <2>3, <2>4, <2>5 DEF SearchOf
<1> QED BY <1>2, <1>3, <1>4

\* The cases of a visit.
LEMMA VisitCases ==
  ASSUME NEW deps, NEW v, NEW n, NEW s
  PROVE  /\ s.cycle # {} => Visits(deps, v, n, s) = s
         /\ s.cycle = {} /\ OnPath(n, s) => Visits(deps, v, n, s) = ClosesCycle(n, s)
         /\ s.cycle = {} /\ ~OnPath(n, s) /\ n \in s.visited => Visits(deps, v, n, s) = s
         /\ s.cycle = {} /\ ~OnPath(n, s) /\ n \notin s.visited =>
              Visits(deps, v, n, s) = LeavesNode(ForEach(v, EntersNode(n, s), deps[n]), s)
<1>1. s.cycle # {} => Visits(deps, v, n, s) = s
  BY DEF Visits
<1>2. s.cycle = {} /\ OnPath(n, s) => Visits(deps, v, n, s) = ClosesCycle(n, s)
  BY DEF Visits, OnPath, ClosesCycle, CycleOf
<1>3. s.cycle = {} /\ ~OnPath(n, s) /\ n \in s.visited => Visits(deps, v, n, s) = s
  BY DEF Visits, OnPath
<1>4. s.cycle = {} /\ ~OnPath(n, s) /\ n \notin s.visited =>
              Visits(deps, v, n, s) = LeavesNode(ForEach(v, EntersNode(n, s), deps[n]), s)
  BY DEF Visits, OnPath, LeavesNode, EntersNode
<1> QED BY <1>1, <1>2, <1>3, <1>4

\* What a call gives that has seen more nodes.
SeesMore(deps, v, k) ==
  \A c \in SearchCalls(deps) : Unseen(deps, c[2]) < k => v[c] \in More(deps, c[2])

\* The dependencies are visited by calls that have seen the node too.
LEMMA DeeperCalls ==
  ASSUME NEW deps, IsGraph(deps), NEW n \in DOMAIN deps, NEW s \in Searches(deps), n \notin s.visited,
         NEW v, SeesMore(deps, v, Unseen(deps, s))
  PROVE  /\ IsFiniteSet(deps[n]) /\ EntersNode(n, s) \in More(deps, EntersNode(n, s))
         /\ \A x \in deps[n], y \in More(deps, EntersNode(n, s)) :
              /\ <<x, y>> \in SearchCalls(deps) /\ Unseen(deps, y) < Unseen(deps, s)
              /\ v[<<x, y>>] \in More(deps, y) /\ v[<<x, y>>] \in More(deps, EntersNode(n, s))
<1>1. PICK e \in Searches(deps) : e = EntersNode(n, s) /\ e.visited = s.visited \cup {n}
  BY SearchUpdates DEF SearchOf
<1>2. deps[n] \in SUBSET DOMAIN deps /\ IsFiniteSet(DOMAIN deps)
  BY DEF IsGraph
<1>3. IsFiniteSet(deps[n])
  BY <1>2, FS_Subset
<1>4. ASSUME NEW x \in deps[n], NEW y \in More(deps, e)
      PROVE  /\ <<x, y>> \in SearchCalls(deps) /\ Unseen(deps, y) < Unseen(deps, s)
             /\ v[<<x, y>>] \in More(deps, y) /\ v[<<x, y>>] \in More(deps, e)
  <2>1. y \in Searches(deps) /\ s.visited \subseteq y.visited /\ n \in y.visited /\ e.visited \subseteq y.visited
    BY <1>1, <1>4 DEF More
  <2>2. <<x, y>> \in SearchCalls(deps)
    BY <1>2, <2>1 DEF SearchCalls
  <2>3. Unseen(deps, y) < Unseen(deps, s)
    BY <1>2, <2>1, FewerLeft DEF Unseen
  <2>4. v[<<x, y>>] \in More(deps, y)
    BY <2>2, <2>3 DEF SeesMore
  <2> QED BY <2>1, <2>2, <2>3, <2>4 DEF More
<1> QED BY <1>1, <1>3, <1>4 DEF More

\* A visit sees more, if its calls do.
LEMMA VisitsSeeMore ==
  ASSUME NEW deps, IsGraph(deps), NEW n \in DOMAIN deps, NEW s \in Searches(deps), NEW v,
         SeesMore(deps, v, Unseen(deps, s))
  PROVE  Visits(deps, v, n, s) \in More(deps, s)
<1>1. s \in More(deps, s)
  BY DEF More
<1>2. ClosesCycle(n, s) \in More(deps, s)
  BY SearchUpdates DEF More, SearchOf
<1>3. CASE s.cycle = {} /\ ~OnPath(n, s) /\ n \notin s.visited
  <2>1. PICK e \in Searches(deps) : e = EntersNode(n, s) /\ e.visited = s.visited \cup {n}
    BY SearchUpdates DEF SearchOf
  <2>2. PICK T : T = More(deps, e) /\ e \in T
    BY <2>1 DEF More
  <2>3. IsFiniteSet(deps[n]) /\ \A x \in deps[n], y \in T : v[<<x, y>>] \in T
    BY <1>3, <2>1, <2>2, DeeperCalls
  <2>4. PICK I : I = (SUBSET deps[n]) \X T
    OBVIOUS
  <2>5. /\ <<{}, e>> \in I
        /\ \A W \in SUBSET deps[n], x \in deps[n], y \in T :
             x \notin W /\ <<W, y>> \in I => <<W \cup {x}, v[<<x, y>>]>> \in I
    BY <2>2, <2>3, <2>4
  <2>6. ForEach(v, e, deps[n]) \in T
    BY <2>2, <2>3, <2>5, ForEachKeeps
  <2>7. PICK t \in Searches(deps) : t = ForEach(v, e, deps[n]) /\ e.visited \subseteq t.visited
    BY <2>2, <2>6 DEF More
  <2>8. LeavesNode(t, s) \in More(deps, s)
    BY <2>1, <2>7, SearchUpdates DEF More, SearchOf
  <2> QED BY <1>3, <2>1, <2>7, <2>8, VisitCases
<1> QED BY <1>1, <1>2, <1>3, VisitCases

\* Calls that are the same where more has been seen make the same visit.
LEMMA VisitsSame ==
  ASSUME NEW deps, IsGraph(deps), NEW n \in DOMAIN deps, NEW s \in Searches(deps), NEW v, NEW w,
         SeesMore(deps, v, Unseen(deps, s)), SeesMore(deps, w, Unseen(deps, s)),
         \A c \in SearchCalls(deps) : Unseen(deps, c[2]) < Unseen(deps, s) => v[c] = w[c]
  PROVE  Visits(deps, v, n, s) = Visits(deps, w, n, s)
<1>1. CASE s.cycle = {} /\ ~OnPath(n, s) /\ n \notin s.visited
  <2>1. PICK e : e = EntersNode(n, s)
    OBVIOUS
  <2>2. PICK T : T = More(deps, e)
    OBVIOUS
  <2>3. /\ IsFiniteSet(deps[n]) /\ e \in T
        /\ \A x \in deps[n], y \in T : v[<<x, y>>] \in T /\ w[<<x, y>>] \in T /\ v[<<x, y>>] = w[<<x, y>>]
    <3>1. /\ IsFiniteSet(deps[n]) /\ e \in T
          /\ \A x \in deps[n], y \in T : /\ <<x, y>> \in SearchCalls(deps) /\ Unseen(deps, y) < Unseen(deps, s)
                                         /\ v[<<x, y>>] \in T
      BY <1>1, <2>1, <2>2, DeeperCalls
    <3>2. \A x \in deps[n], y \in T : v[<<x, y>>] = w[<<x, y>>]
      BY <3>1
    <3> QED BY <3>1, <3>2
  <2>4. ForEach(v, e, deps[n]) = ForEach(w, e, deps[n])
    BY <2>3, ForEachSame
  <2> QED BY <1>1, <2>1, <2>4, VisitCases
<1> QED BY <1>1, VisitCases

\* The calls of a search: each visits.
Visiting(v, deps) == v = [c \in (DOMAIN deps) \X Searches(deps) |-> Visits(deps, v, c[1], c[2])]
\* There are such calls.
LEMMA VisitExists ==
  ASSUME NEW deps, IsGraph(deps)
  PROVE  \E v : Visiting(v, deps)
<1>1. PICK X : X = SearchCalls(deps)
  OBVIOUS
<1>2. PICK T : T = Searches(deps)
  OBVIOUS
<1>3. PICK P : P = [c \in X |-> More(deps, c[2])]
  OBVIOUS
<1>4. PICK r : r = [c \in X |-> Unseen(deps, c[2])]
  OBVIOUS
<1>5. PICK N \in Nat : N = Cardinality(DOMAIN deps)
  BY FS_CardinalityType DEF IsGraph
<1>6. PICK C : C = Candidates(X, T, P)
  OBVIOUS
<1>7. PICK B : B = [z \in X \X C |-> Visits(deps, z[2], z[1][1], z[1][2])]
  OBVIOUS
<1>8. \A c \in X : c[1] \in DOMAIN deps /\ c[2] \in Searches(deps)
  BY <1>1 DEF SearchCalls
<1>9. \A c \in X, t \in C : B[<<c, t>>] = Visits(deps, t, c[1], c[2])
  BY <1>7
<1>10. ASSUME NEW t \in C, NEW k PROVE SeesMore(deps, t, k)
  BY <1>1, <1>3, <1>6 DEF SeesMore, Candidates
<1>11. Describes(B, X, T, P, r, N)
  <2>1. \A c \in X : r[c] \in 0..N
    <3>1. ASSUME NEW c \in X PROVE Unseen(deps, c[2]) \in 0..N
      BY <1>5, FewerLeft DEF Unseen, IsGraph
    <3> QED BY <1>4, <3>1
  <2>2. \A c \in X : P[c] \subseteq T /\ P[c] # {}
    BY <1>2, <1>3, <1>8 DEF More
  <2>3. \A c \in X, t \in C : B[<<c, t>>] \in P[c]
    BY <1>3, <1>8, <1>9, <1>10, VisitsSeeMore
  <2>4. ASSUME NEW c \in X, NEW t \in C, NEW u \in C, \A y \in X : r[y] < r[c] => t[y] = u[y]
        PROVE  B[<<c, t>>] = B[<<c, u>>]
    <3>1. \A y \in SearchCalls(deps) : Unseen(deps, y[2]) < Unseen(deps, c[2]) => t[y] = u[y]
      BY <1>1, <1>4, <2>4
    <3>2. Visits(deps, t, c[1], c[2]) = Visits(deps, u, c[1], c[2])
      BY <1>8, <1>10, <3>1, VisitsSame
    <3> QED BY <1>9, <3>2
  <2> QED BY <1>6, <2>1, <2>2, <2>3, <2>4 DEF Describes
<1>12. PICK v \in C : \A c \in X : v[c] = B[<<c, v>>]
  <2>1. \E t \in Candidates(X, T, P) : Solves(t, X, B)
    BY <1>11, RecursionExists
  <2> QED BY <1>6, <2>1 DEF Solves
<1>13. \A c \in X : v[c] = Visits(deps, v, c[1], c[2])
  BY <1>9, <1>12
<1>14. v = [c \in X |-> v[c]]
  BY <1>6 DEF Candidates
<1> QED BY <1>1, <1>13, <1>14 DEF Visiting, SearchCalls

\* And they see more, each of them.
LEMMA VisitSees ==
  ASSUME NEW deps, IsGraph(deps), NEW v, Visiting(v, deps)
  PROVE  \A c \in SearchCalls(deps) : v[c] = Visits(deps, v, c[1], c[2]) /\ v[c] \in More(deps, c[2])
<1>1. PICK X : X = SearchCalls(deps)
  OBVIOUS
<1>2. PICK r : r = [c \in X |-> Unseen(deps, c[2])]
  OBVIOUS
<1>3. PICK G : G = {c \in X : v[c] \in More(deps, c[2])}
  OBVIOUS
<1>4. \A c \in X : v[c] = Visits(deps, v, c[1], c[2])
  BY <1>1 DEF Visiting, SearchCalls
<1>5. \A c \in X : r[c] \in Nat
  <2>1. ASSUME NEW c \in X PROVE Unseen(deps, c[2]) \in Nat
    BY FewerLeft DEF Unseen, IsGraph
  <2> QED BY <1>2, <2>1
<1>6. ASSUME NEW c \in X, \A y \in X : r[y] < r[c] => y \in G PROVE c \in G
  <2>1. c[1] \in DOMAIN deps /\ c[2] \in Searches(deps)
    BY <1>1 DEF SearchCalls
  <2>2. SeesMore(deps, v, Unseen(deps, c[2]))
    BY <1>1, <1>2, <1>3, <1>6 DEF SeesMore
  <2>3. Visits(deps, v, c[1], c[2]) \in More(deps, c[2])
    BY <2>1, <2>2, VisitsSeeMore
  <2> QED BY <1>3, <1>4, <2>3
<1>7. X \subseteq G
  BY <1>5, <1>6, RankInduction
<1> QED BY <1>1, <1>3, <1>4, <1>7

\* What the search finds is what its calls find, for all nodes, from nothing.
NothingSeen == [visited |-> {}, path |-> <<>>, cycle |-> {}]
LEMMA CycleIsFound ==
  ASSUME NEW deps, IsGraph(deps)
  PROVE  \E v : Visiting(v, deps) /\ CycleFound(deps) = ForEach(v, NothingSeen, DOMAIN deps).cycle
<1> DEFINE Made(v) == Visiting(v, deps)
<1>1. Made(CHOOSE v : Made(v))
  BY VisitExists
<1>2. CycleFound(deps) = ForEach(CHOOSE v : Made(v), NothingSeen, DOMAIN deps).cycle
  BY DEF CycleFound, Visiting, NothingSeen
<1> QED BY <1>1, <1>2
-------------------------------------------------------------------------------
(* What the search for a cycle finds *)

\* Nodes that lead to each other only, none of them in a cycle.
Settled(deps, F) ==
  /\ F \subseteq DOMAIN deps /\ \A n \in F : deps[n] \subseteq F
  /\ \A N \in SUBSET F : ~Cyclic(deps, N)
\* A node that depends on such nodes is one more.
LEMMA OneMoreSettled ==
  ASSUME NEW deps, NEW F, Settled(deps, F), NEW n \in DOMAIN deps, deps[n] \subseteq F
  PROVE  Settled(deps, F \cup {n})
<1>1. F \cup {n} \subseteq DOMAIN deps /\ \A m \in F \cup {n} : deps[m] \subseteq F
  BY DEF Settled
<1>2. ASSUME NEW N \in SUBSET (F \cup {n}), Cyclic(deps, N) PROVE FALSE
  <2>1. PICK M : M = N \cap F
    OBVIOUS
  <2>2. N # {} /\ \A m \in N : deps[m] \cap N # {}
    BY <1>2 DEF Cyclic
  <2>3. \A m \in N : deps[m] \cap M # {}
    BY <1>1, <2>1, <2>2
  <2>4. Cyclic(deps, M)
    BY <2>1, <2>2, <2>3 DEF Cyclic
  <2> QED BY <2>1, <2>4 DEF Settled
<1> QED BY <1>1, <1>2 DEF Settled

\* The nodes a search is through with.
Through(s) == {n \in s.visited : ~OnPath(n, s)}
\* Each node on the path was visited, once, for the one before it.
PathOf(deps, s) ==
  /\ \A i \in DOMAIN s.path : s.path[i] \in s.visited
  /\ \A i, j \in DOMAIN s.path : s.path[i] = s.path[j] => i = j
  /\ \A i \in DOMAIN s.path : i + 1 \in DOMAIN s.path => s.path[i + 1] \in deps[s.path[i]]
Sane(deps, s) ==
  /\ s \in Searches(deps) /\ PathOf(deps, s)
  /\ IF s.cycle = {} THEN Settled(deps, Through(s)) ELSE Cyclic(deps, s.cycle)
\* The node is visited for the last of the path.
Leads(deps, s, n) == s.path = <<>> \/ n \in deps[s.path[Len(s.path)]]
\* What a visit comes to.
VisitEnds(deps, n, s, t) ==
  /\ Sane(deps, t) /\ t.path = s.path /\ s.visited \subseteq t.visited
  /\ t.cycle = {} => s.cycle = {} /\ n \in Through(t)

\* What is on the path from a node on is a cycle, if the last depends on the node.
LEMMA PathCloses ==
  ASSUME NEW deps, NEW n, NEW s, Sane(deps, s), Leads(deps, s, n), OnPath(n, s)
  PROVE  Cyclic(deps, CycleOf(n, s))
<1>1. PICK p \in Seq(DOMAIN deps) : p = s.path
  BY DEF Sane, Searches
<1>2. /\ \A i, j \in DOMAIN p : p[i] = p[j] => i = j
      /\ \A i \in DOMAIN p : i + 1 \in DOMAIN p => p[i + 1] \in deps[p[i]]
  BY <1>1 DEF Sane, PathOf
<1>3. PICK k \in DOMAIN p : p[k] = n
  BY <1>1 DEF OnPath
<1>4. PICK l \in Nat : l = Len(p) /\ DOMAIN p = 1..l
  BY <1>1, LenProperties
<1>5. k \in Nat /\ k <= l /\ 1 <= k /\ l \in DOMAIN p
  BY <1>3, <1>4
<1>6. PICK J : J = {j \in 1..l : k <= j}
  OBVIOUS
<1>7. CycleOf(n, s) = {p[j] : j \in J}
  <2>1. {j \in DOMAIN p : \A i \in DOMAIN p : p[i] = n => i <= j} = J
    BY <1>2, <1>3, <1>4, <1>6
  <2> QED BY <1>1, <2>1 DEF CycleOf
<1>8. n \in deps[p[l]]
  <2>1. p # <<>>
    BY <1>3
  <2> QED BY <1>1, <1>4, <2>1 DEF Leads
<1>9. ASSUME NEW j \in J PROVE \E i \in J : p[i] \in deps[p[j]]
  <2>1. CASE j = l
    BY <1>3, <1>5, <1>6, <1>4, <1>8, <2>1
  <2>2. CASE j # l
    <3>1. j + 1 \in 1..l /\ j + 1 \in J /\ j \in 1..l
      BY <1>5, <1>6, <2>2
    <3>2. p[j + 1] \in deps[p[j]]
      BY <1>2, <1>4, <3>1
    <3> QED BY <3>1, <3>2
  <2> QED BY <2>1, <2>2
<1>10. k \in J
  BY <1>3, <1>4, <1>5, <1>6
<1>11. PICK C : C = {p[j] : j \in J}
  OBVIOUS
<1>12. C # {} /\ \A m \in C : deps[m] \cap C # {}
  BY <1>9, <1>10, <1>11
<1> QED BY <1>7, <1>11, <1>12 DEF Cyclic

\* Who is on the path when a search enters a node.
LEMMA EntersPath ==
  ASSUME NEW deps, NEW n \in DOMAIN deps, NEW s \in Searches(deps)
  PROVE  \A m : OnPath(m, EntersNode(n, s)) <=> OnPath(m, s) \/ m = n
<1>1. PICK p \in Seq(DOMAIN deps) : p = s.path
  BY DEF Searches
<1>2. PICK q \in Seq(DOMAIN deps) : q = EntersNode(n, s).path /\ q = Append(p, n)
  <2>1. EntersNode(n, s).path = Append(p, n)
    BY <1>1, SearchUpdates DEF SearchOf
  <2>2. Append(p, n) \in Seq(DOMAIN deps)
    BY AppendProperties
  <2> QED BY <2>1, <2>2
<1>3. PICK l \in Nat : l = Len(p) /\ DOMAIN p = 1..l
  BY <1>1, LenProperties
<1>4. Len(q) = l + 1 /\ q[l + 1] = n /\ \A i \in 1..l : q[i] = p[i]
  BY <1>1, <1>2, <1>3, AppendProperties
<1>5. DOMAIN q = 1..(l + 1)
  BY <1>2, <1>4, LenProperties
<1>6. \A m : OnPath(m, EntersNode(n, s)) <=> \E i \in 1..(l + 1) : q[i] = m
  BY <1>2, <1>5 DEF OnPath
<1>7. \A m : OnPath(m, s) <=> \E i \in 1..l : p[i] = m
  BY <1>1, <1>3 DEF OnPath
<1>8. l + 1 \in 1..(l + 1) /\ \A i \in 1..l : i \in 1..(l + 1)
  BY <1>3
<1>9. \A i \in 1..(l + 1) : i \in 1..l \/ i = l + 1
  BY <1>3
<1> QED BY <1>4, <1>6, <1>7, <1>8, <1>9

\* The node a search enters is the last of a path again, and nothing more is through.
LEMMA EntersSane ==
  ASSUME NEW deps, NEW n \in DOMAIN deps, NEW s, Sane(deps, s), Leads(deps, s, n),
         s.cycle = {}, ~OnPath(n, s), n \notin s.visited
  PROVE  Sane(deps, EntersNode(n, s)) /\ \A x \in deps[n] : \A y : y.path = EntersNode(n, s).path => Leads(deps, y, x)
<1>1. PICK p \in Seq(DOMAIN deps) : p = s.path
  BY DEF Sane, Searches
<1>2. PICK e \in Searches(deps) :
        e = EntersNode(n, s) /\ e.visited = s.visited \cup {n} /\ e.path = Append(p, n) /\ e.cycle = {}
  BY <1>1, SearchUpdates DEF SearchOf, Sane
<1>3. PICK l \in Nat : l = Len(p) /\ DOMAIN p = 1..l
  BY <1>1, LenProperties
<1>4. PICK q \in Seq(DOMAIN deps) : q = e.path
  BY DEF Searches
<1>5. Len(q) = l + 1 /\ q[l + 1] = n /\ \A i \in 1..l : q[i] = p[i]
  BY <1>1, <1>2, <1>3, <1>4, AppendProperties
<1>6. DOMAIN q = 1..(l + 1)
  BY <1>4, <1>5, LenProperties
<1>7. /\ \A i \in 1..l : p[i] \in s.visited
      /\ \A i, j \in 1..l : p[i] = p[j] => i = j
      /\ \A i \in 1..l : i + 1 \in 1..l => p[i + 1] \in deps[p[i]]
  BY <1>1, <1>3 DEF Sane, PathOf
<1>8. \A i \in 1..(l + 1) : i \in 1..l \/ i = l + 1
  BY <1>3
<1>9. PathOf(deps, e)
  <2>1. \A i \in DOMAIN q : q[i] \in e.visited
    BY <1>2, <1>5, <1>6, <1>7, <1>8
  <2>2. \A i, j \in DOMAIN q : q[i] = q[j] => i = j
    <3>1. \A i \in 1..l : q[i] # n
      BY <1>5, <1>7
    <3> QED BY <1>5, <1>6, <1>7, <1>8, <3>1
  <2>3. ASSUME NEW i \in DOMAIN q, i + 1 \in DOMAIN q PROVE q[i + 1] \in deps[q[i]]
    <3>1. i \in 1..l /\ (i + 1 \in 1..l \/ i = l)
      BY <1>3, <1>6, <2>3
    <3>2. CASE i + 1 \in 1..l
      BY <1>5, <1>7, <3>1, <3>2
    <3>3. CASE i = l
      <4>1. p # <<>>
        BY <1>3, <3>1
      <4>2. n \in deps[p[l]]
        BY <1>1, <1>3, <4>1 DEF Leads
      <4> QED BY <1>5, <3>1, <3>3, <4>2
    <3> QED BY <3>1, <3>2, <3>3
  <2> QED BY <1>4, <2>1, <2>2, <2>3 DEF PathOf
<1>10. Through(e) = Through(s)
  <2>1. \A m : OnPath(m, e) <=> OnPath(m, s) \/ m = n
    BY <1>2, EntersPath DEF Sane
  <2> QED BY <1>2, <2>1 DEF Through
<1>11. Sane(deps, e)
  BY <1>2, <1>9, <1>10 DEF Sane
<1>12. ASSUME NEW x \in deps[n], NEW y, y.path = e.path PROVE Leads(deps, y, x)
  BY <1>4, <1>5, <1>12 DEF Leads
<1> QED BY <1>2, <1>11, <1>12

\* What the calls come to that have seen more.
EndsWell(deps, v, k) ==
  \A c \in SearchCalls(deps) :
    Unseen(deps, c[2]) < k /\ Sane(deps, c[2]) /\ Leads(deps, c[2], c[1]) =>
      VisitEnds(deps, c[1], c[2], v[c])
\* What a search has come to after some of the nodes that the last one on the path depends on.
CameThrough(deps, p, W, y) ==
  Sane(deps, y) /\ y.path = p /\ (y.cycle = {} => W \subseteq Through(y))

\* The dependencies of a node, one after the other.
LEMMA DependenciesEnd ==
  ASSUME NEW deps, IsGraph(deps), NEW n \in DOMAIN deps, NEW s, Sane(deps, s), Leads(deps, s, n),
         s.cycle = {}, ~OnPath(n, s), n \notin s.visited,
         NEW v, SeesMore(deps, v, Unseen(deps, s)), EndsWell(deps, v, Unseen(deps, s))
  PROVE  \E r : /\ r = ForEach(v, EntersNode(n, s), deps[n]) /\ EntersNode(n, s).visited \subseteq r.visited
                /\ CameThrough(deps, EntersNode(n, s).path, deps[n], r)
<1>1. PICK e \in Searches(deps) : e = EntersNode(n, s) /\ e.visited = s.visited \cup {n}
  BY SearchUpdates DEF SearchOf, Sane
<1>2. Sane(deps, e) /\ \A x \in deps[n] : \A y : y.path = e.path => Leads(deps, y, x)
  BY <1>1, EntersSane
<1>3. PICK T : T = More(deps, e)
  OBVIOUS
<1>4. PICK p : p = e.path
  OBVIOUS
<1>5. PICK I : I = {z \in (SUBSET deps[n]) \X T : CameThrough(deps, p, z[1], z[2])}
  OBVIOUS
<1>6. /\ IsFiniteSet(deps[n]) /\ e \in T
      /\ \A x \in deps[n], y \in T : /\ <<x, y>> \in SearchCalls(deps) /\ Unseen(deps, y) < Unseen(deps, s)
                                     /\ v[<<x, y>>] \in More(deps, y) /\ v[<<x, y>>] \in T
  BY <1>1, <1>3, DeeperCalls DEF Sane
<1>7. <<{}, e>> \in I
  BY <1>2, <1>4, <1>5, <1>6 DEF CameThrough
<1>8. ASSUME NEW W \in SUBSET deps[n], NEW x \in deps[n], NEW y \in T, <<W, y>> \in I
      PROVE  <<W \cup {x}, v[<<x, y>>]>> \in I
  <2>1. Sane(deps, y) /\ y.path = p /\ (y.cycle = {} => W \subseteq Through(y))
    BY <1>5, <1>8 DEF CameThrough
  <2>2. PICK t : t = v[<<x, y>>] /\ t \in T
    BY <1>6
  <2>3. <<x, y>> \in SearchCalls(deps) /\ Unseen(deps, y) < Unseen(deps, s) /\ Leads(deps, y, x)
    BY <1>2, <1>4, <1>6, <2>1
  <2>4. VisitEnds(deps, x, y, t)
    BY <2>1, <2>2, <2>3 DEF EndsWell
  <2>5. ASSUME t.cycle = {} PROVE W \cup {x} \subseteq Through(t)
    <3>1. x \in Through(t) /\ W \subseteq Through(y) /\ t.path = y.path /\ y.visited \subseteq t.visited
      BY <2>1, <2>4, <2>5 DEF VisitEnds
    <3>2. Through(y) \subseteq Through(t)
      BY <3>1 DEF Through, OnPath
    <3> QED BY <3>1, <3>2
  <2>6. CameThrough(deps, p, W \cup {x}, t)
    BY <2>1, <2>4, <2>5 DEF CameThrough, VisitEnds
  <2> QED BY <1>5, <2>2, <2>6
<1>9. PICK r : r = ForEach(v, e, deps[n]) /\ r \in T /\ <<deps[n], r>> \in I
  <2>1. \A x \in deps[n], y \in T : v[<<x, y>>] \in T
    BY <1>6
  <2>2. ForEach(v, e, deps[n]) \in T /\ <<deps[n], ForEach(v, e, deps[n])>> \in I
    BY <1>6, <1>7, <1>8, <2>1, ForEachKeeps
  <2> QED BY <2>2
<1>10. CameThrough(deps, p, deps[n], r) /\ e.visited \subseteq r.visited
  BY <1>3, <1>5, <1>9 DEF More
<1> QED BY <1>1, <1>4, <1>9, <1>10

\* A visit ends well, if its calls do.
LEMMA VisitEndsWell ==
  ASSUME NEW deps, IsGraph(deps), NEW n \in DOMAIN deps, NEW s, Sane(deps, s), Leads(deps, s, n),
         NEW v, SeesMore(deps, v, Unseen(deps, s)), EndsWell(deps, v, Unseen(deps, s))
  PROVE  VisitEnds(deps, n, s, Visits(deps, v, n, s))
<1>1. CASE s.cycle # {}
  BY <1>1, VisitCases DEF VisitEnds
<1>2. CASE s.cycle = {} /\ OnPath(n, s)
  <2>1. PICK t : t = ClosesCycle(n, s) /\ SearchOf(deps, t, s.visited, s.path, CycleOf(n, s))
    BY SearchUpdates DEF Sane
  <2>2. Cyclic(deps, CycleOf(n, s))
    BY <1>2, PathCloses
  <2>3. t.cycle # {}
    BY <2>1, <2>2 DEF SearchOf, Cyclic
  <2>4. PathOf(deps, t)
    BY <2>1 DEF PathOf, Sane, SearchOf
  <2>5. Sane(deps, t)
    BY <2>1, <2>2, <2>3, <2>4 DEF Sane, SearchOf
  <2>6. Visits(deps, v, n, s) = t
    BY <1>2, <2>1, VisitCases
  <2> QED BY <2>1, <2>3, <2>5, <2>6 DEF VisitEnds, SearchOf
<1>3. CASE s.cycle = {} /\ ~OnPath(n, s) /\ n \in s.visited
  BY <1>3, VisitCases DEF VisitEnds, Through
<1>4. CASE s.cycle = {} /\ ~OnPath(n, s) /\ n \notin s.visited
  <2>1. PICK e \in Searches(deps) : e = EntersNode(n, s) /\ e.visited = s.visited \cup {n}
    BY SearchUpdates DEF SearchOf, Sane
  <2>2. PICK r : r = ForEach(v, e, deps[n]) /\ e.visited \subseteq r.visited /\ CameThrough(deps, e.path, deps[n], r)
    BY <1>4, <2>1, DependenciesEnd
  <2>3. PICK t : t = LeavesNode(r, s) /\ SearchOf(deps, t, r.visited, s.path, r.cycle)
    BY <2>2, SearchUpdates DEF Sane, CameThrough
  <2>4. Visits(deps, v, n, s) = t
    BY <1>4, <2>1, <2>2, <2>3, VisitCases
  <2>5. s.visited \subseteq t.visited /\ t.path = s.path /\ t \in Searches(deps)
    BY <2>1, <2>2, <2>3 DEF SearchOf
  <2>6. PathOf(deps, t)
    BY <2>5 DEF Sane, PathOf
  <2>7. CASE t.cycle = {}
    <3>1. r.cycle = {} /\ deps[n] \subseteq Through(r) /\ Settled(deps, Through(r))
      BY <2>2, <2>3, <2>7 DEF CameThrough, Sane, SearchOf
    <3>2. Through(t) = Through(r) \cup {n}
      <4>1. \A m : OnPath(m, r) <=> OnPath(m, s) \/ m = n
        BY <2>1, <2>2, EntersPath DEF CameThrough, OnPath, Sane
      <4>2. \A m : OnPath(m, t) <=> OnPath(m, s)
        BY <2>5 DEF OnPath
      <4>3. t.visited = r.visited /\ n \in r.visited
        BY <2>1, <2>2, <2>3 DEF SearchOf
      <4> QED BY <1>4, <4>1, <4>2, <4>3 DEF Through
    <3>3. Settled(deps, Through(t))
      BY <3>1, <3>2, OneMoreSettled
    <3> QED BY <1>4, <2>4, <2>5, <2>6, <2>7, <3>2, <3>3 DEF VisitEnds, Sane
  <2>8. CASE t.cycle # {}
    <3>1. Cyclic(deps, t.cycle)
      BY <2>2, <2>3, <2>8 DEF CameThrough, Sane, SearchOf
    <3> QED BY <2>4, <2>5, <2>6, <2>8, <3>1 DEF VisitEnds, Sane
  <2> QED BY <2>7, <2>8
<1> QED BY <1>1, <1>2, <1>3, <1>4

\* Every visit ends well.
LEMMA VisitsEnd ==
  ASSUME NEW deps, IsGraph(deps), NEW v, Visiting(v, deps), NEW k
  PROVE  EndsWell(deps, v, k)
<1>1. PICK X : X = SearchCalls(deps)
  OBVIOUS
<1>2. PICK r : r = [c \in X |-> Unseen(deps, c[2])]
  OBVIOUS
<1>3. PICK G : G = {c \in X : Sane(deps, c[2]) /\ Leads(deps, c[2], c[1]) => VisitEnds(deps, c[1], c[2], v[c])}
  OBVIOUS
<1>4. \A c \in X : v[c] = Visits(deps, v, c[1], c[2]) /\ v[c] \in More(deps, c[2])
  BY <1>1, VisitSees
<1>5. \A c \in X : r[c] \in Nat
  <2>1. ASSUME NEW c \in X PROVE Unseen(deps, c[2]) \in Nat
    BY FewerLeft DEF Unseen, IsGraph
  <2> QED BY <1>2, <2>1
<1>6. ASSUME NEW c \in X, \A y \in X : r[y] < r[c] => y \in G PROVE c \in G
  <2>1. c[1] \in DOMAIN deps
    BY <1>1 DEF SearchCalls
  <2>2. SeesMore(deps, v, Unseen(deps, c[2]))
    BY <1>1, <1>4 DEF SeesMore
  <2>3. EndsWell(deps, v, Unseen(deps, c[2]))
    BY <1>1, <1>2, <1>3, <1>6 DEF EndsWell
  <2>4. Sane(deps, c[2]) /\ Leads(deps, c[2], c[1]) => VisitEnds(deps, c[1], c[2], v[c])
    BY <1>4, <2>1, <2>2, <2>3, VisitEndsWell
  <2> QED BY <1>3, <2>4
<1>7. X \subseteq G
  BY <1>5, <1>6, RankInduction
<1> QED BY <1>1, <1>3, <1>7 DEF EndsWell

\* The search finds a cycle if there is one, and what it finds is one.
FindsCycle(deps, C) ==
  IF C = {} THEN \A N \in SUBSET DOMAIN deps : ~Cyclic(deps, N)
  ELSE C \in SUBSET DOMAIN deps /\ Cyclic(deps, C)
LEMMA CycleIsOne ==
  ASSUME NEW deps, IsGraph(deps)
  PROVE  FindsCycle(deps, CycleFound(deps))
<1>1. PICK v : Visiting(v, deps) /\ CycleFound(deps) = ForEach(v, NothingSeen, DOMAIN deps).cycle
  BY CycleIsFound
<1>2. PICK D : D = DOMAIN deps /\ IsFiniteSet(D)
  BY DEF IsGraph
<1>3. PICK T : T = Searches(deps)
  OBVIOUS
<1>4. PICK b : b = NothingSeen /\ b \in T /\ b.visited = {} /\ b.path = <<>> /\ b.cycle = {}
  <2>1. <<>> \in Seq(DOMAIN deps)
    BY EmptySeq
  <2>2. PICK q : q = <<>>
    OBVIOUS
  <2>3. [visited |-> {}, path |-> q, cycle |-> {}] \in T
    BY <1>3, <2>1, <2>2 DEF Searches
  <2> QED BY <2>2, <2>3 DEF NothingSeen
<1>5. Sane(deps, b)
  <2>1. DOMAIN b.path = {}
    BY <1>4, EmptySeq
  <2>2. PathOf(deps, b)
    BY <2>1 DEF PathOf
  <2>3. Through(b) = {}
    BY <1>4 DEF Through
  <2>4. ~Cyclic(deps, {})
    BY DEF Cyclic
  <2>5. Settled(deps, {})
    BY <2>4 DEF Settled
  <2> QED BY <1>3, <1>4, <2>2, <2>3, <2>5 DEF Sane
<1>6. PICK I : I = {z \in (SUBSET D) \X T : CameThrough(deps, <<>>, z[1], z[2])}
  OBVIOUS
<1>7. <<{}, b>> \in I
  BY <1>4, <1>5, <1>6 DEF CameThrough
<1>8. \A x \in D, y \in T : v[<<x, y>>] \in T
  <2>1. \A c \in SearchCalls(deps) : v[c] \in T
    BY <1>1, <1>3, VisitSees DEF More
  <2> QED BY <1>2, <1>3, <2>1 DEF SearchCalls
<1>9. ASSUME NEW W \in SUBSET D, NEW x \in D, NEW y \in T, <<W, y>> \in I
      PROVE  <<W \cup {x}, v[<<x, y>>]>> \in I
  <2>1. Sane(deps, y) /\ y.path = <<>> /\ (y.cycle = {} => W \subseteq Through(y))
    BY <1>6, <1>9 DEF CameThrough
  <2>2. PICK t : t = v[<<x, y>>] /\ t \in T
    BY <1>8
  <2>3. <<x, y>> \in SearchCalls(deps) /\ Leads(deps, y, x)
    BY <1>2, <1>3, <2>1 DEF Leads, SearchCalls
  <2>4. VisitEnds(deps, x, y, t)
    <3>1. PICK k \in Nat : k = Unseen(deps, y)
      BY FewerLeft DEF Unseen, IsGraph
    <3>2. EndsWell(deps, v, k + 1)
      BY <1>1, VisitsEnd
    <3>3. Unseen(deps, y) < k + 1
      BY <3>1
    <3> QED BY <2>1, <2>2, <2>3, <3>2, <3>3 DEF EndsWell
  <2>5. ASSUME t.cycle = {} PROVE W \cup {x} \subseteq Through(t)
    <3>1. x \in Through(t) /\ W \subseteq Through(y) /\ t.path = y.path /\ y.visited \subseteq t.visited
      BY <2>1, <2>4, <2>5 DEF VisitEnds
    <3>2. Through(y) \subseteq Through(t)
      BY <3>1 DEF Through, OnPath
    <3> QED BY <3>1, <3>2
  <2>6. CameThrough(deps, <<>>, W \cup {x}, t)
    BY <2>1, <2>4, <2>5 DEF CameThrough, VisitEnds
  <2> QED BY <1>6, <2>2, <2>6
<1>10. PICK r : r = ForEach(v, b, D) /\ <<D, r>> \in I
  <2>1. IsFiniteSet(D) /\ b \in T
    BY <1>2, <1>4
  <2>2. ForEach(v, b, D) \in T /\ <<D, ForEach(v, b, D)>> \in I
    BY <1>7, <1>8, <1>9, <2>1, ForEachKeeps
  <2> QED BY <2>2
<1>11. CycleFound(deps) = r.cycle
  BY <1>1, <1>2, <1>4, <1>10
<1>12. Sane(deps, r) /\ (r.cycle = {} => D \subseteq Through(r))
  BY <1>6, <1>10 DEF CameThrough
<1>13. CASE r.cycle = {}
  <2>1. Settled(deps, Through(r)) /\ D \subseteq Through(r)
    BY <1>12, <1>13 DEF Sane
  <2>2. \A N \in SUBSET DOMAIN deps : ~Cyclic(deps, N)
    BY <1>2, <2>1 DEF Settled
  <2> QED BY <1>11, <1>13, <2>2 DEF FindsCycle
<1>14. CASE r.cycle # {}
  <2>1. Cyclic(deps, r.cycle) /\ r.cycle \in SUBSET DOMAIN deps
    BY <1>12, <1>14, SearchParts DEF Sane
  <2> QED BY <1>11, <1>14, <2>1 DEF FindsCycle
<1> QED BY <1>13, <1>14
-------------------------------------------------------------------------------
(* The search of the workflow service *)

\* What the search can come to that has seen as much.
MoreSeen(deps, s) == {u \in ServiceSearches(deps) : s.visited \subseteq u.visited}
\* The dependencies are looked at, and searched if they were not visited.
Looks(deps, v) ==
  [c \in (DOMAIN deps) \X ServiceSearches(deps) |->
     IF c[2].found THEN c[2]
     ELSE IF c[1] \notin c[2].visited THEN v[c]
     ELSE [c[2] EXCEPT !.found = c[1] \in c[2].stack]]
Pushes(n, s) == [s EXCEPT !.visited = @ \cup {n}, !.stack = @ \cup {n}]
Pops(n, s) == [s EXCEPT !.stack = @ \ {n}]
Meets(n, s) == [s EXCEPT !.found = n \in s.stack]
ServiceSearchOf(deps, s, V, S, b) ==
  s \in ServiceSearches(deps) /\ s.visited = V /\ s.stack = S /\ s.found = b

\* Each update changes what it says.
LEMMA ServiceUpdates ==
  ASSUME NEW deps, NEW n \in DOMAIN deps, NEW s \in ServiceSearches(deps)
  PROVE  /\ ServiceSearchOf(deps, Pushes(n, s), s.visited \cup {n}, s.stack \cup {n}, s.found)
         /\ ServiceSearchOf(deps, Pops(n, s), s.visited, s.stack \ {n}, s.found)
         /\ ServiceSearchOf(deps, Meets(n, s), s.visited, s.stack, n \in s.stack)
<1>1. s.visited \in SUBSET DOMAIN deps /\ s.stack \in SUBSET DOMAIN deps /\ s.found \in BOOLEAN
  BY DEF ServiceSearches
<1>2. ServiceSearchOf(deps, Pushes(n, s), s.visited \cup {n}, s.stack \cup {n}, s.found)
  <2>1. PICK V \in SUBSET DOMAIN deps : V = s.visited \cup {n}
    BY <1>1
  <2>2. PICK S \in SUBSET DOMAIN deps : S = s.stack \cup {n}
    BY <1>1
  <2>3. PICK u : u = [s EXCEPT !.visited = V, !.stack = S]
    OBVIOUS
  <2>4. u \in ServiceSearches(deps)
    BY <2>3 DEF ServiceSearches
  <2>5. u.visited = V /\ u.stack = S /\ u.found = s.found
    BY <2>3 DEF ServiceSearches
  <2>6. Pushes(n, s) = u
    BY <2>1, <2>2, <2>3 DEF Pushes
  <2> QED BY <2>1, <2>2, <2>4, <2>5, <2>6 DEF ServiceSearchOf
<1>3. ServiceSearchOf(deps, Pops(n, s), s.visited, s.stack \ {n}, s.found)
  <2>1. PICK S \in SUBSET DOMAIN deps : S = s.stack \ {n}
    BY <1>1
  <2>2. PICK u : u = [s EXCEPT !.stack = S]
    OBVIOUS
  <2>3. u \in ServiceSearches(deps)
    BY <2>2 DEF ServiceSearches
  <2>4. u.visited = s.visited /\ u.stack = S /\ u.found = s.found
    BY <2>2 DEF ServiceSearches
  <2>5. Pops(n, s) = u
    BY <2>1, <2>2 DEF Pops
  <2> QED BY <2>1, <2>3, <2>4, <2>5 DEF ServiceSearchOf
<1>4. ServiceSearchOf(deps, Meets(n, s), s.visited, s.stack, n \in s.stack)
  <2>1. PICK u : u = Meets(n, s)
    OBVIOUS
  <2>2. u = [s EXCEPT !.found = n \in s.stack]
    BY <2>1 DEF Meets
  <2>3. (n \in s.stack) \in BOOLEAN
    OBVIOUS
  <2>4. u \in ServiceSearches(deps)
    BY <2>2, <2>3 DEF ServiceSearches
  <2>5. u.visited = s.visited /\ u.stack = s.stack /\ u.found = (n \in s.stack)
    BY <2>2 DEF ServiceSearches
  <2> QED BY <2>1, <2>4, <2>5 DEF ServiceSearchOf
<1> QED BY <1>2, <1>3, <1>4

\* The cases of a look.
LEMMA LookCases ==
  ASSUME NEW deps, NEW v, NEW x \in DOMAIN deps, NEW y \in ServiceSearches(deps)
  PROVE  /\ y.found => Looks(deps, v)[<<x, y>>] = y
         /\ ~y.found /\ x \notin y.visited => Looks(deps, v)[<<x, y>>] = v[<<x, y>>]
         /\ ~y.found /\ x \in y.visited => Looks(deps, v)[<<x, y>>] = Meets(x, y)
<1>0. PICK c : c = <<x, y>>
  OBVIOUS
<1>1. c \in (DOMAIN deps) \X ServiceSearches(deps) /\ c[1] = x /\ c[2] = y
  BY <1>0
<1>2. Looks(deps, v)[c] = IF c[2].found THEN c[2]
                          ELSE IF c[1] \notin c[2].visited THEN v[c]
                          ELSE [c[2] EXCEPT !.found = c[1] \in c[2].stack]
  BY <1>1 DEF Looks
<1> QED BY <1>0, <1>1, <1>2 DEF Meets

\* The cases of a visit.
LEMMA ServiceCases ==
  ASSUME NEW deps, NEW v, NEW n, NEW s, NEW r, r = ForEach(Looks(deps, v), Pushes(n, s), deps[n])
  PROVE  /\ r.found => ServiceVisits(deps, v, n, s) = r
         /\ ~r.found => ServiceVisits(deps, v, n, s) = Pops(n, r)
BY DEF ServiceVisits, Looks, Pushes, Pops

\* What a call gives that has seen more nodes.
ServiceSeesMore(deps, v, k) ==
  \A c \in Unvisited(deps) : Unseen(deps, c[2]) < k => v[c] \in MoreSeen(deps, c[2])
\* The dependencies are looked at by a search that has seen the node too.
LEMMA LooksSeeMore ==
  ASSUME NEW deps, IsGraph(deps), NEW n \in DOMAIN deps, NEW s \in ServiceSearches(deps), n \notin s.visited,
         NEW v, ServiceSeesMore(deps, v, Unseen(deps, s))
  PROVE  /\ IsFiniteSet(deps[n]) /\ Pushes(n, s) \in MoreSeen(deps, Pushes(n, s))
         /\ \A x \in deps[n], y \in MoreSeen(deps, Pushes(n, s)) :
              /\ x \in DOMAIN deps /\ y \in ServiceSearches(deps) /\ Unseen(deps, y) < Unseen(deps, s)
              /\ x \notin y.visited => <<x, y>> \in Unvisited(deps) /\ v[<<x, y>>] \in MoreSeen(deps, y)
              /\ Looks(deps, v)[<<x, y>>] \in MoreSeen(deps, Pushes(n, s))
<1>1. PICK e \in ServiceSearches(deps) : e = Pushes(n, s) /\ e.visited = s.visited \cup {n}
  BY ServiceUpdates DEF ServiceSearchOf
<1>2. deps[n] \in SUBSET DOMAIN deps /\ IsFiniteSet(DOMAIN deps)
  BY DEF IsGraph
<1>3. IsFiniteSet(deps[n])
  BY <1>2, FS_Subset
<1>4. ASSUME NEW x \in deps[n], NEW y \in MoreSeen(deps, e)
      PROVE  /\ x \in DOMAIN deps /\ y \in ServiceSearches(deps) /\ Unseen(deps, y) < Unseen(deps, s)
             /\ x \notin y.visited => <<x, y>> \in Unvisited(deps) /\ v[<<x, y>>] \in MoreSeen(deps, y)
             /\ Looks(deps, v)[<<x, y>>] \in MoreSeen(deps, e)
  <2>1. /\ y \in ServiceSearches(deps) /\ s.visited \subseteq y.visited /\ n \in y.visited
        /\ e.visited \subseteq y.visited
    BY <1>1, <1>4 DEF MoreSeen
  <2>2. Unseen(deps, y) < Unseen(deps, s)
    BY <1>2, <2>1, FewerLeft DEF Unseen
  <2>3. x \in DOMAIN deps
    BY <1>2
  <2>4. ASSUME x \notin y.visited PROVE <<x, y>> \in Unvisited(deps) /\ v[<<x, y>>] \in MoreSeen(deps, y)
    <3>1. <<x, y>> \in Unvisited(deps)
      BY <2>1, <2>3, <2>4 DEF Unvisited
    <3> QED BY <2>2, <3>1 DEF ServiceSeesMore
  <2>5. Meets(x, y) \in MoreSeen(deps, e) /\ y \in MoreSeen(deps, e)
    BY <2>1, <2>3, ServiceUpdates DEF ServiceSearchOf, MoreSeen
  <2>6. Looks(deps, v)[<<x, y>>] \in MoreSeen(deps, e)
    <3>1. CASE y.found
      BY <2>1, <2>3, <2>5, <3>1, LookCases
    <3>2. CASE ~y.found /\ x \notin y.visited
      <4>1. PICK u : u = v[<<x, y>>] /\ u \in MoreSeen(deps, y)
        BY <2>4, <3>2
      <4>2. u \in MoreSeen(deps, e)
        BY <2>1, <4>1 DEF MoreSeen
      <4> QED BY <2>1, <2>3, <3>2, <4>1, <4>2, LookCases
    <3>3. CASE ~y.found /\ x \in y.visited
      BY <2>1, <2>3, <2>5, <3>3, LookCases
    <3> QED BY <3>1, <3>2, <3>3
  <2> QED BY <2>1, <2>2, <2>3, <2>4, <2>6
<1> QED BY <1>1, <1>3, <1>4 DEF MoreSeen

\* A visit sees more, if its calls do.
LEMMA ServiceVisitsSeeMore ==
  ASSUME NEW deps, IsGraph(deps), NEW n \in DOMAIN deps, NEW s \in ServiceSearches(deps), n \notin s.visited,
         NEW v, ServiceSeesMore(deps, v, Unseen(deps, s))
  PROVE  ServiceVisits(deps, v, n, s) \in MoreSeen(deps, s)
<1>1. PICK e \in ServiceSearches(deps) : e = Pushes(n, s) /\ e.visited = s.visited \cup {n}
  BY ServiceUpdates DEF ServiceSearchOf
<1>2. PICK T : T = MoreSeen(deps, e)
  OBVIOUS
<1>3. PICK w : w = Looks(deps, v)
  OBVIOUS
<1>4. IsFiniteSet(deps[n]) /\ e \in T /\ \A x \in deps[n], y \in T : w[<<x, y>>] \in T
  BY <1>1, <1>2, <1>3, LooksSeeMore
<1>5. PICK I : I = (SUBSET deps[n]) \X T
  OBVIOUS
<1>6. /\ <<{}, e>> \in I
      /\ \A W \in SUBSET deps[n], x \in deps[n], y \in T :
           x \notin W /\ <<W, y>> \in I => <<W \cup {x}, w[<<x, y>>]>> \in I
  BY <1>4, <1>5
<1>7. PICK r \in T : r = ForEach(w, e, deps[n])
  BY <1>4, <1>6, ForEachKeeps
<1>8. r \in ServiceSearches(deps) /\ s.visited \subseteq r.visited
  BY <1>1, <1>2 DEF MoreSeen
<1>9. r \in MoreSeen(deps, s) /\ Pops(n, r) \in MoreSeen(deps, s)
  BY <1>8, ServiceUpdates DEF MoreSeen, ServiceSearchOf
<1> QED BY <1>1, <1>3, <1>7, <1>9, ServiceCases

\* Calls that are the same where more has been seen make the same visit.
LEMMA ServiceVisitsSame ==
  ASSUME NEW deps, IsGraph(deps), NEW n \in DOMAIN deps, NEW s \in ServiceSearches(deps), n \notin s.visited,
         NEW v, NEW z, ServiceSeesMore(deps, v, Unseen(deps, s)), ServiceSeesMore(deps, z, Unseen(deps, s)),
         \A c \in Unvisited(deps) : Unseen(deps, c[2]) < Unseen(deps, s) => v[c] = z[c]
  PROVE  ServiceVisits(deps, v, n, s) = ServiceVisits(deps, z, n, s)
<1>1. PICK e : e = Pushes(n, s)
  OBVIOUS
<1>2. PICK T : T = MoreSeen(deps, e)
  OBVIOUS
<1>3. PICK w : w = Looks(deps, v)
  OBVIOUS
<1>4. PICK u : u = Looks(deps, z)
  OBVIOUS
<1>5. IsFiniteSet(deps[n]) /\ e \in T /\ \A x \in deps[n], y \in T : w[<<x, y>>] \in T
  BY <1>1, <1>2, <1>3, LooksSeeMore
<1>6. \A x \in deps[n], y \in T : u[<<x, y>>] \in T
  BY <1>1, <1>2, <1>4, LooksSeeMore
<1>7. ASSUME NEW x \in deps[n], NEW y \in T PROVE w[<<x, y>>] = u[<<x, y>>]
  <2>1. /\ x \in DOMAIN deps /\ y \in ServiceSearches(deps) /\ Unseen(deps, y) < Unseen(deps, s)
        /\ x \notin y.visited => <<x, y>> \in Unvisited(deps)
    BY <1>1, <1>2, LooksSeeMore
  <2>2. x \notin y.visited => v[<<x, y>>] = z[<<x, y>>]
    BY <2>1
  <2> QED BY <1>3, <1>4, <2>1, <2>2, LookCases
<1>8. ForEach(w, e, deps[n]) = ForEach(u, e, deps[n])
  BY <1>5, <1>6, <1>7, ForEachSame
<1> QED BY <1>1, <1>3, <1>4, <1>8, ServiceCases

\* The calls of a search: each visits.
Searching(v, deps) == v = [c \in Unvisited(deps) |-> ServiceVisits(deps, v, c[1], c[2])]
\* There are such calls.
LEMMA SearchExists ==
  ASSUME NEW deps, IsGraph(deps)
  PROVE  \E v : Searching(v, deps)
<1>1. PICK X : X = Unvisited(deps)
  OBVIOUS
<1>2. PICK T : T = ServiceSearches(deps)
  OBVIOUS
<1>3. PICK P : P = [c \in X |-> MoreSeen(deps, c[2])]
  OBVIOUS
<1>4. PICK r : r = [c \in X |-> Unseen(deps, c[2])]
  OBVIOUS
<1>5. PICK N \in Nat : N = Cardinality(DOMAIN deps)
  BY FS_CardinalityType DEF IsGraph
<1>6. PICK C : C = Candidates(X, T, P)
  OBVIOUS
<1>7. PICK B : B = [z \in X \X C |-> ServiceVisits(deps, z[2], z[1][1], z[1][2])]
  OBVIOUS
<1>8. \A c \in X : c[1] \in DOMAIN deps /\ c[2] \in ServiceSearches(deps) /\ c[1] \notin c[2].visited
  BY <1>1 DEF Unvisited
<1>9. \A c \in X, t \in C : B[<<c, t>>] = ServiceVisits(deps, t, c[1], c[2])
  BY <1>7
<1>10. ASSUME NEW t \in C, NEW k PROVE ServiceSeesMore(deps, t, k)
  BY <1>1, <1>3, <1>6 DEF ServiceSeesMore, Candidates
<1>11. Describes(B, X, T, P, r, N)
  <2>1. \A c \in X : r[c] \in 0..N
    <3>1. ASSUME NEW c \in X PROVE Unseen(deps, c[2]) \in 0..N
      BY <1>5, FewerLeft DEF Unseen, IsGraph
    <3> QED BY <1>4, <3>1
  <2>2. \A c \in X : P[c] \subseteq T /\ P[c] # {}
    BY <1>2, <1>3, <1>8 DEF MoreSeen
  <2>3. \A c \in X, t \in C : B[<<c, t>>] \in P[c]
    BY <1>3, <1>8, <1>9, <1>10, ServiceVisitsSeeMore
  <2>4. ASSUME NEW c \in X, NEW t \in C, NEW u \in C, \A y \in X : r[y] < r[c] => t[y] = u[y]
        PROVE  B[<<c, t>>] = B[<<c, u>>]
    <3>1. \A y \in Unvisited(deps) : Unseen(deps, y[2]) < Unseen(deps, c[2]) => t[y] = u[y]
      BY <1>1, <1>4, <2>4
    <3>2. ServiceVisits(deps, t, c[1], c[2]) = ServiceVisits(deps, u, c[1], c[2])
      BY <1>8, <1>10, <3>1, ServiceVisitsSame
    <3> QED BY <1>9, <3>2
  <2> QED BY <1>6, <2>1, <2>2, <2>3, <2>4 DEF Describes
<1>12. PICK v \in C : \A c \in X : v[c] = B[<<c, v>>]
  <2>1. \E t \in Candidates(X, T, P) : Solves(t, X, B)
    BY <1>11, RecursionExists
  <2> QED BY <1>6, <2>1 DEF Solves
<1>13. \A c \in X : v[c] = ServiceVisits(deps, v, c[1], c[2])
  BY <1>9, <1>12
<1>14. v = [c \in X |-> v[c]]
  BY <1>6 DEF Candidates
<1> QED BY <1>1, <1>13, <1>14 DEF Searching

\* And they see more, each of them.
LEMMA SearchSees ==
  ASSUME NEW deps, IsGraph(deps), NEW v, Searching(v, deps)
  PROVE  \A c \in Unvisited(deps) : /\ v[c] = ServiceVisits(deps, v, c[1], c[2])
                                    /\ v[c] \in MoreSeen(deps, c[2])
<1>1. PICK X : X = Unvisited(deps)
  OBVIOUS
<1>2. PICK r : r = [c \in X |-> Unseen(deps, c[2])]
  OBVIOUS
<1>3. PICK G : G = {c \in X : v[c] \in MoreSeen(deps, c[2])}
  OBVIOUS
<1>4. \A c \in X : v[c] = ServiceVisits(deps, v, c[1], c[2])
  BY <1>1 DEF Searching
<1>5. \A c \in X : r[c] \in Nat
  <2>1. ASSUME NEW c \in X PROVE Unseen(deps, c[2]) \in Nat
    BY FewerLeft DEF Unseen, IsGraph
  <2> QED BY <1>2, <2>1
<1>6. ASSUME NEW c \in X, \A y \in X : r[y] < r[c] => y \in G PROVE c \in G
  <2>1. c[1] \in DOMAIN deps /\ c[2] \in ServiceSearches(deps) /\ c[1] \notin c[2].visited
    BY <1>1 DEF Unvisited
  <2>2. ServiceSeesMore(deps, v, Unseen(deps, c[2]))
    BY <1>1, <1>2, <1>3, <1>6 DEF ServiceSeesMore
  <2>3. ServiceVisits(deps, v, c[1], c[2]) \in MoreSeen(deps, c[2])
    BY <2>1, <2>2, ServiceVisitsSeeMore
  <2> QED BY <1>3, <1>4, <2>3
<1>7. X \subseteq G
  BY <1>5, <1>6, RankInduction
<1> QED BY <1>1, <1>3, <1>4, <1>7

\* Nodes in a cycle, if there are any.
HasCyclic(deps) == \E N \in SUBSET DOMAIN deps : Cyclic(deps, N)
\* Each node on the stack leads to another, or to the one that is looked at.
Stacked(deps, s, n) == \A m \in s.stack : deps[m] \cap (s.stack \cup {n}) # {}
Gone(s) == s.visited \ s.stack
ServiceSane(deps, s) ==
  /\ s \in ServiceSearches(deps) /\ s.stack \subseteq s.visited
  /\ IF s.found THEN HasCyclic(deps) ELSE Settled(deps, Gone(s))
\* What a visit comes to.
ServiceEnds(deps, n, s, t) ==
  /\ ServiceSane(deps, t)
  /\ ~t.found => /\ ~s.found /\ t.stack = s.stack /\ s.visited \subseteq t.visited
                 /\ n \in Gone(t)
\* What the calls come to that have seen more.
ServiceEndsWell(deps, v, k) ==
  \A c \in Unvisited(deps) :
    Unseen(deps, c[2]) < k /\ ServiceSane(deps, c[2]) /\ Stacked(deps, c[2], c[1]) /\ ~c[2].found =>
      ServiceEnds(deps, c[1], c[2], v[c])
\* What a search has come to after it looked at some of the nodes that the last one depends on.
LookedAt(deps, S, W, y) ==
  ServiceSane(deps, y) /\ (~y.found => y.stack = S /\ W \subseteq Gone(y))

\* A look at a node another depends on.
LEMMA LookEnds ==
  ASSUME NEW deps, NEW x \in DOMAIN deps, NEW y, ServiceSane(deps, y), ~y.found => Stacked(deps, y, x),
         NEW v, x \notin y.visited /\ ~y.found => ServiceEnds(deps, x, y, v[<<x, y>>])
  PROVE  ServiceEnds(deps, x, y, Looks(deps, v)[<<x, y>>]) \/ (y.found /\ Looks(deps, v)[<<x, y>>] = y)
<1>1. y \in ServiceSearches(deps)
  BY DEF ServiceSane
<1>2. CASE y.found
  BY <1>1, <1>2, LookCases
<1>3. CASE ~y.found /\ x \notin y.visited
  BY <1>1, <1>3, LookCases
<1>4. CASE ~y.found /\ x \in y.visited
  <2>1. PICK t : t = Meets(x, y) /\ ServiceSearchOf(deps, t, y.visited, y.stack, x \in y.stack)
    BY <1>1, ServiceUpdates
  <2>2. t \in ServiceSearches(deps) /\ t.visited = y.visited /\ t.stack = y.stack /\ (t.found <=> x \in y.stack)
    BY <2>1 DEF ServiceSearchOf
  <2>3. CASE x \in y.stack
    <3>1. y.stack \cup {x} = y.stack /\ y.stack # {} /\ y.stack \in SUBSET DOMAIN deps
      BY <1>1, <2>3 DEF ServiceSearches
    <3>2. Cyclic(deps, y.stack)
      BY <1>4, <3>1 DEF Stacked, Cyclic
    <3>3. HasCyclic(deps)
      BY <3>1, <3>2 DEF HasCyclic
    <3> QED BY <1>1, <1>4, <2>1, <2>2, <2>3, <3>3, LookCases DEF ServiceEnds, ServiceSane
  <2>4. CASE x \notin y.stack
    <3>1. Gone(t) = Gone(y) /\ x \in Gone(t)
      BY <1>4, <2>2, <2>4 DEF Gone
    <3>2. ServiceSane(deps, t)
      BY <1>4, <2>2, <2>4, <3>1 DEF ServiceSane
    <3> QED BY <1>1, <1>4, <2>1, <2>2, <3>1, <3>2, LookCases DEF ServiceEnds
  <2> QED BY <2>3, <2>4
<1> QED BY <1>2, <1>3, <1>4

\* A visit ends well, if its calls do.
LEMMA ServiceVisitEndsWell ==
  ASSUME NEW deps, IsGraph(deps), NEW n \in DOMAIN deps, NEW s, ServiceSane(deps, s), n \notin s.visited,
         Stacked(deps, s, n), ~s.found,
         NEW v, ServiceSeesMore(deps, v, Unseen(deps, s)), ServiceEndsWell(deps, v, Unseen(deps, s))
  PROVE  ServiceEnds(deps, n, s, ServiceVisits(deps, v, n, s))
<1>1. PICK e : /\ e = Pushes(n, s) /\ e \in ServiceSearches(deps) /\ e.visited = s.visited \cup {n}
               /\ e.stack = s.stack \cup {n} /\ ~e.found
  BY ServiceUpdates DEF ServiceSearchOf, ServiceSane
<1>2. n \notin s.stack /\ Gone(e) = Gone(s)
  BY <1>1 DEF ServiceSane, Gone
<1>3. ServiceSane(deps, e)
  BY <1>1, <1>2 DEF ServiceSane
<1>4. ASSUME NEW x \in deps[n], NEW y, y.stack = e.stack PROVE Stacked(deps, y, x)
  BY <1>1, <1>4 DEF Stacked
<1>5. PICK T : T = MoreSeen(deps, e)
  OBVIOUS
<1>6. PICK w : w = Looks(deps, v)
  OBVIOUS
<1>7. /\ IsFiniteSet(deps[n]) /\ e \in T
      /\ \A x \in deps[n], y \in T :
           /\ x \in DOMAIN deps /\ Unseen(deps, y) < Unseen(deps, s)
           /\ x \notin y.visited => <<x, y>> \in Unvisited(deps)
           /\ w[<<x, y>>] \in T
  BY <1>1, <1>5, <1>6, LooksSeeMore DEF ServiceSane
<1>8. PICK I : I = {z \in (SUBSET deps[n]) \X T : LookedAt(deps, e.stack, z[1], z[2])}
  OBVIOUS
<1>9. <<{}, e>> \in I
  BY <1>3, <1>7, <1>8 DEF LookedAt
<1>10. ASSUME NEW W \in SUBSET deps[n], NEW x \in deps[n], NEW y \in T, <<W, y>> \in I
       PROVE  <<W \cup {x}, w[<<x, y>>]>> \in I
  <2>1. ServiceSane(deps, y) /\ (~y.found => y.stack = e.stack /\ W \subseteq Gone(y))
    BY <1>8, <1>10 DEF LookedAt
  <2>2. PICK t : t = w[<<x, y>>] /\ t \in T
    BY <1>7
  <2>3. ~y.found => Stacked(deps, y, x)
    BY <1>4, <2>1
  <2>4. ASSUME x \notin y.visited, ~y.found PROVE ServiceEnds(deps, x, y, v[<<x, y>>])
    <3>1. <<x, y>> \in Unvisited(deps) /\ Unseen(deps, y) < Unseen(deps, s)
      BY <1>7, <2>4
    <3> QED BY <2>1, <2>3, <2>4, <3>1 DEF ServiceEndsWell
  <2>5. ServiceEnds(deps, x, y, t) \/ (y.found /\ t = y)
    BY <1>6, <1>7, <2>1, <2>2, <2>3, <2>4, LookEnds
  <2>6. CASE y.found /\ t = y
    <3>1. LookedAt(deps, e.stack, W \cup {x}, t)
      BY <2>1, <2>6 DEF LookedAt
    <3> QED BY <1>8, <2>2, <3>1
  <2>7. CASE ServiceEnds(deps, x, y, t)
    <3>1. ASSUME ~t.found PROVE t.stack = e.stack /\ W \cup {x} \subseteq Gone(t)
      <4>1. ~y.found /\ t.stack = y.stack /\ y.visited \subseteq t.visited /\ x \in Gone(t)
        BY <2>7, <3>1 DEF ServiceEnds
      <4>2. Gone(y) \subseteq Gone(t)
        BY <4>1 DEF Gone
      <4> QED BY <2>1, <4>1, <4>2
    <3>2. LookedAt(deps, e.stack, W \cup {x}, t)
      BY <2>7, <3>1 DEF LookedAt, ServiceEnds
    <3> QED BY <1>8, <2>2, <3>2
  <2> QED BY <2>5, <2>6, <2>7
<1>11. PICK r : r = ForEach(w, e, deps[n]) /\ r \in T /\ <<deps[n], r>> \in I
  <2>1. \A x \in deps[n], y \in T : w[<<x, y>>] \in T
    BY <1>7
  <2>2. ForEach(w, e, deps[n]) \in T /\ <<deps[n], ForEach(w, e, deps[n])>> \in I
    BY <1>7, <1>9, <1>10, <2>1, ForEachKeeps
  <2> QED BY <2>2
<1>12. ServiceSane(deps, r) /\ (~r.found => r.stack = e.stack /\ deps[n] \subseteq Gone(r)) /\ e.visited \subseteq r.visited
  BY <1>5, <1>8, <1>11 DEF LookedAt, MoreSeen
<1>13. CASE r.found
  <2>1. ServiceVisits(deps, v, n, s) = r
    BY <1>1, <1>6, <1>11, <1>13, ServiceCases
  <2> QED BY <1>12, <1>13, <2>1 DEF ServiceEnds
<1>14. CASE ~r.found
  <2>1. PICK t : /\ t = Pops(n, r) /\ t \in ServiceSearches(deps) /\ t.visited = r.visited
                 /\ t.stack = r.stack \ {n} /\ ~t.found
    BY <1>12, <1>14, ServiceUpdates DEF ServiceSearchOf, ServiceSane
  <2>2. ServiceVisits(deps, v, n, s) = t
    BY <1>1, <1>6, <1>11, <1>14, <2>1, ServiceCases
  <2>3. t.stack = s.stack /\ s.visited \subseteq t.visited /\ n \in t.visited
    BY <1>1, <1>2, <1>12, <1>14, <2>1
  <2>4. Gone(t) = Gone(r) \cup {n}
    BY <1>1, <1>2, <1>12, <1>14, <2>1, <2>3 DEF Gone
  <2>5. Settled(deps, Gone(r)) /\ deps[n] \subseteq Gone(r)
    BY <1>12, <1>14 DEF ServiceSane
  <2>6. Settled(deps, Gone(t))
    BY <2>4, <2>5, OneMoreSettled
  <2>7. t.stack \subseteq t.visited
    BY <2>3 DEF ServiceSane
  <2>8. ServiceSane(deps, t)
    BY <2>1, <2>6, <2>7 DEF ServiceSane
  <2> QED BY <2>1, <2>2, <2>3, <2>4, <2>8 DEF ServiceEnds
<1> QED BY <1>13, <1>14

\* Every visit ends well.
LEMMA ServiceVisitsEnd ==
  ASSUME NEW deps, IsGraph(deps), NEW v, Searching(v, deps), NEW k
  PROVE  ServiceEndsWell(deps, v, k)
<1>1. PICK X : X = Unvisited(deps)
  OBVIOUS
<1>2. PICK r : r = [c \in X |-> Unseen(deps, c[2])]
  OBVIOUS
<1>3. PICK G : G = {c \in X : ServiceSane(deps, c[2]) /\ Stacked(deps, c[2], c[1]) /\ ~c[2].found =>
                                ServiceEnds(deps, c[1], c[2], v[c])}
  OBVIOUS
<1>4. \A c \in X : v[c] = ServiceVisits(deps, v, c[1], c[2]) /\ v[c] \in MoreSeen(deps, c[2])
  BY <1>1, SearchSees
<1>5. \A c \in X : r[c] \in Nat
  <2>1. ASSUME NEW c \in X PROVE Unseen(deps, c[2]) \in Nat
    BY FewerLeft DEF Unseen, IsGraph
  <2> QED BY <1>2, <2>1
<1>6. ASSUME NEW c \in X, \A y \in X : r[y] < r[c] => y \in G PROVE c \in G
  <2>1. c[1] \in DOMAIN deps /\ c[1] \notin c[2].visited
    BY <1>1 DEF Unvisited
  <2>2. ServiceSeesMore(deps, v, Unseen(deps, c[2]))
    BY <1>1, <1>4 DEF ServiceSeesMore
  <2>3. ServiceEndsWell(deps, v, Unseen(deps, c[2]))
    BY <1>1, <1>2, <1>3, <1>6 DEF ServiceEndsWell
  <2>4. ServiceSane(deps, c[2]) /\ Stacked(deps, c[2], c[1]) /\ ~c[2].found => ServiceEnds(deps, c[1], c[2], v[c])
    BY <1>4, <2>1, <2>2, <2>3, ServiceVisitEndsWell
  <2> QED BY <1>3, <2>4
<1>7. X \subseteq G
  BY <1>5, <1>6, RankInduction
<1> QED BY <1>1, <1>3, <1>7 DEF ServiceEndsWell

\* The service starts a search at each node that was not visited.
Starting(deps, v) ==
  [c \in (DOMAIN deps) \X ServiceSearches(deps) |->
     IF c[2].found \/ c[1] \in c[2].visited THEN c[2] ELSE v[c]]
NoneVisited == [visited |-> {}, stack |-> {}, found |-> FALSE]
LEMMA ServiceFinds ==
  ASSUME NEW deps, IsGraph(deps)
  PROVE  \E v : /\ Searching(v, deps)
                /\ ServiceFindsCycle(deps) = ForEach(Starting(deps, v), NoneVisited, DOMAIN deps).found
<1> DEFINE Made(v) == Searching(v, deps)
<1>1. Made(CHOOSE v : Made(v))
  BY SearchExists
<1>2. ServiceFindsCycle(deps) = ForEach(Starting(deps, CHOOSE v : Made(v)), NoneVisited, DOMAIN deps).found
  BY DEF ServiceFindsCycle, Searching, NoneVisited, Starting
<1> QED BY <1>1, <1>2

\* The service's search finds a cycle if there is one, and only then.
LEMMA ServiceFindsOne ==
  ASSUME NEW deps, IsGraph(deps)
  PROVE  ServiceFindsCycle(deps) <=> HasCyclic(deps)
<1>1. PICK v : Searching(v, deps) /\ ServiceFindsCycle(deps) = ForEach(Starting(deps, v), NoneVisited, DOMAIN deps).found
  BY ServiceFinds
<1>2. PICK D : D = DOMAIN deps /\ IsFiniteSet(D)
  BY DEF IsGraph
<1>3. PICK T : T = ServiceSearches(deps)
  OBVIOUS
<1>4. PICK b : b = NoneVisited /\ b \in T /\ b.visited = {} /\ b.stack = {} /\ ~b.found
  <2>1. NoneVisited \in T
    BY <1>3 DEF NoneVisited, ServiceSearches
  <2>2. NoneVisited.visited = {} /\ NoneVisited.stack = {} /\ ~NoneVisited.found
    BY DEF NoneVisited
  <2> QED BY <2>1, <2>2
<1>5. ServiceSane(deps, b)
  <2>1. Gone(b) = {} /\ ~Cyclic(deps, {})
    BY <1>4 DEF Gone, Cyclic
  <2>2. Settled(deps, {})
    BY <2>1 DEF Settled
  <2> QED BY <1>3, <1>4, <2>1, <2>2 DEF ServiceSane
<1>6. PICK w : w = Starting(deps, v)
  OBVIOUS
<1>7. ASSUME NEW x \in D, NEW y \in T
      PROVE  w[<<x, y>>] = IF y.found \/ x \in y.visited THEN y ELSE v[<<x, y>>]
  <2>1. PICK c : c = <<x, y>>
    OBVIOUS
  <2>2. c \in (DOMAIN deps) \X ServiceSearches(deps) /\ c[1] = x /\ c[2] = y
    BY <1>2, <1>3, <2>1
  <2> QED BY <1>6, <2>1, <2>2 DEF Starting
<1>8. ASSUME NEW x \in D, NEW y \in T PROVE w[<<x, y>>] \in T
  <2>1. x \notin y.visited => <<x, y>> \in Unvisited(deps)
    BY <1>2, <1>3 DEF Unvisited
  <2>2. x \notin y.visited => v[<<x, y>>] \in T
    BY <1>1, <1>3, <2>1, SearchSees DEF MoreSeen
  <2> QED BY <1>7, <2>2
<1>9. PICK I : I = {z \in (SUBSET D) \X T : LookedAt(deps, {}, z[1], z[2])}
  OBVIOUS
<1>10. <<{}, b>> \in I
  BY <1>4, <1>5, <1>9 DEF LookedAt
<1>11. ASSUME NEW W \in SUBSET D, NEW x \in D, NEW y \in T, <<W, y>> \in I
       PROVE  <<W \cup {x}, w[<<x, y>>]>> \in I
  <2>1. ServiceSane(deps, y) /\ (~y.found => y.stack = {} /\ W \subseteq Gone(y))
    BY <1>9, <1>11 DEF LookedAt
  <2>2. PICK t : t = w[<<x, y>>] /\ t \in T
    BY <1>8
  <2>3. CASE y.found \/ x \in y.visited
    <3>1. t = y
      BY <1>7, <2>2, <2>3
    <3>2. ~y.found => x \in Gone(y)
      BY <2>1, <2>3 DEF Gone
    <3>3. LookedAt(deps, {}, W \cup {x}, t)
      BY <2>1, <3>1, <3>2 DEF LookedAt
    <3> QED BY <1>9, <2>2, <3>3
  <2>4. CASE ~y.found /\ x \notin y.visited
    <3>1. t = v[<<x, y>>]
      BY <1>7, <2>2, <2>4
    <3>2. <<x, y>> \in Unvisited(deps) /\ Stacked(deps, y, x)
      BY <1>2, <1>3, <2>1, <2>4 DEF Unvisited, Stacked
    <3>3. ServiceEnds(deps, x, y, t)
      <4>1. PICK k \in Nat : k = Unseen(deps, y)
        BY FewerLeft DEF Unseen, IsGraph
      <4>2. ServiceEndsWell(deps, v, k + 1)
        BY <1>1, ServiceVisitsEnd
      <4>3. Unseen(deps, y) < k + 1
        BY <4>1
      <4> QED BY <2>1, <2>4, <3>1, <3>2, <4>2, <4>3 DEF ServiceEndsWell
    <3>4. ASSUME ~t.found PROVE t.stack = {} /\ W \cup {x} \subseteq Gone(t)
      <4>1. t.stack = y.stack /\ y.visited \subseteq t.visited /\ x \in Gone(t)
        BY <3>3, <3>4 DEF ServiceEnds
      <4>2. Gone(y) \subseteq Gone(t)
        BY <4>1 DEF Gone
      <4> QED BY <2>1, <2>4, <4>1, <4>2
    <3>5. LookedAt(deps, {}, W \cup {x}, t)
      BY <3>3, <3>4 DEF LookedAt, ServiceEnds
    <3> QED BY <1>9, <2>2, <3>5
  <2> QED BY <2>3, <2>4
<1>12. PICK r : r = ForEach(w, b, D) /\ <<D, r>> \in I
  <2>1. IsFiniteSet(D) /\ b \in T
    BY <1>2, <1>4
  <2>2. ForEach(w, b, D) \in T /\ <<D, ForEach(w, b, D)>> \in I
    BY <1>8, <1>10, <1>11, <2>1, ForEachKeeps
  <2> QED BY <2>2
<1>13. ServiceFindsCycle(deps) = r.found
  BY <1>1, <1>2, <1>4, <1>6, <1>12
<1>14. ServiceSane(deps, r) /\ (~r.found => D \subseteq Gone(r))
  BY <1>9, <1>12 DEF LookedAt
<1>15. r.found => HasCyclic(deps)
  BY <1>14 DEF ServiceSane
<1>16. ~r.found => ~HasCyclic(deps)
  BY <1>2, <1>14 DEF ServiceSane, Settled, HasCyclic
<1> QED BY <1>13, <1>15, <1>16
-------------------------------------------------------------------------------
(* The topological order *)

\* The nodes whose dependencies are done, and the least of them.
Queue(deps, done) == {n \in DOMAIN deps \ done : AllGone(done, deps[n])}
NextOf(deps, done) == CHOOSE n \in Queue(deps, done) : \A m \in Queue(deps, done) : n <= m
OrderFrom(deps, done, o) ==
  IF Queue(deps, done) = {} THEN <<>> ELSE <<NextOf(deps, done)>> \o o[done \cup {NextOf(deps, done)}]
Ordering(o, deps) == o = [done \in SUBSET DOMAIN deps |-> OrderFrom(deps, done, o)]

\* The next node is a node of the queue.
LEMMA NextIsQueued ==
  ASSUME NEW deps, IsGraph(deps), DOMAIN deps \subseteq Nat, NEW done \in SUBSET DOMAIN deps,
         Queue(deps, done) # {}
  PROVE  /\ NextOf(deps, done) \in DOMAIN deps /\ NextOf(deps, done) \notin done
         /\ deps[NextOf(deps, done)] \subseteq done
         /\ done \cup {NextOf(deps, done)} \in SUBSET DOMAIN deps
         /\ Cardinality((DOMAIN deps) \ (done \cup {NextOf(deps, done)})) < Cardinality((DOMAIN deps) \ done)
<1>1. PICK Q : Q = Queue(deps, done) /\ Q \subseteq Nat
  BY DEF Queue
<1>2. \E n \in Q : \A m \in Q : n <= m
  BY <1>1, LeastNumber
<1>3. PICK x : x = NextOf(deps, done) /\ x \in Q
  BY <1>1, <1>2 DEF NextOf
<1>4. x \in DOMAIN deps /\ x \notin done /\ deps[x] \subseteq done
  BY <1>1, <1>3 DEF Queue, AllGone
<1>5. Cardinality((DOMAIN deps) \ (done \cup {x})) < Cardinality((DOMAIN deps) \ done)
  <2>1. PICK V : V = done \cup {x}
    OBVIOUS
  <2>2. done \subseteq V /\ x \in V
    BY <2>1
  <2> QED BY <1>4, <2>1, <2>2, FewerLeft DEF IsGraph
<1> QED BY <1>3, <1>4, <1>5

\* There is such an order.
LEMMA OrderExists ==
  ASSUME NEW deps, IsGraph(deps), DOMAIN deps \subseteq Nat
  PROVE  \E o \in [SUBSET DOMAIN deps -> Seq(DOMAIN deps)] : Ordering(o, deps)
<1>1. PICK X : X = SUBSET DOMAIN deps
  OBVIOUS
<1>2. PICK T : T = Seq(DOMAIN deps)
  OBVIOUS
<1>3. PICK P : P = [d \in X |-> T]
  OBVIOUS
<1>4. PICK r : r = [d \in X |-> Cardinality((DOMAIN deps) \ d)]
  OBVIOUS
<1>5. PICK N \in Nat : N = Cardinality(DOMAIN deps)
  BY FS_CardinalityType DEF IsGraph
<1>6. PICK C : C = Candidates(X, T, P) /\ \A t \in C : t \in [X -> T]
  BY DEF Candidates
<1>7. PICK B : B = [z \in X \X C |-> OrderFrom(deps, z[1], z[2])]
  OBVIOUS
<1>8. \A d \in X, t \in C : B[<<d, t>>] = OrderFrom(deps, d, t)
  BY <1>7
<1>9. <<>> \in T
  BY <1>2, EmptySeq
<1>10. \A d \in X : r[d] \in 0..N
  <2>1. ASSUME NEW d \in X PROVE Cardinality((DOMAIN deps) \ d) \in 0..N
    BY <1>5, FewerLeft DEF IsGraph
  <2> QED BY <1>4, <2>1
<1>11. ASSUME NEW d \in X, NEW t \in C PROVE OrderFrom(deps, d, t) \in T
  <2>1. CASE Queue(deps, d) = {}
    BY <1>9, <2>1 DEF OrderFrom
  <2>2. CASE Queue(deps, d) # {}
    <3>1. PICK x \in DOMAIN deps : x = NextOf(deps, d) /\ d \cup {x} \in X
      BY <1>1, <2>2, NextIsQueued
    <3>2. PICK q \in T : q = t[d \cup {x}]
      BY <1>6, <3>1
    <3>3. <<x>> \in T /\ <<x>> \o q \in T
      BY <1>2, <3>1, <3>2, ConcatProperties
    <3> QED BY <2>2, <3>1, <3>2, <3>3 DEF OrderFrom
  <2> QED BY <2>1, <2>2
<1>12. ASSUME NEW d \in X, NEW t \in C, NEW u \in C, \A y \in X : r[y] < r[d] => t[y] = u[y]
       PROVE  OrderFrom(deps, d, t) = OrderFrom(deps, d, u)
  <2>1. CASE Queue(deps, d) = {}
    BY <2>1 DEF OrderFrom
  <2>2. CASE Queue(deps, d) # {}
    <3>1. PICK w \in X : /\ w = d \cup {NextOf(deps, d)}
                         /\ Cardinality((DOMAIN deps) \ w) < Cardinality((DOMAIN deps) \ d)
      BY <1>1, <2>2, NextIsQueued
    <3>2. r[w] < r[d]
      BY <1>4, <3>1
    <3>3. t[w] = u[w]
      BY <1>12, <3>2
    <3> QED BY <3>1, <3>3 DEF OrderFrom
  <2> QED BY <2>1, <2>2
<1>13. Describes(B, X, T, P, r, N)
  <2>1. \A d \in X : P[d] \subseteq T /\ P[d] # {}
    BY <1>3, <1>9
  <2>2. \A d \in X, t \in C : B[<<d, t>>] \in P[d]
    BY <1>3, <1>8, <1>11
  <2>3. \A d \in X, t \in C, u \in C : (\A y \in X : r[y] < r[d] => t[y] = u[y]) => B[<<d, t>>] = B[<<d, u>>]
    BY <1>8, <1>12
  <2> QED BY <1>6, <1>10, <2>1, <2>2, <2>3 DEF Describes
<1>14. PICK o \in C : \A d \in X : o[d] = B[<<d, o>>]
  <2>1. \E t \in Candidates(X, T, P) : Solves(t, X, B)
    BY <1>13, RecursionExists
  <2> QED BY <1>6, <2>1 DEF Solves
<1>15. o \in [X -> T] /\ \A d \in X : o[d] = OrderFrom(deps, d, o)
  BY <1>6, <1>8, <1>14
<1> QED BY <1>1, <1>2, <1>15 DEF Ordering

\* The order is the one that starts with nothing done.
LEMMA OrderIsMade ==
  ASSUME NEW deps, IsGraph(deps), DOMAIN deps \subseteq Nat
  PROVE  \E o : Ordering(o, deps) /\ topological_sort(deps) = o[{}]
<1> DEFINE Made(o) == Ordering(o, deps)
<1>1. Made(CHOOSE o : Made(o))
  BY OrderExists
<1>2. topological_sort(deps) = (CHOOSE o : Made(o))[{}]
  BY DEF topological_sort, Ordering, OrderFrom, Queue, NextOf
<1> QED BY <1>1, <1>2

\* The elements of a sequence.
Members(q) == {q[i] : i \in DOMAIN q}
\* What comes before a place of a sequence.
Earlier(q, i) == {q[j] : j \in 1..(i - 1)}
\* A sequence with an element in front.
LEMMA InFront ==
  ASSUME NEW S, NEW x \in S, NEW q \in Seq(S), NEW l \in Nat, l = Len(q)
  PROVE  /\ <<x>> \o q \in Seq(S) /\ DOMAIN (<<x>> \o q) = 1..(l + 1)
         /\ (<<x>> \o q)[1] = x /\ \A i \in 1..l : (<<x>> \o q)[i + 1] = q[i]
         /\ \A i \in 1..(l + 1) : i = 1 \/ \E k \in 1..l : i = k + 1
         /\ Earlier(<<x>> \o q, 1) = {}
         /\ \A k \in 1..l : Earlier(<<x>> \o q, k + 1) = {x} \cup Earlier(q, k)
         /\ Members(<<x>> \o q) = {x} \cup Members(q)
<1>1. PICK w : w = <<x>> \o q
  OBVIOUS
<1>2. w \in Seq(S)
  BY <1>1, ConcatProperties
<1>3. DOMAIN q = 1..l
  BY LenProperties
<1>4. DOMAIN w = 1..(l + 1) /\ w[1] = x /\ \A i \in 1..l : w[i + 1] = q[i]
  <2>1. <<x>> \in Seq(S) /\ Len(<<x>>) = 1 /\ <<x>>[1] = x
    OBVIOUS
  <2>2. /\ Len(w) = 1 + l
        /\ \A i \in 1..(1 + l) : w[i] = IF i <= 1 THEN <<x>>[i] ELSE q[i - 1]
    BY <1>1, <2>1, ConcatProperties
  <2>3. DOMAIN w = 1..(l + 1)
    BY <1>2, <2>2, LenProperties
  <2>4. w[1] = x
    BY <2>1, <2>2
  <2>5. ASSUME NEW i \in 1..l PROVE w[i + 1] = q[i]
    <3>1. i + 1 \in 1..(1 + l) /\ ~(i + 1 <= 1) /\ (i + 1) - 1 = i
      OBVIOUS
    <3> QED BY <2>2, <3>1
  <2> QED BY <2>3, <2>4, <2>5
<1>5. \A i \in 1..(l + 1) : i = 1 \/ \E k \in 1..l : i = k + 1
  <2>1. ASSUME NEW i \in 1..(l + 1), i # 1 PROVE \E k \in 1..l : i = k + 1
    <3>1. i - 1 \in 1..l /\ i = (i - 1) + 1
      BY <2>1
    <3> QED BY <3>1
  <2> QED BY <2>1
<1>6. ASSUME NEW k \in 1..l PROVE Earlier(w, k + 1) = {x} \cup Earlier(q, k)
  <2>1. (k + 1) - 1 = k /\ 1 \in 1..k
    OBVIOUS
  <2>2. Earlier(w, k + 1) = {w[j] : j \in 1..k}
    BY <2>1 DEF Earlier
  <2>3. Earlier(q, k) = {q[j] : j \in 1..(k - 1)}
    BY DEF Earlier
  <2>4. \A j \in 1..(k - 1) : j \in 1..l /\ j + 1 \in 1..k /\ w[j + 1] = q[j]
    BY <1>4
  <2>5. \A j \in 1..k : j = 1 \/ \E h \in 1..(k - 1) : j = h + 1
    <3>1. ASSUME NEW j \in 1..k, j # 1 PROVE \E h \in 1..(k - 1) : j = h + 1
      <4>1. j - 1 \in 1..(k - 1) /\ j = (j - 1) + 1
        BY <3>1
      <4> QED BY <4>1
    <3> QED BY <3>1
  <2>6. ASSUME NEW j \in 1..k PROVE w[j] \in {x} \cup Earlier(q, k)
    <3>1. CASE j = 1
      BY <1>4, <3>1
    <3>2. CASE j # 1
      <4>1. PICK h \in 1..(k - 1) : j = h + 1
        BY <2>5, <3>2
      <4>2. w[j] = q[h]
        BY <2>4, <4>1
      <4> QED BY <2>3, <4>2
    <3> QED BY <3>1, <3>2
  <2>7. {x} \cup Earlier(q, k) \subseteq Earlier(w, k + 1)
    BY <1>4, <2>1, <2>2, <2>3, <2>4
  <2> QED BY <2>2, <2>6, <2>7
<1>7. Earlier(w, 1) = {}
  BY DEF Earlier
<1>8. Members(w) = {x} \cup Members(q)
  <2>1. 1 \in 1..(l + 1) /\ \A k \in 1..l : k + 1 \in 1..(l + 1)
    OBVIOUS
  <2>2. Members(w) \subseteq {x} \cup Members(q)
    BY <1>3, <1>4, <1>5 DEF Members
  <2>3. {x} \cup Members(q) \subseteq Members(w)
    BY <1>3, <1>4, <2>1 DEF Members
  <2> QED BY <2>2, <2>3
<1> QED BY <1>1, <1>2, <1>4, <1>5, <1>6, <1>7, <1>8

\* Each node once, after its dependencies, as long as there are such nodes.
WellOrdered(deps, done, q) ==
  /\ q \in Seq(DOMAIN deps)
  /\ \A i \in DOMAIN q : deps[q[i]] \subseteq done \cup Earlier(q, i) /\ q[i] \notin done \cup Earlier(q, i)
  /\ Queue(deps, done \cup Members(q)) = {}

\* A node in front of such an order.
LEMMA OrderGrows ==
  ASSUME NEW deps, NEW done, NEW x \in DOMAIN deps, x \notin done, deps[x] \subseteq done,
         NEW q, WellOrdered(deps, done \cup {x}, q)
  PROVE  WellOrdered(deps, done, <<x>> \o q)
<1>1. PICK S : S = DOMAIN deps
  OBVIOUS
<1>2. q \in Seq(S)
  BY <1>1 DEF WellOrdered
<1>3. PICK l \in Nat : l = Len(q) /\ DOMAIN q = 1..l
  BY <1>2, LenProperties
<1>4. PICK w : w = <<x>> \o q
  OBVIOUS
<1>5. /\ w \in Seq(S) /\ DOMAIN w = 1..(l + 1)
      /\ w[1] = x /\ \A i \in 1..l : w[i + 1] = q[i]
      /\ \A i \in 1..(l + 1) : i = 1 \/ \E k \in 1..l : i = k + 1
      /\ Earlier(w, 1) = {}
      /\ \A k \in 1..l : Earlier(w, k + 1) = {x} \cup Earlier(q, k)
      /\ Members(w) = {x} \cup Members(q)
  BY <1>1, <1>2, <1>3, <1>4, InFront
<1>6. ASSUME NEW i \in DOMAIN w
      PROVE  deps[w[i]] \subseteq done \cup Earlier(w, i) /\ w[i] \notin done \cup Earlier(w, i)
  <2>1. CASE i = 1
    BY <1>5, <2>1
  <2>2. CASE i # 1
    <3>1. PICK k \in 1..l : i = k + 1
      BY <1>5, <2>2
    <3>2. /\ deps[q[k]] \subseteq (done \cup {x}) \cup Earlier(q, k)
          /\ q[k] \notin (done \cup {x}) \cup Earlier(q, k)
      BY <1>3 DEF WellOrdered
    <3>3. (done \cup {x}) \cup Earlier(q, k) = done \cup Earlier(w, k + 1)
      BY <1>5
    <3> QED BY <1>5, <3>1, <3>2, <3>3
  <2> QED BY <2>1, <2>2
<1>7. Queue(deps, done \cup Members(w)) = {}
  <2>1. done \cup Members(w) = (done \cup {x}) \cup Members(q)
    BY <1>5
  <2> QED BY <2>1 DEF WellOrdered
<1> QED BY <1>1, <1>4, <1>5, <1>6, <1>7 DEF WellOrdered

\* Every order is as the code's comment says of the algorithm.
LEMMA OrderIsSound ==
  ASSUME NEW deps, IsGraph(deps), DOMAIN deps \subseteq Nat
  PROVE  WellOrdered(deps, {}, topological_sort(deps))
<1>1. PICK o : Ordering(o, deps) /\ topological_sort(deps) = o[{}]
  BY OrderIsMade
<1>2. PICK X : X = SUBSET DOMAIN deps
  OBVIOUS
<1>3. PICK r : r = [d \in X |-> Cardinality((DOMAIN deps) \ d)]
  OBVIOUS
<1>4. PICK G : G = {d \in X : WellOrdered(deps, d, o[d])}
  OBVIOUS
<1>5. \A d \in X : r[d] \in Nat
  <2>1. ASSUME NEW d \in X PROVE Cardinality((DOMAIN deps) \ d) \in Nat
    BY FewerLeft DEF IsGraph
  <2> QED BY <1>3, <2>1
<1>6. \A d \in X : o[d] = OrderFrom(deps, d, o)
  BY <1>1, <1>2 DEF Ordering
<1>7. ASSUME NEW d \in X, \A y \in X : r[y] < r[d] => y \in G PROVE d \in G
  <2>1. CASE Queue(deps, d) = {}
    <3>0. <<>> \in Seq(DOMAIN deps) /\ DOMAIN <<>> = {}
      BY EmptySeq
    <3>1. PICK q : q = <<>> /\ q \in Seq(DOMAIN deps) /\ DOMAIN q = {}
      BY <3>0
    <3>2. o[d] = q
      BY <1>6, <2>1, <3>1 DEF OrderFrom
    <3>3. d \cup Members(q) = d
      BY <3>1 DEF Members
    <3>4. WellOrdered(deps, d, q)
      BY <2>1, <3>1, <3>3 DEF WellOrdered
    <3> QED BY <1>4, <3>2, <3>4
  <2>2. CASE Queue(deps, d) # {}
    <3>1. PICK x : x = NextOf(deps, d)
      OBVIOUS
    <3>2. /\ x \in DOMAIN deps /\ x \notin d /\ deps[x] \subseteq d /\ d \cup {x} \in X
          /\ Cardinality((DOMAIN deps) \ (d \cup {x})) < Cardinality((DOMAIN deps) \ d)
      BY <1>2, <2>2, <3>1, NextIsQueued
    <3>3. r[d \cup {x}] < r[d]
      BY <1>3, <3>2
    <3>4. WellOrdered(deps, d \cup {x}, o[d \cup {x}])
      BY <1>4, <1>7, <3>2, <3>3
    <3>5. WellOrdered(deps, d, <<x>> \o o[d \cup {x}])
      BY <3>2, <3>4, OrderGrows
    <3>6. o[d] = <<x>> \o o[d \cup {x}]
      BY <1>6, <2>2, <3>1 DEF OrderFrom
    <3> QED BY <1>4, <3>5, <3>6
  <2> QED BY <2>1, <2>2
<1>8. X \subseteq G
  BY <1>5, <1>7, RankInduction
<1>9. {} \in X
  BY <1>2
<1> QED BY <1>1, <1>4, <1>8, <1>9

\* As many nodes as the order is long.
LEMMA OrderIsCounted ==
  ASSUME NEW deps, IsGraph(deps), NEW q, WellOrdered(deps, {}, q)
  PROVE  /\ Members(q) \in SUBSET DOMAIN deps /\ Len(q) \in Nat
         /\ Cardinality(Members(q)) = Len(q)
<1>1. q \in Seq(DOMAIN deps)
  BY DEF WellOrdered
<1>2. PICK l \in Nat : l = Len(q) /\ DOMAIN q = 1..l
  BY <1>1, LenProperties
<1>3. \A i \in 1..l : q[i] \in DOMAIN deps
  BY <1>1, <1>2, ElementOfSeq
<1>4. PICK M : M = Members(q)
  OBVIOUS
<1>5. M = {q[i] : i \in 1..l}
  BY <1>2, <1>4 DEF Members
<1>6. PICK f : f = [i \in 1..l |-> q[i]]
  OBVIOUS
<1>7. ASSUME NEW i \in 1..l, NEW j \in 1..l, i < j PROVE f[i] # f[j]
  <2>1. q[j] \notin Earlier(q, j)
    BY <1>2 DEF WellOrdered
  <2>2. i \in 1..(j - 1)
    BY <1>7
  <2> QED BY <1>6, <2>1, <2>2 DEF Earlier
<1>8. \A i, j \in 1..l : f[i] = f[j] => i = j
  <2>1. \A i, j \in 1..l : i < j \/ j < i \/ i = j
    OBVIOUS
  <2> QED BY <1>7, <2>1
<1>9. f \in Bijection(1..l, M)
  <2>1. f \in [1..l -> M] /\ \A m \in M : \E i \in 1..l : f[i] = m
    BY <1>5, <1>6
  <2> QED BY <1>8, <2>1 DEF Bijection, Injection, Surjection, IsInjective
<1>10. Cardinality(M) = l
  BY <1>9, FS_CountingElements DEF ExistsBijection
<1> QED BY <1>2, <1>3, <1>4, <1>5, <1>10

\* A graph without a cycle is ordered as a whole.
LEMMA AcyclicIsOrdered ==
  ASSUME NEW deps, IsGraph(deps), NEW U \in SUBSET DOMAIN deps, Queue(deps, U) = {}, ~HasCyclic(deps)
  PROVE  U = DOMAIN deps
<1>1. PICK N : N = (DOMAIN deps) \ U
  OBVIOUS
<1>2. ASSUME NEW n \in N PROVE deps[n] \cap N # {}
  BY <1>1 DEF Queue, AllGone, IsGraph
<1>3. N = {}
  BY <1>1, <1>2 DEF HasCyclic, Cyclic
<1> QED BY <1>1, <1>3

\* No node of a cycle is in the order.
LEMMA OrderedIsAcyclic ==
  ASSUME NEW deps, IsGraph(deps), NEW q, WellOrdered(deps, {}, q), Members(q) = DOMAIN deps
  PROVE  ~HasCyclic(deps)
<1> SUFFICES ASSUME NEW N \in SUBSET DOMAIN deps, Cyclic(deps, N) PROVE FALSE
  BY DEF HasCyclic
<1>1. PICK l \in Nat : l = Len(q) /\ DOMAIN q = 1..l
  BY LenProperties DEF WellOrdered
<1>2. PICK S : S = {i \in 1..l : q[i] \in N}
  OBVIOUS
<1>3. S \subseteq Nat /\ S # {}
  BY <1>1, <1>2 DEF Cyclic, Members
<1>4. PICK i \in S : \A j \in S : i <= j
  BY <1>3, LeastNumber
<1>5. deps[q[i]] \subseteq Earlier(q, i) /\ i \in 1..l /\ q[i] \in N
  BY <1>1, <1>2, <1>4 DEF WellOrdered
<1>6. PICK m \in N : m \in deps[q[i]]
  BY <1>5 DEF Cyclic
<1>7. PICK j \in 1..(i - 1) : m = q[j]
  BY <1>5, <1>6 DEF Earlier
<1>8. j \in S /\ ~(i <= j)
  BY <1>2, <1>5, <1>6, <1>7
<1> QED BY <1>4, <1>8

\* What the engine executes: each node once, after its dependencies, and all of them if and
\* only if the graph has no cycle.
OrdersGraph(deps, q) ==
  /\ q \in Seq(DOMAIN deps)
  /\ \A i \in DOMAIN q : deps[q[i]] \subseteq Earlier(q, i) /\ q[i] \notin Earlier(q, i)
  /\ Len(q) = Cardinality(DOMAIN deps) <=> ~HasCyclic(deps)
  /\ ~HasCyclic(deps) => Members(q) = DOMAIN deps
LEMMA OrderIsRight ==
  ASSUME NEW deps, IsGraph(deps), DOMAIN deps \subseteq Nat
  PROVE  OrdersGraph(deps, topological_sort(deps))
<1>1. PICK q : q = topological_sort(deps) /\ WellOrdered(deps, {}, q)
  BY OrderIsSound
<1>2. /\ Members(q) \in SUBSET DOMAIN deps /\ Len(q) \in Nat
      /\ Cardinality(Members(q)) = Len(q)
  BY <1>1, OrderIsCounted
<1>3. ~HasCyclic(deps) => Members(q) = DOMAIN deps
  <2>1. Queue(deps, Members(q)) = {}
    BY <1>1 DEF WellOrdered
  <2> QED BY <1>2, <2>1, AcyclicIsOrdered
<1>4. Len(q) = Cardinality(DOMAIN deps) => ~HasCyclic(deps)
  <2>1. Len(q) = Cardinality(DOMAIN deps) => Members(q) = DOMAIN deps
    BY <1>2, FS_Subset DEF IsGraph
  <2> QED BY <1>1, <2>1, OrderedIsAcyclic
<1>5. /\ q \in Seq(DOMAIN deps)
      /\ \A i \in DOMAIN q : deps[q[i]] \subseteq Earlier(q, i) /\ q[i] \notin Earlier(q, i)
  BY <1>1 DEF WellOrdered
<1> QED BY <1>1, <1>2, <1>3, <1>4, <1>5 DEF OrdersGraph
-------------------------------------------------------------------------------
(* The plan *)

\* The nodes whose dependencies are all processed.
LevelOf(deps, processed) == {n \in DOMAIN deps \ processed : deps[n] \subseteq processed}
LevelsFrom(deps, done, o) ==
  IF LevelOf(deps, done) = {} THEN <<>> ELSE <<LevelOf(deps, done)>> \o o[done \cup LevelOf(deps, done)]
Levelling(o, deps) == o = [processed \in SUBSET DOMAIN deps |-> LevelsFrom(deps, processed, o)]

\* A level leaves fewer nodes.
LEMMA LevelIsLess ==
  ASSUME NEW deps, IsGraph(deps), NEW done \in SUBSET DOMAIN deps, LevelOf(deps, done) # {}
  PROVE  /\ LevelOf(deps, done) \in SUBSET DOMAIN deps
         /\ done \cup LevelOf(deps, done) \in SUBSET DOMAIN deps
         /\ Cardinality((DOMAIN deps) \ (done \cup LevelOf(deps, done))) < Cardinality((DOMAIN deps) \ done)
<1>1. PICK L \in SUBSET DOMAIN deps : L = LevelOf(deps, done)
  BY DEF LevelOf
<1>2. PICK x \in L : x \in DOMAIN deps /\ x \notin done
  BY <1>1 DEF LevelOf
<1>3. PICK V : V = done \cup L /\ done \subseteq V /\ x \in V
  BY <1>2
<1>4. Cardinality((DOMAIN deps) \ V) < Cardinality((DOMAIN deps) \ done)
  BY <1>2, <1>3, FewerLeft DEF IsGraph
<1> QED BY <1>1, <1>3, <1>4

\* There are such levels.
LEMMA LevelsExist ==
  ASSUME NEW deps, IsGraph(deps)
  PROVE  \E o \in [SUBSET DOMAIN deps -> Seq(SUBSET DOMAIN deps)] : Levelling(o, deps)
<1>1. PICK X : X = SUBSET DOMAIN deps
  OBVIOUS
<1>2. PICK T : T = Seq(X)
  OBVIOUS
<1>3. PICK P : P = [d \in X |-> T]
  OBVIOUS
<1>4. PICK r : r = [d \in X |-> Cardinality((DOMAIN deps) \ d)]
  OBVIOUS
<1>5. PICK N \in Nat : N = Cardinality(DOMAIN deps)
  BY FS_CardinalityType DEF IsGraph
<1>6. PICK C : C = Candidates(X, T, P) /\ \A t \in C : t \in [X -> T]
  BY DEF Candidates
<1>7. PICK B : B = [z \in X \X C |-> LevelsFrom(deps, z[1], z[2])]
  OBVIOUS
<1>8. \A d \in X, t \in C : B[<<d, t>>] = LevelsFrom(deps, d, t)
  BY <1>7
<1>9. <<>> \in T
  BY <1>2, EmptySeq
<1>10. \A d \in X : r[d] \in 0..N
  <2>1. ASSUME NEW d \in X PROVE Cardinality((DOMAIN deps) \ d) \in 0..N
    BY <1>5, FewerLeft DEF IsGraph
  <2> QED BY <1>4, <2>1
<1>11. ASSUME NEW d \in X, NEW t \in C PROVE LevelsFrom(deps, d, t) \in T
  <2>1. CASE LevelOf(deps, d) = {}
    BY <1>9, <2>1 DEF LevelsFrom
  <2>2. CASE LevelOf(deps, d) # {}
    <3>1. PICK x \in X : x = LevelOf(deps, d) /\ d \cup x \in X
      BY <1>1, <2>2, LevelIsLess
    <3>2. PICK q \in T : q = t[d \cup x]
      BY <1>6, <3>1
    <3>3. <<x>> \in T /\ <<x>> \o q \in T
      BY <1>2, <3>1, <3>2, ConcatProperties
    <3> QED BY <2>2, <3>1, <3>2, <3>3 DEF LevelsFrom
  <2> QED BY <2>1, <2>2
<1>12. ASSUME NEW d \in X, NEW t \in C, NEW u \in C, \A y \in X : r[y] < r[d] => t[y] = u[y]
       PROVE  LevelsFrom(deps, d, t) = LevelsFrom(deps, d, u)
  <2>1. CASE LevelOf(deps, d) = {}
    BY <2>1 DEF LevelsFrom
  <2>2. CASE LevelOf(deps, d) # {}
    <3>1. PICK w \in X : /\ w = d \cup LevelOf(deps, d)
                         /\ Cardinality((DOMAIN deps) \ w) < Cardinality((DOMAIN deps) \ d)
      BY <1>1, <2>2, LevelIsLess
    <3>2. r[w] < r[d]
      BY <1>4, <3>1
    <3>3. t[w] = u[w]
      BY <1>12, <3>2
    <3> QED BY <3>1, <3>3 DEF LevelsFrom
  <2> QED BY <2>1, <2>2
<1>13. Describes(B, X, T, P, r, N)
  <2>1. \A d \in X : P[d] \subseteq T /\ P[d] # {}
    BY <1>3, <1>9
  <2>2. \A d \in X, t \in C : B[<<d, t>>] \in P[d]
    BY <1>3, <1>8, <1>11
  <2>3. \A d \in X, t \in C, u \in C : (\A y \in X : r[y] < r[d] => t[y] = u[y]) => B[<<d, t>>] = B[<<d, u>>]
    BY <1>8, <1>12
  <2> QED BY <1>6, <1>10, <2>1, <2>2, <2>3 DEF Describes
<1>14. PICK o \in C : \A d \in X : o[d] = B[<<d, o>>]
  <2>1. \E t \in Candidates(X, T, P) : Solves(t, X, B)
    BY <1>13, RecursionExists
  <2> QED BY <1>6, <2>1 DEF Solves
<1>15. o \in [X -> T] /\ \A d \in X : o[d] = LevelsFrom(deps, d, o)
  BY <1>6, <1>8, <1>14
<1> QED BY <1>1, <1>2, <1>15 DEF Levelling

\* The plan is the one that starts with nothing processed.
LEMMA PlanIsMade ==
  ASSUME NEW deps, IsGraph(deps)
  PROVE  \E o : Levelling(o, deps) /\ get_execution_plan(deps) = o[{}]
<1> DEFINE Made(o) == Levelling(o, deps)
<1>1. Made(CHOOSE o : Made(o))
  BY LevelsExist
<1>2. get_execution_plan(deps) = (CHOOSE o : Made(o))[{}]
  BY DEF get_execution_plan, Levelling, LevelsFrom, LevelOf
<1> QED BY <1>1, <1>2

\* Each level holds what could be done after the levels before it.
WellLevelled(deps, done, q) ==
  /\ q \in Seq(SUBSET DOMAIN deps)
  /\ \A i \in DOMAIN q : q[i] = LevelOf(deps, done \cup UNION Earlier(q, i))
  /\ LevelOf(deps, done \cup UNION Members(q)) = {}

\* A level in front of such levels.
LEMMA LevelsGrow ==
  ASSUME NEW deps, NEW done, NEW q, WellLevelled(deps, done \cup LevelOf(deps, done), q)
  PROVE  WellLevelled(deps, done, <<LevelOf(deps, done)>> \o q)
<1>1. PICK S : S = SUBSET DOMAIN deps
  OBVIOUS
<1>2. PICK x \in S : x = LevelOf(deps, done)
  BY <1>1 DEF LevelOf
<1>3. q \in Seq(S)
  BY <1>1 DEF WellLevelled
<1>4. PICK l \in Nat : l = Len(q) /\ DOMAIN q = 1..l
  BY <1>3, LenProperties
<1>5. PICK w : w = <<x>> \o q
  OBVIOUS
<1>6. /\ w \in Seq(S) /\ DOMAIN w = 1..(l + 1)
      /\ w[1] = x /\ \A i \in 1..l : w[i + 1] = q[i]
      /\ \A i \in 1..(l + 1) : i = 1 \/ \E k \in 1..l : i = k + 1
      /\ Earlier(w, 1) = {}
      /\ \A k \in 1..l : Earlier(w, k + 1) = {x} \cup Earlier(q, k)
      /\ Members(w) = {x} \cup Members(q)
  BY <1>3, <1>4, <1>5, InFront
<1>7. ASSUME NEW i \in 1..(l + 1) PROVE w[i] = LevelOf(deps, done \cup UNION Earlier(w, i))
  <2>1. CASE i = 1
    <3>1. done \cup UNION {} = done
      OBVIOUS
    <3> QED BY <1>2, <1>6, <2>1, <3>1
  <2>2. CASE i # 1
    <3>1. PICK k \in 1..l : i = k + 1
      BY <1>6, <2>2
    <3>2. q[k] = LevelOf(deps, (done \cup x) \cup UNION Earlier(q, k))
      <4>1. WellLevelled(deps, done \cup x, q)
        BY <1>2
      <4>2. \A j \in DOMAIN q : q[j] = LevelOf(deps, (done \cup x) \cup UNION Earlier(q, j))
        BY <4>1 DEF WellLevelled
      <4> QED BY <1>4, <3>1, <4>2
    <3>3. (done \cup x) \cup UNION Earlier(q, k) = done \cup UNION Earlier(w, i)
      <4>1. Earlier(w, i) = {x} \cup Earlier(q, k)
        BY <1>6, <3>1
      <4>2. UNION ({x} \cup Earlier(q, k)) = x \cup UNION Earlier(q, k)
        OBVIOUS
      <4> QED BY <4>1, <4>2
    <3>4. w[i] = q[k]
      BY <1>6, <3>1
    <3> QED BY <3>2, <3>3, <3>4
  <2> QED BY <2>1, <2>2
<1>8. LevelOf(deps, done \cup UNION Members(w)) = {}
  <2>1. done \cup UNION Members(w) = (done \cup x) \cup UNION Members(q)
    BY <1>6
  <2> QED BY <1>2, <2>1 DEF WellLevelled
<1> QED BY <1>1, <1>2, <1>5, <1>6, <1>7, <1>8 DEF WellLevelled

\* The plan has such levels.
LEMMA PlanIsSound ==
  ASSUME NEW deps, IsGraph(deps)
  PROVE  WellLevelled(deps, {}, get_execution_plan(deps))
<1>1. PICK o : Levelling(o, deps) /\ get_execution_plan(deps) = o[{}]
  BY PlanIsMade
<1>2. PICK X : X = SUBSET DOMAIN deps
  OBVIOUS
<1>3. PICK r : r = [d \in X |-> Cardinality((DOMAIN deps) \ d)]
  OBVIOUS
<1>4. PICK G : G = {d \in X : WellLevelled(deps, d, o[d])}
  OBVIOUS
<1>5. \A d \in X : r[d] \in Nat
  <2>1. ASSUME NEW d \in X PROVE Cardinality((DOMAIN deps) \ d) \in Nat
    BY FewerLeft DEF IsGraph
  <2> QED BY <1>3, <2>1
<1>6. \A d \in X : o[d] = LevelsFrom(deps, d, o)
  BY <1>1, <1>2 DEF Levelling
<1>7. ASSUME NEW d \in X, \A y \in X : r[y] < r[d] => y \in G PROVE d \in G
  <2>1. CASE LevelOf(deps, d) = {}
    <3>0. <<>> \in Seq(SUBSET DOMAIN deps) /\ DOMAIN <<>> = {}
      BY EmptySeq
    <3>1. PICK q : q = <<>> /\ q \in Seq(SUBSET DOMAIN deps) /\ DOMAIN q = {}
      BY <3>0
    <3>2. o[d] = q
      BY <1>6, <2>1, <3>1 DEF LevelsFrom
    <3>3. d \cup UNION Members(q) = d
      BY <3>1 DEF Members
    <3>4. WellLevelled(deps, d, q)
      BY <2>1, <3>1, <3>3 DEF WellLevelled
    <3> QED BY <1>4, <3>2, <3>4
  <2>2. CASE LevelOf(deps, d) # {}
    <3>1. PICK x : x = LevelOf(deps, d)
      OBVIOUS
    <3>2. /\ d \cup x \in X
          /\ Cardinality((DOMAIN deps) \ (d \cup x)) < Cardinality((DOMAIN deps) \ d)
      BY <1>2, <2>2, <3>1, LevelIsLess
    <3>3. r[d \cup x] < r[d]
      BY <1>3, <3>2
    <3>4. WellLevelled(deps, d \cup x, o[d \cup x])
      BY <1>4, <1>7, <3>2, <3>3
    <3>5. WellLevelled(deps, d, <<x>> \o o[d \cup x])
      BY <3>1, <3>4, LevelsGrow
    <3>6. o[d] = <<x>> \o o[d \cup x]
      BY <1>6, <2>2, <3>1 DEF LevelsFrom
    <3> QED BY <1>4, <3>5, <3>6
  <2> QED BY <2>1, <2>2
<1>8. X \subseteq G
  BY <1>5, <1>7, RankInduction
<1>9. {} \in X
  BY <1>2
<1> QED BY <1>1, <1>4, <1>8, <1>9

\* The level of a node.
LevelIn(plan, n) == CHOOSE i \in DOMAIN plan : n \in plan[i]
\* A node's level is the one after the last of its dependencies'.
LevelsAreRight(deps, plan) ==
  \A n \in DOMAIN deps :
    LevelIn(plan, n) = 1 + (IF deps[n] = {} THEN 0 ELSE Max({LevelIn(plan, d) : d \in deps[n]}))
LEMMA PlanIsRight ==
  ASSUME NEW deps, IsGraph(deps), ~HasCyclic(deps)
  PROVE  LevelsAreRight(deps, get_execution_plan(deps))
<1>1. PICK q : q = get_execution_plan(deps) /\ WellLevelled(deps, {}, q)
  BY PlanIsSound
<1>2. PICK l \in Nat : l = Len(q) /\ DOMAIN q = 1..l
  BY <1>1, LenProperties DEF WellLevelled
<1>3. \A i \in 1..l : q[i] = LevelOf(deps, UNION Earlier(q, i))
  <2>1. \A i \in 1..l : {} \cup UNION Earlier(q, i) = UNION Earlier(q, i)
    OBVIOUS
  <2> QED BY <1>1, <1>2, <2>1 DEF WellLevelled
<1>4. \A n \in DOMAIN deps : \E i \in 1..l : n \in q[i]
  <2>1. PICK U : U = UNION Members(q)
    OBVIOUS
  <2>2. U \subseteq DOMAIN deps
    BY <1>2, <1>3, <2>1 DEF Members, LevelOf
  <2>3. {} \cup U = U
    OBVIOUS
  <2>4. Queue(deps, U) = {}
    BY <1>1, <2>1, <2>3 DEF WellLevelled, LevelOf, Queue, AllGone
  <2>5. U = DOMAIN deps
    BY <2>2, <2>4, AcyclicIsOrdered
  <2> QED BY <1>2, <2>1, <2>5 DEF Members
<1>5. ASSUME NEW i \in 1..l, NEW n \in q[i]
      PROVE  /\ n \in DOMAIN deps /\ deps[n] \subseteq UNION Earlier(q, i)
             /\ \A j \in 1..(i - 1) : n \notin q[j]
  <2>1. n \in LevelOf(deps, UNION Earlier(q, i))
    BY <1>3
  <2> QED BY <2>1 DEF LevelOf, Earlier
<1>6. ASSUME NEW i \in 1..l, NEW n \in q[i] PROVE LevelIn(q, n) = i
  <2>1. ASSUME NEW j \in 1..l, n \in q[j] PROVE j = i
    <3>1. CASE j < i
      <4>1. j \in 1..(i - 1)
        BY <3>1
      <4> QED BY <1>5, <2>1, <4>1
    <3>2. CASE i < j
      <4>1. i \in 1..(j - 1)
        BY <3>2
      <4> QED BY <1>5, <2>1, <4>1
    <3>3. j < i \/ i < j \/ i = j
      OBVIOUS
    <3> QED BY <3>1, <3>2, <3>3
  <2> QED BY <1>2, <2>1 DEF LevelIn
<1>7. ASSUME NEW n \in DOMAIN deps
      PROVE  LevelIn(q, n) = 1 + (IF deps[n] = {} THEN 0 ELSE Max({LevelIn(q, d) : d \in deps[n]}))
  <2>1. PICK i \in 1..l : n \in q[i] /\ LevelIn(q, n) = i
    BY <1>4, <1>6
  <2>2. PICK S : S = {LevelIn(q, d) : d \in deps[n]}
    OBVIOUS
  <2>3. ASSUME NEW d \in deps[n] PROVE LevelIn(q, d) \in 1..(i - 1)
    <3>1. PICK j \in 1..(i - 1) : d \in q[j]
      BY <1>5, <2>1 DEF Earlier
    <3>2. j \in 1..l
      OBVIOUS
    <3> QED BY <1>6, <3>1, <3>2
  <2>4. S \subseteq 1..(i - 1)
    BY <2>2, <2>3
  <2>5. CASE i = 1
    <3>1. deps[n] = {}
      BY <2>3, <2>5
    <3> QED BY <2>1, <2>5, <3>1
  <2>6. CASE i # 1
    <3>1. PICK k \in 1..l : i = k + 1
      <4>1. i - 1 \in 1..l /\ i = (i - 1) + 1
        BY <2>6
      <4> QED BY <4>1
    <3>2. ~(deps[n] \subseteq UNION Earlier(q, k))
      <4>1. \A j \in 1..(k - 1) : j \in 1..(i - 1)
        BY <3>1
      <4>2. n \in DOMAIN deps /\ n \notin UNION Earlier(q, k) /\ n \notin q[k]
        <5>1. k \in 1..(i - 1)
          BY <3>1
        <5> QED BY <1>5, <2>1, <4>1, <5>1 DEF Earlier
      <4> QED BY <1>3, <4>2 DEF LevelOf
    <3>3. PICK d \in deps[n] : d \notin UNION Earlier(q, k)
      BY <3>2
    <3>4. PICK j \in 1..(i - 1) : d \in q[j]
      BY <1>5, <2>1 DEF Earlier
    <3>5. j = k
      <4>1. j \notin 1..(k - 1)
        BY <3>3, <3>4 DEF Earlier
      <4> QED BY <3>1, <4>1
    <3>6. LevelIn(q, d) = k
      BY <1>6, <3>4, <3>5
    <3>7. k \in S /\ \A y \in S : k >= y
      BY <2>2, <2>4, <3>1, <3>6
    <3>8. Max(S) = k
      <4>1. \A z \in S : (\A y \in S : z >= y) => z = k
        <5>1. S \subseteq Nat
          BY <2>4
        <5> QED BY <3>7, <5>1
      <4> QED BY <3>7, <4>1 DEF Max
    <3>9. deps[n] # {} /\ i = 1 + k
      BY <3>1, <3>3
    <3> QED BY <2>1, <2>2, <3>8, <3>9
  <2> QED BY <2>5, <2>6
<1> QED BY <1>1, <1>7 DEF LevelsAreRight
-------------------------------------------------------------------------------
(* The engine *)

\* A drafted graph is validated, ordered and planned alike.
LEMMA GraphsDoAgree ==
  ASSUME IsGraph(draft), DOMAIN draft \subseteq Nat
  PROVE  GraphsAgree
<1>1. PICK C : C = CycleFound(draft) /\ FindsCycle(draft, C)
  BY CycleIsOne
<1>2. PICK q : q = topological_sort(draft) /\ OrdersGraph(draft, q)
  BY OrderIsRight
<1>3. PICK g : g = get_execution_plan(draft) /\ (~HasCyclic(draft) => LevelsAreRight(draft, g))
  BY PlanIsRight
<1>4. HasCyclic(draft) <=> ~\A nodes \in SUBSET DOMAIN draft : ~Cyclic(draft, nodes)
  BY DEF HasCyclic
<1>5. ServiceFindsCycle(draft) <=> HasCyclic(draft)
  BY ServiceFindsOne
<1>6. ~HasCyclic(draft) <=> C = {}
  BY <1>1, <1>4 DEF FindsCycle, HasCyclic
<1>7. C # {} => Cyclic(draft, C)
  BY <1>1 DEF FindsCycle
<1>8. /\ \A i \in DOMAIN q : draft[q[i]] \subseteq {q[j] : j \in 1..(i - 1)} /\ q[i] \notin {q[j] : j \in 1..(i - 1)}
      /\ Len(q) = Cardinality(DOMAIN draft) <=> ~HasCyclic(draft)
  BY <1>2 DEF OrdersGraph, Earlier
<1>9. ~HasCyclic(draft) => \A n \in DOMAIN draft :
        (CHOOSE i \in DOMAIN g : n \in g[i]) =
           1 + (IF draft[n] = {} THEN 0 ELSE Max({CHOOSE i \in DOMAIN g : d \in g[i] : d \in draft[n]}))
  BY <1>3 DEF LevelsAreRight, LevelIn
<1>10. (\A nodes \in SUBSET DOMAIN draft : ~Cyclic(draft, nodes)) <=> CycleFound(draft) = {}
  BY <1>1, <1>4, <1>6
<1>11. CycleFound(draft) # {} => Cyclic(draft, CycleFound(draft))
  BY <1>1, <1>7
<1>12. ServiceFindsCycle(draft) <=> ~\A nodes \in SUBSET DOMAIN draft : ~Cyclic(draft, nodes)
  BY <1>4, <1>5
<1>13. \A i \in DOMAIN topological_sort(draft) :
         /\ draft[topological_sort(draft)[i]] \subseteq {topological_sort(draft)[j] : j \in 1..(i - 1)}
         /\ topological_sort(draft)[i] \notin {topological_sort(draft)[j] : j \in 1..(i - 1)}
  BY <1>2, <1>8
<1>14. Len(topological_sort(draft)) = Cardinality(DOMAIN draft)
         <=> \A nodes \in SUBSET DOMAIN draft : ~Cyclic(draft, nodes)
  BY <1>2, <1>4, <1>8
<1>15. (\A nodes \in SUBSET DOMAIN draft : ~Cyclic(draft, nodes)) =>
         LET level(n) == CHOOSE i \in DOMAIN get_execution_plan(draft) : n \in get_execution_plan(draft)[i]
         IN \A n \in DOMAIN draft :
              level(n) = 1 + (IF draft[n] = {} THEN 0 ELSE Max({level(d) : d \in draft[n]}))
  BY <1>3, <1>4, <1>9
<1> HIDE DEF Cyclic, CycleFound, topological_sort, get_execution_plan, ServiceFindsCycle
<1> QED BY <1>10, <1>11, <1>12, <1>13, <1>14, <1>15 DEF GraphsAgree

\* What was drafted is a graph, what was built has no cycle, and without it nothing runs.
GraphInv ==
  /\ IsGraph(draft) /\ DOMAIN draft \subseteq EngineNodes
  /\ Built => graph = draft /\ CycleFound(draft) = {}
  /\ ~Built => known = <<>> /\ call = "none"
\* All a node depends on is completed.
DependsDone(n) == \A d \in graph[n] : d \in DOMAIN known /\ known[d] = "completed"
\* A node that was executed is no longer pending, and its dependencies are completed.
OnceInv ==
  /\ executed \in [EngineNodes -> 0..1]
  /\ \A n \in EngineNodes : executed[n] = 1 => n \in DOMAIN known /\ known[n] # "pending" /\ DependsDone(n)
\* Of the order, the first k nodes are completed, and the others are still to do.
TodoAfter(q, k) ==
  /\ todo \in Seq(DOMAIN graph) /\ k + Len(todo) = Len(q) /\ \A i \in 1..Len(todo) : todo[i] = q[k + i]
  /\ \A i \in 1..k : known[q[i]] = "completed"
OrderInv ==
  call = "execute" => Built /\ DOMAIN known = DOMAIN graph /\ \E k \in Nat : TodoAfter(topological_sort(graph), k)
EngineInv == GraphInv /\ OnceInv /\ OrderInv

\* What the builder drafts is a graph.
LEMMA DraftsGraph ==
  ASSUME IsGraph(draft), DOMAIN draft \subseteq EngineNodes,
         NEW n \in EngineNodes, NEW m \in EngineNodes,
         add_node(n) \/ remove_node(n) \/ add_dependency(n, m)
  PROVE  IsGraph(draft') /\ DOMAIN draft' \subseteq EngineNodes
<1>1. PICK D : D = DOMAIN draft /\ IsFiniteSet(D) /\ draft \in [D -> SUBSET D] /\ D \subseteq EngineNodes
  BY DEF IsGraph
<1>2. CASE add_node(n)
  <2>1. draft' = [x \in D \cup {n} |-> IF x = n THEN {} ELSE draft[x]]
    BY <1>1, <1>2 DEF add_node
  <2>2. IsFiniteSet(D \cup {n})
    BY <1>1, FS_AddElement
  <2>3. DOMAIN draft' = D \cup {n} /\ draft' \in [D \cup {n} -> SUBSET (D \cup {n})]
    BY <1>1, <2>1
  <2> QED BY <1>1, <2>2, <2>3 DEF IsGraph
<1>3. CASE remove_node(n)
  <2>1. draft' = [x \in D \ {n} |-> draft[x] \ {n}]
    BY <1>1, <1>3 DEF remove_node
  <2>2. IsFiniteSet(D \ {n})
    BY <1>1, FS_RemoveElement
  <2>3. DOMAIN draft' = D \ {n} /\ draft' \in [D \ {n} -> SUBSET (D \ {n})]
    BY <1>1, <2>1
  <2> QED BY <1>1, <2>2, <2>3 DEF IsGraph
<1>4. CASE add_dependency(n, m)
  <2>1. draft' = [draft EXCEPT ![m] = @ \cup {n}] /\ {n, m} \subseteq D
    BY <1>1, <1>4 DEF add_dependency
  <2>2. DOMAIN draft' = D /\ draft' \in [D -> SUBSET D]
    BY <1>1, <2>1
  <2> QED BY <1>1, <2>2 DEF IsGraph
<1> QED BY <1>2, <1>3, <1>4

\* At first there is an empty draft.
LEMMA InitEngine == EngineInit => EngineInv
<1> SUFFICES ASSUME EngineInit PROVE EngineInv
  OBVIOUS
<1>1. DOMAIN draft = {}
  BY EmptySeq DEF EngineInit
<1>2. draft \in [DOMAIN draft -> SUBSET DOMAIN draft]
  BY <1>1 DEF EngineInit
<1>3. IsGraph(draft)
  BY <1>1, <1>2, FS_EmptySet DEF IsGraph
<1>4. ~Built /\ known = <<>> /\ call = "none"
  BY DEF EngineInit, Built
<1>5. OnceInv
  BY DEF OnceInv, EngineInit
<1> QED BY <1>1, <1>3, <1>4, <1>5 DEF EngineInv, GraphInv, OrderInv

\* The steps: of the builder, of one who starts a call, and of the call.
Drafts == \E n \in EngineNodes : add_node(n) \/ remove_node(n) \/ \E m \in EngineNodes : add_dependency(n, m)
Resumes == Built /\ \E done, kept \in SUBSET DOMAIN graph : resume_from_checkpoint(done, kept)
OfCall == SkipsNode \/ EnsuresNode \/ StartsNode \/ NodeReturns \/ NodeRaises \/ CallReturns

\* The draft, the graph and the engine while there is none.
LEMMA GraphStep == GraphInv /\ [EngineNext]_engineVars => GraphInv'
<1> SUFFICES ASSUME GraphInv, [EngineNext]_engineVars PROVE GraphInv'
  OBVIOUS
<1>1. CASE Drafts
  <2>1. UNCHANGED <<graph, known, todo, call, executed>> /\ ~Built
    BY <1>1 DEF Drafts, add_node, remove_node, add_dependency, BuilderOnly
  <2>2. IsGraph(draft') /\ DOMAIN draft' \subseteq EngineNodes
    BY <1>1, DraftsGraph DEF Drafts, GraphInv
  <2> QED BY <2>1, <2>2 DEF GraphInv, Built
<1>2. CASE build
  BY <1>2 DEF build, GraphInv, Built
<1>3. CASE execute \/ Resumes \/ OfCall
  <2>1. UNCHANGED <<draft, graph>>
    BY <1>3 DEF execute, Resumes, resume_from_checkpoint, Starts, OfCall, SkipsNode, EnsuresNode, StartsNode,
                NodeReturns, NodeRaises, CallReturns
  <2>2. Built
    BY <1>3, EmptySeq DEF GraphInv, execute, Resumes, OfCall, SkipsNode, EnsuresNode, StartsNode,
                NodeReturns, NodeRaises, CallReturns
  <2> QED BY <2>1, <2>2 DEF GraphInv, Built
<1>4. CASE UNCHANGED engineVars
  BY <1>4 DEF engineVars, GraphInv, Built
<1> QED BY <1>1, <1>2, <1>3, <1>4 DEF EngineNext, Drafts, Resumes, OfCall

\* A step of the engine keeps what is completed, and what is no longer pending is so for good.
EngineKept ==
  \A d \in DOMAIN known :
    /\ d \in DOMAIN known'
    /\ known[d] = "completed" => known'[d] = "completed"
    /\ known[d] # "pending" => known'[d] # "pending"
LEMMA EngineKeeps ==
  ASSUME execute \/ Resumes \/ OfCall
  PROVE  EngineKept /\ graph' = graph
<1>1. CASE execute \/ Resumes
  <2>1. graph' = graph /\ (known = <<>> \/ known' = known)
    BY <1>1 DEF execute, Resumes, resume_from_checkpoint, Starts
  <2>2. DOMAIN <<>> = {}
    BY EmptySeq
  <2> QED BY <2>1, <2>2 DEF EngineKept
<1>2. CASE SkipsNode \/ CallReturns
  BY <1>2 DEF SkipsNode, CallReturns, EngineKept
<1>3. CASE EnsuresNode
  <2>1. /\ graph' = graph
        /\ known' = [m \in DOMAIN known \cup {NextNode} |-> IF m \in DOMAIN known THEN known[m] ELSE "pending"]
    BY <1>3 DEF EnsuresNode, Ensured
  <2> QED BY <2>1 DEF EngineKept
<1>4. CASE StartsNode
  <2>1. graph' = graph /\ known' = [known EXCEPT ![NextNode] = "running"] /\ known[NextNode] = "pending"
    BY <1>4 DEF StartsNode, Runs, is_node_ready
  <2> QED BY <2>1 DEF EngineKept
<1>5. CASE NodeReturns
  <2>1. graph' = graph /\ known' = [known EXCEPT ![NextNode] = "completed"]
    BY <1>5 DEF NodeReturns
  <2> QED BY <2>1 DEF EngineKept
<1>6. CASE NodeRaises
  <2>1. graph' = graph /\ known' = [known EXCEPT ![NextNode] = "failed"] /\ known[NextNode] = "running"
    BY <1>6 DEF NodeRaises
  <2> QED BY <2>1 DEF EngineKept
<1> QED BY <1>1, <1>2, <1>3, <1>4, <1>5, <1>6 DEF OfCall

\* A sequence that is not empty has a positive length.
LEMMA HoldsSome ==
  ASSUME NEW S, NEW s \in Seq(S), s # <<>>
  PROVE  Len(s) \in Nat /\ Len(s) # 0
BY EmptySeq

\* The head of what is left to do is the next of the order, and its dependencies are completed.
LEMMA HeadIsNext ==
  ASSUME GraphInv, OrderInv, call = "execute", todo # <<>>, EngineNodes \subseteq Nat
  PROVE  /\ NextNode \in DOMAIN graph /\ DependsDone(NextNode)
         /\ \E k \in Nat : /\ TodoAfter(topological_sort(graph), k)
                           /\ k + 1 \in Nat /\ NextNode = topological_sort(graph)[k + 1]
                           /\ \E l \in Nat : /\ Len(todo) = l + 1 /\ Len(Tail(todo)) = l
                                             /\ Tail(todo) \in Seq(DOMAIN graph)
                                             /\ \A i \in 1..l : Tail(todo)[i] = todo[i + 1]
<1>1. PICK q : q = topological_sort(graph) /\ OrdersGraph(graph, q)
  BY OrderIsRight DEF GraphInv, OrderInv
<1>2. PICK k \in Nat : TodoAfter(q, k)
  BY <1>1 DEF OrderInv
<1>3. todo \in Seq(DOMAIN graph) /\ k + Len(todo) = Len(q) /\ \A i \in 1..Len(todo) : todo[i] = q[k + i]
  BY <1>2 DEF TodoAfter
<1>4. Len(todo) \in Nat /\ Len(todo) # 0
  <2>1. PICK s \in Seq(DOMAIN graph) : s = todo
    BY <1>3
  <2>2. s # <<>> => Len(s) \in Nat /\ Len(s) # 0
    BY HoldsSome
  <2> QED BY <2>1, <2>2
<1>5. PICK l \in Nat : Len(todo) = l + 1
  <2>1. Len(todo) - 1 \in Nat /\ Len(todo) = (Len(todo) - 1) + 1
    BY <1>4
  <2> QED BY <2>1
<1>6. NextNode = todo[1] /\ NextNode \in DOMAIN graph
  BY <1>3, HeadTailProperties DEF NextNode
<1>7. /\ Tail(todo) \in Seq(DOMAIN graph) /\ Len(Tail(todo)) = l
      /\ \A i \in 1..l : Tail(todo)[i] = todo[i + 1]
  <2>1. /\ Tail(todo) \in Seq(DOMAIN graph) /\ Len(Tail(todo)) = Len(todo) - 1
        /\ \A i \in 1..Len(Tail(todo)) : Tail(todo)[i] = todo[i + 1]
    BY <1>3, HeadTailProperties
  <2> QED BY <1>5, <2>1
<1>8. todo[1] = q[k + 1] /\ k + 1 \in 1..Len(q)
  BY <1>3, <1>5
<1>9. graph[NextNode] \subseteq Earlier(q, k + 1) /\ graph[NextNode] \subseteq DOMAIN graph
  <2>1. k + 1 \in DOMAIN q
    BY <1>1, <1>8, LenProperties DEF OrdersGraph
  <2> QED BY <1>1, <1>6, <1>8, <2>1 DEF OrdersGraph, GraphInv, IsGraph, OrderInv
<1>10. DependsDone(NextNode)
  <2>1. ASSUME NEW d \in graph[NextNode] PROVE d \in DOMAIN known /\ known[d] = "completed"
    <3>1. PICK j \in 1..((k + 1) - 1) : d = q[j]
      BY <1>9 DEF Earlier
    <3>2. j \in 1..k
      BY <3>1
    <3> QED BY <1>2, <1>9, <3>1, <3>2 DEF TodoAfter, OrderInv
  <2> QED BY <2>1 DEF DependsDone
<1> QED BY <1>1, <1>2, <1>5, <1>6, <1>7, <1>8, <1>10

\* A node is executed once, after its dependencies.
LEMMA OnceStep ==
  ASSUME EngineInv, [EngineNext]_engineVars
  PROVE  OnceInv'
<1>1. CASE Drafts
  <2>1. UNCHANGED <<graph, known, todo, call, executed>>
    BY <1>1 DEF Drafts, add_node, remove_node, add_dependency, BuilderOnly
  <2> QED BY <2>1 DEF EngineInv, OnceInv, DependsDone
<1>2. CASE build
  <2>1. known = <<>> /\ known' = known /\ executed' = executed
    BY <1>2 DEF build, EngineInv, GraphInv
  <2>2. DOMAIN <<>> = {}
    BY EmptySeq
  <2> QED BY <2>1, <2>2 DEF EngineInv, OnceInv
<1>3. CASE UNCHANGED engineVars
  BY <1>3 DEF engineVars, EngineInv, OnceInv, DependsDone
<1>4. CASE execute \/ Resumes \/ OfCall
  <2>1. EngineKept /\ graph' = graph
    BY <1>4, EngineKeeps
  <2>2. \A n : DependsDone(n) => DependsDone(n)'
    BY <2>1 DEF DependsDone, EngineKept
  <2>3. CASE executed' = executed
    BY <2>1, <2>2, <2>3 DEF EngineInv, OnceInv, EngineKept
  <2>4. CASE StartsNode
    <3>1. /\ NextNode \in DOMAIN known /\ known[NextNode] = "pending" /\ DependsDone(NextNode)
          /\ known' = [known EXCEPT ![NextNode] = "running"]
          /\ executed' = [executed EXCEPT ![NextNode] = @ + 1]
      <4>1. known[NextNode] = "pending" /\ todo # <<>>
        BY <2>4 DEF StartsNode, Runs, is_node_ready
      <4>2. CASE call = "execute"
        BY <2>4, <4>1, <4>2, HeadIsNext, EngineAssumption DEF StartsNode, EngineInv
      <4>3. CASE call # "execute"
        BY <2>4, <4>3 DEF StartsNode, Runs, is_node_ready, DependsDone
      <4> QED BY <2>4, <4>1, <4>2, <4>3 DEF StartsNode
    <3>2. executed' \in [EngineNodes -> 0..1]
      <4>1. executed \in [EngineNodes -> 0..1]
        BY DEF EngineInv, OnceInv
      <4>2. NextNode \in EngineNodes => executed[NextNode] = 0
        <5>1. NextNode \in EngineNodes => executed[NextNode] # 1 /\ executed[NextNode] \in 0..1
          BY <3>1, <4>1 DEF EngineInv, OnceInv
        <5> QED BY <5>1
      <4>3. PICK x : x = NextNode /\ executed' = [executed EXCEPT ![x] = @ + 1]
        BY <3>1
      <4>4. CASE x \in EngineNodes
        <5>1. executed[x] + 1 \in 0..1
          BY <4>2, <4>3, <4>4
        <5> QED BY <4>1, <4>3, <5>1
      <4>5. CASE x \notin EngineNodes
        <5>1. executed' = executed
          BY <4>1, <4>3, <4>5
        <5> QED BY <4>1, <5>1
      <4> QED BY <4>4, <4>5
    <3>3. ASSUME NEW n \in EngineNodes, executed'[n] = 1
          PROVE  n \in DOMAIN known' /\ known'[n] # "pending" /\ DependsDone(n)'
      <4>1. CASE n = NextNode
        BY <2>2, <3>1, <4>1
      <4>2. CASE n # NextNode
        <5>1. executed[n] = 1
          BY <3>1, <3>3, <4>2 DEF EngineInv, OnceInv
        <5> QED BY <2>1, <2>2, <5>1 DEF EngineInv, OnceInv, EngineKept
      <4> QED BY <4>1, <4>2
    <3> QED BY <3>2, <3>3 DEF OnceInv
  <2>5. executed' = executed \/ StartsNode
    BY <1>4 DEF execute, Resumes, resume_from_checkpoint, OfCall, SkipsNode, EnsuresNode,
                NodeReturns, NodeRaises, CallReturns
  <2> QED BY <2>3, <2>4, <2>5
<1> QED BY <1>1, <1>2, <1>3, <1>4 DEF EngineNext, Drafts, Resumes, OfCall

\* The order is gone through from its first node to its last.
LEMMA OrderStep ==
  ASSUME EngineInv, [EngineNext]_engineVars
  PROVE  OrderInv'
<1> SUFFICES ASSUME call' = "execute" PROVE OrderInv'
  BY DEF OrderInv
<1>1. CASE Drafts \/ build
  BY <1>1 DEF Drafts, add_node, remove_node, add_dependency, BuilderOnly, build, EngineInv, GraphInv
<1>2. CASE UNCHANGED engineVars
  BY <1>2 DEF engineVars, EngineInv, OrderInv, TodoAfter, Built
<1>3. CASE execute
  <2>1. /\ Built /\ graph' = graph /\ todo' = topological_sort(graph)
        /\ known' = [n \in DOMAIN graph |-> "pending"]
    BY <1>3 DEF execute, Starts
  <2>2. PICK q : q = topological_sort(graph) /\ q \in Seq(DOMAIN graph)
    <3>1. OrdersGraph(graph, topological_sort(graph))
      BY <2>1, OrderIsRight, EngineAssumption DEF EngineInv, GraphInv
    <3> QED BY <3>1 DEF OrdersGraph
  <2>3. PICK z \in Nat : z = 0
    OBVIOUS
  <2>4. Len(q) \in Nat
    BY <2>2, LenProperties
  <2>5. z + Len(q) = Len(q) /\ (\A i \in 1..Len(q) : q[i] = q[z + i]) /\ 1..z = {}
    BY <2>3, <2>4
  <2>6. TodoAfter(q, z)'
    BY <2>1, <2>2, <2>5 DEF TodoAfter
  <2> QED BY <2>1, <2>2, <2>3, <2>6 DEF OrderInv, Built
<1>4. CASE Resumes
  BY <1>4 DEF Resumes, resume_from_checkpoint, Starts
<1>5. CASE OfCall
  <2>1. call = "execute" /\ graph' = graph /\ Built /\ DOMAIN known = DOMAIN graph
    BY <1>5 DEF OfCall, SkipsNode, EnsuresNode, StartsNode, NodeReturns, NodeRaises, CallReturns,
                EngineInv, OrderInv
  <2>2. PICK q : q = topological_sort(graph) /\ OrdersGraph(graph, q)
    BY <2>1, OrderIsRight, EngineAssumption DEF EngineInv, GraphInv
  <2>3. CASE StartsNode
    <3>1. PICK k \in Nat : TodoAfter(q, k)
      BY <2>1, <2>2 DEF EngineInv, OrderInv
    <3>2. known' = [known EXCEPT ![NextNode] = "running"] /\ known[NextNode] = "pending" /\ todo' = todo
      BY <2>1, <2>3 DEF StartsNode, Runs
    <3>3. ASSUME NEW i \in 1..k PROVE known'[q[i]] = "completed"
      <4>1. known[q[i]] = "completed" /\ q[i] # NextNode
        BY <3>1, <3>2 DEF TodoAfter
      <4> QED BY <3>2, <4>1
    <3>4. TodoAfter(q, k)'
      BY <2>1, <3>1, <3>2, <3>3 DEF TodoAfter
    <3> QED BY <2>1, <2>2, <3>2, <3>4 DEF OrderInv, Built
  <2>4. CASE NodeReturns
    <3>1. todo # <<>> /\ known' = [known EXCEPT ![NextNode] = "completed"] /\ todo' = Tail(todo)
      BY <2>4 DEF NodeReturns
    <3>2. PICK k \in Nat : /\ TodoAfter(q, k)
                           /\ k + 1 \in Nat /\ NextNode = q[k + 1]
                           /\ \E l \in Nat : /\ Len(todo) = l + 1 /\ Len(Tail(todo)) = l
                                             /\ Tail(todo) \in Seq(DOMAIN graph)
                                             /\ \A i \in 1..l : Tail(todo)[i] = todo[i + 1]
      BY <2>1, <2>2, <3>1, HeadIsNext, EngineAssumption DEF EngineInv
    <3>3. PICK l \in Nat : /\ Len(todo) = l + 1 /\ Len(Tail(todo)) = l
                           /\ Tail(todo) \in Seq(DOMAIN graph)
                           /\ \A i \in 1..l : Tail(todo)[i] = todo[i + 1]
      BY <3>2
    <3>4. PICK m \in Nat : m = k + 1
      BY <3>2
    <3>5. m + l = Len(q) /\ \A i \in 1..l : Tail(todo)[i] = q[m + i]
      <4>1. k + (l + 1) = Len(q) /\ \A i \in 1..(l + 1) : todo[i] = q[k + i]
        BY <3>2, <3>3 DEF TodoAfter
      <4>2. ASSUME NEW i \in 1..l PROVE Tail(todo)[i] = q[m + i]
        <5>1. i + 1 \in 1..(l + 1) /\ k + (i + 1) = m + i
          BY <3>4
        <5> QED BY <3>3, <4>1, <5>1
      <4>3. m + l = Len(q)
        BY <3>4, <4>1
      <4> QED BY <4>2, <4>3
    <3>6. NextNode \in DOMAIN known
      BY <2>4 DEF NodeReturns
    <3>7. ASSUME NEW i \in 1..m PROVE known'[q[i]] = "completed"
      <4>1. CASE q[i] = NextNode
        BY <3>1, <3>6, <4>1
      <4>2. CASE q[i] # NextNode
        <5>1. i \in 1..k
          BY <3>2, <3>4, <4>2
        <5>2. known[q[i]] = "completed"
          BY <3>2, <5>1 DEF TodoAfter
        <5> QED BY <3>1, <4>2, <5>2
      <4> QED BY <4>1, <4>2
    <3>8. TodoAfter(q, m)'
      BY <2>1, <3>1, <3>3, <3>5, <3>7 DEF TodoAfter
    <3>9. DOMAIN known' = DOMAIN graph
      BY <2>1, <3>1
    <3> QED BY <2>1, <2>2, <3>8, <3>9 DEF OrderInv, Built
  <2>5. StartsNode \/ NodeReturns
    BY <1>5, <2>1 DEF OfCall, SkipsNode, EnsuresNode, NodeRaises, CallReturns
  <2> QED BY <2>3, <2>4, <2>5
<1> QED BY <1>1, <1>2, <1>3, <1>4, <1>5 DEF EngineNext, Drafts, Resumes, OfCall

\* The engine keeps its invariant.
LEMMA EngineStep == EngineInv /\ [EngineNext]_engineVars => EngineInv'
BY GraphStep, OnceStep, OrderStep DEF EngineInv

\* What is executed was validated, and is executed in order.
LEMMA EngineDoesRun == EngineInv => GraphsAgree /\ ExecutedInOrder
<1> SUFFICES ASSUME EngineInv PROVE GraphsAgree /\ ExecutedInOrder
  OBVIOUS
<1>1. GraphsAgree
  BY GraphsDoAgree, EngineAssumption DEF EngineInv, GraphInv
<1>2. ASSUME NEW n \in EngineNodes
      PROVE  /\ executed[n] <= 1
             /\ executed[n] = 1 => \A d \in graph[n] : d \in DOMAIN known /\ known[d] = "completed"
  BY DEF EngineInv, OnceInv, DependsDone
<1>3. ASSUME call = "execute", todo = <<>>, NEW n \in DOMAIN graph PROVE known[n] = "completed"
  <2>1. PICK q : q = topological_sort(graph) /\ OrdersGraph(graph, q)
    BY <1>3, OrderIsRight, EngineAssumption DEF EngineInv, GraphInv, OrderInv
  <2>2. PICK k \in Nat : TodoAfter(q, k)
    BY <1>3, <2>1 DEF EngineInv, OrderInv
  <2>3. Len(q) = k
    <3>1. Len(todo) = 0 /\ k + Len(todo) = Len(q)
      BY <1>3, <2>2, EmptySeq DEF TodoAfter
    <3> QED BY <3>1
  <2>4. Members(q) = DOMAIN graph
    <3>1. FindsCycle(graph, {})
      BY <1>3, CycleIsOne DEF EngineInv, GraphInv, OrderInv
    <3> QED BY <2>1, <3>1 DEF FindsCycle, HasCyclic, OrdersGraph
  <2>5. PICK i \in 1..k : n = q[i]
    BY <1>3, <2>1, <2>3, <2>4, LenProperties DEF Members, OrdersGraph
  <2> QED BY <2>2, <2>5 DEF TodoAfter
<1> QED BY <1>1, <1>2, <1>3 DEF ExecutedInOrder

\* The states of the nodes of the graph, what a call has left to do and how far it is.
EngineTypes ==
  /\ GraphInv
  /\ DOMAIN known \subseteq DOMAIN draft /\ \A n \in DOMAIN known : known[n] \in Statuses
  /\ todo \in Seq(DOMAIN draft) /\ call \in {"none", "execute", "resume", "lost"}
  /\ ~Built => todo = <<>>

\* Nothing was drafted.
LEMMA InitEngineTypes == EngineInit => EngineTypes
<1> SUFFICES ASSUME EngineInit PROVE EngineTypes
  OBVIOUS
<1>1. DOMAIN known = {} /\ todo = <<>> /\ <<>> \in Seq(DOMAIN draft)
  BY EmptySeq DEF EngineInit
<1>2. GraphInv
  BY InitEngine DEF EngineInv
<1> QED BY <1>1, <1>2 DEF EngineInit, EngineTypes

\* What the builder drafts while nothing runs, and what a call does to the nodes of the graph it
\* was started with.
LEMMA EngineTypesStep == EngineTypes /\ [EngineNext]_engineVars => EngineTypes'
<1> SUFFICES ASSUME EngineTypes, [EngineNext]_engineVars PROVE EngineTypes'
  OBVIOUS
<1>0. GraphInv /\ GraphInv'
  BY GraphStep DEF EngineTypes
<1>1. CASE Drafts
  <2>1. UNCHANGED <<graph, known, todo, call, executed>> /\ ~Built /\ ~Built'
    BY <1>1 DEF Drafts, add_node, remove_node, add_dependency, BuilderOnly, Built
  <2>2. DOMAIN known = {} /\ todo = <<>> /\ call = "none" /\ <<>> \in Seq(DOMAIN draft')
    BY <1>0, <2>1, EmptySeq DEF EngineTypes, GraphInv
  <2> QED BY <1>0, <2>1, <2>2 DEF EngineTypes
<1>2. CASE build \/ UNCHANGED engineVars
  <2>1. UNCHANGED <<draft, known, todo, call>> /\ (Built => Built')
    BY <1>2 DEF build, engineVars, Built
  <2> QED BY <1>0, <2>1 DEF EngineTypes
<1>3. CASE execute \/ Resumes \/ OfCall
  <2>0. Built /\ draft' = draft /\ graph' = graph /\ graph = draft /\ DOMAIN graph \subseteq Nat /\ IsGraph(graph)
    <3>1. draft' = draft /\ graph' = graph
      BY <1>3 DEF execute, Resumes, resume_from_checkpoint, Starts, OfCall, SkipsNode, EnsuresNode, StartsNode,
                  NodeReturns, NodeRaises, CallReturns
    <3>2. Built
      BY <1>0, <1>3, EmptySeq DEF EngineTypes, execute, Resumes, OfCall, SkipsNode, EnsuresNode, StartsNode,
                  NodeReturns, NodeRaises, CallReturns, GraphInv
    <3> QED BY <1>0, <3>1, <3>2, EngineAssumption DEF GraphInv
  <2>1. Built'
    BY <2>0 DEF Built
  \* It is enough to look at the states, what is left and the call.
  <2>2. SUFFICES /\ DOMAIN known' \subseteq DOMAIN graph /\ \A n \in DOMAIN known' : known'[n] \in Statuses
                 /\ todo' \in Seq(DOMAIN graph) /\ call' \in {"none", "execute", "resume", "lost"}
    BY <1>0, <2>0, <2>1 DEF EngineTypes
  <2>3. /\ DOMAIN known \subseteq DOMAIN graph /\ \A n \in DOMAIN known : known[n] \in Statuses
        /\ todo \in Seq(DOMAIN graph) /\ call \in {"none", "execute", "resume", "lost"}
    BY <2>0 DEF EngineTypes
  <2>4. topological_sort(graph) \in Seq(DOMAIN graph)
    BY <2>0, OrderIsRight DEF OrdersGraph
  <2>5. todo # <<>> => NextNode \in DOMAIN graph /\ Tail(todo) \in Seq(DOMAIN graph)
    BY <2>3, HeadTailProperties DEF NextNode
  <2>6. CASE execute
    <3>1. /\ known' = [n \in DOMAIN graph |-> "pending"] /\ call' = "execute"
          /\ todo' = topological_sort(graph)
      BY <2>6 DEF execute, Starts
    <3> QED BY <2>4, <3>1 DEF Statuses
  <2>7. CASE Resumes
    <3>1. PICK done \in SUBSET DOMAIN graph, kept \in SUBSET DOMAIN graph : resume_from_checkpoint(done, kept)
      BY <2>7 DEF Resumes
    <3>2. /\ call' = "resume" /\ todo' = topological_sort(graph)
          /\ known' = known \/ known' = Checkpoint(done, kept)
      BY <3>1 DEF resume_from_checkpoint, Starts
    <3>3. /\ DOMAIN Checkpoint(done, kept) \subseteq DOMAIN graph
          /\ \A n \in DOMAIN Checkpoint(done, kept) : Checkpoint(done, kept)[n] \in Statuses
      BY DEF Checkpoint, Statuses
    <3> QED BY <2>3, <2>4, <3>2, <3>3
  <2>8. CASE SkipsNode
    BY <2>3, <2>5, <2>8 DEF SkipsNode
  <2>9. CASE CallReturns
    BY <2>3, <2>9 DEF CallReturns
  <2>10. CASE EnsuresNode
    <3>1. known' = Ensured(NextNode) /\ UNCHANGED <<todo, call>> /\ NextNode \in DOMAIN graph
      BY <2>5, <2>10 DEF EnsuresNode
    <3> QED BY <2>3, <3>1 DEF Ensured, Statuses
  \* A node's state is written, in a call that goes on or in one that ends.
  <2>11. ASSUME NEW to \in Statuses, known' = [known EXCEPT ![NextNode] = to]
         PROVE  DOMAIN known' \subseteq DOMAIN graph /\ \A n \in DOMAIN known' : known'[n] \in Statuses
    BY <2>3, <2>11
  <2>12. CASE StartsNode
    <3>1. known' = [known EXCEPT ![NextNode] = "running"] /\ UNCHANGED <<todo, call>>
      BY <2>12 DEF StartsNode
    <3> QED BY <2>3, <2>11, <3>1 DEF Statuses
  <2>13. CASE NodeReturns
    <3>1. known' = [known EXCEPT ![NextNode] = "completed"] /\ todo' = Tail(todo) /\ call' = call /\ todo # <<>>
      BY <2>13 DEF NodeReturns
    <3> QED BY <2>3, <2>5, <2>11, <3>1 DEF Statuses
  <2>14. CASE NodeRaises
    <3>1. /\ known' = [known EXCEPT ![NextNode] = "failed"] /\ todo' = <<>> /\ call' \in {"lost", "none"}
      BY <2>14 DEF NodeRaises
    <3>2. <<>> \in Seq(DOMAIN graph)
      BY EmptySeq
    <3> QED BY <2>11, <3>1, <3>2 DEF Statuses
  <2> QED BY <1>3, <2>6, <2>7, <2>8, <2>9, <2>10, <2>12, <2>13, <2>14 DEF OfCall
<1> QED BY <1>1, <1>2, <1>3 DEF EngineNext, Drafts, Resumes, OfCall

\* The draft is a graph, and the rest is about its nodes.
LEMMA EngineTypesHold == EngineTypes => EngineTypeOK
<1> SUFFICES ASSUME EngineTypes PROVE EngineTypeOK
  OBVIOUS
<1>1. draft \in [DOMAIN draft -> SUBSET DOMAIN draft] /\ DOMAIN draft \in SUBSET EngineNodes
  BY DEF EngineTypes, GraphInv, IsGraph
<1>2. draft \in UNION {[s -> SUBSET s] : s \in SUBSET EngineNodes}
  BY <1>1
<1> QED BY <1>2 DEF EngineTypes, GraphInv, EngineTypeOK
===============================================================================
