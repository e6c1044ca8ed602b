--------------------------- MODULE LearningProofs ---------------------------
(***************************************************************************)
(* Proofs about Learning, for any number of nodes, any architecture and    *)
(* models, any size of the chunks and of the classes, whatever is lost.    *)
(*                                                                         *)
(* The actions hardly do anything but call operators, so the work is in    *)
(* lemmas about these, in the order of the module: sums over finite sets,  *)
(* the division of a class, flattening, quantization, chunks, Krum.  The   *)
(* invariant only remembers which operators were called on what; from it   *)
(* and the lemmas each property follows of one state.                      *)
(***************************************************************************)
EXTENDS Learning, FiniteSetTheorems, SequenceTheorems, WellFoundedInduction, TLAPS

-----------------------------------------------------------------------------
(* Sums over finite sets. *)

\* A set of naturals that is not empty has a least element.
LEMMA LeastOf ==
    ASSUME NEW T, T \subseteq Nat, T # {}
    PROVE  \E n \in T : \A y \in T : n <= y
<1>1. PICK n \in T : \A y \in T : ~(<<y, n>> \in OpToRel(<, Nat))
  BY NatLessThanWellFounded, WFMin
<1>2. ASSUME NEW y \in T PROVE n <= y
  <2>1. n \in Nat /\ y \in Nat OBVIOUS
  <2>2. ~(y < n) BY <1>1, <2>1 DEF OpToRel
  <2> QED BY <2>1, <2>2
<1> QED BY <1>2

\* A set of sets that has the empty set, and every other one if it has it
\* without some element, has all finite sets.
LEMMA Shrinking ==
    ASSUME NEW S, IsFiniteSet(S), NEW T, {} \in T,
           \A s \in SUBSET S : s # {} => \E x \in s : s \ {x} \in T => s \in T
    PROVE  \A s \in SUBSET S : s \in T
<1> DEFINE sizes == {n \in Nat : \E s \in SUBSET S : s \notin T /\ Cardinality(s) = n}
<1>1. ASSUME sizes # {} PROVE FALSE
  <2>1. sizes \subseteq Nat OBVIOUS
  <2>2. PICK n \in sizes : \A y \in sizes : n <= y
    <3> HIDE DEF sizes
    <3> QED BY <1>1, <2>1, LeastOf
  <2>3. PICK s \in SUBSET S : s \notin T /\ Cardinality(s) = n BY <2>2
  <2>4. s # {} BY <2>3
  <2>5. PICK x \in s : s \ {x} \in T => s \in T BY <2>4
  <2>6. IsFiniteSet(s) BY FS_Subset
  <2>7. Cardinality(s \ {x}) = n - 1 /\ n \in Nat /\ n > 0
    <3>1. Cardinality(s \ {x}) = Cardinality(s) - 1 BY <2>6, FS_RemoveElement
    <3>2. IsFiniteSet(s \ {x}) BY <2>6, FS_RemoveElement
    <3>3. Cardinality(s \ {x}) \in Nat BY <3>2, FS_CardinalityType
    <3>4. Cardinality(s) \in Nat BY <2>6, FS_CardinalityType
    <3> QED BY <2>3, <3>1, <3>3, <3>4
  <2>8. n - 1 \in Nat BY <2>7
  <2>9. s \ {x} \in SUBSET S OBVIOUS
  <2>10. n - 1 \in sizes BY <2>3, <2>5, <2>7, <2>8, <2>9
  <2>11. n <= n - 1 BY <2>2, <2>10
  <2> QED BY <2>7, <2>11
<1>2. ASSUME NEW s \in SUBSET S, s \notin T PROVE FALSE
  <2>1. IsFiniteSet(s) BY FS_Subset
  <2>2. Cardinality(s) \in Nat BY <2>1, FS_CardinalityType
  <2>3. Cardinality(s) \in sizes BY <1>2, <2>2
  <2> QED BY <1>1, <2>3
<1> QED BY <1>2

\* A set that has the empty set, and with a set the larger by one element, has
\* all parts of a finite set.
LEMMA Growing ==
    ASSUME NEW S, IsFiniteSet(S), NEW T, {} \in T,
           \A s \in SUBSET S : \A x \in S \ s : s \in T => s \cup {x} \in T
    PROVE  \A s \in SUBSET S : s \in T
<1>1. ASSUME NEW s \in SUBSET S, s # {} PROVE \E x \in s : s \ {x} \in T => s \in T
  <2>1. PICK x \in s : TRUE BY <1>1
  <2>2. s \ {x} \in SUBSET S /\ x \in S \ (s \ {x}) /\ (s \ {x}) \cup {x} = s OBVIOUS
  <2>3. s \ {x} \in T => (s \ {x}) \cup {x} \in T BY <2>2
  <2> QED BY <2>2, <2>3
<1> QED BY <1>1, Shrinking

Ints(f, S) == \A x \in S : f[x] \in Int

\* it gives the sum of f over every part of S.
Adds(it, f, S) ==
    /\ it \in [SUBSET S -> Int]
    /\ it[{}] = 0
    /\ \A s \in SUBSET S : \A x \in S \ s : it[s \cup {x}] = it[s] + f[x]

\* Such an it there is, of a finite set.
LEMMA AddsExists ==
    ASSUME NEW S, IsFiniteSet(S), NEW f, Ints(f, S)
    PROVE  \E it : Adds(it, f, S)
<1> DEFINE T == {s \in SUBSET S : \E it : Adds(it, f, s)}
<1>1. {} \in T
  <2> DEFINE it == [s \in SUBSET {} |-> 0]
  <2>1. Adds(it, f, {}) BY DEF Adds
  <2> HIDE DEF it
  <2> QED BY <2>1
<1>2. ASSUME NEW s \in T, NEW y \in S \ s PROVE s \cup {y} \in T
  <2>1. PICK it : Adds(it, f, s) OBVIOUS
  <2> DEFINE new == [q \in SUBSET (s \cup {y}) |->
                        IF y \in q THEN it[q \ {y}] + f[y] ELSE it[q]]
  <2>2. f[y] \in Int BY DEF Ints
  <2>3. ASSUME NEW q \in SUBSET (s \cup {y})
        PROVE  /\ new[q] \in Int
               /\ y \in q => q \ {y} \in SUBSET s /\ new[q] = it[q \ {y}] + f[y]
               /\ y \notin q => q \in SUBSET s /\ new[q] = it[q]
    <3>1. y \in q => q \ {y} \in SUBSET s OBVIOUS
    <3>2. y \notin q => q \in SUBSET s OBVIOUS
    <3>3. y \in q => it[q \ {y}] \in Int BY <2>1, <3>1 DEF Adds
    <3>4. y \notin q => it[q] \in Int BY <2>1, <3>2 DEF Adds
    <3>5. new[q] = IF y \in q THEN it[q \ {y}] + f[y] ELSE it[q] OBVIOUS
    <3> HIDE DEF new
    <3> QED BY <2>2, <3>1, <3>2, <3>3, <3>4, <3>5
  <2>4. new = [q \in SUBSET (s \cup {y}) |-> new[q]] OBVIOUS
  <2> HIDE DEF new
  <2>5. new \in [SUBSET (s \cup {y}) -> Int] BY <2>3, <2>4
  <2>6. new[{}] = 0
    <3>1. {} \in SUBSET (s \cup {y}) /\ y \notin {} OBVIOUS
    <3>2. new[{}] = it[{}] BY <2>3, <3>1
    <3> QED BY <2>1, <3>2 DEF Adds
  <2>7. ASSUME NEW q \in SUBSET (s \cup {y}), NEW x \in (s \cup {y}) \ q
        PROVE  new[q \cup {x}] = new[q] + f[x]
    <3>1. q \cup {x} \in SUBSET (s \cup {y}) OBVIOUS
    <3>2. CASE x = y
      <4>1. y \notin q /\ y \in q \cup {x} /\ (q \cup {x}) \ {y} = q BY <3>2
      <4>2. new[q \cup {x}] = it[(q \cup {x}) \ {y}] + f[y] BY <2>3, <3>1, <4>1
      <4>3. new[q] = it[q] BY <2>3, <4>1
      <4> QED BY <3>2, <4>1, <4>2, <4>3
    <3>3. CASE x # y /\ y \in q
      <4>1. y \in q \cup {x} /\ (q \cup {x}) \ {y} = (q \ {y}) \cup {x} BY <3>3
      <4>2. new[q \cup {x}] = it[(q \ {y}) \cup {x}] + f[y] BY <2>3, <3>1, <4>1
      <4>3. q \ {y} \in SUBSET s /\ x \in s \ (q \ {y}) BY <3>3
      <4>4. it[(q \ {y}) \cup {x}] = it[q \ {y}] + f[x] BY <2>1, <4>3 DEF Adds
      <4>5. new[q] = it[q \ {y}] + f[y] BY <2>3, <3>3
      <4>6. it[q \ {y}] \in Int BY <2>1, <4>3 DEF Adds
      <4>7. x \in S BY <4>3
      <4>8. f[x] \in Int BY <4>7 DEF Ints
      <4> QED BY <2>2, <4>2, <4>4, <4>5, <4>6, <4>8
    <3>4. CASE x # y /\ y \notin q
      <4>1. y \notin q \cup {x} BY <3>4
      <4>2. new[q \cup {x}] = it[q \cup {x}] BY <2>3, <3>1, <4>1
      <4>3. q \in SUBSET s /\ x \in s \ q BY <3>4
      <4>4. it[q \cup {x}] = it[q] + f[x] BY <2>1, <4>3 DEF Adds
      <4>5. new[q] = it[q] BY <2>3, <3>4
      <4> QED BY <4>2, <4>4, <4>5
    <3> QED BY <3>2, <3>3, <3>4
  <2>8. Adds(new, f, s \cup {y}) BY <2>5, <2>6, <2>7 DEF Adds
  <2> QED BY <2>8
<1>3. \A s \in SUBSET S : \A x \in S \ s : s \in T => s \cup {x} \in T BY <1>2
<1>4. S \in T
  <2> HIDE DEF T
  <2>1. \A s \in SUBSET S : s \in T BY <1>1, <1>3, Growing
  <2> QED BY <2>1
<1> QED BY <1>4

\* The sum is defined by recursion over the parts of S, each without the
\* element chosen.
Folds(it, f, S) ==
    it = [s \in SUBSET S |->
            IF s = {} THEN 0
            ELSE f[CHOOSE x \in s : TRUE] + it[s \ {CHOOSE x \in s : TRUE}]]

\* SumOver is what it gives of the whole set.
LEMMA SumUnfolds ==
    ASSUME NEW S, NEW f, \E it : Folds(it, f, S)
    PROVE  \E it : Folds(it, f, S) /\ SumOver(f, S) = it[S]
<1> DEFINE it == CHOOSE it : Folds(it, f, S)
<1>1. Folds(it, f, S) OBVIOUS
<1>2. SumOver(f, S) = it[S]
  BY Zenon DEF SumOver, MapThenSumSet, MapThenFoldSet, Folds
<1> QED BY <1>1, <1>2

\* What adds up folds: the element chosen is as good as any.
LEMMA AddsFolds ==
    ASSUME NEW S, NEW f, NEW it, Adds(it, f, S), Ints(f, S)
    PROVE  Folds(it, f, S)
<1> DEFINE step(s) == IF s = {} THEN 0
                      ELSE f[CHOOSE x \in s : TRUE] + it[s \ {CHOOSE x \in s : TRUE}]
<1>1. ASSUME NEW s \in SUBSET S PROVE it[s] = step(s)
  <2>1. CASE s = {} BY <2>1 DEF Adds
  <2>2. CASE s # {}
    <3>1. PICK c : c = CHOOSE x \in s : TRUE OBVIOUS
    <3>2. c \in s BY <2>2, <3>1
    <3>3. s \ {c} \in SUBSET S /\ c \in S \ (s \ {c}) /\ (s \ {c}) \cup {c} = s BY <3>2
    <3>4. it[(s \ {c}) \cup {c}] = it[s \ {c}] + f[c] BY <3>3 DEF Adds
    <3>5. it[s \ {c}] \in Int BY <3>3 DEF Adds
    <3>6. f[c] \in Int BY <3>3 DEF Ints
    <3>7. it[s] = it[s \ {c}] + f[c] BY <3>3, <3>4, Zenon
    <3>9. it[s] = f[c] + it[s \ {c}] BY <3>5, <3>6, <3>7
    <3>8. step(s) = f[c] + it[s \ {c}] BY <2>2, <3>1, Zenon
    <3> QED BY <3>8, <3>9
  <2> QED BY <2>1, <2>2
<1>2. it = [s \in SUBSET S |-> it[s]] BY DEF Adds
<1>3. it = [s \in SUBSET S |-> step(s)]
  <2> HIDE DEF step
  <2> QED BY <1>1, <1>2
<1> QED BY <1>3, Zenon DEF Folds

\* All that fold agree.
LEMMA FoldsUnique ==
    ASSUME NEW S, IsFiniteSet(S), NEW f, NEW it, Folds(it, f, S), NEW other, Folds(other, f, S)
    PROVE  it[S] = other[S]
<1> DEFINE T == {s \in SUBSET S : it[s] = other[s]}
<1>1. ASSUME NEW s \in SUBSET S
      PROVE  /\ it[s] = IF s = {} THEN 0
                        ELSE f[CHOOSE x \in s : TRUE] + it[s \ {CHOOSE x \in s : TRUE}]
             /\ other[s] = IF s = {} THEN 0
                        ELSE f[CHOOSE x \in s : TRUE] + other[s \ {CHOOSE x \in s : TRUE}]
  BY Zenon DEF Folds
<1>2. {} \in T
  <2>1. it[{}] = 0 /\ other[{}] = 0 BY <1>1
  <2> QED BY <2>1
<1>3. ASSUME NEW s \in SUBSET S, s # {} PROVE \E x \in s : s \ {x} \in T => s \in T
  <2>1. PICK c : c = CHOOSE x \in s : TRUE OBVIOUS
  <2>2. c \in s BY <1>3, <2>1
  <2>3. it[s] = f[c] + it[s \ {c}] /\ other[s] = f[c] + other[s \ {c}]
    BY <1>1, <1>3, <2>1, Zenon
  <2>4. s \ {c} \in T => it[s] = other[s] BY <2>3
  <2> QED BY <2>2, <2>4
<1>4. S \in T
  <2> HIDE DEF T
  <2>1. \A s \in SUBSET S : s \in T BY <1>2, <1>3, Shrinking
  <2> QED BY <2>1
<1> QED BY <1>4

\* What is added up over the parts of a set are the sums.
LEMMA SumIs ==
    ASSUME NEW S, IsFiniteSet(S), NEW f, NEW it, Adds(it, f, S), Ints(f, S)
    PROVE  SumOver(f, S) = it[S]
<1>1. Folds(it, f, S) BY AddsFolds
<1>2. PICK other : Folds(other, f, S) /\ SumOver(f, S) = other[S] BY <1>1, SumUnfolds
<1> QED BY <1>1, <1>2, FoldsUnique

\* Sums of integers are integers.
LEMMA SumType ==
    ASSUME NEW S, IsFiniteSet(S), NEW f, Ints(f, S)
    PROVE  SumOver(f, S) \in Int
<1>1. PICK it : Adds(it, f, S) BY AddsExists
<1>2. SumOver(f, S) = it[S] BY <1>1, SumIs
<1>3. S \in SUBSET S OBVIOUS
<1> QED BY <1>1, <1>2, <1>3 DEF Adds

\* The sum over nothing.
LEMMA SumEmpty ==
    ASSUME NEW f
    PROVE  SumOver(f, {}) = 0
<1>1. IsFiniteSet({}) BY FS_EmptySet
<1>2. Ints(f, {}) BY DEF Ints
<1>3. PICK it : Adds(it, f, {}) BY <1>1, <1>2, AddsExists
<1>4. SumOver(f, {}) = it[{}] BY <1>1, <1>2, <1>3, SumIs
<1> QED BY <1>3, <1>4 DEF Adds

\* The sum with one element more.
LEMMA SumAdd ==
    ASSUME NEW S, IsFiniteSet(S), NEW x, x \notin S, NEW f, Ints(f, S \cup {x})
    PROVE  SumOver(f, S \cup {x}) = SumOver(f, S) + f[x]
<1>1. IsFiniteSet(S \cup {x}) BY FS_AddElement
<1>2. PICK it : Adds(it, f, S \cup {x}) BY <1>1, AddsExists
<1>3. SumOver(f, S \cup {x}) = it[S \cup {x}] BY <1>1, <1>2, SumIs
<1>4. it[S \cup {x}] = it[S] + f[x] BY <1>2 DEF Adds
<1> DEFINE part == [s \in SUBSET S |-> it[s]]
<1>5. Adds(part, f, S)
  <2>1. \A s \in SUBSET S : s \in SUBSET (S \cup {x}) OBVIOUS
  <2>2. part \in [SUBSET S -> Int]
    <3>1. \A s \in SUBSET S : it[s] \in Int BY <1>2, <2>1 DEF Adds
    <3> QED BY <3>1
  <2>3. part[{}] = 0 BY <1>2 DEF Adds
  <2>4. ASSUME NEW s \in SUBSET S, NEW y \in S \ s PROVE part[s \cup {y}] = part[s] + f[y]
    <3>1. it[s \cup {y}] = it[s] + f[y] BY <1>2 DEF Adds
    <3>2. s \cup {y} \in SUBSET S OBVIOUS
    <3> QED BY <3>1, <3>2
  <2> HIDE DEF part
  <2> QED BY <2>2, <2>3, <2>4 DEF Adds
<1>6. Ints(f, S) BY DEF Ints
<1>7. part[S] = it[S] OBVIOUS
<1> HIDE DEF part
<1>8. SumOver(f, S) = part[S] BY <1>5, <1>6, SumIs
<1> QED BY <1>3, <1>4, <1>7, <1>8

\* A part of a finite set has a sum too.
LEMMA SumPart ==
    ASSUME NEW S, IsFiniteSet(S), NEW f, Ints(f, S), NEW s \in SUBSET S
    PROVE  IsFiniteSet(s) /\ Ints(f, s) /\ SumOver(f, s) \in Int
<1>1. IsFiniteSet(s) BY FS_Subset
<1>2. Ints(f, s) BY DEF Ints
<1> QED BY <1>1, <1>2, SumType

\* SumAdd for the parts of a set.
LEMMA SumStep ==
    ASSUME NEW S, IsFiniteSet(S), NEW f, Ints(f, S), NEW s \in SUBSET S, NEW x \in S \ s
    PROVE  /\ SumOver(f, s \cup {x}) = SumOver(f, s) + f[x]
           /\ SumOver(f, s) \in Int /\ f[x] \in Int
<1>1. IsFiniteSet(s) /\ SumOver(f, s) \in Int BY SumPart
<1>2. Ints(f, s \cup {x}) /\ f[x] \in Int BY DEF Ints
<1> QED BY <1>1, <1>2, SumAdd

\* Sums of terms that are close to each other, up to w[x], are close to each
\* other, up to the sum of w.
LEMMA SumClose ==
    ASSUME NEW S, IsFiniteSet(S),
           NEW f, Ints(f, S), NEW g, Ints(g, S), NEW w, Ints(w, S),
           \A x \in S : f[x] <= g[x] + w[x]
    PROVE  SumOver(f, S) <= SumOver(g, S) + SumOver(w, S)
<1> DEFINE T == {s \in SUBSET S : SumOver(f, s) <= SumOver(g, s) + SumOver(w, s)}
<1>1. {} \in T
  <2>1. SumOver(f, {}) = 0 /\ SumOver(g, {}) = 0 /\ SumOver(w, {}) = 0 BY SumEmpty
  <2> QED BY <2>1
<1>2. ASSUME NEW s \in SUBSET S, NEW x \in S \ s, s \in T PROVE s \cup {x} \in T
  <2>1. PICK a \in Int, b \in Int, c \in Int :
           a = SumOver(f, s) /\ b = SumOver(g, s) /\ c = SumOver(w, s)
    BY SumPart
  <2>2. PICK u \in Int, v \in Int, y \in Int : u = f[x] /\ v = g[x] /\ y = w[x]
    BY DEF Ints
  <2>3. /\ SumOver(f, s \cup {x}) = a + u
        /\ SumOver(g, s \cup {x}) = b + v
        /\ SumOver(w, s \cup {x}) = c + y
    BY <2>1, <2>2, SumStep
  <2>4. a <= b + c BY <1>2, <2>1
  <2>5. u <= v + y BY <2>2
  <2>6. a + u <= (b + v) + (c + y) BY <2>4, <2>5
  <2>7. SumOver(f, s \cup {x}) <= SumOver(g, s \cup {x}) + SumOver(w, s \cup {x})
    BY <2>3, <2>6
  <2> QED BY <2>7
<1>3. S \in T
  <2> HIDE DEF T
  <2>1. \A s \in SUBSET S : s \in T BY <1>1, <1>2, Growing
  <2> QED BY <2>1
<1> QED BY <1>3

\* The sum of zeros.
LEMMA SumZero ==
    ASSUME NEW S, IsFiniteSet(S), NEW f, \A x \in S : f[x] = 0
    PROVE  SumOver(f, S) = 0
<1> DEFINE T == {s \in SUBSET S : SumOver(f, s) = 0}
<1>1. {} \in T BY SumEmpty
<1>2. Ints(f, S) BY DEF Ints
<1>3. ASSUME NEW s \in SUBSET S, NEW x \in S \ s, s \in T PROVE s \cup {x} \in T
  <2>1. SumOver(f, s \cup {x}) = 0 + f[x] /\ f[x] = 0 BY <1>2, <1>3, SumStep
  <2> QED BY <2>1
<1>4. S \in T
  <2> HIDE DEF T
  <2>1. \A s \in SUBSET S : s \in T BY <1>1, <1>3, Growing
  <2> QED BY <2>1
<1> QED BY <1>4

\* Less in each place is less in sum.
LEMMA SumLeq ==
    ASSUME NEW S, IsFiniteSet(S), NEW f, Ints(f, S), NEW g, Ints(g, S),
           \A x \in S : f[x] <= g[x]
    PROVE  SumOver(f, S) <= SumOver(g, S)
<1> DEFINE w == [x \in S |-> 0]
<1>1. Ints(w, S) /\ \A x \in S : w[x] = 0 BY DEF Ints
<1> HIDE DEF w
<1>2. \A x \in S : f[x] <= g[x] + w[x] BY <1>1 DEF Ints
<1>3. SumOver(f, S) <= SumOver(g, S) + SumOver(w, S) BY <1>1, <1>2, SumClose
<1>4. SumOver(w, S) = 0 BY <1>1, SumZero
<1>5. SumOver(f, S) \in Int /\ SumOver(g, S) \in Int BY SumType
<1> QED BY <1>3, <1>4, <1>5

\* What agrees on the set has the same sum.
LEMMA SumSame ==
    ASSUME NEW S, IsFiniteSet(S), NEW f, NEW g, Ints(f, S), \A x \in S : f[x] = g[x]
    PROVE  SumOver(f, S) = SumOver(g, S)
<1>1. Ints(g, S) /\ \A x \in S : f[x] <= g[x] /\ g[x] <= f[x] BY DEF Ints
<1>2. SumOver(f, S) <= SumOver(g, S) BY <1>1, SumLeq
<1>3. SumOver(g, S) <= SumOver(f, S) BY <1>1, SumLeq
<1>4. SumOver(f, S) \in Int /\ SumOver(g, S) \in Int BY <1>1, SumType
<1> QED BY <1>2, <1>3, <1>4

\* Sums of naturals are naturals.
LEMMA SumNat ==
    ASSUME NEW S, IsFiniteSet(S), NEW f, \A x \in S : f[x] \in Nat
    PROVE  SumOver(f, S) \in Nat
<1> DEFINE zero == [x \in S |-> 0]
<1>1. Ints(zero, S) /\ \A x \in S : zero[x] = 0 BY DEF Ints
<1> HIDE DEF zero
<1>2. Ints(f, S) /\ \A x \in S : zero[x] <= f[x] BY <1>1 DEF Ints
<1>3. SumOver(zero, S) <= SumOver(f, S) BY <1>1, <1>2, SumLeq
<1>4. SumOver(zero, S) = 0 BY <1>1, SumZero
<1>5. SumOver(f, S) \in Int BY <1>2, SumType
<1> QED BY <1>3, <1>4, <1>5

\* Terms that are not negative: a part of them adds up to at most as much.
LEMMA SumPartLeq ==
    ASSUME NEW S, IsFiniteSet(S), NEW f, \A x \in S : f[x] \in Nat, NEW A \in SUBSET S
    PROVE  SumOver(f, A) <= SumOver(f, S)
<1> DEFINE T == {s \in SUBSET S : SumOver(f, A \cap s) <= SumOver(f, s)}
<1>1. {} \in T
  <2>1. A \cap {} = {} /\ SumOver(f, {}) = 0 BY SumEmpty
  <2> QED BY <2>1
<1>2. Ints(f, S) BY DEF Ints
<1>3. ASSUME NEW s \in SUBSET S, NEW x \in S \ s, s \in T PROVE s \cup {x} \in T
  <2>1. PICK a \in Int, b \in Int, u \in Nat :
           a = SumOver(f, A \cap s) /\ b = SumOver(f, s) /\ u = f[x]
    <3>1. A \cap s \in SUBSET S OBVIOUS
    <3> QED BY <1>2, <3>1, SumPart
  <2>2. SumOver(f, s \cup {x}) = b + u BY <1>2, <2>1, SumStep
  <2>3. SumOver(f, A \cap (s \cup {x})) \in {a, a + u}
    <3>1. CASE x \in A
      <4>1. A \cap (s \cup {x}) = (A \cap s) \cup {x} BY <3>1
      <4>2. A \cap s \in SUBSET S /\ x \in S \ (A \cap s) OBVIOUS
      <4>3. SumOver(f, (A \cap s) \cup {x}) = a + u BY <1>2, <2>1, <4>2, SumStep
      <4> QED BY <4>1, <4>3
    <3>2. CASE x \notin A
      <4>1. A \cap (s \cup {x}) = A \cap s BY <3>2
      <4> QED BY <2>1, <4>1
    <3> QED BY <3>1, <3>2
  <2>4. a <= b BY <1>3, <2>1
  <2>5. a <= b + u /\ a + u <= b + u BY <2>4
  <2>6. SumOver(f, A \cap (s \cup {x})) <= SumOver(f, s \cup {x}) BY <2>2, <2>3, <2>5
  <2> QED BY <2>6
<1>4. S \in T
  <2> HIDE DEF T
  <2>1. \A s \in SUBSET S : s \in T BY <1>1, <1>3, Growing
  <2> QED BY <2>1
<1>5. A \cap S = A OBVIOUS
<1> QED BY <1>4, <1>5

\* No summand is larger than a sum of naturals.
LEMMA SumTerm ==
    ASSUME NEW S, IsFiniteSet(S), NEW f, \A x \in S : f[x] \in Nat, NEW y \in S
    PROVE  f[y] <= SumOver(f, S)
<1>1. SumOver(f, {y}) <= SumOver(f, S) BY SumPartLeq
<1>2. SumOver(f, {} \cup {y}) = SumOver(f, {}) + f[y]
  <2>1. {} \in SUBSET S /\ y \in S \ {} OBVIOUS
  <2>2. Ints(f, S) BY DEF Ints
  <2>3. ASSUME NEW s \in SUBSET S, s = {}
        PROVE  SumOver(f, s \cup {y}) = SumOver(f, s) + f[y]
    <3>1. y \in S \ s BY <2>1, <2>3
    <3> QED BY <2>2, <3>1, SumStep
  <2> QED BY <2>1, <2>3
<1>3. SumOver(f, {}) = 0 /\ {} \cup {y} = {y} BY SumEmpty
<1>4. SumOver(f, {y}) = f[y] BY <1>2, <1>3
<1> QED BY <1>1, <1>4

\* n terms of at most b each add up to at most n * b.
LEMMA SumBound ==
    ASSUME NEW S, IsFiniteSet(S), NEW f, Ints(f, S), NEW b \in Int, \A x \in S : f[x] <= b
    PROVE  SumOver(f, S) <= Cardinality(S) * b
<1> DEFINE T == {s \in SUBSET S : SumOver(f, s) <= Cardinality(s) * b}
<1>1. {} \in T
  <2>1. SumOver(f, {}) = 0 /\ Cardinality({}) = 0 /\ 0 * b = 0 BY SumEmpty, FS_EmptySet
  <2> QED BY <2>1
<1>2. ASSUME NEW s \in SUBSET S, NEW x \in S \ s, s \in T PROVE s \cup {x} \in T
  <2>1. IsFiniteSet(s) /\ SumOver(f, s) \in Int BY SumPart
  <2>2. PICK a \in Int, u \in Int, n \in Nat :
           a = SumOver(f, s) /\ u = f[x] /\ n = Cardinality(s)
    BY <2>1, FS_CardinalityType DEF Ints
  <2>3. SumOver(f, s \cup {x}) = a + u BY <2>2, SumStep
  <2>4. Cardinality(s \cup {x}) = n + 1 BY <2>1, <2>2, FS_AddElement
  <2>5. a <= n * b /\ u <= b BY <1>2, <2>2
  <2>6. n * b \in Int /\ (n + 1) * b = n * b + b OBVIOUS
  <2>7. a + u <= n * b + b BY <2>5, <2>6
  <2>8. SumOver(f, s \cup {x}) <= Cardinality(s \cup {x}) * b BY <2>3, <2>4, <2>6, <2>7
  <2> QED BY <2>8
<1>3. S \in T
  <2> HIDE DEF T
  <2>1. \A s \in SUBSET S : s \in T BY <1>1, <1>2, Growing
  <2> QED BY <2>1
<1> QED BY <1>3

\* A common factor can be taken out.
LEMMA SumTimes ==
    ASSUME NEW S, IsFiniteSet(S), NEW f, Ints(f, S), NEW k \in Int,
           NEW g, \A x \in S : g[x] = k * f[x]
    PROVE  SumOver(g, S) = k * SumOver(f, S)
<1> DEFINE T == {s \in SUBSET S : SumOver(g, s) = k * SumOver(f, s)}
<1>1. {} \in T
  <2>1. SumOver(f, {}) = 0 /\ SumOver(g, {}) = 0 /\ k * 0 = 0 BY SumEmpty
  <2> QED BY <2>1
<1>2. Ints(g, S) BY DEF Ints
<1>3. ASSUME NEW s \in SUBSET S, NEW x \in S \ s, s \in T PROVE s \cup {x} \in T
  <2>1. PICK a \in Int, u \in Int : a = SumOver(f, s) /\ u = f[x] BY SumPart DEF Ints
  <2>2. SumOver(f, s \cup {x}) = a + u BY <2>1, SumStep
  <2>3. SumOver(g, s) = k * a /\ g[x] = k * u BY <1>3, <2>1
  <2>4. SumOver(g, s \cup {x}) = k * a + k * u BY <1>2, <2>3, SumStep
  <2>5. k * a + k * u = k * (a + u) OBVIOUS
  <2>6. SumOver(g, s \cup {x}) = k * SumOver(f, s \cup {x}) BY <2>2, <2>4, <2>5
  <2> QED BY <2>6
<1>4. S \in T
  <2> HIDE DEF T
  <2>1. \A s \in SUBSET S : s \in T BY <1>1, <1>3, Growing
  <2> QED BY <2>1
<1> QED BY <1>4

\* The terms may be found under other names.
LEMMA SumRenamed ==
    ASSUME NEW S, IsFiniteSet(S), NEW h, \A x, y \in S : h[x] = h[y] => x = y,
           NEW f, Ints(f, S), NEW g, \A x \in S : g[h[x]] = f[x]
    PROVE  SumOver(g, {h[x] : x \in S}) = SumOver(f, S)
<1> DEFINE T == {s \in SUBSET S : SumOver(g, {h[x] : x \in s}) = SumOver(f, s)}
<1>1. {} \in T
  <2>1. {h[x] : x \in {}} = {} OBVIOUS
  <2> QED BY <2>1, SumEmpty
<1>2. IsFiniteSet({h[x] : x \in S})
  <2> DEFINE map == [x \in S |-> h[x]]
             all == {h[x] : x \in S}
  <2>1. map \in Surjection(S, all) BY DEF Surjection
  <2> HIDE DEF map, all
  <2>2. IsFiniteSet(all) BY <2>1, FS_Surjection
  <2> QED BY <2>2 DEF all
<1>3. Ints(g, {h[x] : x \in S}) BY DEF Ints
<1>4. ASSUME NEW s \in SUBSET S, NEW y \in S \ s, s \in T PROVE s \cup {y} \in T
  <2>1. {h[x] : x \in s \cup {y}} = {h[x] : x \in s} \cup {h[y]} OBVIOUS
  <2>2. h[y] \notin {h[x] : x \in s} OBVIOUS
  <2>3. {h[x] : x \in s} \in SUBSET {h[x] : x \in S} /\ h[y] \in {h[x] : x \in S} OBVIOUS
  <2>4. SumOver(g, {h[x] : x \in s} \cup {h[y]}) = SumOver(g, {h[x] : x \in s}) + g[h[y]]
    <3> DEFINE all == {h[x] : x \in S}
               part == {h[x] : x \in s}
    <3> HIDE DEF all, part
    <3>1. part \in SUBSET all /\ h[y] \in all \ part BY <2>2, <2>3 DEF all, part
    <3>2. IsFiniteSet(all) /\ Ints(g, all) BY <1>2, <1>3 DEF all
    <3>3. SumOver(g, part \cup {h[y]}) = SumOver(g, part) + g[h[y]] BY <3>1, <3>2, SumStep
    <3> QED BY <3>3 DEF part
  <2>5. SumOver(f, s \cup {y}) = SumOver(f, s) + f[y] BY SumStep
  <2>6. SumOver(g, {h[x] : x \in s}) = SumOver(f, s) /\ g[h[y]] = f[y] BY <1>4
  <2>7. SumOver(g, {h[x] : x \in s \cup {y}}) = SumOver(f, s \cup {y})
    BY <2>1, <2>4, <2>5, <2>6, Zenon
  <2> QED BY <2>7
<1>5. S \in T
  <2> HIDE DEF T
  <2>1. \A s \in SUBSET S : s \in T BY <1>1, <1>4, Growing
  <2> QED BY <2>1
<1> QED BY <1>5

\* The sum of a row grows by its next element.
LEMMA SumNext ==
    ASSUME NEW a \in Int, NEW b \in Int, a <= b, NEW f, Ints(f, a..b)
    PROVE  SumOver(f, a..b) = SumOver(f, a..b - 1) + f[b]
<1>1. (a..b - 1) \cup {b} = a..b /\ b \notin a..b - 1 OBVIOUS
<1>2. IsFiniteSet(a..b - 1) BY FS_Interval
<1> QED BY <1>1, <1>2, SumAdd

-----------------------------------------------------------------------------
(* The division of a class among the nodes. *)

\* Rounding down.
LEMMA Floor ==
    ASSUME NEW x \in Nat, NEW k \in Nat \ {0}
    PROVE  x \div k \in Nat /\ k * (x \div k) <= x
OBVIOUS

\* A common factor that is not 0 can be cancelled.
LEMMA Cancel ==
    ASSUME NEW x \in Nat, NEW y \in Nat, NEW k \in Nat \ {0}, k * x <= k * y
    PROVE  x <= y
OBVIOUS

Draws == [size : Nat, share : Shares]

\* What load_partition counts: nobody gets less than nothing, together the class.
LEMMA CountsAre ==
    ASSUME NEW d \in Draws
    PROVE  Counts(d) \in [Nodes -> Nat] /\ SumOver(Counts(d), Nodes) = d.size
<1> DEFINE floor == [n \in Nodes |-> (d.share[n] * d.size) \div Denominator]
           last == NNodes - 1
           before == 0..NNodes - 2
           rest == SumOver(floor, before)
           up == [n \in Nodes |-> Denominator * floor[n]]
           whole == [n \in Nodes |-> d.size * d.share[n]]
<1>1. /\ NNodes \in Nat /\ NNodes > 1 /\ Denominator \in Nat \ {0} /\ d.size \in Nat
      /\ d.share \in [Nodes -> 0..Denominator] /\ SumOver(d.share, Nodes) = Denominator
  BY LearningAssumption DEF Draws, Shares
<1>2. /\ Nodes = before \cup {last} /\ last \notin before /\ before \in SUBSET Nodes
      /\ last \in Nodes /\ Nodes = 0..last /\ before = 0..last - 1 /\ 0 <= last /\ last \in Nat
  BY <1>1 DEF Nodes
<1>3. IsFiniteSet(Nodes) /\ IsFiniteSet(before)
  <2>1. IsFiniteSet(Nodes) BY <1>1, FS_Interval DEF Nodes
  <2>2. IsFiniteSet(before) BY <1>1, FS_Interval
  <2> QED BY <2>1, <2>2
<1>4. ASSUME NEW n \in Nodes
      PROVE  /\ floor[n] \in Nat /\ d.share[n] \in Nat
             /\ up[n] = Denominator * floor[n] /\ whole[n] = d.size * d.share[n]
             /\ up[n] \in Nat /\ whole[n] \in Nat /\ up[n] <= whole[n]
  <2>1. PICK x \in Nat, k \in Nat \ {0}, z \in Nat :
           x = d.share[n] /\ k = Denominator /\ z = d.size
    BY <1>1
  <2>2. floor[n] = (x * z) \div k BY <2>1
  <2>3. x * z \in Nat /\ z * x = x * z OBVIOUS
  <2>4. (x * z) \div k \in Nat /\ k * ((x * z) \div k) <= x * z BY <2>3, Floor
  <2>5. PICK q \in Nat : q = floor[n] BY <2>2, <2>4
  <2>6. up[n] = k * q /\ whole[n] = z * x BY <2>1, <2>5
  <2>7. k * q <= z * x BY <2>2, <2>3, <2>4, <2>5
  <2>8. k * q \in Nat OBVIOUS
  <2> QED BY <2>1, <2>3, <2>5, <2>6, <2>7, <2>8
<1> HIDE DEF floor, up, whole
<1>5. Ints(floor, before) /\ Ints(up, before) /\ Ints(whole, before) /\ Ints(d.share, before)
  BY <1>2, <1>4 DEF Ints
<1>6. rest \in Nat
  <2>1. \A n \in before : floor[n] \in Nat BY <1>2, <1>4
  <2> QED BY <1>3, <2>1, SumNat
<1>7. rest <= d.size
  <2>1. PICK s \in Int : s = SumOver(d.share, before) BY <1>3, <1>5, SumType
  <2>2. s <= Denominator
    <3>1. \A n \in Nodes : d.share[n] \in Nat BY <1>4
    <3>2. SumOver(d.share, before) <= SumOver(d.share, Nodes)
      BY <1>2, <1>3, <3>1, SumPartLeq
    <3> QED BY <1>1, <2>1, <3>2
  <2>3. SumOver(up, before) = Denominator * rest
    <3>1. \A n \in before : up[n] = Denominator * floor[n] BY <1>2, <1>4
    <3>2. Denominator \in Int BY <1>1
    <3> QED BY <1>3, <1>5, <3>1, <3>2, SumTimes
  <2>4. SumOver(whole, before) = d.size * s
    <3>1. \A n \in before : whole[n] = d.size * d.share[n] BY <1>2, <1>4
    <3>2. d.size \in Int BY <1>1
    <3> QED BY <1>3, <1>5, <2>1, <3>1, <3>2, SumTimes
  <2>5. SumOver(up, before) <= SumOver(whole, before)
    <3>1. \A n \in before : up[n] <= whole[n] BY <1>2, <1>4
    <3> QED BY <1>3, <1>5, <3>1, SumLeq
  <2>6. PICK k \in Nat \ {0}, z \in Nat, r \in Nat : k = Denominator /\ z = d.size /\ r = rest
    BY <1>1, <1>6
  <2>7. k * r <= z * s BY <2>3, <2>4, <2>5, <2>6
  <2>8. z * s <= z * k
    <3>1. s <= k BY <2>2, <2>6
    <3> QED BY <2>6, <3>1
  <2>9. z * s \in Int /\ z * k = k * z /\ k * z \in Int /\ k * r \in Int OBVIOUS
  <2>10. k * r <= k * z BY <2>7, <2>8, <2>9
  <2>11. r <= z BY <2>10, Cancel
  <2> QED BY <2>6, <2>11
<1>8. Counts(d) = [floor EXCEPT ![last] = d.size - rest] BY DEF Counts, floor
<1>9. floor = [n \in Nodes |-> floor[n]] BY DEF floor
<1>10. /\ \A n \in before : Counts(d)[n] = floor[n]
       /\ Counts(d)[last] = d.size - rest
       /\ Counts(d) = [n \in Nodes |-> Counts(d)[n]]
  BY <1>2, <1>8, <1>9
<1>11. d.size - rest \in Nat BY <1>1, <1>6, <1>7
<1>12. \A n \in Nodes : Counts(d)[n] \in Nat BY <1>2, <1>4, <1>10, <1>11
<1>13. SumOver(Counts(d), 0..last) = SumOver(Counts(d), 0..last - 1) + Counts(d)[last]
  <2>1. Ints(Counts(d), 0..last) BY <1>2, <1>12 DEF Ints
  <2> HIDE DEF last
  <2> QED BY <1>2, <2>1, SumNext
<1>14. SumOver(Counts(d), before) = rest
  <2>1. \A n \in before : floor[n] = Counts(d)[n] BY <1>10
  <2>2. SumOver(floor, before) = SumOver(Counts(d), before) BY <1>3, <1>5, <2>1, SumSame
  <2> QED BY <2>2
<1>15. SumOver(Counts(d), Nodes) = rest + (d.size - rest) BY <1>2, <1>10, <1>13, <1>14
<1>16. SumOver(Counts(d), Nodes) = d.size BY <1>1, <1>6, <1>15
<1> QED BY <1>10, <1>12, <1>16

\* What the nodes before n take.
Taken(d, n) == SumOver(Counts(d), 0..n - 1)

\* Where the parts of the nodes begin: one where the last ended.
LEMMA TakenIs ==
    ASSUME NEW d \in Draws
    PROVE  /\ \A n \in 0..NNodes : Taken(d, n) \in Nat
           /\ Taken(d, 0) = 0 /\ Taken(d, NNodes) = d.size
           /\ \A n \in Nodes : Partition(d, n) = Taken(d, n) + 1..Taken(d, n + 1)
           /\ \A m, n \in 0..NNodes : m <= n => Taken(d, m) <= Taken(d, n)
<1>1. NNodes \in Nat /\ Nodes = 0..NNodes - 1 /\ IsFiniteSet(Nodes)
  <2>1. NNodes \in Nat BY LearningAssumption
  <2> QED BY <2>1, FS_Interval DEF Nodes
<1>2. (\A n \in Nodes : Counts(d)[n] \in Nat) /\ SumOver(Counts(d), Nodes) = d.size
  BY CountsAre
<1>3. Ints(Counts(d), Nodes) BY <1>2 DEF Ints
<1>4. ASSUME NEW n \in 0..NNodes
      PROVE  /\ 0..n - 1 \in SUBSET Nodes /\ IsFiniteSet(0..n - 1)
             /\ \A i \in 0..n - 1 : Counts(d)[i] \in Nat
  <2>1. 0..n - 1 \in SUBSET Nodes BY <1>1
  <2> QED BY <1>1, <1>2, <2>1, FS_Subset
<1>5. \A n \in 0..NNodes : Taken(d, n) \in Nat BY <1>4, SumNat DEF Taken
<1>6. Taken(d, 0) = 0
  <2>1. 0..0 - 1 = {} OBVIOUS
  <2> QED BY <2>1, SumEmpty DEF Taken
<1>7. Taken(d, NNodes) = d.size BY <1>1, <1>2 DEF Taken
<1>8. ASSUME NEW n \in Nodes PROVE Partition(d, n) = Taken(d, n) + 1..Taken(d, n + 1)
  <2>1. n \in Nat /\ 0 <= n /\ n \in Int /\ n + 1 - 1 = n /\ 0..n \in SUBSET Nodes
    BY <1>1
  <2>2. Ints(Counts(d), 0..n) BY <1>3, <2>1 DEF Ints
  <2>3. SumOver(Counts(d), 0..n) = SumOver(Counts(d), 0..n - 1) + Counts(d)[n]
    BY <2>1, <2>2, SumNext
  <2>4. (n + 1) - 1 = n BY <2>1
  <2>5. Taken(d, n + 1) = Taken(d, n) + Counts(d)[n] BY <2>3, <2>4 DEF Taken
  <2> QED BY <2>5 DEF Partition, Taken
<1>9. ASSUME NEW m \in 0..NNodes, NEW n \in 0..NNodes, m <= n
      PROVE  Taken(d, m) <= Taken(d, n)
  <2>1. 0..m - 1 \in SUBSET (0..n - 1) BY <1>1, <1>9
  <2>2. IsFiniteSet(0..n - 1) /\ \A i \in 0..n - 1 : Counts(d)[i] \in Nat BY <1>4
  <2> QED BY <2>1, <2>2, SumPartLeq DEF Taken
<1> QED BY <1>5, <1>6, <1>7, <1>8, <1>9

\* The parts are disjoint and together the class.
LEMMA PartitionIs ==
    ASSUME NEW d \in Draws
    PROVE  /\ \A i \in 1..d.size : \E n \in Nodes : i \in Partition(d, n)
           /\ \A n, o \in Nodes : n # o => Partition(d, n) \cap Partition(d, o) = {}
<1>1. NNodes \in Nat /\ NNodes > 1 /\ Nodes = 0..NNodes - 1 BY LearningAssumption DEF Nodes
<1>2. d.size \in Nat BY DEF Draws
<1>3. ASSUME NEW i \in 1..d.size PROVE \E n \in Nodes : i \in Partition(d, n)
  <2> DEFINE enough == {n \in 0..NNodes : i <= Taken(d, n)}
  <2>1. enough \subseteq Nat BY <1>1
  <2>2. NNodes \in enough
    <3>1. NNodes \in 0..NNodes /\ i <= d.size BY <1>1, <1>2
    <3> QED BY <3>1, TakenIs
  <2>3. PICK k \in enough : \A y \in enough : k <= y
    <3> HIDE DEF enough
    <3> QED BY <2>1, <2>2, LeastOf
  <2>4. k # 0 BY <1>2, TakenIs
  <2>5. k \in 0..NNodes /\ i <= Taken(d, k) OBVIOUS
  <2>6. k - 1 \in Nodes /\ k - 1 \in 0..NNodes /\ ~(k <= k - 1) /\ (k - 1) + 1 = k
    BY <1>1, <2>4, <2>5
  <2>7. ~(i <= Taken(d, k - 1)) BY <2>3, <2>6
  <2>8. Taken(d, k - 1) \in Nat /\ Taken(d, k) \in Nat BY <2>5, <2>6, TakenIs
  <2>9. i \in Nat BY <1>2
  <2>10. Partition(d, k - 1) = Taken(d, k - 1) + 1..Taken(d, (k - 1) + 1) BY <2>6, TakenIs
  <2>11. i \in Taken(d, k - 1) + 1..Taken(d, k) BY <2>5, <2>7, <2>8, <2>9
  <2>12. i \in Partition(d, k - 1) BY <2>6, <2>10, <2>11
  <2> QED BY <2>6, <2>12
<1>4. ASSUME NEW n \in Nodes, NEW o \in Nodes, n < o
      PROVE  Partition(d, n) \cap Partition(d, o) = {}
  <2>1. n + 1 \in 0..NNodes /\ o \in 0..NNodes /\ n + 1 <= o /\ o + 1 \in 0..NNodes
        /\ n \in 0..NNodes
    BY <1>1, <1>4
  <2>2. PICK a \in Nat, b \in Nat, x \in Nat, y \in Nat :
           /\ a = Taken(d, n) /\ b = Taken(d, n + 1)
           /\ x = Taken(d, o) /\ y = Taken(d, o + 1)
    BY <2>1, TakenIs
  <2>3. b <= x BY <2>1, <2>2, TakenIs
  <2>4. Partition(d, n) = a + 1..b /\ Partition(d, o) = x + 1..y BY <2>2, TakenIs
  <2>5. (a + 1..b) \cap (x + 1..y) = {} BY <2>3
  <2> QED BY <2>4, <2>5
<1>5. ASSUME NEW n \in Nodes, NEW o \in Nodes, n # o
      PROVE  Partition(d, n) \cap Partition(d, o) = {}
  <2>1. n < o \/ o < n BY <1>1, <1>5
  <2> QED BY <1>4, <2>1
<1> QED BY <1>3, <1>5

-----------------------------------------------------------------------------
(* State dicts as one vector, and back. *)

\* A function on 1..n is a sequence of n elements.
LEMMA SeqOfLength ==
    ASSUME NEW V, NEW n \in Nat, NEW s \in [1..n -> V]
    PROVE  s \in Seq(V) /\ Len(s) = n
<1>1. s \in Seq(V) BY SeqDef
<1>2. Len(s) \in Nat /\ DOMAIN s = 1..Len(s) BY <1>1, LenProperties
<1>3. 1..n = 1..Len(s) BY <1>2
<1>4. Len(s) = n
  <2>1. n > Len(s) => n \in 1..n /\ n \notin 1..Len(s) BY <1>2
  <2>2. Len(s) > n => Len(s) \in 1..Len(s) /\ Len(s) \notin 1..n BY <1>2
  <2> QED BY <1>2, <1>3, <2>1, <2>2
<1> QED BY <1>1, <1>4

\* g joins the sequences of ss one after the other.
Joins(g, ss, k) == g = [i \in 1..k |-> IF i = 1 THEN ss[i] ELSE g[i - 1] \o ss[i]]

\* The joined sequences there are.
LEMMA JoinsExists ==
    ASSUME NEW ss, NEW K \in Nat
    PROVE  \E g : Joins(g, ss, K)
<1> DEFINE T == {k \in Nat : ~\E g : Joins(g, ss, k)}
<1> SUFFICES ASSUME T # {} PROVE FALSE
  OBVIOUS
<1>1. PICK k \in T : \A y \in T : k <= y
  <2>1. T \subseteq Nat OBVIOUS
  <2> HIDE DEF T
  <2> QED BY <2>1, LeastOf
<1>2. k \in Nat /\ ~\E g : Joins(g, ss, k) BY <1>1
<1>3. k # 0
  <2> DEFINE g == [i \in 1..0 |-> ss[i]]
  <2>1. g = [i \in 1..0 |-> IF i = 1 THEN ss[i] ELSE g[i - 1] \o ss[i]] OBVIOUS
  <2>2. Joins(g, ss, 0) BY <2>1 DEF Joins
  <2> HIDE DEF g
  <2> QED BY <1>2, <2>2
<1>4. k - 1 \in Nat /\ ~(k <= k - 1) BY <1>2, <1>3
<1>5. PICK g : Joins(g, ss, k - 1) BY <1>1, <1>4
<1> DEFINE h == [i \in 1..k |-> IF i < k THEN g[i]
                                ELSE IF k = 1 THEN ss[k] ELSE g[k - 1] \o ss[k]]
<1>6. ASSUME NEW i \in 1..k PROVE h[i] = IF i = 1 THEN ss[i] ELSE h[i - 1] \o ss[i]
  <2>1. CASE i < k
    <3>1. i \in 1..k - 1 BY <1>2, <2>1
    <3>2. h[i] = g[i] BY <2>1
    <3>3. g[i] = IF i = 1 THEN ss[i] ELSE g[i - 1] \o ss[i] BY <1>5, <3>1, Zenon DEF Joins
    <3>4. i # 1 => i - 1 \in 1..k /\ i - 1 < k BY <1>2, <2>1
    <3>5. i # 1 => h[i - 1] = g[i - 1] BY <3>4
    <3> HIDE DEF h
    <3> QED BY <3>2, <3>3, <3>5
  <2>2. CASE i = k
    <3>1. ~(k < k) BY <1>2
    <3>2. h[k] = IF k = 1 THEN ss[k] ELSE g[k - 1] \o ss[k] BY <2>2, <3>1
    <3>3. k # 1 => k - 1 \in 1..k /\ k - 1 < k BY <1>2, <1>3
    <3>4. k # 1 => h[k - 1] = g[k - 1] BY <3>3
    <3> HIDE DEF h
    <3> QED BY <2>2, <3>2, <3>4
  <2>3. i < k \/ i = k BY <1>2
  <2> QED BY <2>1, <2>2, <2>3
<1>7. h = [i \in 1..k |-> h[i]] OBVIOUS
<1> HIDE DEF h
<1>8. Joins(h, ss, k) BY <1>6, <1>7, Zenon DEF Joins
<1> QED BY <1>2, <1>8

\* FlattenSeq is what has been joined at the end.
LEMMA FlattenUnfolds ==
    ASSUME NEW ss, NEW n \in Nat \ {0}, Len(ss) = n
    PROVE  \E g : Joins(g, ss, n) /\ FlattenSeq(ss) = g[n]
<1> DEFINE g == CHOOSE g : Joins(g, ss, n)
<1>1. \E h : Joins(h, ss, n) BY JoinsExists
<1>2. Joins(g, ss, n) BY <1>1
<1>3. n # 0 OBVIOUS
<1>4. FlattenSeq(ss) = g[n]
  BY <1>3, Zenon DEF FlattenSeq, Joins
<1> QED BY <1>2, <1>4

\* How many weights tensor t has.
Size(t) == IF Tensors[t].tracked THEN 0 ELSE Tensors[t].numel

\* The weights of a model.
Total == Offset(Len(Tensors) + 1)

\* The offsets: each tensor begins where the one before it ends.
LEMMA OffsetIs ==
    /\ Len(Tensors) \in Nat /\ DOMAIN Tensors = 1..Len(Tensors)
    /\ \A t \in DOMAIN Tensors :
          /\ Tensors[t].numel \in Nat /\ Size(t) \in Nat
          /\ ~Tensors[t].tracked => Size(t) = Tensors[t].numel
          /\ Tensors[t].tracked => Size(t) = 0
    /\ Offset(1) = 0
    /\ \A t \in 1..Len(Tensors) + 1 : Offset(t) \in Nat /\ Offset(t) <= Total
    /\ \A t \in DOMAIN Tensors : Offset(t + 1) = Offset(t) + Size(t)
<1> DEFINE f == [u \in DOMAIN Tensors |-> IF Tensors[u].tracked THEN 0 ELSE Tensors[u].numel]
           N == Len(Tensors)
<1>1. N \in Nat /\ DOMAIN Tensors = 1..N BY ModelAssumption, LenProperties
<1>2. ASSUME NEW t \in DOMAIN Tensors
      PROVE  Tensors[t] \in [numel : Nat, tracked : BOOLEAN]
  BY <1>1, ModelAssumption, ElementOfSeq
<1>3. \A t \in DOMAIN Tensors :
          /\ Tensors[t].numel \in Nat /\ Size(t) \in Nat
          /\ ~Tensors[t].tracked => Size(t) = Tensors[t].numel
          /\ Tensors[t].tracked => Size(t) = 0
  BY <1>2 DEF Size
<1>4. \A t : Offset(t) = SumOver(f, 1..t - 1) BY DEF Offset
<1>5. \A t \in DOMAIN Tensors : f[t] = Size(t) /\ f[t] \in Nat BY <1>3 DEF Size
<1> HIDE DEF f
<1>6. ASSUME NEW t \in 1..N + 1
      PROVE  /\ 1..t - 1 \in SUBSET (1..N) /\ IsFiniteSet(1..t - 1) /\ IsFiniteSet(1..N)
             /\ \A i \in 1..t - 1 : f[i] \in Nat
  <2>1. 1..t - 1 \in SUBSET (1..N) BY <1>1
  <2>2. t - 1 \in Int BY <1>1
  <2>3. IsFiniteSet(1..t - 1) /\ IsFiniteSet(1..N) BY <1>1, <2>2, FS_Interval
  <2> QED BY <1>1, <1>5, <2>1, <2>3
<1>7. Offset(1) = 0
  <2>1. 1..1 - 1 = {} OBVIOUS
  <2> QED BY <1>4, <2>1, SumEmpty
<1>8. \A t \in 1..N + 1 : Offset(t) \in Nat BY <1>4, <1>6, SumNat
<1>9. ASSUME NEW t \in 1..N + 1 PROVE Offset(t) <= Total
  <2>1. (N + 1) - 1 = N BY <1>1
  <2>2. Total = SumOver(f, 1..N) BY <1>4, <2>1 DEF Total
  <2>3. \A i \in 1..N : f[i] \in Nat BY <1>1, <1>5
  <2>4. SumOver(f, 1..t - 1) <= SumOver(f, 1..N) BY <1>6, <2>3, SumPartLeq
  <2> QED BY <1>4, <2>2, <2>4
<1>10. ASSUME NEW t \in DOMAIN Tensors PROVE Offset(t + 1) = Offset(t) + Size(t)
  <2>1. t \in Int /\ 1 <= t /\ (t + 1) - 1 = t /\ 1 \in Int BY <1>1
  <2>2. Ints(f, 1..t) BY <1>1, <1>5 DEF Ints
  <2>3. SumOver(f, 1..t) = SumOver(f, 1..t - 1) + f[t] BY <2>1, <2>2, SumNext
  <2> QED BY <1>4, <1>5, <2>1, <2>3
<1> QED BY <1>1, <1>3, <1>7, <1>8, <1>9, <1>10

\* A place in the vector is that of one weight of one tensor.
LEMMA PlaceOf ==
    ASSUME NEW j \in 1..Total
    PROVE  \E t \in DOMAIN Tensors : ~Tensors[t].tracked /\ j - Offset(t) \in 1..Size(t)
<1> DEFINE N == Len(Tensors)
           enough == {t \in 1..N + 1 : j <= Offset(t)}
<1>1. N \in Nat /\ DOMAIN Tensors = 1..N BY OffsetIs
<1>2. enough \subseteq Nat BY <1>1
<1>3. N + 1 \in enough BY <1>1 DEF Total
<1>4. PICK k \in enough : \A y \in enough : k <= y
  <2> HIDE DEF enough
  <2> QED BY <1>2, <1>3, LeastOf
<1>5. k \in 1..N + 1 /\ j <= Offset(k) OBVIOUS
<1>6. j \in Nat /\ j >= 1
  <2>1. N + 1 \in 1..N + 1 BY <1>1
  <2>2. Total \in Nat BY <2>1, OffsetIs DEF Total
  <2> QED BY <2>2
<1>7. k # 1 BY <1>5, <1>6, OffsetIs
<1>8. k - 1 \in DOMAIN Tensors /\ k - 1 \in 1..N + 1 /\ ~(k <= k - 1) /\ (k - 1) + 1 = k
  BY <1>1, <1>5, <1>7
<1>9. ~(j <= Offset(k - 1)) BY <1>4, <1>8
<1>10. PICK a \in Nat, b \in Nat : a = Offset(k - 1) /\ b = Size(k - 1)
  BY <1>8, OffsetIs
<1>11. Offset(k) = a + b BY <1>8, <1>10, OffsetIs
<1>12. j - a \in 1..b BY <1>5, <1>6, <1>9, <1>10, <1>11
<1>13. ~Tensors[k - 1].tracked
  <2>1. b # 0 BY <1>12
  <2> QED BY <1>8, <1>10, <2>1, OffsetIs
<1> QED BY <1>8, <1>10, <1>12, <1>13

\* What has the tensors of the architecture, with weights in V.
Shaped(m, V) ==
    /\ DOMAIN m = DOMAIN Tensors
    /\ \A t \in DOMAIN Tensors :
          ~Tensors[t].tracked => m[t] \in Seq(V) /\ Len(m[t]) = Tensors[t].numel

\* Flattening puts the weights of tensor t behind those of the tensors before.
LEMMA FlattenIs ==
    ASSUME NEW V, NEW m, Shaped(m, V)
    PROVE  /\ Flatten(m) \in Seq(V) /\ Len(Flatten(m)) = Total
           /\ \A t \in DOMAIN Tensors : ~Tensors[t].tracked =>
                 \A i \in 1..Tensors[t].numel : Flatten(m)[Offset(t) + i] = m[t][i]
<1> DEFINE N == Len(Tensors)
           ss == [t \in DOMAIN m |-> IF Tensors[t].tracked THEN <<>> ELSE m[t]]
<1>1. N \in Nat /\ DOMAIN m = 1..N /\ DOMAIN Tensors = 1..N BY OffsetIs DEF Shaped
<1>2. ASSUME NEW t \in 1..N
      PROVE  /\ ss[t] \in Seq(V) /\ Len(ss[t]) = Size(t) /\ Size(t) \in Nat
             /\ ~Tensors[t].tracked => ss[t] = m[t]
  <2>1. CASE Tensors[t].tracked
    <3>1. ss[t] = <<>> BY <1>1, <2>1
    <3>2. Size(t) = 0 BY <1>1, <2>1, OffsetIs
    <3>3. <<>> \in Seq(V) /\ Len(<<>>) = 0 BY EmptySeq
    <3>4. ss[t] \in Seq(V) /\ Len(ss[t]) = 0 BY <3>1, <3>3, Zenon
    <3> QED BY <2>1, <3>2, <3>4
  <2>2. CASE ~Tensors[t].tracked
    <3>1. ss[t] = m[t] BY <1>1, <2>2
    <3>2. Size(t) = Tensors[t].numel /\ Size(t) \in Nat BY <1>1, <2>2, OffsetIs
    <3>3. m[t] \in Seq(V) /\ Len(m[t]) = Tensors[t].numel BY <1>1, <2>2 DEF Shaped
    <3> QED BY <3>1, <3>2, <3>3
  <2> QED BY <2>1, <2>2
<1>3. ss \in [1..N -> Seq(V)]
  <2>1. ss = [t \in 1..N |-> ss[t]] BY <1>1
  <2> HIDE DEF ss
  <2> QED BY <1>2, <2>1
<1>4. Flatten(m) = FlattenSeq(ss) BY DEF Flatten
<1> HIDE DEF ss
<1>5. Len(ss) = N /\ ss \in Seq(Seq(V)) BY <1>1, <1>3, SeqOfLength
<1>6. CASE N = 0
  <2>1. Flatten(m) = ss BY <1>4, <1>5, <1>6 DEF FlattenSeq
  <2>2. ss = <<>> BY <1>5, <1>6, EmptySeq
  <2>3. Total = 0 BY <1>6, OffsetIs DEF Total
  <2> QED BY <1>1, <1>6, <2>1, <2>2, <2>3, EmptySeq
<1>7. CASE N # 0
  <2>1. PICK g : Joins(g, ss, N) /\ FlattenSeq(ss) = g[N] BY <1>1, <1>5, <1>7, FlattenUnfolds
  <2>2. ASSUME NEW k \in 1..N PROVE g[k] = IF k = 1 THEN ss[k] ELSE g[k - 1] \o ss[k]
    BY <2>1, Zenon DEF Joins
  <2> DEFINE right(k) == /\ g[k] \in Seq(V) /\ Len(g[k]) = Offset(k + 1)
                         /\ \A t \in 1..k : ~Tensors[t].tracked =>
                               \A i \in 1..Tensors[t].numel : g[k][Offset(t) + i] = m[t][i]
             wrong == {k \in 1..N : ~right(k)}
  <2>3. ASSUME wrong # {} PROVE FALSE
    <3>1. PICK k \in wrong : \A y \in wrong : k <= y
      <4>1. wrong \subseteq Nat BY <1>1
      <4> HIDE DEF wrong
      <4> QED BY <2>3, <4>1, LeastOf
    <3>2. k \in 1..N /\ ~right(k) BY <3>1
    <3>3. k \in DOMAIN Tensors /\ k \in 1..N + 1 /\ k \in Nat BY <1>1, <3>2
    <3>4. Offset(k) \in Nat /\ Offset(k + 1) = Offset(k) + Size(k) BY <3>3, OffsetIs
    <3>5. CASE k = 1
      <4>1. g[k] = ss[1] BY <2>2, <3>2, <3>5
      <4>2. Offset(1) = 0 BY OffsetIs
      <4>3. ss[1] \in Seq(V) /\ Len(ss[1]) = Size(1) /\ Size(1) \in Nat
            /\ (~Tensors[1].tracked => ss[1] = m[1])
        BY <1>2, <3>2, <3>5
      <4>4. Len(g[k]) = Offset(k + 1) BY <3>4, <3>5, <4>1, <4>2, <4>3
      <4>5. \A i \in 1..Tensors[1].numel : Offset(1) + i = i
        <5>1. Tensors[1].numel \in Nat BY <3>3, <3>5, OffsetIs
        <5> QED BY <4>2, <5>1
      <4>6. \A t \in 1..k : t = 1 BY <3>5
      <4>7. right(k) BY <4>1, <4>3, <4>4, <4>5, <4>6
      <4> QED BY <3>2, <4>7
    <3>6. CASE k # 1
      <4>1. k - 1 \in 1..N /\ ~(k <= k - 1) /\ (k - 1) + 1 = k BY <1>1, <3>2, <3>6
      <4>2. k - 1 \notin wrong BY <3>1, <4>1
      <4>3. right(k - 1) BY <4>1, <4>2
      <4>4. g[k] = g[k - 1] \o ss[k] BY <2>2, <3>2, <3>6
      <4>5. g[k - 1] \in Seq(V) /\ Len(g[k - 1]) = Offset(k) BY <4>1, <4>3
      <4>6. ss[k] \in Seq(V) /\ Len(ss[k]) = Size(k) /\ Size(k) \in Nat BY <1>2, <3>2
      <4>7. /\ g[k] \in Seq(V) /\ Len(g[k]) = Offset(k + 1)
            /\ \A i \in 1..Offset(k) + Size(k) :
                  g[k][i] = IF i <= Offset(k) THEN g[k - 1][i] ELSE ss[k][i - Offset(k)]
        <5>1. /\ g[k - 1] \o ss[k] \in Seq(V)
              /\ Len(g[k - 1] \o ss[k]) = Len(g[k - 1]) + Len(ss[k])
              /\ \A i \in 1..Len(g[k - 1]) + Len(ss[k]) :
                    (g[k - 1] \o ss[k])[i] = IF i <= Len(g[k - 1]) THEN g[k - 1][i]
                                             ELSE ss[k][i - Len(g[k - 1])]
          BY <4>5, <4>6, ConcatProperties
        <5> QED BY <3>4, <4>4, <4>5, <4>6, <5>1, Zenon
      <4>8. ASSUME NEW t \in 1..k, ~Tensors[t].tracked, NEW i \in 1..Tensors[t].numel
            PROVE  g[k][Offset(t) + i] = m[t][i]
        <5>1. t \in DOMAIN Tensors BY <1>1, <3>2
        <5>2. t \in 1..N + 1 BY <1>1, <3>2
        <5>3. PICK a \in Nat, z \in Nat, x \in Nat, y \in Nat :
                 a = Offset(k) /\ z = Size(k) /\ x = Offset(t) /\ y = Size(t)
          BY <3>4, <4>6, <5>1, <5>2, OffsetIs
        <5>4. Tensors[t].numel = y BY <4>8, <5>1, <5>3, OffsetIs
        <5>5. CASE t = k
          <6>1. x = a /\ y = z BY <5>3, <5>5
          <6>2. a + i \in 1..a + z /\ ~(a + i <= a) /\ (a + i) - a = i BY <5>4, <6>1
          <6>3. g[k][a + i] = ss[k][i] BY <4>7, <5>3, <6>2
          <6>4. ss[k] = m[k] BY <1>2, <3>2, <4>8, <5>5
          <6> QED BY <5>3, <5>5, <6>1, <6>3, <6>4
        <5>6. CASE t # k
          <6>1. t \in 1..k - 1 /\ t + 1 \in 1..N + 1 BY <1>1, <3>2, <5>6
          <6>2. x + i \in 1..Offset(k)
            <7>1. Offset(t + 1) = x + y BY <5>1, <5>3, OffsetIs
            <7>2. Offset(t + 1) <= Offset(k)
              <8>1. 1..t \in SUBSET (1..k - 1) BY <6>1
              <8>2. (t + 1) - 1 = t BY <6>1
              <8> DEFINE f == [u \in DOMAIN Tensors |->
                                 IF Tensors[u].tracked THEN 0 ELSE Tensors[u].numel]
              <8>3. \A u \in 1..k - 1 : f[u] \in Nat
                <9>1. \A u \in 1..k - 1 : u \in DOMAIN Tensors BY <1>1, <3>2
                <9>2. \A u \in DOMAIN Tensors : Tensors[u].numel \in Nat BY OffsetIs
                <9> QED BY <9>1, <9>2
              <8>4. Offset(t + 1) = SumOver(f, 1..t) /\ Offset(k) = SumOver(f, 1..k - 1)
                BY <8>2 DEF Offset
              <8>5. IsFiniteSet(1..k - 1)
                <9>1. k - 1 \in Int BY <3>3
                <9> QED BY <9>1, FS_Interval
              <8> HIDE DEF f
              <8> QED BY <8>1, <8>3, <8>4, <8>5, SumPartLeq
            <7> QED BY <5>3, <5>4, <7>1, <7>2
          <6>3. x + i \in 1..Offset(k) + Size(k) /\ x + i <= Offset(k) BY <5>3, <6>2
          <6>4. g[k][x + i] = g[k - 1][x + i] BY <4>7, <6>3
          <6>5. g[k - 1][Offset(t) + i] = m[t][i] BY <4>3, <4>8, <6>1
          <6> QED BY <5>3, <6>4, <6>5
        <5> QED BY <5>5, <5>6
      <4>9. right(k) BY <4>7, <4>8
      <4> QED BY <3>2, <4>9
    <3> QED BY <3>5, <3>6
  <2>4. N \in 1..N BY <1>1, <1>7
  <2>5. right(N) BY <2>3, <2>4
  <2> HIDE DEF N
  <2> QED BY <1>1, <1>4, <2>1, <2>5 DEF Total, N
<1> QED BY <1>6, <1>7

\* The models of the assumption have the tensors of the architecture.
LEMMA ModelShaped ==
    ASSUME NEW m \in Models
    PROVE  Shaped(m, Int)
<1>1. /\ m \in Seq(Seq(Int)) /\ Len(m) = Len(Tensors)
      /\ \A t \in DOMAIN m : Len(m[t]) = Tensors[t].numel
  BY ModelAssumption
<1>2. DOMAIN m = DOMAIN Tensors
  <2>1. DOMAIN m = 1..Len(m) BY <1>1, LenProperties
  <2> QED BY <1>1, <2>1, OffsetIs
<1>3. \A t \in DOMAIN m : m[t] \in Seq(Int)
  <2>1. DOMAIN m = 1..Len(m) BY <1>1, LenProperties
  <2> QED BY <1>1, <2>1, ElementOfSeq
<1> QED BY <1>1, <1>2, <1>3 DEF Shaped

\* The number of weights.
LEMMA TotalIs == Total \in Nat
<1>1. Len(Tensors) \in Nat BY OffsetIs
<1>2. Len(Tensors) + 1 \in 1..Len(Tensors) + 1 BY <1>1
<1> QED BY <1>2, OffsetIs DEF Total

\* The place of a weight is one of the vector.
LEMMA PlaceIs ==
    ASSUME NEW t \in DOMAIN Tensors, ~Tensors[t].tracked, NEW i \in 1..Tensors[t].numel
    PROVE  Offset(t) + i \in 1..Total
<1>1. t \in 1..Len(Tensors) + 1 /\ t + 1 \in 1..Len(Tensors) + 1 BY OffsetIs
<1>2. PICK a \in Nat, z \in Nat, l \in Nat : a = Offset(t) /\ z = Size(t) /\ l = Total
  BY <1>1, TotalIs, OffsetIs
<1>3. Offset(t + 1) = a + z /\ Offset(t + 1) <= l BY <1>1, <1>2, OffsetIs
<1>4. Tensors[t].numel = z BY <1>2, OffsetIs
<1> QED BY <1>2, <1>3, <1>4

\* Unflattening is the inverse of flattening, and leaves the counters alone.
LEMMA UnflattenIs ==
    ASSUME NEW V, NEW v \in [1..Total -> V], NEW m \in Models
    PROVE  /\ Shaped(Unflatten(v, m), V)
           /\ \A t \in DOMAIN Tensors : Tensors[t].tracked => Unflatten(v, m)[t] = m[t]
           /\ \A t \in DOMAIN Tensors : ~Tensors[t].tracked =>
                 \A i \in 1..Tensors[t].numel : Unflatten(v, m)[t][i] = v[Offset(t) + i]
           /\ Flatten(Unflatten(v, m)) = v
<1> DEFINE u == Unflatten(v, m)
<1>1. DOMAIN m = DOMAIN Tensors BY ModelShaped DEF Shaped
<1>2. /\ DOMAIN u = DOMAIN Tensors
      /\ \A t \in DOMAIN Tensors : Tensors[t].tracked => u[t] = m[t]
      /\ \A t \in DOMAIN Tensors : ~Tensors[t].tracked =>
            u[t] = [i \in 1..Tensors[t].numel |-> v[Offset(t) + i]]
  BY <1>1 DEF Unflatten
<1> HIDE DEF u
<1>3. ASSUME NEW t \in DOMAIN Tensors, ~Tensors[t].tracked
      PROVE  /\ u[t] \in Seq(V) /\ Len(u[t]) = Tensors[t].numel
             /\ \A i \in 1..Tensors[t].numel : u[t][i] = v[Offset(t) + i]
  <2>1. Tensors[t].numel \in Nat BY OffsetIs
  <2>2. \A i \in 1..Tensors[t].numel : v[Offset(t) + i] \in V BY <1>3, PlaceIs
  <2>3. u[t] \in [1..Tensors[t].numel -> V] BY <1>2, <1>3, <2>2
  <2>4. u[t] \in Seq(V) /\ Len(u[t]) = Tensors[t].numel BY <2>1, <2>3, SeqOfLength
  <2>5. \A i \in 1..Tensors[t].numel : u[t][i] = v[Offset(t) + i] BY <1>2, <1>3
  <2> QED BY <2>4, <2>5
<1>4. Shaped(u, V) BY <1>2, <1>3 DEF Shaped
<1>5. /\ Flatten(u) \in Seq(V) /\ Len(Flatten(u)) = Total
      /\ \A t \in DOMAIN Tensors : ~Tensors[t].tracked =>
            \A i \in 1..Tensors[t].numel : Flatten(u)[Offset(t) + i] = u[t][i]
  BY <1>4, FlattenIs
<1>6. v \in Seq(V) /\ Len(v) = Total BY TotalIs, SeqOfLength
<1>7. ASSUME NEW j \in 1..Total PROVE Flatten(u)[j] = v[j]
  <2>1. PICK t \in DOMAIN Tensors : ~Tensors[t].tracked /\ j - Offset(t) \in 1..Size(t)
    BY PlaceOf
  <2>2. Size(t) = Tensors[t].numel BY <2>1, OffsetIs
  <2>3. PICK i \in 1..Tensors[t].numel : i = j - Offset(t) BY <2>1, <2>2
  <2>4. Offset(t) \in Nat /\ j \in Int
    <3>1. t \in 1..Len(Tensors) + 1 BY OffsetIs
    <3> QED BY <3>1, OffsetIs
  <2>5. Offset(t) + i = j BY <2>3, <2>4
  <2>6. Flatten(u)[Offset(t) + i] = u[t][i] BY <1>5, <2>1
  <2>7. u[t][i] = v[Offset(t) + i] BY <1>3, <2>1
  <2> QED BY <2>5, <2>6, <2>7
<1>8. Flatten(u) = v BY <1>5, <1>6, <1>7, SeqEqual
<1> QED BY <1>2, <1>3, <1>4, <1>8 DEF u

-----------------------------------------------------------------------------
(* Chunks. *)

\* The least and the greatest of integers.
LEMMA LeastInt ==
    ASSUME NEW S, S \subseteq Int, NEW b \in Int, \A x \in S : b <= x, S # {}
    PROVE  Min(S) \in S /\ \A x \in S : Min(S) <= x
<1> DEFINE T == {n \in Nat : n + b \in S}
<1>1. T # {}
  <2>1. PICK x \in S : TRUE OBVIOUS
  <2>2. x \in Int /\ b <= x BY <2>1
  <2>3. x - b \in Nat /\ (x - b) + b = x BY <2>2
  <2>4. x - b \in T BY <2>1, <2>3
  <2> QED BY <2>4
<1>2. PICK n \in T : \A y \in T : n <= y
  <2>1. T \subseteq Nat OBVIOUS
  <2> HIDE DEF T
  <2> QED BY <1>1, <2>1, LeastOf
<1>3. ASSUME NEW x \in S PROVE n + b <= x
  <2>1. x \in Int /\ b <= x OBVIOUS
  <2>2. x - b \in Nat /\ (x - b) + b = x BY <2>1
  <2>3. x - b \in T BY <2>2
  <2>4. n <= x - b BY <1>2, <2>3
  <2>5. n \in Nat BY <1>2
  <2> QED BY <2>1, <2>4, <2>5
<1>4. n + b \in S BY <1>2
<1>5. \E x \in S : \A y \in S : x =< y BY <1>3, <1>4
<1> QED BY <1>5, Zenon DEF Min

\* A set of integers with a bound has a greatest element.
LEMMA GreatestInt ==
    ASSUME NEW S, S \subseteq Int, NEW b \in Int, \A x \in S : x <= b, S # {}
    PROVE  Max(S) \in S /\ \A x \in S : x <= Max(S)
<1> DEFINE T == {n \in Nat : b - n \in S}
<1>1. T # {}
  <2>1. PICK x \in S : TRUE OBVIOUS
  <2>2. x \in Int /\ x <= b BY <2>1
  <2>3. b - x \in Nat /\ b - (b - x) = x BY <2>2
  <2>4. b - x \in T BY <2>1, <2>3
  <2> QED BY <2>4
<1>2. PICK n \in T : \A y \in T : n <= y
  <2>1. T \subseteq Nat OBVIOUS
  <2> HIDE DEF T
  <2> QED BY <1>1, <2>1, LeastOf
<1>3. ASSUME NEW x \in S PROVE x <= b - n
  <2>1. x \in Int /\ x <= b OBVIOUS
  <2>2. b - x \in Nat /\ b - (b - x) = x BY <2>1
  <2>3. b - x \in T BY <2>2
  <2>4. n <= b - x BY <1>2, <2>3
  <2>5. n \in Nat BY <1>2
  <2> QED BY <2>1, <2>4, <2>5
<1>4. b - n \in S BY <1>2
<1>5. \E x \in S : \A y \in S : x >= y BY <1>3, <1>4
<1>6. Max(S) \in S /\ \A y \in S : Max(S) >= y BY <1>5, Zenon DEF Max
<1> QED BY <1>6

\* A finite set of integers has bounds.
LEMMA Bounds ==
    ASSUME NEW S, IsFiniteSet(S), S \subseteq Int
    PROVE  \E a, b \in Int : \A x \in S : a <= x /\ x <= b
<1> DEFINE T == {s \in SUBSET S : \E a, b \in Int : \A x \in s : a <= x /\ x <= b}
<1>1. {} \in T
  <2>1. 0 \in Int OBVIOUS
  <2> QED BY <2>1
<1>2. ASSUME NEW s \in SUBSET S, NEW x \in S \ s, s \in T PROVE s \cup {x} \in T
  <2>1. PICK a \in Int, b \in Int : \A y \in s : a <= y /\ y <= b BY <1>2
  <2>2. x \in Int OBVIOUS
  <2>3. PICK c \in Int : c <= a /\ c <= x
    <3>1. (IF a <= x THEN a ELSE x) \in Int BY <2>2
    <3> QED BY <2>2, <3>1
  <2>4. PICK d \in Int : b <= d /\ x <= d
    <3>1. (IF b <= x THEN x ELSE b) \in Int BY <2>2
    <3> QED BY <2>2, <3>1
  <2>5. \A y \in s \cup {x} : c <= y /\ y <= d
    <3>1. \A y \in s : y \in Int OBVIOUS
    <3> QED BY <2>1, <2>3, <2>4, <3>1
  <2> QED BY <2>5
<1>3. S \in T
  <2> HIDE DEF T
  <2>1. \A s \in SUBSET S : s \in T BY <1>1, <1>2, Growing
  <2> QED BY <2>1
<1> QED BY <1>3

\* A finite set of integers has a least and a greatest element.
LEMMA MinMaxIs ==
    ASSUME NEW S, IsFiniteSet(S), S \subseteq Int, S # {}
    PROVE  /\ Min(S) \in S /\ Max(S) \in S
           /\ \A x \in S : Min(S) <= x /\ x <= Max(S)
<1>1. PICK a \in Int, b \in Int : \A x \in S : a <= x /\ x <= b BY Bounds
<1>2. Min(S) \in S /\ \A x \in S : Min(S) <= x BY <1>1, LeastInt
<1>3. Max(S) \in S /\ \A x \in S : x <= Max(S) BY <1>1, GreatestInt
<1> QED BY <1>2, <1>3

\* A chunk has room for a weight at least.
LEMMA CapacityIs == Capacity \in Nat \ {0}
<1>1. BytesPerChunk \in Nat BY LearningAssumption
<1>2. BytesPerChunk - 8 \in Int /\ BytesPerChunk \div 4 \in Int BY <1>1
<1> QED BY <1>2 DEF Capacity

\* Up or down, a quantized value is off by less than the range of its chunk.
LEMMA QuantizedIs ==
    ASSUME NEW a \in Int, NEW b \in Int, NEW w \in Int, a <= w, w <= b,
           NEW q \in Quantized(w, a, b)
    PROVE  /\ Dequantized(q, a, b) \in Int
           /\ Dequantized(q, a, b) <= 255 * w + (b - a)
           /\ 255 * w <= Dequantized(q, a, b) + (b - a)
<1>1. CASE a = b
  <2>1. Dequantized(q, a, b) = 255 * a /\ w = a BY <1>1 DEF Dequantized
  <2> QED BY <1>1, <2>1
<1>2. CASE a # b
  <2>1. PICK k \in Nat \ {0} : k = b - a
    <3>1. b - a \in Nat \ {0} BY <1>2
    <3> QED BY <3>1
  <2>2. PICK x \in Nat : x = (w - a) * 255
    <3>1. (w - a) * 255 \in Nat OBVIOUS
    <3> QED BY <3>1
  <2>3. PICK l \in Nat : l = x \div k
    <3>1. x \div k \in Nat BY Floor
    <3> QED BY <3>1
  <2>4. k * l <= x /\ x < k * l + k BY <2>3
  <2>5. q = l \/ (q = l + 1 /\ x % k # 0)
    <3>1. Quantized(w, a, b) = IF x % k = 0 THEN {l} ELSE {l, l + 1}
      BY <1>2, <2>1, <2>2, <2>3 DEF Quantized
    <3> QED BY <3>1
  <2>6. q \in Nat /\ q * k <= x + k /\ x <= q * k + k
    <3>1. CASE q = l
      <4>1. l * k = k * l OBVIOUS
      <4> QED BY <2>4, <3>1, <4>1
    <3>2. CASE q = l + 1
      <4>1. (l + 1) * k = k * l + k OBVIOUS
      <4> QED BY <2>4, <3>2, <4>1
    <3> QED BY <2>5, <3>1, <3>2
  <2>7. PICK y \in Nat : y = q * k BY <2>6
  <2>8. Dequantized(q, a, b) = 255 * a + y BY <1>2, <2>1, <2>7 DEF Dequantized
  <2>9. y <= x + k /\ x <= y + k BY <2>6, <2>7
  <2> QED BY <2>1, <2>2, <2>8, <2>9
<1> QED BY <1>1, <1>2

\* Where the chunk from s on ends, of a vector of l weights.
EndOf(l, s) == IF s + Capacity < l THEN s + Capacity ELSE l

\* A chunk of v as it is decoded: each value is off by less than its range.
IsChunk(c, v) ==
    /\ c.start \in Starts(Len(v)) /\ c.end = EndOf(Len(v), c.start)
    /\ c.width \in Nat /\ c.data \in [1..c.end - c.start -> Int]
    /\ \A i \in 1..c.end - c.start :
          /\ c.data[i] <= 255 * v[c.start + i] + c.width
          /\ 255 * v[c.start + i] <= c.data[i] + c.width

\* A chunk has a weight at least, at most Capacity, and all in the vector.
LEMMA EndIs ==
    ASSUME NEW l \in Nat, NEW s \in Starts(l)
    PROVE  /\ s \in Nat /\ EndOf(l, s) \in Nat
           /\ s < EndOf(l, s) /\ EndOf(l, s) <= l /\ EndOf(l, s) <= s + Capacity
<1>1. s \in 0..l - 1 BY DEF Starts
<1>2. PICK k \in Nat \ {0} : k = Capacity BY CapacityIs
<1>3. EndOf(l, s) = IF s + k < l THEN s + k ELSE l BY <1>2 DEF EndOf
<1> QED BY <1>1, <1>2, <1>3

\* dequantize_chunk gives back what quantize_chunk was given, up to the width.
LEMMA DecodedIs ==
    ASSUME NEW v \in Seq(Int), NEW s \in Starts(Len(v)),
           NEW c \in Decoded(v, s, EndOf(Len(v), s))
    PROVE  IsChunk(c, v) /\ c.start = s
<1> DEFINE end == EndOf(Len(v), s)
           slice == SubSeq(v, s + 1, end)
           values == ToSet(slice)
           min == Min(values)
           max == Max(values)
           exact == [i \in DOMAIN slice |-> 255 * slice[i]]
           of == [w \in values |-> { Dequantized(q, min, max) : q \in Quantized(w, min, max) }]
<1>1. PICK l \in Nat, e \in Nat, a \in Nat :
         /\ l = Len(v) /\ e = end /\ a = s /\ a < e /\ e <= l
  <2>1. Len(v) \in Nat BY LenProperties
  <2> QED BY <2>1, EndIs
<1>2. \A i \in a + 1..e : v[i] \in Int
  <2>1. \A i \in a + 1..e : i \in 1..Len(v) BY <1>1
  <2> QED BY <2>1, ElementOfSeq
<1>3. /\ DOMAIN slice = 1..e - a
      /\ \A i \in 1..e - a : slice[i] = v[a + i] /\ v[a + i] \in Int
  <2>1. a + 1 \in Int /\ e \in Int /\ a + 1 <= e BY <1>1
  <2>2. /\ SubSeq(v, a + 1, e) \in Seq(Int)
        /\ Len(SubSeq(v, a + 1, e)) = IF a + 1 <= e THEN e - (a + 1) + 1 ELSE 0
        /\ \A i \in 1..e - (a + 1) + 1 : SubSeq(v, a + 1, e)[i] = v[(a + 1) + i - 1]
    BY <1>2, <2>1, SubSeqProperties
  <2>3. e - (a + 1) + 1 = e - a /\ \A i \in Int : (a + 1) + i - 1 = a + i BY <1>1
  <2>4. slice = SubSeq(v, a + 1, e) BY <1>1
  <2>5. DOMAIN SubSeq(v, a + 1, e) = 1..Len(SubSeq(v, a + 1, e)) BY <2>2, LenProperties
  <2>6. \A i \in 1..e - a : a + i \in a + 1..e BY <1>1
  <2>7. Len(SubSeq(v, a + 1, e)) = e - a BY <2>1, <2>2, <2>3
  <2> HIDE DEF slice
  <2>8. DOMAIN slice = 1..e - a BY <2>4, <2>5, <2>7, Zenon
  <2>9. ASSUME NEW i \in 1..e - a PROVE slice[i] = v[a + i] /\ v[a + i] \in Int
    <3>1. SubSeq(v, a + 1, e)[i] = v[(a + 1) + i - 1] BY <2>2, <2>3
    <3>2. (a + 1) + i - 1 = a + i BY <2>3
    <3>3. v[a + i] \in Int BY <1>2, <2>6
    <3> QED BY <2>4, <3>1, <3>2, <3>3, Zenon
  <2> QED BY <2>8, <2>9
<1> HIDE DEF slice
<1>4. /\ values = {slice[i] : i \in 1..e - a} /\ values \subseteq Int /\ values # {}
      /\ IsFiniteSet(values)
  <2>1. values = {slice[i] : i \in 1..e - a} BY <1>3 DEF ToSet
  <2>2. IsFiniteSet(1..e - a)
    <3>1. e - a \in Int OBVIOUS
    <3> QED BY <3>1, FS_Interval
  <2> DEFINE map == [i \in 1..e - a |-> slice[i]]
             all == {slice[i] : i \in 1..e - a}
  <2>3. map \in Surjection(1..e - a, all) BY DEF Surjection
  <2>4. 1 \in 1..e - a BY <1>1
  <2>5. all \subseteq Int /\ all # {} BY <1>3, <2>4
  <2> HIDE DEF map, all
  <2>6. IsFiniteSet(all) BY <2>2, <2>3, FS_Surjection
  <2> QED BY <2>1, <2>5, <2>6 DEF all
<1> HIDE DEF values
<1>5. min \in Int /\ max \in Int /\ min <= max /\ \A w \in values : min <= w /\ w <= max
  <2>1. Min(values) \in values /\ Max(values) \in values
        /\ \A x \in values : Min(values) <= x /\ x <= Max(values)
    BY <1>4, MinMaxIs
  <2> QED BY <1>4, <2>1
<1>6. PICK x \in Int, y \in Int : x = min /\ y = max /\ x <= y BY <1>5
<1>7. CASE QuantizationBits = 8
  <2>1. PICK d \in [DOMAIN slice -> UNION Range(of)] :
           /\ \A i \in DOMAIN slice : d[i] \in of[slice[i]]
           /\ c = [start |-> s, end |-> end, width |-> max - min, data |-> d]
    BY <1>7 DEF Decoded, slice, values
  <2>2. c.start = a /\ c.end = e /\ c.width = y - x /\ c.data = d BY <1>1, <1>6, <2>1
  <2>3. ASSUME NEW i \in 1..e - a
        PROVE  /\ d[i] \in Int /\ d[i] <= 255 * v[a + i] + (y - x)
               /\ 255 * v[a + i] <= d[i] + (y - x)
    <3>1. slice[i] \in values /\ i \in DOMAIN slice BY <1>3, <1>4
    <3>2. d[i] \in of[slice[i]] BY <2>1, <3>1
    <3>3. PICK q \in Quantized(slice[i], min, max) : d[i] = Dequantized(q, min, max)
      BY <3>1, <3>2
    <3>4. PICK w \in Int : w = slice[i] /\ w = v[a + i] BY <1>3
    <3>5. x <= w /\ w <= y BY <1>5, <1>6, <3>1, <3>4
    <3>6. q \in Quantized(w, x, y) /\ d[i] = Dequantized(q, x, y) BY <1>6, <3>3, <3>4
    <3>7. /\ Dequantized(q, x, y) \in Int
          /\ Dequantized(q, x, y) <= 255 * w + (y - x)
          /\ 255 * w <= Dequantized(q, x, y) + (y - x)
      BY <3>5, <3>6, QuantizedIs
    <3> QED BY <3>4, <3>6, <3>7
  <2>4. d \in [1..e - a -> Int]
    <3>1. d = [i \in 1..e - a |-> d[i]] BY <1>3, <2>1
    <3> QED BY <2>3, <3>1
  <2>5. y - x \in Nat BY <1>6
  <2> QED BY <1>1, <2>2, <2>3, <2>4, <2>5 DEF IsChunk
<1>8. CASE QuantizationBits # 8
  <2>1. c = [start |-> s, end |-> end, width |-> 0, data |-> exact]
    BY <1>8 DEF Decoded, slice
  <2>2. c.start = a /\ c.end = e /\ c.width = 0 /\ c.data = exact BY <1>1, <2>1
  <2>3. ASSUME NEW i \in 1..e - a
        PROVE  exact[i] = 255 * v[a + i] /\ exact[i] \in Int
    BY <1>3
  <2>4. exact \in [1..e - a -> Int]
    <3>1. exact = [i \in 1..e - a |-> exact[i]] BY <1>3
    <3> HIDE DEF exact
    <3> QED BY <2>3, <3>1
  <2> HIDE DEF exact
  <2>5. PICK z \in Nat : z = 0 OBVIOUS
  <2>6. ASSUME NEW i \in 1..e - a
        PROVE  exact[i] <= 255 * v[a + i] + z /\ 255 * v[a + i] <= exact[i] + z
    <3>1. PICK w \in Int : w = v[a + i] BY <1>3
    <3>2. exact[i] = 255 * w BY <2>3, <3>1
    <3> QED BY <2>5, <3>1, <3>2
  <2>7. c.width = z BY <2>2, <2>5
  <2>8. /\ c.start \in Starts(Len(v)) /\ c.end = EndOf(Len(v), c.start)
        /\ c.width \in Nat /\ c.data \in [1..c.end - c.start -> Int]
    BY <1>1, <2>2, <2>4, <2>7
  <2>9. ASSUME NEW i \in 1..c.end - c.start
        PROVE  /\ c.data[i] <= 255 * v[c.start + i] + c.width
               /\ 255 * v[c.start + i] <= c.data[i] + c.width
    <3>1. i \in 1..e - a BY <2>2, Zenon
    <3>2. exact[i] <= 255 * v[a + i] + z /\ 255 * v[a + i] <= exact[i] + z BY <2>6, <3>1, Zenon
    <3> QED BY <2>2, <2>7, <3>2, Zenon
  <2> QED BY <1>1, <2>2, <2>8, <2>9, Zenon DEF IsChunk
<1> QED BY <1>7, <1>8

\* A vector is sent as one chunk from each start on.
LEMMA EncodingIs ==
    ASSUME NEW v \in Seq(Int), NEW E \in Encodings(v)
    PROVE  /\ \A c \in E : IsChunk(c, v)
           /\ \A s \in Starts(Len(v)) : \E c \in E : c.start = s
           /\ \A c, d \in E : c.start = d.start => c = d
           /\ IsFiniteSet(E)
<1> DEFINE choices == [ s \in Starts(Len(v)) |-> Decoded(v, s, EndOf(Len(v), s)) ]
<1>1. PICK d \in [DOMAIN choices -> UNION Range(choices)] :
         (\A s \in DOMAIN choices : d[s] \in choices[s]) /\ E = Range(d)
  BY DEF Encodings, EndOf
<1>2. DOMAIN d = Starts(Len(v)) /\ E = {d[s] : s \in Starts(Len(v))} BY <1>1 DEF Range
<1>3. ASSUME NEW s \in Starts(Len(v)) PROVE IsChunk(d[s], v) /\ d[s].start = s
  <2>1. d[s] \in Decoded(v, s, EndOf(Len(v), s)) BY <1>1
  <2> QED BY <2>1, DecodedIs
<1>4. IsFiniteSet(Starts(Len(v)))
  <2>1. Len(v) \in Nat BY LenProperties
  <2>2. Starts(Len(v)) \in SUBSET (0..Len(v) - 1) BY DEF Starts
  <2>3. IsFiniteSet(0..Len(v) - 1) BY <2>1, FS_Interval
  <2> QED BY <2>2, <2>3, FS_Subset
<1>5. IsFiniteSet(E)
  <2>1. d \in Surjection(Starts(Len(v)), E) BY <1>1, <1>2 DEF Surjection
  <2> QED BY <1>4, <2>1, FS_Surjection
<1> HIDE DEF choices
<1> QED BY <1>2, <1>3, <1>5

\* What leaves no rest is a multiple.
LEMMA Multiple ==
    ASSUME NEW x \in Nat, NEW k \in Nat \ {0}, x % k = 0
    PROVE  \E a \in Nat : x = k * a
<1>1. x \div k \in Nat BY Floor
<1>2. x = k * (x \div k) OBVIOUS
<1> QED BY <1>1, <1>2

\* Each weight is in one chunk.
LEMMA StartsApart ==
    ASSUME NEW l \in Nat, NEW s \in Starts(l), NEW t \in Starts(l), NEW i \in Int,
           s < i, i <= EndOf(l, s), t < i, i <= EndOf(l, t)
    PROVE  s = t
<1>1. PICK k \in Nat \ {0} : k = Capacity BY CapacityIs
<1>2. s \in Nat /\ t \in Nat /\ s % k = 0 /\ t % k = 0 BY <1>1 DEF Starts
<1>3. i <= s + k /\ i <= t + k BY <1>1, <1>2, EndIs
<1>4. PICK a \in Nat, b \in Nat : s = k * a /\ t = k * b
  <2>1. \E a \in Nat : s = k * a BY <1>2, Multiple
  <2>2. \E b \in Nat : t = k * b BY <1>2, Multiple
  <2> QED BY <2>1, <2>2
<1>5. ~(a < b)
  <2>1. ASSUME a < b PROVE FALSE
    <3>1. PICK r \in Nat : b = a + 1 + r
      <4>1. b - a - 1 \in Nat /\ b = a + 1 + (b - a - 1) BY <2>1
      <4> QED BY <4>1
    <3>2. k * b = k * a + k + k * r BY <3>1
    <3>3. k * r \in Nat OBVIOUS
    <3>4. t >= s + k BY <1>2, <1>4, <3>2, <3>3
    <3> QED BY <1>2, <1>3, <3>4
  <2> QED BY <2>1
<1>6. ~(b < a)
  <2>1. ASSUME b < a PROVE FALSE
    <3>1. PICK r \in Nat : a = b + 1 + r
      <4>1. a - b - 1 \in Nat /\ a = b + 1 + (a - b - 1) BY <2>1
      <4> QED BY <4>1
    <3>2. k * a = k * b + k + k * r BY <3>1
    <3>3. k * r \in Nat OBVIOUS
    <3>4. s >= t + k BY <1>2, <1>4, <3>2, <3>3
    <3> QED BY <1>2, <1>3, <3>4
  <2> QED BY <2>1
<1>7. a = b BY <1>5, <1>6
<1> QED BY <1>4, <1>7

\* Every weight is in a chunk.
LEMMA StartOf ==
    ASSUME NEW l \in Nat, NEW i \in 1..l
    PROVE  \E s \in Starts(l) : s < i /\ i <= EndOf(l, s)
<1>1. PICK k \in Nat \ {0} : k = Capacity BY CapacityIs
<1>2. PICK q \in Nat : q = (i - 1) \div k
  <2>1. i - 1 \in Nat OBVIOUS
  <2> QED BY <2>1, Floor
<1>3. k * q <= i - 1 /\ i - 1 < k * q + k BY <1>2
<1>4. PICK s \in Nat : s = k * q
  <2>1. k * q \in Nat OBVIOUS
  <2> QED BY <2>1
<1>5. s % k = 0 BY <1>4
<1>6. s \in 0..l - 1 /\ s < i /\ i <= s + k BY <1>3, <1>4
<1>7. s \in Starts(l) BY <1>1, <1>5, <1>6 DEF Starts
<1>8. EndOf(l, s) = IF s + k < l THEN s + k ELSE l BY <1>1 DEF EndOf
<1> QED BY <1>6, <1>7, <1>8

-----------------------------------------------------------------------------
(* Krum. *)

Vectors(w) == [1..w -> Int]

\* Distances are symmetric and not negative.
LEMMA DistanceIs ==
    ASSUME NEW w \in Nat, NEW v \in Vectors(w), NEW u \in Vectors(w)
    PROVE  Distance(v, u) \in Nat /\ Distance(v, u) = Distance(u, v)
<1> DEFINE f == [i \in DOMAIN v |-> (v[i] - u[i]) * (v[i] - u[i])]
           g == [i \in DOMAIN u |-> (u[i] - v[i]) * (u[i] - v[i])]
<1>1. DOMAIN v = 1..w /\ DOMAIN u = 1..w BY DEF Vectors
<1>2. IsFiniteSet(1..w) BY FS_Interval
<1>3. ASSUME NEW i \in 1..w PROVE f[i] \in Nat /\ f[i] = g[i]
  <2>1. PICK a \in Int, b \in Int : a = v[i] /\ b = u[i] BY DEF Vectors
  <2>2. f[i] = (a - b) * (a - b) /\ g[i] = (b - a) * (b - a) BY <1>1, <2>1
  <2>3. (a - b) * (a - b) \in Nat /\ (a - b) * (a - b) = (b - a) * (b - a)
    <3>1. PICK c \in Int : c = a - b OBVIOUS
    <3>2. b - a = -c BY <3>1
    <3>3. c * c \in Nat
      <4>1. CASE c >= 0 BY <4>1
      <4>2. CASE c < 0
        <5>1. PICK e \in Nat : e = -c BY <4>2
        <5>2. c = -e BY <5>1
        <5>3. (-e) * (-e) = e * e /\ e * e \in Nat OBVIOUS
        <5> QED BY <5>2, <5>3
      <4> QED BY <4>1, <4>2
    <3>4. (-c) * (-c) = c * c OBVIOUS
    <3> QED BY <3>1, <3>2, <3>3, <3>4
  <2> QED BY <2>2, <2>3
<1>4. Distance(v, u) = SumOver(f, 1..w) /\ Distance(u, v) = SumOver(g, 1..w)
  BY <1>1 DEF Distance
<1> HIDE DEF f, g
<1>5. SumOver(f, 1..w) \in Nat BY <1>2, <1>3, SumNat
<1>6. SumOver(f, 1..w) = SumOver(g, 1..w)
  <2>1. Ints(f, 1..w) BY <1>3 DEF Ints
  <2> QED BY <1>2, <1>3, <2>1, SumSame
<1> QED BY <1>4, <1>5, <1>6

\* Fragments of w weights, at most one of each node.
Fit(F, w) ==
    /\ IsFiniteSet(F) /\ w \in Nat
    /\ \A f \in F : f = <<f[1], f[2]>> /\ f[2] \in Vectors(w)
    /\ \A f, g \in F : f[1] = g[1] => f = g

From(F, f) == [g \in F |-> Distance(f[2], g[2])]

\* A set has parts of every size up to its own.
LEMMA PartOfSize ==
    ASSUME NEW S, IsFiniteSet(S), NEW k \in 0..Cardinality(S)
    PROVE  \E K \in SUBSET S : Cardinality(K) = k
<1> DEFINE T == {s \in SUBSET S : \A j \in 0..Cardinality(s) :
                                     \E K \in SUBSET s : Cardinality(K) = j}
<1>1. {} \in T
  <2>1. Cardinality({}) = 0 /\ \A j \in 0..0 : j = 0 BY FS_EmptySet
  <2>2. {} \in SUBSET {} OBVIOUS
  <2> QED BY <2>1, <2>2
<1>2. ASSUME NEW s \in SUBSET S, NEW x \in S \ s, s \in T PROVE s \cup {x} \in T
  <2>1. IsFiniteSet(s) BY FS_Subset
  <2>2. Cardinality(s) \in Nat /\ Cardinality(s \cup {x}) = Cardinality(s) + 1
    BY <2>1, FS_CardinalityType, FS_AddElement
  <2>3. ASSUME NEW j \in 0..Cardinality(s \cup {x})
        PROVE  \E K \in SUBSET (s \cup {x}) : Cardinality(K) = j
    <3>1. CASE j \in 0..Cardinality(s)
      <4>1. PICK K \in SUBSET s : Cardinality(K) = j BY <1>2, <3>1
      <4> QED BY <4>1
    <3>2. CASE j = Cardinality(s) + 1
      <4>1. s \cup {x} \in SUBSET (s \cup {x}) OBVIOUS
      <4> QED BY <2>2, <3>2, <4>1
    <3> QED BY <2>2, <3>1, <3>2
  <2> QED BY <2>3
<1>3. S \in T
  <2> HIDE DEF T
  <2>1. \A s \in SUBSET S : s \in T BY <1>1, <1>2, Growing
  <2> QED BY <2>1
<1> QED BY <1>3

Others(F, f) == { <<g[1], Distance(f[2], g[2])>> : g \in F \ {f} }

\* The distances Score adds up, of k others at a time.
LEMMA SumsAre ==
    ASSUME NEW F, NEW w, Fit(F, w), NEW f \in F, NEW k \in Nat
    PROVE  { SumOver([g \in K |-> g[2]], K) : K \in kSubset(k, Others(F, f)) }
             = { SumOver(From(F, f), K) : K \in kSubset(k, F \ {f}) }
<1> DEFINE name == [g \in F \ {f} |-> <<g[1], Distance(f[2], g[2])>>]
           d == From(F, f)
<1>1. \A g, h \in F \ {f} : name[g] = name[h] => g = h BY DEF Fit
<1>2. IsFiniteSet(F) /\ \A g \in F : d[g] \in Nat
  <2>1. \A g \in F : d[g] = Distance(f[2], g[2]) BY DEF From
  <2>2. \A g \in F : g[2] \in Vectors(w) /\ w \in Nat BY DEF Fit
  <2> HIDE DEF d
  <2> QED BY <2>1, <2>2, DistanceIs DEF Fit
<1>3. \A g \in F \ {f} : name[g][2] = d[g] BY DEF From
<1>4. Others(F, f) = {name[g] : g \in F \ {f}} BY DEF Others
<1> HIDE DEF name, d
<1>5. ASSUME NEW K \in SUBSET (F \ {f})
      PROVE  LET N == {name[g] : g \in K}
             IN  /\ N \in SUBSET Others(F, f) /\ Cardinality(N) = Cardinality(K)
                 /\ SumOver([g \in N |-> g[2]], N) = SumOver(d, K)
  <2> DEFINE N == {name[g] : g \in K}
             map == [g \in K |-> name[g]]
             second == [g \in N |-> g[2]]
  <2>1. IsFiniteSet(K)
    <3>1. K \in SUBSET F OBVIOUS
    <3> QED BY <1>2, <3>1, FS_Subset
  <2>2. N \in SUBSET Others(F, f) BY <1>4
  <2>3. Cardinality(N) = Cardinality(K)
    <3>1. map \in Bijection(K, N)
      <4>1. map \in [K -> N] OBVIOUS
      <4>2. \A x, y \in K : map[x] = map[y] => x = y BY <1>1
      <4>3. \A y \in N : \E x \in K : map[x] = y OBVIOUS
      <4> QED BY <4>1, <4>2, <4>3 DEF Bijection, Injection, Surjection, IsInjective
    <3> HIDE DEF map, N
    <3>2. ExistsBijection(K, N) BY <3>1 DEF ExistsBijection
    <3> QED BY <2>1, <3>2, FS_Bijection
  <2>4. \A g \in K : second[name[g]] = d[g]
    <3>1. \A g \in K : name[g] \in N /\ g \in F \ {f} OBVIOUS
    <3> QED BY <1>3, <3>1
  <2>5. \A x, y \in K : name[x] = name[y] => x = y BY <1>1
  <2>6. Ints(d, K) BY <1>2 DEF Ints
  <2> HIDE DEF second
  <2>7. SumOver(second, {name[g] : g \in K}) = SumOver(d, K)
    BY <2>1, <2>4, <2>5, <2>6, SumRenamed
  <2> QED BY <2>2, <2>3, <2>7 DEF second
<1>6. ASSUME NEW N \in SUBSET Others(F, f)
      PROVE  \E K \in SUBSET (F \ {f}) : N = {name[g] : g \in K}
  <2> DEFINE K == {g \in F \ {f} : name[g] \in N}
  <2>1. N = {name[g] : g \in K} BY <1>4
  <2> QED BY <2>1
<1>7. ASSUME NEW K \in kSubset(k, F \ {f})
      PROVE  \E N \in kSubset(k, Others(F, f)) :
                SumOver([g \in N |-> g[2]], N) = SumOver(d, K)
  <2>1. K \in SUBSET (F \ {f}) /\ Cardinality(K) = k BY DEF kSubset
  <2>2. {name[g] : g \in K} \in kSubset(k, Others(F, f)) BY <1>5, <2>1 DEF kSubset
  <2> QED BY <1>5, <2>1, <2>2
<1>8. ASSUME NEW N \in kSubset(k, Others(F, f))
      PROVE  \E K \in kSubset(k, F \ {f}) :
                SumOver([g \in N |-> g[2]], N) = SumOver(d, K)
  <2>1. N \in SUBSET Others(F, f) /\ Cardinality(N) = k BY DEF kSubset
  <2>2. PICK K \in SUBSET (F \ {f}) : N = {name[g] : g \in K} BY <1>6, <2>1
  <2>3. K \in kSubset(k, F \ {f}) BY <1>5, <2>1, <2>2 DEF kSubset
  <2> QED BY <1>5, <2>2, <2>3
<1> DEFINE left == { SumOver([g \in K |-> g[2]], K) : K \in kSubset(k, Others(F, f)) }
           right == { SumOver(d, K) : K \in kSubset(k, F \ {f}) }
<1>9. ASSUME NEW x \in left PROVE x \in right
  <2>1. PICK N \in kSubset(k, Others(F, f)) : x = SumOver([g \in N |-> g[2]], N) OBVIOUS
  <2>2. PICK K \in kSubset(k, F \ {f}) : SumOver([g \in N |-> g[2]], N) = SumOver(d, K)
    BY <1>8
  <2> QED BY <2>1, <2>2, Zenon
<1>10. ASSUME NEW x \in right PROVE x \in left
  <2>1. PICK K \in kSubset(k, F \ {f}) : x = SumOver(d, K) OBVIOUS
  <2>2. PICK N \in kSubset(k, Others(F, f)) :
           SumOver([g \in N |-> g[2]], N) = SumOver(d, K)
    BY <1>7
  <2> QED BY <2>1, <2>2, Zenon
<1> HIDE DEF left, right
<1>11. left = right BY <1>9, <1>10
<1> QED BY <1>11, Zenon DEF left, right, d

\* The lesser of two.
LEMMA MinOfTwo ==
    ASSUME NEW a \in Int, NEW b \in Int
    PROVE  Min({a, b}) \in {a, b} /\ Min({a, b}) <= a /\ Min({a, b}) <= b
<1>1. \E x \in {a, b} : \A y \in {a, b} : x =< y
  <2>1. CASE a <= b BY <2>1
  <2>2. CASE b <= a BY <2>2
  <2> QED BY <2>1, <2>2
<1>2. Min({a, b}) \in {a, b} /\ \A y \in {a, b} : Min({a, b}) =< y BY <1>1, Zenon DEF Min
<1> QED BY <1>2

\* As many fragments are distrusted as the fraction allows, but so few that a
\* majority and one more is trusted.
LEMMA AssumedIs ==
    ASSUME config.fraction \in 0..100, NEW n \in Nat, n >= 3
    PROVE  /\ Assumed(n) \in Nat /\ 2 * Assumed(n) + 3 <= n
           /\ \A b \in 0..(config.fraction * n) \div 100 : 2 * b + 2 < n => b <= Assumed(n)
<1>1. PICK q \in Nat : q = (config.fraction * n) \div 100
  <2>1. PICK x \in Nat : x = config.fraction OBVIOUS
  <2>2. x * n \in Nat OBVIOUS
  <2>3. (x * n) \div 100 \in Nat BY <2>2, Floor
  <2> QED BY <2>1, <2>3
<1>2. PICK h \in Nat : h = (n - 3) \div 2 /\ 2 * h + 3 <= n /\ n < 2 * h + 5
  <2>1. (n - 3) \div 2 \in Nat OBVIOUS
  <2> QED BY <2>1
<1>3. Assumed(n) = Min({q, h}) BY <1>1, <1>2 DEF Assumed
<1>4. Min({q, h}) \in {q, h} /\ Min({q, h}) <= q /\ Min({q, h}) <= h BY MinOfTwo
<1>5. PICK m \in Nat : m = Assumed(n) /\ m \in {q, h} /\ m <= h BY <1>3, <1>4
<1>6. ASSUME NEW b \in 0..q, 2 * b + 2 < n PROVE b <= m
  <2>1. b <= h BY <1>2, <1>6
  <2> QED BY <1>5, <1>6, <2>1
<1> QED BY <1>1, <1>2, <1>5, <1>6

\* A score is the least sum of the distances to k other fragments.
LEMMA ScoreIs ==
    ASSUME config.fraction \in 0..100, NEW F, NEW w, Fit(F, w), Cardinality(F) >= 3,
           NEW f \in F,
           NEW k, k = Cardinality(F) - Assumed(Cardinality(F)) - 2
    PROVE  /\ k \in Nat /\ Score(F, f) \in Nat
           /\ \A g \in F : From(F, f)[g] \in Nat
           /\ \E K \in kSubset(k, F \ {f}) : Score(F, f) = SumOver(From(F, f), K)
           /\ \A K \in kSubset(k, F \ {f}) : Score(F, f) <= SumOver(From(F, f), K)
<1>1. IsFiniteSet(F) BY DEF Fit
<1>2. PICK n \in Nat : n = Cardinality(F) /\ n >= 3 BY <1>1, FS_CardinalityType
<1>3. PICK m \in Nat : m = Assumed(n) /\ 2 * m + 3 <= n BY <1>2, AssumedIs
<1>4. k \in Nat /\ k = n - m - 2 /\ k <= n - 1 BY <1>2, <1>3
<1> DEFINE sums == { SumOver(From(F, f), K) : K \in kSubset(k, F \ {f}) }
<1>5. Score(F, f) = Min(sums)
  <2>1. { SumOver([g \in K |-> g[2]], K) : K \in kSubset(k, Others(F, f)) } = sums
    BY <1>4, SumsAre
  <2>2. Score(F, f) = Min({ SumOver([g \in K |-> g[2]], K) : K \in kSubset(k, Others(F, f)) })
    BY Zenon DEF Score, Others
  <2> HIDE DEF sums
  <2> QED BY <2>1, <2>2
<1>6. ASSUME NEW g \in F PROVE From(F, f)[g] \in Nat
  <2>1. w \in Nat /\ f[2] \in Vectors(w) /\ g[2] \in Vectors(w) BY DEF Fit
  <2>2. Distance(f[2], g[2]) \in Nat BY <2>1, DistanceIs
  <2> QED BY <2>2 DEF From
<1>7. ASSUME NEW K \in kSubset(k, F \ {f}) PROVE SumOver(From(F, f), K) \in Nat
  <2>1. K \in SUBSET F BY DEF kSubset
  <2>2. IsFiniteSet(K) BY <1>1, <2>1, FS_Subset
  <2>3. \A g \in K : From(F, f)[g] \in Nat BY <1>6, <2>1
  <2> QED BY <2>2, <2>3, SumNat
<1>8. sums # {}
  <2>1. IsFiniteSet(F \ {f}) /\ Cardinality(F \ {f}) = n - 1
    BY <1>1, <1>2, FS_RemoveElement
  <2>2. k \in 0..Cardinality(F \ {f}) BY <1>4, <2>1
  <2>3. PICK K \in SUBSET (F \ {f}) : Cardinality(K) = k BY <2>1, <2>2, PartOfSize
  <2>4. K \in kSubset(k, F \ {f}) BY <2>3 DEF kSubset
  <2> QED BY <2>4
<1>9. \A x \in sums : x \in Nat BY <1>7
<1>10. Min(sums) \in sums /\ \A x \in sums : Min(sums) <= x
  <2> HIDE DEF sums
  <2>1. sums \subseteq Int /\ 0 \in Int /\ \A x \in sums : 0 <= x BY <1>9
  <2> QED BY <1>8, <2>1, LeastInt
<1>11. Score(F, f) \in sums /\ \A x \in sums : Score(F, f) <= x BY <1>5, <1>10
<1> QED BY <1>4, <1>6, <1>9, <1>11

\* The greatest distance of two fragments of C.
LEMMA WithinIs ==
    ASSUME NEW C, NEW w, Fit(C, w), C # {}
    PROVE  /\ Within(C) \in Nat
           /\ \A f, g \in C : Distance(f[2], g[2]) <= Within(C)
<1> DEFINE pairs == C \X C
           d == [p \in pairs |-> Distance(p[1][2], p[2][2])]
           all == { Distance(f[2], g[2]) : f, g \in C }
<1>1. \A f, g \in C : Distance(f[2], g[2]) \in Nat
  <2>1. w \in Nat /\ \A f \in C : f[2] \in Vectors(w) BY DEF Fit
  <2> QED BY <2>1, DistanceIs
<1>2. IsFiniteSet(all)
  <2>1. IsFiniteSet(pairs) BY FS_Product DEF Fit
  <2>2. d \in Surjection(pairs, all)
    <3>1. \A p \in pairs : d[p] \in all OBVIOUS
    <3>2. d \in [pairs -> all]
      <4>1. d = [p \in pairs |-> d[p]] OBVIOUS
      <4> HIDE DEF d, all, pairs
      <4> QED BY <3>1, <4>1
    <3>3. ASSUME NEW x \in all PROVE \E p \in pairs : d[p] = x
      <4>1. PICK f \in C, g \in C : x = Distance(f[2], g[2]) OBVIOUS
      <4>2. <<f, g>> \in pairs /\ d[<<f, g>>] = x BY <4>1
      <4> QED BY <4>2
    <3> HIDE DEF d, all, pairs
    <3> QED BY <3>2, <3>3 DEF Surjection
  <2> HIDE DEF d, all, pairs
  <2> QED BY <2>1, <2>2, FS_Surjection
<1>3. all \subseteq Int /\ all # {} /\ \A x \in all : x \in Nat BY <1>1
<1>4. Max(all) \in all /\ \A x \in all : x <= Max(all)
  <2> HIDE DEF all
  <2> QED BY <1>2, <1>3, MinMaxIs
<1>5. Within(C) = Max(all) BY DEF Within
<1>6. \A f, g \in C : Distance(f[2], g[2]) \in all OBVIOUS
<1> HIDE DEF all
<1> QED BY <1>3, <1>4, <1>5, <1>6

\* With at most m Byzantine fragments the k nearest are fewer than the honest
\* ones, but more than the Byzantine ones.
LEMMA KrumSizes ==
    ASSUME NEW n \in Nat, NEW m \in Nat, 2 * m + 3 <= n
    PROVE  /\ n - m - 2 \in Nat /\ n - m - 2 <= n
           /\ \A b \in Nat : b <= m =>
                 /\ n - b > 0 /\ n - m - 2 \in 0..(n - b) - 1
                 /\ ~(n - m - 2 <= (n - (n - b)) - 1)
OBVIOUS

\* More times as much is as much at least.
LEMMA ScaledLeq ==
    ASSUME NEW k \in Nat, NEW n \in Nat, k <= n, NEW W \in Nat
    PROVE  k * W <= n * W /\ k * W \in Nat /\ n * W \in Nat
<1>1. PICK r \in Nat : n = k + r
  <2>1. n - k \in Nat /\ n = k + (n - k) OBVIOUS
  <2> QED BY <2>1
<1>2. n * W = k * W + r * W BY <1>1
<1>3. r * W \in Nat /\ k * W \in Nat OBVIOUS
<1> QED BY <1>2, <1>3

\* A fragment with the least score is one of those that are close to each other.
LEMMA KrumPicks ==
    ASSUME config.fraction \in 0..100, NEW F, NEW w, Fit(F, w), Cardinality(F) >= 3,
           NEW b \in 0..(config.fraction * Cardinality(F)) \div 100,
           2 * b + 2 < Cardinality(F),
           NEW C \in kSubset(Cardinality(F) - b, F),
           \A f \in C, g \in F \ C : Distance(f[2], g[2]) > Cardinality(F) * Within(C),
           NEW g \in F, \A f \in F : Score(F, g) <= Score(F, f)
    PROVE  g \in C
<1> SUFFICES ASSUME g \notin C PROVE FALSE
  OBVIOUS
<1>1. IsFiniteSet(F) BY DEF Fit
<1>2. PICK n \in Nat : n = Cardinality(F) /\ n >= 3 BY <1>1, FS_CardinalityType
<1>3. PICK m \in Nat : m = Assumed(n) /\ 2 * m + 3 <= n /\ b <= m BY <1>2, AssumedIs
<1>4. PICK k \in Nat : k = n - m - 2 BY <1>3, KrumSizes
<1>5. b \in Nat
  <2>1. PICK x \in Nat : x = config.fraction OBVIOUS
  <2>2. x * n \in Nat OBVIOUS
  <2>3. (x * n) \div 100 \in Nat BY <2>2, Floor
  <2>4. b \in 0..(x * n) \div 100 BY <1>2, <2>1
  <2> QED BY <2>3, <2>4
<1>6. C \in SUBSET F /\ Cardinality(C) = n - b /\ IsFiniteSet(C)
  <2>1. C \in SUBSET F /\ Cardinality(C) = n - b BY <1>2 DEF kSubset
  <2> QED BY <1>1, <2>1, FS_Subset
<1>7. n - b > 0 /\ C # {}
  <2>1. n - b > 0 BY <1>3, <1>5, KrumSizes
  <2>2. Cardinality(C) # 0 BY <1>5, <1>6, <2>1
  <2> QED BY <2>1, <2>2, FS_EmptySet
<1>8. Fit(C, w) BY <1>6 DEF Fit
<1>9. PICK W \in Nat : W = Within(C) /\ \A x, y \in C : Distance(x[2], y[2]) <= W
  BY <1>7, <1>8, WithinIs
<1>10. PICK f \in C : TRUE BY <1>7
<1>11. f \in F BY <1>6
<1>12. k = Cardinality(F) - Assumed(Cardinality(F)) - 2 BY <1>2, <1>3, <1>4
<1>13. Score(F, f) \in Nat /\ Score(F, f) <= k * W
  <2>1. IsFiniteSet(C \ {f}) /\ Cardinality(C \ {f}) = Cardinality(C) - 1
    BY <1>6, FS_RemoveElement
  <2>2. k \in 0..Cardinality(C \ {f})
    <3>1. k \in 0..(n - b) - 1 BY <1>3, <1>4, <1>5, KrumSizes
    <3> QED BY <1>6, <2>1, <3>1, Zenon
  <2>3. PICK K \in SUBSET (C \ {f}) : Cardinality(K) = k BY <2>1, <2>2, PartOfSize
  <2>4. K \in kSubset(k, F \ {f}) BY <1>6, <2>3 DEF kSubset
  <2>5. /\ Score(F, f) \in Nat /\ Score(F, f) <= SumOver(From(F, f), K)
        /\ \A x \in F : From(F, f)[x] \in Nat
    BY <1>11, <1>12, <2>4, ScoreIs
  <2>6. IsFiniteSet(K) BY <2>1, <2>3, FS_Subset
  <2>7. \A x \in K : From(F, f)[x] <= W
    <3>1. \A x \in K : x \in C /\ x \in F BY <1>6, <2>3
    <3> QED BY <1>9, <3>1 DEF From
  <2>8. Ints(From(F, f), K)
    <3>1. \A x \in K : x \in F BY <1>6, <2>3
    <3> QED BY <2>5, <3>1 DEF Ints
  <2>9. SumOver(From(F, f), K) <= k * W /\ SumOver(From(F, f), K) \in Int
    <3>1. W \in Int OBVIOUS
    <3>2. SumOver(From(F, f), K) <= Cardinality(K) * W BY <2>6, <2>7, <2>8, <3>1, SumBound
    <3>3. SumOver(From(F, f), K) \in Int BY <2>6, <2>8, SumType
    <3> QED BY <2>3, <3>2, <3>3
  <2>10. k * W \in Int OBVIOUS
  <2> QED BY <2>5, <2>9, <2>10
<1>14. PICK K \in kSubset(k, F \ {g}) : Score(F, g) = SumOver(From(F, g), K)
  BY <1>12, ScoreIs
<1>15. K \in SUBSET (F \ {g}) /\ Cardinality(K) = k /\ IsFiniteSet(K)
  <2>1. K \in SUBSET (F \ {g}) /\ Cardinality(K) = k BY DEF kSubset
  <2>2. K \in SUBSET F BY <2>1
  <2> QED BY <1>1, <2>1, <2>2, FS_Subset
<1>16. \E c \in K : c \in C
  <2>1. ASSUME K \cap C = {} PROVE FALSE
    <3> DEFINE D == (F \ C) \ {g}
    <3>1. IsFiniteSet(F \ C) /\ Cardinality(F \ C) = n - (n - b)
      <4>1. F \cap C = C BY <1>6
      <4>2. IsFiniteSet(F \ C) /\ Cardinality(F \ C) = Cardinality(F) - Cardinality(F \cap C)
        BY <1>1, FS_Difference
      <4> QED BY <1>2, <1>6, <4>1, <4>2
    <3>2. IsFiniteSet(D) /\ Cardinality(D) = (n - (n - b)) - 1
      <4>1. g \in F \ C OBVIOUS
      <4> QED BY <3>1, <4>1, FS_RemoveElement
    <3>3. K \in SUBSET D BY <1>15, <2>1
    <3> HIDE DEF D
    <3>4. Cardinality(K) <= Cardinality(D) BY <3>2, <3>3, FS_Subset
    <3>5. k <= (n - (n - b)) - 1 BY <1>15, <3>2, <3>4, Zenon
    <3> QED BY <1>3, <1>4, <1>5, <3>5, KrumSizes
  <2> QED BY <2>1
<1>17. PICK c \in K : c \in C BY <1>16
<1>18. From(F, g)[c] > n * W
  <2>1. Distance(c[2], g[2]) > n * W BY <1>2, <1>9, <1>17
  <2>2. c \in F BY <1>15
  <2>3. w \in Nat /\ c[2] \in Vectors(w) /\ g[2] \in Vectors(w) BY <2>2 DEF Fit
  <2>4. Distance(g[2], c[2]) = Distance(c[2], g[2]) BY <2>3, DistanceIs
  <2> QED BY <2>1, <2>2, <2>4 DEF From
<1>19. From(F, g)[c] <= Score(F, g) /\ From(F, g)[c] \in Nat /\ Score(F, g) \in Nat
  <2>1. \A x \in F : From(F, g)[x] \in Nat BY <1>12, ScoreIs
  <2>2. \A x \in K : From(F, g)[x] \in Nat BY <1>15, <2>1
  <2>3. From(F, g)[c] <= SumOver(From(F, g), K) BY <1>15, <2>2, SumTerm
  <2>4. Score(F, g) \in Nat BY <1>12, ScoreIs
  <2> QED BY <1>14, <2>2, <2>3, <2>4
<1>20. k * W <= n * W /\ k * W \in Nat /\ n * W \in Nat
  <2>1. k <= n BY <1>3, <1>4, <1>5, KrumSizes
  <2> QED BY <2>1, ScaledLeq
<1>21. Score(F, g) <= Score(F, f) BY <1>11
<1> QED BY <1>13, <1>18, <1>19, <1>20, <1>21

\* The image of a finite set.
LEMMA ImageFinite ==
    ASSUME NEW S, IsFiniteSet(S), NEW h
    PROVE  IsFiniteSet({h[x] : x \in S})
<1> DEFINE map == [x \in S |-> h[x]]
           all == {h[x] : x \in S}
<1>1. map \in Surjection(S, all) BY DEF Surjection
<1> HIDE DEF map, all
<1>2. IsFiniteSet(all) BY <1>1, FS_Surjection
<1> QED BY <1>2 DEF all

\* What is taken of the fragments has their length, and is one of those with the
\* least score if they are three or more.
LEMMA ChosenIs ==
    ASSUME config.fraction \in 0..100, NEW F, NEW w, Fit(F, w), F # {}
    PROVE  /\ IsFiniteSet(Chosen(F)) /\ \A x \in Chosen(F) : DOMAIN x = 1..w
           /\ Cardinality(F) >= 3 =>
                 \A x \in Chosen(F) :
                    \E g \in F : /\ \A f \in F : Score(F, g) <= Score(F, f)
                                 /\ \A i \in 1..w : x[i] = Mean(g[2][i], 1)
<1> DEFINE n == Cardinality(F)
           weights == DOMAIN (CHOOSE f \in F : TRUE)[2]
           best == Min({ Score(F, f) : f \in F })
           mean == [i \in weights |-> Mean(SumOver([f \in F |-> f[2][i]], F), n)]
           G == { g \in F : Score(F, g) = best }
           one(f) == [i \in weights |-> Mean(f[2][i], 1)]
<1>1. Chosen(F) = IF n <= 2 THEN { mean } ELSE { one(f) : f \in G }
  BY Zenon DEF Chosen
<1>2. IsFiniteSet(F) /\ n \in Nat BY FS_CardinalityType DEF Fit
<1>3. weights = 1..w
  <2>1. (CHOOSE f \in F : TRUE) \in F OBVIOUS
  <2>2. (CHOOSE f \in F : TRUE)[2] \in Vectors(w) BY <2>1 DEF Fit
  <2> QED BY <2>2 DEF Vectors
<1>4. DOMAIN mean = 1..w /\ \A f \in F : DOMAIN one(f) = 1..w BY <1>3
<1>5. \A f \in F : \A i \in 1..w : one(f)[i] = Mean(f[2][i], 1) BY <1>3
<1>6. CASE n <= 2
  <2>1. Chosen(F) = {mean} BY <1>1, <1>6
  <2>2. IsFiniteSet({mean}) BY FS_Singleton
  <2>3. ~(n >= 3) BY <1>2, <1>6
  <2> HIDE DEF mean
  <2> QED BY <1>4, <2>1, <2>2, <2>3
<1>7. CASE ~(n <= 2)
  <2>1. Chosen(F) = { one(f) : f \in G } BY <1>1, <1>7
  <2> DEFINE map == [f \in G |-> one(f)]
  <2>2. IsFiniteSet({map[f] : f \in G})
    <3>1. IsFiniteSet(G) BY <1>2, FS_Subset
    <3> HIDE DEF map, G
    <3> QED BY <3>1, ImageFinite
  <2>3. {map[f] : f \in G} = { one(f) : f \in G } OBVIOUS
  <2>4. n >= 3 BY <1>2, <1>7
  <2>5. \A f \in F : best <= Score(F, f)
    <3> DEFINE scores == { Score(F, f) : f \in F }
    <3>1. \A f \in F : Score(F, f) \in Nat
      <4>1. PICK k : k = Cardinality(F) - Assumed(Cardinality(F)) - 2 OBVIOUS
      <4> QED BY <2>4, <4>1, ScoreIs
    <3>2. scores \subseteq Int /\ scores # {} /\ 0 \in Int /\ \A x \in scores : 0 <= x
      BY <3>1
    <3> HIDE DEF scores
    <3>3. \A x \in scores : Min(scores) <= x BY <3>2, LeastInt
    <3> QED BY <3>3 DEF scores
  <2>6. ASSUME NEW x \in Chosen(F)
        PROVE  /\ DOMAIN x = 1..w
               /\ \E g \in F : /\ \A f \in F : Score(F, g) <= Score(F, f)
                               /\ \A i \in 1..w : x[i] = Mean(g[2][i], 1)
    <3>1. PICK g \in G : x = one(g) BY <2>1
    <3>2. g \in F /\ Score(F, g) = best OBVIOUS
    <3> HIDE DEF best, one, G, weights
    <3>3. \A f \in F : Score(F, g) <= Score(F, f) BY <2>5, <3>2
    <3>4. \A i \in 1..w : x[i] = Mean(g[2][i], 1) BY <1>5, <3>1, <3>2
    <3>5. DOMAIN x = 1..w BY <1>4, <3>1, <3>2
    <3> QED BY <3>2, <3>3, <3>4, <3>5
  <2>7. IsFiniteSet(Chosen(F)) BY <2>1, <2>2, <2>3, Zenon
  <2> QED BY <2>6, <2>7
<1> QED BY <1>6, <1>7

\* Chunks that came, with their senders: one of each sender from each start on.
Arrived(A) ==
    /\ IsFiniteSet(A)
    /\ \A c \in A :
          /\ c = <<c[1], c[2]>> /\ c[1] \in Peers
          /\ c[2].start \in Starts(Total) /\ c[2].end = EndOf(Total, c[2].start)
          /\ c[2].data \in Vectors(c[2].end - c[2].start)
    /\ \A c, d \in A : c[1] = d[1] /\ c[2].start = d[2].start => c = d

Span(s) == EndOf(Total, s) - s

\* The fragments of a chunk that came are one of each node, of equal length.
LEMMA FragmentsAre ==
    ASSUME NEW v \in Vectors(Total), NEW A, Arrived(A), NEW c \in A, NEW s, s = c[2].start
    PROVE  /\ Fit(Fragments(v, A, s), Span(s)) /\ Fragments(v, A, s) # {}
           /\ s \in Starts(Total)
<1> DEFINE group == { d \in A : d[2].start = s }
           own == SubSeq(v, s + 1, EndOf(Total, s))
           come == [d \in group |-> <<d[1], d[2].data>>]
<1>1. s \in Starts(Total) BY DEF Arrived
<1>2. PICK l \in Nat, e \in Nat : l = Total /\ e = EndOf(Total, s) /\ s \in Nat /\ s < e /\ e <= l
  BY <1>1, TotalIs, EndIs
<1>3. Span(s) = e - s /\ e - s \in Nat BY <1>2 DEF Span
<1>4. \A d \in group : /\ d[2].end = e /\ d[2].start = s /\ d[2].data \in Vectors(Span(s))
                       /\ d[1] \in Peers /\ d \in A
  BY <1>2, <1>3 DEF Arrived
<1>5. own \in Vectors(Span(s))
  <2>1. \A i \in s + 1..e : v[i] \in Int BY <1>2 DEF Vectors
  <2>2. s + 1 \in Int /\ e \in Int /\ s + 1 <= e BY <1>2
  <2>3. /\ SubSeq(v, s + 1, e) \in Seq(Int)
        /\ Len(SubSeq(v, s + 1, e)) = IF s + 1 <= e THEN e - (s + 1) + 1 ELSE 0
    BY <2>1, <2>2, SubSeqProperties
  <2>4. e - (s + 1) + 1 = e - s BY <1>2
  <2>5. SubSeq(v, s + 1, e) \in [1..Len(SubSeq(v, s + 1, e)) -> Int]
    BY <2>3, LenProperties
  <2>6. Len(SubSeq(v, s + 1, e)) = e - s BY <2>2, <2>3, <2>4
  <2>7. own = SubSeq(v, s + 1, e) BY <1>2
  <2> QED BY <1>3, <2>5, <2>6, <2>7, Zenon DEF Vectors
<1>6. c \in group OBVIOUS
<1>7. Fragments(v, A, s) = { <<d[1], d[2].data>> : d \in group } \cup { <<0, own>> }
  <2>1. \A d \in group : SubSeq(v, s + 1, d[2].end) = own BY <1>2, <1>4
  <2>2. { <<0, SubSeq(v, s + 1, d[2].end)>> : d \in group } = { <<0, own>> }
    <3> HIDE DEF group, own
    <3> QED BY <1>6, <2>1
  <2>3. Fragments(v, A, s) = { <<d[1], d[2].data>> : d \in group }
           \cup { <<0, SubSeq(v, s + 1, d[2].end)>> : d \in group }
    BY Zenon DEF Fragments
  <2> QED BY <2>2, <2>3, Zenon
<1>8. \A d \in group : come[d] = <<d[1], d[2].data>> OBVIOUS
<1> DEFINE others == { come[d] : d \in group }
<1>9. Fragments(v, A, s) = others \cup { <<0, own>> } BY <1>7, <1>8
<1>10. IsFiniteSet(group) BY FS_Subset DEF Arrived
<1>11. 0 \notin Peers BY DEF Peers
<1>12. \A d, f \in group : d[1] = f[1] => d = f BY <1>4 DEF Arrived
<1> HIDE DEF group, own, come
<1>13. IsFiniteSet(others) BY <1>10, ImageFinite
<1>14. IsFiniteSet(Fragments(v, A, s))
  <2> HIDE DEF others
  <2>1. PICK x : x = <<0, own>> OBVIOUS
  <2>2. IsFiniteSet(others \cup {x}) BY <1>13, FS_AddElement
  <2> QED BY <1>9, <2>1, <2>2, Zenon
<1>15. ASSUME NEW f \in Fragments(v, A, s)
       PROVE  /\ f = <<f[1], f[2]>> /\ f[2] \in Vectors(Span(s))
              /\ f[1] # 0 => \E d \in group : f = come[d] /\ f[1] = d[1]
              /\ f[1] = 0 => f = <<0, own>>
  <2>1. CASE f \in others
    <3>1. PICK d \in group : f = come[d] BY <2>1
    <3>2. f = <<d[1], d[2].data>> BY <1>8, <3>1
    <3>3. d[2].data \in Vectors(Span(s)) /\ d[1] # 0 BY <1>4, <1>11
    <3>4. f[1] = d[1] /\ f[2] = d[2].data /\ f = <<f[1], f[2]>> BY <3>2
    <3>5. f[2] \in Vectors(Span(s)) /\ f[1] # 0 BY <3>3, <3>4
    <3> QED BY <3>1, <3>4, <3>5
  <2>2. CASE f = <<0, own>>
    <3>1. f[1] = 0 /\ f[2] = own /\ f = <<f[1], f[2]>> BY <2>2
    <3> QED BY <1>5, <2>2, <3>1
  <2>3. f \in others \/ f = <<0, own>> BY <1>9
  <2> QED BY <2>1, <2>2, <2>3, Zenon
<1>16. ASSUME NEW f \in Fragments(v, A, s), NEW g \in Fragments(v, A, s), f[1] = g[1]
       PROVE  f = g
  <2>1. CASE f[1] = 0 BY <1>15, <1>16, <2>1
  <2>2. CASE f[1] # 0
    <3>1. PICK d \in group : f = come[d] /\ f[1] = d[1] BY <1>15, <2>2
    <3>2. PICK h \in group : g = come[h] /\ g[1] = h[1] BY <1>15, <1>16, <2>2
    <3> QED BY <1>12, <1>16, <3>1, <3>2
  <2> QED BY <2>1, <2>2
<1>17. Fit(Fragments(v, A, s), Span(s)) BY <1>3, <1>14, <1>15, <1>16 DEF Fit
<1>18. Fragments(v, A, s) # {} BY <1>9
<1> QED BY <1>1, <1>17, <1>18

\* The vector of _aggregate_krum has, in the place of each chunk that came, what
\* was taken of its fragments.
LEMMA KrumIs ==
    ASSUME config.fraction \in 0..100,
           NEW v \in Vectors(Total), NEW A, Arrived(A), NEW r \in Krum(v, A)
    PROVE  /\ DOMAIN r = 1..Total
           /\ \A c \in A : \E x \in Chosen(Fragments(v, A, c[2].start)) :
                 \A i \in 1..Span(c[2].start) : r[c[2].start + i] = x[i]
<1> DEFINE starts == { c[2].start : c \in A }
           taken(s) == Chosen(Fragments(v, A, s))
           chosen == UNION { {s} \X taken(s) : s \in starts }
           at(pick, i) == { x \in pick : x[1] < i /\ i - x[1] \in DOMAIN x[2] }
<1>1. PICK pick \in { P \in kSubset(Cardinality(starts), chosen) : { x[1] : x \in P } = starts } :
         r = [i \in DOMAIN v |->
                IF \E x \in pick : x[1] < i /\ i - x[1] \in DOMAIN x[2]
                THEN LET x == CHOOSE x \in pick : x[1] < i /\ i - x[1] \in DOMAIN x[2]
                     IN  x[2][i - x[1]]
                ELSE Mean(v[i], 1)]
  BY Zenon DEF Krum
<1>2. DOMAIN v = 1..Total BY DEF Vectors
<1>3. DOMAIN r = 1..Total BY <1>1, <1>2
<1>4. ASSUME NEW s \in starts
      PROVE  /\ s \in Starts(Total) /\ IsFiniteSet(taken(s))
             /\ \A x \in taken(s) : DOMAIN x = 1..Span(s)
  <2>1. PICK c \in A : s = c[2].start OBVIOUS
  <2>2. Fit(Fragments(v, A, s), Span(s)) /\ Fragments(v, A, s) # {} /\ s \in Starts(Total)
    BY <2>1, FragmentsAre
  <2> QED BY <2>2, ChosenIs
<1>5. IsFiniteSet(starts) /\ IsFiniteSet(chosen)
  <2> DEFINE start == [c \in A |-> c[2].start]
             pairs == [s \in starts |-> {s} \X taken(s)]
             all == {pairs[s] : s \in starts}
  <2>1. IsFiniteSet({start[c] : c \in A})
    <3> HIDE DEF start
    <3> QED BY ImageFinite DEF Arrived
  <2>2. IsFiniteSet(starts)
    <3>1. {start[c] : c \in A} = starts OBVIOUS
    <3> HIDE DEF start, starts
    <3> QED BY <2>1, <3>1
  <2>3. \A s \in starts : pairs[s] = {s} \X taken(s) OBVIOUS
  <2>4. all = { {s} \X taken(s) : s \in starts } OBVIOUS
  <2> HIDE DEF start, pairs, starts, taken
  <2>5. IsFiniteSet(all) BY <2>2, ImageFinite
  <2>6. ASSUME NEW p \in all PROVE IsFiniteSet(p)
    <3>1. PICK s \in starts : p = {s} \X taken(s) BY <2>4
    <3>2. IsFiniteSet({s}) /\ IsFiniteSet(taken(s)) BY <1>4, FS_Singleton
    <3> QED BY <3>1, <3>2, FS_Product
  <2> HIDE DEF all
  <2>7. IsFiniteSet(UNION all) BY <2>5, <2>6, FS_UNION
  <2> QED BY <2>2, <2>4, <2>7, Zenon
<1>6. /\ pick \in SUBSET chosen /\ Cardinality(pick) = Cardinality(starts)
      /\ { x[1] : x \in pick } = starts
  BY <1>1 DEF kSubset
<1>7. ASSUME NEW x \in pick
      PROVE  x[1] \in starts /\ x[2] \in taken(x[1])
  <2>1. PICK s \in starts : x \in {s} \X taken(s) BY <1>6
  <2> HIDE DEF starts, taken
  <2>2. x[1] = s /\ x[2] \in taken(s) BY <2>1
  <2> QED BY <2>2
<1>8. \A x, y \in pick : x[1] = y[1] => x = y
  <2> DEFINE first == [x \in pick |-> x[1]]
  <2>1. IsFiniteSet(pick) BY <1>5, <1>6, FS_Subset
  <2>2. first \in Surjection(pick, starts)
    <3>1. \A x \in pick : first[x] = x[1] OBVIOUS
    <3>2. first = [x \in pick |-> first[x]] OBVIOUS
    <3> HIDE DEF first, starts
    <3>3. first \in [pick -> starts] BY <1>6, <3>1, <3>2
    <3>4. \A s \in starts : \E x \in pick : first[x] = s BY <1>6, <3>1
    <3> QED BY <3>3, <3>4 DEF Surjection
  <2>3. first \in Injection(pick, starts)
    <3> HIDE DEF first, starts, chosen
    <3> QED BY <1>6, <2>1, <2>2, FS_SurjSameCardinalityImpliesInj
  <2>4. \A x, y \in pick : first[x] = first[y] => x = y
    <3> HIDE DEF first, starts
    <3> QED BY <2>3 DEF Injection, IsInjective
  <2> QED BY <2>4
<1> HIDE DEF chosen
<1>9. ASSUME NEW c \in A, NEW s, s = c[2].start
      PROVE  \E x \in taken(s) : \A i \in 1..Span(s) : r[s + i] = x[i]
  <2>1. s \in starts BY <1>9
  <2>2. PICK x \in pick : x[1] = s BY <1>6, <2>1
  <2>3. x[2] \in taken(s) BY <1>7, <2>2
  <2>4. PICK l \in Nat, e \in Nat :
           l = Total /\ e = EndOf(Total, s) /\ s \in Nat /\ s < e /\ e <= l
    BY <1>4, <2>1, TotalIs, EndIs
  <2>5. Span(s) = e - s /\ DOMAIN x[2] = 1..e - s BY <1>4, <2>1, <2>3, <2>4 DEF Span
  <2>6. ASSUME NEW i \in 1..e - s PROVE r[s + i] = x[2][i]
    <3>1. PICK j \in Nat : j = s + i /\ s < j /\ j <= e /\ j \in 1..l /\ j - s = i
      <4>1. s + i \in Nat BY <2>4
      <4>2. s < s + i /\ s + i <= e /\ s + i \in 1..l /\ (s + i) - s = i BY <2>4
      <4> QED BY <4>1, <4>2
    <3>2. x[1] < j /\ j - x[1] \in DOMAIN x[2] BY <2>2, <2>5, <3>1
    <3>3. ASSUME NEW y \in pick, y[1] < j, j - y[1] \in DOMAIN y[2] PROVE y = x
      <4>1. PICK t : t = y[1] OBVIOUS
      <4>2. t \in starts /\ y[2] \in taken(t) BY <1>7, <4>1
      <4>3. t \in Starts(l) /\ DOMAIN y[2] = 1..Span(t) BY <1>4, <2>4, <4>2
      <4>4. t \in Nat /\ EndOf(l, t) \in Nat /\ t < EndOf(l, t) BY <4>3, EndIs
      <4>5. Span(t) = EndOf(l, t) - t BY <2>4 DEF Span
      <4>6. t < j /\ j - t \in 1..EndOf(l, t) - t BY <3>3, <4>1, <4>3, <4>5
      <4>7. j <= EndOf(l, t) BY <4>4, <4>6
      <4>8. s \in Starts(l) /\ j <= EndOf(l, s) BY <1>4, <2>1, <2>4, <3>1
      <4>9. s = t BY <3>1, <4>3, <4>6, <4>7, <4>8, StartsApart
      <4> QED BY <1>8, <2>2, <4>1, <4>9
    <3>4. \E y \in pick : y[1] < j /\ j - y[1] \in DOMAIN y[2] BY <3>2
    <3>5. (CHOOSE y \in pick : y[1] < j /\ j - y[1] \in DOMAIN y[2]) = x
      BY <3>3, <3>4, Zenon
    <3>6. j \in DOMAIN v BY <1>2, <2>4, <3>1
    <3>7. r[j] = x[2][j - x[1]] BY <1>1, <3>4, <3>5, <3>6, Zenon
    <3>8. j - x[1] = i BY <2>2, <3>1
    <3> QED BY <3>1, <3>7, <3>8, Zenon
  <2> QED BY <2>3, <2>5, <2>6
<1> QED BY <1>3, <1>9

-----------------------------------------------------------------------------
(* The round. *)

\* The vectors a peer may send for v in a run with this attack.
AttackedAs(attack, v, n) ==
    IF ~IsByzantine(n) \/ attack = "none" THEN {v}
    ELSE CASE attack = "sign_flip" -> { [i \in DOMAIN v |-> -v[i]] }
           [] attack = "gaussian_noise" ->
                { [i \in DOMAIN v |-> v[i] + e[i]] : e \in [DOMAIN v -> Noise] }

\* What a peer has sent it has made of its model.
Made(p) ==
    \/ flat[p] = <<>> /\ sent[p] = {}
    \/ /\ flat[p] \in AttackedAs(config.attack, Flatten(model[p]), p)
       /\ sent[p] \in Encodings(flat[p])

\* The vectors _aggregate may make of that of node 0.
Aggregates ==
    IF config.algorithm = "krum" THEN Krum(Local, Sent \ missing)
    ELSE { FedAvg(Local, Sent \ missing) }

IInv ==
    /\ phase \in {"load", "train", "exchange", "done"} /\ config \in Configs
    /\ phase \in {"load", "train"} =>
          /\ draw \in [size : ClassSizes, share : Shares]
          /\ flat = [p \in Peers |-> <<>>] /\ sent = [p \in Peers |-> {}]
    /\ phase = "train" => samples = [n \in Nodes |-> Partition(draw, n)]
    /\ phase \in {"exchange", "done"} =>
          /\ model \in [Nodes -> Models]
          /\ DOMAIN flat = Peers /\ DOMAIN sent = Peers
          /\ \A p \in Peers : Made(p)
    /\ phase = "done" =>
          /\ (\A p \in Peers : flat[p] # <<>>) /\ missing \subseteq Sent
          /\ \E v \in Aggregates : result = Unflatten(v, model[0])

\* Nothing has happened yet.
LEMMA InitIInv == Init => IInv
BY DEF Init, IInv

\* Every node takes its part.
LEMMA LoadPartitionStep == IInv /\ LoadPartition => IInv'
<1> SUFFICES ASSUME IInv, LoadPartition PROVE IInv'
  OBVIOUS
<1>1. /\ phase = "load" /\ phase' = "train"
      /\ samples' = [n \in Nodes |-> Partition(draw, n)]
      /\ draw' = draw /\ config' = config /\ flat' = flat /\ sent' = sent
  BY DEF LoadPartition
<1>2. /\ config \in Configs /\ draw \in [size : ClassSizes, share : Shares]
      /\ flat = [p \in Peers |-> <<>>] /\ sent = [p \in Peers |-> {}]
  BY <1>1 DEF IInv
<1>3. samples' = [n \in Nodes |-> Partition(draw', n)] BY <1>1
<1> QED BY <1>1, <1>2, <1>3 DEF IInv

\* Every node has a model, and has sent nothing.
LEMMA TrainStep == IInv /\ Train => IInv'
<1> SUFFICES ASSUME IInv, Train PROVE IInv'
  OBVIOUS
<1>1. /\ phase = "train" /\ phase' = "exchange" /\ model' \in [Nodes -> Models]
      /\ config' = config /\ flat' = flat /\ sent' = sent
  BY DEF Train
<1>2. /\ config \in Configs
      /\ flat = [p \in Peers |-> <<>>] /\ sent = [p \in Peers |-> {}]
  BY <1>1 DEF IInv
<1>3. \A p \in Peers : Made(p)' BY <1>1, <1>2 DEF Made
<1> QED BY <1>1, <1>2, <1>3 DEF IInv

\* A peer sends what it made of its model, the others have not moved.
LEMMA CreateChunksStep ==
    ASSUME IInv, NEW p \in Peers, CreateChunks(p)
    PROVE  IInv'
<1>1. /\ phase = "exchange" /\ phase' = "exchange"
      /\ config' = config /\ model' = model
  BY DEF CreateChunks
<1>2. PICK v \in Attacked(Flatten(model[p]), p) :
         /\ flat' = [flat EXCEPT ![p] = v]
         /\ \E chunks \in Encodings(v) : sent' = [sent EXCEPT ![p] = chunks]
  BY DEF CreateChunks
<1>3. PICK chunks \in Encodings(v) : sent' = [sent EXCEPT ![p] = chunks] BY <1>2
<1>4. /\ config \in Configs /\ model \in [Nodes -> Models]
      /\ DOMAIN flat = Peers /\ DOMAIN sent = Peers /\ \A q \in Peers : Made(q)
  BY <1>1 DEF IInv
<1>5. DOMAIN flat' = Peers /\ DOMAIN sent' = Peers BY <1>2, <1>3, <1>4
<1>6. ASSUME NEW q \in Peers PROVE Made(q)'
  <2>1. CASE q = p
    <3>1. flat'[q] = v /\ sent'[q] = chunks BY <1>2, <1>3, <1>4, <2>1
    <3>2. v \in AttackedAs(config.attack, Flatten(model[q]), q)
      <4>1. Attacked(Flatten(model[p]), p) = AttackedAs(config.attack, Flatten(model[p]), p)
        BY Zenon DEF Attacked, AttackedAs
      <4> QED BY <1>2, <2>1, <4>1, Zenon
    <3> QED BY <1>1, <3>1, <3>2 DEF Made
  <2>2. CASE q # p
    <3>1. flat'[q] = flat[q] /\ sent'[q] = sent[q] BY <1>2, <1>3, <1>4, <2>2
    <3>2. Made(q) BY <1>4
    <3> QED BY <1>1, <3>1, <3>2 DEF Made
  <2> QED BY <2>1, <2>2
<1> QED BY <1>1, <1>4, <1>5, <1>6 DEF IInv

\* Node 0 aggregates what came.
LEMMA AggregateStep == IInv /\ Aggregate => IInv'
<1> SUFFICES ASSUME IInv, Aggregate PROVE IInv'
  OBVIOUS
<1>1. /\ phase = "exchange" /\ phase' = "done" /\ \A p \in Peers : flat[p] # <<>>
      /\ config' = config /\ model' = model /\ flat' = flat /\ sent' = sent
  BY DEF Aggregate
<1>2. /\ config \in Configs /\ model \in [Nodes -> Models]
      /\ DOMAIN flat = Peers /\ DOMAIN sent = Peers /\ \A q \in Peers : Made(q)
  BY <1>1 DEF IInv
<1>3. \A q \in Peers : Made(q)' BY <1>1, <1>2 DEF Made
<1>4. \E v \in IF config.algorithm = "krum" THEN Krum(Local, Sent \ missing')
               ELSE { FedAvg(Local, Sent \ missing') } : result' = Unflatten(v, model[0])
  BY Zenon DEF Aggregate
<1>5. Local' = Local /\ Sent' = Sent BY <1>1 DEF Local, Sent
<1>6. Aggregates' = IF config.algorithm = "krum" THEN Krum(Local, Sent \ missing')
                    ELSE { FedAvg(Local, Sent \ missing') }
  BY <1>1, <1>5 DEF Aggregates, Krum, Chosen, Fragments, Score, Assumed
<1>7. \E v \in Aggregates' : result' = Unflatten(v, model'[0]) BY <1>1, <1>4, <1>6, Zenon
<1>8. missing' \subseteq Sent
  <2>1. \E k \in 0..MaxMissing : missing' \in kSubset(k, Sent) BY DEF Aggregate
  <2> QED BY <2>1 DEF kSubset
<1> QED BY <1>1, <1>2, <1>3, <1>5, <1>7, <1>8 DEF IInv

\* Each step preserves the invariant.
LEMMA StepIInv == IInv /\ [Next]_vars => IInv'
<1> SUFFICES ASSUME IInv, [Next]_vars PROVE IInv'
  OBVIOUS
<1>1. CASE LoadPartition BY <1>1, LoadPartitionStep
<1>2. CASE Train BY <1>2, TrainStep
<1>3. ASSUME NEW p \in Peers, CreateChunks(p) PROVE IInv' BY <1>3, CreateChunksStep
<1>4. CASE Aggregate BY <1>4, AggregateStep
<1>5. CASE UNCHANGED vars
  <2>1. /\ phase' = phase /\ draw' = draw /\ samples' = samples /\ config' = config
        /\ model' = model /\ flat' = flat /\ sent' = sent /\ missing' = missing
        /\ result' = result
    BY <1>5 DEF vars
  <2>2. Local' = Local /\ Sent' = Sent BY <2>1 DEF Local, Sent
  <2>3. Aggregates' = Aggregates
    BY <2>1, <2>2 DEF Aggregates, Krum, Chosen, Fragments, Score, Assumed
  <2>4. \A p \in Peers : Made(p)' = Made(p) BY <2>1 DEF Made
  <2> QED BY <2>1, <2>2, <2>3, <2>4 DEF IInv
<1> QED BY <1>1, <1>2, <1>3, <1>4, <1>5 DEF Next

\* The invariant is one.
LEMMA AlwaysIInv == Spec => []IInv
BY InitIInv, StepIInv, PTL DEF Spec

-----------------------------------------------------------------------------
(* The properties. *)

\* The parts that were taken are those of PartitionIs.
LEMMA PartitionsCoverIs == IInv => PartitionsCover
<1> SUFFICES ASSUME IInv, phase = "train" PROVE PartitionsCover
  BY DEF PartitionsCover
<1>1. samples = [n \in Nodes |-> Partition(draw, n)] /\ draw \in [size : ClassSizes, share : Shares]
  BY DEF IInv
<1>2. draw \in Draws
  <2>1. draw.size \in Nat /\ draw.share \in Shares /\ draw = [size |-> draw.size, share |-> draw.share]
    BY <1>1, LearningAssumption
  <2> QED BY <2>1 DEF Draws
<1>3. \A n \in Nodes : samples[n] = Partition(draw, n) BY <1>1, Zenon
<1>4. /\ \A i \in 1..draw.size : \E n \in Nodes : i \in Partition(draw, n)
      /\ \A n, o \in Nodes : n # o => Partition(draw, n) \cap Partition(draw, o) = {}
  BY <1>2, PartitionIs, Zenon
<1>5. \A i \in 1..draw.size : \E n \in Nodes : i \in samples[n] BY <1>3, <1>4
<1>6. \A n, o \in Nodes : n # o => samples[n] \cap samples[o] = {}
  <2> SUFFICES ASSUME NEW n \in Nodes, NEW o \in Nodes, n # o
               PROVE  samples[n] \cap samples[o] = {}
    OBVIOUS
  <2>1. Partition(draw, n) \cap Partition(draw, o) = {} BY <1>4, Zenon
  <2>2. samples[n] = Partition(draw, n) /\ samples[o] = Partition(draw, o) BY <1>3
  <2> QED BY <2>1, <2>2, Zenon
<1> QED BY <1>5, <1>6, Zenon DEF PartitionsCover

\* What the attacks make of a vector.
LEMMA AttackedIs ==
    ASSUME NEW attack, attack \in Attacks, NEW v \in Seq(Int), NEW n,
           NEW a \in AttackedAs(attack, v, n)
    PROVE  /\ a \in Seq(Int) /\ Len(a) = Len(v)
           /\ attack = "none" => a = v
           /\ ~IsByzantine(n) => a = v
           /\ attack = "sign_flip" /\ IsByzantine(n) => \A i \in DOMAIN v : a[i] = -v[i]
<1>1. PICK l \in Nat : l = Len(v) /\ DOMAIN v = 1..l /\ \A i \in 1..l : v[i] \in Int
  BY LenProperties, ElementOfSeq
<1>2. \A f \in [1..l -> Int] : f \in Seq(Int) /\ Len(f) = l BY SeqOfLength
<1>3. CASE ~IsByzantine(n) \/ attack = "none"
  <2>1. AttackedAs(attack, v, n) = {v} BY <1>3 DEF AttackedAs
  <2>2. a = v BY <2>1
  <2> QED BY <1>3, <2>2
<1>4. CASE IsByzantine(n) /\ attack = "sign_flip"
  <2>1. a = [i \in DOMAIN v |-> -v[i]] BY <1>4 DEF AttackedAs
  <2>2. a \in [1..l -> Int] BY <1>1, <2>1
  <2> QED BY <1>1, <1>2, <1>4, <2>1, <2>2
<1>5. CASE IsByzantine(n) /\ attack = "gaussian_noise"
  <2>1. PICK e \in [DOMAIN v -> Noise] : a = [i \in DOMAIN v |-> v[i] + e[i]]
    BY <1>5 DEF AttackedAs
  <2>2. \A i \in 1..l : e[i] \in Int BY <1>1, LearningAssumption
  <2>3. a \in [1..l -> Int] BY <1>1, <2>1, <2>2
  <2> QED BY <1>1, <1>2, <1>5, <2>3
<1>6. attack \in {"none", "sign_flip", "gaussian_noise"} BY LearningAssumption
<1> QED BY <1>3, <1>4, <1>5, <1>6, Zenon

\* At the end every peer has sent a vector of all weights.
LEMMA DoneIs ==
    ASSUME IInv, phase = "done"
    PROVE  /\ \A p \in Nodes : Flatten(model[p]) \in Seq(Int) /\ Len(Flatten(model[p])) = Total
           /\ \A p \in Peers :
                 /\ flat[p] \in Seq(Int) /\ Len(flat[p]) = Total
                 /\ flat[p] \in AttackedAs(config.attack, Flatten(model[p]), p)
                 /\ sent[p] \in Encodings(flat[p])
           /\ config.attack \in Attacks
           /\ Local \in Vectors(Total)
<1>1. /\ config \in Configs /\ model \in [Nodes -> Models]
      /\ \A p \in Peers : Made(p) /\ flat[p] # <<>>
  BY DEF IInv
<1>2. config.attack \in Attacks BY <1>1 DEF Configs
<1>3. ASSUME NEW p \in Nodes
      PROVE  Flatten(model[p]) \in Seq(Int) /\ Len(Flatten(model[p])) = Total
  <2>1. model[p] \in Models BY <1>1
  <2>2. Shaped(model[p], Int) BY <2>1, ModelShaped, Zenon
  <2> QED BY <2>2, FlattenIs, Zenon
<1>4. ASSUME NEW p \in Peers
      PROVE  /\ flat[p] \in Seq(Int) /\ Len(flat[p]) = Total
             /\ flat[p] \in AttackedAs(config.attack, Flatten(model[p]), p)
             /\ sent[p] \in Encodings(flat[p])
  <2>1. /\ flat[p] \in AttackedAs(config.attack, Flatten(model[p]), p)
        /\ sent[p] \in Encodings(flat[p])
    BY <1>1, Zenon DEF Made
  <2>2. p \in Nodes BY LearningAssumption DEF Peers, Nodes
  <2>3. PICK v \in Seq(Int) : v = Flatten(model[p]) /\ Len(v) = Total BY <1>3, <2>2
  <2>4. PICK a \in AttackedAs(config.attack, v, p) : a = flat[p] BY <2>1, <2>3
  <2>5. a \in Seq(Int) /\ Len(a) = Len(v) BY <1>2, AttackedIs
  <2> QED BY <2>1, <2>3, <2>4, <2>5, Zenon
<1>5. Local \in Vectors(Total)
  <2>1. 0 \in Nodes BY LearningAssumption DEF Nodes
  <2>2. PICK v \in Seq(Int) : v = Flatten(model[0]) /\ Len(v) = Total BY <1>3, <2>1
  <2>3. DOMAIN v = 1..Total /\ \A i \in 1..Total : v[i] \in Int
    BY <2>2, TotalIs, LenProperties, ElementOfSeq
  <2>4. Local = [i \in 1..Total |-> 255 * v[i]] BY <2>2, <2>3 DEF Local
  <2> QED BY <2>3, <2>4 DEF Vectors
<1> QED BY <1>2, <1>3, <1>4, <1>5, Zenon

\* All that has been sent at the end, and so all that came.
LEMMA SentIs ==
    ASSUME IInv, phase = "done"
    PROVE  /\ IsFiniteSet(Sent)
           /\ \A c \in Sent : c = <<c[1], c[2]>> /\ c[1] \in Peers
                              /\ c[2] \in sent[c[1]] /\ IsChunk(c[2], flat[c[1]])
           /\ Arrived(Sent \ missing)
<1>1. \A p \in Peers : /\ flat[p] \in Seq(Int) /\ Len(flat[p]) = Total
                       /\ sent[p] \in Encodings(flat[p])
  BY DoneIs, Zenon
<1>2. \A p \in Peers :
         /\ \A c \in sent[p] : IsChunk(c, flat[p])
         /\ \A c, d \in sent[p] : c.start = d.start => c = d
         /\ IsFiniteSet(sent[p])
  BY <1>1, EncodingIs, Zenon
<1>3. IsFiniteSet(Sent)
  <2> DEFINE pairs == [p \in Peers |-> {p} \X sent[p]]
             all == {pairs[p] : p \in Peers}
  <2>1. IsFiniteSet(Peers)
    <3>1. 1 \in Int /\ NNodes - 1 \in Int BY LearningAssumption
    <3> QED BY <3>1, FS_Interval DEF Peers
  <2>2. \A p \in Peers : pairs[p] = {p} \X sent[p] OBVIOUS
  <2> HIDE DEF pairs
  <2>3. IsFiniteSet(all) BY <2>1, ImageFinite
  <2>4. ASSUME NEW s \in all PROVE IsFiniteSet(s)
    <3>1. PICK p \in Peers : s = {p} \X sent[p] BY <2>2
    <3>2. IsFiniteSet({p}) /\ IsFiniteSet(sent[p]) BY <1>2, FS_Singleton
    <3> QED BY <3>1, <3>2, FS_Product
  <2>5. all = { {p} \X sent[p] : p \in Peers } BY <2>2
  <2> HIDE DEF all
  <2>6. IsFiniteSet(UNION all) BY <2>3, <2>4, FS_UNION
  <2> QED BY <2>5, <2>6, Zenon DEF Sent
<1>4. ASSUME NEW c \in Sent
      PROVE  c = <<c[1], c[2]>> /\ c[1] \in Peers /\ c[2] \in sent[c[1]]
  <2>1. PICK p \in Peers : c \in {p} \X sent[p] BY DEF Sent
  <2> QED BY <2>1
<1>5. \A c \in Sent : IsChunk(c[2], flat[c[1]]) BY <1>2, <1>4
<1>6. Arrived(Sent \ missing)
  <2>1. IsFiniteSet(Sent \ missing) BY <1>3, FS_Subset
  <2>2. ASSUME NEW c \in Sent
        PROVE  /\ c[2].start \in Starts(Total) /\ c[2].end = EndOf(Total, c[2].start)
               /\ c[2].data \in Vectors(c[2].end - c[2].start)
    <3>1. IsChunk(c[2], flat[c[1]]) /\ Len(flat[c[1]]) = Total BY <1>1, <1>4, <1>5
    <3> QED BY <3>1 DEF IsChunk, Vectors
  <2>3. \A c, d \in Sent : c[1] = d[1] /\ c[2].start = d[2].start => c = d
    BY <1>2, <1>4
  <2> QED BY <1>4, <2>1, <2>2, <2>3 DEF Arrived
<1> QED BY <1>3, <1>4, <1>5, <1>6

\* The part of a vector from s on that makes a chunk, and what it is of r.
Slice(v, s) == SubSeq(v, s + 1, EndOf(Total, s))
IsSlice(part, r, s) == DOMAIN part = 1..Span(s) /\ \A i \in 1..Span(s) : part[i] = r[s + i]

\* What was taken of a chunk is still there when the tensors are flattened.
LEMMA ResultIs ==
    ASSUME NEW m \in Models, NEW r, DOMAIN r = 1..Total, NEW s \in Starts(Total)
    PROVE  IsSlice(Slice(Flatten(Unflatten(r, m)), s), r, s)
<1>1. PICK l \in Nat, e \in Nat : l = Total /\ e = EndOf(Total, s) /\ s \in Nat /\ s < e /\ e <= l
  BY TotalIs, EndIs
<1> DEFINE V == {r[i] : i \in 1..l} \cup {0}
<1>2. \A f \in [1..l -> V] : Flatten(Unflatten(f, m)) = f BY <1>1, UnflattenIs
<1> DEFINE f == [i \in 1..l |-> r[i]]
<1>3. f \in [1..l -> V] OBVIOUS
<1>4. \A i \in 1..l : f[i] = r[i] OBVIOUS
<1>5. Unflatten(r, m) = Unflatten(f, m)
  <2>1. DOMAIN m = DOMAIN Tensors
    <3>1. Shaped(m, Int) BY ModelShaped
    <3> QED BY <3>1 DEF Shaped
  <2>2. \A t \in DOMAIN m : ~Tensors[t].tracked =>
           \A i \in 1..Tensors[t].numel : r[Offset(t) + i] = f[Offset(t) + i]
    <3>1. \A t \in DOMAIN m : ~Tensors[t].tracked =>
             \A i \in 1..Tensors[t].numel : Offset(t) + i \in 1..l
      BY <1>1, <2>1, PlaceIs
    <3> HIDE DEF f
    <3> QED BY <1>4, <3>1
  <2> HIDE DEF f
  <2> QED BY <2>2 DEF Unflatten
<1> HIDE DEF f, V
<1>6. Flatten(Unflatten(r, m)) = f BY <1>2, <1>3, <1>5, Zenon
<1>7. f \in Seq(V) /\ Len(f) = l BY <1>1, <1>3, SeqOfLength
<1> DEFINE part == SubSeq(f, s + 1, e)
<1>8. /\ Len(part) = e - s /\ part \in Seq(V)
      /\ \A i \in 1..e - s : part[i] = f[s + i]
  <2>1. s + 1 \in Int /\ e \in Int /\ s + 1 <= e BY <1>1
  <2>2. \A i \in s + 1..e : f[i] \in V BY <1>1, <1>7, ElementOfSeq
  <2>3. /\ part \in Seq(V)
        /\ Len(part) = IF s + 1 <= e THEN e - (s + 1) + 1 ELSE 0
        /\ \A i \in 1 .. e - (s + 1) + 1 : part[i] = f[(s + 1) + i - 1]
    BY <2>1, <2>2, SubSeqProperties
  <2> HIDE DEF part
  <2>4. e - (s + 1) + 1 = e - s BY <1>1
  <2>5. \A i \in 1..e - s : (s + 1) + i - 1 = s + i BY <1>1
  <2> QED BY <2>1, <2>3, <2>4, <2>5
<1>9. DOMAIN part = 1..e - s
  <2> HIDE DEF part
  <2> QED BY <1>8, LenProperties
<1>10. \A i \in 1..e - s : part[i] = r[s + i]
  <2>1. \A i \in 1..e - s : s + i \in 1..l BY <1>1
  <2> HIDE DEF part
  <2> QED BY <1>4, <1>8, <2>1
<1>11. Span(s) = e - s BY <1>1 DEF Span
<1> HIDE DEF part
<1>12. Slice(Flatten(Unflatten(r, m)), s) = part
  BY <1>1, <1>6, Zenon DEF part, Slice
<1> QED BY <1>9, <1>10, <1>11, <1>12, Zenon DEF IsSlice

\* Of each chunk that came one fragment was taken, and KrumPicks says which.
LEMMA KrumHonestIs == IInv => KrumHonest
<1> SUFFICES ASSUME IInv, phase = "done", config.algorithm = "krum" PROVE KrumHonest
  BY Zenon DEF KrumHonest
<1> DEFINE A == Sent \ missing
<1>1. /\ config.fraction \in 0..100 /\ model[0] \in Models
  <2>1. config \in Configs /\ model \in [Nodes -> Models] BY DEF IInv
  <2>2. 0 \in Nodes BY LearningAssumption DEF Nodes
  <2> QED BY <2>1, <2>2, LearningAssumption DEF Configs
<1>2. PICK r \in Krum(Local, A) : result = Unflatten(r, model[0]) BY DEF IInv, Aggregates
<1>3. Local \in Vectors(Total) /\ Arrived(A) BY DoneIs, SentIs
<1> HIDE DEF A
<1>4. /\ DOMAIN r = 1..Total
      /\ \A c \in A : \E x \in Chosen(Fragments(Local, A, c[2].start)) :
            \A i \in 1..Span(c[2].start) : r[c[2].start + i] = x[i]
  BY <1>1, <1>2, <1>3, KrumIs
<1>5. ASSUME NEW c \in A, NEW F, F = Fragments(Local, A, c[2].start),
             NEW taken, taken = SubSeq(Flatten(result), c[2].start + 1, c[2].end)
      PROVE  TakenFromMost(F, taken)
  <2> SUFFICES ASSUME NEW b \in 0..(config.fraction * Cardinality(F)) \div 100,
                      2 * b + 2 < Cardinality(F),
                      NEW C \in kSubset(Cardinality(F) - b, F),
                      \A f \in C, g \in F \ C :
                         Distance(f[2], g[2]) > Cardinality(F) * Within(C)
               PROVE  \E f \in C : \A i \in DOMAIN taken : taken[i] = Mean(f[2][i], 1)
    BY DEF TakenFromMost
  <2>1. PICK s \in Starts(Total) : s = c[2].start /\ c[2].end = EndOf(Total, s)
    BY <1>3 DEF Arrived
  <2>2. Fit(F, Span(s)) /\ F # {} BY <1>3, <1>5, <2>1, FragmentsAre
  <2>3. Cardinality(F) >= 3
    <3>1. Cardinality(F) \in Nat BY <2>2, FS_CardinalityType DEF Fit
    <3>2. (config.fraction * Cardinality(F)) \div 100 \in Int /\ b \in Nat
      BY <1>1, <3>1
    <3> QED BY <3>1, <3>2
  <2>4. PICK x \in Chosen(F) : \A i \in 1..Span(s) : r[s + i] = x[i] BY <1>4, <1>5, <2>1
  <2>5. PICK g \in F : /\ \A f \in F : Score(F, g) <= Score(F, f)
                       /\ \A i \in 1..Span(s) : x[i] = Mean(g[2][i], 1)
    BY <1>1, <2>2, <2>3, <2>4, ChosenIs
  <2>6. g \in C BY <1>1, <1>5, <2>2, <2>3, <2>5, KrumPicks
  <2>7. DOMAIN taken = 1..Span(s) /\ \A i \in 1..Span(s) : taken[i] = r[s + i]
    <3>1. taken = SubSeq(Flatten(Unflatten(r, model[0])), s + 1, EndOf(Total, s))
      BY <1>2, <1>5, <2>1, Zenon
    <3>2. PICK m \in Models : m = model[0] BY <1>1
    <3>3. taken = Slice(Flatten(Unflatten(r, m)), s) BY <3>1, <3>2 DEF Slice
    <3>4. DOMAIN r = 1..Total BY <1>4
    <3>5. IsSlice(taken, r, s) BY <3>3, <3>4, ResultIs
    <3> QED BY <3>5 DEF IsSlice
  <2> QED BY <2>4, <2>5, <2>6, <2>7
<1> QED BY <1>5, Zenon DEF KrumHonest, A

\* Of each peer exactly one chunk has weight j.
LEMMA CoversOnce ==
    ASSUME IInv, phase = "done", NEW j \in 1..Total
    PROVE  /\ \A c, d \in Sent :
                 c[1] = d[1] /\ Covers(c[2], j) /\ Covers(d[2], j) => c = d
           /\ \A p \in Peers : \E c \in Sent : c[1] = p /\ Covers(c[2], j)
<1>1. Total \in Nat /\ j \in Int BY TotalIs
<1>2. \A p \in Peers : /\ flat[p] \in Seq(Int) /\ Len(flat[p]) = Total
                       /\ sent[p] \in Encodings(flat[p])
  BY DoneIs, Zenon
<1>3. ASSUME NEW c \in Sent, NEW d \in Sent, c[1] = d[1], Covers(c[2], j), Covers(d[2], j)
      PROVE  c = d
  <2>1. /\ c = <<c[1], c[2]>> /\ c[1] \in Peers /\ c[2] \in sent[c[1]]
        /\ d = <<d[1], d[2]>> /\ d[2] \in sent[c[1]]
        /\ IsChunk(c[2], flat[c[1]]) /\ IsChunk(d[2], flat[c[1]])
    BY <1>3, SentIs
  <2>2. /\ c[2].start \in Starts(Total) /\ c[2].start < j /\ j <= EndOf(Total, c[2].start)
        /\ d[2].start \in Starts(Total) /\ d[2].start < j /\ j <= EndOf(Total, d[2].start)
    BY <1>2, <1>3, <2>1 DEF IsChunk, Covers
  <2>3. c[2].start = d[2].start BY <1>1, <2>2, StartsApart
  <2>4. \A p \in Peers : \A x, y \in sent[p] : x.start = y.start => x = y
    BY <1>2, EncodingIs, Zenon
  <2>5. c[2] = d[2] BY <2>1, <2>3, <2>4, Zenon
  <2> QED BY <1>3, <2>1, <2>5, Zenon
<1>4. ASSUME NEW p \in Peers PROVE \E c \in Sent : c[1] = p /\ Covers(c[2], j)
  <2>1. PICK s \in Starts(Total) : s < j /\ j <= EndOf(Total, s) BY <1>1, StartOf
  <2>2. /\ \A c \in sent[p] : IsChunk(c, flat[p])
        /\ \A u \in Starts(Len(flat[p])) : \E c \in sent[p] : c.start = u
    BY <1>2, EncodingIs, Zenon
  <2>3. PICK c \in sent[p] : c.start = s BY <1>2, <2>2
  <2>4. c.end = EndOf(Total, s) BY <1>2, <2>2, <2>3 DEF IsChunk
  <2>5. Covers(c, j) BY <2>1, <2>3, <2>4 DEF Covers
  <2>6. <<p, c>> \in Sent BY DEF Sent
  <2>7. <<p, c>>[1] = p /\ <<p, c>>[2] = c OBVIOUS
  <2> QED BY <2>5, <2>6, <2>7, Zenon
<1> QED BY <1>3, <1>4, Zenon

\* The chunks that came with weight j.
With(j) == { c \in Sent \ missing : Covers(c[2], j) }

\* They are one of each contributor.
LEMMA WithIs ==
    ASSUME IInv, phase = "done", NEW j \in 1..Total
    PROVE  /\ IsFiniteSet(With(j)) /\ With(j) \subseteq Sent
           /\ \A c, d \in With(j) : c[1] = d[1] => c = d
           /\ { c[1] : c \in With(j) } = Contributors(j)
           /\ IsFiniteSet(Contributors(j))
           /\ Cardinality(Contributors(j)) = Cardinality(With(j))
<1>1. IsFiniteSet(With(j)) /\ With(j) \subseteq Sent
  <2>1. With(j) \subseteq Sent BY DEF With
  <2> QED BY <2>1, SentIs, FS_Subset
<1>2. \A c, d \in With(j) : c[1] = d[1] => c = d BY CoversOnce DEF With
<1>3. ASSUME NEW c \in With(j) PROVE c[1] \in Contributors(j)
  <2>1. c \in Sent /\ c \notin missing /\ Covers(c[2], j) BY DEF With
  <2>2. c[1] \in Peers BY <2>1, SentIs
  <2>3. missing \subseteq Sent BY DEF IInv
  <2>4. \A d \in missing : ~(d[1] = c[1] /\ Covers(d[2], j)) BY <2>1, <2>3, CoversOnce
  <2> QED BY <2>2, <2>4 DEF Contributors
<1>4. ASSUME NEW p \in Contributors(j) PROVE \E c \in With(j) : c[1] = p
  <2>1. p \in Peers /\ ~\E c \in missing : c[1] = p /\ Covers(c[2], j) BY DEF Contributors
  <2>2. PICK c \in Sent : c[1] = p /\ Covers(c[2], j) BY <2>1, CoversOnce
  <2> QED BY <2>1, <2>2 DEF With
<1> DEFINE sender == [c \in With(j) |-> c[1]]
<1>5. sender \in Bijection(With(j), Contributors(j))
  <2>1. sender \in [With(j) -> Contributors(j)] BY <1>3
  <2>2. \A c \in With(j) : sender[c] = c[1] OBVIOUS
  <2> HIDE DEF sender
  <2> QED BY <1>2, <1>4, <2>1, <2>2 DEF Bijection, Injection, Surjection, IsInjective
<1>6. IsFiniteSet(Contributors(j)) /\ Cardinality(Contributors(j)) = Cardinality(With(j))
  <2> HIDE DEF sender
  <2> QED BY <1>1, <1>5, FS_Bijection DEF ExistsBijection
<1>7. { c[1] : c \in With(j) } = Contributors(j) BY <1>3, <1>4
<1> QED BY <1>1, <1>2, <1>6, <1>7

\* A chunk that came is that of the contribution of its sender, up to its width.
LEMMA NearContribution ==
    ASSUME IInv, phase = "done", config.attack # "gaussian_noise",
           NEW t \in DOMAIN Tensors, ~Tensors[t].tracked, NEW i \in 1..Tensors[t].numel,
           NEW j \in 1..Total, j = Offset(t) + i, NEW c \in With(j)
    PROVE  /\ c[2].width \in Nat /\ c[2].data[j - c[2].start] \in Int
           /\ Contribution(c[1], t, i) \in Int
           /\ c[2].data[j - c[2].start] <= 255 * Contribution(c[1], t, i) + c[2].width
           /\ 255 * Contribution(c[1], t, i) <= c[2].data[j - c[2].start] + c[2].width
<1> DEFINE p == c[1]
<1>1. c \in Sent /\ Covers(c[2], j) BY DEF With
<1>2. p \in Peers /\ IsChunk(c[2], flat[p]) BY <1>1, SentIs
<1>3. p \in Nodes /\ p \in Peers BY <1>2, LearningAssumption DEF Peers, Nodes
<1>4. /\ config.attack \in Attacks /\ Len(flat[p]) = Total
      /\ Flatten(model[p]) \in Seq(Int) /\ Len(Flatten(model[p])) = Total
      /\ flat[p] \in AttackedAs(config.attack, Flatten(model[p]), p)
  BY <1>3, DoneIs, Zenon
<1> HIDE DEF p
<1>5. PICK v \in Seq(Int) : v = Flatten(model[p]) BY <1>4
<1>6. PICK a \in AttackedAs(config.attack, v, p) : a = flat[p] BY <1>4, <1>5
<1>7. v[j] = model[p][t][i] /\ v[j] \in Int /\ j \in DOMAIN v
  <2>1. PICK m \in Models : m = model[p] BY <1>3 DEF IInv
  <2>2. Shaped(m, Int) BY ModelShaped
  <2>3. \A u \in DOMAIN Tensors : ~Tensors[u].tracked =>
           \A k \in 1..Tensors[u].numel : Flatten(m)[Offset(u) + k] = m[u][k]
    BY <2>2, FlattenIs
  <2>4. v[j] = model[p][t][i] BY <1>5, <2>1, <2>3
  <2>5. Len(v) = Total BY <1>4, <1>5
  <2>6. j \in DOMAIN v /\ v[j] \in Int BY <2>5, LenProperties, ElementOfSeq
  <2> QED BY <2>4, <2>6
<1>8. /\ a \in Seq(Int) /\ Len(a) = Len(v)
      /\ config.attack = "none" => a = v
      /\ ~IsByzantine(p) => a = v
      /\ config.attack = "sign_flip" /\ IsByzantine(p) => \A k \in DOMAIN v : a[k] = -v[k]
  BY <1>4, AttackedIs
<1>9. a[j] = Contribution(p, t, i) /\ Contribution(p, t, i) \in Int
  <2>1. CASE config.attack = "sign_flip" /\ IsByzantine(p)
    <3>1. Contribution(p, t, i) = -model[p][t][i] BY <2>1 DEF Contribution
    <3> QED BY <1>7, <1>8, <2>1, <3>1
  <2>2. CASE ~(config.attack = "sign_flip" /\ IsByzantine(p))
    <3>1. Contribution(p, t, i) = model[p][t][i] BY <2>2, Zenon DEF Contribution
    <3>2. config.attack \in {"none", "sign_flip"} BY <1>4, LearningAssumption
    <3>3. a = v BY <1>8, <2>2, <3>2
    <3> QED BY <1>7, <3>1, <3>3
  <2> QED BY <2>1, <2>2
<1>10. PICK s \in Nat, e \in Nat, w \in Nat : s = c[2].start /\ e = c[2].end /\ w = c[2].width
                                  /\ s < j /\ j <= e
  <2>1. c[2].start \in Starts(Total) /\ c[2].end = EndOf(Total, c[2].start) /\ c[2].width \in Nat
    BY <1>2, <1>4 DEF IsChunk
  <2>2. c[2].start \in Nat /\ c[2].end \in Nat BY <2>1, TotalIs, EndIs
  <2> QED BY <1>1, <2>1, <2>2 DEF Covers
<1>11. PICK k \in 1..e - s : k = j - s /\ s + k = j
  <2>1. j \in Int BY TotalIs
  <2>2. j - s \in 1..e - s /\ s + (j - s) = j BY <1>10, <2>1
  <2> QED BY <2>2
<1>12. /\ c[2].data[k] \in Int
       /\ c[2].data[k] <= 255 * a[s + k] + w /\ 255 * a[s + k] <= c[2].data[k] + w
  <2>1. /\ c[2].data \in [1..c[2].end - c[2].start -> Int]
        /\ \A x \in 1..c[2].end - c[2].start :
              /\ c[2].data[x] <= 255 * flat[p][c[2].start + x] + c[2].width
              /\ 255 * flat[p][c[2].start + x] <= c[2].data[x] + c[2].width
    BY <1>2, Zenon DEF IsChunk
  <2>2. k \in 1..c[2].end - c[2].start BY <1>10, Zenon
  <2>3. /\ c[2].data[k] <= 255 * flat[p][c[2].start + k] + c[2].width
        /\ 255 * flat[p][c[2].start + k] <= c[2].data[k] + c[2].width
    BY <2>1, <2>2, Zenon
  <2>4. c[2].data[k] \in Int
    <3>1. PICK d : d = c[2].data OBVIOUS
    <3> QED BY <2>1, <2>2, <3>1
  <2> QED BY <1>6, <1>10, <2>3, <2>4, Zenon
<1>13. k = j - c[2].start /\ s + k = j /\ w = c[2].width BY <1>10, <1>11, Zenon
<1>14. /\ c[2].data[k] <= 255 * Contribution(p, t, i) + w
       /\ 255 * Contribution(p, t, i) <= c[2].data[k] + w
  <2>1. a[s + k] = Contribution(p, t, i) BY <1>9, <1>13, Zenon
  <2> QED BY <1>12, <2>1, Zenon
<1>15. /\ w \in Nat /\ c[2].data[j - c[2].start] \in Int
       /\ c[2].data[j - c[2].start] <= 255 * Contribution(p, t, i) + w
       /\ 255 * Contribution(p, t, i) <= c[2].data[j - c[2].start] + w
  BY <1>12, <1>13, <1>14, Zenon
<1>16. c[1] = p BY DEF p
<1> QED BY <1>9, <1>13, <1>15, <1>16, Zenon

\* The sums of what is close, of the chunks and of their senders.
LEMMA NearSums ==
    ASSUME NEW W, IsFiniteSet(W), NEW A, IsFiniteSet(A), W \subseteq A,
           \A c, d \in W : c[1] = d[1] => c = d,
           NEW f, Ints(f, W), NEW w, \A c \in A : w[c] \in Nat,
           NEW g, \A c \in W : g[c[1]] \in Int,
           \A c \in W : f[c] <= 255 * g[c[1]] + w[c] /\ 255 * g[c[1]] <= f[c] + w[c]
    PROVE  /\ SumOver(f, W) \in Int /\ SumOver(g, { c[1] : c \in W }) \in Int /\ SumOver(w, A) \in Nat
           /\ SumOver(f, W) <= 255 * SumOver(g, { c[1] : c \in W }) + SumOver(w, A)
           /\ 255 * SumOver(g, { c[1] : c \in W }) <= SumOver(f, W) + SumOver(w, A)
<1> DEFINE h == [c \in W |-> c[1]]
           of == [c \in W |-> g[c[1]]]
           times == [c \in W |-> 255 * g[c[1]]]
<1>1. \A c \in W : h[c] = c[1] /\ of[c] = g[h[c]] /\ times[c] = 255 * of[c]
  OBVIOUS
<1>2. Ints(of, W) /\ Ints(times, W) BY DEF Ints
<1>3. Ints(w, W) BY DEF Ints
<1>4. \A c \in W : f[c] <= times[c] + w[c] /\ times[c] <= f[c] + w[c] OBVIOUS
<1> HIDE DEF h, of, times
<1>5. SumOver(times, W) = 255 * SumOver(of, W) BY <1>1, <1>2, SumTimes
<1>6. SumOver(g, { c[1] : c \in W }) = SumOver(of, W)
  <2>1. { c[1] : c \in W } = { h[c] : c \in W } BY <1>1
  <2>2. \A c, d \in W : h[c] = h[d] => c = d BY <1>1
  <2>3. \A c \in W : g[h[c]] = of[c] BY <1>1
  <2>4. SumOver(g, { h[c] : c \in W }) = SumOver(of, W) BY <1>2, <2>2, <2>3, SumRenamed
  <2> QED BY <2>1, <2>4, Zenon
<1>7. SumOver(f, W) <= SumOver(times, W) + SumOver(w, W) BY <1>2, <1>3, <1>4, SumClose
<1>8. SumOver(times, W) <= SumOver(f, W) + SumOver(w, W) BY <1>2, <1>3, <1>4, SumClose
<1>9. SumOver(w, W) <= SumOver(w, A) BY SumPartLeq
<1>10. SumOver(f, W) \in Int /\ SumOver(of, W) \in Int /\ SumOver(w, W) \in Int
  BY <1>2, <1>3, SumType
<1>11. SumOver(w, A) \in Nat BY SumNat
<1>12. /\ SumOver(f, W) \in Int /\ SumOver(of, W) \in Int /\ SumOver(w, A) \in Nat
       /\ SumOver(f, W) <= 255 * SumOver(of, W) + SumOver(w, A)
       /\ 255 * SumOver(of, W) <= SumOver(f, W) + SumOver(w, A)
  BY <1>5, <1>7, <1>8, <1>9, <1>10, <1>11
<1> QED BY <1>6, <1>12, Zenon

\* The chunks with a weight and the contributors are one to one, and their sums
\* are close as each chunk is close to its contribution.
LEMMA MeanOfContributionsIs == IInv => MeanOfContributions
<1> SUFFICES ASSUME IInv, phase = "done", config.algorithm = "fedavg",
                    config.attack # "gaussian_noise"
             PROVE  MeanOfContributions
  BY Zenon DEF MeanOfContributions
<1> DEFINE A == Sent \ missing
           r == FedAvg(Local, A)
<1>1. result = Unflatten(r, model[0]) BY DEF IInv, Aggregates
<1>2. model[0] \in Models
  <2>1. 0 \in Nodes BY LearningAssumption DEF Nodes
  <2> QED BY <2>1 DEF IInv
<1>3. PICK m \in Models : m = model[0] BY <1>2
<1>4. Shaped(m, Int) /\ DOMAIN m = DOMAIN Tensors BY ModelShaped DEF Shaped
<1>5. IsFiniteSet(A) /\ \A c \in A : c[2].width \in Nat
  <2>1. IsFiniteSet(A) BY SentIs, FS_Subset
  <2> QED BY <2>1, SentIs DEF IsChunk
<1>6. DOMAIN Local = 1..Total BY DoneIs DEF Vectors
<1> HIDE DEF r
<1>7. ASSUME NEW t \in DOMAIN Tensors, Tensors[t].tracked
      PROVE  result[t] = model[0][t]
  BY <1>1, <1>3, <1>4, <1>7 DEF Unflatten
<1>8. ASSUME NEW t \in DOMAIN Tensors, ~Tensors[t].tracked, NEW i \in 1..Tensors[t].numel
      PROVE  IsMeanOfContributions(t, i)
  <2>1. PICK j \in 1..Total : j = Offset(t) + i BY <1>8, PlaceIs
  <2> DEFINE with == Contributors(Offset(t) + i)
             f == [c \in With(j) |-> c[2].data[j - c[2].start]]
             w == [c \in A |-> c[2].width]
             g == [p \in with |-> Contribution(p, t, i)]
  <2>2. result[t][i] = r[j] BY <1>1, <1>3, <1>4, <1>8, <2>1 DEF Unflatten
  <2>3. r[j] = Mean(Local[j] + SumOver(f, With(j)), 1 + Cardinality(With(j)))
    BY <1>6, Zenon DEF r, FedAvg, With
  <2>4. /\ result[t][i].count = 1 + Cardinality(With(j))
        /\ result[t][i].sum = Local[j] + SumOver(f, With(j))
    <3> HIDE DEF f
    <3> QED BY <2>2, <2>3 DEF Mean
  <2>5. /\ IsFiniteSet(With(j)) /\ \A c, d \in With(j) : c[1] = d[1] => c = d
        /\ Contributors(j) = { c[1] : c \in With(j) }
        /\ Cardinality(Contributors(j)) = Cardinality(With(j))
    BY WithIs
  <2> HIDE DEF with
  <2>6. with = Contributors(j) BY <2>1, Zenon DEF with
  <2>7. With(j) \subseteq A BY DEF With
  <2>8. \A c \in With(j) :
          /\ c[2].width \in Nat /\ c[2].data[j - c[2].start] \in Int
          /\ Contribution(c[1], t, i) \in Int
          /\ c[2].data[j - c[2].start] <= 255 * Contribution(c[1], t, i) + c[2].width
          /\ 255 * Contribution(c[1], t, i) <= c[2].data[j - c[2].start] + c[2].width
    BY <1>8, <2>1, NearContribution
  <2>9. /\ \A c \in With(j) : f[c] = c[2].data[j - c[2].start]
        /\ \A c \in With(j) : g[c[1]] = Contribution(c[1], t, i)
        /\ \A c \in A : w[c] = c[2].width
    BY <2>5, <2>6
  <2>10. Width = SumOver(w, A) BY Zenon DEF Width
  <2> HIDE DEF f, g, w, A
  <2>11. Ints(f, With(j)) BY <2>8, <2>9 DEF Ints
  <2>12. /\ \A c \in A : w[c] \in Nat
         /\ \A c \in With(j) : g[c[1]] \in Int
         /\ \A c \in With(j) :
               f[c] <= 255 * g[c[1]] + w[c] /\ 255 * g[c[1]] <= f[c] + w[c]
    BY <1>5, <2>7, <2>8, <2>9
  <2>13. /\ SumOver(f, With(j)) \in Int /\ SumOver(g, with) \in Int /\ SumOver(w, A) \in Nat
         /\ SumOver(f, With(j)) <= 255 * SumOver(g, with) + SumOver(w, A)
         /\ 255 * SumOver(g, with) <= SumOver(f, With(j)) + SumOver(w, A)
    <3> DEFINE senders == { c[1] : c \in With(j) }
    <3>1. /\ SumOver(f, With(j)) \in Int /\ SumOver(g, senders) \in Int /\ SumOver(w, A) \in Nat
          /\ SumOver(f, With(j)) <= 255 * SumOver(g, senders) + SumOver(w, A)
          /\ 255 * SumOver(g, senders) <= SumOver(f, With(j)) + SumOver(w, A)
      BY <1>5, <2>5, <2>7, <2>11, <2>12, NearSums
    <3> QED BY <2>5, <2>6, <3>1, Zenon
  <2>14. Local[j] = 255 * model[0][t][i] /\ model[0][t][i] \in Int
    <3>1. PICK v \in Seq(Int) : v = Flatten(m) /\ v[Offset(t) + i] = m[t][i] /\ Len(v) = Total
      BY <1>4, <1>8, FlattenIs
    <3>2. v[j] = m[t][i] /\ v[j] \in Int /\ j \in DOMAIN v
      BY <2>1, <3>1, LenProperties, ElementOfSeq
    <3> QED BY <1>3, <3>1, <3>2 DEF Local
  <2>15. ASSUME NEW l, NEW x \in Int, l = 255 * x,
                NEW F \in Int, NEW G \in Int, NEW W \in Nat, F <= 255 * G + W, 255 * G <= F + W
         PROVE  (l + F) - 255 * (x + G) \in -W..W
    BY <2>15
  <2>16. (Local[j] + SumOver(f, With(j))) - 255 * (model[0][t][i] + SumOver(g, with))
           \in -SumOver(w, A)..SumOver(w, A)
    BY <2>13, <2>14, <2>15
  <2>17. result[t][i].sum - 255 * (model[0][t][i] + SumOver(g, with)) \in -Width..Width
    BY <2>4, <2>10, <2>16, Zenon
  <2>18. result[t][i].count = 1 + Cardinality(with) BY <2>4, <2>5, <2>6, Zenon
  <2> QED BY <2>17, <2>18, Zenon DEF IsMeanOfContributions, g, with
<1> QED BY <1>7, <1>8, Zenon DEF MeanOfContributions

-----------------------------------------------------------------------------

\* load_partition (data_partitioner.py:84-98): whatever the shares are that
\* seed 42 draws, the parts the nodes compute of a class are disjoint and
\* together the class; rounding down loses nothing as the last node takes what
\* is left.
THEOREM PartitionsCoverAlways == Spec => []PartitionsCover
BY AlwaysIInv, PartitionsCoverIs, PTL

\* _aggregate_krum (aggregator.py): among n fragments of a chunk, one is taken
\* that is not among b outliers far from all others, for every b within the
\* configured fraction with 2b + 2 < n, whatever the models, the losses and the
\* quantization.
THEOREM KrumHonestAlways == Spec => []KrumHonest
BY AlwaysIInv, KrumHonestIs, PTL

\* _aggregate_fedavg with all before it (create_chunks, quantize_chunk,
\* dequantize_chunk, the flattening of the state dict and back): each weight
\* becomes the mean of the contributions that came, up to the widths of the
\* chunks, and num_batches_tracked stays.
THEOREM MeanOfContributionsAlways == Spec => []MeanOfContributions
BY AlwaysIInv, MeanOfContributionsIs, PTL
=============================================================================
