------------------------------ MODULE CostProofs ------------------------------
(***************************************************************************)
(* What the clouds cost: the stream of a bill and the sums of a report,    *)
(* the records and the widgets that add them up, the buckets a record is   *)
(* split over, and the changes that are worth an analysis.                 *)
(***************************************************************************)
EXTENDS CostRecords, Attribution, CostFetch, CostDelta, FiniteSetTheorems, WellFoundedInduction, TLAPS

-----------------------------------------------------------------------------
(***************************************************************************)
(* Facts about SumFunctionOnSet, the sum of a function over a finite set,  *)
(* which the properties of this module compare.  The operator is a fold,   *)
(* that is, a function that CHOOSE picks by its recursive equation; that   *)
(* there is one, and that the order does not matter, is shown here.        *)
(* Induction is by a least counterexample, or by SetInduction, which takes *)
(* the set of the sets the claim holds for in the place of a predicate.    *)
(***************************************************************************)

-----------------------------------------------------------------------------
(* Induction.                                                              *)

\* Among sets of subsets of a finite set there is one that none of them is within.
LEMMA SmallestSet ==
  ASSUME NEW S, IsFiniteSet(S), NEW Q, Q \subseteq SUBSET S, Q # {}
  PROVE  \E T \in Q : \A U \in Q : U \subseteq T => U = T
<1> DEFINE R == StrictSubsetOrdering(S)
<1>1. IsWellFoundedOn(R, FiniteSubsetsOf(S))
  BY FS_StrictSubsetOrderingWellFounded
<1>2. Q \subseteq FiniteSubsetsOf(S)
  <2>1. \A T \in SUBSET S : IsFiniteSet(T)
    BY FS_Subset
  <2> QED
    BY <2>1 DEF FiniteSubsetsOf
<1>3. PICK T \in Q : \A U \in Q : <<U, T>> \notin R
  <2> HIDE DEF R
  <2> QED
    BY <1>1, <1>2, WFMin
<1>4. ASSUME NEW U \in Q, U \subseteq T PROVE U = T
  BY <1>3, <1>4 DEF StrictSubsetOrdering
<1> QED
  BY <1>4

\* A claim that holds for {}, and for T with one more element when it holds for T, holds
\* for every finite set.
LEMMA SetInduction ==
  ASSUME NEW S, IsFiniteSet(S), NEW P, {} \in P,
         \A T \in P : \A x \in S \ T : T \subseteq S => T \cup {x} \in P
  PROVE  S \in P
<1> SUFFICES ASSUME S \notin P PROVE FALSE
  OBVIOUS
<1> DEFINE Q == {T \in SUBSET S : T \notin P}
<1>1. PICK T \in Q : \A U \in Q : U \subseteq T => U = T
  <2>1. Q \subseteq SUBSET S /\ S \in Q
    OBVIOUS
  <2> HIDE DEF Q
  <2> QED
    BY <2>1, SmallestSet
<1>2. PICK x \in T : TRUE
  BY <1>1
<1>3. T \ {x} \in P /\ T \ {x} \subseteq S
  BY <1>1, <1>2
<1>4. (T \ {x}) \cup {x} = T /\ x \in S \ (T \ {x})
  BY <1>1, <1>2
<1> QED
  BY <1>1, <1>3, <1>4

\* The values of a function on a finite set.
LEMMA FiniteValues ==
  ASSUME NEW S, IsFiniteSet(S), NEW h
  PROVE  IsFiniteSet({h[x] : x \in S})
<1> DEFINE T == {h[x] : x \in S}
           g == [x \in S |-> h[x]]
<1>1. g \in Surjection(S, T)
  BY DEF Surjection
<1> HIDE DEF g, T
<1>2. IsFiniteSet(T)
  BY <1>1, FS_Surjection
<1> QED
  BY <1>2 DEF T

-----------------------------------------------------------------------------
(* The recursive equation.                                                 *)

\* The element a fold takes first.
FirstOf(s) == CHOOSE x \in s : TRUE

\* it sums f over the subsets of S.
SumsUp(f, S, it) ==
  it = [s \in SUBSET S |-> IF s = {} THEN 0 ELSE f[FirstOf(s)] + it[s \ {FirstOf(s)}]]

\* What the library's operator stands for.
LEMMA SumUnfolds ==
  ASSUME NEW f, NEW S
  PROVE  SumFunctionOnSet(f, S) = (CHOOSE it : SumsUp(f, S, it))[S]
BY DEF SumFunctionOnSet, FoldFunctionOnSet, MapThenFoldSet, SumsUp, FirstOf

\* Two such functions agree where both are defined.
LEMMA SumsAgree ==
  ASSUME NEW f, NEW S, NEW T, NEW a, NEW b, SumsUp(f, S, a), SumsUp(f, T, b),
         NEW u, u \subseteq S, u \subseteq T, IsFiniteSet(u)
  PROVE  a[u] = b[u]
<1> SUFFICES ASSUME a[u] # b[u] PROVE FALSE
  OBVIOUS
<1> DEFINE Q == {s \in SUBSET u : a[s] # b[s]}
<1>1. PICK s \in Q : \A t \in Q : t \subseteq s => t = s
  <2>1. Q \subseteq SUBSET u /\ u \in Q
    OBVIOUS
  <2> HIDE DEF Q
  <2> QED
    BY <2>1, SmallestSet
<1>2. s # {}
  BY DEF SumsUp
<1>3. FirstOf(s) \in s
  BY <1>2 DEF FirstOf
<1>4. a[s \ {FirstOf(s)}] = b[s \ {FirstOf(s)}]
  BY <1>1, <1>3
<1>5. a[s] = f[FirstOf(s)] + a[s \ {FirstOf(s)}] /\ b[s] = f[FirstOf(s)] + b[s \ {FirstOf(s)}]
  BY <1>1, <1>2 DEF SumsUp
<1> QED
  BY <1>1, <1>4, <1>5

\* There is one for every finite set.
LEMMA SumsExist ==
  ASSUME NEW f, NEW S, IsFiniteSet(S)
  PROVE  \E it : SumsUp(f, S, it)
<1> SUFFICES ASSUME ~\E it : SumsUp(f, S, it) PROVE FALSE
  OBVIOUS
<1> DEFINE Q == {s \in SUBSET S : ~\E it : SumsUp(f, s, it)}
<1>1. PICK s \in Q : \A t \in Q : t \subseteq s => t = s
  <2>1. Q \subseteq SUBSET S /\ S \in Q
    OBVIOUS
  <2> HIDE DEF Q
  <2> QED
    BY <2>1, SmallestSet
<1> DEFINE V(t) == CHOOSE it : SumsUp(f, t, it)
           it == [t \in SUBSET s |-> IF t = {} THEN 0
                                    ELSE f[FirstOf(t)] + V(t \ {FirstOf(t)})[t \ {FirstOf(t)}]]
<1>2. ASSUME NEW t \in SUBSET s, t # s PROVE SumsUp(f, t, V(t))
  BY <1>1, <1>2
<1>3. \A t \in SUBSET s : t # {} => FirstOf(t) \in t
  BY DEF FirstOf
<1>4. \A t \in SUBSET s : IsFiniteSet(t)
  BY FS_Subset, <1>1
<1> HIDE DEF V
<1>5. ASSUME NEW t \in SUBSET s, t # s PROVE it[t] = V(t)[t]
  <2>1. CASE t = {}
    <3>1. V(t)[t] = 0
      BY <1>2, <1>5, <2>1 DEF SumsUp
    <3> QED
      BY <3>1, <2>1
  <2>2. CASE t # {}
    <3> DEFINE u == t \ {FirstOf(t)}
    <3>1. u \subseteq t /\ u # s /\ u \subseteq s
      BY <1>5
    <3>2. V(t)[u] = V(u)[u]
      BY <3>1, <1>2, <1>5, <1>4, SumsAgree
    <3>3. V(t)[t] = f[FirstOf(t)] + V(t)[u]
      BY <1>2, <1>5, <2>2 DEF SumsUp
    <3>4. it[t] = f[FirstOf(t)] + V(u)[u]
      BY <2>2
    <3> QED
      BY <3>2, <3>3, <3>4
  <2> QED
    BY <2>1, <2>2
<1>6. ASSUME NEW t \in SUBSET s, t # {} PROVE it[t \ {FirstOf(t)}] = V(t \ {FirstOf(t)})[t \ {FirstOf(t)}]
  <2>1. t \ {FirstOf(t)} \in SUBSET s /\ t \ {FirstOf(t)} # s
    BY <1>3, <1>6
  <2> HIDE DEF it
  <2> QED
    BY <2>1, <1>5
<1>7. it = [t \in SUBSET s |-> IF t = {} THEN 0 ELSE f[FirstOf(t)] + it[t \ {FirstOf(t)}]]
  <2>1. \A t \in SUBSET s : it[t] = IF t = {} THEN 0 ELSE f[FirstOf(t)] + it[t \ {FirstOf(t)}]
    <3> SUFFICES ASSUME NEW t \in SUBSET s
                 PROVE  it[t] = IF t = {} THEN 0 ELSE f[FirstOf(t)] + it[t \ {FirstOf(t)}]
      OBVIOUS
    <3>1. it[t] = IF t = {} THEN 0 ELSE f[FirstOf(t)] + V(t \ {FirstOf(t)})[t \ {FirstOf(t)}]
      OBVIOUS
    <3> HIDE DEF it
    <3> QED
      BY <3>1, <1>6
  <2>2. it = [t \in SUBSET s |-> it[t]]
    OBVIOUS
  <2> HIDE DEF it
  <2> QED
    BY <2>1, <2>2
<1>8. SumsUp(f, s, it)
  <2> HIDE DEF it
  <2> QED
    BY <1>7 DEF SumsUp
<1> QED
  BY <1>8, <1>1

-----------------------------------------------------------------------------
(* The sum.                                                                *)

\* A sum over nothing is 0.
LEMMA SumEmpty == ASSUME NEW f PROVE SumFunctionOnSet(f, {}) = 0
<1>1. PICK it : SumsUp(f, {}, it)
  BY SumsExist, FS_EmptySet
<1>2. SumsUp(f, {}, CHOOSE w : SumsUp(f, {}, w))
  BY <1>1
<1> QED
  BY <1>2, SumUnfolds DEF SumsUp

\* The sum is that of one element, the first, and of the rest.
LEMMA SumFirst ==
  ASSUME NEW f, NEW S, IsFiniteSet(S), S # {}
  PROVE  /\ FirstOf(S) \in S
         /\ SumFunctionOnSet(f, S) = f[FirstOf(S)] + SumFunctionOnSet(f, S \ {FirstOf(S)})
<1> DEFINE V(t) == CHOOSE it : SumsUp(f, t, it)
           u == S \ {FirstOf(S)}
<1>1. FirstOf(S) \in S
  BY DEF FirstOf
<1>2. IsFiniteSet(u) /\ u \subseteq S
  BY FS_Subset
<1>3. SumsUp(f, S, V(S)) /\ SumsUp(f, u, V(u))
  BY <1>2, SumsExist
<1> HIDE DEF V
<1>4. V(S)[u] = V(u)[u]
  BY <1>2, <1>3, SumsAgree
<1>5. V(S)[S] = f[FirstOf(S)] + V(S)[u]
  BY <1>3 DEF SumsUp
<1>6. SumFunctionOnSet(f, S) = V(S)[S] /\ SumFunctionOnSet(f, u) = V(u)[u]
  BY SumUnfolds DEF V
<1> QED
  BY <1>1, <1>4, <1>5, <1>6

\* Only the elements summed matter.
LEMMA SumSame ==
  ASSUME NEW S, IsFiniteSet(S), NEW f, NEW g, \A x \in S : f[x] = g[x]
  PROVE  SumFunctionOnSet(f, S) = SumFunctionOnSet(g, S)
<1> SUFFICES ASSUME SumFunctionOnSet(f, S) # SumFunctionOnSet(g, S) PROVE FALSE
  OBVIOUS
<1> DEFINE Q == {T \in SUBSET S : SumFunctionOnSet(f, T) # SumFunctionOnSet(g, T)}
<1>1. PICK T \in Q : \A U \in Q : U \subseteq T => U = T
  <2>1. Q \subseteq SUBSET S /\ S \in Q
    OBVIOUS
  <2> HIDE DEF Q
  <2> QED
    BY <2>1, SmallestSet
<1>2. T # {}
  BY <1>1, SumEmpty
<1>3. IsFiniteSet(T)
  BY <1>1, FS_Subset
<1>4. FirstOf(T) \in T
  BY <1>2, <1>3, SumFirst
<1>5. SumFunctionOnSet(f, T \ {FirstOf(T)}) = SumFunctionOnSet(g, T \ {FirstOf(T)})
  BY <1>1, <1>4
<1>6. f[FirstOf(T)] = g[FirstOf(T)]
  BY <1>1, <1>4
<1>7. /\ SumFunctionOnSet(f, T) = f[FirstOf(T)] + SumFunctionOnSet(f, T \ {FirstOf(T)})
      /\ SumFunctionOnSet(g, T) = g[FirstOf(T)] + SumFunctionOnSet(g, T \ {FirstOf(T)})
  BY <1>2, <1>3, SumFirst
<1> QED
  BY <1>1, <1>5, <1>6, <1>7

\* A sum of integers is an integer.
LEMMA SumInt ==
  ASSUME NEW S, IsFiniteSet(S), NEW f, \A x \in S : f[x] \in Int
  PROVE  SumFunctionOnSet(f, S) \in Int
<1> SUFFICES ASSUME SumFunctionOnSet(f, S) \notin Int PROVE FALSE
  OBVIOUS
<1> DEFINE Q == {T \in SUBSET S : SumFunctionOnSet(f, T) \notin Int}
<1>1. PICK T \in Q : \A U \in Q : U \subseteq T => U = T
  <2>1. Q \subseteq SUBSET S /\ S \in Q
    OBVIOUS
  <2> HIDE DEF Q
  <2> QED
    BY <2>1, SmallestSet
<1>2. T # {}
  <2>1. SumFunctionOnSet(f, {}) \in Int
    BY SumEmpty
  <2> QED
    BY <2>1, <1>1
<1>3. IsFiniteSet(T)
  BY <1>1, FS_Subset
<1>4. /\ FirstOf(T) \in T
      /\ SumFunctionOnSet(f, T) = f[FirstOf(T)] + SumFunctionOnSet(f, T \ {FirstOf(T)})
  BY <1>2, <1>3, SumFirst
<1>5. SumFunctionOnSet(f, T \ {FirstOf(T)}) \in Int
  BY <1>1, <1>4
<1>6. f[FirstOf(T)] \in Int
  BY <1>1, <1>4
<1>7. f[FirstOf(T)] + SumFunctionOnSet(f, T \ {FirstOf(T)}) \in Int
  BY <1>5, <1>6
<1>8. SumFunctionOnSet(f, T) \in Int
  BY <1>4, <1>7
<1> QED
  BY <1>1, <1>8

\* Any element may be taken first: the order does not matter.
THEOREM SumAdd ==
  ASSUME NEW S, IsFiniteSet(S), NEW x \in S, NEW f, \A y \in S : f[y] \in Int
  PROVE  SumFunctionOnSet(f, S) = f[x] + SumFunctionOnSet(f, S \ {x})
<1> DEFINE Ok(T) == \A y \in T : SumFunctionOnSet(f, T) = f[y] + SumFunctionOnSet(f, T \ {y})
           Q == {T \in SUBSET S : ~Ok(T)}
<1> SUFFICES ASSUME ~Ok(S) PROVE FALSE
  OBVIOUS
<1>1. PICK T \in Q : \A U \in Q : U \subseteq T => U = T
  <2>1. Q \subseteq SUBSET S /\ S \in Q
    OBVIOUS
  <2> HIDE DEF Q
  <2> QED
    BY <2>1, SmallestSet
<1>2. PICK y \in T : SumFunctionOnSet(f, T) # f[y] + SumFunctionOnSet(f, T \ {y})
  BY <1>1
<1> DEFINE z == FirstOf(T)
<1>3. \A U \in SUBSET T : IsFiniteSet(U)
  BY <1>1, FS_Subset
<1>4. z \in T /\ SumFunctionOnSet(f, T) = f[z] + SumFunctionOnSet(f, T \ {z})
  BY <1>2, <1>3, SumFirst
<1>5. z # y
  BY <1>2, <1>4
<1>6. \A U \in SUBSET T : U # T => Ok(U)
  BY <1>1
<1> HIDE DEF z
<1>7. y \in T \ {z} /\ z \in T \ {y} /\ (T \ {z}) \ {y} = (T \ {y}) \ {z}
  BY <1>2, <1>4, <1>5
<1>8. /\ SumFunctionOnSet(f, T \ {z}) = f[y] + SumFunctionOnSet(f, (T \ {z}) \ {y})
      /\ SumFunctionOnSet(f, T \ {y}) = f[z] + SumFunctionOnSet(f, (T \ {y}) \ {z})
  BY <1>4, <1>6, <1>7
<1>9. f[y] \in Int /\ f[z] \in Int /\ SumFunctionOnSet(f, (T \ {y}) \ {z}) \in Int
  <2>1. \A v \in T : f[v] \in Int
    BY <1>1
  <2>2. IsFiniteSet((T \ {y}) \ {z})
    BY <1>3
  <2>3. SumFunctionOnSet(f, (T \ {y}) \ {z}) \in Int
    BY <2>1, <2>2, SumInt
  <2> QED
    BY <2>1, <2>3, <1>2, <1>4
<1>10. f[z] + (f[y] + SumFunctionOnSet(f, (T \ {y}) \ {z})) = f[y] + (f[z] + SumFunctionOnSet(f, (T \ {y}) \ {z}))
  BY <1>9
<1>11. SumFunctionOnSet(f, T) = f[y] + SumFunctionOnSet(f, T \ {y})
  BY <1>4, <1>7, <1>8, <1>10
<1> QED
  BY <1>2, <1>11

\* The sum grows by what is added.
LEMMA SumWith ==
  ASSUME NEW S, IsFiniteSet(S), NEW x, x \notin S, NEW f, \A y \in S \cup {x} : f[y] \in Int
  PROVE  SumFunctionOnSet(f, S \cup {x}) = f[x] + SumFunctionOnSet(f, S)
<1>1. IsFiniteSet(S \cup {x}) /\ x \in S \cup {x} /\ (S \cup {x}) \ {x} = S
  BY FS_AddElement
<1> QED
  BY <1>1, SumAdd

\* A sum of naturals is a natural, and none of them is more than the sum.
LEMMA SumNat ==
  ASSUME NEW S, IsFiniteSet(S), NEW f, \A x \in S : f[x] \in Nat
  PROVE  SumFunctionOnSet(f, S) \in Nat /\ \A x \in S : f[x] <= SumFunctionOnSet(f, S)
<1> DEFINE P == {T \in SUBSET S : SumFunctionOnSet(f, T) \in Nat}
<1>1. {} \in P
  BY SumEmpty
<1>2. ASSUME NEW T \in P, NEW x \in S \ T PROVE T \cup {x} \in P
  <2>1. IsFiniteSet(T)
    BY FS_Subset
  <2>2. \A y \in T \cup {x} : f[y] \in Int
    BY <1>2
  <2>3. SumFunctionOnSet(f, T \cup {x}) = f[x] + SumFunctionOnSet(f, T)
    BY <1>2, <2>1, <2>2, SumWith
  <2>4. f[x] \in Nat /\ SumFunctionOnSet(f, T) \in Nat
    BY <1>2
  <2>5. SumFunctionOnSet(f, T \cup {x}) \in Nat
    BY <2>3, <2>4
  <2> QED
    BY <2>5, <1>2
<1>3. \A T \in SUBSET S : T \in P
  <2>1. \A T \in SUBSET S : IsFiniteSet(T)
    BY FS_Subset
  <2> SUFFICES ASSUME NEW T \in SUBSET S PROVE T \in P
    OBVIOUS
  <2> HIDE DEF P
  <2> QED
    BY <1>1, <1>2, <2>1, SetInduction
<1>4. SumFunctionOnSet(f, S) \in Nat
  BY <1>3
<1>5. ASSUME NEW x \in S PROVE f[x] <= SumFunctionOnSet(f, S)
  <2>1. SumFunctionOnSet(f, S \ {x}) \in Nat
    BY <1>3
  <2>2. SumFunctionOnSet(f, S) = f[x] + SumFunctionOnSet(f, S \ {x})
    <3>1. \A y \in S : f[y] \in Int
      OBVIOUS
    <3> QED
      BY <3>1, SumAdd
  <2>3. f[x] \in Nat
    OBVIOUS
  <2> QED
    BY <2>1, <2>2, <2>3
<1> QED
  BY <1>4, <1>5

\* A sum of one.
LEMMA SumOne == ASSUME NEW x, NEW f, f[x] \in Int PROVE SumFunctionOnSet(f, {x}) = f[x]
<1>1. SumFunctionOnSet(f, {} \cup {x}) = f[x] + SumFunctionOnSet(f, {})
  <2>1. \A y \in {} \cup {x} : f[y] \in Int
    OBVIOUS
  <2> QED
    BY <2>1, FS_EmptySet, SumWith
<1>2. {} \cup {x} = {x} /\ f[x] + 0 = f[x]
  OBVIOUS
<1> QED
  BY <1>1, <1>2, SumEmpty

\* A common factor.
LEMMA SumTimes ==
  ASSUME NEW S, IsFiniteSet(S), NEW f, \A x \in S : f[x] \in Int, NEW c \in Int,
         NEW g, \A x \in S : g[x] = c * f[x]
  PROVE  SumFunctionOnSet(g, S) = c * SumFunctionOnSet(f, S)
<1> DEFINE P == {T \in SUBSET S : SumFunctionOnSet(g, T) = c * SumFunctionOnSet(f, T)}
<1>1. {} \in P
  <2>1. c * 0 = 0
    OBVIOUS
  <2> QED
    BY <2>1, SumEmpty
<1>2. ASSUME NEW T \in P, NEW x \in S \ T PROVE T \cup {x} \in P
  <2>1. IsFiniteSet(T) /\ x \notin T
    BY FS_Subset
  <2>2. \A y \in T \cup {x} : f[y] \in Int
    BY <1>2
  <2>3. \A y \in T \cup {x} : g[y] \in Int
    BY <2>2, <1>2
  <2>4. SumFunctionOnSet(f, T \cup {x}) = f[x] + SumFunctionOnSet(f, T)
    BY <2>1, <2>2, SumWith
  <2>5. SumFunctionOnSet(g, T \cup {x}) = g[x] + SumFunctionOnSet(g, T)
    BY <2>1, <2>3, SumWith
  <2>6. PICK a \in Int : a = SumFunctionOnSet(f, T)
    BY <2>1, <2>2, SumInt
  <2>7. PICK b \in Int : b = f[x]
    BY <2>2
  <2>8. c * b + c * a = c * (b + a)
    BY <2>6, <2>7
  <2>9. g[x] = c * b /\ SumFunctionOnSet(g, T) = c * a
    BY <1>2, <2>6, <2>7
  <2>10. SumFunctionOnSet(g, T \cup {x}) = c * SumFunctionOnSet(f, T \cup {x})
    BY <2>4, <2>5, <2>6, <2>7, <2>8, <2>9
  <2> QED
    BY <2>10, <1>2
<1>3. S \in P
  <2> HIDE DEF P
  <2> QED
    BY <1>1, <1>2, SetInduction
<1> QED
  BY <1>3

\* Two sets without a common element.
THEOREM SumDisjoint ==
  ASSUME NEW S, IsFiniteSet(S), NEW T, IsFiniteSet(T), S \cap T = {},
         NEW f, \A x \in S \cup T : f[x] \in Int
  PROVE  SumFunctionOnSet(f, S \cup T) = SumFunctionOnSet(f, S) + SumFunctionOnSet(f, T)
<1> DEFINE P == {U \in SUBSET T : SumFunctionOnSet(f, S \cup U) = SumFunctionOnSet(f, S) + SumFunctionOnSet(f, U)}
<1>1. SumFunctionOnSet(f, S) \in Int
  BY SumInt
<1>2. {} \in P
  <2>1. S \cup {} = S
    OBVIOUS
  <2>2. SumFunctionOnSet(f, S) = SumFunctionOnSet(f, S) + 0
    BY <1>1
  <2> QED
    BY <2>1, <2>2, SumEmpty
<1>3. ASSUME NEW U \in P, NEW x \in T \ U PROVE U \cup {x} \in P
  <2>1. IsFiniteSet(U) /\ IsFiniteSet(S \cup U)
    BY FS_Subset, FS_Union
  <2>2. \A y \in S \cup U \cup {x} : f[y] \in Int
    BY <1>3
  <2>3. SumFunctionOnSet(f, U \cup {x}) = f[x] + SumFunctionOnSet(f, U)
    BY <1>3, <2>1, <2>2, SumWith
  <2>4. SumFunctionOnSet(f, (S \cup U) \cup {x}) = f[x] + SumFunctionOnSet(f, S \cup U)
    <3>1. x \notin S \cup U
      BY <1>3
    <3> QED
      BY <3>1, <2>1, <2>2, SumWith
  <2>5. f[x] \in Int /\ SumFunctionOnSet(f, U) \in Int
    BY <2>1, <2>2, SumInt
  <2>6. SumFunctionOnSet(f, S \cup U) = SumFunctionOnSet(f, S) + SumFunctionOnSet(f, U)
    BY <1>3
  <2>7. f[x] + (SumFunctionOnSet(f, S) + SumFunctionOnSet(f, U)) = SumFunctionOnSet(f, S) + (f[x] + SumFunctionOnSet(f, U))
    BY <1>1, <2>5
  <2>8. S \cup (U \cup {x}) = (S \cup U) \cup {x} /\ U \cup {x} \in SUBSET T
    BY <1>3
  <2> QED
    BY <2>3, <2>4, <2>6, <2>7, <2>8
<1>4. T \in P
  <2> HIDE DEF P
  <2> QED
    BY <1>2, <1>3, SetInduction
<1> QED
  BY <1>4

\* The elements of S with a name.
Named(S, name, n) == {x \in S : name[x] = n}

\* A breakdown by name adds up: g holds the sum of the elements of each name.
THEOREM SumByName ==
  ASSUME NEW S, IsFiniteSet(S), NEW f, \A x \in S : f[x] \in Int,
         NEW N, IsFiniteSet(N), NEW name, \A x \in S : name[x] \in N,
         NEW g, \A n \in N : g[n] = SumFunctionOnSet(f, Named(S, name, n))
  PROVE  SumFunctionOnSet(g, N) = SumFunctionOnSet(f, S)
<1> DEFINE of(M) == {x \in S : name[x] \in M}
           P == {M \in SUBSET N : SumFunctionOnSet(g, M) = SumFunctionOnSet(f, of(M))}
<1>1. {} \in P
  <2>1. of({}) = {}
    OBVIOUS
  <2> QED
    BY <2>1, SumEmpty
<1>2. \A U \in SUBSET S : IsFiniteSet(U)
  BY FS_Subset
<1>3. \A n \in N : g[n] \in Int
  <2> SUFFICES ASSUME NEW n \in N PROVE SumFunctionOnSet(f, Named(S, name, n)) \in Int
    OBVIOUS
  <2>1. IsFiniteSet(Named(S, name, n)) /\ \A x \in Named(S, name, n) : f[x] \in Int
    BY <1>2 DEF Named
  <2> QED
    BY <2>1, SumInt
<1>4. ASSUME NEW M \in P, NEW n \in N \ M PROVE M \cup {n} \in P
  <2>1. IsFiniteSet(M) /\ M \subseteq N
    BY <1>4, FS_Subset
  <2>2. SumFunctionOnSet(g, M \cup {n}) = g[n] + SumFunctionOnSet(g, M)
    <3>1. \A m \in M \cup {n} : g[m] \in Int
      BY <1>3, <2>1, <1>4
    <3> QED
      BY <3>1, <2>1, <1>4, SumWith
  <2> DEFINE A == of(M)
             B == Named(S, name, n)
  <2>3. IsFiniteSet(A) /\ IsFiniteSet(B) /\ A \cap B = {} /\ of(M \cup {n}) = A \cup B
    BY <1>2, <1>4 DEF Named
  <2>4. \A x \in A \cup B : f[x] \in Int
    BY DEF Named
  <2>5. SumFunctionOnSet(g, M) = SumFunctionOnSet(f, A) /\ g[n] = SumFunctionOnSet(f, B)
    BY <1>4
  <2>6. SumFunctionOnSet(f, A) \in Int /\ SumFunctionOnSet(f, B) \in Int
    <3> HIDE DEF A, B
    <3> QED
      BY <2>3, <2>4, SumInt
  <2>7. SumFunctionOnSet(f, A \cup B) = SumFunctionOnSet(f, A) + SumFunctionOnSet(f, B)
    <3> HIDE DEF A, B
    <3> QED
      BY <2>3, <2>4, SumDisjoint
  <2>8. SumFunctionOnSet(g, M \cup {n}) = SumFunctionOnSet(f, of(M \cup {n}))
    <3>1. SumFunctionOnSet(f, B) + SumFunctionOnSet(f, A) = SumFunctionOnSet(f, A) + SumFunctionOnSet(f, B)
      BY <2>6
    <3>2. SumFunctionOnSet(f, of(M \cup {n})) = SumFunctionOnSet(f, A \cup B)
      BY <2>3
    <3> HIDE DEF A, B, of, P
    <3> QED
      BY <2>2, <2>5, <2>7, <3>1, <3>2
  <2> QED
    BY <2>1, <2>8, <1>4
<1>5. N \in P
  <2> HIDE DEF P
  <2> QED
    BY <1>1, <1>4, SetInduction
<1>6. of(N) = S
  OBVIOUS
<1> QED
  BY <1>5, <1>6

-----------------------------------------------------------------------------
(***************************************************************************)
(* The stream of a bill and the setup of a report, for any number of pages.*)
(***************************************************************************)

\* The pages there are, in the reach of the adapter.
Fetch ==
  [pc : {"idle", "credentials", "page", "query", "exhausted", "saved", "failed"}, cloud : {"aws", "azure", "gcp"},
   page : Pages \cap 1..MaxPages, attempt : 1..FetchAttempts, token : 0..TokenLife, calls : {0}]
Reports == [bucket : BOOLEAN, policy : BOOLEAN, defined : BOOLEAN]
Setup == [pc : {"idle", "bucket", "policy", "define"}, result : {"none", "success", "error"}, calls : 0..MaxSetups]

\* A page of Cost Explorer behind the one that is asked for next is with the consumer,
\* from this attempt or an earlier one; at the end, every page is that the limit allows.
Streamed(f, b, w) ==
  f.cloud = "aws" =>
    /\ f.pc # "failed" => b \in Seq(Nat) /\ w \in Seq(Nat)
    /\ f.pc \in {"idle", "credentials", "page"} => \A p \in Pages : p < f.page => p \in ToSet(w) \cup ToSet(b)
    /\ f.pc = "exhausted" => \A p \in Pages : p <= MaxPages => p \in ToSet(w) \cup ToSet(b)
    /\ f.pc = "saved" => \A p \in Pages : p <= MaxPages => p \in ToSet(w)

\* What a step of the setup relies on is there.
Prepared(x, r) ==
  /\ x.pc \in {"policy", "define"} => r.bucket
  /\ x.pc = "define" => r.policy
  /\ r.defined => r.bucket /\ r.policy

\* The inductive invariant of the adapters.
FetchInd ==
  /\ fetch \in Fetch /\ report \in Reports /\ setup \in Setup /\ fetchFaults \in 0..MaxFetchFaults
  /\ fetch.pc = "idle" => fetch.page = 1 /\ batch = <<>> /\ saved = <<>>
  /\ Streamed(fetch, batch, saved) /\ Prepared(setup, report)

-----------------------------------------------------------------------------
\* The first page is there, and none comes after the last.
LEMMA PagesInOrder ==
  /\ 1 \in Pages \cap 1..MaxPages /\ Pages \subseteq Nat /\ \A p \in Pages : ~(p < 1)
  /\ \A p \in Pages : p + 1 \notin Pages => \A q \in Pages : q <= p
<1>1. Cardinality(Pages) \in Nat
  BY FetchAssumption, FS_CardinalityType
<1>2. \A n \in Nat : Pages = 1..n /\ Pages # {} =>
        /\ 1 \in Pages /\ Pages \subseteq Nat /\ \A p \in Pages : ~(p < 1)
        /\ \A p \in Pages : p + 1 \notin Pages => \A q \in Pages : q <= p
  OBVIOUS
<1> QED
  BY <1>1, <1>2, FetchAssumption

\* What a sequence holds, with one more behind it.
LEMMA HeldAfterAppend ==
  ASSUME NEW s \in Seq(Nat), NEW p \in Nat
  PROVE  Append(s, p) \in Seq(Nat) /\ ToSet(s) \cup {p} \subseteq ToSet(Append(s, p))
<1>1. /\ Append(s, p) \in Seq(Nat) /\ DOMAIN Append(s, p) = 1..(Len(s) + 1) /\ DOMAIN s = 1..Len(s)
      /\ Append(s, p)[Len(s) + 1] = p /\ \A i \in 1..Len(s) : Append(s, p)[i] = s[i]
  OBVIOUS
<1>2. ASSUME NEW x \in ToSet(s) PROVE x \in ToSet(Append(s, p))
  <2>1. PICK i \in 1..Len(s) : x = s[i]
    BY <1>1 DEF ToSet
  <2>2. i \in DOMAIN Append(s, p) /\ Append(s, p)[i] = x
    BY <1>1, <2>1
  <2> QED
    BY <2>2 DEF ToSet
<1>3. p \in ToSet(Append(s, p))
  <2>1. Len(s) + 1 \in DOMAIN Append(s, p)
    BY <1>1
  <2> QED
    BY <1>1, <2>1 DEF ToSet
<1> QED
  BY <1>1, <1>2, <1>3

\* Likewise a sequence behind another.
LEMMA HeldTogether ==
  ASSUME NEW s \in Seq(Nat), NEW t \in Seq(Nat)
  PROVE  s \o t \in Seq(Nat) /\ ToSet(s) \cup ToSet(t) \subseteq ToSet(s \o t)
<1>1. /\ s \o t \in Seq(Nat) /\ DOMAIN (s \o t) = 1..(Len(s) + Len(t)) /\ DOMAIN s = 1..Len(s) /\ DOMAIN t = 1..Len(t)
      /\ \A i \in 1..Len(s) : (s \o t)[i] = s[i]
      /\ \A i \in 1..Len(t) : (s \o t)[Len(s) + i] = t[i]
  OBVIOUS
<1>2. ASSUME NEW x \in ToSet(s) PROVE x \in ToSet(s \o t)
  <2>1. PICK i \in 1..Len(s) : x = s[i]
    BY <1>1 DEF ToSet
  <2>2. i \in DOMAIN (s \o t) /\ (s \o t)[i] = x
    BY <1>1, <2>1
  <2> QED
    BY <2>2 DEF ToSet
<1>3. ASSUME NEW x \in ToSet(t) PROVE x \in ToSet(s \o t)
  <2>1. PICK i \in 1..Len(t) : x = t[i]
    BY <1>1 DEF ToSet
  <2>2. Len(s) + i \in DOMAIN (s \o t) /\ (s \o t)[Len(s) + i] = x
    BY <1>1, <2>1
  <2> QED
    BY <2>2 DEF ToSet
<1> QED
  BY <1>1, <1>2, <1>3

\* At first nothing is asked for.
LEMMA FetchStart == FetchInit => FetchInd
<1> SUFFICES ASSUME FetchInit PROVE FetchInd
  OBVIOUS
<1>1. fetch \in Fetch /\ fetch.pc = "idle" /\ fetch.page = 1
  BY PagesInOrder, FetchAssumption DEF FetchInit, NoFetch, Fetch
<1>2. report \in Reports /\ setup \in Setup /\ fetchFaults \in 0..MaxFetchFaults /\ Prepared(setup, report)
  BY FetchAssumption DEF FetchInit, NoReport, NoSetup, Reports, Setup, Prepared
<1>3. batch = <<>> /\ saved = <<>> /\ <<>> \in Seq(Nat)
  BY DEF FetchInit
<1>4. Streamed(fetch, batch, saved)
  BY <1>1, <1>3, PagesInOrder DEF Streamed
<1> QED
  BY <1>1, <1>2, <1>3, <1>4 DEF FetchInd

\* A step of the stream.
LEMMA StreamMoves ==
  ASSUME FetchInd, ReportIs, NEW f \in Fetch, fetch' = f, f.pc # "idle", Streamed(f, batch', saved'),
         fetchFaults' \in 0..MaxFetchFaults
  PROVE  FetchInd'
  BY DEF FetchInd, ReportIs, Streamed, Fetch, Reports, Setup, Prepared

\* The stream begins and gets its credentials.
LEMMA StreamBegins ==
  ASSUME FetchInd, GetCredentials \/ \E cloud \in {"aws", "azure", "gcp"} : StartFetch(cloud)
  PROVE  FetchInd'
<1>1. fetch \in Fetch /\ fetchFaults \in 0..MaxFetchFaults /\ Streamed(fetch, batch, saved)
  BY DEF FetchInd
<1>2. CASE GetCredentials
  <2>1. PICK n \in 0..TokenLife : n = IF fetch.token > 0 THEN fetch.token ELSE TokenLife
    BY <1>1, FetchAssumption DEF Fetch
  <2>2. PICK f : f = fetch' /\ f = [fetch EXCEPT !.pc = "page", !.token = n]
    BY <1>2, <2>1 DEF GetCredentials
  <2>3. f \in Fetch /\ f.pc = "page" /\ f.cloud = fetch.cloud /\ f.page = fetch.page /\ fetch.pc = "credentials"
    BY <1>1, <1>2, <2>2 DEF Fetch, GetCredentials
  <2>4. Streamed(f, batch, saved)
    BY <1>1, <2>3 DEF Streamed
  <2> QED
    BY <1>1, <1>2, <2>2, <2>3, <2>4, StreamMoves DEF GetCredentials
<1>3. ASSUME NEW cloud \in {"aws", "azure", "gcp"}, StartFetch(cloud) PROVE FetchInd'
  <2>1. PICK f : f = fetch' /\ f = [fetch EXCEPT !.cloud = cloud, !.pc = IF cloud = "aws" THEN "credentials" ELSE "query"]
    BY <1>3 DEF StartFetch
  <2>2. f \in Fetch /\ f.pc \in {"credentials", "query"} /\ f.page = fetch.page
    BY <1>1, <2>1 DEF Fetch
  <2>3. fetch.page = 1 /\ batch \in Seq(Nat) /\ saved \in Seq(Nat)
    BY <1>3 DEF FetchInd, StartFetch
  <2>4. Streamed(f, batch, saved)
    BY <2>2, <2>3, PagesInOrder DEF Streamed
  <2> QED
    BY <1>1, <1>3, <2>1, <2>2, <2>4, StreamMoves DEF StartFetch
<1> QED
  BY <1>2, <1>3

\* A page that is yielded is held, in the batch or in what is saved.
LEMMA PageIsHeld ==
  ASSUME FetchInd, FetchPage PROVE FetchInd'
<1> DEFINE b == Append(batch, fetch.page)
<1>1. /\ fetch \in Fetch /\ fetchFaults \in 0..MaxFetchFaults /\ Streamed(fetch, batch, saved) /\ fetch.pc = "page"
      /\ fetch.token > 0 /\ ReportIs /\ UNCHANGED fetchFaults
  BY DEF FetchInd, FetchPage
<1>2. CASE Refused(b)
  <2>1. PICK f : f = fetch' /\ f = [fetch EXCEPT !.pc = "failed"]
    BY <1>2 DEF FetchPage
  <2>2. f \in Fetch /\ f.pc = "failed"
    BY <1>1, <2>1 DEF Fetch
  <2> QED
    BY <1>1, <2>1, <2>2, StreamMoves DEF Streamed
<1>3. CASE ~Refused(b)
  <2>1. PICK g : g = AfterPage(fetch.page)
    OBVIOUS
  <2>2. /\ g \in Fetch /\ g.cloud = fetch.cloud /\ g.token = fetch.token
        /\ \/ g.pc = "page" /\ g.page = fetch.page + 1
           \/ g.pc = "exhausted" /\ (fetch.page + 1 \notin Pages \/ fetch.page >= MaxPages)
    <3>1. fetch.page \in Pages /\ fetch.page \in 1..MaxPages /\ MaxPages \in Nat /\ Pages \subseteq Nat
      BY <1>1, PagesInOrder, FetchAssumption DEF Fetch
    <3>2. CASE fetch.page + 1 \in Pages /\ fetch.page < MaxPages
      <4>1. PICK n \in Pages \cap 1..MaxPages : n = fetch.page + 1
        BY <3>1, <3>2
      <4>2. g = [fetch EXCEPT !.page = n]
        BY <2>1, <3>2, <4>1 DEF AfterPage
      <4> QED
        BY <1>1, <4>1, <4>2 DEF Fetch
    <3>3. CASE ~(fetch.page + 1 \in Pages /\ fetch.page < MaxPages)
      <4>1. g = [fetch EXCEPT !.pc = "exhausted"]
        BY <2>1, <3>3 DEF AfterPage
      <4>2. g \in Fetch /\ g.cloud = fetch.cloud /\ g.token = fetch.token /\ g.pc = "exhausted"
        BY <1>1, <4>1 DEF Fetch
      <4> QED
        BY <3>1, <3>3, <4>2
    <3> QED
      BY <3>2, <3>3
  <2>3. PICK f : f = fetch' /\ f = [g EXCEPT !.token = fetch.token - 1]
    BY <1>3, <2>1 DEF FetchPage
  <2>4. f \in Fetch /\ f.pc = g.pc /\ f.cloud = fetch.cloud /\ f.page = g.page
    <3>1. PICK n \in 0..TokenLife : n = fetch.token - 1
      BY <1>1, FetchAssumption DEF Fetch
    <3>2. f = [g EXCEPT !.token = n]
      BY <2>3, <3>1
    <3> QED
      BY <2>2, <3>2 DEF Fetch
  <2>5. saved' = Written(b) /\ batch' = IF Len(b) = BatchSize THEN <<>> ELSE b
    BY <1>3 DEF FetchPage
  <2>6. ASSUME fetch.cloud = "aws"
        PROVE  /\ batch' \in Seq(Nat) /\ saved' \in Seq(Nat)
               /\ ToSet(saved) \cup ToSet(batch) \cup {fetch.page} \subseteq ToSet(saved') \cup ToSet(batch')
    <3>1. batch \in Seq(Nat) /\ saved \in Seq(Nat) /\ fetch.page \in Nat
      BY <1>1, <2>6, PagesInOrder DEF Streamed, Fetch
    <3>2. b \in Seq(Nat) /\ ToSet(batch) \cup {fetch.page} \subseteq ToSet(b)
      BY <3>1, HeldAfterAppend
    <3>3. saved \o b \in Seq(Nat) /\ ToSet(saved) \cup ToSet(b) \subseteq ToSet(saved \o b)
      BY <3>1, <3>2, HeldTogether
    <3>4. <<>> \in Seq(Nat)
      OBVIOUS
    <3> HIDE DEF b
    <3> QED
      BY <2>5, <3>1, <3>2, <3>3, <3>4 DEF Written
  <2>7. ASSUME fetch.cloud = "aws", NEW p \in Pages, p <= fetch.page PROVE p \in ToSet(saved') \cup ToSet(batch')
    <3>1. CASE p = fetch.page
      BY <2>6, <2>7, <3>1
    <3>2. CASE p < fetch.page
      BY <1>1, <2>6, <2>7, <3>2 DEF Streamed
    <3> QED
      BY <1>1, <2>7, <3>1, <3>2, PagesInOrder DEF Fetch
  <2>8. \A p \in Pages : p < fetch.page + 1 => p <= fetch.page
    BY <1>1, PagesInOrder DEF Fetch
  <2>9. fetch.page + 1 \notin Pages \/ fetch.page >= MaxPages => \A p \in Pages : p <= MaxPages => p <= fetch.page
    BY <1>1, PagesInOrder, FetchAssumption DEF Fetch
  <2>10. Streamed(f, batch', saved')
    BY <2>2, <2>4, <2>6, <2>7, <2>8, <2>9 DEF Streamed
  <2> QED
    BY <1>1, <2>2, <2>3, <2>4, <2>10, StreamMoves
<1> QED
  BY <1>2, <1>3

\* Errors of the provider: the stream begins again from its first page, or fails.
LEMMA StreamBreaks ==
  ASSUME FetchInd, PageTimesOut \/ PageRefused \/ QueryFails PROVE FetchInd'
<1>1. fetch \in Fetch /\ fetchFaults \in 0..MaxFetchFaults /\ Streamed(fetch, batch, saved)
  BY DEF FetchInd
<1>2. UNCHANGED <<batch, saved>> /\ ReportIs /\ fetchFaults' \in 0..MaxFetchFaults
  BY <1>1, FetchAssumption DEF PageTimesOut, PageRefused, QueryFails
<1>3. CASE fetch' = [fetch EXCEPT !.pc = "failed"]
  <2>1. PICK f : f = fetch' /\ f = [fetch EXCEPT !.pc = "failed"]
    BY <1>3
  <2>2. f \in Fetch /\ f.pc = "failed"
    BY <1>1, <2>1 DEF Fetch
  <2> QED
    BY <1>2, <2>1, <2>2, StreamMoves DEF Streamed
<1>4. CASE fetch.pc = "page" /\ fetch.attempt < FetchAttempts /\ fetch' = Restarted(fetch)
  <2>1. PICK n \in 1..FetchAttempts : n = fetch.attempt + 1
    BY <1>1, <1>4, FetchAssumption DEF Fetch
  <2>2. PICK f : f = fetch' /\ f = [fetch EXCEPT !.pc = "credentials", !.attempt = n, !.page = 1]
    BY <1>4, <2>1 DEF Restarted
  <2>3. f \in Fetch /\ f.pc = "credentials" /\ f.page = 1 /\ f.cloud = fetch.cloud
    BY <1>1, <2>2, PagesInOrder DEF Fetch
  <2>4. Streamed(f, batch, saved)
    BY <1>1, <1>4, <2>3, PagesInOrder DEF Streamed
  <2> QED
    BY <1>2, <2>2, <2>3, <2>4, StreamMoves
<1> QED
  BY <1>3, <1>4 DEF PageTimesOut, PageRefused, QueryFails

\* The answers of Azure and of the billing export.
LEMMA QueryAnswers ==
  ASSUME FetchInd, QueryAzure \/ QueryBillingExport PROVE FetchInd'
<1>1. PICK f : f = fetch' /\ f = [fetch EXCEPT !.pc = "exhausted"]
  BY DEF QueryAzure, QueryBillingExport, Yielded
<1>2. fetch \in Fetch /\ fetch.cloud \in {"azure", "gcp"} /\ UNCHANGED fetchFaults /\ ReportIs
  BY DEF QueryAzure, QueryBillingExport, Yielded, FetchInd
<1>3. f \in Fetch /\ f.pc = "exhausted" /\ f.cloud # "aws"
  BY <1>1, <1>2 DEF Fetch
<1> QED
  BY <1>1, <1>2, <1>3, StreamMoves DEF Streamed, FetchInd

\* The last batch.
LEMMA RestIsSaved ==
  ASSUME FetchInd, SaveRest PROVE FetchInd'
<1>1. /\ fetch \in Fetch /\ fetchFaults' \in 0..MaxFetchFaults /\ Streamed(fetch, batch, saved) /\ fetch.pc = "exhausted"
      /\ ReportIs /\ batch' = <<>>
  BY DEF FetchInd, SaveRest
<1>2. PICK f : /\ f = fetch'
               /\ \/ f = [fetch EXCEPT !.pc = "saved"] /\ saved' = saved \o batch
                  \/ f = [fetch EXCEPT !.pc = "failed"]
  BY DEF SaveRest
<1>3. f \in Fetch /\ f.cloud = fetch.cloud /\ (f.pc = "failed" \/ (f.pc = "saved" /\ saved' = saved \o batch))
  BY <1>1, <1>2 DEF Fetch
<1>4. ASSUME fetch.cloud = "aws", f.pc = "saved"
      PROVE  batch' \in Seq(Nat) /\ saved' \in Seq(Nat) /\ ToSet(saved) \cup ToSet(batch) \subseteq ToSet(saved')
  <2>1. batch \in Seq(Nat) /\ saved \in Seq(Nat) /\ <<>> \in Seq(Nat)
    BY <1>1, <1>4 DEF Streamed
  <2> QED
    BY <1>1, <1>3, <1>4, <2>1, HeldTogether
<1>5. Streamed(f, batch', saved')
  BY <1>1, <1>3, <1>4 DEF Streamed
<1> QED
  BY <1>1, <1>2, <1>3, <1>5, StreamMoves

\* A step of the setup.
LEMMA PreparationGoesOn ==
  ASSUME FetchInd, UNCHANGED <<fetch, batch, saved>>, fetchFaults' \in 0..MaxFetchFaults,
         NEW x \in Setup, setup' = x, NEW r \in Reports, report' = r, Prepared(x, r)
  PROVE  FetchInd'
  BY DEF FetchInd, Streamed, Fetch, Setup, Reports, Prepared

\* The setup, step by step, and the reading of a report.
LEMMA SetupMoves ==
  ASSUME FetchInd,
         \/ StartSetup \/ EnsureBucket \/ PutBucketPolicy \/ PutReportDefinition \/ SetupFails
         \/ \E rows \in ReportRows : IngestLatest(rows)
  PROVE  FetchInd'
<1>1. report \in Reports /\ setup \in Setup /\ fetchFaults \in 0..MaxFetchFaults /\ Prepared(setup, report)
  BY DEF FetchInd
<1>2. UNCHANGED <<fetch, batch, saved>>
  BY DEF StartSetup, EnsureBucket, PutBucketPolicy, PutReportDefinition, SetupFails, IngestLatest, StreamIs
<1>3. CASE StartSetup
  <2>1. PICK n \in 0..MaxSetups : n = setup.calls + 1
    BY <1>1, <1>3, FetchAssumption DEF StartSetup, Setup
  <2>2. PICK x : x = [pc |-> "bucket", result |-> "none", calls |-> n]
    OBVIOUS
  <2>3. x \in Setup /\ x.pc = "bucket" /\ setup' = x
    BY <1>3, <2>1, <2>2 DEF StartSetup, Setup
  <2>4. Prepared(x, report)
    BY <1>1, <2>3 DEF Prepared
  <2> QED
    BY <1>1, <1>2, <1>3, <2>3, <2>4, PreparationGoesOn DEF StartSetup
<1>4. CASE EnsureBucket
  <2>1. PICK x, r : x = [setup EXCEPT !.pc = "policy"] /\ r = [report EXCEPT !.bucket = TRUE]
    OBVIOUS
  <2>2. x \in Setup /\ x.pc = "policy" /\ r \in Reports /\ r.bucket /\ r.policy = report.policy /\ r.defined = report.defined
    BY <1>1, <2>1 DEF Setup, Reports
  <2>3. Prepared(x, r)
    BY <1>1, <2>2 DEF Prepared
  <2> QED
    BY <1>1, <1>2, <1>4, <2>1, <2>2, <2>3, PreparationGoesOn DEF EnsureBucket
<1>5. CASE PutBucketPolicy
  <2>1. PICK x, r : x = [setup EXCEPT !.pc = "define"] /\ r = [report EXCEPT !.policy = TRUE]
    OBVIOUS
  <2>2. x \in Setup /\ x.pc = "define" /\ r \in Reports /\ r.policy /\ r.bucket = report.bucket /\ r.defined = report.defined
    BY <1>1, <2>1 DEF Setup, Reports
  <2>3. Prepared(x, r)
    BY <1>1, <1>5, <2>2 DEF Prepared, PutBucketPolicy
  <2> QED
    BY <1>1, <1>2, <1>5, <2>1, <2>2, <2>3, PreparationGoesOn DEF PutBucketPolicy
<1>6. CASE PutReportDefinition
  <2>1. PICK c \in {"error", "success"} : c = IF report.defined THEN "error" ELSE "success"
    OBVIOUS
  <2>2. PICK x, r : x = [setup EXCEPT !.pc = "idle", !.result = c] /\ r = [report EXCEPT !.defined = TRUE]
    OBVIOUS
  <2>3. x \in Setup /\ x.pc = "idle" /\ r \in Reports /\ r.policy = report.policy /\ r.bucket = report.bucket
    BY <1>1, <2>2 DEF Setup, Reports
  <2>4. Prepared(x, r)
    BY <1>1, <1>6, <2>3 DEF Prepared, PutReportDefinition
  <2> QED
    BY <1>1, <1>2, <1>6, <2>1, <2>2, <2>3, <2>4, PreparationGoesOn DEF PutReportDefinition
<1>7. CASE SetupFails
  <2>1. PICK x : x = [setup EXCEPT !.pc = "idle", !.result = "error"]
    OBVIOUS
  <2>2. x \in Setup /\ x.pc = "idle"
    BY <1>1, <2>1 DEF Setup
  <2>3. Prepared(x, report)
    BY <1>1, <2>2 DEF Prepared
  <2>4. fetchFaults' \in 0..MaxFetchFaults
    BY <1>1, <1>7, FetchAssumption DEF SetupFails
  <2> QED
    BY <1>1, <1>2, <1>7, <2>1, <2>2, <2>3, <2>4, PreparationGoesOn DEF SetupFails
<1>8. CASE \E rows \in ReportRows : IngestLatest(rows)
  BY <1>1, <1>2, <1>8, PreparationGoesOn DEF IngestLatest
<1> QED
  BY <1>3, <1>4, <1>5, <1>6, <1>7, <1>8

\* No step breaks the invariant.
LEMMA FetchStep == ASSUME FetchInd, [FetchNext]_fetchVars PROVE FetchInd'
<1>1. CASE UNCHANGED fetchVars
  BY <1>1 DEF fetchVars, FetchInd, Streamed, Prepared, Fetch, Setup, Reports
<1> QED
  BY <1>1, StreamBegins, PageIsHeld, StreamBreaks, QueryAnswers, RestIsSaved, SetupMoves DEF FetchNext

\* What the summary was made of.
ReportRow == [service : STRING, cost : Int]
SummaryInd == summary.rows \in Seq(ReportRow)

\* Only the newest file changes it.
LEMMA RowsAreRead == ASSUME SummaryInd, [FetchNext]_fetchVars PROVE SummaryInd'
<1>1. CASE summary' = summary
  BY <1>1 DEF SummaryInd
<1>2. ASSUME NEW rows \in ReportRows, IngestLatest(rows) PROVE SummaryInd'
  <2>1. rows \in Seq(ReportRow)
    BY FetchAssumption DEF ReportRow
  <2>2. summary'.rows = rows
    BY <1>2 DEF IngestLatest
  <2> QED
    BY <2>1, <2>2 DEF SummaryInd
<1>3. (\E cloud \in {"aws", "azure", "gcp"} : StartFetch(cloud)) => summary' = summary
  BY DEF StartFetch, ReportIs
<1>4. QueryAzure \/ QueryBillingExport \/ QueryFails => summary' = summary
  BY DEF QueryAzure, QueryBillingExport, QueryFails, Yielded, ReportIs
<1>5. GetCredentials \/ FetchPage \/ PageTimesOut \/ PageRefused \/ SaveRest => summary' = summary
  BY DEF GetCredentials, FetchPage, PageTimesOut, PageRefused, SaveRest, ReportIs
<1>6. StartSetup \/ EnsureBucket \/ PutBucketPolicy \/ PutReportDefinition \/ SetupFails => summary' = summary
  BY DEF StartSetup, EnsureBucket, PutBucketPolicy, PutReportDefinition, SetupFails, StreamIs
<1>7. UNCHANGED fetchVars => summary' = summary
  BY DEF fetchVars
<1> QED
  BY <1>1, <1>2, <1>3, <1>4, <1>5, <1>6, <1>7 DEF FetchNext

\* The rows at some places sum what those rows cost.
LEMMA CostIsSum ==
  ASSUME NEW rows \in Seq(ReportRow), NEW S, S \subseteq DOMAIN rows,
         NEW f, \A i \in S : f[i] = rows[i].cost
  PROVE  IsFiniteSet(S) /\ Cost(rows, S) = SumFunctionOnSet(f, S)
<1> DEFINE g == [i \in S |-> rows[i].cost]
<1>1. IsFiniteSet(S)
  <2>1. DOMAIN rows = 1..Len(rows) /\ Len(rows) \in Nat
    OBVIOUS
  <2>2. IsFiniteSet(1..Len(rows))
    BY <2>1, FS_Interval
  <2> QED
    BY <2>1, <2>2, FS_Subset
<1>2. \A i \in S : g[i] = f[i]
  OBVIOUS
<1>3. SumFunctionOnSet(g, S) = SumFunctionOnSet(f, S)
  <2> HIDE DEF g
  <2> QED
    BY <1>1, <1>2, SumSame
<1> QED
  BY <1>1, <1>3 DEF Cost

\* Each row is counted for one service.
LEMMA ReportSums == ASSUME SummaryInd PROVE ReportAddsUp
<1> USE DEF SummaryInd
<1> DEFINE rows == summary.rows
           D == DOMAIN rows
           f == [i \in D |-> rows[i].cost]
           name == [i \in D |-> rows[i].service]
           N == Services(summary)
           g == ByService(summary)
<1>1. IsFiniteSet(D) /\ TotalCost(summary) = SumFunctionOnSet(f, D)
  <2>1. \A i \in D : f[i] = rows[i].cost
    OBVIOUS
  <2> HIDE DEF f
  <2> QED
    BY <2>1, CostIsSum DEF TotalCost
<1>2. N = {name[i] : i \in D}
  BY DEF Services
<1>3. \A i \in D : f[i] \in Int /\ name[i] \in N
  <2>1. \A i \in D : rows[i] \in ReportRow
    OBVIOUS
  <2> QED
    BY <1>2, <2>1 DEF ReportRow
<1>4. \A s \in N : g[s] = Cost(rows, Named(D, name, s))
  <2>1. \A s \in N : g[s] = Cost(rows, {i \in D : rows[i].service = s})
    BY DEF ByService
  <2>2. \A s \in N : {i \in D : rows[i].service = s} = Named(D, name, s)
    BY DEF Named
  <2> QED
    BY <2>1, <2>2
<1>5. \A s \in N : g[s] = SumFunctionOnSet(f, Named(D, name, s))
  <2> SUFFICES ASSUME NEW s \in N PROVE Cost(rows, Named(D, name, s)) = SumFunctionOnSet(f, Named(D, name, s))
    BY <1>4
  <2>1. Named(D, name, s) \subseteq D
    BY DEF Named
  <2>2. \A i \in Named(D, name, s) : f[i] = rows[i].cost
    BY <2>1
  <2> HIDE DEF f, name
  <2> QED
    BY <2>1, <2>2, CostIsSum
<1> HIDE DEF rows, D, f, name, N, g
<1>6. IsFiniteSet(N)
  BY <1>1, <1>2, FiniteValues
<1>7. SumFunctionOnSet(g, N) = SumFunctionOnSet(f, D)
  BY <1>1, <1>3, <1>5, <1>6, SumByName
<1> QED
  BY <1>1, <1>7 DEF ReportAddsUp, g, N

\* A batch that is full was written, and what is written or waits is pages.
Batched == batch \in Seq(Pages) /\ saved \in Seq(Pages) /\ Len(batch) < BatchSize

\* The full batches in a number of rows, and the rows behind them.
LEMMA FullBatches ==
  ASSUME NEW n \in Nat
  PROVE  \E full \in Nat : full = (n \div BatchSize) * BatchSize /\ full <= n /\ n - full < BatchSize
<1>1. BatchSize \in Nat \ {0}
  BY FetchAssumption
<1> DEFINE q == n \div BatchSize
<1>2. q \in Nat /\ q * BatchSize <= n /\ n < (q + 1) * BatchSize
  BY <1>1
<1> HIDE DEF q
<1>3. q * BatchSize \in Nat /\ (q + 1) * BatchSize = q * BatchSize + BatchSize
  BY <1>1, <1>2
<1> QED
  BY <1>1, <1>2, <1>3 DEF q

\* The rows of a list are batched as they come.
LEMMA RowsAreBatched == ASSUME NEW rows \in Seq(Pages), Yielded(rows) PROVE Batched'
<1>1. Len(rows) \in Nat
  OBVIOUS
<1>2. PICK full \in Nat : full = (Len(rows) \div BatchSize) * BatchSize /\ full <= Len(rows) /\ Len(rows) - full < BatchSize
  BY <1>1, FullBatches
<1>3. saved' = SubSeq(rows, 1, full) /\ batch' = SubSeq(rows, full + 1, Len(rows))
  BY <1>2 DEF Yielded
<1>4. saved' \in Seq(Pages) /\ batch' \in Seq(Pages) /\ Len(batch') = Len(rows) - full
  BY <1>1, <1>2, <1>3
<1> QED
  BY <1>2, <1>4 DEF Batched

\* No step leaves a full batch unwritten.
LEMMA BatchStep == ASSUME FetchInd, Batched, [FetchNext]_fetchVars PROVE Batched'
<1>0. <<>> \in Seq(Pages) /\ Len(<<>>) = 0 /\ 0 < BatchSize /\ BatchSize \in Nat
  BY FetchAssumption
<1>1. CASE FetchPage
  <2> DEFINE b == Append(batch, fetch.page)
  <2>1. fetch.page \in Pages
    BY DEF FetchInd, Fetch
  <2>2. b \in Seq(Pages) /\ Len(b) = Len(batch) + 1 /\ Len(batch) \in Nat /\ saved \o b \in Seq(Pages)
    BY <2>1 DEF Batched
  <2>3. \/ UNCHANGED <<batch, saved>>
        \/ Len(b) = BatchSize /\ saved' = saved \o b /\ batch' = <<>>
        \/ Len(b) # BatchSize /\ saved' = saved /\ batch' = b
    BY <1>1 DEF FetchPage, Written
  <2> HIDE DEF b
  <2>4. CASE UNCHANGED <<batch, saved>>
    BY <2>4 DEF Batched
  <2>5. CASE Len(b) = BatchSize /\ saved' = saved \o b /\ batch' = <<>>
    BY <1>0, <2>2, <2>5 DEF Batched
  <2>6. CASE Len(b) # BatchSize /\ saved' = saved /\ batch' = b
    <3>1. Len(b) < BatchSize
      BY <1>0, <2>2, <2>6 DEF Batched
    <3> QED
      BY <2>2, <2>6, <3>1 DEF Batched
  <2> QED
    BY <2>3, <2>4, <2>5, <2>6
<1>2. CASE SaveRest
  <2>1. batch' = <<>> /\ (saved' = saved \/ saved' = saved \o batch)
    BY <1>2 DEF SaveRest
  <2>2. saved' \in Seq(Pages)
    <3>1. saved \in Seq(Pages) /\ saved \o batch \in Seq(Pages)
      BY DEF Batched
    <3> QED
      BY <2>1, <3>1
  <2> QED
    BY <1>0, <2>1, <2>2 DEF Batched
<1>3. CASE QueryAzure
  <2>1. <<1>> \in Seq(Pages)
    BY PagesInOrder
  <2> QED
    BY <1>3, <2>1, RowsAreBatched DEF QueryAzure
<1>4. CASE QueryBillingExport
  <2>1. [p \in Pages |-> p] \in Seq(Pages) /\ <<>> \in Seq(Pages)
    <3>1. Cardinality(Pages) \in Nat
      BY FetchAssumption, FS_CardinalityType
    <3>2. \A n \in Nat : Pages = 1..n => [p \in Pages |-> p] \in Seq(Pages)
      OBVIOUS
    <3> QED
      BY <3>1, <3>2, FetchAssumption
  <2> QED
    BY <1>4, <2>1, RowsAreBatched DEF QueryBillingExport
<1>5. CASE UNCHANGED <<batch, saved>>
  BY <1>5 DEF Batched
<1> QED
  BY <1>1, <1>2, <1>3, <1>4, <1>5 DEF FetchNext, StartFetch, QueryFails, GetCredentials, PageTimesOut, PageRefused,
     StartSetup, EnsureBucket, PutBucketPolicy, PutReportDefinition, SetupFails, IngestLatest, StreamIs, fetchVars

\* For any number of pages, attempts, credentials and setups, and any report: an ingestion from
\* Cost Explorer that ends well has every page, a report that is defined can be delivered, and
\* a summary's total is the sum of its services (aws_multitenant.py, aws_cur.py).
THEOREM StreamIsWhole == FetchSpec => [](FetchTypeOK /\ FetchInv)
<1>1. FetchInd => SavedIsWhole
  BY DEF FetchInd, Streamed, SavedIsWhole
<1>2. FetchInd => DefinedCanDeliver
  BY DEF FetchInd, Prepared, DefinedCanDeliver
<1>3. FetchInit => SummaryInd
  BY DEF FetchInit, SummaryInd
<1>4. FetchInit => Batched
  BY FetchAssumption DEF FetchInit, Batched
<1>5. FetchInd /\ Batched => FetchTypeOK
  <2> SUFFICES ASSUME FetchInd, Batched PROVE FetchTypeOK
    OBVIOUS
  <2>1. fetch.page \in 1..MaxPages + 1
    <3>1. fetch.page \in 1..MaxPages /\ MaxPages \in Nat
      BY FetchAssumption DEF FetchInd, Fetch
    <3> QED
      BY <3>1
  <2>2. batch \in Seq(Pages) /\ Len(batch) <= BatchSize /\ saved \in Seq(Pages)
    BY FetchAssumption DEF Batched
  <2> QED
    BY <2>1, <2>2 DEF FetchInd, Fetch, Setup, FetchTypeOK
<1> QED
  BY <1>1, <1>2, <1>3, <1>4, <1>5, FetchStart, FetchStep, BatchStep, RowsAreRead, ReportSums, PTL
  DEF FetchSpec, FetchInv

-----------------------------------------------------------------------------
(***************************************************************************)
(* Cost records, for any connections, days and ingestion jobs.             *)
(***************************************************************************)

Ingestion ==
  [pc : {"none", "queued", "running", "read", "completed", "dead"}, tries : 0..IngestAttempts, conn : Bills \cup {0},
   done : SUBSET Bills, read : [BillDays -> Amounts], saved : SUBSET Bills, failed : SUBSET Bills]

\* The inductive invariant of the cost records: a job names as done only what it saved or
\* saw fail, and a row is final only once its day is past the restatement window.  A job
\* that waits has a try left.
CostInd ==
  /\ bill \in [Keys -> Amounts] /\ costView \in [Keys -> Amounts]
  /\ costRow \in [Keys -> [amount : Amounts, final : BOOLEAN]]
  /\ ingest \in [Ingestions -> Ingestion]
  /\ today \in BillDays /\ restated \in 0..MaxRestated /\ ingestFaults \in 0..MaxIngestFaults
  /\ \A j \in Ingestions : ingest[j].done \subseteq ingest[j].saved \cup ingest[j].failed
  /\ \A j \in Ingestions : ingest[j].pc = "queued" => ingest[j].tries < IngestAttempts
  /\ \A j \in Ingestions : ingest[j].pc = "read" => ingest[j].conn \in Bills
  /\ \A k \in Keys : costRow[k].final => k[2] <= today - 2

-----------------------------------------------------------------------------
\* A set of naturals has a least element, so the next connection is one of those to do.
LEMMA LeastIsThere == ASSUME NEW S \in SUBSET Nat, S # {} PROVE Min(S) \in S
<1> DEFINE T == {0..n : n \in S}
           R == StrictSubsetOrdering(Nat)
<1>1. T \subseteq FiniteSubsetsOf(Nat) /\ T # {}
  <2>1. \A n \in S : 0..n \in FiniteSubsetsOf(Nat)
    BY FS_Interval DEF FiniteSubsetsOf
  <2> QED
    BY <2>1
<1>2. IsWellFoundedOn(R, FiniteSubsetsOf(Nat))
  BY FS_StrictSubsetOrderingWellFounded
<1>3. PICK t \in T : \A u \in T : <<u, t>> \notin R
  <2> HIDE DEF T, R
  <2> QED
    BY <1>1, <1>2, WFMin
<1>4. PICK x \in S : t = 0..x
  BY <1>3
<1>5. ASSUME NEW y \in S PROVE x <= y
  <2>1. <<0..y, 0..x>> \notin R
    BY <1>3, <1>4
  <2>2. ~(0..y \subseteq 0..x) \/ 0..y = 0..x
    BY <2>1 DEF StrictSubsetOrdering
  <2>3. CASE y < x
    <3>1. x \in 0..x /\ x \notin 0..y /\ 0..y \subseteq 0..x
      BY <2>3
    <3> QED
      BY <2>2, <3>1
  <2> QED
    BY <2>3
<1> QED
  BY <1>5 DEF Min

\* The next connection is one that the checkpoint does not name.
LEMMA NextToDo == ASSUME NEW D \in SUBSET Bills, Bills \ D # {} PROVE Min(Bills \ D) \in Bills
<1>1. Bills \ D \in SUBSET Nat
  BY CostAssumption
<1> QED
  BY <1>1, LeastIsThere

\* At first there are no rows.
LEMMA CostStart == CostInit => CostInd
<1> SUFFICES ASSUME CostInit PROVE CostInd
  OBVIOUS
<1>1. NoRow \in [amount : Amounts, final : BOOLEAN] /\ ~NoRow.final
  BY DEF NoRow, Amounts
<1>2. NoIngestion \in Ingestion /\ NoIngestion.pc = "none" /\ NoIngestion.done = {}
  BY CostAssumption DEF NoIngestion, Ingestion, Amounts
<1>3. bill \in [Keys -> Amounts] /\ costView \in [Keys -> Amounts]
  BY DEF CostInit, Amounts
<1> QED
  BY <1>1, <1>2, <1>3, CostAssumption DEF CostInit, CostInd

\* What a job has read, written over the rows: the amounts change and nothing else does.
LEMMA UpsertKeepsFinal ==
  ASSUME CostInd, NEW c, NEW read \in [BillDays -> Amounts], NEW days
  PROVE  /\ Upsert(costRow, c, read, days) \in [Keys -> [amount : Amounts, final : BOOLEAN]]
         /\ \A k \in Keys : Upsert(costRow, c, read, days)[k].final = costRow[k].final
  BY DEF CostInd, Upsert, Keys

\* A step of one job that calls no row final.
LEMMA JobMoves ==
  ASSUME CostInd, NEW j \in Ingestions, NEW x \in Ingestion, ingest' = [ingest EXCEPT ![j] = x],
         UNCHANGED <<bill, costView, today, restated>>, ingestFaults' \in 0..MaxIngestFaults,
         x.done \subseteq x.saved \cup x.failed,
         x.pc = "queued" => x.tries < IngestAttempts,
         x.pc = "read" => x.conn \in Bills,
         costRow' \in [Keys -> [amount : Amounts, final : BOOLEAN]],
         \A k \in Keys : costRow'[k].final = costRow[k].final
  PROVE  CostInd'
<1>1. ingest' \in [Ingestions -> Ingestion] /\ \A i \in Ingestions : ingest'[i] = x \/ ingest'[i] = ingest[i]
  BY DEF CostInd
<1>2. /\ \A i \in Ingestions : ingest'[i].done \subseteq ingest'[i].saved \cup ingest'[i].failed
      /\ \A i \in Ingestions : ingest'[i].pc = "queued" => ingest'[i].tries < IngestAttempts
      /\ \A i \in Ingestions : ingest'[i].pc = "read" => ingest'[i].conn \in Bills
  BY <1>1 DEF CostInd
<1>3. \A k \in Keys' : costRow'[k].final => k[2] <= today' - 2
  BY DEF CostInd, Keys
<1> QED
  BY <1>1, <1>2, <1>3 DEF CostInd, Keys, Ingestion, Amounts

\* The job of an action.
LEMMA JobFacts ==
  ASSUME CostInd, NEW j \in Ingestions
  PROVE  \E d \in Ingestion : /\ d = ingest[j] /\ d.done \subseteq d.saved \cup d.failed
                              /\ d.pc = "queued" => d.tries < IngestAttempts
                              /\ d.pc = "read" => d.conn \in Bills
  BY DEF CostInd

\* A job that has not begun.
LEMMA NoIngestionYet ==
  /\ NoIngestion \in Ingestion /\ NoIngestion.done = {} /\ NoIngestion.tries = 0
  /\ NoIngestion.read \in [BillDays -> Amounts] /\ 0 < IngestAttempts
  BY CostAssumption DEF NoIngestion, Ingestion, Amounts

\* Queueing, starting, reading and losing a job, and its end.
LEMMA JobGoesOn ==
  ASSUME CostInd, NEW j \in Ingestions,
         QueueIngestion(j) \/ RunIngestion(j) \/ ReadBill(j) \/ FinishIngestion(j) \/ LoseIngestion(j)
  PROVE  CostInd'
<1>1. PICK d \in Ingestion : /\ d = ingest[j] /\ d.done \subseteq d.saved \cup d.failed
                             /\ d.pc = "queued" => d.tries < IngestAttempts
                             /\ d.pc = "read" => d.conn \in Bills
  BY JobFacts
<1>2. /\ costRow \in [Keys -> [amount : Amounts, final : BOOLEAN]]
      /\ ingestFaults \in 0..MaxIngestFaults /\ bill \in [Keys -> Amounts]
      /\ ingest \in [Ingestions -> Ingestion]
  BY DEF CostInd
<1>3. CASE QueueIngestion(j) \/ FinishIngestion(j)
  <2>1. PICK x : /\ ingest' = [ingest EXCEPT ![j] = x]
                 /\ x = [NoIngestion EXCEPT !.pc = "queued"] \/ x = [NoIngestion EXCEPT !.pc = "completed"]
    BY <1>3 DEF QueueIngestion, FinishIngestion
  <2>2. x \in Ingestion /\ x.done = {} /\ x.tries = 0 /\ x.pc # "read"
    BY <2>1, NoIngestionYet DEF Ingestion
  <2> QED
    BY <1>2, <1>3, <2>1, <2>2, NoIngestionYet, JobMoves DEF QueueIngestion, FinishIngestion
<1>4. CASE RunIngestion(j)
  <2>1. PICK x : x = [d EXCEPT !.pc = "running", !.tries = @ + 1]
    OBVIOUS
  <2>2. d.pc = "queued" /\ ingest' = [ingest EXCEPT ![j] = x]
    BY <1>1, <1>2, <1>4, <2>1 DEF RunIngestion
  <2>3. d.tries + 1 \in 0..IngestAttempts
    BY <1>1, <2>2, CostAssumption DEF Ingestion
  <2>4. x \in Ingestion /\ x.done \subseteq x.saved \cup x.failed /\ x.pc = "running"
    BY <1>1, <2>1, <2>3 DEF Ingestion
  <2> QED
    BY <1>2, <1>4, <2>2, <2>4, JobMoves DEF RunIngestion
<1>5. CASE ReadBill(j)
  <2>1. PICK c \in Bills : c = Min(Bills \ d.done)
    BY <1>1, <1>5, NextToDo DEF ReadBill, Ingestion
  <2>2. PICK r \in [BillDays -> Amounts] : r = [y \in BillDays |-> bill[<<c, y>>]]
    BY <1>2 DEF Keys
  <2>3. PICK x : x = [d EXCEPT !.pc = "read", !.conn = c, !.read = r]
    OBVIOUS
  <2>4. x \in Ingestion /\ x.done \subseteq x.saved \cup x.failed /\ x.pc = "read" /\ x.conn \in Bills
    BY <1>1, <2>1, <2>2, <2>3 DEF Ingestion
  <2>5. ingest' = [ingest EXCEPT ![j] = x]
    BY <1>1, <1>2, <1>5, <2>1, <2>2, <2>3 DEF ReadBill
  <2> QED
    BY <1>2, <1>5, <2>4, <2>5, JobMoves DEF ReadBill
<1>6. CASE LoseIngestion(j)
  <2>1. PICK p \in {"queued", "dead"} : p = IF d.tries < IngestAttempts THEN "queued" ELSE "dead"
    OBVIOUS
  <2>2. PICK x : x = [d EXCEPT !.pc = p, !.conn = 0, !.read = NoIngestion.read]
    OBVIOUS
  <2>3. x \in Ingestion /\ x.done \subseteq x.saved \cup x.failed /\ x.pc = p /\ x.tries = d.tries
    <3>1. PICK r \in [BillDays -> Amounts] : r = NoIngestion.read
      BY NoIngestionYet
    <3>2. x \in Ingestion
      BY <2>2, <3>1 DEF Ingestion
    <3>3. x.done = d.done /\ x.saved = d.saved /\ x.failed = d.failed /\ x.pc = p /\ x.tries = d.tries
      BY <2>2 DEF Ingestion
    <3> QED
      BY <1>1, <3>2, <3>3
  <2>4. ingest' = [ingest EXCEPT ![j] = x]
    BY <1>1, <1>2, <1>6, <2>1, <2>2 DEF LoseIngestion
  <2>5. ingestFaults' \in 0..MaxIngestFaults
    BY <1>2, <1>6, CostAssumption DEF LoseIngestion
  <2>6. UNCHANGED <<bill, costRow, costView, today, restated>>
    BY <1>6 DEF LoseIngestion
  <2> QED
    BY <1>2, <2>1, <2>3, <2>4, <2>5, <2>6, JobMoves
<1> QED
  BY <1>3, <1>4, <1>5, <1>6

\* Rows and checkpoint in one transaction, and a stream that fails after some batches.
LEMMA JobWrites ==
  ASSUME CostInd, NEW j \in Ingestions, SaveBill(j) \/ \E n \in BillDays : StreamFails(j, 1..(n - 1))
  PROVE  CostInd'
<1>1. PICK d \in Ingestion : d = ingest[j] /\ d.done \subseteq d.saved \cup d.failed /\ d.pc = "read" /\ d.conn \in Bills
  BY JobFacts DEF SaveBill, StreamFails
<1>2. /\ ingestFaults \in 0..MaxIngestFaults /\ ingest \in [Ingestions -> Ingestion] /\ d.read \in [BillDays -> Amounts]
  BY <1>1 DEF CostInd, Ingestion
<1>3. CASE SaveBill(j)
  <2>1. PICK x : x = [d EXCEPT !.pc = "running", !.done = @ \cup {d.conn}, !.saved = @ \cup {d.conn},
                               !.conn = 0, !.read = NoIngestion.read]
    OBVIOUS
  <2>2. x \in Ingestion /\ x.done \subseteq x.saved \cup x.failed /\ x.pc = "running"
    <3>1. PICK r \in [BillDays -> Amounts] : r = NoIngestion.read
      BY NoIngestionYet
    <3>2. PICK D, W \in SUBSET Bills : D = d.done \cup {d.conn} /\ W = d.saved \cup {d.conn}
      BY <1>1 DEF Ingestion
    <3>3. x = [d EXCEPT !.pc = "running", !.done = D, !.saved = W, !.conn = 0, !.read = r]
      BY <2>1, <3>1, <3>2
    <3>4. x \in Ingestion
      BY <3>3 DEF Ingestion
    <3>5. x.done = D /\ x.saved = W /\ x.failed = d.failed /\ x.pc = "running"
      BY <3>3 DEF Ingestion
    <3> QED
      BY <1>1, <3>2, <3>4, <3>5
  <2>3. ingest' = [ingest EXCEPT ![j] = x]
    BY <1>1, <1>2, <1>3, <2>1 DEF SaveBill
  <2>4. costRow' = Upsert(costRow, d.conn, d.read, BillDays) /\ UNCHANGED <<bill, costView, today, restated, ingestFaults>>
    BY <1>1, <1>3 DEF SaveBill
  <2>5. /\ costRow' \in [Keys -> [amount : Amounts, final : BOOLEAN]]
       /\ \A k \in Keys : costRow'[k].final = costRow[k].final
    BY <1>2, <2>4, UpsertKeepsFinal
  <2> QED
    BY <1>2, <2>2, <2>3, <2>4, <2>5, JobMoves
<1>4. ASSUME NEW n \in BillDays, StreamFails(j, 1..(n - 1)) PROVE CostInd'
  <2>1. PICK x : x = [d EXCEPT !.pc = "running", !.done = @ \cup {d.conn}, !.failed = @ \cup {d.conn},
                               !.conn = 0, !.read = NoIngestion.read]
    OBVIOUS
  <2>2. x \in Ingestion /\ x.done \subseteq x.saved \cup x.failed /\ x.pc = "running"
    <3>1. PICK r \in [BillDays -> Amounts] : r = NoIngestion.read
      BY NoIngestionYet
    <3>2. PICK D, W \in SUBSET Bills : D = d.done \cup {d.conn} /\ W = d.failed \cup {d.conn}
      BY <1>1 DEF Ingestion
    <3>3. x = [d EXCEPT !.pc = "running", !.done = D, !.failed = W, !.conn = 0, !.read = r]
      BY <2>1, <3>1, <3>2
    <3>4. x \in Ingestion
      BY <3>3 DEF Ingestion
    <3>5. x.done = D /\ x.failed = W /\ x.saved = d.saved /\ x.pc = "running"
      BY <3>3 DEF Ingestion
    <3> QED
      BY <1>1, <3>2, <3>4, <3>5
  <2>3. ingest' = [ingest EXCEPT ![j] = x]
    BY <1>1, <1>2, <1>4, <2>1 DEF StreamFails
  <2>4. costRow' = Upsert(costRow, d.conn, d.read, 1..(n - 1)) /\ UNCHANGED <<bill, costView, today, restated>>
    BY <1>1, <1>4 DEF StreamFails
  <2>5. ingestFaults' \in 0..MaxIngestFaults
    BY <1>2, <1>4, CostAssumption DEF StreamFails
  <2>6. /\ costRow' \in [Keys -> [amount : Amounts, final : BOOLEAN]]
       /\ \A k \in Keys : costRow'[k].final = costRow[k].final
    BY <1>2, <2>4, UpsertKeepsFinal
  <2> QED
    BY <1>2, <2>2, <2>3, <2>4, <2>5, <2>6, JobMoves
<1> QED
  BY <1>3, <1>4

\* The sweep calls rows final whose day is past the window.
LEMMA SweepFinalizes == ASSUME CostInd, Maintenance \/ MaintenanceWithoutRefresh PROVE CostInd'
<1>1. costRow' = Finalized(costRow) /\ UNCHANGED <<bill, ingest, today, restated>>
  BY DEF Maintenance, MaintenanceWithoutRefresh
<1>2. /\ costRow' \in [Keys -> [amount : Amounts, final : BOOLEAN]]
      /\ \A k \in Keys : costRow'[k].final => k[2] <= today - 2
  BY <1>1 DEF CostInd, Finalized
<1>3. costView' \in [Keys -> Amounts]
  BY DEF Maintenance, MaintenanceWithoutRefresh, CostInd
<1>4. ingestFaults' \in 0..MaxIngestFaults
  BY CostAssumption DEF Maintenance, MaintenanceWithoutRefresh, CostInd
<1> QED
  BY <1>1, <1>2, <1>3, <1>4 DEF CostInd, Keys, Ingestion, Amounts

\* A new day, or a restated one.
LEMMA BillChanges == ASSUME CostInd, NextDay \/ \E k \in Keys : Restate(k) PROVE CostInd'
<1>1. UNCHANGED <<costRow, ingest, costView, ingestFaults>>
  BY DEF NextDay, Restate
<1>2. bill' \in [Keys -> Amounts]
  BY DEF NextDay, Restate, CostInd, Amounts
<1>3. today' \in BillDays /\ restated' \in 0..MaxRestated
  BY CostAssumption DEF NextDay, Restate, CostInd
<1>4. \A k \in Keys : costRow[k].final => k[2] <= today' - 2
  <2>1. today <= today'
    BY CostAssumption DEF NextDay, Restate, CostInd
  <2>2. today \in BillDays /\ \A k \in Keys : k[2] \in BillDays
    BY DEF Keys, CostInd
  <2>3. ASSUME NEW k \in Keys, costRow[k].final PROVE k[2] <= today' - 2
    <3>1. k[2] <= today - 2
      BY <2>3 DEF CostInd
    <3>2. \A m, n, d \in BillDays : d <= m - 2 /\ m <= n => d <= n - 2
      BY CostAssumption
    <3> QED
      BY <1>3, <2>1, <2>2, <3>1, <3>2
  <2> QED
    BY <2>3
<1> QED
  BY <1>1, <1>2, <1>3, <1>4 DEF CostInd, Keys, Ingestion, Amounts

\* No step breaks the invariant.
LEMMA CostStep == ASSUME CostInd, [CostNext]_costVars PROVE CostInd'
<1>1. CASE UNCHANGED costVars
  BY <1>1 DEF costVars, CostInd, Keys, Ingestion, Amounts
<1> QED
  BY <1>1, JobGoesOn, JobWrites, SweepFinalizes, BillChanges DEF CostNext, IngestionStep

\* When the widget says final, every row that is there is final.
LEMMA FreshnessCounts ==
  ASSUME Freshness = "final" PROVE \A k \in Present : costRow[k].final
<1> DEFINE P == {k \in Present : ~costRow[k].final}
<1>1. IsFiniteSet(Keys)
  BY CostAssumption, FS_Product DEF Keys
<1>2. IsFiniteSet(P)
  BY <1>1, FS_Subset DEF Present
<1>3. Cardinality(P) = 0
  BY DEF Freshness
<1> QED
  BY <1>2, <1>3, FS_EmptySet

\* The query of some of the rows sums those.
LEMMA SummaryIsSum ==
  ASSUME NEW f, NEW S, S \subseteq Keys, \A k \in S : f[k] = costRow[k].amount
  PROVE  Summary(S) = SumFunctionOnSet(f, S)
<1> DEFINE g == [k \in S |-> costRow[k].amount]
<1>1. IsFiniteSet(S)
  BY CostAssumption, FS_Product, FS_Subset DEF Keys
<1>2. \A k \in S : g[k] = f[k]
  OBVIOUS
<1>3. SumFunctionOnSet(g, S) = SumFunctionOnSet(f, S)
  <2> HIDE DEF g
  <2> QED
    BY <1>1, <1>2, SumSame
<1> QED
  BY <1>3 DEF Summary

\* Each row is counted under one name.
LEMMA BreakdownSums == ASSUME CostInd PROVE BreakdownAddsUp
<1> DEFINE name == [k \in Present |-> IF ServiceOf[k[1]] = "unknown" THEN "Uncategorized" ELSE ServiceOf[k[1]]]
           N == {name[k] : k \in Present}
           f == [k \in Present |-> costRow[k].amount]
           g == Breakdown
<1>1. IsFiniteSet(Present) /\ Present \subseteq Keys
  BY CostAssumption, FS_Product, FS_Subset DEF Keys, Present
<1>2. IsFiniteSet(N)
  BY <1>1, FiniteValues
<1>3. \A k \in Present : f[k] \in Int
  BY DEF CostInd, Amounts, Present
<1>4. \A k \in Present : name[k] \in N
  OBVIOUS
<1>5. DOMAIN g = N /\ \A s \in N : g[s] = Summary({k \in Present : name[k] = s})
  BY DEF Breakdown
<1>6. \A S \in SUBSET Present : Summary(S) = SumFunctionOnSet(f, S)
  <2> SUFFICES ASSUME NEW S \in SUBSET Present PROVE Summary(S) = SumFunctionOnSet(f, S)
    OBVIOUS
  <2>1. S \subseteq Keys /\ \A k \in S : f[k] = costRow[k].amount
    BY <1>1
  <2> HIDE DEF f
  <2> QED
    BY <2>1, SummaryIsSum
<1> HIDE DEF name, N, f, g
<1>7. \A s \in N : g[s] = SumFunctionOnSet(f, Named(Present, name, s))
  <2>1. \A s \in N : Named(Present, name, s) = {k \in Present : name[k] = s}
    BY DEF Named
  <2> QED
    BY <1>5, <1>6, <2>1
<1>8. SumFunctionOnSet(g, N) = SumFunctionOnSet(f, Present)
  BY <1>1, <1>2, <1>3, <1>4, <1>7, SumByName
<1> QED
  BY <1>5, <1>6, <1>8 DEF BreakdownAddsUp, DashboardTotal, g

\* For any connections, services, days and jobs at once: a retry skips only what its job has
\* committed or seen fail, the breakdown by service adds up to the total of the dashboard, and
\* data called final is past the window in which the provider restates it (handlers/cost.py,
\* persistence.py, aggregator.py).
THEOREM RecordsAreTrue == CostSpec => [](CostTypeOK /\ CostInv)
<1>1. CostInd => CostTypeOK
  BY DEF CostInd, CostTypeOK, Ingestion
<1>2. CostInd => CheckpointIsCommitted
  BY DEF CostInd, CheckpointIsCommitted
<1>3. CostInd => FinalIsSettled
  BY FreshnessCounts DEF CostInd, FinalIsSettled, Present
<1> QED
  BY <1>1, <1>2, <1>3, BreakdownSums, CostStart, CostStep, PTL DEF CostSpec, CostInv

-----------------------------------------------------------------------------
(***************************************************************************)
(* Cost attribution, for any rules.                                        *)
(***************************************************************************)

\* A row for nobody.
LEMMA UnallocatedRow ==
  ASSUME NEW m \in Nat
  PROVE  Unallocated(m) \in Allocation /\ Unallocated(m).bucket = "Unallocated" /\ Unallocated(m).amount = m
<1>1. Unallocated(m).bucket = "Unallocated" /\ Unallocated(m).amount = m
  BY DEF Unallocated
<1> QED
  BY <1>1 DEF Unallocated, Allocation

\* What rows give in all.
PaidOut(rows) == SumFunctionOnSet([i \in DOMAIN rows |-> rows[i].amount], DOMAIN rows)

\* One more row gives what is on it.
LEMMA PaidByOneMore ==
  ASSUME NEW rows \in Seq(Allocation), NEW row \in Allocation
  PROVE  PaidOut(Append(rows, row)) = row.amount + PaidOut(rows)
<1> DEFINE more == Append(rows, row)
           n == Len(rows) + 1
           f == [i \in DOMAIN rows |-> rows[i].amount]
           g == [i \in DOMAIN more |-> more[i].amount]
<1>1. DOMAIN rows = 1..Len(rows) /\ Len(rows) \in Nat /\ DOMAIN more = 1..n
  OBVIOUS
<1>2. DOMAIN more = DOMAIN rows \cup {n} /\ n \notin DOMAIN rows /\ IsFiniteSet(DOMAIN rows)
  <2>1. \A m \in Nat : 1..(m + 1) = 1..m \cup {m + 1} /\ m + 1 \notin 1..m
    OBVIOUS
  <2>2. \A m \in Nat : IsFiniteSet(1..m)
    BY FS_Interval
  <2> HIDE DEF more
  <2> QED
    BY <1>1, <2>1, <2>2
<1>3. more[n] = row /\ \A i \in DOMAIN rows : more[i] = rows[i]
  OBVIOUS
<1>4. g[n] = row.amount /\ \A i \in DOMAIN rows : g[i] = f[i]
  BY <1>2, <1>3
<1>5. \A i \in DOMAIN rows \cup {n} : g[i] \in Int
  <2>1. \A i \in DOMAIN rows : rows[i] \in Allocation
    OBVIOUS
  <2> QED
    BY <1>4, <2>1 DEF Allocation
<1> HIDE DEF more, n, f, g
<1>6. SumFunctionOnSet(g, DOMAIN rows \cup {n}) = g[n] + SumFunctionOnSet(g, DOMAIN rows)
  BY <1>2, <1>5, SumWith
<1>7. SumFunctionOnSet(g, DOMAIN rows) = SumFunctionOnSet(f, DOMAIN rows)
  BY <1>2, <1>4, SumSame
<1> QED
  BY <1>2, <1>4, <1>6, <1>7 DEF PaidOut, f, g, more

\* One row gives its amount.
LEMMA PaidByOne == ASSUME NEW row \in Allocation PROVE PaidOut(<<row>>) = row.amount
<1> DEFINE f == [i \in DOMAIN <<row>> |-> <<row>>[i].amount]
<1>1. DOMAIN <<row>> = {1} /\ f[1] = row.amount /\ row.amount \in Int
  BY DEF Allocation
<1> HIDE DEF f
<1>2. SumFunctionOnSet(f, {1}) = f[1]
  BY <1>1, SumOne
<1> QED
  BY <1>1, <1>2 DEF PaidOut, f

\* Rows that give c times the shares of a rule.
LEMMA PaidByShares ==
  ASSUME NEW r \in AttributionRules, NEW c \in Nat, NEW rows \in Seq(Allocation), DOMAIN rows = DOMAIN r.splits,
         \A i \in DOMAIN rows : rows[i].amount = c * r.splits[i].share
  PROVE  PaidOut(rows) = c * Shares(r)
<1> DEFINE D == DOMAIN rows
           f == [i \in D |-> r.splits[i].share]
           g == [i \in D |-> rows[i].amount]
<1>1. IsFiniteSet(D)
  <2>1. D = 1..Len(rows) /\ Len(rows) \in Nat
    OBVIOUS
  <2> QED
    BY <2>1, FS_Interval
<1>2. \A i \in D : f[i] \in Int
  <2>1. r.splits \in Seq(Portion)
    BY AttributionAssumption
  <2>2. \A i \in D : r.splits[i] \in Portion
    BY <2>1
  <2> QED
    BY <2>2 DEF Portion
<1>3. \A i \in D : g[i] = c * f[i]
  OBVIOUS
<1>4. PaidOut(rows) = SumFunctionOnSet(g, D) /\ Shares(r) = SumFunctionOnSet(f, D)
  BY DEF PaidOut, Shares
<1> HIDE DEF D, f, g
<1>5. SumFunctionOnSet(g, D) = c * SumFunctionOnSet(f, D)
  BY <1>1, <1>2, <1>3, SumTimes
<1> QED
  BY <1>4, <1>5

\* The shares of a rule add up to a number.
LEMMA SharesAreCounted == ASSUME NEW r \in AttributionRules PROVE Shares(r) \in Nat
<1> DEFINE D == DOMAIN r.splits
           f == [i \in D |-> r.splits[i].share]
<1>1. r.splits \in Seq(Portion)
  BY AttributionAssumption
<1>2. D = 1..Len(r.splits) /\ Len(r.splits) \in Nat
  BY <1>1
<1>3. \A i \in D : f[i] \in Nat
  <2>1. \A i \in D : r.splits[i] \in Portion
    BY <1>1
  <2> QED
    BY <2>1 DEF Portion
<1>4. IsFiniteSet(D)
  BY <1>2, FS_Interval
<1> HIDE DEF D, f
<1>5. SumFunctionOnSet(f, D) \in Nat
  BY <1>3, <1>4, SumNat
<1> QED
  BY <1>5 DEF Shares, D, f

\* A rule's rows: whose buckets, and what they give.
LEMMA GivenRows ==
  ASSUME NEW r \in AttributionRules, NEW cost \in Nat
  PROVE  /\ Given(r, cost) \in Seq(Allocation)
         /\ \A i \in DOMAIN Given(r, cost) : Given(r, cost)[i].bucket # "Unallocated" =>
              \E n \in DOMAIN r.splits : r.splits[n].bucket = Given(r, cost)[i].bucket
         /\ r.type # "DIRECT" => DOMAIN Given(r, cost) = DOMAIN r.splits
         /\ r.type = "PERCENTAGE" => \A i \in DOMAIN r.splits : Given(r, cost)[i].amount = cost * r.splits[i].share
         /\ r.type = "FIXED" => \A i \in DOMAIN r.splits : Given(r, cost)[i].amount = 100 * r.splits[i].share
         /\ r.type = "DIRECT" => \E row \in Allocation : Given(r, cost) = <<row>> /\ row.amount = 100 * cost
<1>1. r.splits \in Seq(Portion) /\ DOMAIN r.splits = 1..Len(r.splits) /\ Len(r.splits) \in Nat
  BY AttributionAssumption
<1>2. \A i \in DOMAIN r.splits : r.splits[i] \in Portion
  BY <1>1
<1>3. \A i \in DOMAIN r.splits : r.splits[i].bucket \in Buckets /\ r.splits[i].share \in Nat
  BY <1>2 DEF Portion
<1>4. \A m, n \in Nat : m * n \in Nat
  OBVIOUS
<1>5. CASE r.type = "DIRECT"
  <2>1. PICK row \in Allocation : /\ Given(r, cost) = <<row>> /\ row.amount = 100 * cost
                                  /\ row.bucket # "Unallocated" => r.splits # <<>> /\ row.bucket = r.splits[1].bucket
    <3>1. CASE r.splits = <<>>
      <4>1. 100 * cost \in Nat
        BY <1>4
      <4>2. Given(r, cost) = <<Unallocated(100 * cost)>>
        BY <3>1, <1>5 DEF Given
      <4> QED
        BY <4>1, <4>2, UnallocatedRow
    <3>2. CASE r.splits # <<>>
      <4> DEFINE row == [bucket |-> r.splits[1].bucket, amount |-> 100 * cost]
      <4>1. 1 \in DOMAIN r.splits
        BY <1>1, <3>2
      <4>2. row \in Allocation
        BY <4>1, <1>3, <1>4 DEF Allocation
      <4>3. Given(r, cost) = <<row>>
        BY <3>2, <1>5 DEF Given
      <4> QED
        BY <4>2, <4>3, <3>2
    <3> QED
      BY <3>1, <3>2
  <2>2. r.splits # <<>> => 1 \in DOMAIN r.splits
    BY <1>1
  <2>3. <<row>> \in Seq(Allocation) /\ DOMAIN <<row>> = {1} /\ <<row>>[1] = row
    OBVIOUS
  <2> QED
    BY <1>5, <2>1, <2>2, <2>3
<1>6. ASSUME NEW c \in Nat, NEW rows,
             rows = [i \in DOMAIN r.splits |-> [bucket |-> r.splits[i].bucket, amount |-> c * r.splits[i].share]]
      PROVE  rows \in Seq(Allocation)
  <2>1. \A i \in DOMAIN r.splits : rows[i] \in Allocation
    BY <1>3, <1>4, <1>6 DEF Allocation
  <2>2. rows \in [1..Len(r.splits) -> Allocation]
    BY <2>1, <1>1, <1>6
  <2> QED
    BY <2>2, <1>1
<1>7. CASE r.type = "PERCENTAGE"
  <2>1. Given(r, cost) = [i \in DOMAIN r.splits |-> [bucket |-> r.splits[i].bucket, amount |-> cost * r.splits[i].share]]
    BY <1>7 DEF Given
  <2>2. Given(r, cost) \in Seq(Allocation)
    BY <2>1, <1>6
  <2> QED
    BY <1>7, <2>1, <2>2
<1>8. CASE r.type = "FIXED"
  <2>1. Given(r, cost) = [i \in DOMAIN r.splits |-> [bucket |-> r.splits[i].bucket, amount |-> 100 * r.splits[i].share]]
    BY <1>8 DEF Given
  <2>2. Given(r, cost) \in Seq(Allocation)
    BY <2>1, <1>6
  <2> QED
    BY <1>8, <2>1, <2>2
<1> QED
  BY <1>5, <1>7, <1>8, AttributionAssumption

\* With what is left, they are rows still, and a well-formed rule gives the whole cost.
LEMMA SplitRows ==
  ASSUME NEW r \in AttributionRules, NEW cost \in Nat
  PROVE  /\ Split(r, cost) \in Seq(Allocation)
         /\ \A i \in DOMAIN Split(r, cost) : Split(r, cost)[i].bucket # "Unallocated" =>
              \E n \in DOMAIN r.splits : r.splits[n].bucket = Split(r, cost)[i].bucket
         /\ WellFormed(r, cost) => PaidOut(Split(r, cost)) = 100 * cost
<1> DEFINE given == Given(r, cost)
           rest == Unallocated(100 * (cost - Shares(r)))
           more == Append(given, rest)
<1>1. PICK n \in Nat : n = Shares(r)
  BY SharesAreCounted
<1>2. CASE r.type = "FIXED" /\ Shares(r) < cost
  <2>1. Split(r, cost) = more
    BY <1>2 DEF Split
  <2>2. PICK m \in Nat : m = 100 * (cost - Shares(r))
    BY <1>1, <1>2
  <2>3. rest \in Allocation /\ rest.bucket = "Unallocated" /\ rest.amount = m
    BY <2>2, UnallocatedRow
  <2>4. given \in Seq(Allocation)
    BY GivenRows
  <2>10. \A i \in DOMAIN given : given[i].bucket # "Unallocated" =>
           \E k \in DOMAIN r.splits : r.splits[k].bucket = given[i].bucket
    BY GivenRows
  <2> HIDE DEF given, rest
  <2>5. /\ more \in Seq(Allocation)
        /\ \A i \in DOMAIN more : (i \in DOMAIN given /\ more[i] = given[i]) \/ more[i] = rest
    BY <2>3, <2>4
  <2>6. \A i \in DOMAIN more : more[i].bucket # "Unallocated" =>
              \E k \in DOMAIN r.splits : r.splits[k].bucket = more[i].bucket
    BY <2>3, <2>5, <2>10
  <2>7. PaidOut(more) = m + PaidOut(given)
    BY <2>3, <2>4, PaidByOneMore
  <2>8. PaidOut(given) = 100 * Shares(r)
    BY <1>2, <2>4, GivenRows, PaidByShares DEF given
  <2>9. m + 100 * n = 100 * cost
    BY <1>1, <2>2
  <2> QED
    BY <1>1, <2>1, <2>5, <2>6, <2>7, <2>8, <2>9
<1>3. CASE ~(r.type = "FIXED" /\ Shares(r) < cost)
  <2>1. Split(r, cost) = given
    BY <1>3 DEF Split
  <2>2. ASSUME WellFormed(r, cost) PROVE PaidOut(given) = 100 * cost
    <3>1. CASE r.type = "DIRECT"
      <4>1. PICK row \in Allocation : given = <<row>> /\ row.amount = 100 * cost
        BY <3>1, GivenRows
      <4> HIDE DEF given
      <4> QED
        BY <4>1, PaidByOne
    <3>2. CASE r.type = "PERCENTAGE"
      <4>1. Shares(r) = 100
        BY <2>2, <3>2 DEF WellFormed
      <4>2. /\ given \in Seq(Allocation) /\ DOMAIN given = DOMAIN r.splits
            /\ \A i \in DOMAIN given : given[i].amount = cost * r.splits[i].share
        BY <3>2, GivenRows
      <4> HIDE DEF given
      <4>4. PaidOut(given) = cost * Shares(r)
        BY <4>2, PaidByShares
      <4>3. cost * 100 = 100 * cost
        OBVIOUS
      <4> QED
        BY <4>1, <4>3, <4>4
    <3>3. CASE r.type = "FIXED"
      <4>1. Shares(r) = cost
        <5>1. Shares(r) <= cost /\ ~(Shares(r) < cost)
          BY <2>2, <3>3, <1>3 DEF WellFormed
        <5> QED
          BY <1>1, <5>1
      <4>2. /\ given \in Seq(Allocation) /\ DOMAIN given = DOMAIN r.splits
            /\ \A i \in DOMAIN given : given[i].amount = 100 * r.splits[i].share
        BY <3>3, GivenRows
      <4> HIDE DEF given
      <4>3. PaidOut(given) = 100 * Shares(r)
        BY <4>2, PaidByShares
      <4> QED
        BY <4>1, <4>3
    <3> QED
      BY <3>1, <3>2, <3>3, AttributionAssumption
  <2>3. given \in Seq(Allocation)
    BY GivenRows
  <2>4. \A i \in DOMAIN given : given[i].bucket # "Unallocated" =>
          \E k \in DOMAIN r.splits : r.splits[k].bucket = given[i].bucket
    BY GivenRows
  <2> HIDE DEF given
  <2> QED
    BY <2>1, <2>2, <2>3, <2>4
<1> QED
  BY <1>2, <1>3

\* Whatever the rules, the rows of a record are those of a first match, or one that gives all
\* to nobody.
LEMMA AppliedRows ==
  ASSUME NEW rules \in SUBSET AttributionRules, NEW record, record.cost \in Nat, NEW new \in Applied(rules, record)
  PROVE  /\ new \in Seq(Allocation)
         /\ \A i \in DOMAIN new : new[i].bucket # "Unallocated" =>
              \E r \in FirstMatch(rules, record) : \E n \in DOMAIN r.splits : r.splits[n].bucket = new[i].bucket
         /\ (\A r \in rules : WellFormed(r, record.cost)) => PaidOut(new) = 100 * record.cost
<1> DEFINE row == Unallocated(100 * record.cost)
<1>1. CASE new = <<row>>
  <2>1. row \in Allocation /\ row.bucket = "Unallocated" /\ row.amount = 100 * record.cost
    <3>1. 100 * record.cost \in Nat
      OBVIOUS
    <3> QED
      BY <3>1, UnallocatedRow
  <2> HIDE DEF row
  <2>2. new \in Seq(Allocation) /\ \A i \in DOMAIN new : new[i] = row
    BY <1>1, <2>1
  <2>3. PaidOut(new) = 100 * record.cost
    BY <1>1, <2>1, PaidByOne
  <2> QED
    BY <2>1, <2>2, <2>3
<1>2. CASE new # <<row>>
  <2>1. PICK r \in FirstMatch(rules, record) : new = Split(r, record.cost)
    BY <1>2 DEF Applied
  <2>2. r \in rules /\ r \in AttributionRules
    BY <2>1 DEF FirstMatch
  <2> QED
    BY <2>1, <2>2, SplitRows
<1> QED
  BY <1>1, <1>2

\* The inductive invariant is the property with its types.
AttributionInd == AttributionTypeOK /\ AttributionInv

\* Every run of the engine leaves the rows it should.
LEMMA AttributionStep == ASSUME AttributionInd, [AttributionNext]_attributionVars PROVE AttributionInd'
<1>1. CASE UNCHANGED attributionVars
  BY <1>1 DEF attributionVars, AttributionInd, AttributionTypeOK, AttributionInv, AllocationsAddUp, Allocated,
              FirstRuleWins
<1>2. ASSUME NEW rules \in SUBSET AttributionRules, Reallocate(rules) PROVE AttributionInd'
  <2>1. applied' = rules /\ costed' = costed /\ allocations' \in Applied(rules, costed)
    BY <1>2 DEF Reallocate
  <2>2. costed.cost \in Nat /\ costed \in [cost : RecordCosts, service : RecordServices]
    BY AttributionAssumption DEF AttributionInd, AttributionTypeOK
  <2>3. /\ allocations' \in Seq(Allocation)
        /\ \A i \in DOMAIN allocations' : allocations'[i].bucket # "Unallocated" =>
              \E r \in FirstMatch(rules, costed) : \E n \in DOMAIN r.splits : r.splits[n].bucket = allocations'[i].bucket
        /\ (\A r \in rules : WellFormed(r, costed.cost)) => PaidOut(allocations') = 100 * costed.cost
    BY <2>1, <2>2, AppliedRows
  <2>4. AttributionTypeOK'
    BY <2>1, <2>2, <2>3 DEF AttributionTypeOK
  <2>5. AllocationsAddUp'
    BY <2>1, <2>3 DEF AllocationsAddUp, Allocated, PaidOut
  <2>6. FirstRuleWins'
    BY <2>1, <2>3 DEF FirstRuleWins, FirstMatch, Matches
  <2> QED
    BY <2>4, <2>5, <2>6 DEF AttributionInd, AttributionInv
<1> QED
  BY <1>1, <1>2 DEF AttributionNext

\* For any rules and costs, and any changes of the rules: the allocations of a record add up to
\* its cost when its rules are well formed, to the last hundredth, and are those of the first
\* rule that matches (attribution_engine.py).
THEOREM AllocationsAreTrue == AttributionSpec => [](AttributionTypeOK /\ AttributionInv)
<1>1. AttributionInit => AttributionInd
  BY DEF AttributionInit, AttributionInd, AttributionTypeOK, AttributionInv, AllocationsAddUp, FirstRuleWins
<1> QED
  BY <1>1, AttributionStep, PTL DEF AttributionSpec, AttributionInd

-----------------------------------------------------------------------------
(***************************************************************************)
(* Delta analysis, for any resources, bills and periods.                   *)
(***************************************************************************)

\* s ranks S by key, largest first.
Ranks(s, S, key) ==
  /\ s \in [1..Cardinality(S) -> S] /\ Range(s) = S
  /\ \A i, j \in 1..Cardinality(S) : i < j => key[s[i]] >= key[s[j]]

\* In a set that is not empty some key is the smallest.
LEMMA SmallestKey ==
  ASSUME NEW S, IsFiniteSet(S), S # {}, NEW key, \A x \in S : key[x] \in Int
  PROVE  \E m \in S : \A x \in S : key[m] <= key[x]
<1> DEFINE P == {T \in SUBSET S : T # {} => \E m \in T : \A x \in T : key[m] <= key[x]}
<1>1. {} \in P
  OBVIOUS
<1>2. ASSUME NEW T \in P, NEW y \in S \ T PROVE T \cup {y} \in P
  <2>1. CASE T = {}
    <3>1. key[y] <= key[y]
      OBVIOUS
    <3> QED
      BY <3>1, <2>1
  <2>2. CASE T # {}
    <3>1. PICK m \in T : \A x \in T : key[m] <= key[x]
      BY <2>2
    <3>2. CASE key[m] <= key[y]
      BY <3>1, <3>2
    <3>3. CASE ~(key[m] <= key[y])
      <4>1. \A x \in T : key[x] \in Int /\ key[y] \in Int /\ key[m] \in Int
        BY <3>1
      <4>2. \A x \in T \cup {y} : key[y] <= key[x]
        BY <3>1, <3>3, <4>1
      <4> QED
        BY <4>2
    <3> QED
      BY <3>2, <3>3
  <2> QED
    BY <2>1, <2>2
<1>3. S \in P
  <2> HIDE DEF P
  <2> QED
    BY <1>1, <1>2, SetInduction
<1> QED
  BY <1>3

\* Every finite set can be ranked: the one with the smallest key is put last.
LEMMA RankingExists ==
  ASSUME NEW S, IsFiniteSet(S), NEW key, \A x \in S : key[x] \in Int
  PROVE  \E s : Ranks(s, S, key)
<1> SUFFICES ASSUME ~\E s : Ranks(s, S, key) PROVE FALSE
  OBVIOUS
<1> DEFINE Q == {T \in SUBSET S : ~\E s : Ranks(s, T, key)}
<1>1. PICK T \in Q : \A U \in Q : U \subseteq T => U = T
  <2>1. Q \subseteq SUBSET S /\ S \in Q
    OBVIOUS
  <2> HIDE DEF Q
  <2> QED
    BY <2>1, SmallestSet
<1>2. T # {}
  <2>1. Ranks(<<>>, {}, key)
    BY FS_EmptySet DEF Ranks, Range
  <2> QED
    BY <2>1, <1>1
<1>3. IsFiniteSet(T) /\ \A x \in T : key[x] \in Int
  BY <1>1, FS_Subset
<1>4. PICK m \in T : \A x \in T : key[m] <= key[x]
  BY <1>2, <1>3, SmallestKey
<1>5. PICK s : Ranks(s, T \ {m}, key)
  BY <1>1, <1>4
<1>6. PICK n \in Nat : n = Cardinality(T \ {m})
  BY <1>3, FS_Subset, FS_CardinalityType
<1>7. Cardinality(T) = n + 1
  <2>1. PICK t \in Nat : t = Cardinality(T)
    BY <1>3, FS_CardinalityType
  <2>2. Cardinality(T \ {m}) = Cardinality(T) - 1
    BY <1>3, <1>4, FS_RemoveElement
  <2> QED
    BY <2>1, <2>2, <1>6
<1> DEFINE w == [i \in 1..(n + 1) |-> IF i = n + 1 THEN m ELSE s[i]]
<1>8. s \in [1..n -> T \ {m}] /\ Range(s) = T \ {m}
  BY <1>5, <1>6 DEF Ranks
<1>9. 1..(n + 1) = 1..n \cup {n + 1} /\ n + 1 \notin 1..n
  OBVIOUS
<1>10. w \in [1..(n + 1) -> T]
  BY <1>4, <1>8, <1>9
<1>11. Range(w) = T
  <2>1. \A i \in 1..n : w[i] = s[i]
    BY <1>9
  <2>2. w[n + 1] = m
    BY <1>9
  <2>3. T \ {m} = {s[i] : i \in 1..n}
    BY <1>8 DEF Range
  <2>4. Range(w) = {w[i] : i \in 1..(n + 1)}
    BY DEF Range
  <2> HIDE DEF w
  <2> QED
    BY <2>1, <2>2, <2>3, <2>4, <1>9, <1>4
<1>12. ASSUME NEW i \in 1..(n + 1), NEW j \in 1..(n + 1), i < j PROVE key[w[i]] >= key[w[j]]
  <2>1. i \in 1..n /\ w[i] = s[i]
    BY <1>12
  <2>2. CASE j = n + 1
    <3>1. w[j] = m /\ w[i] \in T
      BY <2>1, <2>2, <1>10
    <3> HIDE DEF w
    <3> QED
      BY <3>1, <1>3, <1>4
  <2>3. CASE j # n + 1
    <3>1. j \in 1..n /\ w[j] = s[j]
      BY <2>3
    <3>2. key[s[i]] >= key[s[j]]
      BY <2>1, <3>1, <1>12, <1>5, <1>6 DEF Ranks
    <3> QED
      BY <2>1, <3>1, <3>2
  <2> QED
    BY <2>2, <2>3
<1>13. Ranks(w, T, key)
  <2> HIDE DEF w
  <2> QED
    BY <1>7, <1>10, <1>11, <1>12 DEF Ranks
<1> QED
  BY <1>1, <1>13

\* What is cut off a ranking is no more than what is kept.
LEMMA TopLeads ==
  ASSUME NEW S, IsFiniteSet(S), NEW key, \A x \in S : key[x] \in Int
  PROVE  /\ \A i \in DOMAIN Top(S, key) : Top(S, key)[i] \in S
         /\ \A x \in S \ Range(Top(S, key)) : \A i \in DOMAIN Top(S, key) : key[x] <= key[Top(S, key)[i]]
<1> DEFINE s == Ranked(S, key)
           t == Top(S, key)
<1>1. PICK n \in Nat : n = Cardinality(S)
  BY FS_CardinalityType
<1>2. Ranks(s, S, key)
  <2>1. PICK r : Ranks(r, S, key)
    BY RankingExists
  <2> QED
    BY <2>1 DEF Ranks, Ranked
<1>3. s \in [1..n -> S] /\ Range(s) = S
  BY <1>1, <1>2 DEF Ranks
<1>4. \A i, j \in 1..n : i < j => key[s[i]] >= key[s[j]]
  BY <1>1, <1>2 DEF Ranks
<1> HIDE DEF s
<1>5. PICK k \in 0..n : t = SubSeq(s, 1, k)
  <2>1. t = SubSeq(s, 1, IF n < TopMovers THEN n ELSE TopMovers)
    BY <1>1 DEF Top, s
  <2>2. (IF n < TopMovers THEN n ELSE TopMovers) \in 0..n
    BY DeltaAssumption
  <2> HIDE DEF t
  <2> QED
    BY <2>1, <2>2
<1>6. DOMAIN t = 1..k /\ \A i \in 1..k : t[i] = s[i]
  <2>1. s \in Seq(S) /\ Len(s) = n
    BY <1>3
  <2> HIDE DEF t
  <2> QED
    BY <1>5, <2>1
<1> HIDE DEF t
<1>7. ASSUME NEW x \in S \ Range(t), NEW i \in DOMAIN t PROVE key[x] <= key[t[i]]
  <2>1. PICK j \in 1..n : s[j] = x
    BY <1>3 DEF Range
  <2>2. j \notin 1..k
    BY <2>1, <1>6, <1>7 DEF Range
  <2>3. i \in 1..n /\ i < j /\ t[i] = s[i]
    BY <2>1, <2>2, <1>6, <1>7
  <2>4. key[s[i]] >= key[s[j]] /\ key[s[i]] \in Int /\ key[s[j]] \in Int
    BY <2>1, <2>3, <1>3, <1>4
  <2> QED
    BY <2>1, <2>3, <2>4
<1>8. \A i \in DOMAIN t : t[i] \in S
  BY <1>3, <1>6
<1> QED
  BY <1>7, <1>8 DEF t

\* The names of the bills, and what they say of a resource.
LEMMA BillsAreFinite ==
  ASSUME NEW spell \in Periods
  PROVE  /\ IsFiniteSet(Billed(spell)) /\ Billed(spell) \subseteq Resources
         /\ \A r \in Resources :
              /\ IsFiniteSet(BilledOn(spell, r))
              /\ \A d \in BilledOn(spell, r) : spell[r][d] \in Nat /\ d \in 1..DaysCompared
                                           /\ spell[r][d] \in DayBills \ {NotBilled}
<1>1. IsFiniteSet(Billed(spell)) /\ Billed(spell) \subseteq Resources
  BY DeltaAssumption, FS_Subset DEF Billed
<1>2. ASSUME NEW r \in Resources
      PROVE  /\ IsFiniteSet(BilledOn(spell, r))
             /\ \A d \in BilledOn(spell, r) : spell[r][d] \in Nat /\ d \in 1..DaysCompared
                                          /\ spell[r][d] \in DayBills \ {NotBilled}
  <2>1. IsFiniteSet(1..DaysCompared)
    BY DeltaAssumption, FS_Interval
  <2>2. BilledOn(spell, r) \subseteq 1..DaysCompared
    BY DEF BilledOn
  <2>3. spell[r] \in [1..DaysCompared -> DayBills]
    BY DEF Periods
  <2>4. \A d \in BilledOn(spell, r) : spell[r][d] \in DayBills \ {NotBilled}
    BY <2>3 DEF BilledOn
  <2> QED
    BY <2>1, <2>2, <2>4, FS_Subset, DeltaAssumption
<1> QED
  BY <1>1, <1>2

\* A total is a natural.
LEMMA TotalsAreNaturals ==
  ASSUME NEW spell \in Periods, NEW r \in Resources
  PROVE  Total(spell, r) \in Nat
  BY BillsAreFinite, SumNat DEF Total

\* So is a daily cost, of what is billed.
LEMMA DailyIsNatural ==
  ASSUME NEW spell \in Periods, NEW r \in Billed(spell)
  PROVE  Daily(spell, r) \in Int
<1>1. r \in Resources /\ IsFiniteSet(BilledOn(spell, r)) /\ BilledOn(spell, r) # {}
  BY BillsAreFinite DEF Billed
<1>2. PICK n \in Nat : n = Cardinality(BilledOn(spell, r))
  BY <1>1, FS_CardinalityType
<1>3. n > 0
  BY <1>1, <1>2, FS_EmptySet
<1>4. PICK t \in Nat : t = Total(spell, r)
  BY <1>1, TotalsAreNaturals
<1>5. t \div n \in Int
  BY <1>3
<1> QED
  BY <1>2, <1>4, <1>5 DEF Daily

\* A resource that is billed every day costs its daily cost times the days.
LEMMA DailyTimesDays ==
  ASSUME NEW spell \in Periods, NEW r \in Billed(spell), BilledOn(spell, r) = 1..DaysCompared
  PROVE  Total(spell, r) = DaysCompared * Daily(spell, r)
<1> DEFINE n == DaysCompared
           D == 1..n
           f == spell[r]
           g == [d \in D |-> f[d] \div n]
<1>1. n \in Nat /\ n > 0 /\ n \in 1..n /\ IsFiniteSet(D) /\ r \in Resources
  BY DeltaAssumption, FS_Interval DEF Billed
<1>2. Cardinality(D) = n
  BY <1>1, FS_Interval
<1>3. \A d \in D : f[d] \in Nat /\ f[d] % n = 0
  BY <1>1, BillsAreFinite, DeltaAssumption
<1>4. \A d \in D : g[d] \in Int /\ f[d] = n * g[d]
  <2>1. ASSUME NEW m \in Nat, m % n = 0 PROVE m \div n \in Int /\ m = n * (m \div n)
    BY <1>1, <2>1
  <2> QED
    BY <1>3, <2>1
<1>5. Total(spell, r) = SumFunctionOnSet(f, D)
  BY DEF Total
<1>6. Daily(spell, r) = Total(spell, r) \div n
  BY <1>2 DEF Daily
<1> HIDE DEF f, g, D, n
<1>7. SumFunctionOnSet(f, D) = n * SumFunctionOnSet(g, D)
  <2>1. IsFiniteSet(D) /\ n \in Int
    BY <1>1
  <2>2. \A d \in D : g[d] \in Int
    BY <1>4
  <2>3. \A d \in D : f[d] = n * g[d]
    BY <1>4
  <2> QED
    BY ONLY <2>1, <2>2, <2>3, SumTimes
<1>8. PICK q \in Int : q = SumFunctionOnSet(g, D)
  BY <1>1, <1>4, SumInt
<1>9. (n * q) \div n = q
  <2>1. PICK p \in Int : p = n * q
    BY <1>1
  <2>2. PICK k \in Int : k = p \div n
    BY <1>1
  <2>3. p \div n = q <=> k = q
    BY <2>2
  <2>4. n * k <= p /\ p < n * k + n
    BY <1>1, <2>2
  <2>5. ASSUME NEW i \in Int, NEW j \in Int, i < j PROVE n * i + n <= n * j
    <3>1. PICK e \in Nat : j = i + 1 + e
      BY <2>5
    <3>2. n * j = n * i + n + n * e /\ n * e >= 0
      BY <1>1, <3>1
    <3> QED
      BY <1>1, <3>2
  <2>6. ~(k < q) /\ ~(q < k)
    BY <1>1, <2>1, <2>4, <2>5
  <2> QED
    BY <2>1, <2>3, <2>6
<1> QED
  BY <1>5, <1>6, <1>7, <1>8, <1>9 DEF n

\* What is not billed costs nothing.
LEMMA UnbilledIsNothing ==
  ASSUME NEW spell \in Periods, NEW r \in Resources \ Billed(spell)
  PROVE  Total(spell, r) = 0
<1>1. BilledOn(spell, r) = {}
  BY DEF Billed
<1> QED
  BY <1>1, SumEmpty DEF Total

\* When what is billed is billed every day, the spend of a period is its total by day times
\* the days.
LEMMA SpendIsDaily ==
  ASSUME NEW spell \in Periods, Regular(spell)
  PROVE  TotalDaily(spell) \in Int /\ SpendOf(spell) = DaysCompared * TotalDaily(spell)
<1> DEFINE B == Billed(spell)
           C == Resources \ Billed(spell)
           f == [r \in Resources |-> Total(spell, r)]
           g == [r \in B |-> Daily(spell, r)]
<1>1. IsFiniteSet(B) /\ IsFiniteSet(C) /\ B \cap C = {} /\ B \cup C = Resources
  BY BillsAreFinite, DeltaAssumption, FS_Difference
<1>2. \A r \in Resources : f[r] \in Int
  BY TotalsAreNaturals
<1>3. \A r \in C : f[r] = 0 * f[r]
  BY UnbilledIsNothing
<1>4. \A r \in B : g[r] \in Int /\ f[r] = DaysCompared * g[r]
  <2> SUFFICES ASSUME NEW r \in B PROVE g[r] \in Int /\ f[r] = DaysCompared * g[r]
    OBVIOUS
  <2>1. BilledOn(spell, r) = 1..DaysCompared /\ r \in Resources
    BY DEF Regular, Billed
  <2> QED
    BY <2>1, DailyIsNatural, DailyTimesDays
<1>5. DaysCompared \in Int
  BY DeltaAssumption
<1>6. SpendOf(spell) = SumFunctionOnSet(f, Resources) /\ TotalDaily(spell) = SumFunctionOnSet(g, B)
  BY DEF SpendOf, TotalDaily
<1> HIDE DEF B, C, f, g
<1>7. SumFunctionOnSet(f, B \cup C) = SumFunctionOnSet(f, B) + SumFunctionOnSet(f, C)
  BY <1>1, <1>2, SumDisjoint
<1>8. SumFunctionOnSet(f, C) = 0
  <2>1. \A r \in C : f[r] \in Int
    BY <1>1, <1>2
  <2>2. SumFunctionOnSet(f, C) = 0 * SumFunctionOnSet(f, C)
    BY <1>1, <1>3, <2>1, SumTimes
  <2>3. SumFunctionOnSet(f, C) \in Int
    BY <1>1, <2>1, SumInt
  <2> QED
    BY <2>2, <2>3
<1>9. SumFunctionOnSet(f, B) = DaysCompared * SumFunctionOnSet(g, B)
  BY <1>1, <1>4, <1>5, SumTimes
<1>10. PICK q \in Int : q = SumFunctionOnSet(g, B)
  BY <1>1, <1>4, SumInt
<1>11. DaysCompared * q + 0 = DaysCompared * q
  BY <1>5
<1> QED
  BY <1>1, <1>6, <1>7, <1>8, <1>9, <1>10, <1>11

\* Both periods are compared on equal terms.
LEMMA FactorsCancel ==
  ASSUME NEW n \in Nat \ {0}, NEW a \in Int, NEW b \in Int, n * b > 0,
         ~(b > 0 /\ 100 * Magnitude(a - b) >= 15 * b)
  PROVE  100 * Magnitude(n * a - n * b) < 15 * (n * b)
<1>1. b > 0
  OBVIOUS
<1>2. PICK c \in Int : c = a - b
  OBVIOUS
<1>3. n * a - n * b = n * c
  BY <1>2
<1>4. PICK m \in Nat : m = Magnitude(c)
  BY DEF Magnitude
<1>5. Magnitude(n * c) = n * m
  <2>1. CASE c < 0
    <3>1. n * c < 0 /\ -(n * c) = n * (-c)
      BY <2>1
    <3> QED
      BY <3>1, <2>1, <1>4 DEF Magnitude
  <2>2. CASE ~(c < 0)
    <3>1. ~(n * c < 0)
      BY <2>2
    <3> QED
      BY <3>1, <2>2, <1>4 DEF Magnitude
  <2> QED
    BY <2>1, <2>2
<1>6. 100 * m < 15 * b
  BY <1>1, <1>2, <1>4
<1>7. n * (100 * m) < n * (15 * b)
  BY <1>6
<1>8. n * (100 * m) = 100 * (n * m) /\ n * (15 * b) = 15 * (n * b)
  OBVIOUS
<1> QED
  BY <1>3, <1>5, <1>7, <1>8

\* Two bills of the periods are compared.
DeltaInd == compared.before \in Periods /\ compared.after \in Periods

\* What is said of them holds of any two bills.
LEMMA DeltasAreTrue == ASSUME DeltaInd PROVE DeltaInv
<1>1. TopMoversLead
  <2> DEFINE key == [r \in Increases |-> Change(r)]
  <2>1. IsFiniteSet(Deltas)
    <3>1. Deltas \subseteq Resources
      BY DEF Deltas, Billed
    <3> QED
      BY <3>1, DeltaAssumption, FS_Subset
  <2>2. \A r \in Deltas : Change(r) \in Int
    <3> SUFFICES ASSUME NEW r \in Deltas PROVE Change(r) \in Int
      OBVIOUS
    <3>1. Daily(compared.after, r) \in Int /\ Daily(compared.before, r) \in Int
      BY DailyIsNatural DEF Deltas, DeltaInd
    <3> QED
      BY <3>1 DEF Change
  <2>3. IsFiniteSet(Increases) /\ \A r \in Increases : key[r] \in Int /\ key[r] = Change(r) /\ Change(r) > 0
    BY <2>1, <2>2, FS_Subset DEF Increases
  <2>4. TopIncreases = Top(Increases, key)
    BY DEF TopIncreases
  <2> HIDE DEF key
  <2>5. /\ \A i \in DOMAIN TopIncreases : TopIncreases[i] \in Increases
        /\ \A r \in Increases \ Range(TopIncreases) : \A i \in DOMAIN TopIncreases : key[r] <= key[TopIncreases[i]]
    BY <2>3, <2>4, TopLeads
  <2>6. ASSUME NEW r \in Deltas, NEW i \in DOMAIN TopIncreases, r \notin Range(TopIncreases)
        PROVE  Change(r) <= Change(TopIncreases[i])
    <3>1. CASE r \in Increases
      BY <3>1, <2>3, <2>5, <2>6
    <3>2. CASE r \notin Increases
      <4>1. Change(r) \in Int /\ ~(Change(r) > 0)
        BY <3>2, <2>2 DEF Increases
      <4>2. Change(TopIncreases[i]) \in Int /\ Change(TopIncreases[i]) > 0
        BY <2>3, <2>5
      <4> QED
        BY <4>1, <4>2
    <3> QED
      BY <3>1, <3>2
  <2> QED
    BY <2>6 DEF TopMoversLead
<1>2. PassedOverIsSmall
  <2> SUFFICES ASSUME Regular(compared.before), Regular(compared.after), SpendOf(compared.before) > 0, ~WorthAnalyzing
               PROVE  100 * Magnitude(SpendOf(compared.after) - SpendOf(compared.before)) < 15 * SpendOf(compared.before)
    BY DEF PassedOverIsSmall
  <2>1. PICK a \in Int : a = TotalDaily(compared.after) /\ SpendOf(compared.after) = DaysCompared * a
    BY SpendIsDaily DEF DeltaInd
  <2>2. PICK b \in Int : b = TotalDaily(compared.before) /\ SpendOf(compared.before) = DaysCompared * b
    BY SpendIsDaily DEF DeltaInd
  <2>3. ~(b > 0 /\ 100 * Magnitude(a - b) >= 15 * b)
    BY <2>1, <2>2 DEF WorthAnalyzing, TotalMoved
  <2>4. DaysCompared \in Nat \ {0} /\ DaysCompared * b > 0
    BY <2>2, DeltaAssumption
  <2>5. 100 * Magnitude(DaysCompared * a - DaysCompared * b) < 15 * (DaysCompared * b)
    BY <2>3, <2>4, FactorsCancel
  <2> QED
    BY <2>1, <2>2, <2>5
<1> QED
  BY <1>1, <1>2 DEF DeltaInv

\* For any resources, bills and number of days: what the list of the top movers leaves out grew
\* no more than what it names, and a period is only passed over when its spend is within
\* 15 percent of the one before (delta_analysis.py).
THEOREM LargeChangesAreSent == DeltaSpec => []DeltaInv
<1>1. Nothing \in Periods
  BY DeltaAssumption DEF Nothing, Periods
<1>2. DeltaInit => DeltaInd
  BY <1>1 DEF DeltaInit, DeltaInd
<1>3. DeltaInd /\ [DeltaNext]_deltaVars => DeltaInd'
  BY DEF DeltaInd, DeltaNext, deltaVars
<1> QED
  BY <1>2, <1>3, DeltasAreTrue, PTL DEF DeltaSpec
==============================================================================
