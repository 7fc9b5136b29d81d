---------------------------- MODULE SumTheorems ----------------------------
(***************************************************************************)
(* What SumFunctionOnSet of the community modules computes over a finite   *)
(* set.  The models state with it what amounts come to together: the       *)
(* money in all accounts, the entries of a ledger, the orders of a budget. *)
(*                                                                         *)
(* Induction is over the subsets of a finite set, stated with the set of   *)
(* those subsets for which the claim holds.                                *)
(***************************************************************************)
EXTENDS Integers, FiniteSets, Functions, FiniteSetTheorems, TLAPS

Some(T) == CHOOSE x \in T : TRUE

Rest(T) == T \ {Some(T)}

\* g adds up f over each of the sets in D.
Adds(g, f, D) == g = [T \in D |-> IF T = {} THEN 0 ELSE f[Some(T)] + g[Rest(T)]]

LEMMA SubsetInduction ==
    ASSUME NEW S, IsFiniteSet(S), NEW Good,
           \A T \in SUBSET S : (\A x \in T : T \ {x} \in Good) => T \in Good
    PROVE  \A T \in SUBSET S : T \in Good
<1> DEFINE Bad == {T \in SUBSET S : T \notin Good}
<1> SUFFICES ASSUME Bad # {} PROVE FALSE
  OBVIOUS
<1>1. IsWellFoundedOn(StrictSubsetOrdering(S), SUBSET S)
  <2>1. IsWellFoundedOn(StrictSubsetOrdering(S), FiniteSubsetsOf(S))
    BY FS_StrictSubsetOrderingWellFounded
  <2>2. FiniteSubsetsOf(S) = SUBSET S
    BY FS_FiniteSubsetsOfFinite, Zenon
  <2> QED BY <2>1, <2>2
<1>2. Bad \subseteq SUBSET S
  OBVIOUS
<1> HIDE DEF Bad
<1>3. PICK T \in Bad : \A U \in Bad : <<U, T>> \notin StrictSubsetOrdering(S)
  BY <1>1, <1>2, WFMin
<1>4. ASSUME NEW x \in T PROVE T \ {x} \in Good
  <2> DEFINE U == T \ {x}
  <2>1. U \in SUBSET S /\ T \in SUBSET S /\ U \subseteq T /\ U # T
    BY <1>2
  <2> HIDE DEF U
  <2>2. <<U, T>> \in StrictSubsetOrdering(S)
    BY <2>1 DEF StrictSubsetOrdering
  <2>3. U \notin Bad
    BY <1>3, <2>2
  <2>4. U \in Good
    BY <2>1, <2>3 DEF Bad
  <2> QED BY <2>4 DEF U
<1>5. T \in Good
  BY <1>2, <1>4
<1> QED BY <1>5 DEF Bad

LEMMA SomeRest ==
    ASSUME NEW T, T # {}
    PROVE  Some(T) \in T /\ Rest(T) \subseteq T /\ Rest(T) # T
BY DEF Some, Rest

\* Two functions that add up f agree.
LEMMA AddsAgree ==
    ASSUME NEW S, IsFiniteSet(S), NEW f, NEW g, NEW h, NEW D, NEW E,
           Adds(g, f, D), Adds(h, f, E), SUBSET S \subseteq D, SUBSET S \subseteq E
    PROVE  g[S] = h[S]
<1> DEFINE Good == {T \in SUBSET S : g[T] = h[T]}
<1>1. ASSUME NEW T \in SUBSET S, \A x \in T : T \ {x} \in Good PROVE T \in Good
  <2>1. /\ g[T] = IF T = {} THEN 0 ELSE f[Some(T)] + g[Rest(T)]
        /\ h[T] = IF T = {} THEN 0 ELSE f[Some(T)] + h[Rest(T)]
    BY DEF Adds
  <2>2. CASE T = {}
    BY <2>1, <2>2
  <2>3. CASE T # {}
    <3>1. Rest(T) \in Good
      BY <1>1, <2>3, SomeRest DEF Rest
    <3> QED BY <2>1, <2>3, <3>1
  <2> QED BY <2>2, <2>3
<1> HIDE DEF Good
<1>2. \A T \in SUBSET S : T \in Good
  BY <1>1, SubsetInduction, Zenon
<1> QED BY <1>2 DEF Good

\* There is a function that adds up f over every subset of a finite set.
LEMMA AddsExists ==
    ASSUME NEW S, IsFiniteSet(S), NEW f
    PROVE  \E g : Adds(g, f, SUBSET S)
<1> DEFINE Good == {T \in SUBSET S : \E g : Adds(g, f, SUBSET T)}
<1>1. ASSUME NEW T \in SUBSET S, \A x \in T : T \ {x} \in Good PROVE T \in Good
  <2>0. IsFiniteSet(T)
    BY FS_Subset
  <2> DEFINE part == [x \in T |-> CHOOSE g : Adds(g, f, SUBSET (T \ {x}))]
             whole(U) == IF U = {} THEN 0
                         ELSE f[Some(U)] + part[Some(U)][Rest(U)]
             g == [U \in SUBSET T |-> whole(U)]
  <2>1. \A x \in T : Adds(part[x], f, SUBSET (T \ {x}))
    <3> TAKE x \in T
    <3>1. \E p : Adds(p, f, SUBSET (T \ {x}))
      BY <1>1
    <3> QED BY <3>1
  <2> HIDE DEF part
  <2>2. ASSUME NEW U \in SUBSET T, NEW x \in T, U \subseteq T \ {x}
        PROVE  part[x][U] = g[U]
    <3>0. IsFiniteSet(U)
      BY <2>0, FS_Subset
    <3>1. part[x][U] = IF U = {} THEN 0 ELSE f[Some(U)] + part[x][Rest(U)]
      BY <2>1, <2>2 DEF Adds
    <3>2. CASE U = {}
      BY <3>1, <3>2
    <3>3. CASE U # {}
      <4> DEFINE y == Some(U)
      <4>1. y \in T /\ Rest(U) \subseteq T \ {y} /\ Rest(U) \subseteq T \ {x}
        BY <3>3, <2>2, SomeRest DEF Rest
      <4>2. Adds(part[x], f, SUBSET (T \ {x})) /\ Adds(part[y], f, SUBSET (T \ {y}))
        BY <2>1, <4>1
      <4>3. IsFiniteSet(Rest(U)) /\ SUBSET Rest(U) \subseteq SUBSET (T \ {x})
            /\ SUBSET Rest(U) \subseteq SUBSET (T \ {y})
        BY <3>0, <4>1, FS_RemoveElement DEF Rest
      <4>4. part[x][Rest(U)] = part[y][Rest(U)]
        BY <4>2, <4>3, AddsAgree
      <4> QED BY <3>1, <3>3, <4>4
    <3> QED BY <3>2, <3>3
  <2>3. ASSUME NEW U \in SUBSET T, U # {}
        PROVE  Rest(U) \in SUBSET T /\ part[Some(U)][Rest(U)] = g[Rest(U)]
    <3>1. Some(U) \in T /\ Rest(U) \in SUBSET T /\ Rest(U) \subseteq T \ {Some(U)}
      BY <2>3, SomeRest DEF Rest
    <3> HIDE DEF g
    <3> QED BY <3>1, <2>2
  <2>4. Adds(g, f, SUBSET T)
    <3>1. \A U \in SUBSET T : g[U] = IF U = {} THEN 0 ELSE f[Some(U)] + g[Rest(U)]
      BY <2>3
    <3>2. g = [U \in SUBSET T |-> g[U]]
      OBVIOUS
    <3> HIDE DEF g
    <3> QED BY <3>1, <3>2 DEF Adds
  <2> QED BY <2>4
<1> HIDE DEF Good
<1>2. \A T \in SUBSET S : T \in Good
  BY <1>1, SubsetInduction, Zenon
<1> QED BY <1>2 DEF Good

LEMMA SumAdds ==
    ASSUME NEW S, IsFiniteSet(S), NEW f
    PROVE  \E g : Adds(g, f, SUBSET S) /\ SumFunctionOnSet(f, S) = g[S]
<1> DEFINE iter == CHOOSE g : Adds(g, f, SUBSET S)
<1>1. Adds(iter, f, SUBSET S)
  BY AddsExists
<1>2. SumFunctionOnSet(f, S) = iter[S]
  BY DEF SumFunctionOnSet, FoldFunctionOnSet, MapThenFoldSet, Adds, Some, Rest
<1> HIDE DEF iter
<1> QED BY <1>1, <1>2

LEMMA SumEmpty ==
    ASSUME NEW f
    PROVE  SumFunctionOnSet(f, {}) = 0
<1>1. PICK g : Adds(g, f, SUBSET {}) /\ SumFunctionOnSet(f, {}) = g[{}]
  BY SumAdds, FS_EmptySet
<1> QED BY <1>1 DEF Adds

LEMMA SumSome ==
    ASSUME NEW S, IsFiniteSet(S), S # {}, NEW f
    PROVE  SumFunctionOnSet(f, S) = f[Some(S)] + SumFunctionOnSet(f, Rest(S))
<1>1. PICK g : Adds(g, f, SUBSET S) /\ SumFunctionOnSet(f, S) = g[S]
  BY SumAdds
<1>2. IsFiniteSet(Rest(S))
  BY FS_RemoveElement DEF Rest
<1>3. PICK h : Adds(h, f, SUBSET Rest(S)) /\ SumFunctionOnSet(f, Rest(S)) = h[Rest(S)]
  BY <1>2, SumAdds
<1>4. SUBSET Rest(S) \subseteq SUBSET S
  BY SomeRest
<1>5. g[Rest(S)] = h[Rest(S)]
  BY <1>1, <1>2, <1>3, <1>4, AddsAgree
<1>6. g[S] = f[Some(S)] + g[Rest(S)]
  BY <1>1 DEF Adds
<1> QED BY <1>1, <1>3, <1>5, <1>6

LEMMA SumIsInteger ==
    ASSUME NEW S, IsFiniteSet(S), NEW f, \A x \in S : f[x] \in Int
    PROVE  SumFunctionOnSet(f, S) \in Int
<1> DEFINE Good == {T \in SUBSET S : SumFunctionOnSet(f, T) \in Int}
<1>1. ASSUME NEW T \in SUBSET S, \A x \in T : T \ {x} \in Good PROVE T \in Good
  <2>1. IsFiniteSet(T)
    BY FS_Subset
  <2>2. CASE T = {}
    BY <2>2, SumEmpty
  <2>3. CASE T # {}
    <3>1. SumFunctionOnSet(f, T) = f[Some(T)] + SumFunctionOnSet(f, Rest(T))
      BY <2>1, <2>3, SumSome
    <3>2. SumFunctionOnSet(f, Rest(T)) \in Int /\ f[Some(T)] \in Int
      BY <1>1, <2>3, SomeRest DEF Rest
    <3> QED BY <3>1, <3>2
  <2> QED BY <2>2, <2>3
<1> HIDE DEF Good
<1>2. \A T \in SUBSET S : T \in Good
  BY <1>1, SubsetInduction, Zenon
<1> QED BY <1>2 DEF Good

\* Any element may be taken out first.
LEMMA SumRemove ==
    ASSUME NEW S, IsFiniteSet(S), NEW f, \A x \in S : f[x] \in Int, NEW e \in S
    PROVE  SumFunctionOnSet(f, S) = f[e] + SumFunctionOnSet(f, S \ {e})
<1> DEFINE Splits(T) == \A x \in T :
               SumFunctionOnSet(f, T) = f[x] + SumFunctionOnSet(f, T \ {x})
           Good == {T \in SUBSET S : Splits(T)}
<1>1. ASSUME NEW T \in SUBSET S, \A x \in T : T \ {x} \in Good PROVE T \in Good
  <2> SUFFICES ASSUME NEW x \in T
               PROVE  SumFunctionOnSet(f, T) = f[x] + SumFunctionOnSet(f, T \ {x})
    OBVIOUS
  <2> DEFINE y == Some(T)
             inner == (T \ {y}) \ {x}
  <2>1. IsFiniteSet(T) /\ y \in T /\ Rest(T) = T \ {y}
    BY FS_Subset, SomeRest DEF Rest
  <2>2. SumFunctionOnSet(f, T) = f[y] + SumFunctionOnSet(f, T \ {y})
    BY <2>1, SumSome
  <2> HIDE DEF y
  <2>3. CASE x = y
    BY <2>2, <2>3
  <2>4. CASE x # y
    <3>1. SumFunctionOnSet(f, T \ {y}) = f[x] + SumFunctionOnSet(f, inner)
      BY <1>1, <2>1, <2>4
    <3>2. (T \ {x}) \ {y} = inner
      OBVIOUS
    <3>3. SumFunctionOnSet(f, T \ {x}) = f[y] + SumFunctionOnSet(f, inner)
      BY <1>1, <2>1, <2>4, <3>2
    <3>4. IsFiniteSet(inner) /\ inner \subseteq S
      BY <2>1, FS_Subset
    <3>5. SumFunctionOnSet(f, inner) \in Int /\ f[x] \in Int /\ f[y] \in Int
      BY <2>1, <3>4, SumIsInteger
    <3> HIDE DEF inner
    <3> QED BY <2>2, <3>1, <3>3, <3>5
  <2> QED BY <2>3, <2>4
<1> HIDE DEF Good
<1>2. \A T \in SUBSET S : T \in Good
  BY <1>1, SubsetInduction, Zenon
<1> QED BY <1>2 DEF Good

LEMMA SumAdd ==
    ASSUME NEW S, IsFiniteSet(S), NEW f, NEW e, e \notin S,
           \A x \in S \cup {e} : f[x] \in Int
    PROVE  SumFunctionOnSet(f, S \cup {e}) = f[e] + SumFunctionOnSet(f, S)
<1>1. IsFiniteSet(S \cup {e})
  BY FS_AddElement
<1>2. (S \cup {e}) \ {e} = S
  OBVIOUS
<1>3. SumFunctionOnSet(f, S \cup {e}) = f[e] + SumFunctionOnSet(f, (S \cup {e}) \ {e})
  BY <1>1, SumRemove
<1> QED BY <1>2, <1>3

\* Only the values at the elements of the set count.
LEMMA SumEqual ==
    ASSUME NEW S, IsFiniteSet(S), NEW f, NEW g, \A x \in S : f[x] = g[x]
    PROVE  SumFunctionOnSet(f, S) = SumFunctionOnSet(g, S)
<1> DEFINE Good == {T \in SUBSET S : SumFunctionOnSet(f, T) = SumFunctionOnSet(g, T)}
<1>1. ASSUME NEW T \in SUBSET S, \A x \in T : T \ {x} \in Good PROVE T \in Good
  <2>1. IsFiniteSet(T)
    BY FS_Subset
  <2>2. CASE T = {}
    BY <2>2, SumEmpty
  <2>3. CASE T # {}
    <3>1. /\ SumFunctionOnSet(f, T) = f[Some(T)] + SumFunctionOnSet(f, Rest(T))
          /\ SumFunctionOnSet(g, T) = g[Some(T)] + SumFunctionOnSet(g, Rest(T))
      BY <2>1, <2>3, SumSome
    <3>2. SumFunctionOnSet(f, Rest(T)) = SumFunctionOnSet(g, Rest(T)) /\ f[Some(T)] = g[Some(T)]
      BY <1>1, <2>3, SomeRest DEF Rest
    <3> QED BY <3>1, <3>2
  <2> QED BY <2>2, <2>3
<1> HIDE DEF Good
<1>2. \A T \in SUBSET S : T \in Good
  BY <1>1, SubsetInduction, Zenon
<1> QED BY <1>2 DEF Good

\* A change at one element changes the sum by the difference.
LEMMA SumUpdate ==
    ASSUME NEW S, IsFiniteSet(S), NEW f, NEW g, NEW e \in S,
           \A x \in S : f[x] \in Int /\ g[x] \in Int,
           \A x \in S \ {e} : g[x] = f[x]
    PROVE  SumFunctionOnSet(g, S) = SumFunctionOnSet(f, S) + (g[e] - f[e])
<1>1. IsFiniteSet(S \ {e})
  BY FS_RemoveElement
<1>2. SumFunctionOnSet(f, S) = f[e] + SumFunctionOnSet(f, S \ {e})
  BY SumRemove
<1>3. SumFunctionOnSet(g, S) = g[e] + SumFunctionOnSet(g, S \ {e})
  BY SumRemove
<1>4. SumFunctionOnSet(f, S \ {e}) = SumFunctionOnSet(g, S \ {e})
  BY <1>1, SumEqual
<1>5. SumFunctionOnSet(f, S \ {e}) \in Int /\ f[e] \in Int /\ g[e] \in Int
  BY <1>1, SumIsInteger
<1> QED BY <1>2, <1>3, <1>4, <1>5

LEMMA SumZero ==
    ASSUME NEW S, IsFiniteSet(S), NEW f, \A x \in S : f[x] = 0
    PROVE  SumFunctionOnSet(f, S) = 0
<1> DEFINE Good == {T \in SUBSET S : SumFunctionOnSet(f, T) = 0}
<1>1. ASSUME NEW T \in SUBSET S, \A x \in T : T \ {x} \in Good PROVE T \in Good
  <2>1. IsFiniteSet(T)
    BY FS_Subset
  <2>2. CASE T = {}
    BY <2>2, SumEmpty
  <2>3. CASE T # {}
    <3>1. SumFunctionOnSet(f, T) = f[Some(T)] + SumFunctionOnSet(f, Rest(T))
      BY <2>1, <2>3, SumSome
    <3>2. SumFunctionOnSet(f, Rest(T)) = 0 /\ f[Some(T)] = 0
      BY <1>1, <2>3, SomeRest DEF Rest
    <3> QED BY <3>1, <3>2
  <2> QED BY <2>2, <2>3
<1> HIDE DEF Good
<1>2. \A T \in SUBSET S : T \in Good
  BY <1>1, SubsetInduction, Zenon
<1> QED BY <1>2 DEF Good
=============================================================================
