------------------------------ MODULE Extremum ------------------------------
(***************************************************************************)
(* A nonempty finite set has an element at which an integer function is    *)
(* largest.  std::max_element and the choices of the lookups rest on it.   *)
(***************************************************************************)
EXTENDS Integers, FiniteSets, FiniteSetTheorems, WellFoundedInduction, TLAPS

\* Some element of the nonempty finite set S has the greatest value of v: what
\* std::max_element over a record list returns exists.
THEOREM MaximumExists ==
  ASSUME NEW S, IsFiniteSet(S), S # {},
         NEW v, \A x \in S : v[x] \in Int
  PROVE  \E x \in S : \A y \in S : v[y] <= v[x]
<1> DEFINE HasMax(T) == \E x \in T : \A y \in T : v[y] <= v[x]
           Bad == {T \in FiniteSubsetsOf(S) : T # {} /\ ~HasMax(T)}
<1>1. Bad = {}
  <2> SUFFICES ASSUME Bad # {} PROVE FALSE
    OBVIOUS
  <2>1. PICK T \in Bad : \A U \in Bad : ~ (<<U, T>> \in StrictSubsetOrdering(S))
    <3>1. IsWellFoundedOn(StrictSubsetOrdering(S), FiniteSubsetsOf(S))
      BY FS_StrictSubsetOrderingWellFounded
    <3>2. Bad \subseteq FiniteSubsetsOf(S)
      OBVIOUS
    <3>3. QED
      BY <3>1, <3>2, WFMin
  <2>2. T \subseteq S /\ IsFiniteSet(T) /\ T # {} /\ ~HasMax(T)
    BY DEF FiniteSubsetsOf
  <2>3. PICK z \in T : TRUE
    BY <2>2
  <2> DEFINE U == T \ {z}
  <2>4. U \subseteq S /\ IsFiniteSet(U) /\ U # T
    BY <2>2, <2>3, FS_RemoveElement
  <2>5. U \notin Bad
    <3>1. <<U, T>> \in StrictSubsetOrdering(S)
      BY <2>2, <2>4 DEF StrictSubsetOrdering
    <3>2. QED
      BY <2>1, <3>1
  <2>6. CASE U = {}
    <3>1. T = {z}
      BY <2>3, <2>6
    <3>2. v[z] <= v[z]
      BY <2>2, <2>3
    <3>3. QED
      BY <2>2, <3>1, <3>2
  <2>7. CASE U # {}
    <3>1. HasMax(U)
      BY <2>4, <2>5, <2>7 DEF FiniteSubsetsOf
    <3>2. PICK x \in U : \A y \in U : v[y] <= v[x]
      BY <3>1
    <3>3. v[x] \in Int /\ v[z] \in Int /\ x \in T
      BY <2>2, <2>3, <2>4, <3>2
    <3>4. CASE v[z] <= v[x]
      <4>1. \A y \in T : v[y] <= v[x]
        BY <3>2, <3>4
      <4>2. QED
        BY <2>2, <3>3, <4>1
    <3>5. CASE v[x] < v[z]
      <4>1. \A y \in T : v[y] \in Int
        BY <2>2
      <4>2. \A y \in T : v[y] <= v[z]
        BY <3>2, <3>3, <3>5, <4>1
      <4>3. QED
        BY <2>2, <2>3, <4>2
    <3>6. QED
      BY <3>3, <3>4, <3>5
  <2>8. QED
    BY <2>6, <2>7
<1>2. S \in FiniteSubsetsOf(S)
  BY DEF FiniteSubsetsOf
<1>3. QED
  BY <1>1, <1>2

=============================================================================
