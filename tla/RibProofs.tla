----------------------------- MODULE RibProofs ------------------------------
(***************************************************************************)
(* The tree of RIB entries, for every table: inserting and erasing routes  *)
(* keeps the parent of every entry the longest proper prefix of its name   *)
(* in the table.                                                           *)
(***************************************************************************)
EXTENDS Rib, Extremum, TLAPS

\* The entries above n.
Above(r, n) == {p \in DOMAIN r : IsPrefixOf(p, n) /\ p # n}

\* p is the longest of the names P.
Longest(p, P) == p \in P /\ \A q \in P : Len(q) <= Len(p)

----------------------------------------------------------------------------
(* Names.                                                                  *)

\* Lengths.
LEMMA Lengths ==
  ASSUME NEW a \in Name
  PROVE  Len(a) \in Nat
BY DEF Name

\* A prefix of a prefix is a prefix.
LEMMA PrefixOfPrefix ==
  ASSUME NEW a \in Name, NEW b \in Name, NEW c \in Name, IsPrefixOf(a, b), IsPrefixOf(b, c)
  PROVE  IsPrefixOf(a, c)
<1>1. Len(a) \in Nat /\ Len(b) \in Nat /\ Len(c) \in Nat /\ Len(a) <= Len(b) /\ Len(b) <= Len(c)
  BY DEF IsPrefixOf, Name
<1>2. \A i \in 1 .. Len(a) : a[i] = c[i]
  <2> SUFFICES ASSUME NEW i \in 1 .. Len(a) PROVE a[i] = c[i]
    OBVIOUS
  <2>1. a[i] = b[i]
    BY <1>1 DEF IsPrefixOf, Name
  <2>2. b[i] = c[i]
    BY <1>1 DEF IsPrefixOf, Name
  <2> QED
    BY <2>1, <2>2
<1>3. SubSeq(c, 1, Len(a)) = a
  BY <1>1, <1>2 DEF Name
<1> QED
  BY <1>1, <1>3 DEF IsPrefixOf

\* Of two prefixes of a name, the one that is not longer is a prefix of the other.
LEMMA PrefixesNest ==
  ASSUME NEW a \in Name, NEW b \in Name, NEW c \in Name,
         IsPrefixOf(a, c), IsPrefixOf(b, c), Len(a) <= Len(b)
  PROVE  IsPrefixOf(a, b)
<1>1. Len(a) \in Nat /\ Len(b) \in Nat /\ Len(c) \in Nat /\ Len(a) <= Len(c) /\ Len(b) <= Len(c)
  BY DEF IsPrefixOf, Name
<1>2. \A i \in 1 .. Len(a) : a[i] = b[i]
  <2> SUFFICES ASSUME NEW i \in 1 .. Len(a) PROVE a[i] = b[i]
    OBVIOUS
  <2>1. a[i] = c[i]
    BY <1>1 DEF IsPrefixOf, Name
  <2>2. b[i] = c[i]
    BY <1>1 DEF IsPrefixOf, Name
  <2> QED
    BY <2>1, <2>2
<1>3. SubSeq(b, 1, Len(a)) = a
  BY <1>1, <1>2 DEF Name
<1> QED
  BY <1>3 DEF IsPrefixOf

\* A prefix of the same length is the name itself.
LEMMA PrefixSameLength ==
  ASSUME NEW a \in Name, NEW b \in Name, IsPrefixOf(a, b), Len(b) <= Len(a)
  PROVE  a = b
<1>1. Len(a) \in Nat /\ Len(a) = Len(b)
  BY DEF IsPrefixOf, Name
<1>2. SubSeq(b, 1, Len(b)) = b
  BY DEF Name
<1> QED
  BY <1>1, <1>2 DEF IsPrefixOf

----------------------------------------------------------------------------
(* findParent.                                                             *)

\* The longest of the entries above a name is unique.
LEMMA LongestUnique ==
  ASSUME NEW r, DOMAIN r \subseteq Name, NEW n \in Name, NEW S \in SUBSET Above(r, n),
         NEW p, NEW q, Longest(p, S), Longest(q, S)
  PROVE  p = q
<1>1. p \in Name /\ q \in Name /\ IsPrefixOf(p, n) /\ IsPrefixOf(q, n)
  BY DEF Longest, Above
<1>2. Len(p) \in Nat /\ Len(q) \in Nat /\ Len(p) <= Len(q) /\ Len(q) <= Len(p)
  BY <1>1, Lengths DEF Longest
<1>3. IsPrefixOf(p, q)
  BY <1>1, <1>2, PrefixesNest
<1> QED
  BY <1>1, <1>2, <1>3, PrefixSameLength

\* findParent returns the longest of the entries above n, if there is one.
LEMMA FindParentIsLongest ==
  ASSUME NEW r, DOMAIN r \subseteq Name, NEW n \in Name
  PROVE  /\ Above(r, n) = {} => findParent(r, n) = NoEntry
         /\ Above(r, n) # {} => Longest(findParent(r, n), Above(r, n))
<1> DEFINE P == Above(r, n)
<1>1. P = {} => findParent(r, n) = NoEntry
  BY DEF findParent, Above
<1>2. ASSUME P # {} PROVE Longest(findParent(r, n), P)
  <2> DEFINE L == {Len(q) : q \in P}
             v == [x \in L |-> x]
  <2>1. \A q \in P : Len(q) \in 0 .. Len(n)
    BY Lengths DEF Above, IsPrefixOf
  <2>2. L \subseteq 0 .. Len(n) /\ L # {} /\ Len(n) \in Nat
    BY <1>2, <2>1, Lengths
  <2>3. IsFiniteSet(L)
    <3>1. IsFiniteSet(0 .. Len(n))
      BY <2>2, FS_Interval
    <3> HIDE DEF L
    <3> QED
      BY <2>2, <3>1, FS_Subset
  <2>4. \A x \in L : v[x] = x /\ v[x] \in Int
    BY <2>2
  <2> HIDE DEF v
  <2>5. PICK x \in L : \A y \in L : v[y] <= v[x]
    <3> HIDE DEF L
    <3> QED
      BY <2>2, <2>3, <2>4, MaximumExists
  <2>6. PICK p \in P : Len(p) = x
    BY <2>5
  <2>7. \A q \in P : Len(q) <= Len(p)
    BY <2>4, <2>5, <2>6
  <2>8. findParent(r, n) = CHOOSE z \in P : \A q \in P : Len(q) <= Len(z)
    BY <1>2 DEF findParent, Above
  <2> HIDE DEF P
  <2> QED
    BY <2>6, <2>7, <2>8 DEF Longest
<1> QED
  BY <1>1, <1>2

\* findParent depends only on the entries above the name.
LEMMA FindParentDepends ==
  ASSUME NEW r, NEW s, NEW n, NEW m, Above(r, n) = Above(s, m)
  PROVE  findParent(r, n) = findParent(s, m)
<1> DEFINE Of(P) == IF P = {} THEN NoEntry ELSE CHOOSE p \in P : \A q \in P : Len(q) <= Len(p)
<1>1. findParent(r, n) = Of(Above(r, n)) /\ findParent(s, m) = Of(Above(s, m))
  BY DEF findParent, Above
<1> HIDE DEF Of
<1> QED
  BY <1>1

\* What is the longest is found.
LEMMA LongestIsFound ==
  ASSUME NEW r, DOMAIN r \subseteq Name, NEW n \in Name, NEW p, Longest(p, Above(r, n))
  PROVE  findParent(r, n) = p
<1>1. Above(r, n) # {}
  BY DEF Longest
<1>2. Longest(findParent(r, n), Above(r, n))
  BY <1>1, FindParentIsLongest
<1>3. Above(r, n) \in SUBSET Above(r, n)
  OBVIOUS
<1> QED
  BY <1>2, <1>3, LongestUnique

----------------------------------------------------------------------------
(* The tree.                                                               *)

IsEntry(e) ==
  /\ e = [x \in DOMAIN e |-> e[x]]
  /\ DOMAIN e = {"routes", "inherited", "nCapture", "parent"}

IsRib(r) == DOMAIN r \subseteq Name /\ NoEntry \notin Name /\ \A n \in DOMAIN r : IsEntry(r[n])

IsTree(r) == \A n \in DOMAIN r : r[n].parent = findParent(r, n)

\* The routes of an entry are no matter for its place in the tree.
LEMMA RoutesOnly ==
  ASSUME NEW e, IsEntry(e), NEW f, NEW route
  PROVE  /\ IsEntry(insertRoute(e, f, route)) /\ insertRoute(e, f, route).parent = e.parent
         /\ IsEntry(updateRoute(e, f, route)) /\ updateRoute(e, f, route).parent = e.parent
         /\ IsEntry(eraseRoute(e, f)) /\ eraseRoute(e, f).parent = e.parent
<1>1. \A x, y : LET i == [e EXCEPT !.routes = x, !.nCapture = y]
               IN  IsEntry(i) /\ i.parent = e.parent
  BY DEF IsEntry
<1>2. \A x : LET u == [e EXCEPT !.routes = x] IN IsEntry(u) /\ u.parent = e.parent
  BY DEF IsEntry
<1>3. IsEntry(insertRoute(e, f, route)) /\ insertRoute(e, f, route).parent = e.parent
  BY <1>1 DEF insertRoute
<1>4. IsEntry(updateRoute(e, f, route)) /\ updateRoute(e, f, route).parent = e.parent
  BY <1>2 DEF updateRoute
<1>5. IsEntry(eraseRoute(e, f)) /\ eraseRoute(e, f).parent = e.parent
  BY <1>1 DEF eraseRoute
<1> QED
  BY <1>3, <1>4, <1>5

\* A new parent.
LEMMA ParentOnly ==
  ASSUME NEW e, IsEntry(e), NEW p
  PROVE  IsEntry([e EXCEPT !.parent = p]) /\ [e EXCEPT !.parent = p].parent = p
BY DEF IsEntry

\* The same names with the same parents are the same tree.
LEMMA SameTree ==
  ASSUME NEW r, IsTree(r), NEW s, DOMAIN s = DOMAIN r, \A n \in DOMAIN r : s[n].parent = r[n].parent
  PROVE  IsTree(s)
<1> SUFFICES ASSUME NEW n \in DOMAIN s PROVE s[n].parent = findParent(s, n)
  BY DEF IsTree
<1>1. Above(s, n) = Above(r, n)
  BY DEF Above
<1>2. findParent(s, n) = findParent(r, n)
  BY <1>1, FindParentDepends
<1> QED
  BY <1>2 DEF IsTree

\* The entries that insert makes children of the new entry are those whose nearest
\* ancestor it is.
LEMMA NewChildren ==
  ASSUME NEW r, IsRib(r), IsTree(r), NEW n \in Name, n \notin DOMAIN r,
         NEW s, DOMAIN s = DOMAIN r \cup {n}, NEW m \in DOMAIN r
  PROVE  findParent(s, m) = IF m \in newChildren(r, n) THEN n ELSE r[m].parent
<1>0. DOMAIN r \subseteq Name /\ DOMAIN s \subseteq Name /\ m \in Name /\ m # n /\ NoEntry \notin Name
  BY DEF IsRib
<1>1. r[m].parent = findParent(r, m)
  BY DEF IsTree
<1>2. CASE ~IsPrefixOf(n, m)
  <2>1. m \notin newChildren(r, n)
    BY <1>2 DEF newChildren
  <2>2. Above(s, m) = Above(r, m)
    BY <1>2 DEF Above
  <2> QED
    BY <1>1, <2>1, <2>2, FindParentDepends
<1>3. CASE IsPrefixOf(n, m)
  <2>1. Above(s, m) = Above(r, m) \cup {n}
    BY <1>0, <1>3 DEF Above
  <2>2. Above(r, n) \subseteq Above(r, m)
    <3> SUFFICES ASSUME NEW q \in Above(r, n) PROVE q \in Above(r, m)
      OBVIOUS
    <3>1. q \in DOMAIN r /\ q \in Name /\ IsPrefixOf(q, n) /\ q # n
      BY <1>0 DEF Above
    <3>2. IsPrefixOf(q, m)
      BY <1>0, <1>3, <3>1, PrefixOfPrefix
    <3>3. q # m
      <4> SUFFICES ASSUME q = m PROVE FALSE
        OBVIOUS
      <4>1. Len(q) \in Nat /\ Len(n) \in Nat /\ Len(n) <= Len(q)
        BY <1>0, <1>3, <3>1, Lengths DEF IsPrefixOf
      <4> QED
        BY <3>1, <4>1, PrefixSameLength
    <3> QED
      BY <3>1, <3>2, <3>3 DEF Above
  <2>3. CASE m \in newChildren(r, n)
    <3>1. findParent(r, m) = findParent(r, n)
      BY <1>1, <2>3 DEF newChildren
    <3>2. ASSUME NEW q \in Above(r, m) PROVE Len(q) <= Len(n)
      <4> DEFINE x == findParent(r, m)
      <4>1. Longest(x, Above(r, m))
        BY <1>0, <3>2, FindParentIsLongest
      <4>2. x \in Name /\ x # NoEntry
        BY <1>0, <4>1 DEF Longest, Above
      <4> HIDE DEF x
      <4>3. Above(r, n) # {}
        BY <1>0, <3>1, <4>2, FindParentIsLongest DEF x
      <4>4. x \in Above(r, n)
        BY <1>0, <3>1, <4>3, FindParentIsLongest DEF x, Longest
      <4>5. Len(x) <= Len(n) /\ Len(q) <= Len(x)
        BY <3>2, <4>1, <4>4 DEF Above, IsPrefixOf, Longest
      <4>6. Len(x) \in Nat /\ Len(n) \in Nat /\ Len(q) \in Nat
        BY <1>0, <3>2, <4>2, Lengths DEF Above
      <4> QED
        BY <4>5, <4>6
    <3>3. Longest(n, Above(s, m))
      <4>1. Len(n) <= Len(n)
        BY Lengths
      <4> QED
        BY <2>1, <3>2, <4>1 DEF Longest
    <3>4. findParent(s, m) = n
      BY <1>0, <3>3, LongestIsFound
    <3> QED
      BY <2>3, <3>4
  <2>4. CASE m \notin newChildren(r, n)
    <3> DEFINE x == findParent(r, m)
    <3>1. x # findParent(r, n)
      BY <1>1, <1>3, <2>4 DEF newChildren
    <3>2. Above(r, m) # {}
      <4> SUFFICES ASSUME Above(r, m) = {} PROVE FALSE
        OBVIOUS
      <4>1. Above(r, n) = {}
        BY <2>2
      <4> QED
        BY <1>0, <3>1, <4>1, FindParentIsLongest
    <3>3. Longest(x, Above(r, m))
      BY <1>0, <3>2, FindParentIsLongest
    <3>4. x \in Name /\ x \in DOMAIN r /\ IsPrefixOf(x, m)
      BY <1>0, <3>3 DEF Longest, Above
    <3> HIDE DEF x
    <3>5. Len(x) \in Nat /\ Len(n) \in Nat
      BY <3>4, Lengths
    <3>6. Len(n) <= Len(x)
      <4> SUFFICES ASSUME Len(x) < Len(n) PROVE FALSE
        BY <3>5
      <4>1. IsPrefixOf(x, n) /\ x # n
        <5>1. Len(x) <= Len(n)
          BY <3>5
        <5> QED
          BY <1>0, <1>3, <3>4, <3>5, <5>1, PrefixesNest
      <4>2. Longest(x, Above(r, n))
        BY <2>2, <3>3, <3>4, <4>1 DEF Longest, Above
      <4>3. findParent(r, n) = x
        BY <1>0, <4>2, LongestIsFound
      <4> QED
        BY <3>1, <4>3 DEF x
    <3>7. Longest(x, Above(s, m))
      BY <2>1, <3>3, <3>6 DEF Longest
    <3>8. findParent(s, m) = x
      BY <1>0, <3>7, LongestIsFound
    <3> QED
      BY <1>1, <2>4, <3>8 DEF x
  <2> QED
    BY <2>3, <2>4
<1> QED
  BY <1>2, <1>3

\* Rib::insert keeps the tree, whether the route is new or known and its entry new or
\* known: the new entry is put between its nearest ancestor and exactly those of the
\* ancestor's children that lie below it.
THEOREM InsertKeepsTree ==
  ASSUME NEW r, IsRib(r), IsTree(r), NEW n \in Name, NEW f, NEW route
  PROVE  IsRib(insert(r, n, f, route)) /\ IsTree(insert(r, n, f, route))
<1> DEFINE s == insert(r, n, f, route)
<1>0. DOMAIN r \subseteq Name /\ NoEntry \notin Name /\ \A m \in DOMAIN r : IsEntry(r[m])
  BY DEF IsRib
<1>1. CASE n \in DOMAIN r
  <2> DEFINE e == IF hasFaceId(r[n], f) THEN updateRoute(r[n], f, route)
                  ELSE insertRoute(r[n], f, route)
  <2>1. s = [r EXCEPT ![n] = e]
    BY <1>1 DEF insert
  <2>2. IsEntry(e) /\ e.parent = r[n].parent
    BY <1>0, <1>1, RoutesOnly
  <2> HIDE DEF e, s
  <2>3. DOMAIN s = DOMAIN r /\ s[n] = e /\ \A m \in DOMAIN r \ {n} : s[m] = r[m]
    BY <1>1, <2>1
  <2>4. \A m \in DOMAIN r : IsEntry(s[m]) /\ s[m].parent = r[m].parent
    BY <1>0, <2>2, <2>3
  <2>5. IsTree(s)
    BY <2>3, <2>4, SameTree
  <2> QED
    BY <1>0, <2>3, <2>4, <2>5 DEF IsRib, s
<1>2. CASE n \notin DOMAIN r
  <2> DEFINE new == insertRoute(NewEntry(r, n), f, route)
             Child(m) == [r[m] EXCEPT !.parent = n]
  <2>1. s = [m \in DOMAIN r \cup {n} |->
               CASE m = n -> new
                 [] m \in newChildren(r, n) -> Child(m)
                 [] OTHER -> r[m]]
    BY <1>2 DEF insert
  <2>2. IsEntry(new) /\ new.parent = findParent(r, n)
    <3>1. IsEntry(NewEntry(r, n)) /\ NewEntry(r, n).parent = findParent(r, n)
      BY DEF IsEntry, NewEntry
    <3> QED
      BY <3>1, RoutesOnly
  <2>3. \A m \in DOMAIN r : IsEntry(Child(m)) /\ Child(m).parent = n
    BY <1>0, ParentOnly
  <2> HIDE DEF new, Child, s
  <2>4. DOMAIN s = DOMAIN r \cup {n} /\ s[n] = new
    <3>1. n \notin newChildren(r, n)
      BY <1>2 DEF newChildren
    <3> QED
      BY <2>1, <3>1
  <2>5. ASSUME NEW m \in DOMAIN r PROVE s[m] = IF m \in newChildren(r, n) THEN Child(m) ELSE r[m]
    <3>1. m # n
      BY <1>2
    <3> QED
      BY <2>1, <3>1
  <2>6. s[n].parent = findParent(s, n)
    <3>1. Above(s, n) = Above(r, n)
      BY <2>4 DEF Above
    <3>2. findParent(s, n) = findParent(r, n)
      BY <3>1, FindParentDepends
    <3> QED
      BY <2>2, <2>4, <3>2
  <2>7. ASSUME NEW m \in DOMAIN r PROVE s[m].parent = findParent(s, m)
    <3>1. findParent(s, m) = IF m \in newChildren(r, n) THEN n ELSE r[m].parent
      BY <1>2, <2>4, NewChildren
    <3> QED
      BY <2>3, <2>5, <3>1
  <2>8. IsTree(s)
    BY <2>4, <2>6, <2>7 DEF IsTree
  <2>9. IsRib(s)
    BY <1>0, <2>2, <2>3, <2>4, <2>5 DEF IsRib
  <2> QED
    BY <2>8, <2>9 DEF s
<1> QED
  BY <1>1, <1>2

\* Rib::eraseEntry gives the children of the entry that goes to its parent, which is then
\* their nearest ancestor.
LEMMA EraseEntryKeepsTree ==
  ASSUME NEW r, IsRib(r), IsTree(r), NEW n \in DOMAIN r
  PROVE  IsRib(eraseEntry(r, n)) /\ IsTree(eraseEntry(r, n))
<1> DEFINE s == eraseEntry(r, n)
           Child(m) == [r[m] EXCEPT !.parent = r[n].parent]
<1>0. DOMAIN r \subseteq Name /\ NoEntry \notin Name /\ \A m \in DOMAIN r : IsEntry(r[m])
  BY DEF IsRib
<1>1. s = [m \in DOMAIN r \ {n} |-> IF r[m].parent = n THEN Child(m) ELSE r[m]]
  BY DEF eraseEntry
<1>2. \A m \in DOMAIN r : IsEntry(Child(m)) /\ Child(m).parent = r[n].parent
  BY <1>0, ParentOnly
<1> HIDE DEF Child, s
<1>3. DOMAIN s = DOMAIN r \ {n}
      /\ \A m \in DOMAIN r \ {n} : s[m] = IF r[m].parent = n THEN Child(m) ELSE r[m]
  BY <1>1
<1>4. IsRib(s)
  BY <1>0, <1>2, <1>3 DEF IsRib
<1>5. ASSUME NEW m \in DOMAIN r \ {n} PROVE s[m].parent = findParent(s, m)
  <2>0. m \in Name /\ n \in Name /\ DOMAIN s \subseteq Name
    BY <1>0, <1>3
  <2>1. Above(s, m) = Above(r, m) \ {n}
    BY <1>3 DEF Above
  <2>2. r[m].parent = findParent(r, m) /\ r[n].parent = findParent(r, n)
    BY DEF IsTree
  <2>3. CASE r[m].parent = n
    <3>1. Longest(n, Above(r, m))
      <4>1. findParent(r, m) # NoEntry
        BY <1>0, <2>0, <2>2, <2>3
      <4> QED
        BY <1>0, <2>0, <2>2, <2>3, <4>1, FindParentIsLongest
    <3>2. IsPrefixOf(n, m)
      BY <3>1 DEF Longest, Above
    <3>3. ASSUME NEW q \in Above(s, m) PROVE q \in Above(r, n)
      <4>1. q \in DOMAIN r /\ q \in Name /\ IsPrefixOf(q, m) /\ q # n /\ Len(q) <= Len(n)
        BY <1>0, <2>1, <3>1, <3>3 DEF Longest, Above
      <4>2. IsPrefixOf(q, n)
        BY <2>0, <3>2, <4>1, PrefixesNest
      <4> QED
        BY <4>1, <4>2 DEF Above
    <3>4. ASSUME NEW q \in Above(r, n) PROVE q \in Above(s, m)
      <4>1. q \in DOMAIN r /\ q \in Name /\ IsPrefixOf(q, n) /\ q # n
        BY <1>0, <3>4 DEF Above
      <4>2. IsPrefixOf(q, m)
        BY <2>0, <3>2, <4>1, PrefixOfPrefix
      <4>3. q # m
        <5> SUFFICES ASSUME q = m PROVE FALSE
          OBVIOUS
        <5>1. Len(n) <= Len(q)
          BY <3>2 DEF IsPrefixOf
        <5> QED
          BY <2>0, <4>1, <5>1, PrefixSameLength
      <4> QED
        BY <2>1, <4>1, <4>2, <4>3 DEF Above
    <3>5. Above(s, m) = Above(r, n)
      BY <3>3, <3>4
    <3>6. findParent(s, m) = findParent(r, n)
      BY <3>5, FindParentDepends
    <3> QED
      BY <1>2, <1>3, <2>2, <2>3, <3>6
  <2>4. CASE r[m].parent # n
    <3>1. s[m].parent = r[m].parent
      BY <1>3, <2>4
    <3>2. CASE Above(r, m) = {}
      <4>1. Above(s, m) = Above(r, m)
        BY <2>1, <3>2
      <4> QED
        BY <2>2, <3>1, <4>1, FindParentDepends
    <3>3. CASE Above(r, m) # {}
      <4> DEFINE x == findParent(r, m)
      <4>1. Longest(x, Above(r, m)) /\ x # n
        BY <1>0, <2>0, <2>2, <2>4, <3>3, FindParentIsLongest
      <4> HIDE DEF x
      <4>2. Longest(x, Above(s, m))
        BY <2>1, <4>1 DEF Longest
      <4>3. findParent(s, m) = x
        BY <2>0, <4>2, LongestIsFound
      <4> QED
        BY <2>2, <3>1, <4>3 DEF x
    <3> QED
      BY <3>2, <3>3
  <2> QED
    BY <2>3, <2>4
<1>6. IsTree(s)
  BY <1>3, <1>5 DEF IsTree
<1> QED
  BY <1>4, <1>6 DEF s

\* Rib::erase keeps the tree, whether the entry keeps other routes or goes with its last.
THEOREM EraseKeepsTree ==
  ASSUME NEW r, IsRib(r), IsTree(r), NEW n \in Name, NEW f
  PROVE  IsRib(erase(r, n, f)) /\ IsTree(erase(r, n, f))
<1>1. CASE n \notin DOMAIN r \/ ~hasFaceId(r[n], f)
  BY <1>1 DEF erase
<1>2. CASE n \in DOMAIN r /\ hasFaceId(r[n], f) /\ DOMAIN r[n].routes = {f}
  <2>1. erase(r, n, f) = eraseEntry(r, n)
    BY <1>2 DEF erase
  <2> QED
    BY <1>2, <2>1, EraseEntryKeepsTree
<1>3. CASE n \in DOMAIN r /\ hasFaceId(r[n], f) /\ DOMAIN r[n].routes # {f}
  <2> DEFINE e == eraseRoute(r[n], f)
             s == [r EXCEPT ![n] = e]
  <2>1. erase(r, n, f) = s
    BY <1>3 DEF erase
  <2>2. IsEntry(e) /\ e.parent = r[n].parent
    BY <1>3, RoutesOnly DEF IsRib
  <2> HIDE DEF e
  <2>3. DOMAIN s = DOMAIN r /\ s[n] = e /\ \A m \in DOMAIN r \ {n} : s[m] = r[m]
    BY <1>3
  <2> HIDE DEF s
  <2>4. \A m \in DOMAIN r : IsEntry(s[m]) /\ s[m].parent = r[m].parent
    BY <2>2, <2>3 DEF IsRib
  <2>5. IsTree(s)
    BY <2>3, <2>4, SameTree
  <2>6. IsRib(s)
    BY <2>3, <2>4 DEF IsRib
  <2> QED
    BY <2>1, <2>5, <2>6
<1> QED
  BY <1>1, <1>2, <1>3

=============================================================================
