---------------------------- MODULE MembersProofs ----------------------------
(***************************************************************************)
(* Proofs about Members, for any number of names, items and requests, and  *)
(* whatever names are alike.                                               *)
(***************************************************************************)
EXTENDS Members, FiniteSetTheorems, WellFoundedInduction, TLAPS

-----------------------------------------------------------------------------
(***************************************************************************)
(* Sums of functions over finite sets.  A fact about every finite set is   *)
(* shown by its smallest counterexample, which the library's theorems on   *)
(* well-founded orders find for a set that is written down.                *)
(***************************************************************************)
\* A nonempty set of subsets of a finite set has a smallest member: what replaces
\* induction on the size of a set.
LEMMA SmallestSubset ==
  ASSUME NEW S, IsFiniteSet(S), NEW X \in SUBSET SUBSET S, X # {}
  PROVE  \E T \in X : \A U \in X : U \subseteq T => U = T
  <1>1. IsWellFoundedOn(StrictSubsetOrdering(S), SUBSET S)
    BY FS_StrictSubsetOrderingWellFounded, FS_FiniteSubsetsOfFinite
  <1>2. PICK T \in X : \A U \in X : <<U, T>> \notin StrictSubsetOrdering(S)
    BY <1>1, WFMin
  <1>3. ASSUME NEW U \in X, U \subseteq T, U # T PROVE FALSE
    <2>1. <<U, T>> \in StrictSubsetOrdering(S)
      BY <1>3 DEF StrictSubsetOrdering
    <2> QED BY <1>2, <2>1
  <1> QED BY <1>3

AnyOf(s) == CHOOSE x \in s : TRUE
SumBody(g, f, s) == IF s = {} THEN 0 ELSE f[AnyOf(s)] + g[s \ {AnyOf(s)}]
Sums(g, f, S) == g = [s \in SUBSET S |-> SumBody(g, f, s)]

LEMMA AnyIsIn == ASSUME NEW s, s # {} PROVE AnyOf(s) \in s
  BY DEF AnyOf

LEMMA SumsAgree ==
  ASSUME NEW f, NEW S, IsFiniteSet(S), NEW T, NEW g, NEW h,
         Sums(g, f, S), Sums(h, f, T), NEW s \in SUBSET S, s \in SUBSET T
  PROVE  g[s] = h[s]
  <1> DEFINE X == {u \in SUBSET s : g[u] # h[u]}
  <1> SUFFICES ASSUME X # {} PROVE FALSE
    OBVIOUS
  <1>1. IsFiniteSet(s) /\ X \in SUBSET SUBSET s
    BY FS_Subset
  <1>2. PICK u \in X : \A v \in X : v \subseteq u => v = u
    <2> HIDE DEF X
    <2> QED BY <1>1, SmallestSubset
  <1>3. g[u] = SumBody(g, f, u) /\ h[u] = SumBody(h, f, u)
    BY DEF Sums
  <1>4. u # {}
    BY <1>2, <1>3 DEF SumBody
  <1>5. AnyOf(u) \in u
    BY <1>4, AnyIsIn
  <1>6. g[u \ {AnyOf(u)}] = h[u \ {AnyOf(u)}]
    BY <1>2, <1>5
  <1> QED BY <1>2, <1>3, <1>4, <1>6 DEF SumBody

LEMMA SumsExist ==
  ASSUME NEW f, NEW S, IsFiniteSet(S)
  PROVE  \E g : Sums(g, f, S)
  <1> DEFINE X == {T \in SUBSET S : ~ \E g : Sums(g, f, T)}
  <1> SUFFICES ASSUME X # {} PROVE FALSE
    OBVIOUS
  <1>0. X \in SUBSET SUBSET S
    OBVIOUS
  <1>1. PICK T \in X : \A U \in X : U \subseteq T => U = T
    <2> HIDE DEF X
    <2> QED BY <1>0, SmallestSubset
  <1> DEFINE sumsOf(U) == CHOOSE g : Sums(g, f, U)
             part == [U \in SUBSET T |-> sumsOf(U)[U]]
             whole == [U \in SUBSET T |-> IF U = T THEN SumBody(part, f, T) ELSE part[U]]
  <1>2. \A U \in SUBSET T : U # T => Sums(sumsOf(U), f, U)
    <2> SUFFICES ASSUME NEW U \in SUBSET T, U # T PROVE \E g : Sums(g, f, U)
      OBVIOUS
    <2> QED BY <1>1
  <1> HIDE DEF sumsOf
  <1>3. \A U \in SUBSET T : U # T => part[U] = SumBody(part, f, U)
    <2> SUFFICES ASSUME NEW U \in SUBSET T, U # T PROVE part[U] = SumBody(part, f, U)
      OBVIOUS
    <2>1. part[U] = SumBody(sumsOf(U), f, U)
      BY <1>2 DEF Sums
    <2>2. CASE U = {}
      <3> HIDE DEF part
      <3> QED BY <2>1, <2>2 DEF SumBody
    <2>3. CASE U # {}
      <3> DEFINE V == U \ {AnyOf(U)}
      <3>1. AnyOf(U) \in U
        BY <2>3, AnyIsIn
      <3>2. V \in SUBSET T /\ V # T /\ V \in SUBSET U /\ V \in SUBSET V /\ IsFiniteSet(U)
        BY <3>1, FS_Subset
      <3>3. Sums(sumsOf(U), f, U) /\ Sums(sumsOf(V), f, V)
        BY <1>2, <3>2
      <3>4. sumsOf(U)[V] = sumsOf(V)[V]
        <4> HIDE DEF V, part
        <4> QED BY <3>2, <3>3, SumsAgree
      <3>5. part[V] = sumsOf(U)[V]
        BY <3>2, <3>4
      <3> HIDE DEF part
      <3> QED BY <2>1, <2>3, <3>5 DEF SumBody
    <2> QED BY <2>2, <2>3
  <1> HIDE DEF part
  <1>4. \A U \in SUBSET T : SumBody(whole, f, U) = SumBody(part, f, U)
    <2> SUFFICES ASSUME NEW U \in SUBSET T, U # {}
                 PROVE  whole[U \ {AnyOf(U)}] = part[U \ {AnyOf(U)}]
      BY DEF SumBody
    <2>1. AnyOf(U) \in U
      BY AnyIsIn
    <2> QED BY <2>1
  <1>5. Sums(whole, f, T)
    BY <1>3, <1>4 DEF Sums
  <1> QED BY <1>1, <1>5

LEMMA SumIs ==
  ASSUME NEW f, NEW S, IsFiniteSet(S), NEW g, Sums(g, f, S)
  PROVE  \A T \in SUBSET S : SumFunctionOnSet(f, T) = g[T]
  <1> TAKE T \in SUBSET S
  <1> DEFINE h == CHOOSE h : Sums(h, f, T)
  <1>1. IsFiniteSet(T)
    BY FS_Subset
  <1>2. Sums(h, f, T)
    BY <1>1, SumsExist
  <1>3. SumFunctionOnSet(f, T) = h[T]
    BY DEF SumFunctionOnSet, FoldFunctionOnSet, MapThenFoldSet, Sums, SumBody, AnyOf
  <1> HIDE DEF h
  <1> QED BY <1>1, <1>2, <1>3, SumsAgree

LEMMA SumStep ==
  ASSUME NEW f, NEW S, IsFiniteSet(S)
  PROVE  SumFunctionOnSet(f, S) =
           IF S = {} THEN 0 ELSE f[AnyOf(S)] + SumFunctionOnSet(f, S \ {AnyOf(S)})
  <1>1. PICK g : Sums(g, f, S)
    BY SumsExist
  <1>2. \A T \in SUBSET S : SumFunctionOnSet(f, T) = g[T]
    BY <1>1, SumIs
  <1>3. g[S] = SumBody(g, f, S)
    BY <1>1 DEF Sums
  <1>4. SumFunctionOnSet(f, S) = g[S] /\ SumFunctionOnSet(f, S \ {AnyOf(S)}) = g[S \ {AnyOf(S)}]
    BY <1>2
  <1> QED BY <1>3, <1>4 DEF SumBody

\* Adding c to one value adds c to the sum; other values that are alike count alike.
LEMMA SumChange ==
  ASSUME NEW S, IsFiniteSet(S), NEW f, NEW h, NEW k, NEW c \in Int,
         \A x \in S : f[x] \in Int /\ h[x] = IF x = k THEN f[x] + c ELSE f[x]
  PROVE  /\ SumFunctionOnSet(f, S) \in Int
         /\ SumFunctionOnSet(h, S) = SumFunctionOnSet(f, S) + IF k \in S THEN c ELSE 0
  <1> DEFINE Good(T) == 
               /\ SumFunctionOnSet(f, T) \in Int
               /\ SumFunctionOnSet(h, T) = SumFunctionOnSet(f, T) + IF k \in T THEN c ELSE 0
             X == {T \in SUBSET S : ~Good(T)}
  <1> SUFFICES ASSUME X # {} PROVE FALSE
    OBVIOUS
  <1>0. X \in SUBSET SUBSET S
    OBVIOUS
  <1>1. PICK T \in X : \A U \in X : U \subseteq T => U = T
    <2> HIDE DEF X
    <2> QED BY <1>0, SmallestSubset
  <1>2. IsFiniteSet(T)
    BY FS_Subset
  <1> DEFINE x == AnyOf(T)
             U == T \ {x}
  <1>3. /\ SumFunctionOnSet(f, T) = IF T = {} THEN 0 ELSE f[x] + SumFunctionOnSet(f, U)
        /\ SumFunctionOnSet(h, T) = IF T = {} THEN 0 ELSE h[x] + SumFunctionOnSet(h, U)
    BY <1>2, SumStep
  <1>4. T # {}
    BY <1>1, <1>3
  <1>5. x \in T
    BY <1>4, AnyIsIn
  <1>6. Good(U)
    BY <1>1, <1>5
  <1>7. f[x] \in Int /\ h[x] = IF x = k THEN f[x] + c ELSE f[x]
    BY <1>5
  <1>8. k \in T <=> k = x \/ k \in U
    BY <1>5
  <1>9. ~(k = x /\ k \in U)
    OBVIOUS
  <1> HIDE DEF x, U
  <1>10. Good(T)
    BY <1>3, <1>4, <1>6, <1>7, <1>8, <1>9
  <1> QED BY <1>1, <1>10

-----------------------------------------------------------------------------
LEMMA InitInv == Init => MembersInv
  <1> SUFFICES ASSUME Init PROVE MembersInv
    OBVIOUS
  <1>1. (CHOOSE i \in Items : TRUE) \in Items
    BY ItemsAssumption
  <1>2. TypeOK
    BY <1>1, NumbersAssumption DEF Init, TypeOK, Creating
  <1>3. RowInv /\ GiverInv /\ GiftInv
    BY DEF Init, RowInv, GiverInv, GiftInv, Giving
  <1>4. ItemsAccounted
    BY DEF Init, ItemsAccounted
  <1> QED BY <1>2, <1>3, <1>4 DEF MembersInv

\* Requests that move on outside of the giving, or that break it off, leave the
\* rest of the invariant alone.
LEMMA QuietInv ==
  ASSUME MembersInv, TypeOK',
         UNCHANGED <<tables, who, left, given, bought>>,
         broken \subseteq broken',
         \A q \in Requests :
           /\ Giving(q)' => Giving(q)
           /\ pc'[q] = "insert item" => item'[q] \in left[q]
           /\ Giving(q) /\ left[q] # {} /\ ~Giving(q)' => who[q] \in broken'
  PROVE  MembersInv'
  <1> USE DEF MembersInv, tables
  <1>1. RowInv' /\ ItemsAccounted'
    BY DEF RowInv, ItemsAccounted, Owed, Alone
  <1>2. GiverInv'
    BY DEF GiverInv
  <1>3. GiftInv'
    <2> SUFFICES ASSUME NEW n \in members, NEW i \in Items,
                        <<n, i>> \notin given, n \notin broken'
                 PROVE  \E q \in Requests : Giving(q)' /\ who[q] = n /\ i \in left[q]
      BY DEF GiftInv
    <2>1. PICK q \in Requests : Giving(q) /\ who[q] = n /\ i \in left[q]
      BY DEF GiftInv
    <2> QED BY <2>1
  <1> QED BY <1>1, <1>2, <1>3

LEMMA NotifyInv ==
  ASSUME MembersInv, NEW q \in Requests, Notify(q) \/ Answer(q) \/ Fails(q)
  PROVE  MembersInv'
  <1>1. TypeOK'
    <2>1. CASE Notify(q)
      BY <2>1 DEF MembersInv, TypeOK, Notify, Goto, Creating, tables
    <2>2. CASE Answer(q)
      BY <2>2 DEF MembersInv, TypeOK, Answer, Goto, Creating, tables
    <2>3. CASE Fails(q)
      <3>1. broken' \subseteq Names
        BY <2>3 DEF MembersInv, TypeOK, Fails, Broken
      <3> QED BY <2>3, <3>1 DEF MembersInv, TypeOK, Fails, Goto, tables
    <2> QED BY <2>1, <2>2, <2>3
  <1>2. CASE Notify(q) \/ Answer(q)
    <2>1. \A r \in Requests : r # q => pc'[r] = pc[r]
      BY <1>2 DEF Notify, Answer, Goto, MembersInv, TypeOK
    <2>2. pc'[q] \in {"answered", "insert member"} /\ UNCHANGED item
      BY <1>2 DEF Notify, Answer, Goto, MembersInv, TypeOK
    <2>3. Giving(q) => left[q] = {}
      BY <1>2 DEF Notify, Answer, Giving
    <2>4. UNCHANGED <<tables, who, left, given, bought, broken>>
      BY <1>2 DEF Notify, Answer
    <2> QED BY <1>1, <2>1, <2>2, <2>3, <2>4, QuietInv DEF Giving, MembersInv, GiverInv
  <1>3. CASE Fails(q)
    <2>1. \A r \in Requests : r # q => pc'[r] = pc[r]
      BY <1>3 DEF Fails, Goto, MembersInv, TypeOK
    <2>2. pc'[q] = "failed" /\ UNCHANGED <<tables, who, left, item, given, bought>>
      BY <1>3 DEF Fails, Goto, MembersInv, TypeOK
    <2>3. broken \subseteq broken' /\ (Giving(q) => who[q] \in broken')
      BY <1>3 DEF Fails, Broken, Giving
    <2> QED BY <1>1, <2>1, <2>2, <2>3, QuietInv DEF Giving, MembersInv, GiverInv
  <1> QED BY <1>2, <1>3

LEMMA RestartInv ==
  ASSUME MembersInv, Restart
  PROVE  MembersInv'
  <1>1. TypeOK'
    BY DEF MembersInv, TypeOK, Restart, Creating, tables, Broken
  <1>2. \A q \in Requests : ~Giving(q)'
    BY DEF Restart, Creating, Giving
  <1>3. \A q \in Requests : Giving(q) => who[q] \in broken'
    BY DEF Restart, Broken, Giving
  <1>4. broken \subseteq broken' /\ UNCHANGED <<tables, who, left, item, given, bought>>
    BY DEF Restart, Broken
  <1>5. \A q \in Requests : pc'[q] # "insert item"
    BY <1>2 DEF Giving
  <1> QED BY <1>1, <1>2, <1>3, <1>4, <1>5, QuietInv

LEMMA FindNoRowInv ==
  ASSUME MembersInv, NEW q \in Requests, NEW i \in Items, FindNoRow(q, i)
  PROVE  MembersInv'
  <1>1. TypeOK'
    BY DEF MembersInv, TypeOK, FindNoRow, Goto, Creating, tables
  <1>2. \A r \in Requests : r # q => pc'[r] = pc[r] /\ item'[r] = item[r]
    BY DEF FindNoRow, Goto, MembersInv, TypeOK
  <1>3. pc'[q] = "insert item" /\ item'[q] = i /\ i \in left[q] /\ Giving(q)
    BY DEF FindNoRow, Goto, MembersInv, TypeOK, Giving
  <1>4. UNCHANGED <<tables, who, left, given, bought, broken>>
    BY DEF FindNoRow
  <1> QED BY <1>1, <1>2, <1>3, <1>4, QuietInv DEF Giving, MembersInv, GiverInv

LEMMA InsertMemberInv ==
  ASSUME MembersInv, NEW q \in Requests, InsertMember(q)
  PROVE  MembersInv'
  <1> USE DEF MembersInv
  <1>1. TypeOK'
    <2>1. members' \subseteq Names
      <3>1. who[q] \in Names
        BY DEF TypeOK
      <3>2. members' = members \/ members' = members \cup {who[q]}
        BY DEF InsertMember
      <3> QED BY <3>1, <3>2 DEF TypeOK
    <2>2. pc' \in [Requests -> Creating \cup {"idle", "answered", "failed"}]
      BY DEF TypeOK, InsertMember, Goto, Creating
    <2>3. left' \in [Requests -> SUBSET Items]
      BY DEF TypeOK, InsertMember
    <2> QED BY <2>1, <2>2, <2>3 DEF TypeOK, InsertMember
  <1>2. \A r \in Requests : r # q => pc'[r] = pc[r] /\ left'[r] = left[r]
    BY DEF InsertMember, Goto, TypeOK
  <1>3. UNCHANGED <<rows, count, who, item, given, bought, broken>> /\ ~Giving(q)
    BY DEF InsertMember, Giving
  <1>4. CASE who[q] \in members
    <2>1. pc'[q] = "failed" /\ UNCHANGED <<members, left>>
      BY <1>4 DEF InsertMember, Goto, TypeOK
    <2> QED BY <1>1, <1>2, <1>3, <2>1, QuietInv DEF Giving, GiverInv, tables
  <1>5. CASE who[q] \notin members
    <2>1. /\ pc'[q] = "give" /\ left'[q] = Items
          /\ members' = members \cup {who[q]}
      BY <1>5 DEF InsertMember, Goto, TypeOK
    <2>2. RowInv'
      BY <1>3, <2>1 DEF RowInv
    <2>3. GiverInv'
      <3>1. \A i \in Items : <<who[q], i>> \notin given
        BY <1>5 DEF RowInv
      <3>2. \A r \in Requests : Giving(r) => who[r] # who[q]
        BY <1>5 DEF GiverInv
      <3> QED BY <1>2, <1>3, <2>1, <3>1, <3>2 DEF GiverInv, Giving
    <2>4. GiftInv'
      <3>1. \A i \in Items : Giving(q)' /\ who'[q] = who[q] /\ i \in left'[q]
        BY <1>3, <2>1 DEF Giving
      <3>2. \A r \in Requests : Giving(r) =>
              Giving(r)' /\ who'[r] = who[r] /\ left'[r] = left[r]
        BY <1>2, <1>3 DEF Giving
      <3> SUFFICES ASSUME NEW n \in members', NEW i \in Items,
                          <<n, i>> \notin given, n \notin broken
                   PROVE  \E r \in Requests : Giving(r)' /\ who'[r] = n /\ i \in left'[r]
        BY <1>3 DEF GiftInv
      <3>3. CASE n = who[q]
        BY <3>1, <3>3
      <3>4. CASE n \in members
        <4>1. PICK r \in Requests : Giving(r) /\ who[r] = n /\ i \in left[r]
          BY <3>4 DEF GiftInv
        <4> QED BY <3>2, <4>1
      <3> QED BY <2>1, <3>3, <3>4
    <2>5. ItemsAccounted'
      <3>1. \A i \in Items : count[<<who[q], i>>] = 0 /\ Owed(<<who[q], i>>) = 0
        <4> TAKE i \in Items
        <4>1. who[q] \in Names /\ who[q] # Unknown
          BY NamesAssumption DEF TypeOK
        <4>2. <<who[q], i>> \in Keys \ rows
          BY <1>5, <4>1 DEF RowInv, Keys, Owners
        <4>3. <<who[q], i>> \notin given /\ bought[<<who[q], i>>] = 0
          BY <1>5, <4>1 DEF RowInv
        <4> QED BY <4>2, <4>3 DEF RowInv, Owed
      <3> QED BY <1>3, <2>1, <3>1 DEF ItemsAccounted, Owed, Alone
    <2> QED BY <1>1, <2>2, <2>3, <2>4, <2>5
  <1> QED BY <1>4, <1>5

\* A gift that is put down for a name, and added where the name is found.
LEMMA GiftIsGiven ==
  ASSUME MembersInv, TypeOK',
         NEW q \in Requests, NEW i \in Items, NEW k \in Keys,
         Giving(q), i \in left[q], IsGiven(q, i),
         k[1] \in Alike[who[q]] /\ k[2] = i,
         count' = [count EXCEPT ![k] = @ + Gift],
         rows' = rows \cup {k}, k \in rows \/ k[1] = who[q],
         pc' = [pc EXCEPT ![q] = "give"],
         UNCHANGED <<members, who, item, bought, broken>>
  PROVE  MembersInv'
  <1> USE DEF MembersInv, IsGiven
  <1>1. who[q] \in members /\ who[q] \in Names /\ <<who[q], i>> \notin given
    BY DEF GiverInv, TypeOK
  <1>2. /\ \A r \in Requests : r # q => pc'[r] = pc[r] /\ left'[r] = left[r]
        /\ pc'[q] = "give" /\ left'[q] = left[q] \ {i}
    BY DEF TypeOK
  <1>3. RowInv'
    <2>1. \A x \in rows' : x[1] \in members' \cup {Unknown}
      BY <1>1 DEF RowInv
    <2>2. \A x \in Keys \ rows' : count'[x] = 0
      BY DEF RowInv, TypeOK
    <2>3. \A x \in given' : x[1] \in members'
      BY <1>1 DEF RowInv
    <2> QED BY <2>1, <2>2, <2>3 DEF RowInv
  <1>4. GiverInv'
    <2> SUFFICES ASSUME NEW r \in Requests, Giving(r)'
                 PROVE  /\ who[r] \in members
                        /\ \A j \in left'[r] : <<who[r], j>> \notin given'
                        /\ pc'[r] = "insert item" => item[r] \in left'[r]
                        /\ \A s \in Requests : Giving(s)' /\ who[s] = who[r] => s = r
      BY DEF GiverInv
    <2>1. Giving(r)
      BY <1>2 DEF Giving
    <2>2. \A s \in Requests : Giving(s)' => Giving(s)
      BY <1>2 DEF Giving
    <2>3. \A j \in left'[r] : <<who[r], j>> \notin given'
      <3>1. CASE r = q
        BY <1>2, <2>1, <3>1 DEF GiverInv
      <3>2. CASE r # q
        <4>1. who[r] # who[q]
          BY <2>1, <3>2 DEF GiverInv
        <4> QED BY <1>2, <2>1, <3>2, <4>1 DEF GiverInv
      <3> QED BY <3>1, <3>2
    <2>4. pc'[r] = "insert item" => item[r] \in left'[r]
      BY <1>2, <2>1 DEF GiverInv
    <2> QED BY <2>1, <2>2, <2>3, <2>4 DEF GiverInv
  <1>5. GiftInv'
    <2> SUFFICES ASSUME NEW n \in members', NEW j \in Items,
                        <<n, j>> \notin given', n \notin broken'
                 PROVE  \E r \in Requests : Giving(r)' /\ who'[r] = n /\ j \in left'[r]
      BY DEF GiftInv
    <2>1. PICK r \in Requests : Giving(r) /\ who[r] = n /\ j \in left[r]
      BY DEF GiftInv
    <2>2. Giving(r)'
      BY <1>2, <2>1 DEF Giving
    <2>3. j \in left'[r]
      BY <1>2, <2>1
    <2> QED BY <2>1, <2>2, <2>3
  <1>6. ItemsAccounted'
    <2> SUFFICES ASSUME NEW n \in members, NEW j \in Items, Alone(n)
                 PROVE  count'[<<n, j>>] = Owed(<<n, j>>)'
      BY DEF ItemsAccounted, Alone
    <2>1. n \in Names /\ <<n, j>> \in Keys
      BY DEF TypeOK, Keys, Owners
    <2>2. count[<<n, j>>] = Owed(<<n, j>>)
      BY DEF ItemsAccounted
    <2>3. count[<<n, j>>] \in Nat /\ bought[<<n, j>>] \in Int /\ Gift \in Nat
      BY <2>1, NumbersAssumption DEF TypeOK
    <2>4. n = who[q] => k[1] = n
      BY <1>1, AlikeAssumption DEF Alone
    <2>5. k[1] = n => n = who[q]
      BY <1>1 DEF Alone
    <2>6. k = <<k[1], k[2]>>
      BY DEF Keys
    <2>7. k = <<n, j>> <=> <<n, j>> = <<who[q], i>>
      BY <2>4, <2>5, <2>6
    <2>8. CASE k = <<n, j>>
      <3>1. count'[<<n, j>>] = count[<<n, j>>] + Gift
        BY <2>1, <2>8 DEF TypeOK
      <3>2. <<n, j>> \in given' /\ <<n, j>> \notin given
        BY <1>1, <2>7, <2>8
      <3> QED BY <2>2, <2>3, <3>1, <3>2 DEF Owed
    <2>9. CASE k # <<n, j>>
      <3>1. count'[<<n, j>>] = count[<<n, j>>]
        BY <2>1, <2>9 DEF TypeOK
      <3>2. <<n, j>> \in given' <=> <<n, j>> \in given
        BY <2>7, <2>9
      <3> QED BY <2>2, <3>1, <3>2 DEF Owed
    <2> QED BY <2>8, <2>9
  <1> QED BY <1>3, <1>4, <1>5, <1>6

LEMMA GiveFoundInv ==
  ASSUME MembersInv, NEW q \in Requests, NEW i \in Items, GiveFound(q, i)
  PROVE  MembersInv'
  <1>1. PICK k \in Found(who[q], i) : Add(k, Gift)
    BY DEF GiveFound
  <1>2. k \in rows /\ k \in Keys /\ k[1] \in Alike[who[q]] /\ k[2] = i
    BY DEF Found, MembersInv, TypeOK
  <1>3. count[k] + Gift \in Nat
    BY <1>2, NumbersAssumption DEF MembersInv, TypeOK
  <1>4. TypeOK'
    <2>1. count' \in [Keys -> Nat] /\ UNCHANGED rows
      BY <1>1, <1>2, <1>3 DEF Add, MembersInv, TypeOK
    <2>2. given' \subseteq Names \X Items /\ left' \in [Requests -> SUBSET Items]
      BY DEF GiveFound, IsGiven, MembersInv, TypeOK
    <2>3. UNCHANGED <<members, pc, who, item, bought, lost, broken, moves>>
      BY DEF GiveFound
    <2> QED BY <2>1, <2>2, <2>3 DEF MembersInv, TypeOK
  <1>5. pc' = [pc EXCEPT ![q] = "give"] /\ Giving(q)
    BY DEF GiveFound, MembersInv, TypeOK, Giving
  <1>6. rows' = rows \cup {k}
    BY <1>1, <1>2 DEF Add
  <1> QED BY <1>1, <1>2, <1>4, <1>5, <1>6, GiftIsGiven DEF GiveFound, Add

LEMMA InsertItemInv ==
  ASSUME MembersInv, NEW q \in Requests, InsertItem(q)
  PROVE  MembersInv'
  <1> DEFINE k == <<who[q], item[q]>>
  <1>1. who[q] \in Names /\ item[q] \in Items /\ k \in Keys
    BY DEF MembersInv, TypeOK, Keys, Owners
  <1>2. k \notin rows /\ count[k] = 0
    BY <1>1 DEF InsertItem, Insert, MembersInv, RowInv
  <1>3. count' = [count EXCEPT ![k] = @ + Gift] /\ rows' = rows \cup {k}
    <2>1. count[k] + Gift = Gift
      BY <1>2, NumbersAssumption
    <2> QED BY <2>1 DEF InsertItem, Insert
  <1>4. TypeOK'
    BY <1>1, NumbersAssumption DEF InsertItem, Insert, IsGiven, Goto, MembersInv, TypeOK,
       Creating
  <1>5. Giving(q) /\ item[q] \in left[q]
    BY DEF InsertItem, Giving, MembersInv, GiverInv
  <1>6. k[1] \in Alike[who[q]] /\ k[2] = item[q]
    BY <1>1, AlikeAssumption
  <1> QED
    BY <1>1, <1>3, <1>4, <1>5, <1>6, GiftIsGiven DEF InsertItem, Goto

\* Purchases and uses: what is added to the rows of a name is put down for it.
LEMMA MoveInv ==
  ASSUME MembersInv, TypeOK', NEW n \in Names, NEW i \in Items, NEW c \in Int,
         NEW k \in Keys, k[2] = i,
         count' = [count EXCEPT ![k] = @ + c], rows \subseteq rows', k \in rows',
         rows' \subseteq rows \cup {k},
         k \in rows \/ k[1] \in members \cup {Unknown},
         k[1] \in Alike[n] \/ (k[1] = Unknown /\ n \notin members),
         n \in members => bought' = [bought EXCEPT ![<<n, i>>] = @ + c],
         n \notin members => UNCHANGED bought,
         UNCHANGED <<members, requests, given, broken>>
  PROVE  MembersInv'
  <1> USE DEF MembersInv, requests
  <1>1. RowInv'
    <2>1. \A x \in Keys \ rows' : count'[x] = 0
      BY DEF RowInv, TypeOK
    <2>2. \A m \in Names \ members, j \in Items : bought'[<<m, j>>] = 0
      BY DEF RowInv, TypeOK
    <2> QED BY <2>1, <2>2 DEF RowInv
  <1>2. GiverInv' /\ GiftInv'
    <2>1. \A q \in Requests : Giving(q)' <=> Giving(q)
      BY DEF Giving
    <2>2. GiverInv'
      BY <2>1 DEF GiverInv
    <2>3. GiftInv'
      <3>1. UNCHANGED <<members, who, left, given, broken>>
        OBVIOUS
      <3> SUFFICES ASSUME NEW m \in members', NEW j \in Items,
                          <<m, j>> \notin given', m \notin broken'
                   PROVE  \E q \in Requests : Giving(q)' /\ who'[q] = m /\ j \in left'[q]
        BY DEF GiftInv
      <3>2. PICK q \in Requests : Giving(q) /\ who[q] = m /\ j \in left[q]
        BY <3>1 DEF GiftInv
      <3> QED BY <2>1, <3>1, <3>2
    <2> QED BY <2>2, <2>3
  <1>3. ItemsAccounted'
    <2> SUFFICES ASSUME NEW m \in members, NEW j \in Items, Alone(m)
                 PROVE  count'[<<m, j>>] = Owed(<<m, j>>)'
      BY DEF ItemsAccounted, Alone
    <2>1. m \in Names /\ m # Unknown /\ <<m, j>> \in Keys /\ <<m, j>> \in Names \X Items
      BY NamesAssumption DEF TypeOK, Keys, Owners
    <2>2. count[<<m, j>>] = Owed(<<m, j>>)
      BY DEF ItemsAccounted
    <2>3. count[<<m, j>>] \in Nat /\ bought[<<m, j>>] \in Int /\ Gift \in Nat
      BY <2>1, NumbersAssumption DEF TypeOK
    <2>4. m = n => k[1] = m
      BY <2>1, AlikeAssumption DEF Alone
    <2>5. k[1] = m => m = n
      BY <2>1 DEF Alone
    <2>6. k = <<k[1], k[2]>>
      BY DEF Keys
    <2>7. k = <<m, j>> <=> <<m, j>> = <<n, i>>
      BY <2>4, <2>5, <2>6
    <2>8. CASE k = <<m, j>>
      <3>1. count'[<<m, j>>] = count[<<m, j>>] + c
        BY <2>1, <2>8 DEF TypeOK
      <3>2. bought'[<<m, j>>] = bought[<<m, j>>] + c
        BY <2>1, <2>7, <2>8 DEF TypeOK
      <3> QED BY <2>2, <2>3, <3>1, <3>2 DEF Owed
    <2>9. CASE k # <<m, j>>
      <3>1. count'[<<m, j>>] = count[<<m, j>>]
        BY <2>1, <2>9 DEF TypeOK
      <3>2. bought'[<<m, j>>] = bought[<<m, j>>]
        BY <2>1, <2>7, <2>9 DEF TypeOK
      <3> QED BY <2>2, <3>1, <3>2 DEF Owed
    <2> QED BY <2>8, <2>9
  <1> QED BY <1>1, <1>2, <1>3

\* A delivery adds to one row of the item, or inserts it.
LEMMA DeliverRow ==
  ASSUME MembersInv, NEW n \in Names, NEW i \in Items, DeliverItem(n, i)
  PROVE  \E k \in Keys :
           /\ k[2] = i
           /\ count' = [count EXCEPT ![k] = @ + 1]
           /\ rows \subseteq rows' /\ k \in rows' /\ rows' \subseteq rows \cup {k}
           /\ k \in rows \/ k[1] \in members \cup {Unknown}
           /\ k[1] \in Alike[n] \/ (k[1] = Unknown /\ n \notin members)
  <1>1. CASE Found(n, i) # {}
    <2>1. PICK k \in Found(n, i) : Add(k, 1)
      BY <1>1 DEF DeliverItem
    <2>2. k \in rows /\ k \in Keys /\ k[1] \in Alike[n] /\ k[2] = i
      BY DEF Found, MembersInv, TypeOK
    <2> QED BY <2>1, <2>2 DEF Add
  <1>2. CASE Found(n, i) = {}
    <2> DEFINE k == IF n \in members THEN <<n, i>> ELSE <<Unknown, i>>
    <2>1. Insert(k, 1)
      BY <1>2 DEF DeliverItem
    <2>2. k \in Keys /\ k[2] = i
      BY DEF Keys, Owners
    <2>3. /\ k[1] \in members \cup {Unknown}
          /\ k[1] \in Alike[n] \/ (k[1] = Unknown /\ n \notin members)
      BY AlikeAssumption
    <2> HIDE DEF k
    <2>4. k \notin rows /\ count[k] = 0 /\ rows' = rows \cup {k}
      BY <2>1, <2>2 DEF Insert, MembersInv, RowInv
    <2>5. count' = [count EXCEPT ![k] = @ + 1]
      BY <2>1, <2>4 DEF Insert
    <2> QED BY <2>2, <2>3, <2>4, <2>5
  <1> QED BY <1>1, <1>2

LEMMA DeliverInv ==
  ASSUME MembersInv, NEW n \in Names, NEW i \in Items, DeliverItem(n, i)
  PROVE  MembersInv'
  <1>1. PICK k \in Keys :
          /\ k[2] = i
          /\ count' = [count EXCEPT ![k] = @ + 1]
          /\ rows \subseteq rows' /\ k \in rows' /\ rows' \subseteq rows \cup {k}
          /\ k \in rows \/ k[1] \in members \cup {Unknown}
          /\ k[1] \in Alike[n] \/ (k[1] = Unknown /\ n \notin members)
    BY DeliverRow
  <1>2. UNCHANGED <<members, requests, given, broken>>
    BY DEF DeliverItem
  <1>3. /\ n \in members => bought' = [bought EXCEPT ![<<n, i>>] = @ + 1]
        /\ n \notin members => UNCHANGED bought
    BY DEF DeliverItem
  <1>4. TypeOK'
    <2>1. count' \in [Keys -> Nat] /\ rows' \subseteq Keys
      BY <1>1 DEF MembersInv, TypeOK
    <2>2. bought' \in [Names \X Items -> Int] /\ lost' \in [Items -> Nat]
      BY DEF DeliverItem, MembersInv, TypeOK
    <2>3. moves' \in 0 .. MaxMoves
      BY NumbersAssumption DEF DeliverItem, Move, MembersInv, TypeOK
    <2>4. UNCHANGED <<members, pc, who, left, item, given, broken>>
      BY <1>2 DEF requests
    <2> QED BY <2>1, <2>2, <2>3, <2>4 DEF MembersInv, TypeOK
  <1>5. 1 \in Int
    OBVIOUS
  <1> QED BY <1>1, <1>2, <1>3, <1>4, <1>5, MoveInv

LEMMA UseInv ==
  ASSUME MembersInv, NEW n \in Names, NEW i \in Items, UseItem(n, i)
  PROVE  MembersInv'
  <1> DEFINE k == <<n, i>>
  <1>1. k \in Keys /\ k \in Names \X Items /\ k[1] = n /\ k[2] = i
    BY DEF Keys, Owners
  <1>2. k \in rows
    BY <1>1 DEF UseItem, MembersInv, RowInv
  <1>3. n \in members
    BY <1>1, <1>2, NamesAssumption DEF MembersInv, RowInv
  <1>4. /\ count' = [count EXCEPT ![k] = @ + (-1)] /\ UNCHANGED rows
        /\ bought' = [bought EXCEPT ![k] = @ + (-1)]
    <2>1. bought[k] \in Int
      BY <1>1 DEF MembersInv, TypeOK
    <2> QED BY <2>1 DEF UseItem, Add
  <1>5. UNCHANGED <<members, requests, given, broken>>
    BY DEF UseItem
  <1>6. TypeOK'
    <2>1. count[k] \in Nat /\ count[k] > 0
      BY <1>1 DEF UseItem, MembersInv, TypeOK
    <2>2. count' \in [Keys -> Nat]
      <3>1. count[k] + (-1) \in Nat
        BY <2>1
      <3> HIDE DEF k
      <3> QED BY <1>4, <3>1 DEF MembersInv, TypeOK
    <2>3. bought' \in [Names \X Items -> Int]
      BY <1>4, <1>1 DEF MembersInv, TypeOK
    <2>4. moves' \in 0 .. MaxMoves /\ UNCHANGED lost
      BY NumbersAssumption DEF UseItem, Move, MembersInv, TypeOK
    <2> QED BY <1>4, <1>5, <2>2, <2>3, <2>4 DEF MembersInv, TypeOK, requests
  <1>7. k[1] \in Alike[n]
    BY AlikeAssumption
  <1>8. -1 \in Int
    OBVIOUS
  <1> HIDE DEF k
  <1>9. bought' = [bought EXCEPT ![<<n, i>>] = @ + (-1)]
    BY <1>4 DEF k
  <1> QED BY <1>1, <1>2, <1>3, <1>4, <1>5, <1>6, <1>7, <1>8, <1>9, MoveInv

-----------------------------------------------------------------------------
(***************************************************************************)
(* The accounts of all owners together.                                    *)
(***************************************************************************)
Held(i) == SumFunction([m \in Owners |-> count[<<m, i>>]])
Due(i)  == SumFunction([n \in Names |-> Owed(<<n, i>>)])

LEMMA FiniteOwners == IsFiniteSet(Names) /\ IsFiniteSet(Owners)
  BY NamesAssumption, FS_AddElement DEF Owners

\* What is put into one row is put into the total of its item.
LEMMA HeldChanges ==
  ASSUME TypeOK, NEW k \in Keys, NEW c \in Int,
         count' = [count EXCEPT ![k] = @ + c]
  PROVE  \A i \in Items :
           Held(i) \in Int /\ Held(i)' = Held(i) + IF k[2] = i THEN c ELSE 0
  <1> TAKE i \in Items
  <1> DEFINE f == [m \in Owners |-> count[<<m, i>>]]
             h == [m \in Owners |-> count'[<<m, i>>]]
             d == IF k[2] = i THEN c ELSE 0
  <1>1. k[1] \in Owners /\ k = <<k[1], k[2]>> /\ d \in Int
    BY DEF Keys
  <1>2. \A m \in Owners : f[m] \in Int /\ h[m] = IF m = k[1] THEN f[m] + d ELSE f[m]
    <2> SUFFICES ASSUME NEW m \in Owners
                 PROVE  /\ count[<<m, i>>] \in Int
                        /\ count'[<<m, i>>]
                             = IF m = k[1] THEN count[<<m, i>>] + d ELSE count[<<m, i>>]
      OBVIOUS
    <2>1. <<m, i>> \in Keys /\ count[<<m, i>>] \in Nat
      BY DEF TypeOK, Keys
    <2>2. <<m, i>> = k <=> m = k[1] /\ k[2] = i
      BY <1>1
    <2> QED BY <2>1, <2>2 DEF TypeOK
  <1>3. /\ Held(i) = SumFunctionOnSet(f, Owners)
        /\ Held(i)' = SumFunctionOnSet(h, Owners)
    BY DEF Held, SumFunction, Owners
  <1> HIDE DEF f, h, d
  <1>4. /\ SumFunctionOnSet(f, Owners) \in Int
        /\ SumFunctionOnSet(h, Owners)
             = SumFunctionOnSet(f, Owners) + IF k[1] \in Owners THEN d ELSE 0
    BY ONLY <1>1, <1>2, FiniteOwners, SumChange
  <1> QED BY <1>1, <1>3, <1>4 DEF d

\* What a name is given or buys is put down in what is due of the item.
LEMMA DueChanges ==
  ASSUME TypeOK, TypeOK', NEW k \in Names \X Items, NEW c \in Int,
         \A x \in Names \X Items : Owed(x)' = IF x = k THEN Owed(x) + c ELSE Owed(x)
  PROVE  \A i \in Items :
           Due(i) \in Int /\ Due(i)' = Due(i) + IF k[2] = i THEN c ELSE 0
  <1> TAKE i \in Items
  <1> DEFINE f == [n \in Names |-> Owed(<<n, i>>)]
             h == [n \in Names |-> Owed(<<n, i>>)']
             d == IF k[2] = i THEN c ELSE 0
  <1>1. k[1] \in Names /\ k = <<k[1], k[2]>> /\ d \in Int
    OBVIOUS
  <1>2. \A n \in Names : f[n] \in Int /\ h[n] = IF n = k[1] THEN f[n] + d ELSE f[n]
    <2> SUFFICES ASSUME NEW n \in Names
                 PROVE  /\ Owed(<<n, i>>) \in Int
                        /\ Owed(<<n, i>>)'
                             = IF n = k[1] THEN Owed(<<n, i>>) + d ELSE Owed(<<n, i>>)
      OBVIOUS
    <2>1. <<n, i>> \in Names \X Items
      OBVIOUS
    <2>2. Owed(<<n, i>>) \in Int
      BY <2>1, NumbersAssumption DEF TypeOK, Owed
    <2>3. <<n, i>> = k <=> n = k[1] /\ k[2] = i
      BY <1>1
    <2>4. Owed(<<n, i>>)' = IF <<n, i>> = k THEN Owed(<<n, i>>) + c ELSE Owed(<<n, i>>)
      BY <2>1
    <2> HIDE DEF Owed
    <2> QED BY <2>2, <2>3, <2>4
  <1>3. /\ Due(i) = SumFunctionOnSet(f, Names)
        /\ Due(i)' = SumFunctionOnSet(h, Names)
    BY DEF Due, SumFunction
  <1> HIDE DEF f, h, d
  <1>4. /\ SumFunctionOnSet(f, Names) \in Int
        /\ SumFunctionOnSet(h, Names)
             = SumFunctionOnSet(f, Names) + IF k[1] \in Names THEN d ELSE 0
    BY ONLY <1>1, <1>2, FiniteOwners, SumChange
  <1> QED BY <1>1, <1>3, <1>4 DEF d

LEMMA SumOfZeros ==
  ASSUME NEW S, IsFiniteSet(S), NEW f, \A x \in S : f[x] = 0
  PROVE  SumFunctionOnSet(f, S) = 0
  <1> DEFINE X == {T \in SUBSET S : SumFunctionOnSet(f, T) # 0}
  <1> SUFFICES ASSUME X # {} PROVE FALSE
    OBVIOUS
  <1>0. X \in SUBSET SUBSET S
    OBVIOUS
  <1>1. PICK T \in X : \A U \in X : U \subseteq T => U = T
    <2> HIDE DEF X
    <2> QED BY <1>0, SmallestSubset
  <1>2. T # {} /\ SumFunctionOnSet(f, T) = f[AnyOf(T)] + SumFunctionOnSet(f, T \ {AnyOf(T)})
    <2>1. IsFiniteSet(T)
      BY FS_Subset
    <2> QED BY <1>1, <2>1, SumStep
  <1>3. AnyOf(T) \in T
    BY <1>2, AnyIsIn
  <1>4. SumFunctionOnSet(f, T \ {AnyOf(T)}) = 0
    BY <1>1, <1>3
  <1> QED BY <1>1, <1>2, <1>3, <1>4

LEMMA InitBalance == Init => NothingLost
  <1> SUFFICES ASSUME Init, NEW i \in Items
               PROVE  SumFunction([m \in Owners |-> count[<<m, i>>]])
                        = SumFunction([n \in Names |-> Owed(<<n, i>>)]) + lost[i]
    BY DEF NothingLost
  <1> DEFINE f == [m \in Owners |-> count[<<m, i>>]]
             h == [n \in Names |-> Owed(<<n, i>>)]
  <1>1. \A m \in Owners : f[m] = 0
    BY DEF Init, Keys
  <1>2. \A n \in Names : h[n] = 0
    BY DEF Init, Owed
  <1>3. SumFunction(f) = SumFunctionOnSet(f, Owners) /\ SumFunction(h) = SumFunctionOnSet(h, Names)
    BY DEF SumFunction
  <1> HIDE DEF f, h
  <1>4. SumFunction(f) = 0 /\ SumFunction(h) = 0
    BY ONLY <1>1, <1>2, <1>3, FiniteOwners, SumOfZeros
  <1>5. lost[i] = 0
    BY DEF Init
  <1> QED BY <1>4, <1>5 DEF f, h

LEMMA LostIsBalance == NothingLost <=> \A i \in Items : Held(i) = Due(i) + lost[i]
  BY DEF NothingLost, Held, Due

\* A gift is given to a name once, and with it what is due grows by as much as what
\* is held.
LEMMA GiftBalance ==
  ASSUME MembersInv, TypeOK', NothingLost,
         NEW q \in Requests, NEW i \in Items, NEW k \in Keys, k[2] = i,
         Giving(q), i \in left[q], IsGiven(q, i),
         count' = [count EXCEPT ![k] = @ + Gift],
         UNCHANGED <<bought, lost>>
  PROVE  NothingLost'
  <1> DEFINE x == <<who[q], i>>
  <1>1. TypeOK /\ x \in Names \X Items /\ x \notin given /\ x[2] = i /\ Gift \in Int
    <2>1. x \notin given
      BY DEF MembersInv, GiverInv
    <2>2. who[q] \in Names
      BY DEF MembersInv, TypeOK
    <2> QED BY <2>1, <2>2, NumbersAssumption DEF MembersInv
  <1>2. given' = given \cup {x}
    BY DEF IsGiven
  <1> HIDE DEF x
  <1>3. \A y \in Names \X Items : Owed(y)' = IF y = x THEN Owed(y) + Gift ELSE Owed(y)
    BY <1>1, <1>2, NumbersAssumption DEF Owed, TypeOK
  <1>4. \A j \in Items :
          Held(j) \in Int /\ Held(j)' = Held(j) + IF k[2] = j THEN Gift ELSE 0
    BY <1>1, HeldChanges
  <1>5. \A j \in Items :
          Due(j) \in Int /\ Due(j)' = Due(j) + IF x[2] = j THEN Gift ELSE 0
    BY ONLY <1>1, <1>3, TypeOK', DueChanges
  <1>6. \A j \in Items : lost[j] \in Int /\ lost'[j] = lost[j]
    BY <1>1 DEF TypeOK
  <1>7. \A j \in Items : Held(j)' = Due(j)' + lost'[j]
    BY <1>1, <1>4, <1>5, <1>6, LostIsBalance
  <1> QED BY <1>7 DEF NothingLost, Held, Due

\* So does what is bought or used, and what nobody is given is put down as lost.
LEMMA MoveBalance ==
  ASSUME MembersInv, TypeOK', NothingLost,
         NEW n \in Names, NEW i \in Items, NEW c \in Int, NEW k \in Keys, k[2] = i,
         count' = [count EXCEPT ![k] = @ + c], UNCHANGED given,
         \/ bought' = [bought EXCEPT ![<<n, i>>] = @ + c] /\ UNCHANGED lost
         \/ lost' = [lost EXCEPT ![i] = @ + c] /\ UNCHANGED bought
  PROVE  NothingLost'
  <1> DEFINE x == <<n, i>>
  <1>1. TypeOK /\ x \in Names \X Items /\ x[2] = i /\ 0 \in Int
    BY DEF MembersInv
  <1>2. \A j \in Items :
          Held(j) \in Int /\ Held(j)' = Held(j) + IF k[2] = j THEN c ELSE 0
    BY <1>1, HeldChanges
  <1>3. \A j \in Items : lost[j] \in Int
    BY <1>1 DEF TypeOK
  <1>4. CASE bought' = [bought EXCEPT ![x] = @ + c] /\ UNCHANGED lost
    <2> HIDE DEF x
    <2>1. \A y \in Names \X Items : Owed(y)' = IF y = x THEN Owed(y) + c ELSE Owed(y)
      BY <1>1, <1>4, NumbersAssumption DEF Owed, TypeOK
    <2>2. \A j \in Items :
            Due(j) \in Int /\ Due(j)' = Due(j) + IF x[2] = j THEN c ELSE 0
      BY ONLY <1>1, <2>1, TypeOK', c \in Int, DueChanges
    <2>3. \A j \in Items : Held(j)' = Due(j)' + lost'[j]
      BY <1>1, <1>2, <1>3, <1>4, <2>2, LostIsBalance
    <2> QED BY <2>3 DEF NothingLost, Held, Due
  <1>5. CASE lost' = [lost EXCEPT ![i] = @ + c] /\ UNCHANGED bought
    <2> HIDE DEF x
    <2>1. \A y \in Names \X Items : Owed(y)' = IF y = x THEN Owed(y) + 0 ELSE Owed(y)
      BY <1>1, <1>5, NumbersAssumption DEF Owed, TypeOK
    <2>2. \A j \in Items :
            Due(j) \in Int /\ Due(j)' = Due(j) + IF x[2] = j THEN 0 ELSE 0
      BY ONLY <1>1, <2>1, TypeOK', DueChanges
    <2>3. \A j \in Items : lost'[j] = lost[j] + IF i = j THEN c ELSE 0
      BY <1>1, <1>3, <1>5 DEF TypeOK
    <2>4. \A j \in Items : Held(j)' = Due(j)' + lost'[j]
      BY <1>1, <1>2, <1>3, <2>2, <2>3, LostIsBalance
    <2> QED BY <2>4 DEF NothingLost, Held, Due
  <1> QED BY <1>4, <1>5

LEMMA NothingLostStep ==
  ASSUME MembersInv, TypeOK', NothingLost, [Next]_vars
  PROVE  NothingLost'
  <1>1. CASE UNCHANGED <<count, given, bought, lost>>
    BY <1>1 DEF NothingLost, Owed, SumFunction
  <1>2. ASSUME NEW q \in Requests, NEW i \in Items, GiveFound(q, i)
        PROVE  NothingLost'
    <2>1. PICK k \in Found(who[q], i) : Add(k, Gift)
      BY <1>2 DEF GiveFound
    <2>2. k \in Keys /\ k[2] = i /\ count' = [count EXCEPT ![k] = @ + Gift]
      BY <2>1 DEF Found, TypeOK, Add, MembersInv
    <2>3. Giving(q) /\ i \in left[q] /\ IsGiven(q, i) /\ UNCHANGED <<bought, lost>>
      BY <1>2 DEF GiveFound, Giving
    <2> QED BY <2>2, <2>3, GiftBalance
  <1>3. ASSUME NEW q \in Requests, InsertItem(q)
        PROVE  NothingLost'
    <2> DEFINE k == <<who[q], item[q]>>
    <2>1. item[q] \in Items /\ k \in Keys /\ k[2] = item[q]
      BY DEF MembersInv, TypeOK, Keys, Owners
    <2>2. Giving(q) /\ item[q] \in left[q] /\ IsGiven(q, item[q])
      BY <1>3 DEF InsertItem, Giving, GiverInv, MembersInv
    <2>3. count[k] = 0 /\ count' = [count EXCEPT ![k] = Gift] /\ UNCHANGED <<bought, lost>>
      BY <1>3, <2>1 DEF InsertItem, Insert, RowInv, MembersInv
    <2> HIDE DEF k
    <2>4. count' = [count EXCEPT ![k] = @ + Gift]
      BY <2>3, NumbersAssumption
    <2> QED BY <2>1, <2>2, <2>3, <2>4, GiftBalance
  <1>4. ASSUME NEW n \in Names, NEW i \in Items, DeliverItem(n, i)
        PROVE  NothingLost'
    <2>1. PICK k \in Keys : k[2] = i /\ count' = [count EXCEPT ![k] = @ + 1]
      BY <1>4, DeliverRow
    <2>2. /\ \/ bought' = [bought EXCEPT ![<<n, i>>] = @ + 1] /\ UNCHANGED lost
             \/ lost' = [lost EXCEPT ![i] = @ + 1] /\ UNCHANGED bought
          /\ UNCHANGED given
      BY <1>4 DEF DeliverItem
    <2>3. 1 \in Int
      OBVIOUS
    <2> QED BY <2>1, <2>2, <2>3, MoveBalance
  <1>5. ASSUME NEW n \in Names, NEW i \in Items, UseItem(n, i)
        PROVE  NothingLost'
    <2> DEFINE k == <<n, i>>
    <2>1. k \in Keys /\ k[2] = i /\ -1 \in Int
      BY DEF Keys, Owners
    <2>2. /\ count' = [count EXCEPT ![k] = @ + (-1)]
          /\ bought' = [bought EXCEPT ![k] = @ + (-1)]
          /\ UNCHANGED <<lost, given>>
      <3>1. bought[k] \in Int
        BY DEF MembersInv, TypeOK
      <3> QED BY <1>5, <3>1 DEF UseItem, Add
    <2> HIDE DEF k
    <2>3. bought' = [bought EXCEPT ![<<n, i>>] = @ + (-1)]
      BY <2>2 DEF k
    <2> QED BY <2>1, <2>2, <2>3, MoveBalance
  <1> QED
    BY <1>1, <1>2, <1>3, <1>4, <1>5
    DEF Next, vars, tables, Notify, InsertMember, Answer, Fails, FindNoRow, Restart

-----------------------------------------------------------------------------
\* The accounts of members hold in every reachable state, for any names and whatever
\* is bought, used, refused or interrupted while members are created.
THEOREM MembersInvHolds == Spec => []MembersInv
  <1>1. MembersInv /\ UNCHANGED vars => MembersInv'
    <2> SUFFICES ASSUME MembersInv, UNCHANGED vars PROVE MembersInv'
      OBVIOUS
    <2>1. TypeOK'
      BY DEF vars, tables, requests, MembersInv, TypeOK
    <2>2. \A q \in Requests : Giving(q)' <=> Giving(q)
      BY DEF vars, requests, Giving
    <2> QED BY <2>1, <2>2, QuietInv DEF vars, tables, requests, MembersInv, GiverInv, Giving
  <1>2. MembersInv /\ Next => MembersInv'
    BY NotifyInv, RestartInv, FindNoRowInv, InsertMemberInv, GiveFoundInv, InsertItemInv,
       DeliverInv, UseInv DEF Next
  <1> QED BY InitInv, <1>1, <1>2, PTL DEF Spec

\* What a member has is its starting gift plus what it bought, minus what it used.
THEOREM ItemsAreAccounted == Spec => []ItemsAccounted
  <1>1. MembersInv => ItemsAccounted
    BY DEF MembersInv
  <1> QED BY MembersInvHolds, <1>1, PTL

\* Items change hands only: what all owners hold of an item, the one that nobody is
\* among them, is what was given and bought, less what was used.
THEOREM NothingIsLost == Spec => []NothingLost
  <1>1. Init => NothingLost
    BY InitBalance
  <1>2. MembersInv /\ MembersInv' /\ NothingLost /\ [Next]_vars => NothingLost'
    BY NothingLostStep DEF MembersInv
  <1> QED BY MembersInvHolds, <1>1, <1>2, PTL DEF Spec

\* Rows stay, and a gift goes to one that is found for the name.
LEMMA FoundStep ==
  ASSUME TypeOK, FoundInv, [Next]_vars
  PROVE  FoundInv'
  <1>1. ASSUME rows \subseteq rows',
               \A k \in given' \ given : \E x \in rows' : x[1] \in Alike[k[1]] /\ x[2] = k[2]
        PROVE  FoundInv'
    BY <1>1 DEF FoundInv, Found
  <1>2. CASE given' = given
    <2>1. rows \subseteq rows'
      BY <1>2 DEF Next, Notify, InsertMember, InsertItem, Answer, Fails, GiveFound,
                  FindNoRow, DeliverItem, UseItem, Restart, Add, Insert, tables, vars
    <2> QED BY <1>1, <1>2, <2>1
  <1>3. ASSUME NEW q \in Requests, NEW i \in Items, GiveFound(q, i) PROVE FoundInv'
    <2>1. rows' = rows /\ given' = given \cup {<<who[q], i>>}
      BY <1>3 DEF GiveFound, Add, IsGiven
    <2>2. PICK k \in rows : k[1] \in Alike[who[q]] /\ k[2] = i
      BY <1>3 DEF GiveFound, Found
    <2> QED BY <1>1, <2>1, <2>2
  <1>4. ASSUME NEW q \in Requests, InsertItem(q) PROVE FoundInv'
    <2> DEFINE k == <<who[q], item[q]>>
    <2>1. rows' = rows \cup {k} /\ given' = given \cup {k}
      BY <1>4 DEF InsertItem, Insert, IsGiven
    <2>2. who[q] \in Alike[who[q]]
      BY AlikeAssumption DEF TypeOK
    <2> QED BY <1>1, <2>1, <2>2
  <1>5. \/ given' = given
        \/ \E q \in Requests : InsertItem(q) \/ \E i \in Items : GiveFound(q, i)
    BY DEF Next, Notify, InsertMember, Answer, Fails, FindNoRow, DeliverItem, UseItem,
           Restart, vars
  <1> QED BY <1>2, <1>3, <1>4, <1>5

\* A member without the starting items is being created, or was broken off; one whose
\* name is not confused has them in rows of its own, however they came there.
THEOREM MembersAreEquipped == Spec => []EquippedUnlessBroken
  <1>1. MembersInv /\ FoundInv => EquippedUnlessBroken
    <2> SUFFICES ASSUME MembersInv, FoundInv, NEW n \in members, n \notin broken,
                        ~\E q \in Requests : Giving(q) /\ who[q] = n, NEW i \in Items
                 PROVE  /\ Found(n, i) # {}
                        /\ Alone(n) => count[<<n, i>>] = Gift + bought[<<n, i>>]
      BY DEF EquippedUnlessBroken, Giving
    <2>1. <<n, i>> \in given
      BY DEF MembersInv, GiftInv
    <2>2. Found(n, i) # {}
      BY <2>1 DEF FoundInv
    <2>3. Alone(n) => count[<<n, i>>] = Gift + bought[<<n, i>>]
      BY <2>1 DEF MembersInv, ItemsAccounted, Owed
    <2> QED BY <2>2, <2>3
  <1>2. Init => FoundInv
    BY DEF Init, FoundInv
  <1>3. MembersInv /\ FoundInv /\ [Next]_vars => FoundInv'
    BY FoundStep DEF MembersInv
  <1> QED BY MembersInvHolds, <1>1, <1>2, <1>3, PTL DEF Spec
=============================================================================
