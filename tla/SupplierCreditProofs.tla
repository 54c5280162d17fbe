------------------------ MODULE SupplierCreditProofs ------------------------
(***************************************************************************)
(* The proofs about SupplierCredit.  What carries them: a payment keeps    *)
(* every purchase it has allocated to locked until it commits, so nobody   *)
(* reverses that purchase or pays on it meanwhile, and a void only makes   *)
(* more room; it locks from the oldest to the newest; and a reversal holds *)
(* what it has claimed.                                                    *)
(***************************************************************************)
EXTENDS SupplierCredit, FiniteSetTheorems, TLAPS

\* What was allocated still fits, to a purchase that still stands.
AllocationsFit(c) ==
    \A p \in Purchases :
        txn[c].pc = "pay" /\ txn[c].done[p] > 0 =>
            /\ lock[p] = c /\ status[p] = "CONFIRMED"
            /\ paid[p] + txn[c].done[p] <= Total[p]

\* What is left to lock is newer than all that is locked.
OldestFirst(c) ==
    \A p, q \in Purchases :
        txn[c].pc = "pay" /\ lock[p] = c /\ txn[c].left[q] > 0 => p < q

\* What a reversal has claimed is its own until it ends.
Claimed(c) ==
    txn[c].pc = "claimed" => lock[txn[c].purchase] = c /\ status[txn[c].purchase] = "CONFIRMED"

Request(c) == AllocationsFit(c) /\ OldestFirst(c) /\ Claimed(c)

IInv ==
    /\ TypeOK
    /\ NeverOverpaid
    /\ \A c \in Clients : Request(c)

-----------------------------------------------------------------------------
(* What sums are (the operator of Sums).                                   *)

\* f has a natural number for each element of S; and g has the same there.
Naturals(S, f) == \A x \in S : f[x] \in Nat
Alike(S, f, g) == \A x \in S : g[x] = f[x]

\* What one element contributes to a sum.
LEMMA UnitsCount ==
    ASSUME NEW x, NEW f, f[x] \in Nat
    PROVE  IsFiniteSet(Units(x, f)) /\ Cardinality(Units(x, f)) = f[x]
<1>1. IsFiniteSet(1 .. f[x]) /\ Cardinality(1 .. f[x]) = f[x]
  BY FS_Interval
<1>2. IsFiniteSet({x}) /\ Cardinality({x}) = 1
  BY FS_Singleton
<1>3. IsFiniteSet(Units(x, f)) /\ Cardinality(Units(x, f)) = Cardinality({x}) * Cardinality(1 .. f[x])
  BY <1>1, <1>2, FS_Product DEF Units
<1> QED BY <1>1, <1>2, <1>3

\* What a finite set contributes is finite.
LEMMA UnitsFinite ==
    ASSUME NEW S, IsFiniteSet(S), NEW f, Naturals(S, f)
    PROVE  IsFiniteSet(UNION {Units(x, f) : x \in S})
<1> DEFINE F == {Units(x, f) : x \in S}
           g == [x \in S |-> Units(x, f)]
<1>1. g \in Surjection(S, F)
  BY DEF Surjection
<1>2. IsFiniteSet(F)
  <2> HIDE DEF F, g
  <2> QED BY <1>1, FS_Surjection
<1>3. \A U \in F : IsFiniteSet(U)
  BY UnitsCount DEF Naturals
<1>4. IsFiniteSet(UNION F)
  <2> HIDE DEF F
  <2> QED BY <1>2, <1>3, FS_UNION
<1> QED BY <1>4

\* A sum of natural numbers is one.
LEMMA SumType ==
    ASSUME NEW S, IsFiniteSet(S), NEW f, Naturals(S, f)
    PROVE  SumOver(S, f) \in Nat
BY UnitsFinite, FS_CardinalityType DEF SumOver

LEMMA SumOfNothing ==
    ASSUME NEW f
    PROVE  SumOver({}, f) = 0
BY FS_EmptySet DEF SumOver

\* Only the values on the set count.
LEMMA SumSame ==
    ASSUME NEW S, NEW f, NEW g, Alike(S, f, g)
    PROVE  SumOver(S, g) = SumOver(S, f)
<1>1. {Units(x, f) : x \in S} = {Units(x, g) : x \in S}
  BY DEF Units, Alike
<1> QED BY <1>1 DEF SumOver

\* One element more.
LEMMA SumAdd ==
    ASSUME NEW S, IsFiniteSet(S), NEW f, Naturals(S, f), NEW x, x \notin S, f[x] \in Nat
    PROVE  SumOver(S \union {x}, f) = SumOver(S, f) + f[x]
<1> DEFINE U == UNION {Units(y, f) : y \in S}
           V == Units(x, f)
<1>1. SumOver(S \union {x}, f) = Cardinality(U \union V)
  <2>1. UNION {Units(y, f) : y \in S \union {x}} = U \union V
    OBVIOUS
  <2> QED BY <2>1 DEF SumOver
<1>2. U \intersect V = {}
  BY DEF Units
<1>3. IsFiniteSet(U) /\ Cardinality(U) = SumOver(S, f) /\ Cardinality(U) \in Nat
  BY UnitsFinite, SumType DEF SumOver
<1>4. IsFiniteSet(V) /\ Cardinality(V) = f[x]
  BY UnitsCount
<1> HIDE DEF U, V
<1>5. Cardinality(U \union V) = Cardinality(U) + Cardinality(V) - Cardinality(U \intersect V)
  BY <1>3, <1>4, FS_Union
<1>6. Cardinality(U \intersect V) = 0
  BY <1>2, FS_EmptySet
<1> QED BY <1>1, <1>3, <1>4, <1>5, <1>6

\* One element more, the others as they were.
LEMMA SumGrows ==
    ASSUME NEW S, IsFiniteSet(S), NEW f, NEW g, Naturals(S, f), Alike(S, f, g),
           NEW x, x \notin S, g[x] \in Nat
    PROVE  SumOver(S \union {x}, g) = SumOver(S, f) + g[x]
<1>1. Naturals(S, g)
  BY DEF Naturals, Alike
<1>2. SumOver(S \union {x}, g) = SumOver(S, g) + g[x]
  BY <1>1, SumAdd
<1> QED BY <1>2, SumSame

\* One element less, the others as they were.
LEMMA SumShrinks ==
    ASSUME NEW S, IsFiniteSet(S), NEW f, NEW g, Naturals(S, f), NEW x \in S, Alike(S \ {x}, f, g)
    PROVE  /\ SumOver(S \ {x}, g) = SumOver(S, f) - f[x]
           /\ IsFiniteSet(S \ {x}) /\ Naturals(S \ {x}, g)
<1> DEFINE T == S \ {x}
<1>1. IsFiniteSet(T) /\ T \union {x} = S /\ x \notin T
  BY FS_RemoveElement
<1>2. Naturals(T, g) /\ Alike(T, g, f) /\ f[x] \in Nat
  BY DEF Naturals, Alike
<1> HIDE DEF T
<1>3. SumOver(T \union {x}, f) = SumOver(T, g) + f[x]
  BY <1>1, <1>2, SumGrows
<1>4. SumOver(T, g) \in Nat
  BY <1>1, <1>2, SumType
<1>5. SumOver(T, g) = SumOver(S, f) - f[x]
  <2>1. SumOver(S, f) = SumOver(T, g) + f[x] /\ f[x] \in Nat
    BY <1>1, <1>2, <1>3
  <2> QED BY <1>4, <2>1
<1> QED BY <1>1, <1>2, <1>5 DEF T

\* A set of what counts contributes no more than the whole.
LEMMA SumOfPart ==
    ASSUME NEW T, IsFiniteSet(T), NEW S \in SUBSET T, NEW f, Naturals(T, f)
    PROVE  SumOver(S, f) <= SumOver(T, f)
<1> DEFINE U == UNION {Units(x, f) : x \in S}
           V == UNION {Units(x, f) : x \in T}
<1>1. IsFiniteSet(V) /\ U \in SUBSET V
  BY UnitsFinite
<1>2. Cardinality(U) <= Cardinality(V)
  <2> HIDE DEF U, V
  <2> QED BY <1>1, FS_Subset
<1> QED BY <1>2 DEF SumOver

\* Smaller values make no larger a sum.
LEMMA SumOfLess ==
    ASSUME NEW S, IsFiniteSet(S), NEW f, Naturals(S, f), NEW g, Naturals(S, g),
           \A x \in S : f[x] <= g[x]
    PROVE  SumOver(S, f) <= SumOver(S, g)
<1> DEFINE U == UNION {Units(x, f) : x \in S}
           V == UNION {Units(x, g) : x \in S}
<1>1. IsFiniteSet(V)
  BY UnitsFinite
<1>2. ASSUME NEW x \in S PROVE Units(x, f) \subseteq Units(x, g)
  <2>1. f[x] \in Nat /\ g[x] \in Nat /\ f[x] <= g[x]
    BY DEF Naturals
  <2>2. 1 .. f[x] \subseteq 1 .. g[x]
    BY <2>1
  <2> QED BY <2>2 DEF Units
<1>3. U \in SUBSET V
  BY <1>2
<1>4. Cardinality(U) <= Cardinality(V)
  <2> HIDE DEF U, V
  <2> QED BY <1>1, <1>3, FS_Subset
<1> QED BY <1>4 DEF SumOver

\* What is zero does not count.
LEMMA SumOfRest ==
    ASSUME NEW T, NEW S \in SUBSET T, NEW f, \A x \in T \ S : f[x] = 0
    PROVE  SumOver(T, f) = SumOver(S, f)
<1>1. ASSUME NEW x \in T \ S PROVE Units(x, f) = {}
  <2>1. 1 .. f[x] = {}
    BY <1>1
  <2> QED BY <2>1 DEF Units
<1>2. UNION {Units(x, f) : x \in T} = UNION {Units(x, f) : x \in S}
  BY <1>1
<1> QED BY <1>2 DEF SumOver

-----------------------------------------------------------------------------
(* What autoAllocate gives whom.                                           *)

\* A finite set of natural numbers has a greatest element.
LEMMA GreatestOf ==
    ASSUME NEW H, H \subseteq Nat, IsFiniteSet(H), H # {}
    PROVE  \E p \in H : \A q \in H : q <= p
<1> DEFINE Above(p) == {q \in H : q > p}
           N == {Cardinality(Above(p)) : p \in H}
           Less == OpToRel(<, Nat)
<1>1. ASSUME NEW p \in H PROVE IsFiniteSet(Above(p)) /\ Cardinality(Above(p)) \in Nat
  BY FS_Subset, FS_CardinalityType
<1>2. N \subseteq Nat /\ N # {}
  BY <1>1
<1>3. PICK n \in N : \A k \in N : ~ (<<k, n>> \in Less)
  <2> HIDE DEF N, Less
  <2>1. IsWellFoundedOn(Less, Nat)
    BY NatLessThanWellFounded DEF Less
  <2> QED BY <1>2, <2>1, WFMin
<1>4. PICK p \in H : n = Cardinality(Above(p))
  BY <1>3
<1>5. ASSUME NEW q \in H, q > p PROVE FALSE
  <2>1. Above(q) \in SUBSET Above(p) /\ q \in Above(p) /\ q \notin Above(q)
    <3> HIDE DEF N, Less
    <3>1. \A y \in H : y > q => y > p
      BY <1>5
    <3>2. ~ (q > q)
      OBVIOUS
    <3> QED BY <1>5, <3>1, <3>2
  <2>2. Cardinality(Above(q)) < Cardinality(Above(p))
    <3> HIDE DEF Above
    <3>1. Cardinality(Above(q)) <= Cardinality(Above(p)) /\ Cardinality(Above(q)) # Cardinality(Above(p))
      BY <1>1, <2>1, FS_Subset
    <3> QED BY <1>1, <3>1
  <2>3. <<Cardinality(Above(q)), n>> \in Less
    BY <1>1, <1>4, <2>2 DEF OpToRel
  <2> QED BY <1>3, <2>3
<1> QED BY <1>5

\* A set of natural numbers has a least element.
LEMMA LeastOf ==
    ASSUME NEW H, H \subseteq Nat, H # {}
    PROVE  \E p \in H : \A q \in H : ~ (q < p)
<1> DEFINE Less == OpToRel(<, Nat)
<1>1. IsWellFoundedOn(Less, Nat)
  BY NatLessThanWellFounded
<1>2. PICK p \in H : \A q \in H : ~ (<<q, p>> \in Less)
  <2> HIDE DEF Less
  <2> QED BY <1>1, WFMin
<1> QED BY <1>2 DEF OpToRel

Open(s) == {p \in Purchases : status[p] = "CONFIRMED" /\ SupplierOf[p] = s /\ Owing(p) > 0}
Due == [p \in Purchases |-> Owing(p)]
Older(s, p) == {q \in Open(s) : q < p}
Before(s, p) == SumOver(Older(s, p), Due)

\* What autoAllocate promises of an amount: nobody gets more than is owed, all of them together no
\* more than the amount, nobody anything before whoever is older is settled, and nothing of the
\* amount is kept while somebody is owed.
SettlesOldestFirst(s, amount, plan) ==
    /\ plan \in [Purchases -> 0 .. amount]
    /\ \A p \in Purchases : plan[p] > 0 => p \in Open(s) /\ plan[p] <= Owing(p)
    /\ \A p, q \in Open(s) : p < q /\ plan[q] > 0 => plan[p] = Owing(p)
    /\ SumOver(Purchases, plan) <= amount
    /\ SumOver(Purchases, plan) < amount => \A p \in Open(s) : plan[p] = Owing(p)

\* What is added up are finitely many natural numbers.
LEMMA DueTypes ==
    ASSUME TypeOK, NEW s \in Suppliers
    PROVE  /\ IsFiniteSet(Open(s)) /\ Open(s) \subseteq Purchases /\ Open(s) \subseteq Nat
           /\ Naturals(Open(s), Due) /\ \A p \in Open(s) : Due[p] = Owing(p) /\ Due[p] > 0
           /\ \A p \in Purchases : /\ Older(s, p) \in SUBSET Open(s) /\ IsFiniteSet(Older(s, p))
                                  /\ Naturals(Older(s, p), Due) /\ Before(s, p) \in Nat
<1>1. IsFiniteSet(Open(s)) /\ Open(s) \subseteq Purchases /\ Open(s) \subseteq Nat
  <2>1. Open(s) \in SUBSET Purchases
    BY DEF Open
  <2> QED BY <2>1, SupplierAssumption, FS_Subset
<1>2. Naturals(Open(s), Due) /\ \A p \in Open(s) : Due[p] = Owing(p) /\ Due[p] > 0
  BY SupplierAssumption DEF Naturals, Open, Due, Owing, TypeOK
<1>3. ASSUME NEW p \in Purchases
      PROVE  /\ Older(s, p) \in SUBSET Open(s) /\ IsFiniteSet(Older(s, p))
             /\ Naturals(Older(s, p), Due) /\ Before(s, p) \in Nat
  <2>1. Older(s, p) \in SUBSET Open(s)
    BY DEF Older
  <2>2. IsFiniteSet(Older(s, p)) /\ Naturals(Older(s, p), Due)
    BY <1>1, <1>2, <2>1, FS_Subset DEF Naturals
  <2> QED BY <2>1, <2>2, SumType DEF Before
<1> QED BY <1>1, <1>2, <1>3

\* Whoever is older is owed, with all before it, no more than comes before the newer one.
LEMMA OlderComesBefore ==
    ASSUME TypeOK, NEW s \in Suppliers, NEW p \in Open(s), NEW q \in Open(s), p < q
    PROVE  Before(s, p) + Due[p] <= Before(s, q)
<1>1. /\ p \in Purchases /\ q \in Purchases /\ p \in Nat /\ q \in Nat /\ Open(s) \subseteq Nat
      /\ IsFiniteSet(Older(s, p)) /\ Naturals(Older(s, p), Due)
      /\ IsFiniteSet(Older(s, q)) /\ Naturals(Older(s, q), Due) /\ Due[p] \in Nat
  BY DueTypes DEF Naturals
<1>2. p \notin Older(s, p) /\ Older(s, p) \union {p} \in SUBSET Older(s, q)
  <2>1. \A r \in Open(s) : r < p => r < q
    BY <1>1
  <2>2. ~ (p < p)
    BY <1>1
  <2> QED BY <2>1, <2>2 DEF Older
<1>3. SumOver(Older(s, p) \union {p}, Due) = SumOver(Older(s, p), Due) + Due[p]
  BY <1>1, <1>2, SumAdd
<1>4. SumOver(Older(s, p) \union {p}, Due) <= SumOver(Older(s, q), Due)
  BY <1>1, <1>2, SumOfPart
<1> QED BY <1>3, <1>4 DEF Before

\* What it gives each purchase.
LEMMA WhoGetsWhat ==
    ASSUME TypeOK, NEW s \in Suppliers, NEW amount \in Nat, NEW plan, plan = AutoAllocate(s, amount)
    PROVE  /\ plan \in [Purchases -> 0 .. amount]
           /\ \A p \in Purchases : p \notin Open(s) => plan[p] = 0
           /\ \A p \in Open(s) :
                  /\ plan[p] <= Due[p]
                  /\ plan[p] > 0 => Before(s, p) + plan[p] <= amount
                  /\ Before(s, p) + Due[p] <= amount => plan[p] = Due[p]
                  /\ Before(s, p) < amount /\ plan[p] # Due[p] => Before(s, p) + plan[p] = amount
<1> DEFINE take(p) == IF amount - Before(s, p) < Due[p] THEN amount - Before(s, p) ELSE Due[p]
<1>1. plan = [p \in Purchases |-> IF p \in Open(s) /\ Before(s, p) < amount THEN take(p) ELSE 0]
  BY DEF AutoAllocate, Open, Before, Older, Due
<1>2. ASSUME NEW p \in Purchases
      PROVE  plan[p] = IF p \in Open(s) /\ Before(s, p) < amount THEN take(p) ELSE 0
  BY <1>1
<1>3. ASSUME NEW p \in Open(s)
      PROVE  /\ plan[p] \in 0 .. amount
             /\ plan[p] <= Due[p]
             /\ plan[p] > 0 => Before(s, p) + plan[p] <= amount
             /\ Before(s, p) + Due[p] <= amount => plan[p] = Due[p]
             /\ Before(s, p) < amount /\ plan[p] # Due[p] => Before(s, p) + plan[p] = amount
  <2>1. p \in Purchases /\ Before(s, p) \in Nat /\ Due[p] \in Nat /\ Due[p] > 0
    BY DueTypes DEF Naturals
  <2>2. plan[p] = IF Before(s, p) < amount
                  THEN IF amount - Before(s, p) < Due[p] THEN amount - Before(s, p) ELSE Due[p]
                  ELSE 0
    BY <1>2, <2>1
  <2> QED BY <2>1, <2>2
<1>4. ASSUME NEW p \in Purchases, p \notin Open(s) PROVE plan[p] = 0
  BY <1>2, <1>4
<1>5. plan \in [Purchases -> 0 .. amount]
  <2>1. \A p \in Purchases : plan[p] \in 0 .. amount
    BY <1>3, <1>4
  <2>2. plan = [p \in Purchases |-> plan[p]]
    BY <1>1
  <2> HIDE DEF take
  <2> QED BY <2>1, <2>2
<1> QED BY <1>3, <1>4, <1>5

\* What the oldest purchases get, up to the newest that gets anything, is within the amount.
LEMMA WithinTheAmount ==
    ASSUME TypeOK, NEW s \in Suppliers, NEW amount \in Nat, NEW plan, plan = AutoAllocate(s, amount)
    PROVE  SumOver(Purchases, plan) \in Nat /\ SumOver(Purchases, plan) <= amount
<1> DEFINE T == {p \in Purchases : plan[p] > 0}
<1>1. /\ plan \in [Purchases -> 0 .. amount] /\ IsFiniteSet(Purchases) /\ Naturals(Purchases, plan)
      /\ Purchases \subseteq Nat /\ T \in SUBSET Open(s)
  <2>1. plan \in [Purchases -> 0 .. amount] /\ \A p \in Purchases : p \notin Open(s) => plan[p] = 0
    BY WhoGetsWhat
  <2>2. T \in SUBSET Open(s)
    BY <2>1
  <2>3. Naturals(Purchases, plan)
    BY <2>1 DEF Naturals
  <2> QED BY <2>1, <2>2, <2>3, SupplierAssumption
<1>2. SumOver(Purchases, plan) \in Nat
  BY <1>1, SumType
<1>3. T \in SUBSET Purchases /\ IsFiniteSet(T) /\ T \subseteq Nat
  BY <1>1, FS_Subset
<1>4. SumOver(Purchases, plan) = SumOver(T, plan)
  <2>1. \A p \in Purchases \ T : plan[p] = 0
    BY <1>1
  <2> HIDE DEF T
  <2> QED BY <1>3, <2>1, SumOfRest
<1>5. CASE T = {}
  <2> HIDE DEF T
  <2> QED BY <1>2, <1>4, <1>5, SumOfNothing
<1>6. CASE T # {}
  <2>1. PICK last \in T : \A q \in T : q <= last
    <3> HIDE DEF T
    <3> QED BY <1>3, <1>6, GreatestOf
  <2>2. last \in Open(s) /\ last \in Purchases /\ plan[last] > 0 /\ plan[last] \in Nat /\ last \in Nat
    BY <1>1
  <2> DEFINE R == T \ {last}
  <2>3. R \in SUBSET Older(s, last)
    <3>1. \A q \in R : q \in Nat /\ q <= last /\ q # last
      BY <1>3, <2>1
    <3>2. \A q \in R : q < last
      BY <2>2, <3>1
    <3> QED BY <1>1, <3>2 DEF Older
  <2>4. /\ IsFiniteSet(R) /\ Naturals(R, plan) /\ Naturals(R, Due) /\ T = R \union {last} /\ last \notin R
        /\ IsFiniteSet(Older(s, last)) /\ Naturals(Older(s, last), Due) /\ Before(s, last) \in Nat
    <3>1. /\ IsFiniteSet(Older(s, last)) /\ Naturals(Older(s, last), Due) /\ Before(s, last) \in Nat
      BY <2>2, DueTypes
    <3>2. IsFiniteSet(R) /\ Naturals(R, Due)
      BY <2>3, <3>1, FS_Subset DEF Naturals
    <3> QED BY <1>1, <2>1, <3>1, <3>2 DEF Naturals
  <2>5. \A q \in R : plan[q] <= Due[q]
    BY <1>1, WhoGetsWhat
  <2>6. Before(s, last) + plan[last] <= amount
    BY <2>2, WhoGetsWhat
  <2> HIDE DEF R, T
  <2>7. SumOver(T, plan) = SumOver(R, plan) + plan[last]
    BY <2>2, <2>4, SumAdd
  <2>8. SumOver(R, plan) <= SumOver(R, Due) /\ SumOver(R, Due) <= Before(s, last)
    BY <2>3, <2>4, <2>5, SumOfLess, SumOfPart DEF Before
  <2>9. SumOver(R, plan) \in Nat /\ SumOver(R, Due) \in Nat
    BY <2>4, SumType
  <2> QED BY <1>2, <1>4, <2>2, <2>4, <2>6, <2>7, <2>8, <2>9
<1> QED BY <1>2, <1>5, <1>6

\* If somebody is left owing, the amount is used up: whoever is older than the first of them gets
\* all, and the first of them what remains.
LEMMA NothingIsKept ==
    ASSUME TypeOK, NEW s \in Suppliers, NEW amount \in Nat, NEW plan, plan = AutoAllocate(s, amount),
           SumOver(Purchases, plan) < amount
    PROVE  \A p \in Open(s) : plan[p] = Due[p]
<1> DEFINE H == {p \in Open(s) : plan[p] # Due[p]}
<1>1. SUFFICES ASSUME H # {} PROVE FALSE
  OBVIOUS
<1>2. PICK p \in H : \A q \in H : ~ (q < p)
  <2>1. H \subseteq Nat
    BY DueTypes
  <2> HIDE DEF H
  <2> QED BY <1>1, <2>1, LeastOf
<1> DEFINE S == Older(s, p)
<1>3. p \in Open(s) /\ p \in Purchases /\ plan[p] # Due[p] /\ p \in Nat
  BY DueTypes
<1>4. Alike(S, Due, plan)
  BY <1>2 DEF Older, Alike
<1>5. /\ S \in SUBSET Open(s) /\ IsFiniteSet(S) /\ Naturals(S, Due) /\ Before(s, p) \in Nat
      /\ S \union {p} \in SUBSET Purchases /\ p \notin S
  <2>1. ~ (p < p)
    BY <1>3
  <2> QED BY <1>3, <2>1, DueTypes DEF Older, Open
<1>6. /\ plan \in [Purchases -> 0 .. amount] /\ IsFiniteSet(Purchases) /\ Naturals(Purchases, plan)
      /\ plan[p] \in Nat
  BY <1>3, WhoGetsWhat, SupplierAssumption DEF Naturals
<1>7. SumOver(S \union {p}, plan) = Before(s, p) + plan[p]
  <2> HIDE DEF S
  <2>1. SumOver(S \union {p}, plan) = SumOver(S, Due) + plan[p]
    BY <1>4, <1>5, <1>6, SumGrows
  <2> QED BY <2>1 DEF S, Before
<1>8. Before(s, p) + plan[p] <= SumOver(Purchases, plan)
  BY <1>5, <1>6, <1>7, SumOfPart
<1>9. Before(s, p) + plan[p] < amount
  <2>1. SumOver(Purchases, plan) \in Nat
    BY WithinTheAmount
  <2> HIDE DEF H, S
  <2> QED BY <1>5, <1>6, <1>8, <2>1
<1>10. Before(s, p) < amount
  BY <1>5, <1>6, <1>9
<1>11. Before(s, p) + plan[p] = amount
  BY <1>3, <1>10, WhoGetsWhat
<1> QED BY <1>5, <1>6, <1>9, <1>11

-----------------------------------------------------------------------------
TxnType == {Idle} \union PayTxn \union VoidTxn \union ReverseTxn \union StockTxn

\* The part of TypeOK that is about the requests and what they hold.
Holdings ==
    /\ lock \in [Purchases -> Clients \union {None}]
    /\ shelfLock \in Clients \union {None}
    /\ drawer \in Clients \union {None, "OPEN"}
    /\ txn \in [Clients -> TxnType]
    /\ \A p \in Purchases : lock[p] # None => txn[lock[p]].pc \in {"pay", "claimed"}
    /\ shelfLock # None => txn[shelfLock].pc = "stock"
    /\ drawer \in Clients => txn[drawer].pc = "pay"

LEMMA TxnTypes ==
    ASSUME TypeOK, NEW c \in Clients
    PROVE  /\ txn[c] \in TxnType
           /\ txn[c].pc = "pay" => txn[c] \in PayTxn
           /\ txn[c].pc = "void" => txn[c] \in VoidTxn
           /\ txn[c].pc \in {"reverse", "claimed"} => txn[c] \in ReverseTxn
           /\ txn[c] = Idle => txn[c].pc = "idle"
BY DEF TypeOK, TxnType, Idle, PayTxn, VoidTxn, ReverseTxn, StockTxn

\* A request that starts or goes on changes its own entry only.
LEMMA OneRequestMoves ==
    ASSUME TypeOK, NEW c \in Clients, NEW r \in TxnType, txn' = [txn EXCEPT ![c] = r]
    PROVE  /\ txn'[c] = r /\ \A o \in Clients \ {c} : txn'[o] = txn[o]
           /\ txn' \in [Clients -> TxnType]
<1>1. txn \in [Clients -> TxnType]
  BY DEF TypeOK, TxnType
<1> HIDE DEF TxnType
<1> QED BY <1>1

\* What a transaction that ends leaves of a drawer it has opened: OPEN or nothing.
Leaves(c) == drawer' # c /\ drawer' \in {None, "OPEN", drawer}

\* A rollback, or the end of a request that enters no payment, leaves the drawer to the others.
LEMMA DrawerLeft ==
    ASSUME TypeOK, NEW c \in Clients,
           \/ drawer' \in {Kept(c), Undone(c)}
           \/ txn[c].pc # "pay" /\ (UNCHANGED drawer \/ PostCash)
    PROVE  Leaves(c)
BY SupplierAssumption DEF TypeOK, Leaves, Kept, Undone, PostCash

\* The end of a transaction forgets it and frees what it held.
LEMMA EndsClean ==
    ASSUME TypeOK, NEW c \in Clients, End(c), Leaves(c)
    PROVE  /\ txn'[c] = Idle /\ \A o \in Clients \ {c} : txn'[o] = txn[o]
           /\ \A p \in Purchases : lock'[p] = IF lock[p] = c THEN None ELSE lock[p]
           /\ Holdings'
<1>1. Idle \in TxnType /\ txn' = [txn EXCEPT ![c] = Idle]
  BY DEF End, TxnType
<1>2. txn'[c] = Idle /\ (\A o \in Clients \ {c} : txn'[o] = txn[o]) /\ txn' \in [Clients -> TxnType]
  <2> HIDE DEF Idle, TxnType
  <2> QED BY <1>1, OneRequestMoves
<1>3. \A p \in Purchases : lock'[p] = IF lock[p] = c THEN None ELSE lock[p]
  BY DEF End, Released
<1>4. lock' \in [Purchases -> Clients \union {None}]
  BY DEF End, Released, TypeOK
<1>5. ASSUME NEW p \in Purchases, lock'[p] # None
      PROVE  txn'[lock'[p]].pc \in {"pay", "claimed"}
  <2>1. lock[p] # c /\ lock'[p] = lock[p] /\ lock[p] \in Clients
    BY <1>3, <1>5 DEF TypeOK
  <2> QED BY <1>2, <1>5, <2>1 DEF TypeOK
<1>6. /\ shelfLock' \in Clients \union {None}
      /\ shelfLock' # None => txn'[shelfLock'].pc = "stock"
  <2>1. shelfLock' = IF shelfLock = c THEN None ELSE shelfLock
    BY DEF End
  <2> QED BY <1>2, <2>1 DEF TypeOK
<1>7. /\ drawer' \in Clients \union {None, "OPEN"}
      /\ drawer' \in Clients => txn'[drawer'].pc = "pay"
  <2>1. drawer' \in Clients => drawer' = drawer /\ drawer' # c
    BY SupplierAssumption DEF Leaves
  <2> QED BY <1>2, <2>1 DEF TypeOK, Leaves
<1> QED BY <1>2, <1>3, <1>4, <1>5, <1>6, <1>7 DEF Holdings

\* What the others have allocated is untouched by the end of a transaction that leaves the
\* purchases they hold standing and paid no more than before.
LEMMA OthersKeepTheirs ==
    ASSUME IInv, NEW c \in Clients, End(c), Leaves(c), \A p \in Purchases : paid'[p] \in Int,
           \A p \in Purchases : lock[p] \in Clients \ {c} /\ status[p] = "CONFIRMED" =>
               status'[p] = "CONFIRMED" /\ paid'[p] <= paid[p]
    PROVE  \A o \in Clients : Request(o)'
<1>1. /\ txn'[c] = Idle /\ \A o \in Clients \ {c} : txn'[o] = txn[o]
      /\ \A p \in Purchases : lock'[p] = IF lock[p] = c THEN None ELSE lock[p]
  BY EndsClean DEF IInv
<1> TAKE o \in Clients
<1>2. CASE o = c
  BY <1>1, <1>2 DEF Request, AllocationsFit, OldestFirst, Claimed, Idle
<1>3. CASE o # c
  <2>1. txn'[o] = txn[o] /\ AllocationsFit(o) /\ OldestFirst(o) /\ Claimed(o)
    BY <1>1, <1>3 DEF IInv, Request
  <2>2. ASSUME NEW p \in Purchases, txn[o].pc = "pay", txn[o].done[p] > 0
        PROVE  /\ lock'[p] = o /\ status'[p] = "CONFIRMED"
               /\ paid'[p] + txn[o].done[p] <= Total[p]
    <3>1. lock[p] = o /\ status[p] = "CONFIRMED" /\ paid[p] + txn[o].done[p] <= Total[p]
      BY <2>1, <2>2 DEF AllocationsFit
    <3>2. lock'[p] = o /\ status'[p] = "CONFIRMED" /\ paid'[p] <= paid[p]
      BY <1>1, <1>3, <3>1
    <3>3. txn[o].done[p] \in Nat /\ paid[p] \in Int /\ paid'[p] \in Int /\ Total[p] \in Nat
      BY <2>2, TxnTypes, SupplierAssumption DEF IInv, TypeOK, PayTxn
    <3> QED BY <3>1, <3>2, <3>3
  <2>3. AllocationsFit(o)'
    BY <2>1, <2>2 DEF AllocationsFit
  <2>4. OldestFirst(o)'
    BY <1>1, <1>3, <2>1, SupplierAssumption DEF OldestFirst, IInv, TypeOK
  <2>5. Claimed(o)'
    <3>1. ASSUME txn[o].pc = "claimed"
          PROVE  LET p == txn[o].purchase IN lock'[p] = o /\ status'[p] = "CONFIRMED"
      <4>1. txn[o].purchase \in Purchases
        BY <3>1, TxnTypes DEF IInv, ReverseTxn
      <4>2. lock[txn[o].purchase] = o /\ status[txn[o].purchase] = "CONFIRMED"
        BY <2>1, <3>1 DEF Claimed
      <4> QED BY <1>1, <1>3, <4>1, <4>2
    <3> QED BY <2>1, <3>1 DEF Claimed
  <2> QED BY <2>3, <2>4, <2>5 DEF Request
<1> QED BY <1>2, <1>3

\* A request that ends without having changed a row.
LEMMA EndStep ==
    ASSUME IInv, NEW c \in Clients, End(c), Leaves(c), UNCHANGED rows
    PROVE  IInv'
<1>1. Holdings'
  BY EndsClean DEF IInv
<1>2. TypeOK'
  BY <1>1 DEF IInv, TypeOK, rows, Holdings, TxnType
<1>3. NeverOverpaid'
  BY DEF IInv, NeverOverpaid, rows
<1>4. \A o \in Clients : Request(o)'
  <2>1. \A p \in Purchases : paid[p] \in Int /\ paid[p] <= paid[p]
    BY DEF IInv, TypeOK
  <2> QED BY <2>1, OthersKeepTheirs DEF rows
<1> QED BY <1>2, <1>3, <1>4 DEF IInv

LEMMA RollBackStep ==
    ASSUME IInv, NEW c \in Clients, RollBack(c)
    PROVE  IInv'
BY DrawerLeft, EndStep DEF RollBack, IInv

\* A request that begins: its client held nothing, and it has allocated nothing yet.
LEMMA BeginStep ==
    ASSUME IInv, NEW c \in Clients, txn[c] = Idle, UNCHANGED <<rows, lock>>,
           NEW r \in TxnType, txn' = [txn EXCEPT ![c] = r], r.pc # "claimed",
           r.pc = "pay" => \A p \in Purchases : r.done[p] = 0,
           UNCHANGED shelfLock \/ (r.pc = "stock" /\ shelfLock' = c),
           UNCHANGED drawer \/ (r.pc = "pay" /\ drawer' = c)
    PROVE  IInv'
<1>1. /\ txn'[c] = r /\ \A o \in Clients \ {c} : txn'[o] = txn[o]
      /\ txn' \in [Clients -> TxnType]
  BY OneRequestMoves DEF IInv
<1>2. (\A p \in Purchases : lock[p] # c) /\ shelfLock # c /\ drawer # c
  BY SupplierAssumption DEF IInv, TypeOK, Idle
<1>3. TypeOK'
  <2>1. \A p \in Purchases : lock[p] # None => txn'[lock[p]].pc \in {"pay", "claimed"}
    BY <1>1, <1>2 DEF IInv, TypeOK
  <2>2. shelfLock' \in Clients \union {None} /\ (shelfLock' # None => txn'[shelfLock'].pc = "stock")
    BY <1>1, <1>2 DEF IInv, TypeOK
  <2>3. /\ drawer' \in Clients \union {None, "OPEN"}
        /\ drawer' \in Clients => txn'[drawer'].pc = "pay"
    BY <1>1, <1>2 DEF IInv, TypeOK
  <2> QED BY <1>1, <2>1, <2>2, <2>3 DEF IInv, TypeOK, rows, TxnType
<1>4. NeverOverpaid'
  BY DEF IInv, NeverOverpaid, rows
<1>5. ASSUME NEW o \in Clients PROVE Request(o)'
  <2>1. CASE o = c
    BY <1>1, <1>2, <2>1 DEF Request, AllocationsFit, OldestFirst, Claimed
  <2>2. CASE o # c
    BY <1>1, <2>2 DEF IInv, Request, AllocationsFit, OldestFirst, Claimed, rows
  <2> QED BY <2>1, <2>2
<1> QED BY <1>3, <1>4, <1>5 DEF IInv

LEMMA TakeShelfStep ==
    ASSUME IInv, NEW c \in Clients, TakeShelf(c)
    PROVE  IInv'
<1> DEFINE r == [pc |-> "stock"]
<1>1. r \in TxnType /\ r.pc = "stock"
  BY DEF TxnType, StockTxn
<1>2. /\ txn[c] = Idle /\ UNCHANGED <<rows, lock, drawer>> /\ txn' = [txn EXCEPT ![c] = r]
      /\ shelfLock' = c
  BY DEF TakeShelf
<1> HIDE DEF r
<1> QED BY <1>1, <1>2, BeginStep

LEMMA StartPaymentStep ==
    ASSUME IInv, NEW c \in Clients, NEW m \in Payments, NEW s \in Suppliers,
           NEW amount \in Amounts, NEW plan \in [Purchases -> Nat],
           StartPayment(c, m, s, amount, plan)
    PROVE  IInv'
<1> DEFINE r == [pc |-> "pay", payment |-> m, supplier |-> s, amount |-> amount,
                 left |-> plan, done |-> Nothing]
<1>1. r \in TxnType /\ r.pc = "pay" /\ \A p \in Purchases : r.done[p] = 0
  BY SupplierAssumption DEF TxnType, PayTxn, Nothing
<1>2. /\ txn[c] = Idle /\ UNCHANGED <<rows, lock, shelfLock>> /\ txn' = [txn EXCEPT ![c] = r]
      /\ UNCHANGED drawer \/ drawer' = c
  BY DEF StartPayment
<1> HIDE DEF r
<1> QED BY <1>1, <1>2, BeginStep

LEMMA PayStep ==
    ASSUME IInv, NEW c \in Clients, NEW m \in Payments, NEW amount \in Amounts,
           \/ \E p \in Purchases, part \in Amounts : PayPurchase(c, m, p, amount, part)
           \/ \E s \in Suppliers : PayOldest(c, m, s, amount)
    PROVE  IInv'
<1>1. ASSUME NEW p \in Purchases, NEW part \in Amounts, PayPurchase(c, m, p, amount, part)
      PROVE  IInv'
  <2>1. Only(p, part) \in [Purchases -> Nat] /\ SupplierOf[p] \in Suppliers
    BY SupplierAssumption DEF Only, Nothing
  <2> QED BY <1>1, <2>1, StartPaymentStep DEF PayPurchase
<1>2. ASSUME NEW s \in Suppliers, PayOldest(c, m, s, amount)
      PROVE  IInv'
  <2> DEFINE plan == AutoAllocate(s, amount)
  <2>1. StartPayment(c, m, s, amount, plan)
    BY <1>2 DEF PayOldest
  <2>2. plan \in [Purchases -> 0 .. amount]
    BY WhoGetsWhat, SupplierAssumption DEF IInv
  <2> HIDE DEF plan
  <2>3. plan \in [Purchases -> Nat]
    BY <2>2
  <2> QED BY <2>1, <2>3, StartPaymentStep
<1> QED BY <1>1, <1>2

LEMMA BeginVoidStep ==
    ASSUME IInv, NEW c \in Clients, NEW m \in Payments, BeginVoid(c, m)
    PROVE  IInv'
<1> DEFINE r == [pc |-> "void", payment |-> m]
<1>1. r \in TxnType /\ r.pc \notin {"pay", "claimed"}
  BY DEF TxnType, VoidTxn
<1>2. /\ txn[c] = Idle /\ UNCHANGED <<rows, lock, shelfLock, drawer>>
      /\ txn' = [txn EXCEPT ![c] = r]
  BY DEF BeginVoid
<1> HIDE DEF r
<1> QED BY <1>1, <1>2, BeginStep

LEMMA BeginReversalStep ==
    ASSUME IInv, NEW c \in Clients, NEW p \in Purchases, BeginReversal(c, p)
    PROVE  IInv'
<1> DEFINE r == [pc |-> "reverse", purchase |-> p]
<1>1. r \in TxnType /\ r.pc \notin {"pay", "claimed"}
  BY DEF TxnType, ReverseTxn
<1>2. /\ txn[c] = Idle /\ UNCHANGED <<rows, lock, shelfLock, drawer>>
      /\ txn' = [txn EXCEPT ![c] = r]
  BY DEF BeginReversal
<1> HIDE DEF r
<1> QED BY <1>1, <1>2, BeginStep

\* An allocation moves its amount from what is left to what is done.
LEMMA AllocatedMoves ==
    ASSUME NEW x \in PayTxn, NEW p \in Purchases
    PROVE  /\ Allocated(x, p) \in PayTxn /\ Allocated(x, p).pc = "pay"
           /\ Allocated(x, p).left = [x.left EXCEPT ![p] = 0]
           /\ Allocated(x, p).done = [x.done EXCEPT ![p] = x.done[p] + x.left[p]]
<1> DEFINE nl == [x.left EXCEPT ![p] = 0]
           nd == [x.done EXCEPT ![p] = x.done[p] + x.left[p]]
<1>1. nl \in [Purchases -> Nat] /\ nd \in [Purchases -> Nat]
  BY DEF PayTxn
<1>2. Allocated(x, p) = [x EXCEPT !.left = nl, !.done = nd]
  BY DEF Allocated
<1> HIDE DEF nl, nd
<1>3. /\ Allocated(x, p) \in PayTxn /\ Allocated(x, p).pc = "pay"
      /\ Allocated(x, p).left = nl /\ Allocated(x, p).done = nd
  BY <1>1, <1>2 DEF PayTxn
<1> QED BY <1>3 DEF nl, nd

\* The allocation that is made locks its purchase, fits it, and is older than what is left.
LEMMA AllocateStep ==
    ASSUME IInv, NEW c \in Clients, NEW p \in Purchases, AllocateNext(c, p)
    PROVE  IInv'
<1> DEFINE x == txn[c]
           r == Allocated(x, p)
<1>1. CASE RollBack(c)
  BY <1>1, RollBackStep
<1>2. CASE /\ Payable(p) /\ x.left[p] <= Owing(p) - x.done[p]
           /\ txn' = [txn EXCEPT ![c] = r] /\ lock' = [lock EXCEPT ![p] = c]
           /\ UNCHANGED <<rows, shelfLock, drawer>>
  <2>1. /\ x \in PayTxn /\ x.pc = "pay" /\ x.left[p] > 0 /\ IsNext(x, p)
        /\ lock[p] = None \/ lock[p] = c
    BY TxnTypes DEF AllocateNext, Free, IInv
  <2>2. x.left \in [Purchases -> Nat] /\ x.done \in [Purchases -> Nat]
    BY <2>1 DEF PayTxn
  <2>3. /\ r \in PayTxn /\ r.pc = "pay"
        /\ r.left = [x.left EXCEPT ![p] = 0]
        /\ r.done = [x.done EXCEPT ![p] = x.done[p] + x.left[p]]
    BY <2>1, AllocatedMoves
  <2>4. r \in TxnType
    BY <2>3 DEF TxnType
  <2> HIDE DEF r
  <2>5. /\ txn'[c] = r /\ \A o \in Clients \ {c} : txn'[o] = txn[o]
        /\ txn' \in [Clients -> TxnType]
    BY <1>2, <2>4, OneRequestMoves DEF IInv
  <2>6. /\ lock'[p] = c /\ \A q \in Purchases \ {p} : lock'[q] = lock[q]
        /\ lock' \in [Purchases -> Clients \union {None}]
    BY <1>2 DEF IInv, TypeOK
  <2>7. TypeOK'
    <3>1. \A q \in Purchases : lock'[q] # None => txn'[lock'[q]].pc \in {"pay", "claimed"}
      BY <2>3, <2>5, <2>6 DEF IInv, TypeOK
    <3>2. /\ shelfLock' # None => txn'[shelfLock'].pc = "stock"
          /\ drawer' \in Clients => txn'[drawer'].pc = "pay"
      BY <1>2, <2>1, <2>3, <2>5 DEF IInv, TypeOK
    <3> QED BY <1>2, <2>5, <2>6, <3>1, <3>2 DEF IInv, TypeOK, rows, TxnType
  <2>8. NeverOverpaid'
    BY <1>2 DEF IInv, NeverOverpaid, rows
  <2>9. AllocationsFit(c)'
    <3>1. AllocationsFit(c) /\ status' = status /\ paid' = paid
      BY <1>2 DEF IInv, Request, rows
    <3>2. ASSUME NEW q \in Purchases, r.done[q] > 0
          PROVE  lock'[q] = c /\ status[q] = "CONFIRMED" /\ paid[q] + r.done[q] <= Total[q]
      <4>1. CASE q = p
        <5>1. r.done[p] = x.done[p] + x.left[p] /\ x.left[p] \in Nat /\ x.done[p] \in Nat
          BY <2>2, <2>3
        <5>2. paid[p] \in Int /\ Total[p] \in Nat
          BY SupplierAssumption DEF IInv, TypeOK
        <5>3. x.left[p] <= Total[p] - paid[p] - x.done[p] /\ status[p] = "CONFIRMED"
          BY <1>2 DEF Owing, Payable
        <5> QED BY <2>6, <4>1, <5>1, <5>2, <5>3
      <4>2. CASE q # p
        BY <2>1, <2>2, <2>3, <2>6, <3>1, <3>2, <4>2 DEF AllocationsFit
      <4> QED BY <4>1, <4>2
    <3> QED BY <2>5, <3>1, <3>2 DEF AllocationsFit
  <2>10. OldestFirst(c)'
    <3>1. ASSUME NEW a \in Purchases, NEW q \in Purchases, lock'[a] = c, r.left[q] > 0
          PROVE  a < q
      <4>1. q # p /\ x.left[q] > 0
        BY <2>2, <2>3, <3>1
      <4>2. CASE a = p
        BY <2>1, <4>1, <4>2, SupplierAssumption DEF IsNext
      <4>3. CASE a # p
        BY <2>1, <2>6, <3>1, <4>1, <4>3 DEF IInv, Request, OldestFirst
      <4> QED BY <4>2, <4>3
    <3> QED BY <2>5, <3>1 DEF OldestFirst
  <2>11. Claimed(c)'
    BY <2>3, <2>5 DEF Claimed
  <2>12. ASSUME NEW o \in Clients, o # c PROVE Request(o)'
    <3>1. /\ txn'[o] = txn[o] /\ status' = status /\ paid' = paid
          /\ AllocationsFit(o) /\ OldestFirst(o) /\ Claimed(o)
      BY <1>2, <2>5, <2>12 DEF IInv, Request, rows
    <3>2. \A q \in Purchases : lock'[q] = o <=> lock[q] = o
      BY <2>1, <2>6, <2>12, SupplierAssumption
    <3>3. txn[o].pc = "claimed" => txn[o].purchase \in Purchases
      BY TxnTypes DEF IInv, ReverseTxn
    <3>4. AllocationsFit(o)' /\ OldestFirst(o)'
      BY <3>1, <3>2 DEF AllocationsFit, OldestFirst
    <3>5. Claimed(o)'
      BY <3>1, <3>2, <3>3 DEF Claimed
    <3> QED BY <3>4, <3>5 DEF Request
  <2> QED BY <2>7, <2>8, <2>9, <2>10, <2>11, <2>12 DEF IInv, Request
<1> QED BY <1>1, <1>2 DEF AllocateNext

\* A payment that ends gains nothing on a purchase it does not hold.
LEMMA UnheldIsUndone ==
    ASSUME IInv, NEW c \in Clients, txn[c].pc = "pay", NEW p \in Purchases
    PROVE  /\ txn[c].done[p] \in Nat /\ paid[p] \in Int /\ Total[p] \in Nat
           /\ paid[p] <= Total[p]
           /\ txn[c].done[p] > 0 => /\ lock[p] = c /\ status[p] = "CONFIRMED"
                                    /\ paid[p] + txn[c].done[p] <= Total[p]
<1>1. txn[c].done[p] \in Nat
  BY TxnTypes DEF IInv, PayTxn
<1> QED BY <1>1, SupplierAssumption DEF IInv, TypeOK, NeverOverpaid, Request, AllocationsFit

LEMMA CommitPaymentStep ==
    ASSUME IInv, NEW c \in Clients, CommitPayment(c)
    PROVE  IInv'
<1> DEFINE x == txn[c]
<1>1. CASE RollBack(c)
  BY <1>1, RollBackStep
<1>2. CASE /\ payments' = [payments EXCEPT ![x.payment] =
                  [state |-> "live", supplier |-> x.supplier, amount |-> x.amount, alloc |-> x.done]]
           /\ paid' = [p \in Purchases |-> paid[p] + x.done[p]]
           /\ Post(x.supplier, -x.amount)
           /\ drawer' = Kept(c)
           /\ UNCHANGED <<status, shelf, sold>>
           /\ End(c)
  <2>1. End(c) /\ Leaves(c) /\ x.pc = "pay"
    BY <1>2, DrawerLeft DEF CommitPayment, IInv
  <2>2. x \in PayTxn
    BY <2>1, TxnTypes DEF IInv
  <2>3. ASSUME NEW p \in Purchases
        PROVE  paid'[p] \in Int /\ paid'[p] <= Total[p] /\ (lock[p] # c => paid'[p] = paid[p])
    <3>1. paid'[p] = paid[p] + x.done[p]
      BY <1>2
    <3>2. /\ x.done[p] \in Nat /\ paid[p] \in Int /\ Total[p] \in Nat /\ paid[p] <= Total[p]
          /\ x.done[p] > 0 => lock[p] = c /\ paid[p] + x.done[p] <= Total[p]
      BY <2>1, UnheldIsUndone
    <3> QED BY <3>1, <3>2
  <2>4. Holdings'
    BY <2>1, EndsClean DEF IInv
  <2>5. TypeOK'
    <3>1. payments' \in [Payments -> Payment]
      BY <1>2, <2>2 DEF IInv, TypeOK, Payment, PayTxn
    <3>2. paid' \in [Purchases -> Int]
      BY <1>2, <2>3
    <3>3. balance' \in [Suppliers -> Int]
      BY <1>2, <2>2 DEF IInv, TypeOK, Post, PayTxn
    <3> QED BY <1>2, <2>4, <3>1, <3>2, <3>3 DEF IInv, TypeOK, Holdings, TxnType
  <2>6. NeverOverpaid'
    BY <2>3 DEF NeverOverpaid
  <2>7. \A o \in Clients : Request(o)'
    <3>1. \A p \in Purchases : lock[p] \in Clients \ {c} /\ status[p] = "CONFIRMED" =>
                                   status'[p] = "CONFIRMED" /\ paid'[p] <= paid[p]
      <4>1. \A p \in Purchases : paid[p] \in Int
        BY DEF IInv, TypeOK
      <4> QED BY <1>2, <2>3, <4>1
    <3> QED BY <2>1, <2>3, <3>1, OthersKeepTheirs
  <2> QED BY <2>5, <2>6, <2>7 DEF IInv
<1> QED BY <1>1, <1>2 DEF CommitPayment

\* The ledger stays a ledger, whoever is posted to.
LEMMA PostTypes ==
    ASSUME TypeOK, NEW s \in Suppliers \union {None}, NEW amount \in Int, Post(s, amount)
    PROVE  balance' \in [Suppliers -> Int]
<1>1. CASE s \in Suppliers
  BY <1>1 DEF Post, TypeOK
<1>2. CASE s \notin Suppliers
  BY <1>2 DEF Post, TypeOK
<1> QED BY <1>1, <1>2

\* A void only makes room.
LEMMA VoidLowers ==
    ASSUME TypeOK, NEW m \in Payments, NEW p \in Purchases,
           paid' = [q \in Purchases |-> paid[q] - payments[m].alloc[q]]
    PROVE  paid'[p] \in Int /\ paid'[p] <= paid[p]
<1>1. payments[m].alloc[p] \in Nat /\ paid[p] \in Int
  BY DEF TypeOK, Payment
<1> QED BY <1>1

LEMMA CommitVoidStep ==
    ASSUME IInv, NEW c \in Clients, CommitVoid(c)
    PROVE  IInv'
<1> DEFINE m == txn[c].payment
<1> Leaves(c) /\ End(c)
  BY DrawerLeft DEF CommitVoid, IInv
<1>1. CASE UNCHANGED rows
  BY <1>1, EndStep
<1>2. CASE /\ payments' = [payments EXCEPT ![m].state = "void"]
           /\ paid' = [p \in Purchases |-> paid[p] - payments[m].alloc[p]]
           /\ Post(payments[m].supplier, payments[m].amount)
           /\ UNCHANGED <<status, shelf, sold>>
  <2>1. m \in Payments
    BY TxnTypes DEF CommitVoid, IInv, VoidTxn
  <2>2. payments[m] \in Payment
    BY <2>1 DEF IInv, TypeOK
  <2> HIDE DEF m
  <2>3. \A p \in Purchases : paid'[p] \in Int /\ paid'[p] <= paid[p]
    BY <1>2, <2>1, VoidLowers DEF IInv
  <2>4. Holdings'
    BY <2>1, EndsClean DEF IInv
  <2>5. TypeOK'
    <3>1. payments' \in [Payments -> Payment]
      BY <1>2, <2>2 DEF IInv, TypeOK, Payment
    <3>2. paid' \in [Purchases -> Int]
      BY <1>2, <2>3
    <3>3. balance' \in [Suppliers -> Int]
      BY <1>2, <2>2, PostTypes DEF IInv, Payment
    <3> QED BY <1>2, <2>4, <3>1, <3>2, <3>3 DEF IInv, TypeOK, Holdings, TxnType
  <2>6. NeverOverpaid'
    <3>1. \A p \in Purchases : paid[p] <= Total[p] /\ paid[p] \in Int /\ Total[p] \in Nat
      BY SupplierAssumption DEF IInv, NeverOverpaid, TypeOK
    <3> QED BY <2>3, <3>1 DEF NeverOverpaid
  <2>7. \A o \in Clients : Request(o)'
    BY <1>2, <2>1, <2>3, OthersKeepTheirs
  <2> QED BY <2>5, <2>6, <2>7 DEF IInv
<1> QED BY <1>1, <1>2 DEF CommitVoid

\* A reversal that claims its purchase; nobody else holds it.
LEMMA ClaimStep ==
    ASSUME IInv, NEW c \in Clients, ClaimReversal(c)
    PROVE  IInv'
<1> DEFINE x == txn[c]
           r == [x EXCEPT !.pc = "claimed"]
<1>1. CASE End(c) /\ UNCHANGED <<rows, drawer>>
  BY <1>1, DrawerLeft, EndStep DEF ClaimReversal, IInv
<1>2. CASE /\ Unclaimed(x.purchase)
           /\ txn' = [txn EXCEPT ![c].pc = "claimed"]
           /\ lock' = [lock EXCEPT ![x.purchase] = c]
           /\ UNCHANGED <<shelfLock, rows, drawer>>
  <2>1. x \in ReverseTxn /\ x.pc = "reverse" /\ x.purchase \in Purchases /\ lock[x.purchase] = None
    BY TxnTypes DEF ClaimReversal, IInv, ReverseTxn
  <2>2. r \in ReverseTxn /\ r.pc = "claimed" /\ r.purchase = x.purchase
    BY <2>1 DEF ReverseTxn
  <2>3. r \in TxnType /\ txn' = [txn EXCEPT ![c] = r]
    BY <1>2, <2>2 DEF TxnType
  <2> DEFINE p == x.purchase
  <2> HIDE DEF r, p
  <2>4. /\ txn'[c] = r /\ \A o \in Clients \ {c} : txn'[o] = txn[o]
        /\ txn' \in [Clients -> TxnType]
    BY <2>3, OneRequestMoves DEF IInv
  <2>5. /\ p \in Purchases /\ lock[p] = None /\ lock'[p] = c
        /\ \A q \in Purchases \ {p} : lock'[q] = lock[q]
        /\ lock' \in [Purchases -> Clients \union {None}]
    BY <1>2, <2>1 DEF IInv, TypeOK, p
  <2>6. TypeOK'
    <3>1. \A q \in Purchases : lock'[q] # None => txn'[lock'[q]].pc \in {"pay", "claimed"}
      BY <2>2, <2>4, <2>5 DEF IInv, TypeOK
    <3>2. /\ shelfLock' # None => txn'[shelfLock'].pc = "stock"
          /\ drawer' \in Clients => txn'[drawer'].pc = "pay"
      BY <1>2, <2>1, <2>4 DEF IInv, TypeOK
    <3> QED BY <1>2, <2>4, <2>5, <3>1, <3>2 DEF IInv, TypeOK, rows, TxnType
  <2>7. NeverOverpaid'
    BY <1>2 DEF IInv, NeverOverpaid, rows
  <2>8. Request(c)'
    <3>1. Claimed(c)'
      BY <1>2, <2>2, <2>4, <2>5 DEF Claimed, Unclaimed, rows, p
    <3> QED BY <2>2, <2>4, <3>1 DEF Request, AllocationsFit, OldestFirst
  <2>9. ASSUME NEW o \in Clients, o # c PROVE Request(o)'
    <3>1. /\ txn'[o] = txn[o] /\ status' = status /\ paid' = paid
          /\ AllocationsFit(o) /\ OldestFirst(o) /\ Claimed(o)
      BY <1>2, <2>4, <2>9 DEF IInv, Request, rows
    <3>2. \A q \in Purchases : lock'[q] = o <=> lock[q] = o
      BY <2>5, <2>9, SupplierAssumption
    <3>3. txn[o].pc = "claimed" => txn[o].purchase \in Purchases
      BY TxnTypes DEF IInv, ReverseTxn
    <3>4. AllocationsFit(o)' /\ OldestFirst(o)'
      BY <3>1, <3>2 DEF AllocationsFit, OldestFirst
    <3>5. Claimed(o)'
      BY <3>1, <3>2, <3>3 DEF Claimed
    <3> QED BY <3>4, <3>5 DEF Request
  <2> QED BY <2>6, <2>7, <2>8, <2>9 DEF IInv
<1> QED BY <1>1, <1>2 DEF ClaimReversal

\* A reversal reverses what it has claimed.
LEMMA CommitReversalStep ==
    ASSUME IInv, NEW c \in Clients, CommitReversal(c)
    PROVE  IInv'
<1> DEFINE p == txn[c].purchase
<1> Leaves(c) /\ End(c)
  BY DrawerLeft DEF CommitReversal, IInv
<1>1. CASE UNCHANGED rows
  BY <1>1, EndStep
<1>2. CASE /\ shelf >= Pieces[p]
           /\ status' = [status EXCEPT ![p] = "REVERSED"]
           /\ shelf' = shelf - Pieces[p]
           /\ Post(SupplierOf[p], -Total[p])
           /\ UNCHANGED <<paid, payments, sold>>
  <2>1. p \in Purchases /\ lock[p] = c
    BY TxnTypes DEF CommitReversal, IInv, Request, Claimed, ReverseTxn
  <2> HIDE DEF p
  <2>2. Pieces[p] \in Nat /\ Total[p] \in Nat /\ SupplierOf[p] \in Suppliers
    BY <2>1, SupplierAssumption
  <2>3. Holdings'
    BY EndsClean DEF IInv
  <2>4. TypeOK'
    <3>1. shelf' \in Nat
      BY <1>2, <2>2 DEF IInv, TypeOK
    <3>2. balance' \in [Suppliers -> Int]
      BY <1>2, <2>2 DEF IInv, TypeOK, Post
    <3>3. status' \in [Purchases -> {"NONE", "CONFIRMED", "REVERSED"}]
      BY <1>2 DEF IInv, TypeOK
    <3> QED BY <1>2, <2>3, <3>1, <3>2, <3>3 DEF IInv, TypeOK, Holdings, TxnType
  <2>5. NeverOverpaid'
    BY <1>2 DEF IInv, NeverOverpaid
  <2>6. \A o \in Clients : Request(o)'
    <3>1. \A q \in Purchases : paid[q] \in Int /\ paid[q] <= paid[q]
      BY DEF IInv, TypeOK
    <3>2. \A q \in Purchases : lock[q] \in Clients \ {c} => q # p
      BY <2>1
    <3>3. \A q \in Purchases : q # p => status'[q] = status[q]
      BY <1>2 DEF IInv, TypeOK
    <3> QED BY <1>2, <3>1, <3>2, <3>3, OthersKeepTheirs
  <2> QED BY <2>4, <2>5, <2>6 DEF IInv
<1> QED BY <1>1, <1>2 DEF CommitReversal

\* A purchase that is entered is on nobody's list of allocations yet.
LEMMA EnterStep ==
    ASSUME IInv, NEW c \in Clients, NEW p \in Purchases, Purchase(c, p),
           UNCHANGED drawer \/ PostCash,
           balance' \in [Suppliers -> Int], payments' \in [Payments -> Payment],
           paid' \in [Purchases -> Int], paid'[p] <= Total[p],
           \A q \in Purchases \ {p} : paid'[q] = paid[q]
    PROVE  IInv'
<1>1. Pieces[p] \in Nat
  BY SupplierAssumption
<1>2. /\ status' = [status EXCEPT ![p] = "CONFIRMED"] /\ status[p] = "NONE"
      /\ shelf' = shelf + Pieces[p] /\ UNCHANGED sold
      /\ End(c) /\ txn[c].pc # "pay"
  BY DEF Purchase, Idle
<1>3. Leaves(c) /\ Holdings'
  BY <1>2, DrawerLeft, EndsClean DEF IInv
<1>4. TypeOK'
  <2>1. shelf' \in Nat /\ sold' \in Nat /\ status' \in [Purchases -> {"NONE", "CONFIRMED", "REVERSED"}]
    BY <1>1, <1>2 DEF IInv, TypeOK
  <2> QED BY <1>3, <2>1 DEF TypeOK, Holdings, TxnType
<1>5. NeverOverpaid'
  BY DEF IInv, NeverOverpaid
<1>6. \A o \in Clients : Request(o)'
  <2>1. \A q \in Purchases : status[q] = "CONFIRMED" => q # p /\ status'[q] = "CONFIRMED"
    BY <1>2 DEF IInv, TypeOK
  <2>2. \A q \in Purchases : paid[q] \in Int /\ paid'[q] \in Int /\ paid[q] <= paid[q]
    BY DEF IInv, TypeOK
  <2> QED BY <1>2, <1>3, <2>1, <2>2, OthersKeepTheirs
<1> QED BY <1>4, <1>5, <1>6 DEF IInv

LEMMA EntersStep ==
    ASSUME IInv, NEW c \in Clients, NEW p \in Purchases,
           EnterPurchase(c, p) \/ \E m \in Payments, a \in Amounts : EnterPaidPurchase(c, p, m, a)
    PROVE  IInv'
<1>1. CASE EnterPurchase(c, p)
  <2>1. Purchase(c, p) /\ UNCHANGED <<paid, payments, drawer>> /\ Post(SupplierOf[p], Total[p])
    BY <1>1 DEF EnterPurchase
  <2>2. balance' \in [Suppliers -> Int]
    BY <2>1, SupplierAssumption DEF Post, IInv, TypeOK
  <2>3. /\ payments' \in [Payments -> Payment] /\ paid' \in [Purchases -> Int]
        /\ paid'[p] <= Total[p] /\ \A q \in Purchases \ {p} : paid'[q] = paid[q]
    BY <2>1 DEF IInv, TypeOK, NeverOverpaid
  <2> QED BY <2>1, <2>2, <2>3, EnterStep
<1>2. ASSUME NEW m \in Payments, NEW a \in Amounts, EnterPaidPurchase(c, p, m, a)
      PROVE  IInv'
  <2>1. a \in Nat /\ Total[p] \in Nat /\ SupplierOf[p] \in Suppliers
    BY SupplierAssumption
  <2>2. /\ Purchase(c, p) /\ PostCash /\ a <= Total[p] /\ Post(SupplierOf[p], Total[p] - a)
        /\ paid' = [paid EXCEPT ![p] = a]
        /\ payments' = [payments EXCEPT ![m] =
               [state |-> "live", supplier |-> SupplierOf[p], amount |-> a, alloc |-> Only(p, a)]]
    BY <1>2 DEF EnterPaidPurchase
  <2>3. balance' \in [Suppliers -> Int]
    BY <2>1, <2>2 DEF Post, IInv, TypeOK
  <2>4. payments' \in [Payments -> Payment]
    <3>1. Only(p, a) \in [Purchases -> Nat]
      BY <2>1 DEF Only, Nothing
    <3> QED BY <2>1, <2>2, <3>1 DEF IInv, TypeOK, Payment
  <2>5. /\ paid' \in [Purchases -> Int] /\ paid'[p] <= Total[p]
        /\ \A q \in Purchases \ {p} : paid'[q] = paid[q]
    BY <2>1, <2>2 DEF IInv, TypeOK
  <2> QED BY <2>2, <2>3, <2>4, <2>5, EnterStep
<1> QED BY <1>1, <1>2

LEMMA SellStep ==
    ASSUME IInv, NEW c \in Clients, Sell(c)
    PROVE  IInv'
<1>1. /\ End(c) /\ Leaves(c) /\ shelf > 0 /\ shelf' = shelf - 1 /\ sold' = sold + 1
      /\ UNCHANGED <<status, paid, payments, balance>>
  BY DrawerLeft DEF Sell, IInv
<1>2. Holdings'
  BY <1>1, EndsClean DEF IInv
<1>3. TypeOK'
  BY <1>1, <1>2 DEF IInv, TypeOK, Holdings, TxnType
<1>4. NeverOverpaid'
  BY <1>1 DEF IInv, NeverOverpaid
<1>5. \A o \in Clients : Request(o)'
  <2>1. \A p \in Purchases : paid[p] \in Int /\ paid[p] <= paid[p]
    BY DEF IInv, TypeOK
  <2> QED BY <1>1, <2>1, OthersKeepTheirs
<1> QED BY <1>3, <1>4, <1>5 DEF IInv

-----------------------------------------------------------------------------
LEMMA InvInit == Init => IInv
<1> SUFFICES ASSUME Init PROVE IInv
  OBVIOUS
<1>1. TypeOK
  BY SupplierAssumption DEF Init, TypeOK, Nothing, NoPayment, Payment, Idle
<1>2. NeverOverpaid
  BY SupplierAssumption DEF Init, NeverOverpaid, Nothing
<1>3. \A c \in Clients : Request(c)
  BY DEF Init, Request, AllocationsFit, OldestFirst, Claimed, Idle
<1> QED BY <1>1, <1>2, <1>3 DEF IInv

LEMMA InvNext == IInv /\ [Next]_vars => IInv'
<1> SUFFICES ASSUME IInv, [Next]_vars PROVE IInv'
  OBVIOUS
<1>1. ASSUME NEW c \in Clients, Stock(c) PROVE IInv'
  BY <1>1, TakeShelfStep, SellStep, EntersStep DEF Stock
<1>2. ASSUME NEW c \in Clients, Begin(c) PROVE IInv'
  BY <1>2, PayStep, BeginVoidStep, BeginReversalStep DEF Begin
<1>3. ASSUME NEW c \in Clients, Finish(c) PROVE IInv'
  BY <1>3, AllocateStep, CommitPaymentStep, CommitVoidStep, ClaimStep, CommitReversalStep DEF Finish
<1>4. ASSUME NEW c \in Clients, Abort(c) PROVE IInv'
  BY <1>4, RollBackStep DEF Abort
<1>5. CASE UNCHANGED vars
  <2>1. TypeOK' /\ NeverOverpaid'
    BY <1>5 DEF IInv, TypeOK, NeverOverpaid, vars, rows
  <2>2. \A c \in Clients : Request(c)'
    BY <1>5 DEF IInv, Request, AllocationsFit, OldestFirst, Claimed, vars, rows
  <2> QED BY <2>1, <2>2 DEF IInv
<1> QED BY <1>1, <1>2, <1>3, <1>4, <1>5 DEF Next

\* IInv is inductive.
THEOREM Invariant == Spec => []IInv
<1> QED BY InvInit, InvNext, PTL DEF Spec

-----------------------------------------------------------------------------
\* Rows and requests hold values of their types; the shelf never goes below zero, and only a
\* payment in progress keeps a purchase locked (TypeOK).
THEOREM SupplierTypes == Spec => []TypeOK
<1>1. IInv => TypeOK
  BY DEF IInv
<1> QED BY <1>1, Invariant, PTL

\* However many people pay at once, no purchase is settled beyond its total (the row lock in
\* recordSupplierPaymentIn).
THEOREM NoPurchaseOverpaid == Spec => []NeverOverpaid
<1>1. IInv => NeverOverpaid
  BY DEF IInv
<1> QED BY <1>1, Invariant, PTL

\* However many payments, reversals, purchases and sales are in flight, no group of them without
\* the one who opens the day's drawer all wait for one another, whether for purchases, the shelf
\* or the drawer (the order of autoAllocate, and the order purchase, shelf, drawer): who holds
\* the shelf waits for none of the group, nor then does a reversal that has claimed its purchase,
\* nor then the payment that holds the newest purchase the group holds.
THEOREM RingsNeedTheOpener == Spec => []NoCircle
<1>1. IInv => NoCircle
  <2> SUFFICES ASSUME IInv, NEW group \in SUBSET Clients, group # {}, drawer \notin group,
                      \A c \in group : \E o \in group : Waits(c, o)
               PROVE  FALSE
    BY DEF NoCircle
  <2> DEFINE H == {p \in Purchases : lock[p] \in group}
  <2>1. IsFiniteSet(H) /\ H \subseteq Nat
    BY SupplierAssumption, FS_Subset
  <2>2. \A c \in group : txn[c].pc # "stock"
    BY DEF Waits
  <2>3. shelfLock \notin group
    BY <2>2, SupplierAssumption DEF IInv, TypeOK
  <2>4. \A c \in group : txn[c].pc # "claimed"
    BY <2>3 DEF Waits
  <2>5. ASSUME NEW c \in group
        PROVE  \E p \in H : \/ txn[c].pc = "pay" /\ txn[c].left[p] > 0
                            \/ txn[c].pc = "reverse"
    BY <2>2, <2>4 DEF Waits
  <2>6. H # {}
    BY <2>5
  <2>7. PICK p \in H : \A q \in H : q <= p
    <3> HIDE DEF H
    <3> QED BY <2>1, <2>6, GreatestOf
  <2>8. lock[p] \in Clients /\ lock[p] \in group /\ txn[lock[p]].pc = "pay"
    BY <2>4, SupplierAssumption DEF IInv, TypeOK
  <2>9. PICK q \in H : txn[lock[p]].left[q] > 0
    BY <2>5, <2>8
  <2>10. p < q
    BY <2>8, <2>9 DEF IInv, Request, OldestFirst
  <2>11. q <= p
    BY <2>7
  <2> QED BY <2>1, <2>10, <2>11
<1> QED BY <1>1, Invariant, PTL

\* The purchases that are reversed stay so and are paid no more.
Final ==
    \A p \in Purchases :
        status[p] = "REVERSED" => status'[p] = "REVERSED" /\ paid'[p] <= paid[p]

\* Only what a reversal would have waited for, or a void, changes what is paid.
LEMMA FinalStep ==
    ASSUME IInv, [Next]_vars
    PROVE  [Final]_vars
<1>1. \A p \in Purchases : paid[p] \in Int /\ paid[p] <= paid[p]
  BY DEF IInv, TypeOK
<1>2. CASE status' = status /\ paid' = paid
  BY <1>1, <1>2 DEF Final
<1>3. ASSUME NEW c \in Clients, NEW p \in Purchases, Purchase(c, p),
             \A q \in Purchases \ {p} : paid'[q] = paid[q]
      PROVE  Final
  <2>1. status[p] = "NONE" /\ \A q \in Purchases \ {p} : status'[q] = status[q]
    BY <1>3 DEF Purchase, IInv, TypeOK
  <2> QED BY <1>1, <1>3, <2>1 DEF Final
<1>4. ASSUME NEW c \in Clients, Stock(c) PROVE Final
  <2>1. ASSUME NEW p \in Purchases, EnterPurchase(c, p) PROVE Final
    BY <1>3, <2>1 DEF EnterPurchase
  <2>2. ASSUME NEW p \in Purchases, NEW m \in Payments, NEW a \in Amounts,
               EnterPaidPurchase(c, p, m, a)
        PROVE  Final
    <3>1. Purchase(c, p) /\ \A q \in Purchases \ {p} : paid'[q] = paid[q]
      BY <2>2 DEF EnterPaidPurchase, IInv, TypeOK
    <3> QED BY <1>3, <3>1
  <2>3. CASE TakeShelf(c) \/ Sell(c)
    <3>1. status' = status /\ paid' = paid
      BY <2>3 DEF TakeShelf, Sell, rows
    <3> QED BY <1>1, <3>1 DEF Final
  <2> QED BY <1>4, <2>1, <2>2, <2>3 DEF Stock
<1>5. ASSUME NEW c \in Clients, CommitPayment(c) PROVE Final
  <2>1. CASE UNCHANGED rows
    <3>1. status' = status /\ paid' = paid
      BY <2>1 DEF rows
    <3> QED BY <1>1, <3>1 DEF Final
  <2>2. CASE status' = status /\ paid' = [p \in Purchases |-> paid[p] + txn[c].done[p]]
    <3>1. txn[c].pc = "pay"
      BY <1>5 DEF CommitPayment
    <3>2. ASSUME NEW p \in Purchases, status[p] = "REVERSED" PROVE paid'[p] = paid[p]
      <4>1. /\ txn[c].done[p] \in Nat /\ paid[p] \in Int
            /\ txn[c].done[p] > 0 => status[p] = "CONFIRMED"
        BY <3>1, UnheldIsUndone
      <4>2. paid'[p] = paid[p] + txn[c].done[p]
        BY <2>2
      <4> QED BY <3>2, <4>1, <4>2
    <3> QED BY <1>1, <2>2, <3>2 DEF Final
  <2> QED BY <1>5, <2>1, <2>2 DEF CommitPayment, RollBack
<1>6. ASSUME NEW c \in Clients, CommitVoid(c) PROVE Final
  <2>1. CASE UNCHANGED rows
    <3>1. status' = status /\ paid' = paid
      BY <2>1 DEF rows
    <3> QED BY <1>1, <3>1 DEF Final
  <2>2. CASE /\ status' = status
             /\ paid' = [p \in Purchases |-> paid[p] - payments[txn[c].payment].alloc[p]]
    <3>1. txn[c] \in VoidTxn
      BY <1>6, TxnTypes DEF CommitVoid, IInv
    <3>2. txn[c].payment \in Payments
      BY <3>1 DEF VoidTxn
    <3>3. TypeOK
      BY DEF IInv
    <3> DEFINE m == txn[c].payment
    <3> HIDE DEF m
    <3>4. \A p \in Purchases : paid'[p] <= paid[p]
      BY <2>2, <3>2, <3>3, VoidLowers DEF m
    <3> QED BY <2>2, <3>4 DEF Final
  <2> QED BY <1>6, <2>1, <2>2 DEF CommitVoid
<1>7. ASSUME NEW c \in Clients, CommitReversal(c) PROVE Final
  <2>1. CASE UNCHANGED rows
    <3>1. status' = status /\ paid' = paid
      BY <2>1 DEF rows
    <3> QED BY <1>1, <3>1 DEF Final
  <2>2. CASE status' = [status EXCEPT ![txn[c].purchase] = "REVERSED"] /\ paid' = paid
    <3>1. \A p \in Purchases : status[p] = "REVERSED" => status'[p] = "REVERSED"
      BY <2>2 DEF IInv, TypeOK
    <3> QED BY <1>1, <2>2, <3>1 DEF Final
  <2> QED BY <1>7, <2>1, <2>2 DEF CommitReversal
<1>8. ASSUME NEW c \in Clients, Begin(c) \/ Abort(c) PROVE status' = status /\ paid' = paid
  BY <1>8 DEF Begin, Abort, RollBack, PayPurchase, PayOldest, StartPayment, BeginVoid,
              BeginReversal, rows
<1>9. ASSUME NEW c \in Clients, ClaimReversal(c) \/ \E p \in Purchases : AllocateNext(c, p)
      PROVE  status' = status /\ paid' = paid
  BY <1>9 DEF AllocateNext, ClaimReversal, RollBack, rows
<1>10. CASE UNCHANGED vars
  BY <1>10
<1> QED BY <1>2, <1>4, <1>5, <1>6, <1>7, <1>8, <1>9, <1>10 DEF Next, Finish

\* A reversed purchase is never paid on and never stands again.
THEOREM ReversalsStand == Spec => ReversedIsFinal
<1>1. IInv /\ [Next]_vars => [Final]_vars
  BY FinalStep
<1> QED BY <1>1, Invariant, PTL DEF Spec, ReversedIsFinal, Final

-----------------------------------------------------------------------------
(* The ledger.  Rows are only added, changed or taken away one at a time,  *)
(* so each sum gains or loses what the row counts for.                     *)

Live == {m \in Payments : payments[m].state = "live"}
Standing == {p \in Purchases : status[p] = "CONFIRMED"}
Alloc == [p \in Purchases |-> [m \in Payments |-> payments[m].alloc[p]]]
Amount == [m \in Payments |-> payments[m].amount]
PaidTo(s) == {m \in Live : payments[m].supplier = s}
BoughtFrom(s) == {p \in Standing : SupplierOf[p] = s}

\* A payment that is being entered is no row yet, and one request enters it.
PaymentsAreNew ==
    \A c \in Clients :
        txn[c].pc = "pay" =>
            /\ payments[txn[c].payment] = NoPayment
            /\ \A o \in Clients : txn[o].pc = "pay" /\ txn[o].payment = txn[c].payment => o = c

GoodsAddUp == shelf = SumOver(Standing, Pieces) - sold
PaidAddsUp == \A p \in Purchases : paid[p] = SumOver(Live, Alloc[p])
BalancesAddUp ==
    \A s \in Suppliers : balance[s] = SumOver(BoughtFrom(s), Total) - SumOver(PaidTo(s), Amount)

\* Nothing is paid on a purchase before it is entered.
NewIsUnpaid == \A p \in Purchases : status[p] = "NONE" => paid[p] = 0

Ledger == IsFiniteSet(Live) /\ GoodsAddUp /\ PaidAddsUp /\ BalancesAddUp /\ NewIsUnpaid

LInv == IInv /\ PaymentsAreNew /\ Ledger

\* The sets a sum runs over are finite, and what it adds are natural numbers.
LEMMA Summable ==
    ASSUME TypeOK, IsFiniteSet(Live)
    PROVE  /\ IsFiniteSet(Standing) /\ Standing \subseteq Purchases
           /\ Naturals(Standing, Pieces) /\ Naturals(Standing, Total)
           /\ \A p \in Purchases : Naturals(Live, Alloc[p])
           /\ \A s \in Suppliers : /\ IsFiniteSet(PaidTo(s)) /\ Naturals(PaidTo(s), Amount)
                                  /\ IsFiniteSet(BoughtFrom(s)) /\ Naturals(BoughtFrom(s), Total)
<1>1. Standing \in SUBSET Purchases /\ IsFiniteSet(Purchases)
  BY SupplierAssumption DEF Standing
<1>2. IsFiniteSet(Standing)
  BY <1>1, FS_Subset
<1>3. ASSUME NEW s \in Suppliers PROVE IsFiniteSet(PaidTo(s)) /\ IsFiniteSet(BoughtFrom(s))
  <2>1. PaidTo(s) \in SUBSET Live /\ BoughtFrom(s) \in SUBSET Standing
    BY DEF PaidTo, BoughtFrom
  <2> QED BY <1>2, <2>1, FS_Subset
<1>4. \A p \in Purchases : Naturals(Live, Alloc[p])
  BY DEF TypeOK, Payment, Live, Alloc, Naturals
<1>5. \A s \in Suppliers : Naturals(PaidTo(s), Amount) /\ Naturals(BoughtFrom(s), Total)
  BY SupplierAssumption DEF TypeOK, Payment, Live, PaidTo, Amount, Naturals, BoughtFrom, Standing
<1>6. Naturals(Standing, Pieces) /\ Naturals(Standing, Total)
  BY <1>1, SupplierAssumption DEF Naturals
<1> QED BY <1>1, <1>2, <1>3, <1>4, <1>5, <1>6

\* No row, no change.
LEMMA RowsStay ==
    ASSUME Ledger, UNCHANGED rows
    PROVE  Ledger'
BY DEF Ledger, GoodsAddUp, PaidAddsUp, BalancesAddUp, NewIsUnpaid, Live, Standing, Alloc, Amount, PaidTo,
       BoughtFrom, rows

\* A payment counts from its commit on: for the purchases it settles and on the account.
LEMMA PaymentCounts ==
    ASSUME TypeOK, Ledger, NEW m \in Payments, payments[m] = NoPayment,
           NEW r \in Payment, r.state = "live", payments' = [payments EXCEPT ![m] = r]
    PROVE  /\ IsFiniteSet(Live')
           /\ \A p \in Purchases : SumOver(Live', Alloc'[p]) = SumOver(Live, Alloc[p]) + r.alloc[p]
           /\ \A s \in Suppliers :
                  SumOver(PaidTo(s)', Amount') =
                      SumOver(PaidTo(s), Amount) + (IF r.supplier = s THEN r.amount ELSE 0)
<1>1. Live' = Live \union {m} /\ m \notin Live /\ Live \subseteq Payments
  BY DEF Live, NoPayment, TypeOK
<1>2. IsFiniteSet(Live) /\ IsFiniteSet(Live')
  BY <1>1, FS_AddElement DEF Ledger
<1>3. /\ \A n \in Live : payments'[n] = payments[n]
      /\ payments'[m] = r /\ r.amount \in Nat /\ r.alloc \in [Purchases -> Nat]
  BY <1>1 DEF TypeOK, Payment
<1>4. ASSUME NEW p \in Purchases
      PROVE  SumOver(Live', Alloc'[p]) = SumOver(Live, Alloc[p]) + r.alloc[p]
  <2>1. Alloc'[p][m] = r.alloc[p] /\ r.alloc[p] \in Nat /\ Naturals(Live, Alloc[p])
    BY <1>2, <1>3, Summable DEF Alloc
  <2>2. Alike(Live, Alloc[p], Alloc'[p])
    BY <1>1, <1>3 DEF Alloc, Alike
  <2>3. SumOver(Live \union {m}, Alloc'[p]) = SumOver(Live, Alloc[p]) + Alloc'[p][m]
    BY <1>1, <1>2, <2>1, <2>2, SumGrows
  <2> QED BY <1>1, <2>1, <2>3
<1>5. ASSUME NEW s \in Suppliers
      PROVE  SumOver(PaidTo(s)', Amount') =
                 SumOver(PaidTo(s), Amount) + (IF r.supplier = s THEN r.amount ELSE 0)
  <2>1. IsFiniteSet(PaidTo(s)) /\ Naturals(PaidTo(s), Amount) /\ m \notin PaidTo(s)
    BY <1>1, <1>2, Summable DEF PaidTo
  <2>2. Amount'[m] = r.amount /\ Alike(PaidTo(s), Amount, Amount')
    BY <1>1, <1>3 DEF Amount, Alike, PaidTo
  <2>3. CASE r.supplier = s
    <3>1. PaidTo(s)' = PaidTo(s) \union {m}
      BY <1>1, <1>3, <2>3 DEF PaidTo
    <3>2. SumOver(PaidTo(s) \union {m}, Amount') = SumOver(PaidTo(s), Amount) + Amount'[m]
      BY <1>3, <2>1, <2>2, SumGrows
    <3> QED BY <2>2, <2>3, <3>1, <3>2
  <2>4. CASE r.supplier # s
    <3>1. PaidTo(s)' = PaidTo(s)
      BY <1>1, <1>3, <2>4 DEF PaidTo
    <3>2. SumOver(PaidTo(s), Amount') = SumOver(PaidTo(s), Amount)
      BY <2>2, SumSame
    <3>3. SumOver(PaidTo(s), Amount) \in Nat
      BY <2>1, SumType
    <3> QED BY <2>4, <3>1, <3>2, <3>3
  <2> QED BY <2>3, <2>4
<1> QED BY <1>2, <1>4, <1>5

\* A payment that is voided no longer counts, for the purchases it settled and on the account.
LEMMA PaymentStops ==
    ASSUME TypeOK, Ledger, NEW m \in Payments, payments[m].state = "live",
           payments' = [payments EXCEPT ![m].state = "void"]
    PROVE  /\ IsFiniteSet(Live')
           /\ \A p \in Purchases :
                  SumOver(Live', Alloc'[p]) = SumOver(Live, Alloc[p]) - payments[m].alloc[p]
           /\ \A s \in Suppliers :
                  SumOver(PaidTo(s)', Amount') =
                      SumOver(PaidTo(s), Amount)
                      - (IF payments[m].supplier = s THEN payments[m].amount ELSE 0)
<1>1. Live' = Live \ {m} /\ m \in Live /\ Live \subseteq Payments /\ IsFiniteSet(Live)
  BY DEF Live, TypeOK, Payment, Ledger
<1>2. \A n \in Live \ {m} : payments'[n] = payments[n]
  BY <1>1 DEF TypeOK
<1>3. ASSUME NEW p \in Purchases
      PROVE  /\ SumOver(Live', Alloc'[p]) = SumOver(Live, Alloc[p]) - payments[m].alloc[p]
             /\ IsFiniteSet(Live')
  <2>1. Naturals(Live, Alloc[p]) /\ Alloc[p][m] = payments[m].alloc[p]
    BY <1>1, Summable DEF Alloc
  <2>2. Alike(Live \ {m}, Alloc[p], Alloc'[p])
    BY <1>1, <1>2 DEF Alloc, Alike
  <2> QED BY <1>1, <2>1, <2>2, SumShrinks
<1>4. ASSUME NEW s \in Suppliers
      PROVE  SumOver(PaidTo(s)', Amount') =
                 SumOver(PaidTo(s), Amount)
                 - (IF payments[m].supplier = s THEN payments[m].amount ELSE 0)
  <2>1. /\ IsFiniteSet(PaidTo(s)) /\ Naturals(PaidTo(s), Amount)
        /\ m \in PaidTo(s) <=> payments[m].supplier = s
    BY <1>1, Summable DEF PaidTo
  <2>2. Amount[m] = payments[m].amount /\ Alike(PaidTo(s) \ {m}, Amount, Amount')
    BY <1>1, <1>2 DEF Amount, Alike, PaidTo
  <2>3. PaidTo(s)' = PaidTo(s) \ {m}
    BY <1>1, <1>2 DEF PaidTo
  <2>4. CASE payments[m].supplier = s
    <3>1. SumOver(PaidTo(s) \ {m}, Amount') = SumOver(PaidTo(s), Amount) - Amount[m]
      BY <2>1, <2>2, <2>4, SumShrinks
    <3> QED BY <2>2, <2>3, <2>4, <3>1
  <2>5. CASE payments[m].supplier # s
    <3>1. PaidTo(s)' = PaidTo(s) /\ Alike(PaidTo(s), Amount, Amount')
      BY <2>1, <2>2, <2>3, <2>5 DEF Alike
    <3>2. SumOver(PaidTo(s), Amount') = SumOver(PaidTo(s), Amount)
      BY <3>1, SumSame
    <3>3. SumOver(PaidTo(s), Amount) \in Nat
      BY <2>1, SumType
    <3> QED BY <2>5, <3>1, <3>2, <3>3
  <2> QED BY <2>4, <2>5
<1>5. IsFiniteSet(Live')
  BY <1>1, FS_RemoveElement
<1> QED BY <1>3, <1>4, <1>5

\* A purchase that is entered brings its pieces and its total.
LEMMA PurchaseCounts ==
    ASSUME TypeOK, Ledger, NEW p \in Purchases, status[p] = "NONE",
           status' = [status EXCEPT ![p] = "CONFIRMED"]
    PROVE  /\ SumOver(Standing', Pieces) = SumOver(Standing, Pieces) + Pieces[p]
           /\ \A s \in Suppliers :
                  SumOver(BoughtFrom(s)', Total) =
                      SumOver(BoughtFrom(s), Total) + (IF SupplierOf[p] = s THEN Total[p] ELSE 0)
<1>1. Standing' = Standing \union {p} /\ p \notin Standing
  BY DEF Standing, TypeOK
<1>2. Pieces[p] \in Nat /\ Total[p] \in Nat /\ IsFiniteSet(Standing) /\ Naturals(Standing, Pieces)
  BY SupplierAssumption, Summable DEF Ledger
<1>3. SumOver(Standing \union {p}, Pieces) = SumOver(Standing, Pieces) + Pieces[p]
  BY <1>1, <1>2, SumAdd
<1>4. ASSUME NEW s \in Suppliers
      PROVE  SumOver(BoughtFrom(s)', Total) =
                 SumOver(BoughtFrom(s), Total) + (IF SupplierOf[p] = s THEN Total[p] ELSE 0)
  <2>1. /\ IsFiniteSet(BoughtFrom(s)) /\ Naturals(BoughtFrom(s), Total) /\ p \notin BoughtFrom(s)
        /\ SumOver(BoughtFrom(s), Total) \in Nat
    BY <1>1, Summable, SumType DEF BoughtFrom, Ledger
  <2>2. CASE SupplierOf[p] = s
    <3>1. BoughtFrom(s)' = BoughtFrom(s) \union {p}
      BY <1>1, <2>2 DEF BoughtFrom
    <3>2. SumOver(BoughtFrom(s) \union {p}, Total) = SumOver(BoughtFrom(s), Total) + Total[p]
      BY <1>2, <2>1, SumAdd
    <3> QED BY <2>2, <3>1, <3>2
  <2>3. CASE SupplierOf[p] # s
    <3>1. BoughtFrom(s)' = BoughtFrom(s)
      BY <1>1, <2>3 DEF BoughtFrom
    <3> QED BY <2>1, <2>3, <3>1
  <2> QED BY <2>2, <2>3
<1> QED BY <1>1, <1>3, <1>4

\* A purchase that is reversed takes them away again.
LEMMA PurchaseStops ==
    ASSUME TypeOK, Ledger, NEW p \in Purchases, status[p] = "CONFIRMED",
           status' = [status EXCEPT ![p] = "REVERSED"]
    PROVE  /\ SumOver(Standing', Pieces) = SumOver(Standing, Pieces) - Pieces[p]
           /\ \A s \in Suppliers :
                  SumOver(BoughtFrom(s)', Total) =
                      SumOver(BoughtFrom(s), Total) - (IF SupplierOf[p] = s THEN Total[p] ELSE 0)
<1>1. Standing' = Standing \ {p} /\ p \in Standing
  BY DEF Standing, TypeOK
<1>2. /\ Naturals(Standing, Pieces) /\ IsFiniteSet(Standing)
      /\ Alike(Standing \ {p}, Pieces, Pieces)
  BY Summable DEF Alike, Ledger
<1>3. SumOver(Standing \ {p}, Pieces) = SumOver(Standing, Pieces) - Pieces[p]
  BY <1>1, <1>2, SumShrinks
<1>4. ASSUME NEW s \in Suppliers
      PROVE  SumOver(BoughtFrom(s)', Total) =
                 SumOver(BoughtFrom(s), Total) - (IF SupplierOf[p] = s THEN Total[p] ELSE 0)
  <2>1. /\ IsFiniteSet(BoughtFrom(s)) /\ Naturals(BoughtFrom(s), Total)
        /\ SumOver(BoughtFrom(s), Total) \in Nat
    BY Summable, SumType DEF Ledger
  <2>2. CASE SupplierOf[p] = s
    <3>1. BoughtFrom(s)' = BoughtFrom(s) \ {p} /\ p \in BoughtFrom(s)
      BY <1>1, <2>2 DEF BoughtFrom
    <3>2. Alike(BoughtFrom(s) \ {p}, Total, Total)
      BY DEF Alike
    <3>3. SumOver(BoughtFrom(s) \ {p}, Total) = SumOver(BoughtFrom(s), Total) - Total[p]
      BY <2>1, <3>1, <3>2, SumShrinks
    <3> QED BY <2>2, <3>1, <3>3
  <2>3. CASE SupplierOf[p] # s
    <3>1. BoughtFrom(s)' = BoughtFrom(s)
      BY <1>1, <2>3 DEF BoughtFrom
    <3> QED BY <2>1, <2>3, <3>1
  <2> QED BY <2>2, <2>3
<1> QED BY <1>1, <1>3, <1>4

\* The requests that enter a payment enter what they did before, or nothing.
LEMMA EnteringStays ==
    ASSUME PaymentsAreNew,
           \A o \in Clients : txn'[o].pc = "pay" =>
               /\ txn[o].pc = "pay" /\ txn'[o].payment = txn[o].payment
               /\ payments'[txn[o].payment] = payments[txn[o].payment]
    PROVE  PaymentsAreNew'
BY DEF PaymentsAreNew, NoPayment, Nothing

\* The end of a request, and of the payment it was entering.
LEMMA EnteringEnds ==
    ASSUME LInv, NEW c \in Clients, End(c),
           \A o \in Clients \ {c} :
               txn[o].pc = "pay" => payments'[txn[o].payment] = payments[txn[o].payment]
    PROVE  PaymentsAreNew'
<1>1. txn'[c] = Idle /\ \A o \in Clients \ {c} : txn'[o] = txn[o]
  BY DEF End, LInv, IInv, TypeOK
<1> QED BY <1>1, EnteringStays DEF LInv, Idle

LEMMA EndLedger ==
    ASSUME LInv, NEW c \in Clients, End(c), Leaves(c), UNCHANGED rows
    PROVE  LInv'
<1>1. PaymentsAreNew'
  BY EnteringEnds DEF rows
<1> QED BY <1>1, EndStep, RowsStay DEF LInv

LEMMA RollBackLedger ==
    ASSUME LInv, NEW c \in Clients, RollBack(c)
    PROVE  LInv'
BY DrawerLeft, EndLedger DEF RollBack, LInv, IInv

\* A payment starts with a number nobody has.
LEMMA StartPaymentLedger ==
    ASSUME LInv, NEW c \in Clients, NEW m \in Payments, NEW s \in Suppliers,
           NEW amount \in Amounts, NEW plan \in [Purchases -> Nat],
           StartPayment(c, m, s, amount, plan)
    PROVE  LInv'
<1> DEFINE r == [pc |-> "pay", payment |-> m, supplier |-> s, amount |-> amount,
                 left |-> plan, done |-> Nothing]
<1>1. r \in TxnType /\ r.pc = "pay" /\ r.payment = m
  BY SupplierAssumption DEF TxnType, PayTxn, Nothing
<1>2. Fresh(m) /\ UNCHANGED rows /\ txn' = [txn EXCEPT ![c] = r]
  BY DEF StartPayment
<1> HIDE DEF r
<1>3. txn'[c] = r /\ \A o \in Clients \ {c} : txn'[o] = txn[o]
  BY <1>1, <1>2, OneRequestMoves DEF LInv, IInv
<1>4. PaymentsAreNew'
  <2>1. payments' = payments
    BY <1>2 DEF rows
  <2>2. ASSUME NEW a \in Clients, txn'[a].pc = "pay"
        PROVE  payments[txn'[a].payment] = NoPayment
    <3>1. CASE a = c
      BY <1>1, <1>2, <1>3, <3>1 DEF Fresh
    <3>2. CASE a # c
      BY <1>3, <2>2, <3>2 DEF LInv, PaymentsAreNew
    <3> QED BY <3>1, <3>2
  <2>3. ASSUME NEW a \in Clients, NEW o \in Clients, txn'[a].pc = "pay", txn'[o].pc = "pay",
               txn'[o].payment = txn'[a].payment
        PROVE  o = a
    <3>1. a = c /\ o # c => FALSE
      BY <1>1, <1>2, <1>3, <2>3 DEF Fresh
    <3>2. a # c /\ o = c => FALSE
      BY <1>1, <1>2, <1>3, <2>3 DEF Fresh
    <3>3. a # c /\ o # c => o = a
      BY <1>3, <2>3 DEF LInv, PaymentsAreNew
    <3> QED BY <3>1, <3>2, <3>3
  <2> QED BY <2>1, <2>2, <2>3 DEF PaymentsAreNew, NoPayment, Nothing
<1> QED BY <1>2, <1>4, StartPaymentStep, RowsStay DEF LInv

LEMMA PayLedger ==
    ASSUME LInv, NEW c \in Clients, NEW m \in Payments, NEW amount \in Amounts,
           \/ \E p \in Purchases, part \in Amounts : PayPurchase(c, m, p, amount, part)
           \/ \E s \in Suppliers : PayOldest(c, m, s, amount)
    PROVE  LInv'
<1>1. ASSUME NEW p \in Purchases, NEW part \in Amounts, PayPurchase(c, m, p, amount, part)
      PROVE  LInv'
  <2>1. Only(p, part) \in [Purchases -> Nat] /\ SupplierOf[p] \in Suppliers
    BY SupplierAssumption DEF Only, Nothing
  <2> QED BY <1>1, <2>1, StartPaymentLedger DEF PayPurchase
<1>2. ASSUME NEW s \in Suppliers, PayOldest(c, m, s, amount)
      PROVE  LInv'
  <2> DEFINE plan == AutoAllocate(s, amount)
  <2>1. StartPayment(c, m, s, amount, plan)
    BY <1>2 DEF PayOldest
  <2>2. plan \in [Purchases -> 0 .. amount]
    BY WhoGetsWhat, SupplierAssumption DEF LInv, IInv
  <2> HIDE DEF plan
  <2>3. plan \in [Purchases -> Nat]
    BY <2>2
  <2> QED BY <2>1, <2>3, StartPaymentLedger
<1> QED BY <1>1, <1>2

\* A void, a reversal, a purchase or a sale that begins changes no row yet, nor does a claim.
LEMMA BeginLedger ==
    ASSUME LInv, NEW c \in Clients,
           \/ \E m \in Payments : BeginVoid(c, m)
           \/ \E p \in Purchases : BeginReversal(c, p)
           \/ TakeShelf(c)
           \/ ClaimReversal(c)
    PROVE  LInv'
<1>1. UNCHANGED rows /\ \A o \in Clients : txn'[o].pc = "pay" => txn'[o] = txn[o]
  <2>1. CASE TakeShelf(c)
    BY <2>1 DEF TakeShelf, LInv, IInv, TypeOK
  <2>2. ASSUME NEW m \in Payments, BeginVoid(c, m)
        PROVE  UNCHANGED rows /\ \A o \in Clients : txn'[o].pc = "pay" => txn'[o] = txn[o]
    BY <2>2 DEF BeginVoid, LInv, IInv, TypeOK
  <2>3. ASSUME NEW p \in Purchases, BeginReversal(c, p)
        PROVE  UNCHANGED rows /\ \A o \in Clients : txn'[o].pc = "pay" => txn'[o] = txn[o]
    BY <2>3 DEF BeginReversal, LInv, IInv, TypeOK
  <2>4. CASE ClaimReversal(c)
    <3>1. txn[c] \in ReverseTxn /\ UNCHANGED rows
      BY <2>4, TxnTypes DEF ClaimReversal, LInv, IInv
    <3>2. txn'[c].pc # "pay" /\ \A o \in Clients \ {c} : txn'[o] = txn[o]
      BY <2>4, <3>1 DEF ClaimReversal, End, Idle, ReverseTxn, LInv, IInv, TypeOK
    <3> QED BY <3>1, <3>2
  <2> QED BY <2>1, <2>2, <2>3, <2>4
<1>2. PaymentsAreNew'
  BY <1>1, EnteringStays DEF LInv, rows
<1>3. IInv'
  BY BeginVoidStep, BeginReversalStep, TakeShelfStep, ClaimStep DEF LInv
<1> QED BY <1>1, <1>2, <1>3, RowsStay DEF LInv

LEMMA AllocateLedger ==
    ASSUME LInv, NEW c \in Clients, NEW p \in Purchases, AllocateNext(c, p)
    PROVE  LInv'
<1>1. CASE RollBack(c)
  BY <1>1, RollBackLedger
<1>2. CASE txn' = [txn EXCEPT ![c] = Allocated(txn[c], p)] /\ UNCHANGED rows
  <2>1. txn[c] \in PayTxn /\ txn[c].pc = "pay" /\ UNCHANGED rows
    BY <1>2, TxnTypes DEF AllocateNext, LInv, IInv
  <2> DEFINE r == Allocated(txn[c], p)
  <2>2. r \in PayTxn /\ r.payment = txn[c].payment
    BY <2>1, AllocatedMoves DEF Allocated, PayTxn
  <2> HIDE DEF r
  <2>3. r \in TxnType /\ txn' = [txn EXCEPT ![c] = r]
    BY <1>2, <2>2 DEF TxnType, r
  <2>4. txn'[c] = r /\ \A o \in Clients \ {c} : txn'[o] = txn[o]
    BY <2>3, OneRequestMoves DEF LInv, IInv
  <2>5. PaymentsAreNew'
    BY <2>1, <2>2, <2>4, EnteringStays DEF LInv, rows
  <2> QED BY <2>1, <2>5, AllocateStep, RowsStay DEF LInv
<1> QED BY <1>1, <1>2 DEF AllocateNext

\* A posting moves one account by its amount.
LEMMA PostMoves ==
    ASSUME TypeOK, NEW k \in Suppliers \union {None}, NEW amount \in Int, Post(k, amount)
    PROVE  \A s \in Suppliers : balance'[s] = balance[s] + (IF k = s THEN amount ELSE 0)
BY DEF TypeOK, Post

\* The commit of a payment adds its row and what it settles, and takes it off the account.
LEMMA CommitPaymentLedger ==
    ASSUME LInv, NEW c \in Clients, CommitPayment(c)
    PROVE  LInv'
<1> DEFINE x == txn[c]
           r == [state |-> "live", supplier |-> x.supplier, amount |-> x.amount, alloc |-> x.done]
<1>1. CASE RollBack(c)
  BY <1>1, RollBackLedger
<1>2. CASE /\ payments' = [payments EXCEPT ![x.payment] = r]
           /\ paid' = [p \in Purchases |-> paid[p] + x.done[p]]
           /\ Post(x.supplier, -x.amount)
           /\ UNCHANGED <<status, shelf, sold>>
           /\ End(c)
  <2>1. /\ End(c) /\ x.pc = "pay" /\ x \in PayTxn /\ TypeOK
        /\ x.payment \in Payments /\ payments[x.payment] = NoPayment
    BY <1>2, TxnTypes DEF CommitPayment, LInv, IInv, PaymentsAreNew, PayTxn
  <2>2. /\ r \in Payment /\ r.state = "live" /\ r.supplier = x.supplier /\ r.amount = x.amount
        /\ r.alloc = x.done /\ x.supplier \in Suppliers /\ x.amount \in Nat
        /\ x.done \in [Purchases -> Nat]
    BY <2>1 DEF PayTxn, Payment
  <2>3. PaymentsAreNew'
    <3>1. \A o \in Clients \ {c} : txn[o].pc = "pay" =>
              payments'[txn[o].payment] = payments[txn[o].payment]
      BY <1>2, <2>1, TxnTypes DEF LInv, PaymentsAreNew, PayTxn, TypeOK
    <3> QED BY <2>1, <3>1, EnteringEnds
  <2> HIDE DEF r, x
  <2>4. /\ IsFiniteSet(Live')
        /\ \A p \in Purchases : SumOver(Live', Alloc'[p]) = SumOver(Live, Alloc[p]) + x.done[p]
        /\ \A s \in Suppliers :
               SumOver(PaidTo(s)', Amount') =
                   SumOver(PaidTo(s), Amount) + (IF x.supplier = s THEN x.amount ELSE 0)
    BY <1>2, <2>1, <2>2, PaymentCounts DEF LInv
  <2>5. GoodsAddUp' /\ \A s \in Suppliers : BoughtFrom(s)' = BoughtFrom(s)
    BY <1>2 DEF LInv, Ledger, GoodsAddUp, Standing, BoughtFrom
  <2>6. PaidAddsUp'
    BY <1>2, <2>4 DEF LInv, Ledger, PaidAddsUp
  <2>7. BalancesAddUp'
    <3>1. -x.amount \in Int
      BY <2>2
    <3>2. \A s \in Suppliers : balance'[s] = balance[s] + (IF x.supplier = s THEN -x.amount ELSE 0)
      BY <1>2, <2>1, <2>2, <3>1, PostMoves
    <3>3. ASSUME NEW s \in Suppliers
          PROVE  balance'[s] = SumOver(BoughtFrom(s)', Total) - SumOver(PaidTo(s)', Amount')
      <4>1. balance[s] = SumOver(BoughtFrom(s), Total) - SumOver(PaidTo(s), Amount)
        BY DEF LInv, Ledger, BalancesAddUp
      <4>2. SumOver(BoughtFrom(s), Total) \in Nat /\ SumOver(PaidTo(s), Amount) \in Nat
        BY <2>1, Summable, SumType DEF LInv, Ledger
      <4> QED BY <2>2, <2>4, <2>5, <3>2, <4>1, <4>2
    <3> QED BY <3>3 DEF BalancesAddUp
  <2>8. NewIsUnpaid'
    <3>1. \A p \in Purchases : x.done[p] \in Nat /\ (x.done[p] > 0 => status[p] = "CONFIRMED")
      BY <2>1, UnheldIsUndone DEF LInv, x
    <3> QED BY <1>2, <3>1 DEF LInv, Ledger, NewIsUnpaid
  <2> QED BY <2>3, <2>4, <2>5, <2>6, <2>7, <2>8, CommitPaymentStep DEF LInv, Ledger
<1> QED BY <1>1, <1>2 DEF CommitPayment

\* A void takes the payment out again, from the purchases it settled and on the account.
LEMMA CommitVoidLedger ==
    ASSUME LInv, NEW c \in Clients, CommitVoid(c)
    PROVE  LInv'
<1> DEFINE m == txn[c].payment
<1>1. CASE UNCHANGED rows
  BY <1>1, DrawerLeft, EndLedger DEF CommitVoid, LInv, IInv
<1>2. CASE /\ payments[m].state = "live"
           /\ payments' = [payments EXCEPT ![m].state = "void"]
           /\ paid' = [p \in Purchases |-> paid[p] - payments[m].alloc[p]]
           /\ Post(payments[m].supplier, payments[m].amount)
           /\ UNCHANGED <<status, shelf, sold>>
  <2>1. End(c) /\ m \in Payments /\ TypeOK
    BY TxnTypes DEF CommitVoid, LInv, IInv, VoidTxn
  <2> HIDE DEF m
  <2>2. payments[m].supplier \in Suppliers \union {None} /\ payments[m].amount \in Nat
    BY <2>1 DEF TypeOK, Payment
  <2>3. PaymentsAreNew'
    <3>1. \A o \in Clients \ {c} : txn[o].pc = "pay" => txn[o].payment # m
      BY <1>2 DEF LInv, PaymentsAreNew, NoPayment
    <3>2. \A o \in Clients \ {c} : txn[o].pc = "pay" =>
              payments'[txn[o].payment] = payments[txn[o].payment]
      BY <1>2, <2>1, <3>1, TxnTypes DEF PayTxn, TypeOK
    <3> QED BY <2>1, <3>2, EnteringEnds
  <2>4. /\ IsFiniteSet(Live')
        /\ \A p \in Purchases :
               SumOver(Live', Alloc'[p]) = SumOver(Live, Alloc[p]) - payments[m].alloc[p]
        /\ \A s \in Suppliers :
               SumOver(PaidTo(s)', Amount') =
                   SumOver(PaidTo(s), Amount)
                   - (IF payments[m].supplier = s THEN payments[m].amount ELSE 0)
    BY <1>2, <2>1, PaymentStops DEF LInv
  <2>5. GoodsAddUp' /\ \A s \in Suppliers : BoughtFrom(s)' = BoughtFrom(s)
    BY <1>2 DEF LInv, Ledger, GoodsAddUp, Standing, BoughtFrom
  <2>6. PaidAddsUp'
    BY <1>2, <2>4 DEF LInv, Ledger, PaidAddsUp
  <2>7. BalancesAddUp'
    <3>1. \A s \in Suppliers :
              balance'[s] = balance[s] + (IF payments[m].supplier = s THEN payments[m].amount ELSE 0)
      BY <1>2, <2>1, <2>2, PostMoves
    <3>2. ASSUME NEW s \in Suppliers
          PROVE  balance'[s] = SumOver(BoughtFrom(s)', Total) - SumOver(PaidTo(s)', Amount')
      <4>1. balance[s] = SumOver(BoughtFrom(s), Total) - SumOver(PaidTo(s), Amount)
        BY DEF LInv, Ledger, BalancesAddUp
      <4>2. SumOver(BoughtFrom(s), Total) \in Nat /\ SumOver(PaidTo(s), Amount) \in Nat
        BY <2>1, Summable, SumType DEF LInv, Ledger
      <4> QED BY <2>2, <2>4, <2>5, <3>1, <4>1, <4>2
    <3> QED BY <3>2 DEF BalancesAddUp
  <2>8. NewIsUnpaid'
    <3>1. TypeOK'
      BY CommitVoidStep DEF LInv, IInv
    <3>2. ASSUME NEW p \in Purchases, status'[p] = "NONE" PROVE paid'[p] = 0
      <4>1. paid[p] = 0 /\ paid'[p] = paid[p] - payments[m].alloc[p]
        BY <1>2, <3>2 DEF LInv, Ledger, NewIsUnpaid
      <4>2. paid'[p] \in Nat
        <5>1. Naturals(Live', Alloc'[p])
          BY <3>1 DEF TypeOK, Payment, Live, Alloc, Naturals
        <5>2. SumOver(Live', Alloc'[p]) \in Nat
          BY <2>4, <5>1, SumType
        <5> QED BY <2>6, <5>2 DEF PaidAddsUp
      <4>3. payments[m].alloc[p] \in Nat
        BY <2>1 DEF TypeOK, Payment
      <4> QED BY <4>1, <4>2, <4>3
    <3> QED BY <3>2 DEF NewIsUnpaid
  <2> QED BY <2>3, <2>4, <2>5, <2>6, <2>7, <2>8, CommitVoidStep DEF LInv, Ledger
<1> QED BY <1>1, <1>2 DEF CommitVoid

\* A reversal takes the goods and the debt back together.
LEMMA CommitReversalLedger ==
    ASSUME LInv, NEW c \in Clients, CommitReversal(c)
    PROVE  LInv'
<1> DEFINE p == txn[c].purchase
<1>1. CASE UNCHANGED rows
  BY <1>1, DrawerLeft, EndLedger DEF CommitReversal, LInv, IInv
<1>2. CASE /\ status' = [status EXCEPT ![p] = "REVERSED"]
           /\ shelf' = shelf - Pieces[p]
           /\ Post(SupplierOf[p], -Total[p])
           /\ UNCHANGED <<paid, payments, sold>>
  <2>1. End(c) /\ p \in Purchases /\ status[p] = "CONFIRMED" /\ TypeOK /\ Ledger
    BY TxnTypes DEF CommitReversal, LInv, IInv, Request, Claimed, ReverseTxn
  <2> HIDE DEF p
  <2>2. Pieces[p] \in Nat /\ Total[p] \in Nat /\ SupplierOf[p] \in Suppliers
    BY <2>1, SupplierAssumption
  <2>3. PaymentsAreNew'
    BY <1>2, <2>1, EnteringEnds
  <2>4. /\ SumOver(Standing', Pieces) = SumOver(Standing, Pieces) - Pieces[p]
        /\ \A s \in Suppliers :
               SumOver(BoughtFrom(s)', Total) =
                   SumOver(BoughtFrom(s), Total) - (IF SupplierOf[p] = s THEN Total[p] ELSE 0)
    BY <1>2, <2>1, PurchaseStops
  <2>5. /\ IsFiniteSet(Live') /\ PaidAddsUp'
        /\ Amount' = Amount /\ \A s \in Suppliers : PaidTo(s)' = PaidTo(s)
    BY <1>2, <2>1 DEF Ledger, PaidAddsUp, Live, Alloc, Amount, PaidTo
  <2>6. GoodsAddUp'
    <3>1. shelf = SumOver(Standing, Pieces) - sold /\ SumOver(Standing, Pieces) \in Nat /\ sold \in Nat
      BY <2>1, Summable, SumType DEF Ledger, GoodsAddUp, TypeOK
    <3> QED BY <1>2, <2>2, <2>4, <3>1 DEF GoodsAddUp
  <2>7. BalancesAddUp'
    <3>1. -Total[p] \in Int
      BY <2>2
    <3>2. \A s \in Suppliers :
              balance'[s] = balance[s] + (IF SupplierOf[p] = s THEN -Total[p] ELSE 0)
      BY <1>2, <2>1, <2>2, <3>1, PostMoves
    <3>3. ASSUME NEW s \in Suppliers
          PROVE  balance'[s] = SumOver(BoughtFrom(s)', Total) - SumOver(PaidTo(s)', Amount')
      <4>1. balance[s] = SumOver(BoughtFrom(s), Total) - SumOver(PaidTo(s), Amount)
        BY <2>1 DEF Ledger, BalancesAddUp
      <4>2. SumOver(BoughtFrom(s), Total) \in Nat /\ SumOver(PaidTo(s), Amount) \in Nat
        BY <2>1, Summable, SumType DEF Ledger
      <4> QED BY <2>2, <2>4, <2>5, <3>2, <4>1, <4>2
    <3> QED BY <3>3 DEF BalancesAddUp
  <2>8. NewIsUnpaid'
    BY <1>2, <2>1 DEF Ledger, NewIsUnpaid, TypeOK
  <2> QED BY <2>3, <2>5, <2>6, <2>7, <2>8, CommitReversalStep DEF LInv, Ledger
<1> QED BY <1>1, <1>2 DEF CommitReversal

\* What is entered: the goods, the debt, and what was paid with it, which nobody had paid before.
LEMMA EnterLedger ==
    ASSUME LInv, NEW c \in Clients, NEW p \in Purchases,
           EnterPurchase(c, p) \/ \E m \in Payments, a \in Amounts : EnterPaidPurchase(c, p, m, a)
    PROVE  LInv'
<1>1. /\ status[p] = "NONE" /\ status' = [status EXCEPT ![p] = "CONFIRMED"]
      /\ shelf' = shelf + Pieces[p] /\ UNCHANGED sold /\ End(c)
      /\ Pieces[p] \in Nat /\ Total[p] \in Nat /\ SupplierOf[p] \in Suppliers
  BY SupplierAssumption DEF EnterPurchase, EnterPaidPurchase, Purchase
<1>2. TypeOK /\ Ledger /\ IsFiniteSet(Live) /\ IInv'
  BY EntersStep DEF LInv, IInv, Ledger
<1>3. /\ SumOver(Standing', Pieces) = SumOver(Standing, Pieces) + Pieces[p]
      /\ \A s \in Suppliers :
             SumOver(BoughtFrom(s)', Total) =
                 SumOver(BoughtFrom(s), Total) + (IF SupplierOf[p] = s THEN Total[p] ELSE 0)
  BY <1>1, <1>2, PurchaseCounts
<1>4. GoodsAddUp'
  <2>1. shelf = SumOver(Standing, Pieces) - sold /\ SumOver(Standing, Pieces) \in Nat /\ sold \in Nat
    BY <1>2, Summable, SumType DEF Ledger, GoodsAddUp, TypeOK
  <2> QED BY <1>1, <1>3, <2>1 DEF GoodsAddUp
<1>5. \A s \in Suppliers : /\ balance[s] = SumOver(BoughtFrom(s), Total) - SumOver(PaidTo(s), Amount)
                           /\ SumOver(BoughtFrom(s), Total) \in Nat
                           /\ SumOver(PaidTo(s), Amount) \in Nat
  BY <1>2, Summable, SumType DEF Ledger, BalancesAddUp
<1>6. CASE EnterPurchase(c, p)
  <2>1. UNCHANGED <<paid, payments>> /\ Post(SupplierOf[p], Total[p])
    BY <1>6 DEF EnterPurchase
  <2>2. /\ IsFiniteSet(Live') /\ PaidAddsUp' /\ NewIsUnpaid'
        /\ Amount' = Amount /\ \A s \in Suppliers : PaidTo(s)' = PaidTo(s)
    BY <1>1, <1>2, <2>1 DEF Ledger, PaidAddsUp, NewIsUnpaid, Live, Alloc, Amount, PaidTo, TypeOK
  <2>3. \A s \in Suppliers : balance'[s] = balance[s] + (IF SupplierOf[p] = s THEN Total[p] ELSE 0)
    BY <1>1, <1>2, <2>1, PostMoves
  <2>4. BalancesAddUp'
    BY <1>1, <1>3, <1>5, <2>2, <2>3 DEF BalancesAddUp
  <2>5. PaymentsAreNew'
    BY <1>1, <2>1, EnteringEnds
  <2> QED BY <1>2, <1>4, <2>2, <2>4, <2>5 DEF LInv, Ledger
<1>7. ASSUME NEW m \in Payments, NEW a \in Amounts, EnterPaidPurchase(c, p, m, a)
      PROVE  LInv'
  <2> DEFINE r == [state |-> "live", supplier |-> SupplierOf[p], amount |-> a, alloc |-> Only(p, a)]
  <2>1. /\ Fresh(m) /\ payments[m] = NoPayment
        /\ payments' = [payments EXCEPT ![m] = r] /\ paid' = [paid EXCEPT ![p] = a]
        /\ Post(SupplierOf[p], Total[p] - a) /\ a \in Nat
    BY <1>7, SupplierAssumption DEF EnterPaidPurchase, Fresh
  <2>2. /\ r \in Payment /\ r.state = "live" /\ r.supplier = SupplierOf[p] /\ r.amount = a
        /\ r.alloc[p] = a /\ \A q \in Purchases \ {p} : r.alloc[q] = 0
    BY <1>1, <2>1 DEF Payment, Only, Nothing
  <2> HIDE DEF r
  <2>3. /\ IsFiniteSet(Live')
        /\ \A q \in Purchases : SumOver(Live', Alloc'[q]) = SumOver(Live, Alloc[q]) + r.alloc[q]
        /\ \A s \in Suppliers :
               SumOver(PaidTo(s)', Amount') =
                   SumOver(PaidTo(s), Amount) + (IF r.supplier = s THEN r.amount ELSE 0)
    BY <1>2, <2>1, <2>2, PaymentCounts
  <2>4. PaidAddsUp'
    <3>1. \A q \in Purchases : paid[q] = SumOver(Live, Alloc[q]) /\ paid[q] \in Int
      BY <1>2 DEF Ledger, PaidAddsUp, TypeOK
    <3>2. paid[p] = 0
      BY <1>1, <1>2 DEF Ledger, NewIsUnpaid
    <3>3. paid'[p] = a /\ \A q \in Purchases \ {p} : paid'[q] = paid[q]
      BY <1>2, <2>1 DEF TypeOK
    <3>4. ASSUME NEW q \in Purchases PROVE paid'[q] = SumOver(Live', Alloc'[q])
      <4>1. paid[q] = SumOver(Live, Alloc[q]) /\ paid[q] \in Int
        BY <3>1
      <4>2. SumOver(Live', Alloc'[q]) = paid[q] + r.alloc[q]
        BY <2>3, <4>1
      <4>3. paid'[q] = paid[q] + r.alloc[q]
        BY <2>1, <2>2, <3>2, <3>3, <4>1
      <4> QED BY <4>2, <4>3
    <3> QED BY <3>4 DEF PaidAddsUp
  <2>5. NewIsUnpaid'
    BY <1>1, <1>2, <2>1 DEF Ledger, NewIsUnpaid, TypeOK
  <2>6. PaymentsAreNew'
    <3>1. \A o \in Clients : txn[o].pc = "pay" => txn[o].payment # m
      BY <2>1 DEF Fresh
    <3>2. \A o \in Clients : txn[o].pc = "pay" => payments'[txn[o].payment] = payments[txn[o].payment]
      BY <1>2, <2>1, <3>1, TxnTypes DEF PayTxn, TypeOK
    <3> QED BY <1>1, <3>2, EnteringEnds
  <2>7. BalancesAddUp'
    <3>1. Total[p] - a \in Int
      BY <1>1, <2>1
    <3>2. \A s \in Suppliers :
              balance'[s] = balance[s] + (IF SupplierOf[p] = s THEN Total[p] - a ELSE 0)
      BY <1>1, <1>2, <2>1, <3>1, PostMoves
    <3>3. ASSUME NEW s \in Suppliers
          PROVE  balance'[s] = SumOver(BoughtFrom(s)', Total) - SumOver(PaidTo(s)', Amount')
      BY <1>1, <1>3, <1>5, <2>1, <2>2, <2>3, <3>2
    <3> QED BY <3>3 DEF BalancesAddUp
  <2> QED BY <1>2, <1>4, <2>3, <2>4, <2>5, <2>6, <2>7 DEF LInv, Ledger
<1> QED BY <1>6, <1>7

LEMMA SellLedger ==
    ASSUME LInv, NEW c \in Clients, Sell(c)
    PROVE  LInv'
<1>1. /\ End(c) /\ shelf > 0 /\ shelf' = shelf - 1 /\ sold' = sold + 1
      /\ UNCHANGED <<status, paid, payments, balance>>
  BY DEF Sell
<1>2. IInv' /\ PaymentsAreNew'
  BY <1>1, SellStep, EnteringEnds DEF LInv
<1>3. PaidAddsUp' /\ BalancesAddUp' /\ NewIsUnpaid' /\ IsFiniteSet(Live')
  BY <1>1 DEF LInv, Ledger, PaidAddsUp, BalancesAddUp, NewIsUnpaid, Live, Standing, Alloc, Amount,
              PaidTo, BoughtFrom
<1>4. GoodsAddUp'
  <2>1. shelf = SumOver(Standing, Pieces) - sold /\ SumOver(Standing, Pieces) \in Nat /\ sold \in Nat
    BY Summable, SumType DEF LInv, IInv, Ledger, GoodsAddUp, TypeOK
  <2>2. Standing' = Standing
    BY <1>1 DEF Standing
  <2> QED BY <1>1, <2>1, <2>2 DEF GoodsAddUp
<1> QED BY <1>2, <1>3, <1>4 DEF LInv, Ledger

LEMMA LedgerInit == Init => LInv
<1> SUFFICES ASSUME Init PROVE LInv
  OBVIOUS
<1>1. Live = {} /\ Standing = {}
  BY DEF Init, Live, Standing, NoPayment
<1>2. \A s \in Suppliers : PaidTo(s) = {} /\ BoughtFrom(s) = {}
  BY <1>1 DEF PaidTo, BoughtFrom
<1>3. PaymentsAreNew /\ NewIsUnpaid
  BY DEF Init, PaymentsAreNew, NewIsUnpaid, Idle, Nothing
<1>4. GoodsAddUp /\ PaidAddsUp /\ BalancesAddUp /\ IsFiniteSet(Live)
  BY <1>1, <1>2, SumOfNothing, FS_EmptySet DEF Init, GoodsAddUp, PaidAddsUp, BalancesAddUp, Nothing
<1> QED BY <1>3, <1>4, InvInit DEF LInv, Ledger

LEMMA LedgerNext == LInv /\ [Next]_vars => LInv'
<1> SUFFICES ASSUME LInv, [Next]_vars PROVE LInv'
  OBVIOUS
<1>1. ASSUME NEW c \in Clients, Stock(c) PROVE LInv'
  BY <1>1, BeginLedger, SellLedger, EnterLedger DEF Stock
<1>2. ASSUME NEW c \in Clients, Begin(c) PROVE LInv'
  BY <1>2, PayLedger, BeginLedger DEF Begin
<1>3. ASSUME NEW c \in Clients, Finish(c) PROVE LInv'
  BY <1>3, BeginLedger, AllocateLedger, CommitPaymentLedger, CommitVoidLedger, CommitReversalLedger DEF Finish
<1>4. ASSUME NEW c \in Clients, Abort(c) PROVE LInv'
  BY <1>4, RollBackLedger DEF Abort
<1>5. CASE UNCHANGED vars
  <2>1. UNCHANGED rows /\ txn' = txn /\ payments' = payments
    BY <1>5 DEF vars, rows
  <2>2. PaymentsAreNew'
    BY <2>1 DEF LInv, PaymentsAreNew, NoPayment, Nothing
  <2> QED BY <1>5, <2>1, <2>2, InvNext, RowsStay DEF LInv
<1> QED BY <1>1, <1>2, <1>3, <1>4, <1>5 DEF Next

\* Whatever commits, is voided or reversed meanwhile: the shelf holds what the standing purchases
\* brought less what was sold, every purchase is paid what the live payments allot to it, and the
\* account is the standing debts less the live payments (createPurchase, reversePurchase,
\* recordSupplierPayment and voidSupplierPayment post together or not at all).
THEOREM LedgerAddsUp == Spec => []RowsAddUp
<1>1. LInv => RowsAddUp
  BY DEF LInv, Ledger, GoodsAddUp, PaidAddsUp, BalancesAddUp, RowsAddUp, Live, Standing, Alloc, Amount,
         PaidTo, BoughtFrom
<1> QED BY <1>1, LedgerInit, LedgerNext, PTL DEF Spec

\* At every moment autoAllocate settles the supplier's open purchases from the oldest on, within
\* the amount and with all of it: unless somebody else pays or reverses meanwhile, no allocation
\* of the list is refused, and what is left over goes to a supplier who is owed nothing more.
THEOREM OldestAreSettledFirst ==
    Spec => [](\A s \in Suppliers, amount \in Nat :
                   SettlesOldestFirst(s, amount, AutoAllocate(s, amount)))
<1>1. TypeOK => \A s \in Suppliers, amount \in Nat :
                    SettlesOldestFirst(s, amount, AutoAllocate(s, amount))
  <2> SUFFICES ASSUME TypeOK, NEW s \in Suppliers, NEW amount \in Nat
               PROVE  SettlesOldestFirst(s, amount, AutoAllocate(s, amount))
    OBVIOUS
  <2>1. PICK plan : plan = AutoAllocate(s, amount)
    OBVIOUS
  <2>2. plan \in [Purchases -> 0 .. amount]
    BY <2>1, WhoGetsWhat
  <2>3. ASSUME NEW p \in Purchases, plan[p] > 0 PROVE p \in Open(s) /\ plan[p] <= Owing(p)
    <3>1. p \in Open(s)
      BY <2>1, <2>3, WhoGetsWhat
    <3>2. plan[p] <= Due[p] /\ Due[p] = Owing(p)
      BY <2>1, <3>1, WhoGetsWhat, DueTypes
    <3> QED BY <3>1, <3>2
  <2>4. ASSUME NEW p \in Open(s), NEW q \in Open(s), p < q, plan[q] > 0 PROVE plan[p] = Owing(p)
    <3>1. Before(s, p) + Due[p] <= Before(s, q)
      BY <2>4, OlderComesBefore
    <3>2. Before(s, q) + plan[q] <= amount
      BY <2>1, <2>4, WhoGetsWhat
    <3>3. /\ Before(s, p) \in Nat /\ Before(s, q) \in Nat /\ Due[p] \in Nat /\ plan[q] \in Nat
          /\ Due[p] = Owing(p)
      BY <2>2, DueTypes DEF Naturals
    <3>4. Before(s, p) + Due[p] <= amount
      BY <2>4, <3>1, <3>2, <3>3
    <3> QED BY <2>1, <3>3, <3>4, WhoGetsWhat
  <2>5. SumOver(Purchases, plan) <= amount
    BY <2>1, WithinTheAmount
  <2>6. SumOver(Purchases, plan) < amount => \A p \in Open(s) : plan[p] = Owing(p)
    BY <2>1, NothingIsKept, DueTypes
  <2>7. SettlesOldestFirst(s, amount, plan)
    BY <2>2, <2>3, <2>4, <2>5, <2>6 DEF SettlesOldestFirst
  <2> QED BY <2>1, <2>7
<1> QED BY <1>1, SupplierTypes, PTL
=============================================================================
