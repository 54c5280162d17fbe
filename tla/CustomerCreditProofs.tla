------------------------ MODULE CustomerCreditProofs ------------------------
(***************************************************************************)
(* The proofs about CustomerCredit.  What carries them: an allocation that *)
(* was made and a return that was checked hold the row lock of their bill  *)
(* to the commit, so what they read of it can only have gone down, by a    *)
(* receipt voided meanwhile.                                               *)
(***************************************************************************)
EXTENDS CustomerCredit, FiniteSetTheorems, TLAPS

\* A bill is settled, refunded and returned within its bounds.
BillsInBounds ==
    \A b \in Bills :
        /\ received[b] <= Total[b] /\ received[b] <= taken[b]
        /\ paidOut[b] <= refunded[b] /\ paidOut[b] <= taken[b]
        /\ returned[b] <= Pieces[b]
        /\ goods[b] * Pieces[b] <= Total[b] * returned[b]
        /\ billedTo[b] = None => paidOut[b] = 0

\* A bill in the making is nobody else's, and is not settled beyond its total.
SalesAreNew ==
    /\ \A c \in Clients :
           txn[c].pc = "sale" =>
               /\ billedTo[txn[c].bill] = None
               /\ txn[c].paid + TradeInWorth(txn[c].trade) <= Total[txn[c].bill]
    /\ \A c, o \in Clients :
           txn[c].pc = "sale" /\ txn[o].pc = "sale" /\ txn[c].bill = txn[o].bill => c = o

\* What was allocated still fits, because the bill is locked.
AllocationsFit ==
    \A c \in Clients, b \in Bills :
        txn[c].pc = "receipt" /\ txn[c].done[b] > 0 =>
            /\ billLock[b] = c /\ billedTo[b] # None
            /\ received[b] + txn[c].done[b] <= Total[b]

\* What was checked of a return still holds, because the bill is locked.
ReturnsFit ==
    \A c \in Clients :
        txn[c].pc = "return" =>
            LET b == txn[c].bill IN
            /\ billLock[b] = c /\ billedTo[b] # None
            /\ returned[b] + txn[c].pieces <= Pieces[b]
            /\ txn[c].refundable * Pieces[b] <= Total[b] * txn[c].pieces
            /\ txn[c].method = "cash" => paidOut[b] + txn[c].payable <= taken[b]

IInv == TypeOK /\ BillsInBounds /\ SalesAreNew /\ AllocationsFit /\ ReturnsFit

-----------------------------------------------------------------------------
(* What sums are (the operator of Sums).                                   *)

\* f has a natural number for each element of S; and g has the same there.
Naturals(S, f) == \A x \in S : f[x] \in Nat
Alike(S, f, g) == \A x \in S : g[x] = f[x]

\* What one element contributes to a sum.
LEMMA UnitsCount ==
    ASSUME NEW x, NEW f, f[x] \in Nat
    PROVE  IsFiniteSet(Units(x, f)) /\ Cardinality(Units(x, f)) = f[x]
<1>1. IsFiniteSet(1 .. f[x]) /\ Cardinality(1 .. f[x]) = f[x]
  BY FS_Interval
<1>2. IsFiniteSet({x}) /\ Cardinality({x}) = 1
  BY FS_Singleton
<1>3. IsFiniteSet(Units(x, f)) /\ Cardinality(Units(x, f)) = Cardinality({x}) * Cardinality(1 .. f[x])
  BY <1>1, <1>2, FS_Product DEF Units
<1> QED BY <1>1, <1>2, <1>3

\* What a finite set contributes is finite.
LEMMA UnitsFinite ==
    ASSUME NEW S, IsFiniteSet(S), NEW f, Naturals(S, f)
    PROVE  IsFiniteSet(UNION {Units(x, f) : x \in S})
<1> DEFINE F == {Units(x, f) : x \in S}
           g == [x \in S |-> Units(x, f)]
<1>1. g \in Surjection(S, F)
  BY DEF Surjection
<1>2. IsFiniteSet(F)
  <2> HIDE DEF F, g
  <2> QED BY <1>1, FS_Surjection
<1>3. \A U \in F : IsFiniteSet(U)
  BY UnitsCount DEF Naturals
<1>4. IsFiniteSet(UNION F)
  <2> HIDE DEF F
  <2> QED BY <1>2, <1>3, FS_UNION
<1> QED BY <1>4

\* A sum of natural numbers is one.
LEMMA SumType ==
    ASSUME NEW S, IsFiniteSet(S), NEW f, Naturals(S, f)
    PROVE  SumOver(S, f) \in Nat
BY UnitsFinite, FS_CardinalityType DEF SumOver

LEMMA SumOfNothing ==
    ASSUME NEW f
    PROVE  SumOver({}, f) = 0
BY FS_EmptySet DEF SumOver

\* Only the values on the set count.
LEMMA SumSame ==
    ASSUME NEW S, NEW f, NEW g, Alike(S, f, g)
    PROVE  SumOver(S, g) = SumOver(S, f)
<1>1. {Units(x, f) : x \in S} = {Units(x, g) : x \in S}
  BY DEF Units, Alike
<1> QED BY <1>1 DEF SumOver

\* One element more.
LEMMA SumAdd ==
    ASSUME NEW S, IsFiniteSet(S), NEW f, Naturals(S, f), NEW x, x \notin S, f[x] \in Nat
    PROVE  SumOver(S \union {x}, f) = SumOver(S, f) + f[x]
<1> DEFINE U == UNION {Units(y, f) : y \in S}
           V == Units(x, f)
<1>1. SumOver(S \union {x}, f) = Cardinality(U \union V)
  <2>1. UNION {Units(y, f) : y \in S \union {x}} = U \union V
    OBVIOUS
  <2> QED BY <2>1 DEF SumOver
<1>2. U \intersect V = {}
  BY DEF Units
<1>3. IsFiniteSet(U) /\ Cardinality(U) = SumOver(S, f) /\ Cardinality(U) \in Nat
  BY UnitsFinite, SumType DEF SumOver
<1>4. IsFiniteSet(V) /\ Cardinality(V) = f[x]
  BY UnitsCount
<1> HIDE DEF U, V
<1>5. Cardinality(U \union V) = Cardinality(U) + Cardinality(V) - Cardinality(U \intersect V)
  BY <1>3, <1>4, FS_Union
<1>6. Cardinality(U \intersect V) = 0
  BY <1>2, FS_EmptySet
<1> QED BY <1>1, <1>3, <1>4, <1>5, <1>6

\* One element more, the others as they were.
LEMMA SumGrows ==
    ASSUME NEW S, IsFiniteSet(S), NEW f, NEW g, Naturals(S, f), Alike(S, f, g),
           NEW x, x \notin S, g[x] \in Nat
    PROVE  SumOver(S \union {x}, g) = SumOver(S, f) + g[x]
<1>1. Naturals(S, g)
  BY DEF Naturals, Alike
<1>2. SumOver(S \union {x}, g) = SumOver(S, g) + g[x]
  BY <1>1, SumAdd
<1> QED BY <1>2, SumSame

\* One element less, the others as they were.
LEMMA SumShrinks ==
    ASSUME NEW S, IsFiniteSet(S), NEW f, NEW g, Naturals(S, f), NEW x \in S, Alike(S \ {x}, f, g)
    PROVE  /\ SumOver(S \ {x}, g) = SumOver(S, f) - f[x]
           /\ IsFiniteSet(S \ {x}) /\ Naturals(S \ {x}, g)
<1> DEFINE T == S \ {x}
<1>1. IsFiniteSet(T) /\ T \union {x} = S /\ x \notin T
  BY FS_RemoveElement
<1>2. Naturals(T, g) /\ Alike(T, g, f) /\ f[x] \in Nat
  BY DEF Naturals, Alike
<1> HIDE DEF T
<1>3. SumOver(T \union {x}, f) = SumOver(T, g) + f[x]
  BY <1>1, <1>2, SumGrows
<1>4. SumOver(T, g) \in Nat
  BY <1>1, <1>2, SumType
<1>5. SumOver(T, g) = SumOver(S, f) - f[x]
  <2>1. SumOver(S, f) = SumOver(T, g) + f[x] /\ f[x] \in Nat
    BY <1>1, <1>2, <1>3
  <2> QED BY <1>4, <2>1
<1> QED BY <1>1, <1>2, <1>5 DEF T

\* One element changed, the others as they were.
LEMMA SumChanges ==
    ASSUME NEW S, IsFiniteSet(S), NEW f, NEW g, Naturals(S, f),
           NEW x \in S, Alike(S \ {x}, f, g), g[x] \in Nat
    PROVE  SumOver(S, g) = SumOver(S, f) - f[x] + g[x]
<1>1. Naturals(S, g) /\ Alike(S \ {x}, g, g) /\ f[x] \in Nat
  BY DEF Naturals, Alike
<1>2. SumOver(S \ {x}, g) = SumOver(S, f) - f[x]
  BY SumShrinks
<1>3. SumOver(S \ {x}, g) = SumOver(S, g) - g[x]
  BY <1>1, SumShrinks
<1>4. SumOver(S, g) \in Nat /\ SumOver(S, f) \in Nat
  BY <1>1, SumType
<1> QED BY <1>1, <1>2, <1>3, <1>4

\* A set of what counts contributes no more than the whole.
LEMMA SumOfPart ==
    ASSUME NEW T, IsFiniteSet(T), NEW S \in SUBSET T, NEW f, Naturals(T, f)
    PROVE  SumOver(S, f) <= SumOver(T, f)
<1> DEFINE U == UNION {Units(x, f) : x \in S}
           V == UNION {Units(x, f) : x \in T}
<1>1. IsFiniteSet(V) /\ U \in SUBSET V
  BY UnitsFinite
<1>2. Cardinality(U) <= Cardinality(V)
  <2> HIDE DEF U, V
  <2> QED BY <1>1, FS_Subset
<1> QED BY <1>2 DEF SumOver

\* Smaller values make no larger a sum.
LEMMA SumOfLess ==
    ASSUME NEW S, IsFiniteSet(S), NEW f, Naturals(S, f), NEW g, Naturals(S, g),
           \A x \in S : f[x] <= g[x]
    PROVE  SumOver(S, f) <= SumOver(S, g)
<1> DEFINE U == UNION {Units(x, f) : x \in S}
           V == UNION {Units(x, g) : x \in S}
<1>1. IsFiniteSet(V)
  BY UnitsFinite
<1>2. ASSUME NEW x \in S PROVE Units(x, f) \subseteq Units(x, g)
  <2>1. f[x] \in Nat /\ g[x] \in Nat /\ f[x] <= g[x]
    BY DEF Naturals
  <2>2. 1 .. f[x] \subseteq 1 .. g[x]
    BY <2>1
  <2> QED BY <2>2 DEF Units
<1>3. U \in SUBSET V
  BY <1>2
<1>4. Cardinality(U) <= Cardinality(V)
  <2> HIDE DEF U, V
  <2> QED BY <1>1, <1>3, FS_Subset
<1> QED BY <1>4 DEF SumOver

\* What is zero does not count.
LEMMA SumOfRest ==
    ASSUME NEW T, NEW S \in SUBSET T, NEW f, \A x \in T \ S : f[x] = 0
    PROVE  SumOver(T, f) = SumOver(S, f)
<1>1. ASSUME NEW x \in T \ S PROVE Units(x, f) = {}
  <2>1. 1 .. f[x] = {}
    BY <1>1
  <2> QED BY <2>1 DEF Units
<1>2. UNION {Units(x, f) : x \in T} = UNION {Units(x, f) : x \in S}
  BY <1>1
<1> QED BY <1>2 DEF SumOver

-----------------------------------------------------------------------------
(* What autoAllocate gives whom.                                           *)

\* A finite set of natural numbers has a greatest element.
LEMMA GreatestOf ==
    ASSUME NEW H, H \subseteq Nat, IsFiniteSet(H), H # {}
    PROVE  \E b \in H : \A a \in H : a <= b
<1> DEFINE Above(b) == {a \in H : a > b}
           N == {Cardinality(Above(b)) : b \in H}
           Less == OpToRel(<, Nat)
<1>1. ASSUME NEW b \in H PROVE IsFiniteSet(Above(b)) /\ Cardinality(Above(b)) \in Nat
  BY FS_Subset, FS_CardinalityType
<1>2. N \subseteq Nat /\ N # {}
  BY <1>1
<1>3. PICK n \in N : \A k \in N : ~ (<<k, n>> \in Less)
  <2> HIDE DEF N, Less
  <2>1. IsWellFoundedOn(Less, Nat)
    BY NatLessThanWellFounded DEF Less
  <2> QED BY <1>2, <2>1, WFMin
<1>4. PICK b \in H : n = Cardinality(Above(b))
  BY <1>3
<1>5. ASSUME NEW a \in H, a > b PROVE FALSE
  <2>1. Above(a) \in SUBSET Above(b) /\ a \in Above(b) /\ a \notin Above(a)
    <3> HIDE DEF N, Less
    <3>1. \A y \in H : y > a => y > b
      BY <1>5
    <3>2. ~ (a > a)
      OBVIOUS
    <3> QED BY <1>5, <3>1, <3>2
  <2>2. Cardinality(Above(a)) < Cardinality(Above(b))
    <3> HIDE DEF Above
    <3>1. Cardinality(Above(a)) <= Cardinality(Above(b)) /\ Cardinality(Above(a)) # Cardinality(Above(b))
      BY <1>1, <2>1, FS_Subset
    <3> QED BY <1>1, <3>1
  <2>3. <<Cardinality(Above(a)), n>> \in Less
    BY <1>1, <1>4, <2>2 DEF OpToRel
  <2> QED BY <1>3, <2>3
<1> QED BY <1>5

\* A set of natural numbers has a least element.
LEMMA LeastOf ==
    ASSUME NEW H, H \subseteq Nat, H # {}
    PROVE  \E b \in H : \A a \in H : ~ (a < b)
<1> DEFINE Less == OpToRel(<, Nat)
<1>1. IsWellFoundedOn(Less, Nat)
  BY NatLessThanWellFounded
<1>2. PICK b \in H : \A a \in H : ~ (<<a, b>> \in Less)
  <2> HIDE DEF Less
  <2> QED BY <1>1, WFMin
<1> QED BY <1>2 DEF OpToRel

Open(k) == {b \in Bills : billedTo[b] = k /\ Owing(b) > 0}
Due == [b \in Bills |-> Owing(b)]
Older(k, b) == {a \in Open(k) : a < b}
Before(k, b) == SumOver(Older(k, b), Due)

\* What autoAllocate promises of an amount: nobody gets more than is owed, all of them together no
\* more than the amount, nobody anything before whoever is older is settled, and nothing of the
\* amount is kept while somebody is owed.
SettlesOldestFirst(k, amount, plan) ==
    /\ plan \in [Bills -> 0 .. amount]
    /\ \A b \in Bills : plan[b] > 0 => b \in Open(k) /\ plan[b] <= Owing(b)
    /\ \A b, a \in Open(k) : b < a /\ plan[a] > 0 => plan[b] = Owing(b)
    /\ SumOver(Bills, plan) <= amount
    /\ SumOver(Bills, plan) < amount => \A b \in Open(k) : plan[b] = Owing(b)

\* What is added up are finitely many natural numbers.
LEMMA DueTypes ==
    ASSUME TypeOK, NEW k \in Customers
    PROVE  /\ IsFiniteSet(Open(k)) /\ Open(k) \subseteq Bills /\ Open(k) \subseteq Nat
           /\ Naturals(Open(k), Due) /\ \A b \in Open(k) : Due[b] = Owing(b) /\ Due[b] > 0
           /\ \A b \in Bills : /\ Older(k, b) \in SUBSET Open(k) /\ IsFiniteSet(Older(k, b))
                              /\ Naturals(Older(k, b), Due) /\ Before(k, b) \in Nat
<1>1. IsFiniteSet(Open(k)) /\ Open(k) \subseteq Bills /\ Open(k) \subseteq Nat
  <2>1. Open(k) \in SUBSET Bills
    BY DEF Open
  <2> QED BY <2>1, CreditAssumption, FS_Subset
<1>2. Naturals(Open(k), Due) /\ \A b \in Open(k) : Due[b] = Owing(b) /\ Due[b] > 0
  BY CreditAssumption DEF Naturals, Open, Due, Owing, TypeOK
<1>3. ASSUME NEW b \in Bills
      PROVE  /\ Older(k, b) \in SUBSET Open(k) /\ IsFiniteSet(Older(k, b))
             /\ Naturals(Older(k, b), Due) /\ Before(k, b) \in Nat
  <2>1. Older(k, b) \in SUBSET Open(k)
    BY DEF Older
  <2>2. IsFiniteSet(Older(k, b)) /\ Naturals(Older(k, b), Due)
    BY <1>1, <1>2, <2>1, FS_Subset DEF Naturals
  <2> QED BY <2>1, <2>2, SumType DEF Before
<1> QED BY <1>1, <1>2, <1>3

\* Whoever is older is owed, with all before it, no more than comes before the newer one.
LEMMA OlderComesBefore ==
    ASSUME TypeOK, NEW k \in Customers, NEW b \in Open(k), NEW a \in Open(k), b < a
    PROVE  Before(k, b) + Due[b] <= Before(k, a)
<1>1. /\ b \in Bills /\ a \in Bills /\ b \in Nat /\ a \in Nat /\ Open(k) \subseteq Nat
      /\ IsFiniteSet(Older(k, b)) /\ Naturals(Older(k, b), Due)
      /\ IsFiniteSet(Older(k, a)) /\ Naturals(Older(k, a), Due) /\ Due[b] \in Nat
  BY DueTypes DEF Naturals
<1>2. b \notin Older(k, b) /\ Older(k, b) \union {b} \in SUBSET Older(k, a)
  <2>1. \A r \in Open(k) : r < b => r < a
    BY <1>1
  <2>2. ~ (b < b)
    BY <1>1
  <2> QED BY <2>1, <2>2 DEF Older
<1>3. SumOver(Older(k, b) \union {b}, Due) = SumOver(Older(k, b), Due) + Due[b]
  BY <1>1, <1>2, SumAdd
<1>4. SumOver(Older(k, b) \union {b}, Due) <= SumOver(Older(k, a), Due)
  BY <1>1, <1>2, SumOfPart
<1> QED BY <1>3, <1>4 DEF Before

\* What it gives each purchase.
LEMMA WhoGetsWhat ==
    ASSUME TypeOK, NEW k \in Customers, NEW amount \in Nat, NEW plan, plan = AutoAllocate(k, amount)
    PROVE  /\ plan \in [Bills -> 0 .. amount]
           /\ \A b \in Bills : b \notin Open(k) => plan[b] = 0
           /\ \A b \in Open(k) :
                  /\ plan[b] <= Due[b]
                  /\ plan[b] > 0 => Before(k, b) + plan[b] <= amount
                  /\ Before(k, b) + Due[b] <= amount => plan[b] = Due[b]
                  /\ Before(k, b) < amount /\ plan[b] # Due[b] => Before(k, b) + plan[b] = amount
<1> DEFINE take(b) == IF amount - Before(k, b) < Due[b] THEN amount - Before(k, b) ELSE Due[b]
<1>1. plan = [b \in Bills |-> IF b \in Open(k) /\ Before(k, b) < amount THEN take(b) ELSE 0]
  BY DEF AutoAllocate, Open, Before, Older, Due
<1>2. ASSUME NEW b \in Bills
      PROVE  plan[b] = IF b \in Open(k) /\ Before(k, b) < amount THEN take(b) ELSE 0
  BY <1>1
<1>3. ASSUME NEW b \in Open(k)
      PROVE  /\ plan[b] \in 0 .. amount
             /\ plan[b] <= Due[b]
             /\ plan[b] > 0 => Before(k, b) + plan[b] <= amount
             /\ Before(k, b) + Due[b] <= amount => plan[b] = Due[b]
             /\ Before(k, b) < amount /\ plan[b] # Due[b] => Before(k, b) + plan[b] = amount
  <2>1. b \in Bills /\ Before(k, b) \in Nat /\ Due[b] \in Nat /\ Due[b] > 0
    BY DueTypes DEF Naturals
  <2>2. plan[b] = IF Before(k, b) < amount
                  THEN IF amount - Before(k, b) < Due[b] THEN amount - Before(k, b) ELSE Due[b]
                  ELSE 0
    BY <1>2, <2>1
  <2> QED BY <2>1, <2>2
<1>4. ASSUME NEW b \in Bills, b \notin Open(k) PROVE plan[b] = 0
  BY <1>2, <1>4
<1>5. plan \in [Bills -> 0 .. amount]
  <2>1. \A b \in Bills : plan[b] \in 0 .. amount
    BY <1>3, <1>4
  <2>2. plan = [b \in Bills |-> plan[b]]
    BY <1>1
  <2> HIDE DEF take
  <2> QED BY <2>1, <2>2
<1> QED BY <1>3, <1>4, <1>5

\* What the oldest purchases get, up to the newest that gets anything, is within the amount.
LEMMA WithinTheAmount ==
    ASSUME TypeOK, NEW k \in Customers, NEW amount \in Nat, NEW plan, plan = AutoAllocate(k, amount)
    PROVE  SumOver(Bills, plan) \in Nat /\ SumOver(Bills, plan) <= amount
<1> DEFINE T == {b \in Bills : plan[b] > 0}
<1>1. /\ plan \in [Bills -> 0 .. amount] /\ IsFiniteSet(Bills) /\ Naturals(Bills, plan)
      /\ Bills \subseteq Nat /\ T \in SUBSET Open(k)
  <2>1. plan \in [Bills -> 0 .. amount] /\ \A b \in Bills : b \notin Open(k) => plan[b] = 0
    BY WhoGetsWhat
  <2>2. T \in SUBSET Open(k)
    BY <2>1
  <2>3. Naturals(Bills, plan)
    BY <2>1 DEF Naturals
  <2> QED BY <2>1, <2>2, <2>3, CreditAssumption
<1>2. SumOver(Bills, plan) \in Nat
  BY <1>1, SumType
<1>3. T \in SUBSET Bills /\ IsFiniteSet(T) /\ T \subseteq Nat
  BY <1>1, FS_Subset
<1>4. SumOver(Bills, plan) = SumOver(T, plan)
  <2>1. \A b \in Bills \ T : plan[b] = 0
    BY <1>1
  <2> HIDE DEF T
  <2> QED BY <1>3, <2>1, SumOfRest
<1>5. CASE T = {}
  <2> HIDE DEF T
  <2> QED BY <1>2, <1>4, <1>5, SumOfNothing
<1>6. CASE T # {}
  <2>1. PICK last \in T : \A a \in T : a <= last
    <3> HIDE DEF T
    <3> QED BY <1>3, <1>6, GreatestOf
  <2>2. last \in Open(k) /\ last \in Bills /\ plan[last] > 0 /\ plan[last] \in Nat /\ last \in Nat
    BY <1>1
  <2> DEFINE R == T \ {last}
  <2>3. R \in SUBSET Older(k, last)
    <3>1. \A a \in R : a \in Nat /\ a <= last /\ a # last
      BY <1>3, <2>1
    <3>2. \A a \in R : a < last
      BY <2>2, <3>1
    <3> QED BY <1>1, <3>2 DEF Older
  <2>4. /\ IsFiniteSet(R) /\ Naturals(R, plan) /\ Naturals(R, Due) /\ T = R \union {last} /\ last \notin R
        /\ IsFiniteSet(Older(k, last)) /\ Naturals(Older(k, last), Due) /\ Before(k, last) \in Nat
    <3>1. /\ IsFiniteSet(Older(k, last)) /\ Naturals(Older(k, last), Due) /\ Before(k, last) \in Nat
      BY <2>2, DueTypes
    <3>2. IsFiniteSet(R) /\ Naturals(R, Due)
      BY <2>3, <3>1, FS_Subset DEF Naturals
    <3> QED BY <1>1, <2>1, <3>1, <3>2 DEF Naturals
  <2>5. \A a \in R : plan[a] <= Due[a]
    BY <1>1, WhoGetsWhat
  <2>6. Before(k, last) + plan[last] <= amount
    BY <2>2, WhoGetsWhat
  <2> HIDE DEF R, T
  <2>7. SumOver(T, plan) = SumOver(R, plan) + plan[last]
    BY <2>2, <2>4, SumAdd
  <2>8. SumOver(R, plan) <= SumOver(R, Due) /\ SumOver(R, Due) <= Before(k, last)
    BY <2>3, <2>4, <2>5, SumOfLess, SumOfPart DEF Before
  <2>9. SumOver(R, plan) \in Nat /\ SumOver(R, Due) \in Nat
    BY <2>4, SumType
  <2> QED BY <1>2, <1>4, <2>2, <2>4, <2>6, <2>7, <2>8, <2>9
<1> QED BY <1>2, <1>5, <1>6

\* If somebody is left owing, the amount is used up: whoever is older than the first of them gets
\* all, and the first of them what remains.
LEMMA NothingIsKept ==
    ASSUME TypeOK, NEW k \in Customers, NEW amount \in Nat, NEW plan, plan = AutoAllocate(k, amount),
           SumOver(Bills, plan) < amount
    PROVE  \A b \in Open(k) : plan[b] = Due[b]
<1> DEFINE H == {b \in Open(k) : plan[b] # Due[b]}
<1>1. SUFFICES ASSUME H # {} PROVE FALSE
  OBVIOUS
<1>2. PICK b \in H : \A a \in H : ~ (a < b)
  <2>1. H \subseteq Nat
    BY DueTypes
  <2> HIDE DEF H
  <2> QED BY <1>1, <2>1, LeastOf
<1> DEFINE S == Older(k, b)
<1>3. b \in Open(k) /\ b \in Bills /\ plan[b] # Due[b] /\ b \in Nat
  BY DueTypes
<1>4. Alike(S, Due, plan)
  BY <1>2 DEF Older, Alike
<1>5. /\ S \in SUBSET Open(k) /\ IsFiniteSet(S) /\ Naturals(S, Due) /\ Before(k, b) \in Nat
      /\ S \union {b} \in SUBSET Bills /\ b \notin S
  <2>1. ~ (b < b)
    BY <1>3
  <2> QED BY <1>3, <2>1, DueTypes DEF Older, Open
<1>6. /\ plan \in [Bills -> 0 .. amount] /\ IsFiniteSet(Bills) /\ Naturals(Bills, plan)
      /\ plan[b] \in Nat
  BY <1>3, WhoGetsWhat, CreditAssumption DEF Naturals
<1>7. SumOver(S \union {b}, plan) = Before(k, b) + plan[b]
  <2> HIDE DEF S
  <2>1. SumOver(S \union {b}, plan) = SumOver(S, Due) + plan[b]
    BY <1>4, <1>5, <1>6, SumGrows
  <2> QED BY <2>1 DEF S, Before
<1>8. Before(k, b) + plan[b] <= SumOver(Bills, plan)
  BY <1>5, <1>6, <1>7, SumOfPart
<1>9. Before(k, b) + plan[b] < amount
  <2>1. SumOver(Bills, plan) \in Nat
    BY WithinTheAmount
  <2> HIDE DEF H, S
  <2> QED BY <1>5, <1>6, <1>8, <2>1
<1>10. Before(k, b) < amount
  BY <1>5, <1>6, <1>9
<1>11. Before(k, b) + plan[b] = amount
  BY <1>3, <1>10, WhoGetsWhat
<1> QED BY <1>5, <1>6, <1>9, <1>11

-----------------------------------------------------------------------------
LEMMA TxnTypes ==
    ASSUME TypeOK, NEW c \in Clients
    PROVE  /\ txn[c].pc \in {"idle", "sale", "receipt", "void", "return"}
           /\ txn[c].pc = "sale" => txn[c] \in SaleTxn
           /\ txn[c].pc = "receipt" => txn[c] \in ReceiptTxn
           /\ txn[c].pc = "void" => txn[c] \in VoidTxn
           /\ txn[c].pc = "return" => txn[c] \in ReturnTxn
           /\ txn[c].pc = "idle" => txn[c] = Idle
BY DEF TypeOK, Idle, SaleTxn, ReceiptTxn, VoidTxn, ReturnTxn

\* Dividing and multiplying again does not gain.
LEMMA DivLoses ==
    ASSUME NEW a \in Nat, NEW d \in Nat \ {0}
    PROVE  a \div d \in Nat /\ (a \div d) * d <= a
OBVIOUS

\* The share of a part is of the same rate as the whole.
LEMMA ShareFits ==
    ASSUME NEW b \in Bills, NEW q \in Nat
    PROVE  Share(b, q) \in Nat /\ Share(b, q) * Pieces[b] <= Total[b] * q
<1>1. Total[b] \in Nat /\ Pieces[b] \in Nat \ {0}
  BY CreditAssumption
<1>2. Total[b] * q \in Nat
  BY <1>1
<1> QED BY <1>1, <1>2, DivLoses DEF Share

LEMMA LessIsLess ==
    ASSUME NEW x \in Nat, NEW y \in Nat, NEW z \in Nat, x <= y
    PROVE  x * z <= y * z
OBVIOUS

LEMMA PartsAddUp ==
    ASSUME NEW g \in Nat, NEW h \in Nat, NEW p \in Nat \ {0}, NEW t \in Nat, NEW r \in Nat, NEW q \in Nat,
           g * p <= t * r, h * p <= t * q
    PROVE  (g + h) * p <= t * (r + q)
<1>1. (g + h) * p = g * p + h * p
  OBVIOUS
<1>2. t * (r + q) = t * r + t * q
  OBVIOUS
<1>3. g * p \in Nat /\ h * p \in Nat /\ t * r \in Nat /\ t * q \in Nat
  OBVIOUS
<1> QED BY <1>1, <1>2, <1>3

LEMMA WholeIsMost ==
    ASSUME NEW g \in Nat, NEW p \in Nat \ {0}, NEW t \in Nat, NEW r \in Nat,
           g * p <= t * r, r <= p
    PROVE  g <= t
<1>1. t * r <= t * p
  <2>1. r * t <= p * t
    BY LessIsLess
  <2> QED BY <2>1
<1>2. ASSUME g > t PROVE FALSE
  <2>1. t + 1 <= g
    BY <1>2
  <2>2. (t + 1) * p <= g * p
    BY <2>1, LessIsLess
  <2>3. (t + 1) * p = t * p + p
    OBVIOUS
  <2>4. g * p \in Nat /\ t * p \in Nat /\ t * r \in Nat
    OBVIOUS
  <2> QED BY <1>1, <2>2, <2>3, <2>4
<1> QED BY <1>2

-----------------------------------------------------------------------------
TxnType == {Idle} \union SaleTxn \union ReceiptTxn \union VoidTxn \union ReturnTxn

\* The end of a transaction forgets it and frees what it held.
LEMMA EndsClean ==
    ASSUME TypeOK, NEW c \in Clients, End(c)
    PROVE  /\ txn'[c] = Idle /\ \A o \in Clients \ {c} : txn'[o] = txn[o]
           /\ \A b \in Bills : billLock'[b] = IF billLock[b] = c THEN None ELSE billLock[b]
           /\ txn' \in [Clients -> TxnType]
           /\ billLock' \in [Bills -> Clients \union {None}]
           /\ tradeLock' \in [TradeIns -> Clients \union {None}]
           /\ \A b \in Bills : billLock'[b] # None => txn'[billLock'[b]].pc \in {"receipt", "return"}
<1>1. txn' = [txn EXCEPT ![c] = Idle]
  BY DEF End
<1>2. txn \in [Clients -> TxnType]
  BY DEF TypeOK, TxnType
<1>3. txn' \in [Clients -> TxnType] /\ txn'[c] = Idle /\ \A o \in Clients \ {c} : txn'[o] = txn[o]
  <2>1. Idle \in TxnType
    BY DEF TxnType
  <2> HIDE DEF TxnType, Idle
  <2> QED BY <1>1, <1>2, <2>1
<1>4. \A b \in Bills : billLock'[b] = IF billLock[b] = c THEN None ELSE billLock[b]
  BY DEF End, Unlock
<1>5. billLock' \in [Bills -> Clients \union {None}] /\ tradeLock' \in [TradeIns -> Clients \union {None}]
  BY DEF End, Unlock, TypeOK
<1>6. ASSUME NEW b \in Bills, billLock'[b] # None
      PROVE  txn'[billLock'[b]].pc \in {"receipt", "return"}
  <2>1. billLock[b] # c /\ billLock'[b] = billLock[b] /\ billLock[b] \in Clients
    BY <1>4, <1>6 DEF TypeOK
  <2> QED BY <1>3, <1>6, <2>1 DEF TypeOK
<1> QED BY <1>3, <1>4, <1>5, <1>6

\* What the requests that go on have checked is untouched by the end of another, if no bill they
\* are at has gained.
LEMMA OthersKeepTheirs ==
    ASSUME IInv, NEW c \in Clients, End(c),
           \A b \in Bills : billedTo[b] # None => billedTo'[b] # None,
           \A b \in Bills : billLock[b] # c /\ billedTo[b] # None =>
               /\ received'[b] <= received[b] /\ taken'[b] >= taken[b]
               /\ returned'[b] = returned[b] /\ paidOut'[b] = paidOut[b],
           \A b \in Bills : received'[b] \in Int /\ taken'[b] \in Nat
    PROVE  AllocationsFit' /\ ReturnsFit'
<1>1. /\ txn'[c] = Idle /\ \A o \in Clients \ {c} : txn'[o] = txn[o]
      /\ \A b \in Bills : billLock'[b] = IF billLock[b] = c THEN None ELSE billLock[b]
  BY EndsClean DEF IInv
<1>2. ASSUME NEW o \in Clients, NEW b \in Bills, txn'[o].pc = "receipt", txn'[o].done[b] > 0
      PROVE  /\ billLock'[b] = o /\ billedTo'[b] # None
             /\ received'[b] + txn'[o].done[b] <= Total[b]
  <2>1. o # c /\ txn'[o] = txn[o]
    BY <1>1, <1>2 DEF Idle
  <2>2. /\ billLock[b] = o /\ billedTo[b] # None
        /\ received[b] + txn[o].done[b] <= Total[b]
    BY <1>2, <2>1 DEF IInv, AllocationsFit
  <2>3. txn[o] \in ReceiptTxn /\ received[b] \in Int /\ Total[b] \in Nat
    BY <1>2, <2>1, TxnTypes, CreditAssumption DEF IInv, TypeOK
  <2>4. txn[o].done[b] \in Nat
    BY <2>3 DEF ReceiptTxn
  <2>5. received'[b] <= received[b] /\ received'[b] \in Int
    BY <2>1, <2>2
  <2>6. received'[b] + txn[o].done[b] <= Total[b]
    BY <2>2, <2>3, <2>4, <2>5
  <2> QED BY <1>1, <2>1, <2>2, <2>6
<1>3. ASSUME NEW o \in Clients, txn'[o].pc = "return", NEW b, b = txn'[o].bill
      PROVE  /\ billLock'[b] = o /\ billedTo'[b] # None
             /\ returned'[b] + txn'[o].pieces <= Pieces[b]
             /\ txn'[o].refundable * Pieces[b] <= Total[b] * txn'[o].pieces
             /\ txn'[o].method = "cash" => paidOut'[b] + txn'[o].payable <= taken'[b]
  <2>1. o # c /\ txn'[o] = txn[o]
    BY <1>1, <1>3 DEF Idle
  <2>2. txn[o] \in ReturnTxn
    BY <1>3, <2>1, TxnTypes DEF IInv
  <2>3. b \in Bills /\ txn[o].payable \in Nat /\ paidOut[b] \in Nat /\ taken[b] \in Nat
    BY <1>3, <2>1, <2>2 DEF ReturnTxn, IInv, TypeOK
  <2>4. /\ billLock[b] = o /\ billedTo[b] # None
        /\ returned[b] + txn[o].pieces <= Pieces[b]
        /\ txn[o].refundable * Pieces[b] <= Total[b] * txn[o].pieces
        /\ txn[o].method = "cash" => paidOut[b] + txn[o].payable <= taken[b]
    BY <1>3, <2>1 DEF IInv, ReturnsFit
  <2>5. /\ taken'[b] >= taken[b] /\ returned'[b] = returned[b] /\ paidOut'[b] = paidOut[b]
        /\ billedTo'[b] # None /\ taken'[b] \in Nat
    BY <2>1, <2>3, <2>4
  <2>6. txn[o].method = "cash" => paidOut[b] + txn[o].payable <= taken'[b]
    BY <2>3, <2>4, <2>5
  <2> QED BY <1>1, <2>1, <2>3, <2>4, <2>5, <2>6
<1> QED BY <1>2, <1>3 DEF AllocationsFit, ReturnsFit

LEMMA EndStep ==
    ASSUME IInv, NEW c \in Clients, End(c), UNCHANGED rows
    PROVE  IInv'
<1>1. /\ txn'[c] = Idle /\ \A o \in Clients \ {c} : txn'[o] = txn[o]
      /\ txn' \in [Clients -> TxnType]
      /\ billLock' \in [Bills -> Clients \union {None}]
      /\ tradeLock' \in [TradeIns -> Clients \union {None}]
      /\ \A b \in Bills : billLock'[b] # None => txn'[billLock'[b]].pc \in {"receipt", "return"}
  BY EndsClean DEF IInv
<1>2. TypeOK'
  BY <1>1 DEF IInv, TypeOK, rows, TxnType
<1>3. BillsInBounds'
  BY DEF IInv, BillsInBounds, rows
<1>4. SalesAreNew'
  BY <1>1 DEF IInv, SalesAreNew, rows, Idle
<1>5. AllocationsFit' /\ ReturnsFit'
  <2>1. \A b \in Bills : received[b] \in Int /\ taken[b] \in Nat
    BY DEF IInv, TypeOK
  <2>2. \A b \in Bills : received[b] <= received[b] /\ taken[b] >= taken[b]
    BY <2>1
  <2> QED BY <2>1, <2>2, OthersKeepTheirs DEF rows
<1> QED BY <1>2, <1>3, <1>4, <1>5 DEF IInv

\* A request that starts or goes on changes its own entry only.
LEMMA OneRequestMoves ==
    ASSUME TypeOK, NEW c \in Clients, NEW r \in TxnType, txn' = [txn EXCEPT ![c] = r]
    PROVE  /\ txn'[c] = r /\ \A o \in Clients \ {c} : txn'[o] = txn[o]
           /\ txn' \in [Clients -> TxnType]
<1>1. txn \in [Clients -> TxnType]
  BY DEF TypeOK, TxnType
<1> HIDE DEF TxnType
<1> QED BY <1>1

\* A client without a request holds no bill.
LEMMA IdleHoldsNothing ==
    ASSUME TypeOK, NEW c \in Clients, txn[c] = Idle
    PROVE  txn[c].pc = "idle" /\ \A b \in Bills : billLock[b] # c
BY CreditAssumption DEF TypeOK, Idle

LEMMA BeginSaleStep ==
    ASSUME IInv, NEW c \in Clients, NEW b \in Bills, NEW k \in Customers \union {WalkIn},
           NEW paid \in CounterPayments, NEW t \in TradeIns \union {None},
           BeginSale(c, b, k, paid, t)
    PROVE  IInv'
<1> DEFINE r == [pc |-> "sale", bill |-> b, customer |-> k, paid |-> paid, trade |-> t]
<1>1. r \in TxnType /\ r.pc = "sale" /\ r.bill = b /\ r.paid = paid /\ r.trade = t
  BY CreditAssumption DEF TxnType, SaleTxn
<1>2. txn' = [txn EXCEPT ![c] = r]
  BY DEF BeginSale
<1> HIDE DEF r
<1>3. /\ txn'[c] = r /\ \A o \in Clients \ {c} : txn'[o] = txn[o]
      /\ txn' \in [Clients -> TxnType]
  BY <1>1, <1>2, OneRequestMoves DEF IInv
<1>4. \A d \in Bills : billLock[d] # c
  BY IdleHoldsNothing DEF IInv, BeginSale
<1>5. TypeOK'
  <2>1. tradeLock' \in [TradeIns -> Clients \union {None}]
    BY DEF BeginSale, IInv, TypeOK
  <2>2. \A d \in Bills : billLock[d] # None => txn'[billLock[d]].pc \in {"receipt", "return"}
    BY <1>3, <1>4 DEF IInv, TypeOK
  <2> QED BY <1>3, <2>1, <2>2 DEF BeginSale, IInv, TypeOK, rows, TxnType
<1>6. BillsInBounds'
  BY DEF IInv, BillsInBounds, BeginSale, rows
<1>7. SalesAreNew'
  BY <1>1, <1>3 DEF IInv, SalesAreNew, BeginSale, rows
<1>8. AllocationsFit' /\ ReturnsFit'
  BY <1>1, <1>3 DEF IInv, AllocationsFit, ReturnsFit, BeginSale, rows
<1> QED BY <1>5, <1>6, <1>7, <1>8 DEF IInv

LEMMA BeginReceiptStep ==
    ASSUME IInv, NEW c \in Clients, NEW p \in Receipts, NEW k \in Customers,
           NEW amount \in Collections, BeginReceipt(c, p, k, amount)
    PROVE  IInv'
<1>1. PICK plan \in [Bills -> Nat] :
          txn' = [txn EXCEPT ![c] = [pc |-> "receipt", receipt |-> p, customer |-> k, amount |-> amount,
                                     left |-> plan, done |-> [b \in Bills |-> 0]]]
  <2>1. PICK plan \in Plans \union {AutoAllocate(k, amount)} :
            txn' = [txn EXCEPT ![c] = [pc |-> "receipt", receipt |-> p, customer |-> k,
                                       amount |-> amount, left |-> plan,
                                       done |-> [b \in Bills |-> 0]]]
    BY DEF BeginReceipt
  <2>2. AutoAllocate(k, amount) \in [Bills -> 0 .. amount] /\ amount \in Nat
    BY WhoGetsWhat, CreditAssumption DEF IInv
  <2>3. plan \in [Bills -> Nat]
    <3>1. CASE plan \in Plans
      BY <3>1, CreditAssumption
    <3>2. CASE plan = AutoAllocate(k, amount)
      BY <2>2, <3>2
    <3> QED BY <2>1, <3>1, <3>2
  <2> QED BY <2>1, <2>3
<1> DEFINE r == [pc |-> "receipt", receipt |-> p, customer |-> k, amount |-> amount,
                 left |-> plan, done |-> [b \in Bills |-> 0]]
<1>2. plan \in [Bills -> Nat] /\ amount \in Nat
  BY CreditAssumption
<1>3. r \in TxnType /\ r.pc = "receipt" /\ \A b \in Bills : r.done[b] = 0
  BY <1>2 DEF TxnType, ReceiptTxn
<1> HIDE DEF r
<1>4. /\ txn'[c] = r /\ \A o \in Clients \ {c} : txn'[o] = txn[o]
      /\ txn' \in [Clients -> TxnType]
  BY <1>1, <1>3, OneRequestMoves DEF IInv, r
<1>5. \A d \in Bills : billLock[d] # c
  BY IdleHoldsNothing DEF IInv, BeginReceipt
<1>6. TypeOK'
  <2>1. \A d \in Bills : billLock[d] # None => txn'[billLock[d]].pc \in {"receipt", "return"}
    BY <1>4, <1>5 DEF IInv, TypeOK
  <2> QED BY <1>4, <2>1 DEF BeginReceipt, IInv, TypeOK, rows, TxnType
<1>7. BillsInBounds'
  BY DEF IInv, BillsInBounds, BeginReceipt, rows
<1>8. SalesAreNew'
  BY <1>3, <1>4 DEF IInv, SalesAreNew, BeginReceipt, rows
<1>9. AllocationsFit' /\ ReturnsFit'
  <2>1. \A b \in Bills : ~ (r.done[b] > 0)
    BY <1>3
  <2> QED BY <1>3, <1>4, <2>1 DEF IInv, AllocationsFit, ReturnsFit, BeginReceipt, rows
<1> QED BY <1>6, <1>7, <1>8, <1>9 DEF IInv

LEMMA BeginVoidStep ==
    ASSUME IInv, NEW c \in Clients, NEW p \in Receipts, BeginVoid(c, p)
    PROVE  IInv'
<1> DEFINE r == [pc |-> "void", receipt |-> p]
<1>1. r \in TxnType /\ r.pc = "void"
  BY DEF TxnType, VoidTxn
<1>2. txn' = [txn EXCEPT ![c] = r]
  BY DEF BeginVoid
<1> HIDE DEF r
<1>3. /\ txn'[c] = r /\ \A o \in Clients \ {c} : txn'[o] = txn[o]
      /\ txn' \in [Clients -> TxnType]
  BY <1>1, <1>2, OneRequestMoves DEF IInv
<1>4. \A d \in Bills : billLock[d] # c
  BY IdleHoldsNothing DEF IInv, BeginVoid
<1>5. TypeOK'
  <2>1. \A d \in Bills : billLock[d] # None => txn'[billLock[d]].pc \in {"receipt", "return"}
    BY <1>3, <1>4 DEF IInv, TypeOK
  <2> QED BY <1>3, <2>1 DEF BeginVoid, IInv, TypeOK, rows, TxnType
<1>6. BillsInBounds'
  BY DEF IInv, BillsInBounds, BeginVoid, rows
<1>7. SalesAreNew'
  BY <1>1, <1>3 DEF IInv, SalesAreNew, BeginVoid, rows
<1>8. AllocationsFit' /\ ReturnsFit'
  BY <1>1, <1>3 DEF IInv, AllocationsFit, ReturnsFit, BeginVoid, rows
<1> QED BY <1>5, <1>6, <1>7, <1>8 DEF IInv

\* The allocation that is made locks its bill and fits it.
LEMMA AllocateStep ==
    ASSUME IInv, NEW c \in Clients, NEW b \in Bills, AllocateNext(c, b)
    PROVE  IInv'
<1>1. CASE End(c) /\ UNCHANGED rows
  BY <1>1, EndStep
<1>2. CASE /\ billedTo[b] = txn[c].customer /\ txn[c].left[b] <= Owing(b) - txn[c].done[b]
           /\ txn' = [txn EXCEPT ![c] = Allocated(txn[c], b)]
           /\ billLock' = [billLock EXCEPT ![b] = c]
           /\ UNCHANGED <<rows, tradeLock>>
  <2> DEFINE m == txn[c].left[b]
             r == Allocated(txn[c], b)
  <2>1. txn[c].pc = "receipt" /\ txn[c] \in ReceiptTxn /\ m > 0 /\ BillFree(c, b)
    BY TxnTypes DEF AllocateNext, IInv
  <2>2. m \in Nat /\ txn[c].done \in [Bills -> Nat] /\ txn[c].left \in [Bills -> Nat]
        /\ txn[c].customer \in Customers
    BY <2>1 DEF ReceiptTxn
  <2>3. /\ r \in ReceiptTxn /\ r.pc = "receipt"
        /\ r.done = [txn[c].done EXCEPT ![b] = txn[c].done[b] + m]
    <3> DEFINE x == txn[c]
               nl == [x.left EXCEPT ![b] = 0]
               nd == [x.done EXCEPT ![b] = x.done[b] + m]
    <3>1. nl \in [Bills -> Nat] /\ nd \in [Bills -> Nat]
      BY <2>2
    <3>2. r = [x EXCEPT !.left = nl, !.done = nd]
      BY DEF Allocated
    <3>3. x \in ReceiptTxn
      BY <2>1
    <3> HIDE DEF x, nl, nd, r
    <3>4. /\ r \in ReceiptTxn /\ r.pc = "receipt" /\ r.done = nd
      BY <3>1, <3>2, <3>3 DEF ReceiptTxn
    <3> QED BY <3>4 DEF nd, x
  <2>4. r \in TxnType
    BY <2>3 DEF TxnType
  <2>5. txn' = [txn EXCEPT ![c] = r]
    BY <1>2
  <2> HIDE DEF r
  <2>6. /\ txn'[c] = r /\ \A o \in Clients \ {c} : txn'[o] = txn[o]
        /\ txn' \in [Clients -> TxnType]
    BY <2>4, <2>5, OneRequestMoves DEF IInv
  <2>7. billLock' \in [Bills -> Clients \union {None}] /\ billLock'[b] = c
        /\ \A d \in Bills \ {b} : billLock'[d] = billLock[d]
    BY <1>2 DEF IInv, TypeOK
  <2>8. TypeOK'
    <3>1. \A d \in Bills : billLock'[d] # None => txn'[billLock'[d]].pc \in {"receipt", "return"}
      BY <2>3, <2>6, <2>7 DEF IInv, TypeOK
    <3> QED BY <1>2, <2>6, <2>7, <3>1 DEF IInv, TypeOK, rows, TxnType
  <2>9. BillsInBounds'
    BY <1>2 DEF IInv, BillsInBounds, rows
  <2>10. SalesAreNew'
    BY <1>2, <2>3, <2>6 DEF IInv, SalesAreNew, rows
  <2>11. ASSUME NEW o \in Clients, NEW d \in Bills, txn'[o].pc = "receipt", txn'[o].done[d] > 0
         PROVE  /\ billLock'[d] = o /\ billedTo[d] # None
                /\ received[d] + txn'[o].done[d] <= Total[d]
    <3>1. CASE o = c /\ d = b
      <4>1. txn'[o].done[d] = txn[c].done[b] + m
        BY <2>2, <2>3, <2>6, <3>1
      <4>2. received[b] \in Int /\ Total[b] \in Nat /\ txn[c].done[b] \in Nat
        BY <2>2, CreditAssumption DEF IInv, TypeOK
      <4>3. m <= Total[b] - received[b] - txn[c].done[b]
        BY <1>2 DEF Owing
      <4>4. received[b] + (txn[c].done[b] + m) <= Total[b]
        BY <2>2, <4>2, <4>3
      <4>5. billedTo[b] # None
        BY <1>2, <2>2, CreditAssumption
      <4> QED BY <2>7, <3>1, <4>1, <4>4, <4>5
    <3>2. CASE o = c /\ d # b
      <4>1. txn'[o].done[d] = txn[c].done[d]
        BY <2>2, <2>3, <2>6, <3>2
      <4> QED BY <2>1, <2>7, <2>11, <3>2, <4>1 DEF IInv, AllocationsFit
    <3>3. CASE o # c
      <4>1. txn'[o] = txn[o]
        BY <2>6, <3>3
      <4>2. billLock[d] = o /\ billedTo[d] # None /\ received[d] + txn[o].done[d] <= Total[d]
        BY <2>11, <4>1 DEF IInv, AllocationsFit
      <4>3. d # b
        BY <2>1, <3>3, <4>2, CreditAssumption DEF BillFree
      <4> QED BY <2>7, <4>1, <4>2, <4>3
    <3> QED BY <3>1, <3>2, <3>3
  <2>12. AllocationsFit'
    BY <1>2, <2>11 DEF AllocationsFit, rows
  <2>13. ReturnsFit'
    <3>1. ASSUME NEW o \in Clients, txn'[o].pc = "return"
          PROVE  o # c /\ txn'[o] = txn[o] /\ billLock'[txn[o].bill] = o
      <4>1. o # c /\ txn'[o] = txn[o] /\ txn[o] \in ReturnTxn
        BY <2>3, <2>6, <3>1, TxnTypes DEF IInv
      <4>2. txn[o].bill \in Bills /\ billLock[txn[o].bill] = o
        BY <3>1, <4>1 DEF ReturnTxn, IInv, ReturnsFit
      <4>3. txn[o].bill # b
        BY <2>1, <4>1, <4>2, CreditAssumption DEF BillFree
      <4> QED BY <2>7, <4>1, <4>2, <4>3
    <3> QED BY <1>2, <3>1 DEF IInv, ReturnsFit, rows
  <2> QED BY <2>8, <2>9, <2>10, <2>12, <2>13 DEF IInv
<1> QED BY <1>1, <1>2 DEF AllocateNext

\* An entry in the ledger leaves a balance a number.
LEMMA PostType ==
    ASSUME TypeOK, NEW k \in Customers \union {WalkIn, None}, NEW n \in Int, Post(k, n)
    PROVE  balance' \in [Customers -> Int]
BY DEF TypeOK, Post, Posted

LEMMA WorthIsNat ==
    ASSUME NEW t \in TradeIns \union {None}
    PROVE  TradeInWorth(t) \in Nat
BY CreditAssumption DEF TradeInWorth

LEMMA CommitSaleStep ==
    ASSUME IInv, NEW c \in Clients, CommitSale(c)
    PROVE  IInv'
<1> DEFINE b == txn[c].bill
           n == txn[c].paid + TradeInWorth(txn[c].trade)
<1>1. txn[c].pc = "sale" /\ txn[c] \in SaleTxn
  BY TxnTypes DEF CommitSale, IInv
<1>2. /\ b \in Bills /\ txn[c].customer \in Customers \union {WalkIn} /\ txn[c].paid \in Nat
      /\ txn[c].trade \in TradeIns \union {None}
  BY <1>1 DEF SaleTxn
<1>3. n \in Nat /\ n <= Total[b] /\ Total[b] \in Nat /\ billedTo[b] = None
  <2>1. TradeInWorth(txn[c].trade) \in Nat
    BY <1>2, WorthIsNat
  <2>2. billedTo[b] = None /\ n <= Total[b]
    BY <1>1 DEF IInv, SalesAreNew
  <2>3. Total[b] \in Nat
    BY <1>2, CreditAssumption
  <2>4. n \in Nat
    BY <1>2, <2>1
  <2> HIDE DEF b, n
  <2> QED BY <2>2, <2>3, <2>4
<1>4. /\ billedTo' = [billedTo EXCEPT ![b] = txn[c].customer]
      /\ counter' = [counter EXCEPT ![b] = txn[c].paid]
      /\ received' = [received EXCEPT ![b] = n] /\ taken' = [taken EXCEPT ![b] = n]
      /\ linked' = [t \in TradeIns |-> IF t = txn[c].trade THEN b ELSE linked[t]]
      /\ Post(txn[c].customer, Total[b] - n) /\ End(c)
      /\ UNCHANGED <<returned, goods, refunded, paidOut, receipts>>
  BY DEF CommitSale
<1>5. /\ txn'[c] = Idle /\ \A o \in Clients \ {c} : txn'[o] = txn[o]
      /\ txn' \in [Clients -> TxnType]
      /\ billLock' \in [Bills -> Clients \union {None}]
      /\ tradeLock' \in [TradeIns -> Clients \union {None}]
      /\ \A d \in Bills : billLock'[d] # None => txn'[billLock'[d]].pc \in {"receipt", "return"}
  BY <1>4, EndsClean DEF IInv
<1>6. txn[c].customer # None
  BY <1>2, CreditAssumption
<1> HIDE DEF b, n
<1>7. TypeOK'
  <2>1. balance' \in [Customers -> Int]
    BY <1>2, <1>3, <1>4, PostType DEF IInv
  <2>2. /\ billedTo' \in [Bills -> Customers \union {WalkIn, None}]
        /\ counter' \in [Bills -> Nat] /\ received' \in [Bills -> Int] /\ taken' \in [Bills -> Nat]
        /\ linked' \in [TradeIns -> Bills \union {None}]
    BY <1>2, <1>3, <1>4 DEF IInv, TypeOK
  <2> QED BY <1>4, <1>5, <2>1, <2>2 DEF IInv, TypeOK, TxnType
<1>8. BillsInBounds'
  <2>1. \A d \in Bills \ {b} : /\ received'[d] = received[d] /\ taken'[d] = taken[d]
                             /\ billedTo'[d] = billedTo[d]
    BY <1>2, <1>4 DEF IInv, TypeOK
  <2>2. /\ received'[b] = n /\ taken'[b] = n /\ billedTo'[b] # None
    BY <1>2, <1>4, <1>6 DEF IInv, TypeOK
  <2>3. paidOut[b] = 0
    BY <1>2, <1>3 DEF IInv, BillsInBounds
  <2> QED BY <1>2, <1>3, <1>4, <2>1, <2>2, <2>3 DEF IInv, BillsInBounds
<1>9. SalesAreNew'
  <2>1. \A o \in Clients \ {c} : txn[o].pc = "sale" => txn[o].bill # b
    BY <1>1 DEF IInv, SalesAreNew, b
  <2>2. \A d \in Bills \ {b} : billedTo'[d] = billedTo[d]
    BY <1>2, <1>4 DEF IInv, TypeOK
  <2>3. \A o \in Clients : txn[o].pc = "sale" => txn[o].bill \in Bills
    BY TxnTypes DEF IInv, SaleTxn
  <2>4. txn'[c].pc # "sale"
    BY <1>5 DEF Idle
  <2> QED BY <1>5, <2>1, <2>2, <2>3, <2>4 DEF IInv, SalesAreNew
<1>10. AllocationsFit' /\ ReturnsFit'
  <2>1. \A d \in Bills : billedTo[d] # None =>
            /\ d # b /\ billedTo'[d] # None
            /\ received'[d] = received[d] /\ taken'[d] = taken[d]
    BY <1>2, <1>3, <1>4 DEF IInv, TypeOK
  <2>2. \A d \in Bills : received[d] \in Int /\ taken[d] \in Nat
    BY DEF IInv, TypeOK
  <2>3. \A d \in Bills : received'[d] \in Int /\ taken'[d] \in Nat
    BY <1>7 DEF TypeOK
  <2>4. \A d \in Bills : billLock[d] # c /\ billedTo[d] # None =>
            /\ received'[d] <= received[d] /\ taken'[d] >= taken[d]
            /\ returned'[d] = returned[d] /\ paidOut'[d] = paidOut[d]
    BY <1>4, <2>1, <2>2
  <2> QED BY <1>4, <2>1, <2>3, <2>4, OthersKeepTheirs
<1> QED BY <1>7, <1>8, <1>9, <1>10 DEF IInv

\* A commit or a void changes what bills have received, and nothing else of a bill.
LEMMA ReceivedMoves ==
    ASSUME IInv, NEW c \in Clients, End(c),
           UNCHANGED <<billedTo, returned, goods, refunded, paidOut>>,
           \A b \in Bills : /\ received'[b] \in Int /\ taken'[b] \in Nat
                            /\ received'[b] <= Total[b] /\ received'[b] <= taken'[b]
                            /\ taken'[b] >= taken[b]
                            /\ billLock[b] # c => received'[b] <= received[b]
    PROVE  BillsInBounds' /\ SalesAreNew' /\ AllocationsFit' /\ ReturnsFit'
<1>1. \A b \in Bills : taken[b] \in Nat /\ paidOut[b] \in Nat
  BY DEF IInv, TypeOK
<1>2. \A b \in Bills : paidOut[b] <= taken'[b]
  BY <1>1 DEF IInv, BillsInBounds
<1>3. BillsInBounds'
  BY <1>2 DEF IInv, BillsInBounds
<1>4. /\ txn'[c] = Idle /\ \A o \in Clients \ {c} : txn'[o] = txn[o]
  BY EndsClean DEF IInv
<1>5. SalesAreNew'
  BY <1>4 DEF IInv, SalesAreNew, Idle
<1>6. AllocationsFit' /\ ReturnsFit'
  BY OthersKeepTheirs
<1> QED BY <1>3, <1>5, <1>6

LEMMA CommitReceiptStep ==
    ASSUME IInv, NEW c \in Clients, CommitReceipt(c)
    PROVE  IInv'
<1> DEFINE p == txn[c].receipt
           done == txn[c].done
           k == txn[c].customer
           amount == txn[c].amount
<1>1. txn[c].pc = "receipt" /\ txn[c] \in ReceiptTxn /\ End(c)
  BY TxnTypes DEF CommitReceipt, IInv
<1>2. p \in Receipts /\ done \in [Bills -> Nat] /\ k \in Customers /\ amount \in Nat
  BY <1>1 DEF ReceiptTxn
<1>3. CASE UNCHANGED rows
  BY <1>1, <1>3, EndStep
<1>4. CASE ~ UNCHANGED rows
  <2>1. /\ receipts' = [receipts EXCEPT ![p] = [status |-> "live", customer |-> k, amount |-> amount,
                                               alloc |-> done]]
        /\ received' = [b \in Bills |-> received[b] + done[b]]
        /\ taken' = [b \in Bills |-> taken[b] + done[b]]
        /\ Post(k, -amount)
        /\ UNCHANGED <<billedTo, counter, returned, goods, refunded, paidOut, linked>>
    BY <1>4 DEF CommitReceipt
  <2>2. \A b \in Bills : done[b] > 0 => billLock[b] = c /\ received[b] + done[b] <= Total[b]
    BY <1>1 DEF IInv, AllocationsFit
  <2> HIDE DEF p, done, k, amount
  <2>3. /\ txn' \in [Clients -> TxnType]
        /\ billLock' \in [Bills -> Clients \union {None}]
        /\ tradeLock' \in [TradeIns -> Clients \union {None}]
        /\ \A d \in Bills : billLock'[d] # None => txn'[billLock'[d]].pc \in {"receipt", "return"}
    BY <1>1, EndsClean DEF IInv
  <2>4. \A b \in Bills : /\ received[b] \in Int /\ taken[b] \in Nat /\ done[b] \in Nat
                         /\ Total[b] \in Nat
                         /\ received[b] <= Total[b] /\ received[b] <= taken[b]
    BY <1>2, CreditAssumption DEF IInv, TypeOK, BillsInBounds
  <2>5. TypeOK'
    <3>1. balance' \in [Customers -> Int]
      <4>1. -amount \in Int
        BY <1>2
      <4> QED BY <1>2, <2>1, <4>1, PostType DEF IInv
    <3>2. receipts' \in [Receipts -> Receipt]
      BY <1>2, <2>1 DEF IInv, TypeOK, Receipt
    <3>3. received' \in [Bills -> Int] /\ taken' \in [Bills -> Nat]
      BY <2>1, <2>4
    <3> QED BY <2>1, <2>3, <3>1, <3>2, <3>3 DEF IInv, TypeOK, TxnType
  <2>6. ASSUME NEW b \in Bills
        PROVE  /\ received'[b] \in Int /\ taken'[b] \in Nat
               /\ received'[b] <= Total[b] /\ received'[b] <= taken'[b]
               /\ taken'[b] >= taken[b]
               /\ billLock[b] # c => received'[b] <= received[b]
    <3>1. received'[b] = received[b] + done[b] /\ taken'[b] = taken[b] + done[b]
      BY <2>1
    <3> QED BY <2>2, <2>4, <3>1
  <2> QED BY <1>1, <2>1, <2>5, <2>6, ReceivedMoves DEF IInv
<1> QED BY <1>3, <1>4

LEMMA CommitVoidStep ==
    ASSUME IInv, NEW c \in Clients, CommitVoid(c)
    PROVE  IInv'
<1> DEFINE p == txn[c].receipt
<1>1. txn[c].pc = "void" /\ txn[c] \in VoidTxn /\ End(c)
  BY TxnTypes DEF CommitVoid, IInv
<1>2. p \in Receipts /\ receipts[p] \in Receipt
  BY <1>1 DEF VoidTxn, IInv, TypeOK
<1>3. /\ receipts[p].alloc \in [Bills -> Nat] /\ receipts[p].amount \in Nat
      /\ receipts[p].customer \in Customers \union {WalkIn, None}
  BY <1>2 DEF Receipt
<1>4. CASE UNCHANGED rows
  BY <1>1, <1>4, EndStep
<1>5. CASE ~ UNCHANGED rows
  <2>1. /\ receipts' = [receipts EXCEPT ![p] = [receipts[p] EXCEPT !.status = "void"]]
        /\ received' = [b \in Bills |-> received[b] - receipts[p].alloc[b]]
        /\ Post(receipts[p].customer, receipts[p].amount)
        /\ UNCHANGED <<billedTo, counter, returned, goods, refunded, paidOut, taken, linked>>
    BY <1>5 DEF CommitVoid
  <2> DEFINE x == [receipts[p] EXCEPT !.status = "void"]
             a == receipts[p].alloc
  <2>2. x \in Receipt
    BY <1>2 DEF Receipt
  <2>3. a \in [Bills -> Nat] /\ received' = [b \in Bills |-> received[b] - a[b]]
    BY <1>3, <2>1
  <2> HIDE DEF p, x, a
  <2>4. /\ txn' \in [Clients -> TxnType]
        /\ billLock' \in [Bills -> Clients \union {None}]
        /\ tradeLock' \in [TradeIns -> Clients \union {None}]
        /\ \A d \in Bills : billLock'[d] # None => txn'[billLock'[d]].pc \in {"receipt", "return"}
    BY <1>1, EndsClean DEF IInv
  <2>5. \A b \in Bills : /\ received[b] \in Int /\ taken[b] \in Nat /\ Total[b] \in Nat /\ a[b] \in Nat
                         /\ received[b] <= Total[b] /\ received[b] <= taken[b]
    BY <2>3, CreditAssumption DEF IInv, TypeOK, BillsInBounds
  <2>6. TypeOK'
    <3>1. balance' \in [Customers -> Int]
      BY <1>3, <2>1, PostType DEF IInv
    <3>2. receipts' \in [Receipts -> Receipt]
      BY <1>2, <2>1, <2>2 DEF IInv, TypeOK, x
    <3>3. received' \in [Bills -> Int]
      BY <2>3, <2>5
    <3> QED BY <2>1, <2>4, <3>1, <3>2, <3>3 DEF IInv, TypeOK, TxnType
  <2>7. ASSUME NEW b \in Bills
        PROVE  /\ received'[b] \in Int /\ taken'[b] \in Nat
               /\ received'[b] <= Total[b] /\ received'[b] <= taken'[b]
               /\ taken'[b] >= taken[b]
               /\ billLock[b] # c => received'[b] <= received[b]
    <3>1. received'[b] = received[b] - a[b] /\ taken'[b] = taken[b]
      BY <2>1, <2>3
    <3> QED BY <2>5, <3>1
  <2> QED BY <1>1, <2>1, <2>6, <2>7, ReceivedMoves DEF IInv
<1> QED BY <1>4, <1>5

\* What a return takes from a bill's refund cap the bill has received and not given back.
LEMMA PayableIsCapped ==
    ASSUME IInv, NEW b \in Bills, NEW n \in Nat, NEW m \in Methods
    PROVE  /\ Payable(b, n, m) \in Nat
           /\ m = "cash" => paidOut[b] + Payable(b, n, m) <= taken[b]
<1>1. /\ received[b] \in Int /\ refunded[b] \in Nat /\ paidOut[b] \in Nat /\ taken[b] \in Nat
      /\ received[b] <= taken[b] /\ paidOut[b] <= refunded[b] /\ paidOut[b] <= taken[b]
  BY DEF IInv, TypeOK, BillsInBounds
<1>2. CASE m = "none"
  BY <1>2 DEF Payable
<1>3. CASE m = "account"
  BY <1>3 DEF Payable
<1>4. CASE m = "cash"
  <2>1. CASE RefundCap(b) <= 0
    <3>1. Payable(b, n, m) = 0
      BY <1>4, <2>1 DEF Payable
    <3> QED BY <1>1, <3>1
  <2>2. CASE ~ (RefundCap(b) <= 0)
    <3>1. Payable(b, n, m) = Least(n, RefundCap(b))
      BY <1>4, <2>2 DEF Payable
    <3>2. RefundCap(b) = received[b] - refunded[b]
      BY DEF RefundCap
    <3>3. /\ Least(n, RefundCap(b)) \in Nat /\ Least(n, RefundCap(b)) <= received[b] - refunded[b]
      BY <1>1, <2>2, <3>2 DEF Least
    <3> QED BY <1>1, <3>1, <3>3
  <2> QED BY <2>1, <2>2
<1> QED BY <1>2, <1>3, <1>4 DEF Methods

LEMMA BeginReturnStep ==
    ASSUME IInv, NEW c \in Clients, NEW b \in Bills, NEW q \in 1..Pieces[b], NEW deduction \in Deductions,
           NEW m \in Methods, BeginReturn(c, b, q, deduction, m)
    PROVE  IInv'
<1> DEFINE n == Share(b, q) - deduction
           v == Payable(b, n, m)
           r == [pc |-> "return", bill |-> b, pieces |-> q, refundable |-> n, payable |-> v, method |-> m]
<1>1. /\ txn[c] = Idle /\ billedTo[b] # None /\ billLock[b] = None
      /\ q <= Pieces[b] - returned[b] /\ n >= 0
      /\ txn' = [txn EXCEPT ![c] = r]
      /\ billLock' = [billLock EXCEPT ![b] = c]
      /\ UNCHANGED <<rows, tradeLock>>
  BY DEF BeginReturn, ReturnAlone
<1>2. /\ q \in Nat /\ deduction \in Nat /\ Pieces[b] \in Nat \ {0} /\ Total[b] \in Nat
      /\ returned[b] \in Nat
  BY CreditAssumption DEF IInv, TypeOK
<1>3. Share(b, q) \in Nat /\ Share(b, q) * Pieces[b] <= Total[b] * q
  BY <1>2, ShareFits
<1>4. n \in Nat /\ n * Pieces[b] <= Total[b] * q
  <2>1. n \in Nat /\ n <= Share(b, q)
    BY <1>1, <1>2, <1>3
  <2> HIDE DEF n
  <2>2. n * Pieces[b] <= Share(b, q) * Pieces[b]
    BY <1>2, <1>3, <2>1, LessIsLess
  <2>3. /\ n * Pieces[b] \in Nat /\ Share(b, q) * Pieces[b] \in Nat /\ Total[b] * q \in Nat
    BY <1>2, <1>3, <2>1
  <2> QED BY <1>3, <2>1, <2>2, <2>3
<1> HIDE DEF n
<1>5. v \in Nat /\ (m = "cash" => paidOut[b] + v <= taken[b])
  BY <1>4, PayableIsCapped
<1> HIDE DEF v
<1>6. /\ r \in TxnType /\ r.pc = "return" /\ r.bill = b /\ r.pieces = q /\ r.refundable = n
      /\ r.payable = v /\ r.method = m
  BY <1>2, <1>4, <1>5 DEF TxnType, ReturnTxn
<1> HIDE DEF r
<1>7. /\ txn'[c] = r /\ \A o \in Clients \ {c} : txn'[o] = txn[o]
      /\ txn' \in [Clients -> TxnType]
  BY <1>1, <1>6, OneRequestMoves DEF IInv
<1>8. billLock' \in [Bills -> Clients \union {None}] /\ billLock'[b] = c
      /\ \A d \in Bills \ {b} : billLock'[d] = billLock[d]
  BY <1>1 DEF IInv, TypeOK
<1>9. \A d \in Bills : billLock[d] # c
  BY <1>1, IdleHoldsNothing DEF IInv
<1>10. TypeOK'
  <2>1. \A d \in Bills : billLock'[d] # None => txn'[billLock'[d]].pc \in {"receipt", "return"}
    BY <1>6, <1>7, <1>8, <1>9 DEF IInv, TypeOK
  <2> QED BY <1>1, <1>7, <1>8, <2>1 DEF IInv, TypeOK, rows, TxnType
<1>11. BillsInBounds'
  BY <1>1 DEF IInv, BillsInBounds, rows
<1>12. SalesAreNew'
  BY <1>1, <1>6, <1>7 DEF IInv, SalesAreNew, rows
<1>13. AllocationsFit'
  <2>1. ASSUME NEW o \in Clients, NEW d \in Bills, txn'[o].pc = "receipt", txn'[o].done[d] > 0
        PROVE  txn'[o] = txn[o] /\ billLock'[d] = o
    <3>1. o # c /\ txn'[o] = txn[o]
      BY <1>6, <1>7, <2>1
    <3>2. billLock[d] = o
      BY <2>1, <3>1 DEF IInv, AllocationsFit
    <3>3. d # b
      BY <1>1, <3>2, CreditAssumption
    <3> QED BY <1>8, <3>1, <3>2, <3>3
  <2> QED BY <1>1, <2>1 DEF IInv, AllocationsFit, rows
<1>14. ReturnsFit'
  <2>1. ASSUME NEW o \in Clients \ {c}, txn'[o].pc = "return"
        PROVE  txn'[o] = txn[o] /\ billLock'[txn[o].bill] = o
    <3>1. txn'[o] = txn[o] /\ txn[o] \in ReturnTxn
      BY <1>7, <2>1, TxnTypes DEF IInv
    <3>2. txn[o].bill \in Bills /\ billLock[txn[o].bill] = o
      BY <2>1, <3>1 DEF ReturnTxn, IInv, ReturnsFit
    <3>3. txn[o].bill # b
      BY <1>1, <3>2, CreditAssumption
    <3> QED BY <1>8, <3>1, <3>2, <3>3
  <2>2. returned[b] + q <= Pieces[b]
    BY <1>1, <1>2
  <2>3. /\ returned' = returned /\ paidOut' = paidOut /\ taken' = taken /\ billedTo' = billedTo
    BY <1>1 DEF rows
  <2>4. ASSUME NEW o \in Clients, txn'[o].pc = "return"
        PROVE  LET d == txn'[o].bill IN
               /\ billLock'[d] = o /\ billedTo[d] # None
               /\ returned[d] + txn'[o].pieces <= Pieces[d]
               /\ txn'[o].refundable * Pieces[d] <= Total[d] * txn'[o].pieces
               /\ txn'[o].method = "cash" => paidOut[d] + txn'[o].payable <= taken[d]
    <3>1. CASE o = c
      BY <1>1, <1>4, <1>5, <1>6, <1>7, <1>8, <2>2, <3>1
    <3>2. CASE o # c
      BY <2>1, <2>4, <3>2 DEF IInv, ReturnsFit
    <3> QED BY <3>1, <3>2
  <2> QED BY <2>3, <2>4 DEF ReturnsFit
<1> QED BY <1>10, <1>11, <1>12, <1>13, <1>14 DEF IInv

LEMMA CommitReturnStep ==
    ASSUME IInv, NEW c \in Clients, CommitReturn(c)
    PROVE  IInv'
<1> DEFINE b == txn[c].bill
           q == txn[c].pieces
           n == txn[c].refundable
           v == txn[c].payable
           cash == IF txn[c].method = "cash" THEN v ELSE 0
<1>1. txn[c].pc = "return" /\ txn[c] \in ReturnTxn /\ End(c)
  BY TxnTypes DEF CommitReturn, IInv
<1>2. b \in Bills /\ q \in Nat /\ n \in Nat /\ v \in Nat /\ cash \in Nat /\ cash <= v
  BY <1>1 DEF ReturnTxn
<1>3. /\ billLock[b] = c /\ billedTo[b] # None /\ returned[b] + q <= Pieces[b]
      /\ n * Pieces[b] <= Total[b] * q
  BY <1>1 DEF IInv, ReturnsFit
<1>4. paidOut[b] + cash <= taken[b]
  <2>1. paidOut[b] \in Nat /\ taken[b] \in Nat /\ paidOut[b] <= taken[b]
    BY <1>2 DEF IInv, TypeOK, BillsInBounds
  <2> QED BY <1>1, <1>2, <2>1 DEF IInv, ReturnsFit
<1>5. /\ returned' = [returned EXCEPT ![b] = returned[b] + q]
      /\ goods' = [goods EXCEPT ![b] = goods[b] + n]
      /\ refunded' = [refunded EXCEPT ![b] = refunded[b] + v]
      /\ paidOut' = [paidOut EXCEPT ![b] = paidOut[b] + cash]
      /\ Post(billedTo[b], cash - n)
      /\ UNCHANGED <<billedTo, counter, received, taken, linked, receipts>>
  BY DEF CommitReturn
<1> HIDE DEF b, q, n, v, cash
<1>6. /\ txn'[c] = Idle /\ \A o \in Clients \ {c} : txn'[o] = txn[o]
      /\ txn' \in [Clients -> TxnType]
      /\ billLock' \in [Bills -> Clients \union {None}]
      /\ tradeLock' \in [TradeIns -> Clients \union {None}]
      /\ \A d \in Bills : billLock'[d] # None => txn'[billLock'[d]].pc \in {"receipt", "return"}
  BY <1>1, EndsClean DEF IInv
<1>7. /\ returned[b] \in Nat /\ goods[b] \in Nat /\ refunded[b] \in Nat /\ paidOut[b] \in Nat
      /\ Pieces[b] \in Nat \ {0} /\ Total[b] \in Nat
      /\ billedTo[b] \in Customers \union {WalkIn, None}
  BY <1>2, CreditAssumption DEF IInv, TypeOK
<1>8. TypeOK'
  <2>1. balance' \in [Customers -> Int]
    <3>1. cash - n \in Int
      BY <1>2
    <3> QED BY <1>5, <1>7, <3>1, PostType DEF IInv
  <2>2. /\ returned' \in [Bills -> Nat] /\ goods' \in [Bills -> Nat] /\ refunded' \in [Bills -> Nat]
        /\ paidOut' \in [Bills -> Nat]
    <3>1. /\ returned[b] + q \in Nat /\ goods[b] + n \in Nat /\ refunded[b] + v \in Nat
          /\ paidOut[b] + cash \in Nat
      BY <1>2, <1>7
    <3> QED BY <1>5, <3>1 DEF IInv, TypeOK
  <2> QED BY <1>5, <1>6, <2>1, <2>2 DEF IInv, TypeOK, TxnType
<1>9. /\ returned'[b] = returned[b] + q /\ goods'[b] = goods[b] + n
      /\ refunded'[b] = refunded[b] + v /\ paidOut'[b] = paidOut[b] + cash
      /\ \A d \in Bills \ {b} : /\ returned'[d] = returned[d] /\ goods'[d] = goods[d]
                             /\ refunded'[d] = refunded[d] /\ paidOut'[d] = paidOut[d]
  BY <1>2, <1>5 DEF IInv, TypeOK
<1>10. BillsInBounds'
  <2>1. (goods[b] + n) * Pieces[b] <= Total[b] * (returned[b] + q)
    <3>1. goods[b] * Pieces[b] <= Total[b] * returned[b]
      BY <1>2 DEF IInv, BillsInBounds
    <3> QED BY <1>2, <1>3, <1>7, <3>1, PartsAddUp
  <2>2. paidOut[b] <= refunded[b]
    BY <1>2 DEF IInv, BillsInBounds
  <2>3. paidOut[b] + cash <= refunded[b] + v
    BY <1>2, <1>7, <2>2
  <2>4. \A d \in Bills \ {b} :
           /\ received'[d] <= Total[d] /\ received'[d] <= taken'[d]
           /\ paidOut'[d] <= refunded'[d] /\ paidOut'[d] <= taken'[d]
           /\ returned'[d] <= Pieces[d]
           /\ goods'[d] * Pieces[d] <= Total[d] * returned'[d]
           /\ billedTo'[d] = None => paidOut'[d] = 0
    BY <1>5, <1>9 DEF IInv, BillsInBounds
  <2>5. received[b] <= Total[b] /\ received[b] <= taken[b]
    BY <1>2 DEF IInv, BillsInBounds
  <2>6. /\ received'[b] <= Total[b] /\ received'[b] <= taken'[b]
        /\ paidOut'[b] <= refunded'[b] /\ paidOut'[b] <= taken'[b]
        /\ returned'[b] <= Pieces[b]
        /\ goods'[b] * Pieces[b] <= Total[b] * returned'[b]
        /\ billedTo'[b] = None => paidOut'[b] = 0
    BY <1>3, <1>4, <1>5, <1>9, <2>1, <2>3, <2>5
  <2> QED BY <2>4, <2>6 DEF BillsInBounds
<1>11. SalesAreNew'
  BY <1>5, <1>6 DEF IInv, SalesAreNew, Idle
<1>12. AllocationsFit' /\ ReturnsFit'
  <2>1. \A d \in Bills : received[d] \in Int /\ taken[d] \in Nat
    BY DEF IInv, TypeOK
  <2>2. \A d \in Bills : billLock[d] # c /\ billedTo[d] # None =>
            /\ received'[d] <= received[d] /\ taken'[d] >= taken[d]
            /\ returned'[d] = returned[d] /\ paidOut'[d] = paidOut[d]
    BY <1>3, <1>5, <1>9, <2>1
  <2> QED BY <1>1, <1>5, <2>1, <2>2, OthersKeepTheirs
<1> QED BY <1>8, <1>10, <1>11, <1>12 DEF IInv

-----------------------------------------------------------------------------
LEMMA InitIInv == Init => IInv
<1> SUFFICES ASSUME Init PROVE IInv
  OBVIOUS
<1>1. TypeOK
  BY DEF Init, TypeOK, NoReceipt, Receipt
<1>2. \A b \in Bills : Total[b] \in Nat /\ Pieces[b] \in Nat
  BY CreditAssumption
<1>3. BillsInBounds
  BY <1>2 DEF Init, BillsInBounds
<1>4. SalesAreNew /\ AllocationsFit /\ ReturnsFit
  BY DEF Init, SalesAreNew, AllocationsFit, ReturnsFit, Idle
<1> QED BY <1>1, <1>3, <1>4 DEF IInv

LEMMA IInvStep == IInv /\ [Next]_vars => IInv'
<1> SUFFICES ASSUME IInv, [Next]_vars PROVE IInv'
  OBVIOUS
<1>1. CASE UNCHANGED vars
  BY <1>1 DEF IInv, TypeOK, BillsInBounds, SalesAreNew, AllocationsFit, ReturnsFit, vars, rows
<1>2. ASSUME NEW c \in Clients, Begin(c) PROVE IInv'
  BY <1>2, BeginSaleStep, BeginReceiptStep, BeginVoidStep, BeginReturnStep DEF Begin
<1>3. ASSUME NEW c \in Clients, Allocate(c) PROVE IInv'
  BY <1>3, AllocateStep DEF Allocate
<1>4. ASSUME NEW c \in Clients, Commit(c) PROVE IInv'
  BY <1>4, CommitSaleStep, CommitReceiptStep, CommitVoidStep, CommitReturnStep DEF Commit
<1>5. ASSUME NEW c \in Clients, DeadlockVictim(c) \/ Abort(c) PROVE IInv'
  BY <1>5, EndStep DEF DeadlockVictim, RolledBack, Abort
<1> QED BY <1>1, <1>2, <1>3, <1>4, <1>5 DEF Next

LEMMA IInvHolds == Spec => []IInv
BY InitIInv, IInvStep, PTL DEF Spec

\* Rows and requests are of their types, and a bill is locked only by a collection or a return
\* that is still in flight.
THEOREM CreditTypes == Spec => []TypeOK
BY IInvHolds, PTL DEF IInv

\* However many collections, sales, voids and returns are in flight, no bill is settled beyond
\* its total (the row lock in recordCustomerPayment).
THEOREM NobodyOverpays == Spec => []NeverOverpaid
<1>1. IInv => NeverOverpaid
  BY DEF IInv, BillsInBounds, NeverOverpaid
<1> QED BY <1>1, IInvHolds, PTL

\* However many returns of a bill arrive, no more comes back than was sold, and rounding the
\* shares down never makes the parts worth more than the bill (the row lock in createReturn).
THEOREM ReturnsStayWithinTheSale == Spec => []NothingReturnedTwice
<1>1. ASSUME IInv, NEW b \in Bills PROVE returned[b] <= Pieces[b] /\ goods[b] <= Total[b]
  <2>1. /\ returned[b] \in Nat /\ goods[b] \in Nat /\ Total[b] \in Nat /\ Pieces[b] \in Nat \ {0}
        /\ returned[b] <= Pieces[b] /\ goods[b] * Pieces[b] <= Total[b] * returned[b]
    BY <1>1, CreditAssumption DEF IInv, TypeOK, BillsInBounds
  <2> QED BY <2>1, WholeIsMost
<1>2. IInv => NothingReturnedTwice
  BY <1>1 DEF NothingReturnedTwice
<1> QED BY <1>2, IInvHolds, PTL

\* The shop never pays back more on a bill than it took on it (createReturn's refund cap).
THEOREM RefundsAreCapped == Spec => []RefundsWereReceived
<1>1. IInv => RefundsWereReceived
  BY DEF IInv, BillsInBounds, RefundsWereReceived
<1> QED BY <1>1, IInvHolds, PTL

-----------------------------------------------------------------------------
(* The ledger.  A bill's own figures are nothing until its sale commits,   *)
(* and from then on every commit adds, changes or takes away one row.      *)

Live == {p \in Receipts : receipts[p].status = "live"}
Collected == [b \in Bills |-> [p \in Receipts |-> receipts[p].alloc[b]]]
Amount == [p \in Receipts |-> receipts[p].amount]
PaidIn(k) == {p \in Live : receipts[p].customer = k}
Bought(k) == {b \in Bills : billedTo[b] = k}
Traded(b) == {t \in TradeIns : linked[t] = b}
Charged == [b \in Bills |-> Total[b] + paidOut[b]]
Settled == [b \in Bills |-> counter[b] + SumOver(Traded(b), Value) + goods[b]]

\* A receipt that is being entered is no row yet, and one request enters it.
ReceiptsAreNew ==
    \A c \in Clients :
        txn[c].pc = "receipt" =>
            /\ receipts[txn[c].receipt] = NoReceipt
            /\ \A o \in Clients :
                   txn[o].pc = "receipt" /\ txn[o].receipt = txn[c].receipt => o = c

\* A handset in part-exchange is on no bill while a sale holds it.
TradesAreHeld ==
    \A c \in Clients :
        txn[c].pc = "sale" /\ txn[c].trade # None =>
            tradeLock[txn[c].trade] = c /\ linked[txn[c].trade] = None

\* Nothing was received or returned on a bill that does not exist.
BillsStartEmpty ==
    \A b \in Bills :
        billedTo[b] = None =>
            counter[b] = 0 /\ received[b] = 0 /\ goods[b] = 0 /\ paidOut[b] = 0 /\ Traded(b) = {}

ReceivedAddsUp ==
    \A b \in Bills :
        received[b] = counter[b] + SumOver(Traded(b), Value) + SumOver(Live, Collected[b])
BalancesAddUp ==
    \A k \in Customers :
        balance[k] = SumOver(Bought(k), Charged) - SumOver(Bought(k), Settled)
                     - SumOver(PaidIn(k), Amount)

Ledger ==
    /\ IsFiniteSet(Live) /\ \A b \in Bills : IsFiniteSet(Traded(b))
    /\ BillsStartEmpty /\ ReceivedAddsUp /\ BalancesAddUp

LInv == IInv /\ ReceiptsAreNew /\ TradesAreHeld /\ Ledger

\* The sets a sum runs over are finite, and what it adds are natural numbers.
LEMMA Summable ==
    ASSUME TypeOK, IsFiniteSet(Live), \A b \in Bills : IsFiniteSet(Traded(b))
    PROVE  /\ \A b \in Bills :
                  /\ Naturals(Live, Collected[b]) /\ SumOver(Live, Collected[b]) \in Nat
                  /\ Naturals(Traded(b), Value) /\ SumOver(Traded(b), Value) \in Nat
                  /\ Charged[b] \in Nat /\ Settled[b] \in Nat
           /\ \A k \in Customers :
                  /\ IsFiniteSet(PaidIn(k)) /\ Naturals(PaidIn(k), Amount)
                  /\ SumOver(PaidIn(k), Amount) \in Nat
                  /\ IsFiniteSet(Bought(k))
                  /\ Naturals(Bought(k), Charged) /\ SumOver(Bought(k), Charged) \in Nat
                  /\ Naturals(Bought(k), Settled) /\ SumOver(Bought(k), Settled) \in Nat
<1>1. ASSUME NEW b \in Bills
      PROVE  /\ Naturals(Live, Collected[b]) /\ SumOver(Live, Collected[b]) \in Nat
             /\ Naturals(Traded(b), Value) /\ SumOver(Traded(b), Value) \in Nat
  <2>1. Naturals(Live, Collected[b])
    BY DEF TypeOK, Receipt, Live, Collected, Naturals
  <2>2. Naturals(Traded(b), Value)
    BY CreditAssumption DEF Traded, Naturals
  <2> QED BY <2>1, <2>2, SumType
<1>2. ASSUME NEW b \in Bills PROVE Charged[b] \in Nat /\ Settled[b] \in Nat
  <2>1. Total[b] \in Nat /\ paidOut[b] \in Nat /\ counter[b] \in Nat /\ goods[b] \in Nat
    BY CreditAssumption DEF TypeOK
  <2> QED BY <1>1, <2>1 DEF Charged, Settled
<1>3. ASSUME NEW k \in Customers
      PROVE  /\ IsFiniteSet(PaidIn(k)) /\ Naturals(PaidIn(k), Amount)
             /\ SumOver(PaidIn(k), Amount) \in Nat
  <2>1. PaidIn(k) \in SUBSET Live
    BY DEF PaidIn
  <2>2. IsFiniteSet(PaidIn(k))
    BY <2>1, FS_Subset
  <2>3. Naturals(PaidIn(k), Amount)
    BY DEF TypeOK, Receipt, Live, PaidIn, Amount, Naturals
  <2> QED BY <2>2, <2>3, SumType
<1>4. ASSUME NEW k \in Customers
      PROVE  /\ IsFiniteSet(Bought(k))
             /\ Naturals(Bought(k), Charged) /\ SumOver(Bought(k), Charged) \in Nat
             /\ Naturals(Bought(k), Settled) /\ SumOver(Bought(k), Settled) \in Nat
  <2>1. Bought(k) \in SUBSET Bills /\ IsFiniteSet(Bills)
    BY CreditAssumption DEF Bought
  <2>2. IsFiniteSet(Bought(k))
    BY <2>1, FS_Subset
  <2>3. Naturals(Bought(k), Charged) /\ Naturals(Bought(k), Settled)
    BY <1>2, <2>1 DEF Naturals
  <2> QED BY <2>2, <2>3, SumType
<1> QED BY <1>1, <1>2, <1>3, <1>4

\* No row, no change.
LEMMA RowsStay ==
    ASSUME Ledger, UNCHANGED rows
    PROVE  Ledger'
BY DEF Ledger, BillsStartEmpty, ReceivedAddsUp, BalancesAddUp, Live, Collected, Amount, PaidIn,
       Bought, Traded, Charged, Settled, rows

\* A receipt counts from its commit on: for the bills it settles and on the account.
LEMMA ReceiptCounts ==
    ASSUME TypeOK, Ledger, NEW p \in Receipts, receipts[p] = NoReceipt,
           NEW r \in Receipt, r.status = "live", receipts' = [receipts EXCEPT ![p] = r]
    PROVE  /\ IsFiniteSet(Live')
           /\ \A b \in Bills :
                  SumOver(Live', Collected'[b]) = SumOver(Live, Collected[b]) + r.alloc[b]
           /\ \A k \in Customers :
                  SumOver(PaidIn(k)', Amount') =
                      SumOver(PaidIn(k), Amount) + (IF r.customer = k THEN r.amount ELSE 0)
<1>1. Live' = Live \union {p} /\ p \notin Live /\ Live \subseteq Receipts
  BY DEF Live, NoReceipt, TypeOK
<1>2. IsFiniteSet(Live) /\ IsFiniteSet(Live') /\ \A b \in Bills : IsFiniteSet(Traded(b))
  BY <1>1, FS_AddElement DEF Ledger
<1>3. /\ \A q \in Live : receipts'[q] = receipts[q]
      /\ receipts'[p] = r /\ r.amount \in Nat /\ r.alloc \in [Bills -> Nat]
  BY <1>1 DEF TypeOK, Receipt
<1>4. ASSUME NEW b \in Bills
      PROVE  SumOver(Live', Collected'[b]) = SumOver(Live, Collected[b]) + r.alloc[b]
  <2>1. Collected'[b][p] = r.alloc[b] /\ r.alloc[b] \in Nat /\ Naturals(Live, Collected[b])
    BY <1>2, <1>3, Summable DEF Collected
  <2>2. Alike(Live, Collected[b], Collected'[b])
    BY <1>1, <1>3 DEF Collected, Alike
  <2>3. SumOver(Live \union {p}, Collected'[b]) = SumOver(Live, Collected[b]) + Collected'[b][p]
    BY <1>1, <1>2, <2>1, <2>2, SumGrows
  <2> QED BY <1>1, <2>1, <2>3
<1>5. ASSUME NEW k \in Customers
      PROVE  SumOver(PaidIn(k)', Amount') =
                 SumOver(PaidIn(k), Amount) + (IF r.customer = k THEN r.amount ELSE 0)
  <2>1. /\ IsFiniteSet(PaidIn(k)) /\ Naturals(PaidIn(k), Amount) /\ p \notin PaidIn(k)
        /\ SumOver(PaidIn(k), Amount) \in Nat
    BY <1>1, <1>2, Summable DEF PaidIn
  <2>2. Amount'[p] = r.amount /\ Alike(PaidIn(k), Amount, Amount')
    BY <1>1, <1>3 DEF Amount, Alike, PaidIn
  <2>3. CASE r.customer = k
    <3>1. PaidIn(k)' = PaidIn(k) \union {p}
      BY <1>1, <1>3, <2>3 DEF PaidIn
    <3>2. SumOver(PaidIn(k) \union {p}, Amount') = SumOver(PaidIn(k), Amount) + Amount'[p]
      BY <1>3, <2>1, <2>2, SumGrows
    <3> QED BY <2>2, <2>3, <3>1, <3>2
  <2>4. CASE r.customer # k
    <3>1. PaidIn(k)' = PaidIn(k)
      BY <1>1, <1>3, <2>4 DEF PaidIn
    <3>2. SumOver(PaidIn(k), Amount') = SumOver(PaidIn(k), Amount)
      BY <2>2, SumSame
    <3> QED BY <2>1, <2>4, <3>1, <3>2
  <2> QED BY <2>3, <2>4
<1> QED BY <1>2, <1>4, <1>5

\* A receipt that is voided no longer counts, for the bills it settled and on the account.
LEMMA ReceiptStops ==
    ASSUME TypeOK, Ledger, NEW p \in Receipts, receipts[p].status = "live",
           receipts' = [receipts EXCEPT ![p].status = "void"]
    PROVE  /\ IsFiniteSet(Live')
           /\ \A b \in Bills :
                  SumOver(Live', Collected'[b]) = SumOver(Live, Collected[b]) - receipts[p].alloc[b]
           /\ \A k \in Customers :
                  SumOver(PaidIn(k)', Amount') =
                      SumOver(PaidIn(k), Amount)
                      - (IF receipts[p].customer = k THEN receipts[p].amount ELSE 0)
<1>1. Live' = Live \ {p} /\ p \in Live /\ Live \subseteq Receipts
  BY DEF Live, TypeOK, Receipt
<1>2. IsFiniteSet(Live) /\ IsFiniteSet(Live') /\ \A b \in Bills : IsFiniteSet(Traded(b))
  BY <1>1, FS_RemoveElement DEF Ledger
<1>3. \A q \in Live \ {p} : receipts'[q] = receipts[q]
  BY <1>1 DEF TypeOK
<1>4. ASSUME NEW b \in Bills
      PROVE  SumOver(Live', Collected'[b]) = SumOver(Live, Collected[b]) - receipts[p].alloc[b]
  <2>1. Naturals(Live, Collected[b]) /\ Collected[b][p] = receipts[p].alloc[b]
    BY <1>2, Summable DEF Collected
  <2>2. Alike(Live \ {p}, Collected[b], Collected'[b])
    BY <1>1, <1>3 DEF Collected, Alike
  <2>3. p \in Live /\ IsFiniteSet(Live)
    BY <1>1, <1>2
  <2>4. \A f, g : Naturals(Live, f) /\ Alike(Live \ {p}, f, g)
                  => SumOver(Live \ {p}, g) = SumOver(Live, f) - f[p]
    BY <2>3, SumShrinks
  <2>5. SumOver(Live \ {p}, Collected'[b]) = SumOver(Live, Collected[b]) - Collected[b][p]
    BY <2>1, <2>2, <2>4
  <2> QED BY <1>1, <2>1, <2>5
<1>5. ASSUME NEW k \in Customers
      PROVE  SumOver(PaidIn(k)', Amount') =
                 SumOver(PaidIn(k), Amount)
                 - (IF receipts[p].customer = k THEN receipts[p].amount ELSE 0)
  <2>1. /\ IsFiniteSet(PaidIn(k)) /\ Naturals(PaidIn(k), Amount)
        /\ SumOver(PaidIn(k), Amount) \in Nat
        /\ p \in PaidIn(k) <=> receipts[p].customer = k
    BY <1>1, <1>2, Summable DEF PaidIn
  <2>2. Amount[p] = receipts[p].amount /\ Alike(PaidIn(k) \ {p}, Amount, Amount')
    BY <1>1, <1>3 DEF Amount, Alike, PaidIn
  <2>3. PaidIn(k)' = PaidIn(k) \ {p}
    BY <1>1, <1>3 DEF PaidIn
  <2>4. CASE receipts[p].customer = k
    <3>1. p \in PaidIn(k) /\ IsFiniteSet(PaidIn(k)) /\ Naturals(PaidIn(k), Amount)
      BY <2>1, <2>4
    <3>2. SumOver(PaidIn(k) \ {p}, Amount') = SumOver(PaidIn(k), Amount) - Amount[p]
      BY <2>2, <3>1, SumShrinks
    <3> QED BY <2>2, <2>3, <2>4, <3>2
  <2>5. CASE receipts[p].customer # k
    <3>1. PaidIn(k)' = PaidIn(k) /\ Alike(PaidIn(k), Amount, Amount')
      BY <2>1, <2>2, <2>3, <2>5 DEF Alike
    <3>2. SumOver(PaidIn(k), Amount') = SumOver(PaidIn(k), Amount)
      BY <3>1, SumSame
    <3> QED BY <2>1, <2>5, <3>1, <3>2
  <2> QED BY <2>4, <2>5
<1> QED BY <1>2, <1>4, <1>5

\* The requests that go on still hold what they enter, when another one ends.
LEMMA EnteringEnds ==
    ASSUME LInv, NEW c \in Clients, End(c),
           \A o \in Clients \ {c} : txn[o].pc = "receipt" =>
               receipts'[txn[o].receipt] = receipts[txn[o].receipt],
           \A t \in TradeIns : tradeLock[t] # c => linked'[t] = linked[t]
    PROVE  ReceiptsAreNew' /\ TradesAreHeld'
<1>1. txn'[c].pc = "idle" /\ \A o \in Clients \ {c} : txn'[o] = txn[o]
  BY EndsClean DEF LInv, IInv, Idle
<1>2. \A t \in TradeIns : tradeLock'[t] = IF tradeLock[t] = c THEN None ELSE tradeLock[t]
  BY DEF End, Unlock
<1>3. ReceiptsAreNew'
  <2>1. ASSUME NEW a \in Clients, txn'[a].pc = "receipt"
        PROVE  /\ receipts'[txn'[a].receipt] = NoReceipt
               /\ \A o \in Clients :
                      txn'[o].pc = "receipt" /\ txn'[o].receipt = txn'[a].receipt => o = a
    BY <1>1, <2>1 DEF LInv, ReceiptsAreNew
  <2> QED BY <2>1 DEF ReceiptsAreNew, NoReceipt
<1>4. TradesAreHeld'
  <2>1. ASSUME NEW a \in Clients, txn'[a].pc = "sale", txn'[a].trade # None
        PROVE  tradeLock'[txn'[a].trade] = a /\ linked'[txn'[a].trade] = None
    <3>1. a # c /\ txn'[a] = txn[a]
      BY <1>1, <2>1
    <3>2. txn[a].trade \in TradeIns
      BY <2>1, <3>1, TxnTypes DEF LInv, IInv, SaleTxn
    <3>3. tradeLock[txn[a].trade] = a /\ linked[txn[a].trade] = None
      BY <2>1, <3>1 DEF LInv, TradesAreHeld
    <3> QED BY <1>2, <3>1, <3>2, <3>3
  <2> QED BY <2>1 DEF TradesAreHeld
<1> QED BY <1>3, <1>4

\* Whatever a request's next entry is, the others keep theirs.
LEMMA OwnEntryMoves ==
    ASSUME TypeOK, NEW c \in Clients, NEW r, txn' = [txn EXCEPT ![c] = r]
    PROVE  txn'[c] = r /\ \A o \in Clients \ {c} : txn'[o] = txn[o]
<1>1. txn \in [Clients -> TxnType]
  BY DEF TypeOK, TxnType
<1> HIDE DEF TxnType
<1> QED BY <1>1

\* And when another one starts, or goes on with the receipt it had.
LEMMA EnteringStays ==
    ASSUME LInv, NEW c \in Clients, NEW r, txn' = [txn EXCEPT ![c] = r],
           UNCHANGED <<receipts, linked, tradeLock>>, r.pc # "sale",
           r.pc = "receipt" => txn[c].pc = "receipt" /\ r.receipt = txn[c].receipt
    PROVE  ReceiptsAreNew' /\ TradesAreHeld'
<1>1. txn'[c] = r /\ \A o \in Clients \ {c} : txn'[o] = txn[o]
  BY OwnEntryMoves DEF LInv, IInv
<1>2. \A o \in Clients : txn'[o].pc = "receipt" =>
          txn[o].pc = "receipt" /\ txn'[o].receipt = txn[o].receipt
  BY <1>1
<1>3. \A o \in Clients : txn'[o].pc = "sale" => txn'[o] = txn[o]
  BY <1>1
<1> QED BY <1>2, <1>3 DEF LInv, ReceiptsAreNew, TradesAreHeld, NoReceipt

LEMMA EndLedger ==
    ASSUME LInv, NEW c \in Clients, End(c), UNCHANGED rows
    PROVE  LInv'
<1>1. ReceiptsAreNew' /\ TradesAreHeld'
  BY EnteringEnds DEF rows
<1> QED BY <1>1, EndStep, RowsStay DEF LInv

\* A sale starts with a handset nobody holds.
LEMMA BeginSaleLedger ==
    ASSUME LInv, NEW c \in Clients, NEW b \in Bills, NEW k \in Customers \union {WalkIn},
           NEW paid \in CounterPayments, NEW t \in TradeIns \union {None},
           BeginSale(c, b, k, paid, t)
    PROVE  LInv'
<1> DEFINE r == [pc |-> "sale", bill |-> b, customer |-> k, paid |-> paid, trade |-> t]
<1>1. r.pc = "sale" /\ r.trade = t
  OBVIOUS
<1>2. /\ UNCHANGED rows /\ txn' = [txn EXCEPT ![c] = r]
      /\ t # None => linked[t] = None /\ tradeLock[t] = None
      /\ \A u \in TradeIns : tradeLock'[u] = IF u = t THEN c ELSE tradeLock[u]
  BY DEF BeginSale, TradeInOpen
<1> HIDE DEF r
<1>3. txn'[c] = r /\ \A o \in Clients \ {c} : txn'[o] = txn[o]
  BY <1>2, OwnEntryMoves DEF LInv, IInv
<1>4. receipts' = receipts /\ linked' = linked
  BY <1>2 DEF rows
<1>5. ReceiptsAreNew'
  <2>1. \A o \in Clients : txn'[o].pc = "receipt" => txn'[o] = txn[o]
    BY <1>1, <1>3
  <2> QED BY <1>4, <2>1 DEF LInv, ReceiptsAreNew, NoReceipt
<1>6. ASSUME NEW a \in Clients, txn'[a].pc = "sale", txn'[a].trade # None
      PROVE  tradeLock'[txn'[a].trade] = a /\ linked'[txn'[a].trade] = None
  <2>1. CASE a = c
    BY <1>1, <1>2, <1>3, <1>4, <1>6, <2>1
  <2>2. CASE a # c
    <3>1. txn'[a] = txn[a] /\ txn[a].trade \in TradeIns
      BY <1>3, <1>6, <2>2, TxnTypes DEF LInv, IInv, SaleTxn
    <3>2. tradeLock[txn[a].trade] = a /\ linked[txn[a].trade] = None
      BY <1>6, <3>1 DEF LInv, TradesAreHeld
    <3>3. txn[a].trade # t
      BY <1>2, <3>1, <3>2, CreditAssumption
    <3> QED BY <1>2, <1>4, <3>1, <3>2, <3>3
  <2> QED BY <2>1, <2>2
<1>7. TradesAreHeld'
  BY <1>6 DEF TradesAreHeld
<1> QED BY <1>2, <1>5, <1>7, BeginSaleStep, RowsStay DEF LInv

\* A receipt starts with a number nobody has.
LEMMA BeginReceiptLedger ==
    ASSUME LInv, NEW c \in Clients, NEW p \in Receipts, NEW k \in Customers,
           NEW amount \in Collections, BeginReceipt(c, p, k, amount)
    PROVE  LInv'
<1>1. PICK plan \in [Bills -> Nat] :
          txn' = [txn EXCEPT ![c] = [pc |-> "receipt", receipt |-> p, customer |-> k,
                                     amount |-> amount, left |-> plan,
                                     done |-> [b \in Bills |-> 0]]]
  <2>1. PICK plan \in Plans \union {AutoAllocate(k, amount)} :
            txn' = [txn EXCEPT ![c] = [pc |-> "receipt", receipt |-> p, customer |-> k,
                                       amount |-> amount, left |-> plan,
                                       done |-> [b \in Bills |-> 0]]]
    BY DEF BeginReceipt
  <2>2. AutoAllocate(k, amount) \in [Bills -> 0 .. amount] /\ amount \in Nat
    BY WhoGetsWhat, CreditAssumption DEF LInv, IInv
  <2>3. plan \in [Bills -> Nat]
    <3>1. CASE plan \in Plans
      BY <3>1, CreditAssumption
    <3>2. CASE plan = AutoAllocate(k, amount)
      BY <2>2, <3>2
    <3> QED BY <2>1, <3>1, <3>2
  <2> QED BY <2>1, <2>3
<1> DEFINE r == [pc |-> "receipt", receipt |-> p, customer |-> k, amount |-> amount,
                 left |-> plan, done |-> [b \in Bills |-> 0]]
<1>2. r.pc = "receipt" /\ r.receipt = p
  OBVIOUS
<1>3. /\ UNCHANGED rows /\ UNCHANGED <<receipts, linked, tradeLock>> /\ receipts[p] = NoReceipt
      /\ \A o \in Clients : txn[o].pc = "receipt" => txn[o].receipt # p
  BY DEF BeginReceipt, rows
<1> HIDE DEF r
<1>4. txn'[c] = r /\ \A o \in Clients \ {c} : txn'[o] = txn[o]
  <2>1. txn' = [txn EXCEPT ![c] = r]
    BY <1>1 DEF r
  <2> QED BY <2>1, OwnEntryMoves DEF LInv, IInv
<1>5. TradesAreHeld'
  <2>1. \A o \in Clients : txn'[o].pc = "sale" => txn'[o] = txn[o]
    BY <1>2, <1>4
  <2> QED BY <1>3, <2>1 DEF LInv, TradesAreHeld
<1>6. ASSUME NEW a \in Clients, txn'[a].pc = "receipt"
      PROVE  /\ receipts[txn'[a].receipt] = NoReceipt
             /\ \A o \in Clients :
                    txn'[o].pc = "receipt" /\ txn'[o].receipt = txn'[a].receipt => o = a
  <2>1. CASE a = c
    BY <1>2, <1>3, <1>4, <2>1
  <2>2. CASE a # c
    <3>1. txn'[a] = txn[a] /\ txn[a].pc = "receipt" /\ txn[a].receipt # p
      BY <1>3, <1>4, <1>6, <2>2
    <3>2. txn'[c].receipt = p
      BY <1>2, <1>4
    <3> QED BY <1>4, <3>1, <3>2 DEF LInv, ReceiptsAreNew
  <2> QED BY <2>1, <2>2
<1>7. ReceiptsAreNew'
  BY <1>3, <1>6 DEF ReceiptsAreNew, NoReceipt
<1> QED BY <1>3, <1>5, <1>7, BeginReceiptStep, RowsStay DEF LInv

LEMMA BeginVoidLedger ==
    ASSUME LInv, NEW c \in Clients, NEW p \in Receipts, BeginVoid(c, p)
    PROVE  LInv'
<1> DEFINE r == [pc |-> "void", receipt |-> p]
<1>1. r.pc = "void"
  OBVIOUS
<1>2. UNCHANGED rows /\ UNCHANGED <<receipts, linked, tradeLock>> /\ txn' = [txn EXCEPT ![c] = r]
  BY DEF BeginVoid, rows
<1> HIDE DEF r
<1>3. ReceiptsAreNew' /\ TradesAreHeld'
  BY <1>1, <1>2, EnteringStays
<1> QED BY <1>2, <1>3, BeginVoidStep, RowsStay DEF LInv

LEMMA BeginReturnLedger ==
    ASSUME LInv, NEW c \in Clients, NEW b \in Bills, NEW q \in 1..Pieces[b],
           NEW deduction \in Deductions, NEW m \in Methods, BeginReturn(c, b, q, deduction, m)
    PROVE  LInv'
<1> DEFINE n == Share(b, q) - deduction
           r == [pc |-> "return", bill |-> b, pieces |-> q, refundable |-> n,
                 payable |-> Payable(b, n, m), method |-> m]
<1>1. r.pc = "return"
  OBVIOUS
<1>2. UNCHANGED rows /\ UNCHANGED <<receipts, linked, tradeLock>> /\ txn' = [txn EXCEPT ![c] = r]
  BY DEF BeginReturn, rows
<1> HIDE DEF r
<1>3. ReceiptsAreNew' /\ TradesAreHeld'
  BY <1>1, <1>2, EnteringStays
<1> QED BY <1>2, <1>3, BeginReturnStep, RowsStay DEF LInv

LEMMA AllocateLedger ==
    ASSUME LInv, NEW c \in Clients, NEW b \in Bills, AllocateNext(c, b)
    PROVE  LInv'
<1>1. CASE End(c)
  BY <1>1, EndLedger DEF AllocateNext
<1>2. CASE txn' = [txn EXCEPT ![c] = Allocated(txn[c], b)] /\ UNCHANGED tradeLock
  <2>1. txn[c] \in ReceiptTxn /\ txn[c].pc = "receipt" /\ UNCHANGED rows
    BY TxnTypes DEF AllocateNext, LInv, IInv
  <2> DEFINE r == Allocated(txn[c], b)
  <2>2. r.pc = "receipt" /\ r.receipt = txn[c].receipt
    BY <2>1 DEF Allocated, ReceiptTxn
  <2> HIDE DEF r
  <2>3. UNCHANGED <<receipts, linked, tradeLock>> /\ txn' = [txn EXCEPT ![c] = r]
    BY <1>2, <2>1 DEF rows, r
  <2>4. ReceiptsAreNew' /\ TradesAreHeld'
    BY <2>1, <2>2, <2>3, EnteringStays
  <2> QED BY <2>1, <2>4, AllocateStep, RowsStay DEF LInv
<1> QED BY <1>1, <1>2 DEF AllocateNext

\* A posting moves one account by its amount.
LEMMA PostMoves ==
    ASSUME TypeOK, NEW k \in Customers \union {WalkIn, None}, NEW amount \in Int, Post(k, amount)
    PROVE  \A s \in Customers : balance'[s] = balance[s] + (IF k = s THEN amount ELSE 0)
BY DEF TypeOK, Post, Posted

\* What holds of the bills and the accounts before a step, with the sums as numbers.
LEMMA LedgerNumbers ==
    ASSUME LInv
    PROVE  /\ TypeOK /\ Ledger /\ IsFiniteSet(Live)
           /\ \A b \in Bills :
                  /\ received[b] = counter[b] + SumOver(Traded(b), Value) + SumOver(Live, Collected[b])
                  /\ SumOver(Traded(b), Value) \in Nat /\ SumOver(Live, Collected[b]) \in Nat
           /\ \A k \in Customers :
                  /\ balance[k] = SumOver(Bought(k), Charged) - SumOver(Bought(k), Settled)
                                  - SumOver(PaidIn(k), Amount)
                  /\ SumOver(Bought(k), Charged) \in Nat /\ SumOver(Bought(k), Settled) \in Nat
                  /\ SumOver(PaidIn(k), Amount) \in Nat
<1>1. TypeOK /\ Ledger
  BY DEF LInv, IInv
<1>2. ReceivedAddsUp /\ BalancesAddUp /\ IsFiniteSet(Live) /\ \A b \in Bills : IsFiniteSet(Traded(b))
  BY <1>1 DEF Ledger
<1> QED BY <1>1, <1>2, Summable DEF ReceivedAddsUp, BalancesAddUp

\* The commit of a receipt adds its row, what it settles, and takes it off the account.
LEMMA CommitReceiptLedger ==
    ASSUME LInv, NEW c \in Clients, CommitReceipt(c)
    PROVE  LInv'
<1> DEFINE x == txn[c]
           r == [status |-> "live", customer |-> x.customer, amount |-> x.amount, alloc |-> x.done]
<1>1. CASE UNCHANGED rows
  BY <1>1, EndLedger DEF CommitReceipt
<1>2. CASE /\ receipts' = [receipts EXCEPT ![x.receipt] = r]
           /\ received' = [b \in Bills |-> received[b] + x.done[b]]
           /\ Post(x.customer, -x.amount)
           /\ UNCHANGED <<billedTo, counter, returned, goods, refunded, paidOut, linked>>
  <2>1. /\ End(c) /\ x.pc = "receipt" /\ x \in ReceiptTxn /\ TypeOK
        /\ x.receipt \in Receipts /\ receipts[x.receipt] = NoReceipt
    BY TxnTypes DEF CommitReceipt, LInv, IInv, ReceiptsAreNew, ReceiptTxn
  <2>2. /\ r \in Receipt /\ r.status = "live" /\ r.customer = x.customer /\ r.amount = x.amount
        /\ r.alloc = x.done /\ x.customer \in Customers /\ x.amount \in Nat
        /\ x.done \in [Bills -> Nat]
    BY <2>1 DEF ReceiptTxn, Receipt
  <2>3. ReceiptsAreNew' /\ TradesAreHeld'
    <3>1. \A o \in Clients \ {c} : txn[o].pc = "receipt" =>
              receipts'[txn[o].receipt] = receipts[txn[o].receipt]
      BY <1>2, <2>1, TxnTypes DEF LInv, ReceiptsAreNew, ReceiptTxn, TypeOK
    <3> QED BY <1>2, <2>1, <3>1, EnteringEnds
  <2> HIDE DEF r, x
  <2>4. /\ IsFiniteSet(Live')
        /\ \A b \in Bills : SumOver(Live', Collected'[b]) = SumOver(Live, Collected[b]) + r.alloc[b]
        /\ \A k \in Customers :
               SumOver(PaidIn(k)', Amount') =
                   SumOver(PaidIn(k), Amount) + (IF r.customer = k THEN r.amount ELSE 0)
    BY <1>2, <2>1, <2>2, ReceiptCounts DEF LInv
  <2>5. /\ \A b \in Bills : Traded(b)' = Traded(b)
        /\ \A k \in Customers : Bought(k)' = Bought(k)
        /\ Charged' = Charged /\ Settled' = Settled
    BY <1>2 DEF Traded, Bought, Charged, Settled
  <2>6. ReceivedAddsUp'
    BY <1>2, <2>2, <2>4, <2>5, LedgerNumbers DEF ReceivedAddsUp, TypeOK
  <2>7. BalancesAddUp'
    <3>1. -x.amount \in Int
      BY <2>2
    <3>2. \A k \in Customers : balance'[k] = balance[k] + (IF x.customer = k THEN -x.amount ELSE 0)
      BY <1>2, <2>1, <2>2, <3>1, PostMoves
    <3>3. ASSUME NEW k \in Customers
          PROVE  balance'[k] = SumOver(Bought(k)', Charged') - SumOver(Bought(k)', Settled')
                               - SumOver(PaidIn(k)', Amount')
      <4>1. /\ balance[k] = SumOver(Bought(k), Charged) - SumOver(Bought(k), Settled)
                            - SumOver(PaidIn(k), Amount)
            /\ SumOver(Bought(k), Charged) \in Nat /\ SumOver(Bought(k), Settled) \in Nat
            /\ SumOver(PaidIn(k), Amount) \in Nat
        BY LedgerNumbers
      <4>2. Bought(k)' = Bought(k) /\ Charged' = Charged /\ Settled' = Settled
        BY <2>5
      <4> QED BY <2>2, <2>4, <3>2, <4>1, <4>2
    <3> QED BY <3>3 DEF BalancesAddUp
  <2>8. BillsStartEmpty'
    <3>1. \A b \in Bills : x.done[b] \in Nat /\ (x.done[b] > 0 => billedTo[b] # None)
      BY <2>1, <2>2 DEF LInv, IInv, AllocationsFit, x
    <3> QED BY <1>2, <2>5, <3>1 DEF LInv, Ledger, BillsStartEmpty
  <2>9. Ledger'
    BY <2>4, <2>5, <2>6, <2>7, <2>8 DEF LInv, Ledger
  <2> QED BY <2>3, <2>9, CommitReceiptStep DEF LInv
<1> QED BY <1>1, <1>2 DEF CommitReceipt

\* A void takes the receipt out again, from the bills it settled and on the account.
LEMMA CommitVoidLedger ==
    ASSUME LInv, NEW c \in Clients, CommitVoid(c)
    PROVE  LInv'
<1> DEFINE p == txn[c].receipt
<1>1. CASE UNCHANGED rows
  BY <1>1, EndLedger DEF CommitVoid
<1>2. CASE /\ receipts[p].status = "live"
           /\ receipts' = [receipts EXCEPT ![p].status = "void"]
           /\ received' = [b \in Bills |-> received[b] - receipts[p].alloc[b]]
           /\ Post(receipts[p].customer, receipts[p].amount)
           /\ UNCHANGED <<billedTo, counter, returned, goods, refunded, paidOut, taken, linked>>
  <2>1. End(c) /\ p \in Receipts /\ TypeOK
    BY TxnTypes DEF CommitVoid, LInv, IInv, VoidTxn
  <2> HIDE DEF p
  <2>2. /\ receipts[p].customer \in Customers \union {None} /\ receipts[p].amount \in Nat
        /\ \A b \in Bills : receipts[p].alloc[b] \in Nat
    BY <2>1 DEF TypeOK, Receipt
  <2>3. ReceiptsAreNew' /\ TradesAreHeld'
    <3>1. \A o \in Clients \ {c} : txn[o].pc = "receipt" => txn[o].receipt # p
      BY <1>2 DEF LInv, ReceiptsAreNew, NoReceipt
    <3>2. \A o \in Clients \ {c} : txn[o].pc = "receipt" =>
              receipts'[txn[o].receipt] = receipts[txn[o].receipt]
      BY <1>2, <2>1, <3>1, TxnTypes DEF ReceiptTxn, TypeOK
    <3> QED BY <1>2, <2>1, <3>2, EnteringEnds
  <2>4. /\ IsFiniteSet(Live')
        /\ \A b \in Bills :
               SumOver(Live', Collected'[b]) = SumOver(Live, Collected[b]) - receipts[p].alloc[b]
        /\ \A k \in Customers :
               SumOver(PaidIn(k)', Amount') =
                   SumOver(PaidIn(k), Amount)
                   - (IF receipts[p].customer = k THEN receipts[p].amount ELSE 0)
    BY <1>2, <2>1, ReceiptStops DEF LInv
  <2>5. /\ \A b \in Bills : Traded(b)' = Traded(b)
        /\ \A k \in Customers : Bought(k)' = Bought(k)
        /\ Charged' = Charged /\ Settled' = Settled
    BY <1>2 DEF Traded, Bought, Charged, Settled
  <2>6. ReceivedAddsUp'
    BY <1>2, <2>2, <2>4, <2>5, LedgerNumbers DEF ReceivedAddsUp, TypeOK
  <2>7. BalancesAddUp'
    <3>1. \A k \in Customers :
              balance'[k] = balance[k] + (IF receipts[p].customer = k THEN receipts[p].amount ELSE 0)
      BY <1>2, <2>1, <2>2, PostMoves
    <3>2. ASSUME NEW k \in Customers
          PROVE  balance'[k] = SumOver(Bought(k)', Charged') - SumOver(Bought(k)', Settled')
                               - SumOver(PaidIn(k)', Amount')
      <4>1. /\ balance[k] = SumOver(Bought(k), Charged) - SumOver(Bought(k), Settled)
                            - SumOver(PaidIn(k), Amount)
            /\ SumOver(Bought(k), Charged) \in Nat /\ SumOver(Bought(k), Settled) \in Nat
            /\ SumOver(PaidIn(k), Amount) \in Nat
        BY LedgerNumbers
      <4>2. Bought(k)' = Bought(k) /\ Charged' = Charged /\ Settled' = Settled
        BY <2>5
      <4> QED BY <2>2, <2>4, <3>1, <4>1, <4>2
    <3> QED BY <3>2 DEF BalancesAddUp
  <2>8. BillsStartEmpty'
    <3>1. TypeOK'
      BY CommitVoidStep DEF LInv, IInv
    <3>2. ASSUME NEW b \in Bills, billedTo[b] = None PROVE received'[b] = 0
      <4>1. received[b] = 0 /\ counter[b] = 0 /\ Traded(b) = {}
        BY <3>2 DEF LInv, Ledger, BillsStartEmpty
      <4>2. received'[b] = - receipts[p].alloc[b]
        BY <1>2, <2>2, <4>1
      <4>3. received'[b] = SumOver(Live, Collected[b]) - receipts[p].alloc[b]
        BY <2>2, <4>1, <4>2, LedgerNumbers, SumOfNothing
      <4>4. Naturals(Live', Collected'[b])
        BY <3>1 DEF TypeOK, Receipt, Live, Collected, Naturals
      <4>5. SumOver(Live', Collected'[b]) \in Nat
        BY <2>4, <4>4, SumType
      <4> QED BY <2>2, <2>4, <4>2, <4>3, <4>5
    <3> QED BY <1>2, <2>5, <3>2 DEF LInv, Ledger, BillsStartEmpty
  <2>9. Ledger'
    BY <2>4, <2>5, <2>6, <2>7, <2>8 DEF LInv, Ledger
  <2> QED BY <2>3, <2>9, CommitVoidStep DEF LInv
<1> QED BY <1>1, <1>2 DEF CommitVoid, StillLive

\* A return moves its bill by the goods and the cash, and the account by what is left of the two.
LEMMA CommitReturnLedger ==
    ASSUME LInv, NEW c \in Clients, CommitReturn(c)
    PROVE  LInv'
<1> DEFINE b == txn[c].bill
           n == txn[c].refundable
           cash == IF txn[c].method = "cash" THEN txn[c].payable ELSE 0
<1>1. /\ goods' = [goods EXCEPT ![b] = @ + n] /\ paidOut' = [paidOut EXCEPT ![b] = @ + cash]
      /\ Post(billedTo[b], cash - n) /\ End(c) /\ txn[c].pc = "return"
      /\ UNCHANGED <<billedTo, counter, received, linked, receipts>>
  BY DEF CommitReturn
<1>2. b \in Bills /\ n \in Nat /\ cash \in Nat /\ billedTo[b] # None /\ TypeOK
  BY <1>1, TxnTypes DEF LInv, IInv, ReturnsFit, ReturnTxn
<1> HIDE DEF b, n, cash
<1>3. /\ goods'[b] = goods[b] + n /\ \A d \in Bills \ {b} : goods'[d] = goods[d]
      /\ paidOut'[b] = paidOut[b] + cash /\ \A d \in Bills \ {b} : paidOut'[d] = paidOut[d]
      /\ goods[b] \in Nat /\ paidOut[b] \in Nat /\ counter[b] \in Nat /\ Total[b] \in Nat
  BY <1>1, <1>2, CreditAssumption DEF TypeOK
<1>4. ReceiptsAreNew' /\ TradesAreHeld'
  BY <1>1, EnteringEnds
<1>5. /\ Live' = Live /\ Collected' = Collected /\ Amount' = Amount
      /\ \A d \in Bills : Traded(d)' = Traded(d)
      /\ \A k \in Customers : Bought(k)' = Bought(k) /\ PaidIn(k)' = PaidIn(k)
  BY <1>1 DEF Live, Collected, Amount, Traded, Bought, PaidIn
<1>6. ReceivedAddsUp' /\ BillsStartEmpty'
  BY <1>1, <1>2, <1>3, <1>5 DEF LInv, Ledger, ReceivedAddsUp, BillsStartEmpty
<1>7. /\ Charged'[b] = Charged[b] + cash /\ \A d \in Bills \ {b} : Charged'[d] = Charged[d]
      /\ Settled'[b] = Settled[b] + n /\ \A d \in Bills \ {b} : Settled'[d] = Settled[d]
      /\ Charged[b] \in Nat /\ Settled[b] \in Nat
  <2>1. \A d \in Bills : SumOver(Traded(d)', Value) = SumOver(Traded(d), Value)
    BY <1>5
  <2>2. SumOver(Traded(b), Value) \in Nat
    BY <1>2, LedgerNumbers
  <2> QED BY <1>1, <1>2, <1>3, <2>1, <2>2 DEF Charged, Settled
<1>8. \A k \in Customers : balance'[k] = balance[k] + (IF billedTo[b] = k THEN cash - n ELSE 0)
  <2>1. cash - n \in Int /\ billedTo[b] \in Customers \union {WalkIn, None}
    BY <1>2 DEF TypeOK
  <2> QED BY <1>1, <1>2, <2>1, PostMoves
<1>9. ASSUME NEW k \in Customers
      PROVE  balance'[k] = SumOver(Bought(k)', Charged') - SumOver(Bought(k)', Settled')
                           - SumOver(PaidIn(k)', Amount')
  <2>1. /\ balance[k] = SumOver(Bought(k), Charged) - SumOver(Bought(k), Settled)
                        - SumOver(PaidIn(k), Amount)
        /\ SumOver(Bought(k), Charged) \in Nat /\ SumOver(Bought(k), Settled) \in Nat
        /\ SumOver(PaidIn(k), Amount) \in Nat
    BY LedgerNumbers
  <2>2. /\ IsFiniteSet(Bought(k)) /\ Naturals(Bought(k), Charged) /\ Naturals(Bought(k), Settled)
    BY Summable DEF LInv, IInv, Ledger
  <2>3. /\ Alike(Bought(k) \ {b}, Charged, Charged') /\ Alike(Bought(k) \ {b}, Settled, Settled')
        /\ (b \in Bought(k) <=> billedTo[b] = k)
    BY <1>2, <1>7 DEF Alike, Bought
  <2>4. CASE billedTo[b] = k
    <3>1. b \in Bought(k) /\ Charged'[b] \in Nat /\ Settled'[b] \in Nat
      BY <1>2, <1>7, <2>3, <2>4
    <3>2. SumOver(Bought(k), Charged') = SumOver(Bought(k), Charged) - Charged[b] + Charged'[b]
      BY <2>2, <2>3, <3>1, SumChanges
    <3>3. SumOver(Bought(k), Settled') = SumOver(Bought(k), Settled) - Settled[b] + Settled'[b]
      BY <2>2, <2>3, <3>1, SumChanges
    <3>4. Bought(k)' = Bought(k) /\ PaidIn(k)' = PaidIn(k) /\ Amount' = Amount
      BY <1>5
    <3> QED BY <1>2, <1>7, <1>8, <2>1, <2>4, <3>2, <3>3, <3>4
  <2>5. CASE billedTo[b] # k
    <3>1. Alike(Bought(k), Charged, Charged') /\ Alike(Bought(k), Settled, Settled')
      BY <2>3, <2>5 DEF Alike
    <3>2. /\ SumOver(Bought(k), Charged') = SumOver(Bought(k), Charged)
          /\ SumOver(Bought(k), Settled') = SumOver(Bought(k), Settled)
      BY <3>1, SumSame
    <3>3. Bought(k)' = Bought(k) /\ PaidIn(k)' = PaidIn(k) /\ Amount' = Amount
      BY <1>5
    <3> QED BY <1>8, <2>1, <2>5, <3>2, <3>3
  <2> QED BY <2>4, <2>5
<1>10. Ledger'
  BY <1>5, <1>6, <1>9 DEF LInv, Ledger, BalancesAddUp
<1> QED BY <1>4, <1>10, CommitReturnStep DEF LInv

\* The commit of a sale adds the bill, what the till took for it and the handset it was given:
\* to the bill that did not exist, from a handset that was on none.
LEMMA CommitSaleLedger ==
    ASSUME LInv, NEW c \in Clients, CommitSale(c)
    PROVE  LInv'
<1> PICK b \in Bills, buyer \in Customers \union {WalkIn}, paid \in Nat, t \in TradeIns \union {None} :
        b = txn[c].bill /\ buyer = txn[c].customer /\ paid = txn[c].paid /\ t = txn[c].trade
  BY TxnTypes DEF CommitSale, LInv, IInv, SaleTxn
<1> DEFINE worth == TradeInWorth(t)
<1>1. /\ billedTo' = [billedTo EXCEPT ![b] = buyer] /\ counter' = [counter EXCEPT ![b] = paid]
      /\ received' = [received EXCEPT ![b] = paid + worth]
      /\ linked' = [u \in TradeIns |-> IF u = t THEN b ELSE linked[u]]
      /\ Post(buyer, Total[b] - (paid + worth)) /\ End(c) /\ txn[c].pc = "sale"
      /\ UNCHANGED <<goods, paidOut, receipts>>
  BY DEF CommitSale
<1>2. /\ b \in Bills /\ buyer \in Customers \union {WalkIn} /\ paid \in Nat
      /\ t \in TradeIns \union {None} /\ TypeOK /\ Ledger
      /\ billedTo[b] = None /\ (t # None => linked[t] = None /\ tradeLock[t] = c)
  BY <1>1, TxnTypes DEF LInv, IInv, SalesAreNew, TradesAreHeld, SaleTxn
<1>3. worth \in Nat /\ worth = (IF t = None THEN 0 ELSE Value[t])
  BY <1>2, WorthIsNat DEF TradeInWorth
<1> HIDE DEF worth
<1>4. /\ counter[b] = 0 /\ received[b] = 0 /\ goods[b] = 0 /\ paidOut[b] = 0 /\ Traded(b) = {}
      /\ SumOver(Live, Collected[b]) = 0
  <2>1. counter[b] = 0 /\ received[b] = 0 /\ goods[b] = 0 /\ paidOut[b] = 0 /\ Traded(b) = {}
    BY <1>2 DEF Ledger, BillsStartEmpty
  <2>2. /\ received[b] = counter[b] + SumOver(Traded(b), Value) + SumOver(Live, Collected[b])
        /\ SumOver(Live, Collected[b]) \in Nat
    BY <1>2, LedgerNumbers
  <2>3. SumOver(Traded(b), Value) = 0
    BY <2>1, SumOfNothing
  <2> QED BY <2>1, <2>2, <2>3
<1>5. /\ billedTo'[b] = buyer /\ counter'[b] = paid /\ received'[b] = paid + worth
      /\ \A d \in Bills \ {b} :
             billedTo'[d] = billedTo[d] /\ counter'[d] = counter[d] /\ received'[d] = received[d]
  BY <1>1, <1>2 DEF TypeOK
<1>6. ReceiptsAreNew' /\ TradesAreHeld'
  <2>1. \A u \in TradeIns : tradeLock[u] # c => linked'[u] = linked[u]
    BY <1>1, <1>2, CreditAssumption
  <2> QED BY <1>1, <2>1, EnteringEnds
<1>7. Traded(b)' = {u \in TradeIns : u = t} /\ \A d \in Bills \ {b} : Traded(d)' = Traded(d)
  <2>1. ASSUME NEW u \in TradeIns PROVE u \in Traded(b)' <=> u = t
    <3>1. linked[u] # b
      BY <1>4 DEF Traded
    <3>2. linked'[u] = IF u = t THEN b ELSE linked[u]
      BY <1>1
    <3> QED BY <3>1, <3>2 DEF Traded
  <2>2. ASSUME NEW d \in Bills \ {b}, NEW u \in TradeIns PROVE u \in Traded(d)' <=> u \in Traded(d)
    BY <1>1, <1>2, CreditAssumption DEF Traded
  <2> QED BY <2>1, <2>2 DEF Traded
<1>8. IsFiniteSet(Traded(b)') /\ SumOver(Traded(b)', Value) = worth
  <2>1. CASE t = None
    <3>1. Traded(b)' = {}
      BY <1>7, <2>1, CreditAssumption
    <3> QED BY <1>3, <2>1, <3>1, SumOfNothing, FS_EmptySet
  <2>2. CASE t # None
    <3>1. Traded(b)' = {} \union {t} /\ Value[t] \in Nat
      BY <1>2, <1>7, <2>2, CreditAssumption
    <3>2. IsFiniteSet({}) /\ Naturals({}, Value)
      BY FS_EmptySet DEF Naturals
    <3>3. SumOver({} \union {t}, Value) = SumOver({}, Value) + Value[t]
      BY <3>1, <3>2, SumAdd
    <3>4. IsFiniteSet({} \union {t})
      BY <3>2, FS_AddElement
    <3> QED BY <1>3, <2>2, <3>1, <3>3, <3>4, SumOfNothing
  <2> QED BY <2>1, <2>2
<1>9. Live' = Live /\ Collected' = Collected /\ \A k \in Customers : PaidIn(k)' = PaidIn(k)
  BY <1>1 DEF Live, Collected, PaidIn
<1>10. Amount' = Amount
  BY <1>1 DEF Amount
<1>11. ReceivedAddsUp'
  <2>1. ASSUME NEW d \in Bills
        PROVE  received'[d] = counter'[d] + SumOver(Traded(d)', Value) + SumOver(Live', Collected'[d])
    <3>1. CASE d = b
      <4>1. received'[b] = counter'[b] + SumOver(Traded(b)', Value) + SumOver(Live', Collected'[b])
        BY <1>2, <1>3, <1>4, <1>5, <1>8, <1>9
      <4> QED BY <3>1, <4>1 DEF Traded
    <3>2. CASE d # b
      BY <1>5, <1>7, <1>9, <3>2, LedgerNumbers
    <3> QED BY <3>1, <3>2
  <2> QED BY <2>1 DEF ReceivedAddsUp
<1>12. BillsStartEmpty'
  <2>1. buyer # None
    BY <1>2, CreditAssumption
  <2>2. ASSUME NEW d \in Bills, billedTo'[d] = None
        PROVE  /\ counter'[d] = 0 /\ received'[d] = 0 /\ goods'[d] = 0 /\ paidOut'[d] = 0
               /\ Traded(d)' = {}
    BY <1>1, <1>2, <1>5, <1>7, <2>1, <2>2 DEF Ledger, BillsStartEmpty
  <2> QED BY <2>2 DEF BillsStartEmpty
<1>13. /\ Charged'[b] = Total[b] /\ Settled'[b] = paid + worth /\ Total[b] \in Nat
       /\ \A d \in Bills \ {b} : Charged'[d] = Charged[d] /\ Settled'[d] = Settled[d]
  <2>1. Total[b] \in Nat
    BY <1>2, CreditAssumption
  <2>2. Charged'[b] = Total[b] /\ \A d \in Bills \ {b} : Charged'[d] = Charged[d]
    BY <1>1, <1>2, <1>4, <2>1 DEF Charged
  <2>3. Settled' = [d \in Bills |-> counter'[d] + SumOver(Traded(d)', Value) + goods'[d]]
    BY DEF Settled
  <2>4. Settled'[b] = counter'[b] + SumOver(Traded(b)', Value) + goods'[b]
    BY <2>3
  <2>5. Settled'[b] = paid + worth
    BY <1>1, <1>2, <1>3, <1>4, <1>5, <1>8, <2>4
  <2>6. ASSUME NEW d \in Bills \ {b} PROVE Settled'[d] = Settled[d]
    <3>1. Traded(d)' = Traded(d) /\ counter'[d] = counter[d] /\ goods'[d] = goods[d]
      BY <1>1, <1>5, <1>7
    <3> QED BY <3>1 DEF Settled
  <2> QED BY <2>1, <2>2, <2>5, <2>6
<1>14. \A k \in Customers :
           balance'[k] = balance[k] + (IF buyer = k THEN Total[b] - (paid + worth) ELSE 0)
  <2>1. Total[b] - (paid + worth) \in Int
    BY <1>2, <1>3, <1>13
  <2>2. Post(buyer, Total[b] - (paid + worth)) /\ buyer \in Customers \union {WalkIn, None} /\ TypeOK
    BY <1>1, <1>2
  <2> HIDE DEF worth
  <2> QED BY <2>1, <2>2, PostMoves
<1>15. ASSUME NEW k \in Customers
       PROVE  balance'[k] = SumOver(Bought(k)', Charged') - SumOver(Bought(k)', Settled')
                            - SumOver(PaidIn(k)', Amount')
  <2>1. /\ balance[k] = SumOver(Bought(k), Charged) - SumOver(Bought(k), Settled)
                        - SumOver(PaidIn(k), Amount)
        /\ SumOver(Bought(k), Charged) \in Nat /\ SumOver(Bought(k), Settled) \in Nat
        /\ SumOver(PaidIn(k), Amount) \in Nat
    BY LedgerNumbers
  <2>2. /\ IsFiniteSet(Bought(k)) /\ Naturals(Bought(k), Charged) /\ Naturals(Bought(k), Settled)
    BY <1>2, Summable DEF Ledger
  <2>3. b \notin Bought(k) /\ Alike(Bought(k), Charged, Charged') /\ Alike(Bought(k), Settled, Settled')
    BY <1>2, <1>13, CreditAssumption DEF Bought, Alike
  <2>4. Charged'[b] \in Nat /\ Settled'[b] \in Nat
    BY <1>2, <1>3, <1>13
  <2>5. PaidIn(k)' = PaidIn(k) /\ Amount' = Amount
    BY <1>9, <1>10
  <2>6. CASE buyer = k
    <3>1. Bought(k)' = Bought(k) \union {b}
      BY <1>2, <1>5, <2>6 DEF Bought
    <3>2. SumOver(Bought(k) \union {b}, Charged') = SumOver(Bought(k), Charged) + Charged'[b]
      BY <2>2, <2>3, <2>4, SumGrows
    <3>3. SumOver(Bought(k) \union {b}, Settled') = SumOver(Bought(k), Settled) + Settled'[b]
      BY <2>2, <2>3, <2>4, SumGrows
    <3> QED BY <1>2, <1>3, <1>13, <1>14, <2>1, <2>5, <2>6, <3>1, <3>2, <3>3
  <2>7. CASE buyer # k
    <3>1. Bought(k)' = Bought(k)
      BY <1>2, <1>5, <2>7, CreditAssumption DEF Bought
    <3>2. /\ SumOver(Bought(k), Charged') = SumOver(Bought(k), Charged)
          /\ SumOver(Bought(k), Settled') = SumOver(Bought(k), Settled)
      BY <2>3, SumSame
    <3> QED BY <1>14, <2>1, <2>5, <2>7, <3>1, <3>2
  <2> QED BY <2>6, <2>7
<1>16. Ledger'
  BY <1>2, <1>7, <1>8, <1>9, <1>11, <1>12, <1>15 DEF Ledger, BalancesAddUp
<1> QED BY <1>6, <1>16, CommitSaleStep DEF LInv

LEMMA LedgerInit == Init => LInv
<1> SUFFICES ASSUME Init PROVE LInv
  OBVIOUS
<1>1. Live = {} /\ (\A b \in Bills : Traded(b) = {}) /\ IsFiniteSet({})
  BY FS_EmptySet, CreditAssumption DEF Init, Live, Traded, NoReceipt
<1>2. \A k \in Customers : PaidIn(k) = {} /\ Bought(k) = {}
  BY <1>1, CreditAssumption DEF Init, PaidIn, Bought
<1>3. ReceiptsAreNew /\ TradesAreHeld /\ BillsStartEmpty
  BY <1>1 DEF Init, ReceiptsAreNew, TradesAreHeld, BillsStartEmpty, Idle
<1>4. ReceivedAddsUp
  <2>1. \A b \in Bills : SumOver(Traded(b), Value) = 0 /\ SumOver(Live, Collected[b]) = 0
    BY <1>1, SumOfNothing
  <2> QED BY <2>1 DEF Init, ReceivedAddsUp
<1>5. BalancesAddUp
  <2>1. ASSUME NEW k \in Customers
        PROVE  /\ SumOver(Bought(k), Charged) = 0 /\ SumOver(Bought(k), Settled) = 0
               /\ SumOver(PaidIn(k), Amount) = 0 /\ balance[k] = 0
    BY <1>2, SumOfNothing DEF Init
  <2> QED BY <2>1 DEF BalancesAddUp
<1> QED BY <1>1, <1>3, <1>4, <1>5, InitIInv DEF LInv, Ledger

LEMMA LedgerNext == LInv /\ [Next]_vars => LInv'
<1> SUFFICES ASSUME LInv, [Next]_vars PROVE LInv'
  OBVIOUS
<1>1. ASSUME NEW c \in Clients, Begin(c) PROVE LInv'
  BY <1>1, BeginSaleLedger, BeginReceiptLedger, BeginVoidLedger, BeginReturnLedger DEF Begin
<1>2. ASSUME NEW c \in Clients, Allocate(c) PROVE LInv'
  BY <1>2, AllocateLedger DEF Allocate
<1>3. ASSUME NEW c \in Clients, Commit(c) PROVE LInv'
  BY <1>3, CommitSaleLedger, CommitReceiptLedger, CommitVoidLedger, CommitReturnLedger DEF Commit
<1>4. ASSUME NEW c \in Clients, DeadlockVictim(c) \/ Abort(c) PROVE LInv'
  BY <1>4, EndLedger DEF DeadlockVictim, RolledBack, Abort
<1>5. CASE UNCHANGED vars
  <2>1. UNCHANGED <<rows, txn, tradeLock>> /\ UNCHANGED rows
    BY <1>5 DEF vars
  <2>2. ReceiptsAreNew' /\ TradesAreHeld'
    BY <2>1 DEF LInv, ReceiptsAreNew, TradesAreHeld, NoReceipt, rows
  <2> QED BY <1>5, <2>1, <2>2, IInvStep, RowsStay DEF LInv
<1> QED BY <1>1, <1>2, <1>3, <1>4, <1>5 DEF Next

\* Whatever is sold, collected, voided or returned meanwhile: what a bill has received is the
\* counter payment, the handset given for it and the live receipts, and the account is the bills
\* and the cash refunds less what settled them (createSale, recordCustomerPayment,
\* voidCustomerPayment and createReturn post together or not at all).
THEOREM AccountsAddUp == Spec => []RowsAddUp
<1>1. LInv => RowsAddUp
  BY DEF LInv, Ledger, ReceivedAddsUp, BalancesAddUp, RowsAddUp, Live, Collected, Amount, PaidIn,
         Bought, Traded, Charged, Settled
<1> QED BY <1>1, LedgerInit, LedgerNext, PTL DEF Spec

\* At every moment autoAllocate settles the customer's open bills from the oldest on, within the
\* amount and with all of it: unless somebody else collects meanwhile, no allocation of the list
\* is refused, and what is left over belongs to a customer who owes nothing more.
THEOREM OldestAreSettledFirst ==
    Spec => [](\A k \in Customers, amount \in Nat :
                   SettlesOldestFirst(k, amount, AutoAllocate(k, amount)))
<1>1. TypeOK => \A k \in Customers, amount \in Nat :
                    SettlesOldestFirst(k, amount, AutoAllocate(k, amount))
  <2> SUFFICES ASSUME TypeOK, NEW k \in Customers, NEW amount \in Nat
               PROVE  SettlesOldestFirst(k, amount, AutoAllocate(k, amount))
    OBVIOUS
  <2>1. PICK plan : plan = AutoAllocate(k, amount)
    OBVIOUS
  <2>2. plan \in [Bills -> 0 .. amount]
    BY <2>1, WhoGetsWhat
  <2>3. ASSUME NEW b \in Bills, plan[b] > 0 PROVE b \in Open(k) /\ plan[b] <= Owing(b)
    <3>1. b \in Open(k)
      BY <2>1, <2>3, WhoGetsWhat
    <3>2. plan[b] <= Due[b] /\ Due[b] = Owing(b)
      BY <2>1, <3>1, WhoGetsWhat, DueTypes
    <3> QED BY <3>1, <3>2
  <2>4. ASSUME NEW b \in Open(k), NEW a \in Open(k), b < a, plan[a] > 0 PROVE plan[b] = Owing(b)
    <3>1. Before(k, b) + Due[b] <= Before(k, a)
      BY <2>4, OlderComesBefore
    <3>2. Before(k, a) + plan[a] <= amount
      BY <2>1, <2>4, WhoGetsWhat
    <3>3. /\ Before(k, b) \in Nat /\ Before(k, a) \in Nat /\ Due[b] \in Nat /\ plan[a] \in Nat
          /\ Due[b] = Owing(b)
      BY <2>2, DueTypes DEF Naturals
    <3>4. Before(k, b) + Due[b] <= amount
      BY <2>4, <3>1, <3>2, <3>3
    <3> QED BY <2>1, <3>3, <3>4, WhoGetsWhat
  <2>5. SumOver(Bills, plan) <= amount
    BY <2>1, WithinTheAmount
  <2>6. SumOver(Bills, plan) < amount => \A b \in Open(k) : plan[b] = Owing(b)
    BY <2>1, NothingIsKept, DueTypes
  <2>7. SettlesOldestFirst(k, amount, plan)
    BY <2>2, <2>3, <2>4, <2>5, <2>6 DEF SettlesOldestFirst
  <2> QED BY <2>1, <2>7
<1> QED BY <1>1, CreditTypes, PTL
=============================================================================
