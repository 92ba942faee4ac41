---------------------------- MODULE LedgerProofs -----------------------------
(* Theorems about Ledger and the arithmetic of Money, for every value of the *)
(* constants and for every amount.                                            *)
EXTENDS Ledger, Folds, FiniteSetTheorems, TLAPS
-----------------------------------------------------------------------------
(* What the arithmetic of Money returns. *)

\* An integer quotient is bounded by every bound of the exact one.
LEMMA QuotientBound ==
    ASSUME NEW x \in Nat, NEW y \in Nat \ {0}, NEW m \in Nat, x < y * (m + 1)
    PROVE  x \div y \in 0..m
  <1> DEFINE q == x \div y
  <1>1. q \in Nat /\ y * q <= x
    OBVIOUS
  <1>2. ASSUME q >= m + 1 PROVE FALSE
    <2>1. y * q >= y * (m + 1)
      BY <1>1, <1>2
    <2>2. QED
      BY <1>1, <2>1
  <1>3. QED
    BY <1>1, <1>2

LEMMA RoundedQuotientBound ==
    ASSUME NEW n \in Nat, NEW d \in Nat \ {0}, NEW m \in Nat, n <= d * m
    PROVE  RoundedQuotient(n, d) \in 0..m
  <1>1. d * m \in Nat /\ (2 * d) * (m + 1) = 2 * (d * m) + 2 * d
    OBVIOUS
  <1>2. 2 * n + d < (2 * d) * (m + 1)
    BY <1>1
  <1>3. 2 * n + d \in Nat /\ 2 * d \in Nat \ {0}
    OBVIOUS
  <1>4. QED
    BY <1>2, <1>3, QuotientBound DEF RoundedQuotient

\* Rounding returns the nearest integer, a half upwards.
LEMMA RoundedQuotientIsNearest ==
    ASSUME NEW n \in Nat, NEW d \in Nat \ {0}
    PROVE  LET q == RoundedQuotient(n, d) IN
           q \in Nat /\ 2 * (d * q) <= 2 * n + d /\ 2 * n < 2 * (d * q) + d
  <1> DEFINE x == 2 * n + d
             y == 2 * d
             q == x \div y
  <1>1. x \in Nat /\ y \in Nat \ {0}
    OBVIOUS
  <1> HIDE DEF x, y
  <1>2. q \in Nat /\ y * q <= x /\ x < y * q + y
    BY <1>1
  <1> HIDE DEF q
  <1>3. y * q = 2 * (d * q) /\ d * q \in Nat
    BY <1>2 DEF y
  <1>4. q \in Nat /\ 2 * (d * q) <= 2 * n + d /\ 2 * n < 2 * (d * q) + d
    BY <1>2, <1>3 DEF x, y
  <1>5. QED
    BY <1>4 DEF q, x, y, RoundedQuotient

\* The parts of a mixed payment are non-negative and add up to what is paid:
\* the smaller of the total and the debt (registerMixedPayment).
THEOREM MixedPartsAddUp ==
    ASSUME NEW cash \in Nat \ {0}, NEW transfer \in Nat \ {0}, NEW balance \in Nat
    PROVE  /\ CashPart(cash, transfer, balance) \in 0..balance
           /\ TransferPart(cash, transfer, balance) \in 0..balance
           /\ CashPart(cash, transfer, balance) + TransferPart(cash, transfer, balance)
                = Lesser(cash + transfer, balance)
  <1> DEFINE total == cash + transfer
  <1>1. CASE total <= balance
    BY <1>1 DEF CashPart, TransferPart, Lesser
  <1>2. CASE total > balance
    <2>1. cash * balance <= total * balance /\ cash * balance \in Nat
      OBVIOUS
    <2>2. RoundedQuotient(cash * balance, total) \in 0..balance
      <3> DEFINE part == cash * balance
      <3>1. part \in Nat /\ total \in Nat \ {0} /\ part <= total * balance
        BY <2>1
      <3> HIDE DEF part, total
      <3>2. RoundedQuotient(part, total) \in 0..balance
        BY <3>1, RoundedQuotientBound
      <3>3. QED
        BY <3>2 DEF part
    <2>3. QED
      BY <1>2, <2>2 DEF CashPart, TransferPart, Lesser
  <1>3. QED
    BY <1>1, <1>2

\* When the debt is smaller than the payment, each method pays its share of the
\* debt to within half a cent, and what one pays too much the other pays less.
THEOREM MixedPartsAreProportional ==
    ASSUME NEW cash \in Nat \ {0}, NEW transfer \in Nat \ {0}, NEW balance \in Nat,
           cash + transfer > balance
    PROVE  LET total == cash + transfer
               offCash == total * CashPart(cash, transfer, balance) - cash * balance
               offTransfer == total * TransferPart(cash, transfer, balance) - transfer * balance IN
           /\ 2 * offCash <= total /\ 0 - total <= 2 * offCash
           /\ offTransfer = 0 - offCash
  <1> DEFINE total == cash + transfer
             part == CashPart(cash, transfer, balance)
             share == cash * balance
  <1>1. total \in Nat \ {0} /\ share \in Nat /\ part = RoundedQuotient(share, total)
    BY DEF CashPart
  <1>2. TransferPart(cash, transfer, balance) = balance - part
    BY DEF TransferPart, Lesser
  <1>3. part \in Nat /\ 2 * (total * part) <= 2 * share + total /\ 2 * share < 2 * (total * part) + total
    <2> HIDE DEF share, total, part
    <2>1. QED
      BY <1>1, RoundedQuotientIsNearest
  <1> HIDE DEF part
  <1>4. total * part \in Nat
    BY <1>1, <1>3
  <1>5. total * (balance - part) - transfer * balance = 0 - (total * part - share)
    BY <1>3
  <1>6. 2 * (total * part - share) <= total /\ 0 - total <= 2 * (total * part - share)
    <2> DEFINE x == total * part
    <2>1. x \in Nat /\ 2 * x <= 2 * share + total /\ 2 * share < 2 * x + total
      BY <1>3, <1>4
    <2> HIDE DEF x, share, total
    <2>2. 2 * (x - share) <= total /\ 0 - total <= 2 * (x - share)
      BY <1>1, <2>1
    <2>3. QED
      BY <2>2 DEF x
  <1>7. QED
    BY <1>2, <1>5, <1>6 DEF part, share, total

\* The surcharge of a batch is pct percent of the balance to within half a cent.
THEOREM SurchargeIsNearest ==
    ASSUME NEW balance \in Nat, NEW pct \in Nat
    PROVE  LET off == 100 * Surcharge(balance, pct) - balance * pct IN
           Surcharge(balance, pct) \in Nat /\ -50 < off /\ off <= 50
  <1> DEFINE n == balance * pct
             q == Surcharge(balance, pct)
  <1>1. n \in Nat
    OBVIOUS
  <1>2. q = RoundedQuotient(n, 100)
    BY DEF Surcharge
  <1> HIDE DEF n, q
  <1>3. q \in Nat /\ 2 * (100 * q) <= 2 * n + 100 /\ 2 * n < 2 * (100 * q) + 100
    BY <1>1, <1>2, RoundedQuotientIsNearest
  <1>4. q \in Nat /\ -50 < 100 * q - n /\ 100 * q - n <= 50
    BY <1>1, <1>3
  <1>5. QED
    BY <1>4 DEF n, q

LEMMA SurchargeType ==
    ASSUME NEW balance \in Nat, NEW pct \in Nat
    PROVE  Surcharge(balance, pct) \in Nat
  BY SurchargeIsNearest
-----------------------------------------------------------------------------
(* Sums over finite sets.  SumFunctionOnSet folds a set by a recursive      *)
(* function; these lemmas say what it computes, by way of a smallest        *)
(* counterexample, since any family of finite sets has a minimal member.    *)

\* The element the fold of a set takes first.
FirstOf(s) == CHOOSE x \in s : TRUE
RestOf(s) == s \ {FirstOf(s)}

\* g is the table of the sums of f over the subsets of S.
IsSumTable(g, f, S) ==
    g = [s \in SUBSET S |-> IF s = {} THEN 0 ELSE f[FirstOf(s)] + g[RestOf(s)]]

\* A family of subsets of a finite set has a minimal member.
LEMMA MinimalSubset ==
    ASSUME NEW S, IsFiniteSet(S), NEW F, F \subseteq SUBSET S, F # {}
    PROVE  \E T \in F : \A U \in F : U \subseteq T => U = T
  <1>1. IsWellFoundedOn(StrictSubsetOrdering(S), SUBSET S)
    BY FS_StrictSubsetOrderingWellFounded, FS_FiniteSubsetsOfFinite
  <1>2. PICK T \in F : \A U \in F : <<U, T>> \notin StrictSubsetOrdering(S)
    BY <1>1, WFMin
  <1>3. ASSUME NEW U \in F, U \subseteq T PROVE U = T
    BY <1>2, <1>3 DEF StrictSubsetOrdering
  <1>4. QED
    BY <1>3

LEMMA FirstOfIsIn == ASSUME NEW s, s # {} PROVE FirstOf(s) \in s /\ RestOf(s) \subseteq s /\ RestOf(s) # s
  BY DEF FirstOf, RestOf

LEMMA SumUnfold ==
    ASSUME NEW f, NEW S
    PROVE  SumFunctionOnSet(f, S) = (CHOOSE g : IsSumTable(g, f, S))[S]
  BY DEF SumFunctionOnSet, FoldFunctionOnSet, MapThenFoldSet, IsSumTable, FirstOf, RestOf

LEMMA SumTableAt ==
    ASSUME NEW f, NEW S, NEW g, IsSumTable(g, f, S), NEW s \in SUBSET S
    PROVE  g[s] = IF s = {} THEN 0 ELSE f[FirstOf(s)] + g[RestOf(s)]
  BY DEF IsSumTable

LEMMA SumTableIsUnique ==
    ASSUME NEW f, NEW S, NEW T, IsFiniteSet(S), T \subseteq S, NEW g, NEW h,
           IsSumTable(g, f, S), IsSumTable(h, f, T)
    PROVE  \A s \in SUBSET T : g[s] = h[s]
  <1> DEFINE F == {s \in SUBSET T : g[s] # h[s]}
  <1> SUFFICES ASSUME F # {} PROVE FALSE
    OBVIOUS
  <1>1. PICK s \in F : \A u \in F : u \subseteq s => u = s
    <2>1. F \subseteq SUBSET T /\ IsFiniteSet(T)
      BY FS_Subset
    <2> HIDE DEF F
    <2>2. QED
      BY <2>1, MinimalSubset
  <1>2. s \in SUBSET T /\ s \in SUBSET S
    OBVIOUS
  <1>3. CASE s = {}
    BY <1>1, <1>2, <1>3, SumTableAt
  <1>4. CASE s # {}
    <2>1. RestOf(s) \in SUBSET T /\ RestOf(s) \notin F
      BY <1>1, <1>4, FirstOfIsIn
    <2>2. g[RestOf(s)] = h[RestOf(s)]
      BY <2>1
    <2>3. g[s] = f[FirstOf(s)] + g[RestOf(s)]
      BY <1>2, <1>4, SumTableAt
    <2>4. h[s] = f[FirstOf(s)] + h[RestOf(s)]
      BY <1>2, <1>4, SumTableAt
    <2>5. QED
      BY <2>2, <2>3, <2>4
  <1>5. QED
    BY <1>3, <1>4

LEMMA SumTableExists ==
    ASSUME NEW f, NEW S, IsFiniteSet(S)
    PROVE  \E g : IsSumTable(g, f, S)
  <1> DEFINE F == {T \in SUBSET S : ~ \E g : IsSumTable(g, f, T)}
  <1> SUFFICES ASSUME F # {} PROVE FALSE
    OBVIOUS
  <1>1. PICK T \in F : \A U \in F : U \subseteq T => U = T
    <2>1. F \subseteq SUBSET S
      OBVIOUS
    <2> HIDE DEF F
    <2>2. QED
      BY <2>1, MinimalSubset
  <1> DEFINE G(U) == CHOOSE g : IsSumTable(g, f, U)
             table == [s \in SUBSET T |->
                        IF s = {} THEN 0 ELSE f[FirstOf(s)] + G(RestOf(s))[RestOf(s)]]
  <1>2. ASSUME NEW U \in SUBSET T, U # T PROVE IsSumTable(G(U), f, U)
    <2>1. \E g : IsSumTable(g, f, U)
      BY <1>1, <1>2
    <2>2. QED
      BY <2>1
  <1>3. ASSUME NEW u \in SUBSET T, u # T PROVE table[u] = G(u)[u]
    <2>1. IsSumTable(G(u), f, u)
      BY <1>2, <1>3
    <2> HIDE DEF G
    <2>2. G(u)[u] = IF u = {} THEN 0 ELSE f[FirstOf(u)] + G(u)[RestOf(u)]
      BY <2>1, SumTableAt
    <2>3. CASE u = {}
      BY <2>2, <2>3
    <2>4. CASE u # {}
      <3>1. RestOf(u) \in SUBSET u /\ RestOf(u) \in SUBSET T /\ RestOf(u) # T
        BY <1>3, <2>4, FirstOfIsIn
      <3>2. IsSumTable(G(RestOf(u)), f, RestOf(u))
        BY <1>2, <3>1
      <3>3. IsFiniteSet(u)
        BY FS_Subset
      <3>4. G(u)[RestOf(u)] = G(RestOf(u))[RestOf(u)]
        BY <2>1, <3>1, <3>2, <3>3, SumTableIsUnique
      <3>5. QED
        BY <2>2, <2>4, <3>4
    <2>5. QED
      BY <2>3, <2>4
  <1>4. \A s \in SUBSET T : s # {} => table[RestOf(s)] = G(RestOf(s))[RestOf(s)]
    <2> TAKE s \in SUBSET T
    <2> HAVE s # {}
    <2>1. RestOf(s) \in SUBSET T /\ RestOf(s) # T
      BY FirstOfIsIn
    <2>2. QED
      BY <1>3, <2>1
  <1>5. IsSumTable(table, f, T)
    <2> HIDE DEF G
    <2>1. \A s \in SUBSET T :
            table[s] = IF s = {} THEN 0 ELSE f[FirstOf(s)] + table[RestOf(s)]
      BY <1>4
    <2>2. QED
      BY <2>1 DEF IsSumTable
  <1>6. QED
    BY <1>1, <1>5

\* What SumFunctionOnSet computes, one element at a time.
LEMMA SumFirst ==
    ASSUME NEW f, NEW S, IsFiniteSet(S)
    PROVE  SumFunctionOnSet(f, S) =
                IF S = {} THEN 0 ELSE f[FirstOf(S)] + SumFunctionOnSet(f, RestOf(S))
  <1> DEFINE G(T) == CHOOSE g : IsSumTable(g, f, T)
  <1>1. \A T : IsFiniteSet(T) => IsSumTable(G(T), f, T)
    BY SumTableExists
  <1>2. \A T : SumFunctionOnSet(f, T) = G(T)[T]
    BY SumUnfold
  <1> HIDE DEF G
  <1>3. IsSumTable(G(S), f, S)
    BY <1>1
  <1>4. G(S)[S] = IF S = {} THEN 0 ELSE f[FirstOf(S)] + G(S)[RestOf(S)]
    BY <1>3, SumTableAt
  <1>5. CASE S = {}
    BY <1>2, <1>4, <1>5
  <1>6. CASE S # {}
    <2>1. RestOf(S) \subseteq S /\ IsFiniteSet(RestOf(S))
      BY <1>6, FirstOfIsIn, FS_Subset
    <2>2. IsSumTable(G(RestOf(S)), f, RestOf(S))
      BY <1>1, <2>1
    <2>3. G(S)[RestOf(S)] = G(RestOf(S))[RestOf(S)]
      BY <1>3, <2>1, <2>2, SumTableIsUnique
    <2>4. QED
      BY <1>2, <1>4, <1>6, <2>3
  <1>7. QED
    BY <1>5, <1>6

LEMMA SumOfNothing == ASSUME NEW f PROVE SumFunctionOnSet(f, {}) = 0
  BY SumFirst, FS_EmptySet

LEMMA SumType ==
    ASSUME NEW f, NEW S, IsFiniteSet(S), \A x \in S : f[x] \in Int
    PROVE  SumFunctionOnSet(f, S) \in Int
  <1> DEFINE F == {T \in SUBSET S : SumFunctionOnSet(f, T) \notin Int}
  <1> SUFFICES ASSUME F # {} PROVE FALSE
    OBVIOUS
  <1>1. PICK T \in F : \A U \in F : U \subseteq T => U = T
    <2>1. F \subseteq SUBSET S
      OBVIOUS
    <2> HIDE DEF F
    <2>2. QED
      BY <2>1, MinimalSubset
  <1>2. T # {} /\ IsFiniteSet(T)
    <2>1. SumFunctionOnSet(f, T) \notin Int /\ T \subseteq S
      OBVIOUS
    <2>2. T # {}
      BY <2>1, SumOfNothing
    <2>3. QED
      BY <2>1, <2>2, FS_Subset
  <1>3. FirstOf(T) \in T /\ RestOf(T) \subseteq T /\ RestOf(T) # T
    BY <1>2, FirstOfIsIn
  <1>4. SumFunctionOnSet(f, RestOf(T)) \in Int
    BY <1>1, <1>3
  <1>5. f[FirstOf(T)] \in Int
    BY <1>3
  <1>6. QED
    BY <1>2, <1>4, <1>5, SumFirst

\* A sum may be taken in any order.
LEMMA SumTakes ==
    ASSUME NEW f, NEW S, IsFiniteSet(S), \A x \in S : f[x] \in Int, NEW y \in S
    PROVE  SumFunctionOnSet(f, S) = f[y] + SumFunctionOnSet(f, S \ {y})
  <1> DEFINE F == {T \in SUBSET S : \E x \in T :
                    SumFunctionOnSet(f, T) # f[x] + SumFunctionOnSet(f, T \ {x})}
  <1> SUFFICES ASSUME F # {} PROVE FALSE
    OBVIOUS
  <1>1. PICK T \in F : \A U \in F : U \subseteq T => U = T
    <2>1. F \subseteq SUBSET S
      OBVIOUS
    <2> HIDE DEF F
    <2>2. QED
      BY <2>1, MinimalSubset
  <1>2. PICK x \in T : SumFunctionOnSet(f, T) # f[x] + SumFunctionOnSet(f, T \ {x})
    OBVIOUS
  <1> DEFINE z == FirstOf(T)
  <1>3. T \in SUBSET S /\ T # {} /\ IsFiniteSet(T)
    BY <1>2, FS_Subset
  <1>4. z \in T /\ RestOf(T) = T \ {z} /\ SumFunctionOnSet(f, T) = f[z] + SumFunctionOnSet(f, T \ {z})
    BY <1>3, FirstOfIsIn, SumFirst DEF RestOf
  <1>5. x # z
    BY <1>2, <1>4
  <1> HIDE DEF z
  <1>6. T \ {z} \notin F /\ T \ {x} \notin F
    BY <1>1, <1>2, <1>4
  <1>7. SumFunctionOnSet(f, T \ {z}) = f[x] + SumFunctionOnSet(f, (T \ {z}) \ {x})
    BY <1>2, <1>3, <1>5, <1>6
  <1>8. SumFunctionOnSet(f, T \ {x}) = f[z] + SumFunctionOnSet(f, (T \ {x}) \ {z})
    BY <1>3, <1>4, <1>5, <1>6
  <1>9. (T \ {z}) \ {x} = (T \ {x}) \ {z}
    OBVIOUS
  <1>10. SumFunctionOnSet(f, (T \ {z}) \ {x}) \in Int
    <2>1. IsFiniteSet((T \ {z}) \ {x}) /\ \A w \in (T \ {z}) \ {x} : f[w] \in Int
      BY <1>3, FS_Subset
    <2>2. QED
      BY <2>1, SumType
  <1>11. f[x] \in Int /\ f[z] \in Int
    BY <1>3, <1>4
  <1>12. SumFunctionOnSet(f, T) = f[x] + SumFunctionOnSet(f, T \ {x})
    <2> HIDE DEF F
    <2>1. SumFunctionOnSet(f, T) = f[z] + (f[x] + SumFunctionOnSet(f, (T \ {z}) \ {x}))
      BY <1>4, <1>7
    <2>2. SumFunctionOnSet(f, T \ {x}) = f[z] + SumFunctionOnSet(f, (T \ {z}) \ {x})
      BY <1>8, <1>9
    <2>3. QED
      BY <1>10, <1>11, <2>1, <2>2
  <1>13. QED
    BY <1>2, <1>12

\* A sum is that of the values on its set, whatever else the function has.
LEMMA SumOfEqual ==
    ASSUME NEW f, NEW g, NEW S, IsFiniteSet(S), \A x \in S : f[x] = g[x]
    PROVE  SumFunctionOnSet(f, S) = SumFunctionOnSet(g, S)
  <1> DEFINE F == {T \in SUBSET S : SumFunctionOnSet(f, T) # SumFunctionOnSet(g, T)}
  <1> SUFFICES ASSUME F # {} PROVE FALSE
    OBVIOUS
  <1>1. PICK T \in F : \A U \in F : U \subseteq T => U = T
    <2>1. F \subseteq SUBSET S
      OBVIOUS
    <2> HIDE DEF F
    <2>2. QED
      BY <2>1, MinimalSubset
  <1>2. T # {} /\ IsFiniteSet(T) /\ T \subseteq S
    BY SumOfNothing, FS_Subset
  <1>3. FirstOf(T) \in T /\ RestOf(T) \subseteq T /\ RestOf(T) # T
    BY <1>2, FirstOfIsIn
  <1>4. SumFunctionOnSet(f, RestOf(T)) = SumFunctionOnSet(g, RestOf(T))
    BY <1>1, <1>3
  <1>5. f[FirstOf(T)] = g[FirstOf(T)]
    BY <1>2, <1>3
  <1>6. QED
    BY <1>1, <1>2, <1>4, <1>5, SumFirst

\* Sums of two disjoint sets add up.
LEMMA SumOfUnion ==
    ASSUME NEW f, NEW S, NEW T, IsFiniteSet(S), IsFiniteSet(T), S \cap T = {},
           \A x \in S \cup T : f[x] \in Int
    PROVE  SumFunctionOnSet(f, S \cup T) = SumFunctionOnSet(f, S) + SumFunctionOnSet(f, T)
  <1> DEFINE F == {U \in SUBSET T :
                    SumFunctionOnSet(f, S \cup U) # SumFunctionOnSet(f, S) + SumFunctionOnSet(f, U)}
  <1> SUFFICES ASSUME F # {} PROVE FALSE
    OBVIOUS
  <1>1. PICK U \in F : \A V \in F : V \subseteq U => V = U
    <2>1. F \subseteq SUBSET T
      OBVIOUS
    <2> HIDE DEF F
    <2>2. QED
      BY <2>1, MinimalSubset
  <1>2. U \in SUBSET T /\ SumFunctionOnSet(f, S) \in Int
    BY SumType
  <1>3. U # {}
    <2>1. SumFunctionOnSet(f, S \cup U) # SumFunctionOnSet(f, S) + SumFunctionOnSet(f, U)
      OBVIOUS
    <2> HIDE DEF F
    <2>2. S \cup {} = S /\ SumFunctionOnSet(f, {}) = 0
      BY SumOfNothing
    <2>3. ASSUME U = {} PROVE FALSE
      <3>1. S \cup U = S /\ SumFunctionOnSet(f, U) = 0
        BY <2>3, SumOfNothing
      <3>2. SumFunctionOnSet(f, S) # SumFunctionOnSet(f, S) + 0
        BY <2>1, <3>1, Zenon
      <3>3. QED
        BY <1>2, <3>2
    <2>4. QED
      BY <2>3
  <1>4. PICK x \in U : TRUE
    BY <1>3
  <1>5. SumFunctionOnSet(f, S \cup (U \ {x})) = SumFunctionOnSet(f, S) + SumFunctionOnSet(f, U \ {x})
    <2>1. U \ {x} \notin F
      BY <1>1, <1>4
    <2>2. U \ {x} \in SUBSET T
      BY <1>2
    <2>3. QED
      BY <2>1, <2>2
  <1>6. IsFiniteSet(U) /\ IsFiniteSet(U \ {x}) /\ IsFiniteSet(S \cup U)
    BY <1>2, FS_Subset, FS_Union
  <1>7. SumFunctionOnSet(f, U) = f[x] + SumFunctionOnSet(f, U \ {x})
    BY <1>2, <1>4, <1>6, SumTakes
  <1>8. SumFunctionOnSet(f, S \cup U) = f[x] + SumFunctionOnSet(f, S \cup (U \ {x}))
    <2>1. (S \cup U) \ {x} = S \cup (U \ {x}) /\ x \in S \cup U
      BY <1>2, <1>4
    <2>2. \A y \in S \cup U : f[y] \in Int
      BY <1>2
    <2>3. SumFunctionOnSet(f, S \cup U) = f[x] + SumFunctionOnSet(f, (S \cup U) \ {x})
      BY <1>6, <2>1, <2>2, SumTakes
    <2>4. QED
      BY <2>1, <2>3
  <1>9. SumFunctionOnSet(f, U \ {x}) \in Int /\ f[x] \in Int
    BY <1>2, <1>4, <1>6, SumType
  <1>10. QED
    BY <1>1, <1>2, <1>5, <1>7, <1>8, <1>9

-----------------------------------------------------------------------------
(* The inductive invariant. *)

\* What the state of a handler says of its request and of the rows it holds.
HandlerInv(p) ==
    /\ pc[p] \in InFlight => req[p] \in Requests
    /\ (\E c \in Customers : lock[c] = p) => pc[p] \in {"lock", "write"}
    /\ pc[p] = "write" => LockSet(p) \subseteq Held(p)
    /\ pc[p] \in {"lock", "write"} =>
        /\ req[p].op \notin UnlockedOps
        /\ req[p].op = "reverse" => original[p] \in Tx
        /\ req[p].op = "merge" => req[p].primary # req[p].secondary
    /\ pc[p] = "readOriginal" => req[p].op = "reverse"
    /\ pc[p] \in {"load", "diff", "update"} => req[p].op \in UnlockedOps
    /\ pc[p] \in {"diff", "update"} => e(p) \in Row

Inv == TypeOK /\ LockedEntityIsCurrent /\ \A p \in Procs : HandlerInv(p)
-----------------------------------------------------------------------------
(* Lemmas about the data. *)

LEMMA RequestFields ==
    ASSUME NEW r \in Requests
    PROVE  /\ r.op \in OpNames
           /\ r.op \in {"debt", "payment"} =>
                r.key \in Keys /\ r.cust \in Customers /\ r.amount \in Amounts
           /\ r.op = "mixed" =>
                /\ r.key \in Keys /\ r.cust \in Customers
                /\ r.cash \in Amounts /\ r.transfer \in Amounts
           /\ r.op = "reverse" => r.key \in Keys /\ r.of \in TxIds
           /\ r.op = "forgive" => r.key \in Keys /\ r.cust \in Customers
           /\ r.op = "inflation" => r.key \in BatchKeys /\ r.pct \in Percentages
           /\ r.op = "limit" => r.cust \in Customers /\ r.limit \in Limits
           /\ r.op = "merge" => r.primary \in Customers /\ r.secondary \in Customers
           /\ r.op = "toggle" => r.cust \in Customers
           /\ r.op = "promise" => r.cust \in Customers /\ r.promise \in BOOLEAN
  BY DEF Requests, OpNames

LEMMA AmountType ==
    ASSUME NEW a \in Amounts
    PROVE  a \in Nat \ {0} /\ a <= MaxCents /\ a \in Cents
  BY AmountsAssumption DEF Cents

\* The rows a handler locks are rows of the table.
LEMMA LockSetType ==
    ASSUME NEW p \in Procs, req[p] \in Requests,
           req[p].op = "reverse" => original[p] \in Tx
    PROVE  LockSet(p) \subseteq Customers
  BY RequestFields DEF LockSet, Tx, OpNames

\* At its write step a handler holds every row of its lock set, and the copy it
\* holds is the row of the table.
LEMMA AtWriteHolds ==
    ASSUME Inv, NEW p \in Procs, pc[p] = "write"
    PROVE  /\ req[p] \in Requests
           /\ \A c \in LockSet(p) : /\ c \in Customers
                                    /\ lock[c] = p
                                    /\ entity[p][c] = row[c]
                                    /\ row[c] \in Row
  BY DEF Inv, HandlerInv, TypeOK, InFlight, Held, LockedEntityIsCurrent

\* The end of a transaction preserves the invariant when it writes well-typed
\* rows and no row that another handler has locked.
LEMMA FinishPreservesInv ==
    ASSUME Inv, NEW p \in Procs, NEW outcome \in Outcomes, Finish(p, outcome),
           row' \in [Customers -> Row],
           txs' \in [TxIds -> Tx \cup {NoTx}],
           batches' \in [BatchKeys -> Seal \cup {NoTx}],
           \A c \in Customers : row'[c] # row[c] => lock[c] \in {p, NoProc}
    PROVE  Inv'
  <1> USE DEF Inv
  <1>1. TypeOK'
    BY DEF TypeOK, Finish, NoEntities, Finished
  <1>2. LockedEntityIsCurrent'
    <2> SUFFICES ASSUME NEW q \in Procs, NEW c \in Customers, lock'[c] = q
                 PROVE  entity'[q][c] = row'[c]
      BY DEF LockedEntityIsCurrent
    <2>1. q # p /\ lock[c] = q
      BY ProcsAssumption DEF Finish, TypeOK
    <2>2. row'[c] = row[c]
      BY <2>1, ProcsAssumption
    <2>3. entity'[q] = entity[q]
      BY <2>1 DEF Finish, TypeOK
    <2>4. QED
      BY <2>1, <2>2, <2>3 DEF LockedEntityIsCurrent
  <1>3. ASSUME NEW q \in Procs PROVE HandlerInv(q)'
    <2>1. CASE q = p
      <3>1. pc'[p] \in Outcomes /\ \A c \in Customers : lock'[c] # p
        BY ProcsAssumption DEF Finish, TypeOK
      <3>2. QED
        BY <2>1, <3>1 DEF HandlerInv, Outcomes, InFlight
    <2>2. CASE q # p
      <3>1. /\ pc'[q] = pc[q] /\ req'[q] = req[q] /\ entity'[q] = entity[q]
            /\ original'[q] = original[q]
            /\ \A c \in Customers : lock'[c] = q <=> lock[c] = q
        BY <2>2, ProcsAssumption DEF Finish, TypeOK
      <3>2. LockSet(q)' = LockSet(q) /\ Held(q)' = Held(q) /\ e(q)' = e(q)
        BY <3>1 DEF LockSet, Held, e
      <3>3. QED
        BY <3>1, <3>2 DEF HandlerInv
    <2>3. QED
      BY <2>1, <2>2
  <1>4. QED
    BY <1>1, <1>2, <1>3
-----------------------------------------------------------------------------
(* The steps of Next. *)

LEMMA BeginPreservesInv ==
    ASSUME Inv, NEW p \in Procs, NEW r \in Requests, Begin(p, r) \/ Replay(p, r)
    PROVE  Inv'
  <1> USE DEF Inv
  <1>1. /\ req' = [req EXCEPT ![p] = r]
        /\ \/ pc' = [pc EXCEPT ![p] = FirstStatement(r)]
           \/ pc' = [pc EXCEPT ![p] = "replayed"]
        /\ pc[p] \in Finished
        /\ UNCHANGED <<row, txs, batches, lock, entity, original, diff>>
    BY DEF Begin, Replay
  <1>2. FirstStatement(r) \in {"readOriginal", "load", "lock"}
    BY DEF FirstStatement
  <1>3. TypeOK'
    BY <1>1, <1>2 DEF TypeOK, Finished, InFlight, Outcomes
  <1>4. LockedEntityIsCurrent'
    BY <1>1 DEF LockedEntityIsCurrent
  <1>5. ASSUME NEW q \in Procs PROVE HandlerInv(q)'
    <2>1. CASE q = p
      <3>1. \A c \in Customers : lock[c] # p
        BY <1>1 DEF HandlerInv, Finished, Outcomes
      <3>2. CASE Replay(p, r)
        BY <1>1, <2>1, <3>1, <3>2 DEF HandlerInv, Replay, TypeOK, InFlight
      <3>3. CASE Begin(p, r)
        <4>1. /\ pc'[p] = FirstStatement(r) /\ req'[p] = r
              /\ r.op = "merge" => r.primary # r.secondary
          BY <3>3 DEF Begin, TypeOK
        <4>2. /\ pc'[p] = "readOriginal" => r.op = "reverse"
              /\ pc'[p] = "load" => r.op \in UnlockedOps
              /\ pc'[p] = "lock" => r.op \notin UnlockedOps /\ r.op # "reverse"
          BY <4>1 DEF FirstStatement
        <4>3. QED
          BY <1>1, <1>2, <2>1, <3>1, <4>1, <4>2 DEF HandlerInv
      <3>4. QED
        BY <3>2, <3>3
    <2>2. CASE q # p
      <3>1. pc'[q] = pc[q] /\ req'[q] = req[q]
        BY <1>1, <2>2 DEF TypeOK
      <3>2. LockSet(q)' = LockSet(q) /\ Held(q)' = Held(q) /\ e(q)' = e(q)
        BY <1>1, <3>1 DEF LockSet, Held, e
      <3>3. QED
        BY <1>1, <3>1, <3>2 DEF HandlerInv
    <2>3. QED
      BY <2>1, <2>2
  <1>6. QED
    BY <1>3, <1>4, <1>5

\* A transaction that ends without a write.
LEMMA RollbackPreservesInv ==
    ASSUME Inv, NEW p \in Procs, NEW outcome \in Outcomes, Finish(p, outcome), UNCHANGED db
    PROVE  Inv'
  BY FinishPreservesInv DEF db, Inv, TypeOK

LEMMA ReadOriginalPreservesInv ==
    ASSUME Inv, NEW p \in Procs, ReadOriginal(p)
    PROVE  Inv'
  <1> USE DEF Inv
  <1>1. CASE Finish(p, "rejected")
    BY <1>1, RollbackPreservesInv DEF ReadOriginal, Outcomes
  <1>2. CASE ~Finish(p, "rejected")
    <2>1. /\ pc[p] = "readOriginal"
          /\ txs[req[p].of] # NoTx
          /\ original' = [original EXCEPT ![p] = txs[req[p].of]]
          /\ pc' = [pc EXCEPT ![p] = "lock"]
          /\ UNCHANGED <<row, txs, batches, lock, req, entity, diff>>
      BY <1>2 DEF ReadOriginal, db
    <2>2. req[p] \in Requests /\ req[p].op = "reverse"
      BY <2>1 DEF HandlerInv, InFlight
    <2>3. txs[req[p].of] \in Tx
      BY <2>1, <2>2, RequestFields DEF TypeOK
    <2>4. TypeOK'
      BY <2>1, <2>3 DEF TypeOK, InFlight
    <2>5. LockedEntityIsCurrent'
      BY <2>1 DEF LockedEntityIsCurrent
    <2>6. ASSUME NEW q \in Procs PROVE HandlerInv(q)'
      <3>1. CASE q = p
        <4>1. pc'[p] = "lock" /\ original'[p] \in Tx /\ req'[p] = req[p]
          BY <2>1, <2>3 DEF TypeOK
        <4>2. QED
          BY <2>1, <2>2, <3>1, <4>1 DEF HandlerInv, UnlockedOps
      <3>2. CASE q # p
        <4>1. pc'[q] = pc[q] /\ original'[q] = original[q]
          BY <2>1, <3>2 DEF TypeOK
        <4>2. LockSet(q)' = LockSet(q) /\ Held(q)' = Held(q) /\ e(q)' = e(q)
          BY <2>1, <4>1 DEF LockSet, Held, e
        <4>3. QED
          BY <2>1, <4>1, <4>2 DEF HandlerInv
      <3>3. QED
        BY <3>1, <3>2
    <2>7. QED
      BY <2>4, <2>5, <2>6
  <1>3. QED
    BY <1>1, <1>2

LEMMA LockPreservesInv ==
    ASSUME Inv, NEW p \in Procs, NEW c \in Customers, Lock(p, c)
    PROVE  Inv'
  <1> USE DEF Inv
  <1>1. /\ pc[p] = "lock" /\ c \in LockSet(p) /\ lock[c] = NoProc
        /\ lock' = [lock EXCEPT ![c] = p]
        /\ entity' = [entity EXCEPT ![p][c] = row[c]]
        /\ pc' = [pc EXCEPT ![p] = IF LockSet(p) \ Held(p) = {c} THEN "write" ELSE "lock"]
        /\ UNCHANGED <<row, txs, batches, req, original, diff>>
    BY DEF Lock, NextLocks, Lockable
  <1>2. TypeOK'
    <2>1. entity' \in [Procs -> [Customers -> Row \cup {NoRow}]]
      BY <1>1 DEF TypeOK
    <2>2. QED
      BY <1>1, <2>1 DEF TypeOK, InFlight
  <1>3. LockedEntityIsCurrent'
    BY <1>1, ProcsAssumption DEF LockedEntityIsCurrent, TypeOK
  <1>4. ASSUME NEW q \in Procs PROVE HandlerInv(q)'
    <2>1. LockSet(q)' = LockSet(q)
      BY <1>1 DEF LockSet
    <2>2. CASE q = p
      <3>1. Held(p)' = Held(p) \cup {c}
        BY <1>1 DEF Held, TypeOK
      <3>2. pc'[p] \in {"lock", "write"}
        BY <1>1 DEF TypeOK
      <3>3. pc'[p] = "write" => LockSet(p)' \subseteq Held(p)'
        BY <1>1, <2>1, <2>2, <3>1 DEF TypeOK
      <3>4. QED
        BY <1>1, <2>1, <2>2, <3>1, <3>2, <3>3 DEF HandlerInv, InFlight
    <2>3. CASE q # p
      <3>1. /\ pc'[q] = pc[q] /\ entity'[q] = entity[q]
            /\ \A d \in Customers : lock'[d] = q <=> lock[d] = q
        BY <1>1, <2>3, ProcsAssumption DEF TypeOK
      <3>2. Held(q)' = Held(q) /\ e(q)' = e(q)
        BY <1>1, <3>1 DEF Held, e
      <3>3. QED
        BY <1>1, <2>1, <3>1, <3>2 DEF HandlerInv
    <2>4. QED
      BY <2>2, <2>3
  <1>5. QED
    BY <1>2, <1>3, <1>4

\* A single-customer operation at its write step: its request, its row, its lock.
LEMMA AtWriteSingle ==
    ASSUME Inv, NEW p \in Procs, pc[p] = "write",
           req[p].op \in {"debt", "payment", "mixed", "forgive", "limit"}
    PROVE  /\ req[p] \in Requests
           /\ req[p].cust \in Customers
           /\ lock[req[p].cust] = p
           /\ e(p) = row[req[p].cust]
           /\ e(p) \in Row
           /\ e(p).balance \in Nat /\ e(p).balance <= MaxCents
           /\ e(p).limit \in Nat /\ e(p).limit <= MaxCents
  <1>1. req[p] \in Requests /\ LockSet(p) = {req[p].cust}
    BY AtWriteHolds DEF LockSet
  <1>2. e(p) \in Row /\ req[p].cust \in Customers /\ lock[req[p].cust] = p /\ e(p) = row[req[p].cust]
    BY <1>1, AtWriteHolds DEF e
  <1>3. QED
    BY <1>1, <1>2, AmountsAssumption DEF Row, Cents

\* The outcome of a committed transaction is one of Outcomes.
LEMMA CommitPreservesInv ==
    ASSUME Inv, NEW p \in Procs, FinishCommitted(p),
           row' \in [Customers -> Row],
           txs' \in [TxIds -> Tx \cup {NoTx}],
           batches' \in [BatchKeys -> Seal \cup {NoTx}],
           \A c \in Customers : row'[c] # row[c] => lock[c] \in {p, NoProc}
    PROVE  Inv'
  BY FinishPreservesInv DEF FinishCommitted, Outcomes

\* One operation on one customer: a well-typed row of the customer it holds.
LEMMA SaveCustomerPreservesInv ==
    ASSUME Inv, NEW p \in Procs, FinishCommitted(p), UNCHANGED batches,
           NEW c \in Customers, lock[c] = p, NEW saved \in Row,
           SaveCustomer(p, c, saved),
           txs' \in [TxIds -> Tx \cup {NoTx}]
    PROVE  Inv'
  <1>1. /\ row' \in [Customers -> Row]
        /\ \A d \in Customers : row'[d] # row[d] => lock[d] \in {p, NoProc}
    BY DEF SaveCustomer, Inv, TypeOK
  <1>2. QED
    BY <1>1, CommitPreservesInv DEF Inv, TypeOK

LEMMA NewType ==
    ASSUME NEW type \in TxTypes, NEW cust \in Customers, NEW amount \in Cents,
           NEW of \in TxIds \cup {NoTx}
    PROVE  New(type, cust, amount, of) \in Tx
  BY DEF New, Tx

LEMMA KeyTxIds ==
    ASSUME NEW k \in Keys
    PROVE  <<k, 0>> \in TxIds /\ <<k, 1>> \in TxIds
  BY DEF TxIds

LEMMA PostDebtPreservesInv ==
    ASSUME Inv, NEW p \in Procs, PostDebt(p)
    PROVE  Inv'
  <1> DEFINE r == req[p]
             saved == [e(p) EXCEPT !.balance = @ + r.amount]
  <1>1. pc[p] = "write" /\ r.op = "debt" /\ e(p).balance + r.amount <= e(p).limit
    BY DEF PostDebt, AtWrite, Admissible
  <1>2. r.key \in Keys /\ r.amount \in Nat /\ r.amount <= MaxCents
    <2>1. r \in Requests
      BY <1>1, AtWriteSingle
    <2>2. r.key \in Keys /\ r.amount \in Amounts
      BY <1>1, <2>1, RequestFields
    <2>3. QED
      BY <2>2, AmountType
  <1>3. saved \in Row
    BY <1>1, <1>2, AtWriteSingle, AmountsAssumption DEF Row, Cents
  <1>4. New("DEBT", r.cust, r.amount, NoTx) \in Tx
    BY <1>1, <1>2, AtWriteSingle, AmountsAssumption, NewType DEF TxTypes, Cents
  <1>5. txs' \in [TxIds -> Tx \cup {NoTx}]
    BY <1>2, <1>4, KeyTxIds DEF PostDebt, Inv, TypeOK
  <1>6. QED
    BY <1>1, <1>3, <1>5, AtWriteSingle, SaveCustomerPreservesInv DEF PostDebt

LEMMA PostPaymentPreservesInv ==
    ASSUME Inv, NEW p \in Procs, PostPayment(p)
    PROVE  Inv'
  <1> DEFINE r == req[p]
             effective == Lesser(r.amount, e(p).balance)
             saved == [e(p) EXCEPT !.balance = @ - effective]
  <1>1. pc[p] = "write" /\ r.op = "payment"
    BY DEF PostPayment, AtWrite
  <1>2. r.key \in Keys /\ r.amount \in Nat
    <2>1. r \in Requests
      BY <1>1, AtWriteSingle
    <2>2. r.key \in Keys /\ r.amount \in Amounts
      BY <1>1, <2>1, RequestFields
    <2>3. QED
      BY <2>2, AmountType
  <1>3. effective \in Nat /\ effective <= e(p).balance
    BY <1>1, <1>2, AtWriteSingle DEF Lesser
  <1>4. saved \in Row
    BY <1>1, <1>3, AtWriteSingle, AmountsAssumption DEF Row, Cents
  <1>5. New("PAYMENT", r.cust, effective, NoTx) \in Tx
    BY <1>1, <1>3, AtWriteSingle, AmountsAssumption, NewType DEF TxTypes, Cents
  <1>6. txs' \in [TxIds -> Tx \cup {NoTx}]
    BY <1>2, <1>5, KeyTxIds DEF PostPayment, Inv, TypeOK
  <1>7. QED
    BY <1>1, <1>4, <1>6, AtWriteSingle, SaveCustomerPreservesInv DEF PostPayment

LEMMA PostMixedPaymentPreservesInv ==
    ASSUME Inv, NEW p \in Procs, PostMixedPayment(p)
    PROVE  Inv'
  <1> DEFINE r == req[p]
             cash == CashPart(r.cash, r.transfer, e(p).balance)
             transfer == TransferPart(r.cash, r.transfer, e(p).balance)
             saved == [e(p) EXCEPT !.balance = Clamp(@ - (cash + transfer))]
  <1>1. pc[p] = "write" /\ r.op = "mixed"
    BY DEF PostMixedPayment, AtWrite
  <1>2. r.key \in Keys /\ r.cash \in Nat \ {0} /\ r.transfer \in Nat \ {0}
    <2>1. r \in Requests
      BY <1>1, AtWriteSingle
    <2>2. r.key \in Keys /\ r.cash \in Amounts /\ r.transfer \in Amounts
      BY <1>1, <2>1, RequestFields
    <2>3. QED
      BY <2>2, AmountType
  <1>3. /\ cash \in Nat /\ cash <= e(p).balance
        /\ transfer \in Nat /\ transfer <= e(p).balance
    <2>1. e(p).balance \in Nat
      BY <1>1, AtWriteSingle
    <2>2. cash \in 0..e(p).balance /\ transfer \in 0..e(p).balance
      BY <1>2, <2>1, MixedPartsAddUp
    <2>3. QED
      BY <2>1, <2>2
  <1>4. saved \in Row
    BY <1>1, <1>3, AtWriteSingle, AmountsAssumption DEF Row, Cents, Clamp
  <1>5. /\ New("PAYMENT", r.cust, cash, NoTx) \in Tx
        /\ New("PAYMENT", r.cust, transfer, NoTx) \in Tx
    BY <1>1, <1>3, AtWriteSingle, AmountsAssumption, NewType DEF TxTypes, Cents
  <1>6. txs' \in [TxIds -> Tx \cup {NoTx}]
    BY <1>2, <1>5, KeyTxIds DEF PostMixedPayment, Inv, TypeOK
  <1>7. QED
    BY <1>1, <1>4, <1>6, AtWriteSingle, SaveCustomerPreservesInv DEF PostMixedPayment

LEMMA PostForgivenessPreservesInv ==
    ASSUME Inv, NEW p \in Procs, PostForgiveness(p)
    PROVE  Inv'
  <1> DEFINE r == req[p]
             saved == [e(p) EXCEPT !.balance = 0]
  <1>1. pc[p] = "write" /\ r.op = "forgive"
    BY DEF PostForgiveness, AtWrite
  <1>2. r.key \in Keys
    BY <1>1, AtWriteSingle, RequestFields
  <1>3. saved \in Row
    BY <1>1, AtWriteSingle, AmountsAssumption DEF Row, Cents
  <1>4. New("FORGIVENESS", r.cust, e(p).balance, NoTx) \in Tx
    BY <1>1, AtWriteSingle, AmountsAssumption, NewType DEF TxTypes, Cents
  <1>5. txs' \in [TxIds -> Tx \cup {NoTx}]
    BY <1>2, <1>4, KeyTxIds DEF PostForgiveness, Inv, TypeOK
  <1>6. QED
    BY <1>1, <1>3, <1>5, AtWriteSingle, SaveCustomerPreservesInv DEF PostForgiveness

LEMMA SetCreditLimitPreservesInv ==
    ASSUME Inv, NEW p \in Procs, SetCreditLimit(p)
    PROVE  Inv'
  <1> DEFINE saved == [e(p) EXCEPT !.limit = req[p].limit]
  <1>1. pc[p] = "write" /\ req[p].op = "limit"
    BY DEF SetCreditLimit, AtWrite
  <1>2. req[p].limit \in Cents
    BY <1>1, AtWriteSingle, RequestFields, AmountsAssumption DEF Cents
  <1>3. saved \in Row
    BY <1>1, <1>2, AtWriteSingle DEF Row
  <1>4. QED
    BY <1>1, <1>3, AtWriteSingle, SaveCustomerPreservesInv DEF SetCreditLimit, Inv, TypeOK

LEMMA PostReversalPreservesInv ==
    ASSUME Inv, NEW p \in Procs, PostReversal(p)
    PROVE  Inv'
  <1> DEFINE r == req[p]
             o == original[p]
             c == entity[p][o.cust]
             balance == Reverted(o, c.balance)
             saved == [c EXCEPT !.balance = balance]
  <1>1. pc[p] = "write" /\ r.op = "reverse" /\ balance <= MaxCents
    BY DEF PostReversal, AtWrite
  <1>2. r \in Requests /\ o \in Tx
    BY <1>1, AtWriteHolds DEF Inv, HandlerInv
  <1>3. r.key \in Keys /\ r.of \in TxIds
    BY <1>1, <1>2, RequestFields
  <1>4. LockSet(p) = {o.cust}
    BY <1>1 DEF LockSet
  <1>5. o.cust \in Customers /\ lock[o.cust] = p /\ c \in Row
    BY <1>1, <1>4, AtWriteHolds
  <1>6. balance \in Cents
    BY <1>1, <1>2, <1>5, AmountsAssumption DEF Reverted, Clamp, Tx, Row, Cents
  <1>7. saved \in Row
    BY <1>5, <1>6 DEF Row
  <1>8. New("REVERSAL", o.cust, o.amount, r.of) \in Tx
    BY <1>2, <1>3, <1>5, NewType DEF Tx, TxTypes
  <1>9. Marked(o) \in Tx
    BY <1>2 DEF Marked, Tx
  <1>10. txs' \in [TxIds -> Tx \cup {NoTx}]
    BY <1>3, <1>8, <1>9, KeyTxIds DEF PostReversal, Inv, TypeOK
  <1>11. QED
    BY <1>5, <1>7, <1>10, SaveCustomerPreservesInv DEF PostReversal

LEMMA PostInflationPreservesInv ==
    ASSUME Inv, NEW p \in Procs, PostInflation(p)
    PROVE  Inv'
  <1> DEFINE r == req[p]
             up(c) == Surcharge(entity[p][c].balance, r.pct)
  <1>1. pc[p] = "write" /\ r.op = "inflation"
    BY DEF PostInflation, AtWrite
  <1>2. r \in Requests /\ LockSet(p) = Customers
    BY <1>1, AtWriteHolds DEF LockSet
  <1>3. r.key \in BatchKeys /\ r.pct \in Nat
    BY <1>1, <1>2, RequestFields, AmountsAssumption
  <1>4. \A c \in Customers : lock[c] = p /\ entity[p][c] = row[c] /\ row[c] \in Row
    BY <1>1, <1>2, AtWriteHolds
  <1>5. \A c \in Customers : up(c) \in Nat /\ entity[p][c].balance \in Nat
    <2> TAKE c \in Customers
    <2>1. entity[p][c].balance \in Nat
      BY <1>4, AmountsAssumption DEF Row, Cents
    <2>2. QED
      BY <2>1, <1>3, SurchargeType
  <1>6. Surcharged(p) \subseteq Customers
    BY DEF Surcharged, Debtors
  <1>7. \A c \in Surcharged(p) :
            up(c) \in Cents /\ entity[p][c].balance + up(c) \in Cents
    <2> TAKE c \in Surcharged(p)
    <2>1. entity[p][c].balance + up(c) <= MaxCents
      BY DEF PostInflation
    <2> HIDE DEF up
    <2>2. QED
      BY <2>1, <1>5, <1>6, AmountsAssumption DEF Cents
  <1>8. row' \in [Customers -> Row]
    <2>1. \A c \in Surcharged(p) : [entity[p][c] EXCEPT !.balance = @ + up(c)] \in Row
      <3> TAKE c \in Surcharged(p)
      <3>1. entity[p][c] \in Row /\ entity[p][c].balance + up(c) \in Cents
        BY <1>4, <1>6, <1>7
      <3> HIDE DEF up
      <3>2. QED
        BY <3>1 DEF Row
    <2>2. QED
      BY <2>1, <1>4 DEF PostInflation
  <1>9. txs' \in [TxIds -> Tx \cup {NoTx}]
    <2>1. \A c \in Surcharged(p) : New("INFLATION", c, up(c), NoTx) \in Tx
      <3> TAKE c \in Surcharged(p)
      <3>1. up(c) \in Cents /\ c \in Customers
        BY <1>6, <1>7
      <3> HIDE DEF up
      <3>2. QED
        BY <3>1, NewType DEF TxTypes
    <2>2. QED
      BY <2>1 DEF PostInflation, Inv, TypeOK
  <1>10. batches' \in [BatchKeys -> Seal \cup {NoTx}]
    <2>1. Cardinality(Debtors(p)) \in Nat
      BY CustomersAssumption, FS_Subset, FS_CardinalityType DEF Debtors
    <2>2. batches' = [batches EXCEPT ![r.key] =
                        [affected |-> Cardinality(Debtors(p)), total |-> TotalSurcharge(p)]]
      BY DEF PostInflation
    <2>3. IsFiniteSet(Surcharged(p))
      BY <1>6, CustomersAssumption, FS_Subset
    <2>4. TotalSurcharge(p) \in Int
      <3> DEFINE f == [c \in Surcharged(p) |-> up(c)]
      <3>1. \A c \in Surcharged(p) : f[c] \in Int
        BY <1>5, <1>6
      <3>2. TotalSurcharge(p) = SumFunctionOnSet(f, Surcharged(p))
        BY DEF TotalSurcharge, SumFunction
      <3> HIDE DEF f
      <3>3. QED
        BY <2>3, <3>1, <3>2, SumType
    <2>5. [affected |-> Cardinality(Debtors(p)), total |-> TotalSurcharge(p)] \in Seal
      BY <2>1, <2>4 DEF Seal
    <2>6. QED
      BY <2>2, <2>5 DEF Inv, TypeOK
  <1>11. FinishCommitted(p)
    BY DEF PostInflation
  <1>12. QED
    BY <1>4, <1>8, <1>9, <1>10, <1>11, CommitPreservesInv

LEMMA MergeCustomersPreservesInv ==
    ASSUME Inv, NEW p \in Procs, MergeCustomers(p)
    PROVE  Inv'
  <1> DEFINE a == req[p].primary
             b == req[p].secondary
             ea == entity[p][a]
             eb == entity[p][b]
  <1>1. pc[p] = "write" /\ req[p].op = "merge" /\ ea.balance + eb.balance <= MaxCents
    BY DEF MergeCustomers, AtWrite
  <1>2. req[p] \in Requests /\ LockSet(p) = {a, b}
    BY <1>1, AtWriteHolds DEF LockSet
  <1>3. /\ a \in Customers /\ lock[a] = p /\ ea \in Row
        /\ b \in Customers /\ lock[b] = p /\ eb \in Row
    BY <1>1, <1>2, AtWriteHolds
  <1>4. /\ [ea EXCEPT !.balance = @ + eb.balance, !.limit = Greater(@, eb.limit)] \in Row
        /\ [eb EXCEPT !.active = FALSE, !.balance = 0] \in Row
    <2>1. /\ ea.balance \in Cents /\ eb.balance \in Cents
          /\ ea.limit \in Cents /\ eb.limit \in Cents
      BY <1>3 DEF Row
    <2>2. ea.balance + eb.balance \in Cents
      BY <1>1, <2>1, AmountsAssumption DEF Cents
    <2>3. Greater(ea.limit, eb.limit) \in Cents
      BY <2>1 DEF Greater
    <2>4. 0 \in Cents
      BY AmountsAssumption DEF Cents
    <2>5. [ea EXCEPT !.balance = @ + eb.balance, !.limit = Greater(@, eb.limit)] \in Row
      BY <1>3, <2>2, <2>3 DEF Row
    <2>6. [eb EXCEPT !.active = FALSE, !.balance = 0] \in Row
      BY <1>3, <2>4 DEF Row
    <2>7. QED
      BY <2>5, <2>6
  <1>5. /\ row' \in [Customers -> Row]
        /\ \A c \in Customers : row'[c] # row[c] => lock[c] \in {p, NoProc}
    BY <1>3, <1>4 DEF MergeCustomers, Inv, TypeOK
  <1>6. txs' \in [TxIds -> Tx \cup {NoTx}]
    <2>1. \A i \in TxIds : txs[i] \in Tx => [txs[i] EXCEPT !.cust = a] \in Tx
      BY <1>3 DEF Tx
    <2>2. QED
      BY <2>1 DEF MergeCustomers, Inv, TypeOK
  <1>7. QED
    BY <1>5, <1>6, CommitPreservesInv DEF MergeCustomers, Inv, TypeOK

\* The unlocked save(): it reads when it likes but waits for the lock to write.
LEMMA UnlockedHandler ==
    ASSUME Inv, NEW p \in Procs, pc[p] \in {"load", "diff", "update"}
    PROVE  /\ req[p] \in Requests
           /\ req[p].op \in UnlockedOps
           /\ req[p].cust \in Customers
           /\ \A c \in Customers : lock[c] # p
  <1>1. req[p] \in Requests /\ req[p].op \in UnlockedOps /\ \A c \in Customers : lock[c] # p
    BY DEF Inv, HandlerInv, InFlight
  <1>2. QED
    BY <1>1, RequestFields DEF UnlockedOps

LEMMA LoadPreservesInv ==
    ASSUME Inv, NEW p \in Procs, Load(p)
    PROVE  Inv'
  <1> DEFINE c == req[p].cust
             edited == Edited(req[p], row[c])
  <1>1. /\ pc[p] = "load"
        /\ entity' = [entity EXCEPT ![p][c] = edited]
        /\ pc' = [pc EXCEPT ![p] = "diff"]
        /\ UNCHANGED <<row, txs, batches, lock, req, original, diff>>
    BY DEF Load
  <1>2. /\ req[p] \in Requests /\ req[p].op \in UnlockedOps /\ c \in Customers
        /\ \A d \in Customers : lock[d] # p
    BY <1>1, UnlockedHandler
  <1>3. edited \in Row
    <2>1. row[c] \in Row
      BY <1>2 DEF Inv, TypeOK
    <2>2. CASE req[p].op = "toggle"
      BY <2>1, <2>2 DEF Edited, Row
    <2>3. CASE req[p].op = "promise"
      <3>1. req[p].promise \in BOOLEAN
        BY <1>2, <2>3, RequestFields
      <3>2. QED
        BY <2>1, <2>3, <3>1 DEF Edited, Row
    <2>4. QED
      BY <1>2, <2>2, <2>3 DEF UnlockedOps
  <1>4. TypeOK'
    BY <1>1, <1>2, <1>3 DEF Inv, TypeOK, InFlight
  <1>5. LockedEntityIsCurrent'
    BY <1>1, <1>2 DEF Inv, TypeOK, LockedEntityIsCurrent
  <1>6. ASSUME NEW q \in Procs PROVE HandlerInv(q)'
    <2>1. CASE q = p
      <3>1. pc'[p] = "diff" /\ req'[p] = req[p] /\ entity'[p][c] = edited
        BY <1>1, <1>2 DEF Inv, TypeOK
      <3>2. e(p)' \in Row
        BY <1>3, <3>1 DEF e
      <3>3. QED
        BY <1>1, <1>2, <2>1, <3>1, <3>2 DEF HandlerInv
    <2>2. CASE q # p
      <3>1. pc'[q] = pc[q] /\ entity'[q] = entity[q]
        BY <1>1, <2>2 DEF Inv, TypeOK
      <3>2. LockSet(q)' = LockSet(q) /\ Held(q)' = Held(q) /\ e(q)' = e(q)
        BY <1>1, <3>1 DEF LockSet, Held, e
      <3>3. QED
        BY <1>1, <3>1, <3>2 DEF Inv, HandlerInv
    <2>3. QED
      BY <2>1, <2>2
  <1>7. QED
    BY <1>4, <1>5, <1>6 DEF Inv

LEMMA SaveSelectPreservesInv ==
    ASSUME Inv, NEW p \in Procs, SaveSelect(p)
    PROVE  Inv'
  <1>1. /\ pc[p] = "diff"
        /\ \E cols \in SUBSET Columns : diff' = [diff EXCEPT ![p] = cols]
        /\ pc' = [pc EXCEPT ![p] = "update"]
        /\ UNCHANGED <<row, txs, batches, lock, req, entity, original>>
    BY DEF SaveSelect
  <1>2. TypeOK'
    BY <1>1 DEF Inv, TypeOK, InFlight
  <1>3. LockedEntityIsCurrent'
    BY <1>1 DEF Inv, LockedEntityIsCurrent
  <1>4. ASSUME NEW q \in Procs PROVE HandlerInv(q)'
    <2>1. LockSet(q)' = LockSet(q) /\ Held(q)' = Held(q) /\ e(q)' = e(q)
      BY <1>1 DEF LockSet, Held, e
    <2>2. pc'[q] = pc[q] \/ (q = p /\ pc'[q] = "update")
      <3>1. pc \in [Procs -> Finished \cup InFlight]
        BY DEF Inv, TypeOK
      <3>2. pc' = [pc EXCEPT ![p] = "update"]
        BY <1>1
      <3>3. QED
        BY <3>1, <3>2
    <2>3. QED
      BY <1>1, <2>1, <2>2 DEF Inv, HandlerInv, InFlight
  <1>5. QED
    BY <1>2, <1>3, <1>4 DEF Inv

LEMMA SaveUpdatePreservesInv ==
    ASSUME Inv, NEW p \in Procs, SaveUpdate(p)
    PROVE  Inv'
  <1> DEFINE c == req[p].cust
             old == row[c]
             saved == [balance |-> IF "balance" \in diff[p] THEN e(p).balance ELSE old.balance,
                       limit |-> IF "limit" \in diff[p] THEN e(p).limit ELSE old.limit,
                       active |-> IF "active" \in diff[p] THEN e(p).active ELSE old.active,
                       promise |-> IF "promise" \in diff[p] THEN e(p).promise ELSE old.promise]
  <1>1. /\ pc[p] = "update"
        /\ diff[p] # {} => lock[c] = NoProc
        /\ row' = [row EXCEPT ![c] = saved]
        /\ FinishCommitted(p)
        /\ UNCHANGED <<txs, batches>>
    BY DEF SaveUpdate, Lockable
  <1>2. c \in Customers /\ e(p) \in Row /\ old \in Row
    BY <1>1, UnlockedHandler DEF Inv, HandlerInv, TypeOK
  <1>3. saved \in Row
    BY <1>2 DEF Row
  <1>4. row' \in [Customers -> Row]
    BY <1>1, <1>3 DEF Inv, TypeOK
  <1>5. \A d \in Customers : row'[d] # row[d] => lock[d] \in {p, NoProc}
    <2>1. diff[p] = {} => saved = old
      BY <1>2 DEF Row
    <2>2. QED
      BY <1>1, <2>1 DEF Inv, TypeOK
  <1>6. QED
    BY <1>1, <1>4, <1>5, CommitPreservesInv DEF Inv, TypeOK
-----------------------------------------------------------------------------
(* The theorems. *)

LEMMA InitEstablishesInv == Init => Inv
  <1> SUFFICES ASSUME Init PROVE Inv
    OBVIOUS
  <1>1. TypeOK
    <2>1. row \in [Customers -> Row]
      <3>1. 0 \in Cents /\ \A l \in Limits : l \in Cents
        BY AmountsAssumption DEF Cents
      <3>2. \A l \in Limits :
                [balance |-> 0, limit |-> l, active |-> TRUE, promise |-> FALSE] \in Row
        BY <3>1 DEF Row
      <3>3. QED
        BY <3>2 DEF Init
    <2>2. /\ txs \in [TxIds -> Tx \cup {NoTx}]
          /\ batches \in [BatchKeys -> Seal \cup {NoTx}]
      BY DEF Init
    <2>3. lock \in [Customers -> Procs \cup {NoProc}] /\ req \in [Procs -> Requests \cup {NoReq}]
      BY DEF Init
    <2>4. pc \in [Procs -> Finished \cup InFlight]
      BY DEF Init, Finished
    <2>5. entity \in [Procs -> [Customers -> Row \cup {NoRow}]]
      BY DEF Init, NoEntities
    <2>6. original \in [Procs -> Tx \cup {NoTx}] /\ diff \in [Procs -> SUBSET Columns]
      BY DEF Init
    <2>7. QED
      BY <2>1, <2>2, <2>3, <2>4, <2>5, <2>6 DEF TypeOK
  <1>2. LockedEntityIsCurrent
    BY ProcsAssumption DEF Init, LockedEntityIsCurrent
  <1>3. \A p \in Procs : HandlerInv(p)
    BY ProcsAssumption DEF Init, HandlerInv, InFlight
  <1>4. QED
    BY <1>1, <1>2, <1>3 DEF Inv

LEMMA NextPreservesInv == Inv /\ [Next]_vars => Inv'
  <1> SUFFICES ASSUME Inv, [Next]_vars PROVE Inv'
    OBVIOUS
  <1>1. CASE UNCHANGED vars
    <2>1. TypeOK' /\ LockedEntityIsCurrent'
      BY <1>1 DEF vars, Inv, TypeOK, LockedEntityIsCurrent
    <2>2. ASSUME NEW q \in Procs PROVE HandlerInv(q)'
      <3>1. LockSet(q)' = LockSet(q) /\ Held(q)' = Held(q) /\ e(q)' = e(q)
        BY <1>1 DEF vars, LockSet, Held, e
      <3>2. QED
        BY <1>1, <3>1 DEF vars, Inv, HandlerInv
    <2>3. QED
      BY <2>1, <2>2 DEF Inv
  <1>2. ASSUME NEW p \in Procs, NEW r \in Requests, Begin(p, r) \/ Replay(p, r)
        PROVE  Inv'
    BY <1>2, BeginPreservesInv
  <1>3. ASSUME NEW p \in Procs, Crash(p) \/ LockTimeout(p) \/ Reject(p)
                                \/ DuplicateKey(p) \/ Overflow(p)
        PROVE  Inv'
    BY <1>3, RollbackPreservesInv
       DEF Crash, LockTimeout, Reject, DuplicateKey, Overflow, Outcomes
  <1>4. ASSUME NEW p \in Procs, ReadOriginal(p) PROVE Inv'
    BY <1>4, ReadOriginalPreservesInv
  <1>5. ASSUME NEW p \in Procs, NEW c \in Customers, Lock(p, c) PROVE Inv'
    BY <1>5, LockPreservesInv
  <1>6. ASSUME NEW p \in Procs,
               PostDebt(p) \/ PostPayment(p) \/ PostMixedPayment(p) \/ PostForgiveness(p)
        PROVE  Inv'
    BY <1>6, PostDebtPreservesInv, PostPaymentPreservesInv,
       PostMixedPaymentPreservesInv, PostForgivenessPreservesInv
  <1>7. ASSUME NEW p \in Procs,
               PostReversal(p) \/ PostInflation(p) \/ SetCreditLimit(p) \/ MergeCustomers(p)
        PROVE  Inv'
    BY <1>7, PostReversalPreservesInv, PostInflationPreservesInv,
       SetCreditLimitPreservesInv, MergeCustomersPreservesInv
  <1>8. ASSUME NEW p \in Procs, Load(p) \/ SaveSelect(p) \/ SaveUpdate(p) PROVE Inv'
    BY <1>8, LoadPreservesInv, SaveSelectPreservesInv, SaveUpdatePreservesInv
  <1>9. QED
    BY <1>1, <1>2, <1>3, <1>4, <1>5, <1>6, <1>7, <1>8 DEF Next, Proceed, Write

THEOREM Invariance == Spec => []Inv
  BY InitEstablishesInv, NextPreservesInv, PTL DEF Spec

\* Every reachable row is well typed: in particular no balance is negative and
\* none exceeds the int4 column, whatever the handlers interleave.
THEOREM TypeCorrect == Spec => []TypeOK
  <1>1. Inv => TypeOK
    BY DEF Inv
  <1>2. QED
    BY <1>1, Invariance, PTL

\* The FOR UPDATE discipline: what a handler has read under its lock stays the
\* committed row until the handler writes or gives up.
THEOREM LockedEntitiesAreCurrent == Spec => []LockedEntityIsCurrent
  <1>1. Inv => LockedEntityIsCurrent
    BY DEF Inv
  <1>2. QED
    BY <1>1, Invariance, PTL
=============================================================================
