--------------------------- MODULE Backtest_proofs ---------------------------
(***************************************************************************)
(* The engine (OrderInv, FundsInv, ShareInv), for any number of securities   *)
(* and sessions, any evidence and any strategy: an accepted order still     *)
(* fits the portfolio when its fill comes, the cash covers every target     *)
(* that is reserved, and a position is what was bought times the splits     *)
(* since.  And the snapshot months a backtest reads (MonthsInv): every one  *)
(* holds what a rebuild of it would, for any number of months, members,     *)
(* workers, data versions and deployments.  The two share no state.         *)
(***************************************************************************)
EXTENDS BacktestEngine, SnapshotMonths, WellFoundedInduction, FiniteSetTheorems, TLAPS

-----------------------------------------------------------------------------

(* Sums over finite sets: the recursion behind a fold, one security at a    *)
(* time, in the order in which CHOOSE picks them.                           *)
Picked(S) == CHOOSE x \in S : TRUE

IsIter(g, f, D) ==
  g = [s \in SUBSET D |-> IF s = {} THEN 0 ELSE f[Picked(s)] + g[s \ {Picked(s)}]]

Sum(f, S) == (CHOOSE g : IsIter(g, f, S))[S]

LEMMA SumOfIsSum == ASSUME NEW f PROVE SumOf(f) = Sum(f, DOMAIN f)
  BY DEF SumOf, FoldFunction, FoldFunctionOnSet, MapThenFoldSet, Sum, IsIter, Picked

(* A set of naturals that is not empty has a least member.                  *)
LEMMA Least ==
  ASSUME NEW N, N \subseteq Nat, N # {}
  PROVE  \E n \in N : \A m \in N : n <= m
<1>1. PICK n \in N : \A m \in N : ~ (<<m, n>> \in OpToRel(<, Nat))
  BY WFMin, NatLessThanWellFounded
<1>2. ASSUME NEW m \in N, m < n PROVE FALSE
  <2>1. <<m, n>> \in Nat \X Nat /\ <<m, n>>[1] < <<m, n>>[2]
    BY <1>2
  <2> QED
    BY <1>1, <2>1 DEF OpToRel
<1>3. \A m \in N : m \in Nat /\ n \in Nat /\ ~(m < n)
  BY <1>2
<1> QED
  BY <1>3

LEMMA Without ==
  ASSUME NEW S, IsFiniteSet(S), NEW x \in S
  PROVE  /\ IsFiniteSet(S \ {x}) /\ Cardinality(S) \in Nat
         /\ Cardinality(S \ {x}) \in Nat /\ Cardinality(S \ {x}) < Cardinality(S)
         /\ Cardinality(S \ {x}) = Cardinality(S) - 1
<1>1. IsFiniteSet(S \ {x}) /\ Cardinality(S \ {x}) = Cardinality(S) - 1
  BY FS_RemoveElement
<1> QED
  BY <1>1, FS_CardinalityType

LEMMA PickedIn == ASSUME NEW S, S # {} PROVE Picked(S) \in S
  BY DEF Picked

SumEquation(f, S) == Sum(f, S) = IF S = {} THEN 0 ELSE f[Picked(S)] + Sum(f, S \ {Picked(S)})

(* FoldFunction's recursion is one: it has the value its equation says.     *)
LEMMA SumUnfolds ==
  ASSUME NEW f, NEW S, IsFiniteSet(S)
  PROVE  SumEquation(f, S)
<1> DEFINE N == {n \in Nat : \E D : IsFiniteSet(D) /\ Cardinality(D) = n /\ ~SumEquation(f, D)}
<1> SUFFICES ASSUME ~SumEquation(f, S) PROVE FALSE
  OBVIOUS
<1>1. N \subseteq Nat /\ N # {}
  BY FS_CardinalityType
<1>2. PICK n \in N : \A m \in N : n <= m
  <2> HIDE DEF N
  <2> QED
    BY <1>1, Least
<1>3. PICK D : IsFiniteSet(D) /\ Cardinality(D) = n /\ ~SumEquation(f, D)
  OBVIOUS
<1>4. ASSUME NEW s, s \subseteq D, s # D PROVE SumEquation(f, s) /\ IsFiniteSet(s)
  <2>1. IsFiniteSet(s) /\ Cardinality(s) < n /\ Cardinality(s) \in Nat
    BY <1>3, <1>4, FS_Subset, FS_CardinalityType
  <2>2. Cardinality(s) \notin N
    BY <1>2, <2>1
  <2> QED
    BY <2>1, <2>2
<1> HIDE DEF N
<1> DEFINE g == [s \in SUBSET D |-> IF s = {} THEN 0 ELSE f[Picked(s)] + Sum(f, s \ {Picked(s)})]
<1>5. IsIter(g, f, D)
  <2>1. ASSUME NEW s \in SUBSET D, s # {} PROVE g[s \ {Picked(s)}] = Sum(f, s \ {Picked(s)})
    <3>1. s \ {Picked(s)} \in SUBSET D /\ s \ {Picked(s)} # D
      BY <2>1, PickedIn
    <3>2. SumEquation(f, s \ {Picked(s)})
      BY <3>1, <1>4
    <3> QED
      BY <3>1, <3>2 DEF SumEquation
  <2> QED
    BY <2>1 DEF IsIter
<1> HIDE DEF g
<1>6. PICK h : h = (CHOOSE k : IsIter(k, f, D)) /\ IsIter(h, f, D)
  BY <1>5
<1>7. ASSUME NEW s, s \subseteq D, s # D PROVE h[s] = Sum(f, s)
  <2> DEFINE M == {m \in Nat : \E t : t \subseteq D /\ t # D /\ Cardinality(t) = m /\ h[t] # Sum(f, t)}
  <2> SUFFICES ASSUME h[s] # Sum(f, s) PROVE FALSE
    OBVIOUS
  <2>1. M \subseteq Nat /\ M # {}
    BY <1>4, <1>7, FS_CardinalityType
  <2>2. PICK m \in M : \A k \in M : m <= k
    <3> HIDE DEF M
    <3> QED
      BY <2>1, Least
  <2>3. PICK t : t \subseteq D /\ t # D /\ Cardinality(t) = m /\ h[t] # Sum(f, t)
    OBVIOUS
  <2>4. SumEquation(f, t) /\ IsFiniteSet(t)
    BY <1>4, <2>3
  <2>5. h[t] = IF t = {} THEN 0 ELSE f[Picked(t)] + h[t \ {Picked(t)}]
    BY <1>6, <2>3 DEF IsIter
  <2>6. t # {}
    BY <2>3, <2>4, <2>5 DEF SumEquation
  <2>7. /\ t \ {Picked(t)} \subseteq D /\ t \ {Picked(t)} # D
        /\ Cardinality(t \ {Picked(t)}) < m /\ Cardinality(t \ {Picked(t)}) \in Nat
    BY <2>3, <2>4, <2>6, PickedIn, Without
  <2>8. h[t \ {Picked(t)}] = Sum(f, t \ {Picked(t)})
    BY <2>2, <2>7
  <2> QED
    BY <2>3, <2>4, <2>5, <2>6, <2>8 DEF SumEquation
<1>8. h[D] = IF D = {} THEN 0 ELSE f[Picked(D)] + h[D \ {Picked(D)}]
  BY <1>6 DEF IsIter
<1>9. D # {} => h[D \ {Picked(D)}] = Sum(f, D \ {Picked(D)})
  BY <1>7, PickedIn
<1>10. Sum(f, D) = h[D]
  BY <1>6 DEF Sum
<1> QED
  BY <1>3, <1>8, <1>9, <1>10 DEF SumEquation

(* A sum does not depend on the order it is taken in.                       *)
LEMMA SumRemove ==
  ASSUME NEW f, NEW S, IsFiniteSet(S), \A y \in S : f[y] \in Nat
  PROVE  Sum(f, S) \in Nat /\ \A x \in S : Sum(f, S) = f[x] + Sum(f, S \ {x})
<1> DEFINE Good(D) == Sum(f, D) \in Nat /\ \A y \in D : Sum(f, D) = f[y] + Sum(f, D \ {y})
           N == {n \in Nat : \E D : D \subseteq S /\ Cardinality(D) = n /\ ~Good(D)}
<1> SUFFICES ASSUME ~Good(S) PROVE FALSE
  OBVIOUS
<1>1. N \subseteq Nat /\ N # {}
  BY FS_CardinalityType
<1>2. PICK n \in N : \A m \in N : n <= m
  <2> HIDE DEF N
  <2> QED
    BY <1>1, Least
<1>3. PICK E : E \subseteq S /\ Cardinality(E) = n /\ ~Good(E)
  OBVIOUS
<1>4. IsFiniteSet(E)
  BY <1>3, FS_Subset
<1>5. ASSUME NEW D, D \subseteq E, D # E PROVE Good(D)
  <2>1. Cardinality(D) < n /\ Cardinality(D) \in Nat
    BY <1>3, <1>4, <1>5, FS_Subset, FS_CardinalityType
  <2>2. Cardinality(D) \notin N
    BY <1>2, <2>1
  <2> QED
    BY <1>3, <1>5, <2>1, <2>2
<1> HIDE DEF N
<1>6. SumEquation(f, E)
  BY <1>4, SumUnfolds
<1>7. CASE E = {}
  BY <1>3, <1>6, <1>7 DEF SumEquation
<1>8. CASE E # {}
  <2> DEFINE p == Picked(E)
  <2>1. p \in E /\ Sum(f, E) = f[p] + Sum(f, E \ {p}) /\ f[p] \in Nat
    BY <1>3, <1>6, <1>8, PickedIn DEF SumEquation
  <2> HIDE DEF p
  <2>2. Sum(f, E \ {p}) \in Nat
    BY <1>5, <2>1
  <2>3. ASSUME NEW y \in E, y # p PROVE Sum(f, E) = f[y] + Sum(f, E \ {y})
    <3> DEFINE R == (E \ {p}) \ {y}
    <3>1. Good(E \ {p}) /\ Good(E \ {y}) /\ Good(R)
      <4>1. \A D : D \subseteq E /\ D # E => Good(D)
        BY <1>5
      <4> HIDE DEF Good
      <4>2. E \ {p} # E /\ E \ {y} # E /\ R # E
        BY <2>1, <2>3
      <4> QED
        BY <4>1, <4>2
    <3>2. R = (E \ {y}) \ {p} /\ y \in E \ {p} /\ p \in E \ {y}
      BY <2>1, <2>3
    <3>3. Sum(f, E \ {p}) = f[y] + Sum(f, R) /\ Sum(f, R) \in Nat
      BY <3>1, <3>2
    <3>4. Sum(f, E \ {y}) = f[p] + Sum(f, R)
      BY <3>1, <3>2
    <3>5. f[y] \in Nat /\ f[p] \in Nat
      BY <1>3, <2>1
    <3> HIDE DEF R
    <3> QED
      BY <2>1, <3>3, <3>4, <3>5
  <2> QED
    BY <1>3, <2>1, <2>2, <2>3
<1> QED
  BY <1>7, <1>8

(* The sum over a set that grows by one member, and over no set at all.     *)
LEMMA SumEmpty == ASSUME NEW f PROVE Sum(f, {}) = 0
  BY SumUnfolds, FS_EmptySet DEF SumEquation

(* What is summed over is a set of securities or a part of one; sums of     *)
(* functions that agree on it agree.                                        *)
LEMMA SumAgree ==
  ASSUME NEW f, NEW g, NEW S, IsFiniteSet(S), \A y \in S : f[y] = g[y]
  PROVE  Sum(f, S) = Sum(g, S)
<1> DEFINE N == {n \in Nat : \E D : D \subseteq S /\ Cardinality(D) = n /\ Sum(f, D) # Sum(g, D)}
<1> SUFFICES ASSUME Sum(f, S) # Sum(g, S) PROVE FALSE
  OBVIOUS
<1>1. N \subseteq Nat /\ N # {}
  BY FS_CardinalityType
<1>2. PICK n \in N : \A m \in N : n <= m
  <2> HIDE DEF N
  <2> QED
    BY <1>1, Least
<1>3. PICK E : E \subseteq S /\ Cardinality(E) = n /\ Sum(f, E) # Sum(g, E)
  OBVIOUS
<1>4. IsFiniteSet(E)
  BY <1>3, FS_Subset
<1>5. SumEquation(f, E) /\ SumEquation(g, E)
  BY <1>4, SumUnfolds
<1>6. E # {}
  BY <1>3, <1>5 DEF SumEquation
<1>7. /\ Picked(E) \in E
      /\ Cardinality(E \ {Picked(E)}) \in Nat /\ Cardinality(E \ {Picked(E)}) < n
  BY <1>3, <1>4, <1>6, PickedIn, Without
<1>8. Cardinality(E \ {Picked(E)}) \notin N
  BY <1>2, <1>7
<1>9. Sum(f, E \ {Picked(E)}) = Sum(g, E \ {Picked(E)})
  BY <1>3, <1>7, <1>8
<1> QED
  BY <1>3, <1>5, <1>6, <1>7, <1>9 DEF SumEquation

(* A sum over S and one more summand for each member of a part of S.        *)
LEMMA SumAdds ==
  ASSUME NEW f, NEW S, IsFiniteSet(S), \A y \in S : f[y] \in Nat,
         NEW T, IsFiniteSet(T), S \cap T = {}, NEW c \in Nat, \A y \in T : f[y] = c
  PROVE  Sum(f, S \cup T) = Sum(f, S) + c * Cardinality(T)
<1> DEFINE Good(D) == Sum(f, S \cup D) = Sum(f, S) + c * Cardinality(D)
           N == {n \in Nat : \E D : D \subseteq T /\ Cardinality(D) = n /\ ~Good(D)}
<1> SUFFICES ASSUME ~Good(T) PROVE FALSE
  OBVIOUS
<1>1. N \subseteq Nat /\ N # {}
  BY FS_CardinalityType
<1>2. PICK n \in N : \A m \in N : n <= m
  <2> HIDE DEF N
  <2> QED
    BY <1>1, Least
<1>3. PICK D : D \subseteq T /\ Cardinality(D) = n /\ ~Good(D)
  OBVIOUS
<1>4. IsFiniteSet(D) /\ IsFiniteSet(S \cup D) /\ \A y \in S \cup D : f[y] \in Nat
  BY <1>3, FS_Subset, FS_Union
<1>5. Sum(f, S) \in Nat
  BY SumRemove
<1>6. CASE D = {}
  <2>1. S \cup D = S /\ Cardinality(D) = 0 /\ c * 0 = 0
    BY <1>6, FS_EmptySet
  <2>2. Good(D)
    <3>1. Sum(f, S \cup D) = Sum(f, S)
      BY <2>1
    <3>2. c * Cardinality(D) = 0
      BY <2>1
    <3> QED
      BY <1>5, <3>1, <3>2
  <2> QED
    BY <1>3, <2>2
<1>7. CASE D # {}
  <2>1. PICK x \in D : TRUE
    BY <1>7
  <2>2. /\ Cardinality(D \ {x}) \in Nat /\ Cardinality(D \ {x}) < Cardinality(D)
        /\ Cardinality(D \ {x}) = Cardinality(D) - 1 /\ Cardinality(D) \in Nat
    BY <1>4, Without
  <2>3. D \ {x} \subseteq T /\ (S \cup D) \ {x} = S \cup (D \ {x}) /\ x \in S \cup D /\ f[x] = c
    BY <1>3
  <2>4. Cardinality(D \ {x}) \notin N
    <3>1. Cardinality(D) = n
      BY <1>3
    <3> HIDE DEF N
    <3> QED
      BY <1>2, <2>2, <3>1
  <2>5. Good(D \ {x})
    BY <2>2, <2>3, <2>4
  <2>6. Sum(f, S \cup D) = c + Sum(f, S \cup (D \ {x}))
    BY <1>4, <2>3, SumRemove
  <2>7. Sum(f, S \cup (D \ {x})) = Sum(f, S) + c * (Cardinality(D) - 1)
    BY <2>2, <2>5
  <2>8. c + c * (Cardinality(D) - 1) = c * Cardinality(D)
    BY <2>2
  <2> HIDE DEF N
  <2> DEFINE k == Cardinality(D)
             e == c * (k - 1)
  <2>9. e \in Int /\ c + e = c * k
    BY <2>2, <2>8
  <2> HIDE DEF k, e
  <2>10. Sum(f, S \cup D) = Sum(f, S) + c * k
    BY <1>5, <2>6, <2>7, <2>9 DEF k, e
  <2> QED
    BY <1>3, <2>10 DEF k
<1> QED
  BY <1>6, <1>7
-----------------------------------------------------------------------------

(* The product of the splits, one session after another.                    *)
IsProduct(h, g, from, n) == h = [d \in 0 .. n |-> IF d <= from THEN 1 ELSE h[d - 1] * g[d]]

(* There is a function that Product's recursion defines.                    *)
LEMMA ProductExists ==
  ASSUME NEW g, NEW from \in Nat, NEW last \in Nat
  PROVE  \E h : IsProduct(h, g, from, last)
<1> DEFINE N == {n \in Nat : ~ \E h : IsProduct(h, g, from, n)}
<1> SUFFICES ASSUME ~ \E h : IsProduct(h, g, from, last) PROVE FALSE
  OBVIOUS
<1>1. N \subseteq Nat /\ N # {}
  OBVIOUS
<1>2. PICK n \in N : \A m \in N : n <= m
  <2> HIDE DEF N
  <2> QED
    BY <1>1, Least
<1>3. n \in Nat /\ ~ \E h : IsProduct(h, g, from, n)
  OBVIOUS
<1>4. n # 0
  <2> SUFFICES ASSUME n = 0 PROVE FALSE
    OBVIOUS
  <2> DEFINE h == [d \in 0 .. 0 |-> 1]
  <2>1. \A d \in 0 .. 0 : d <= from
    OBVIOUS
  <2>2. IsProduct(h, g, from, 0)
    BY <2>1 DEF IsProduct
  <2> QED
    BY <1>3, <2>2
<1>5. PICK k : IsProduct(k, g, from, n - 1)
  <2>1. n - 1 \in Nat /\ n - 1 < n
    BY <1>3, <1>4
  <2>2. n - 1 \notin N
    <3> HIDE DEF N
    <3> QED
      BY <1>1, <1>2, <2>1
  <2> QED
    BY <2>1, <2>2
<1> DEFINE h == [d \in 0 .. n |-> IF d <= from THEN 1 ELSE k[d - 1] * g[d]]
<1>6. ASSUME NEW d \in 0 .. n - 1 PROVE h[d] = k[d]
  <2>1. d \in 0 .. n /\ h[d] = IF d <= from THEN 1 ELSE k[d - 1] * g[d]
    BY <1>3, <1>6
  <2>2. k[d] = IF d <= from THEN 1 ELSE k[d - 1] * g[d]
    BY <1>5, <1>6 DEF IsProduct
  <2> QED
    BY <2>1, <2>2
<1>7. ASSUME NEW d \in 0 .. n, ~(d <= from) PROVE h[d - 1] = k[d - 1]
  <2>1. d - 1 \in 0 .. n - 1
    BY <1>3, <1>7
  <2> HIDE DEF h
  <2> QED
    BY <1>6, <2>1
<1>8. IsProduct(h, g, from, n)
  BY <1>7 DEF IsProduct
<1> QED
  BY <1>3, <1>8

LEMMA ProductUnfolds ==
  ASSUME NEW g, NEW from \in Nat, NEW d \in 0 .. LastSession, LastSession \in Nat
  PROVE  Product(g, from, d) = IF d <= from THEN 1 ELSE Product(g, from, d - 1) * g[d]
<1> DEFINE f == CHOOSE h : IsProduct(h, g, from, LastSession)
<1>1. IsProduct(f, g, from, LastSession)
  BY ProductExists
<1>2. \A e : Product(g, from, e) = f[e]
  BY DEF Product, IsProduct
<1> HIDE DEF f
<1>3. f[d] = IF d <= from THEN 1 ELSE f[d - 1] * g[d]
  BY <1>1 DEF IsProduct
<1> QED
  BY <1>2, <1>3
-----------------------------------------------------------------------------

OrderShape == [side : {"none", "BUY", "SELL"}, fill : Nat, target : Nat]

(* What the steps need of the shapes.  The cash is left out: that the sums  *)
(* over dividends and reservations are numbers is an induction over sets.   *)
Shapes ==
  /\ market \in Evidence
  /\ session \in Sessions
  /\ phase \in {"actions", "fills", "signals", "published", "done", "failed"}
  /\ positions \in [Securities -> Nat]
  /\ orders \in [Securities -> OrderShape]

(* A waiting order is one of the two sides, for a session of the run.       *)
OrdersReal ==
  \A s \in Waiting : orders[s].side \in {"BUY", "SELL"} /\ orders[s].fill \in Sessions

OrderInv == Shapes /\ OrdersReal /\ OrdersFit

USE EngineAssumption DEF Sessions

-----------------------------------------------------------------------------

(* A quote of the evidence has its shape.                                   *)
LEMMA QuoteShape ==
  ASSUME market \in Evidence, session \in Sessions, NEW s \in Securities
  PROVE  Today(s) \in Quote
BY DEF Today

(* A rounded quotient of naturals is a natural.                             *)
LEMMA RoundedNat ==
  ASSUME NEW n \in Nat, NEW d \in Nat \ {0}
  PROVE  HalfEven(n, d) \in Nat
<1>1. n \div d \in Nat /\ n % d \in Nat
  OBVIOUS
<1> QED BY <1>1 DEF HalfEven

(* An exact quotient is positive if what is divided is.                     *)
LEMMA ExactQuotient ==
  ASSUME NEW m \in Nat, NEW d \in Nat \ {0}, m % d = 0
  PROVE  m \div d \in Nat /\ (m \div d > 0 <=> m > 0)
<1>1. m \div d \in Nat /\ m = (m \div d) * d + (m % d)
  OBVIOUS
<1> DEFINE q == m \div d
<1>2. q \in Nat /\ q * d = m
  BY <1>1
<1> HIDE DEF q
<1>3. q = 0 => m = 0
  BY <1>2
<1>4. q > 0 => m > 0
  BY <1>2
<1> QED BY <1>2, <1>3, <1>4 DEF q

(* A position that is held is held after a split that leaves no fraction.   *)
LEMMA SplitKeeps ==
  ASSUME NEW n \in Nat, NEW u \in Nat \ {0}, NEW d \in Nat \ {0}, (n * u) % d = 0
  PROVE  (n * u) \div d \in Nat /\ ((n * u) \div d > 0 <=> n > 0)
<1>1. n * u \in Nat /\ (n * u > 0 <=> n > 0)
  OBVIOUS
<1> DEFINE m == n * u
<1> HIDE DEF m
<1>2. m \in Nat /\ m % d = 0 /\ (m > 0 <=> n > 0)
  BY <1>1 DEF m
<1>3. m \div d \in Nat /\ (m \div d > 0 <=> m > 0)
  BY <1>2, ExactQuotient
<1> QED BY <1>2, <1>3 DEF m

(* The session an order is filled in comes later, and within the run.       *)
LEMMA NextIsLater ==
  ASSUME NEW s \in Securities, session \in Sessions, Later(s) # {}
  PROVE  NextSession(s) \in Sessions /\ NextSession(s) > session
<1>1. Later(s) \subseteq Nat
  BY DEF Later
<1>2. PICK d \in Later(s) : \A e \in Later(s) : ~ (<<e, d>> \in OpToRel(<, Nat))
  BY <1>1, WFMin, NatLessThanWellFounded
<1>3. ASSUME NEW e \in Later(s), e < d PROVE FALSE
  <2>1. <<e, d>> \in Nat \X Nat /\ <<e, d>>[1] < <<e, d>>[2]
    BY <1>1, <1>3
  <2>2. <<e, d>> \in OpToRel(<, Nat)
    BY <2>1 DEF OpToRel
  <2> QED BY <1>2, <2>2
<1>4. \A e \in Later(s) : d <= e
  BY <1>1, <1>3
<1>5. NextSession(s) \in Later(s)
  BY <1>4 DEF NextSession
<1> QED BY <1>5 DEF Later

(* At the start nothing waits.                                              *)
LEMMA OrdersInit == EngineInit => OrderInv
<1> SUFFICES ASSUME EngineInit PROVE OrderInv
  OBVIOUS
<1>1. Shapes
  BY DEF EngineInit, Shapes, NoOrder, OrderShape
<1>2. Waiting = {}
  BY DEF EngineInit, Waiting
<1> QED BY <1>1, <1>2 DEF OrderInv, OrdersReal, OrdersFit

(* A run that fails keeps its orders, and nobody fills them.                *)
LEMMA FailKeeps == OrderInv /\ EndRun => OrderInv'
BY DEF OrderInv, Shapes, OrdersReal, OrdersFit, EndRun, Goto, Waiting, HeldNow

(* Splits change how much is held, never whether.                           *)
LEMMA ActionsKeep == OrderInv /\ ApplyActions => OrderInv'
<1> SUFFICES ASSUME OrderInv, ApplyActions PROVE OrderInv'
  OBVIOUS
<1>1. CASE EndRun
  BY <1>1, FailKeeps
<1>2. CASE ~ EndRun
  <2>1. /\ \A s \in HeldNow : Splits(s)
        /\ positions' = [s \in Securities |->
                           IF s \in HeldNow THEN AfterSplit(s) ELSE positions[s]]
        /\ phase = "actions" /\ phase' = "fills"
        /\ UNCHANGED <<market, session, orders>>
    BY <1>2 DEF ApplyActions, Goto
  <2>2. ASSUME NEW s \in Securities
        PROVE  positions'[s] \in Nat /\ (positions'[s] > 0 <=> positions[s] > 0)
    <3>1. CASE s \in HeldNow
      <4>1. positions[s] \in Nat /\ Today(s).up \in Nat \ {0} /\ Today(s).down \in Nat \ {0}
        BY QuoteShape DEF OrderInv, Shapes, Quote
      <4>2. (positions[s] * Today(s).up) % Today(s).down = 0
        BY <2>1, <3>1 DEF Splits
      <4>3. positions'[s] = (positions[s] * Today(s).up) \div Today(s).down
        BY <2>1, <3>1 DEF AfterSplit
      <4> DEFINE n == positions[s]
                 u == Today(s).up
                 d == Today(s).down
      <4>4. n \in Nat /\ u \in Nat \ {0} /\ d \in Nat \ {0} /\ (n * u) % d = 0
            /\ positions'[s] = (n * u) \div d
        BY <4>1, <4>2, <4>3
      <4> HIDE DEF n, u, d
      <4>5. (n * u) \div d \in Nat /\ ((n * u) \div d > 0 <=> n > 0)
        BY <4>4, SplitKeeps
      <4> QED BY <4>4, <4>5 DEF n
    <3>2. CASE s \notin HeldNow
      <4>1. positions'[s] = positions[s] /\ positions[s] \in Nat
        BY <2>1, <3>2 DEF OrderInv, Shapes
      <4> QED BY <4>1
    <3> QED BY <3>1, <3>2
  <2>3. positions' \in [Securities -> Nat]
    BY <2>1, <2>2
  <2>4. HeldNow' = HeldNow /\ Waiting' = Waiting
    BY <2>1, <2>2 DEF HeldNow, Waiting
  <2>5. Shapes'
    BY <2>1, <2>3 DEF OrderInv, Shapes
  <2> QED BY <2>1, <2>4, <2>5 DEF OrderInv, OrdersReal, OrdersFit
<1> QED BY <1>1, <1>2

(* The shares an open price buys are a natural number.                      *)
LEMMA CountNat ==
  ASSUME OrderInv, NEW s \in Securities, InBase(s, Today(s).open) # 0, Convertible(s)
  PROVE  orders[s].target \div InBase(s, Today(s).open) \in Nat
<1>1. Today(s).open \in Nat /\ Today(s).num \in Nat /\ Today(s).den \in Nat \ {0}
  BY QuoteShape DEF OrderInv, Shapes, Quote
<1>2. Today(s).open * Today(s).num \in Nat
  BY <1>1
<1>3. InBase(s, Today(s).open) \in Nat
  BY <1>1, <1>2, RoundedNat DEF InBase
<1>4. orders[s].target \in Nat
  BY DEF OrderInv, Shapes, OrderShape
<1> DEFINE n == InBase(s, Today(s).open)
           t == orders[s].target
<1>5. n \in Nat \ {0} /\ t \in Nat
  BY <1>3, <1>4
<1> HIDE DEF n, t
<1>6. t \div n \in Nat
  BY <1>5
<1> QED BY <1>6 DEF n, t

(* A fill touches the position and the order of its own security alone.     *)
LEMMA FillKeeps == ASSUME NEW s \in Securities PROVE OrderInv /\ FillOrder(s) => OrderInv'
<1> SUFFICES ASSUME OrderInv, FillOrder(s) PROVE OrderInv'
  OBVIOUS
<1>1. /\ phase = "fills" /\ s \in Due
      /\ orders' = [orders EXCEPT ![s] = NoOrder]
      /\ UNCHANGED <<market, session>>
  BY DEF FillOrder
<1>2. /\ phase' \in {"fills", "failed"}
      /\ \/ positions' = positions
         \/ \E count \in Nat : positions' = [positions EXCEPT ![s] = count]
  <2>1. CASE Today(s).open = 0
    BY <1>1, <2>1 DEF FillOrder, Goto
  <2>2. CASE Today(s).open # 0 /\ orders[s].side = "BUY"
    <3>1. FillBuy(s)
      BY <2>2 DEF FillOrder
    <3> DEFINE n == InBase(s, Today(s).open)
               count == orders[s].target \div n
    <3>2. CASE s \in HeldNow \/ ~Convertible(s) \/ n = 0
      BY <1>1, <3>1, <3>2 DEF FillBuy, Goto
    <3>3. CASE s \notin HeldNow /\ Convertible(s) /\ n # 0
      <4>1. count \in Nat
        BY <3>3, CountNat
      <4>2. \/ positions' = positions
            \/ positions' = [positions EXCEPT ![s] = count]
        BY <3>1, <3>3 DEF FillBuy, Bought
      <4>3. phase' \in {"fills", "failed"}
        BY <1>1, <3>1, <3>3 DEF FillBuy, Goto
      <4> QED BY <4>1, <4>2, <4>3
    <3> QED BY <3>2, <3>3
  <2>3. CASE Today(s).open # 0 /\ orders[s].side # "BUY"
    <3>1. FillSell(s)
      BY <2>3 DEF FillOrder
    <3> QED BY <1>1, <3>1 DEF FillSell, Goto
  <2> QED BY <2>1, <2>2, <2>3
<1>3. positions \in [Securities -> Nat] /\ orders \in [Securities -> OrderShape]
  BY DEF OrderInv, Shapes
<1>4. positions' \in [Securities -> Nat]
      /\ \A t \in Securities \ {s} : positions'[t] = positions[t]
  BY <1>2, <1>3
<1>5. orders' \in [Securities -> OrderShape]
  BY <1>1, <1>3 DEF NoOrder, OrderShape
<1>6. Shapes'
  BY <1>1, <1>2, <1>4, <1>5 DEF OrderInv, Shapes
<1>7. Waiting' \subseteq Waiting \ {s} /\ \A t \in Waiting' : orders'[t] = orders[t]
  BY <1>1, <1>3 DEF Waiting
<1>8. \A t \in Waiting' : t \in HeldNow' <=> t \in HeldNow
  BY <1>4, <1>7 DEF HeldNow, Waiting
<1>9. OrdersReal'
  BY <1>7 DEF OrderInv, OrdersReal
<1>10. OrdersFit'
  <2>1. phase # "failed" /\ session' = session
    BY <1>1
  <2> QED BY <1>2, <1>7, <1>8, <2>1 DEF OrderInv, OrdersFit
<1> QED BY <1>6, <1>9, <1>10 DEF OrderInv

(* The portfolio is valued once nothing is due any more.                    *)
LEMMA ValueKeeps == OrderInv /\ Value => OrderInv'
<1> SUFFICES ASSUME OrderInv, Value PROVE OrderInv'
  OBVIOUS
<1>1. CASE EndRun
  BY <1>1, FailKeeps
<1>2. CASE ~ EndRun
  <2>1. /\ phase = "fills" /\ phase' = "signals" /\ Due = {}
        /\ UNCHANGED <<market, session, positions, orders>>
    BY <1>2 DEF Value, Goto
  <2>2. \A s \in Waiting : orders[s].fill > session
    BY <2>1 DEF OrderInv, Shapes, OrdersReal, OrdersFit, Due
  <2>3. HeldNow' = HeldNow /\ Waiting' = Waiting
    BY <2>1 DEF HeldNow, Waiting
  <2>4. Shapes' /\ OrdersReal'
    BY <2>1, <2>3 DEF OrderInv, Shapes, OrdersReal
  <2> QED BY <2>1, <2>2, <2>3, <2>4 DEF OrderInv, OrdersFit
<1> QED BY <1>1, <1>2

(* A new order fits by the checks, and is for a later session.              *)
LEMMA ScheduleKeeps ==
  ASSUME OrderInv, phase = "signals",
         NEW sales \in SUBSET Securities, NEW purchases \in SUBSET Securities,
         NEW target \in Nat,
         \A s \in sales : Fits(s, "SELL"), \A s \in purchases : Fits(s, "BUY"),
         Schedule(sales, purchases, target)
  PROVE  OrderInv'
<1>1. /\ orders' = [s \in Securities |->
                       IF s \in sales THEN Order(s, "SELL", 0)
                       ELSE IF s \in purchases THEN Order(s, "BUY", target)
                       ELSE orders[s]]
      /\ phase' = "published"
      /\ UNCHANGED <<market, session, positions>>
  BY DEF Schedule, Goto
<1>2. session \in Sessions /\ orders \in [Securities -> OrderShape]
  BY DEF OrderInv, Shapes
<1>3. HeldNow' = HeldNow
  BY <1>1 DEF HeldNow
<1>4. ASSUME NEW s \in Securities
      PROVE  /\ orders'[s] \in OrderShape
             /\ s \in Waiting' => /\ orders'[s].side \in {"BUY", "SELL"}
                                  /\ orders'[s].fill \in Sessions
                                  /\ orders'[s].fill > session
                                  /\ orders'[s].side = "SELL" <=> s \in HeldNow
  <2>1. CASE s \in sales
    <3>1. orders'[s] = Order(s, "SELL", 0) /\ Fits(s, "SELL")
      BY <1>1, <2>1
    <3>2. NextSession(s) \in Sessions /\ NextSession(s) > session
      BY <1>2, <3>1, NextIsLater DEF Fits
    <3> QED BY <3>1, <3>2 DEF Order, Fits, OrderShape
  <2>2. CASE s \notin sales /\ s \in purchases
    <3>1. orders'[s] = Order(s, "BUY", target) /\ Fits(s, "BUY")
      BY <1>1, <2>2
    <3>2. NextSession(s) \in Sessions /\ NextSession(s) > session
      BY <1>2, <3>1, NextIsLater DEF Fits
    <3> QED BY <3>1, <3>2 DEF Order, Fits, OrderShape
  <2>3. CASE s \notin sales /\ s \notin purchases
    <3>1. orders'[s] = orders[s]
      BY <1>1, <2>3
    <3> QED BY <1>2, <3>1 DEF OrderInv, OrdersReal, OrdersFit, Waiting
  <2> QED BY <2>1, <2>2, <2>3
<1>5. orders' \in [Securities -> OrderShape]
  BY <1>1, <1>4
<1>6. Shapes'
  BY <1>1, <1>5 DEF OrderInv, Shapes
<1>7. Waiting' \subseteq Securities
  BY DEF Waiting
<1>8. OrdersReal'
  BY <1>4, <1>7 DEF OrdersReal
<1>9. OrdersFit'
  BY <1>1, <1>2, <1>3, <1>4, <1>7 DEF OrdersFit
<1> QED BY <1>6, <1>8, <1>9 DEF OrderInv

LEMMA SignalsKeep ==
  ASSUME NEW sales \in SUBSET Securities, NEW purchases \in SUBSET Securities
  PROVE  OrderInv /\ ProcessSignals(sales, purchases) => OrderInv'
<1> SUFFICES ASSUME OrderInv, ProcessSignals(sales, purchases) PROVE OrderInv'
  OBVIOUS
<1>1. /\ phase = "signals"
      /\ \A s \in sales : Fits(s, "SELL")
      /\ \A s \in purchases : Fits(s, "BUY")
  BY DEF ProcessSignals
<1>2. CASE purchases = {} /\ Schedule(sales, {}, 0)
  BY <1>1, <1>2, ScheduleKeeps
<1>3. CASE EndRun
  BY <1>3, FailKeeps
<1>4. CASE \E target \in 0 .. funds : Schedule(sales, purchases, target)
  <2>1. PICK target \in 0 .. funds : Schedule(sales, purchases, target)
    BY <1>4
  <2>2. target \in Nat
    OBVIOUS
  <2> QED BY <1>1, <2>1, <2>2, ScheduleKeeps
<1> QED BY <1>2, <1>3, <1>4 DEF ProcessSignals

(* No order is for the last session's morrow: the run ends with none.       *)
LEMMA AdvanceKeeps == OrderInv /\ Advance => OrderInv'
<1> SUFFICES ASSUME OrderInv, Advance PROVE OrderInv'
  OBVIOUS
<1>1. phase = "published" /\ UNCHANGED <<market, positions, orders>>
  BY DEF Advance
<1>2. HeldNow' = HeldNow /\ Waiting' = Waiting
  BY <1>1 DEF HeldNow, Waiting
<1>3. session \in Sessions /\ \A s \in Waiting : orders[s].fill \in Sessions /\ orders[s].fill > session
  BY <1>1 DEF OrderInv, Shapes, OrdersReal, OrdersFit
<1>4. CASE session = LastSession
  <2>1. Waiting = {}
    BY <1>3, <1>4
  <2>2. phase' = "done" /\ session' = session
    BY <1>4 DEF Advance, Goto
  <2> QED BY <1>1, <1>2, <2>1, <2>2 DEF OrderInv, Shapes, OrdersReal, OrdersFit
<1>5. CASE session # LastSession
  <2>1. phase' = "actions" /\ session' = session + 1
    BY <1>5 DEF Advance, Goto
  <2>2. session' \in Sessions
    BY <1>3, <1>5, <2>1
  <2>3. \A s \in Waiting : orders[s].fill >= session'
    BY <1>3, <2>1
  <2>4. Shapes' /\ OrdersReal'
    BY <1>1, <1>2, <2>1, <2>2 DEF OrderInv, Shapes, OrdersReal
  <2> QED BY <1>1, <1>2, <2>1, <2>3, <2>4 DEF OrderInv, OrdersFit
<1> QED BY <1>4, <1>5

LEMMA OrdersStep == OrderInv /\ [EngineNext]_engine => OrderInv'
<1> SUFFICES ASSUME OrderInv, [EngineNext]_engine PROVE OrderInv'
  OBVIOUS
<1>1. CASE UNCHANGED engine
  BY <1>1 DEF engine, OrderInv, Shapes, OrdersReal, OrdersFit, Waiting, HeldNow
<1>2. CASE EngineNext
  <2>1. CASE Abort
    BY <2>1, FailKeeps DEF Abort
  <2>2. CASE \E s \in Securities : FillOrder(s)
    BY <2>2, FillKeeps
  <2>3. CASE \E sales, purchases \in SUBSET Securities : ProcessSignals(sales, purchases)
    BY <2>3, SignalsKeep
  <2> QED BY <1>2, <2>1, <2>2, <2>3, ActionsKeep, ValueKeeps, AdvanceKeeps DEF EngineNext
<1> QED BY <1>1, <1>2

(* Every accepted order still fits when its session comes: a purchase finds *)
(* no position and a sale finds one, on a later session than its signal's,  *)
(* and no order is left when the run ends.                                  *)
THEOREM OrdersAlwaysFit == EngineSpec => []OrdersFit
<1>1. OrderInv => OrdersFit
  BY DEF OrderInv
<1> QED BY <1>1, OrdersInit, OrdersStep, PTL DEF EngineSpec

-----------------------------------------------------------------------------

LEMMA InBaseNat ==
  ASSUME OrderInv, NEW s \in Securities, NEW amount \in Nat
  PROVE  InBase(s, amount) \in Nat
<1>1. Today(s).num \in Nat /\ Today(s).den \in Nat \ {0}
  BY QuoteShape DEF OrderInv, Shapes, Quote
<1>2. amount * Today(s).num \in Nat
  BY <1>1
<1> QED
  BY <1>1, <1>2, RoundedNat DEF InBase

(* A purchase is skipped, ends the run, or costs no more than its target.   *)
LEMMA BuyCases ==
  ASSUME OrderInv, NEW s \in Securities, FillBuy(s)
  PROVE  \/ UNCHANGED <<funds, positions, entered>> /\ phase' \in {phase, "failed"}
         \/ \E count \in Nat \ {0}, cost \in Nat :
              /\ cost <= orders[s].target /\ ~ (cost > funds)
              /\ funds' = funds - cost
              /\ positions' = [positions EXCEPT ![s] = count]
              /\ entered' = [entered EXCEPT ![s] = [session |-> session, shares |-> count]]
              /\ phase' = phase
<1> DEFINE n == InBase(s, Today(s).open)
           count == orders[s].target \div n
           cost == InBase(s, Today(s).open * count)
<1>1. CASE s \in HeldNow \/ ~Convertible(s) \/ n = 0 \/ count = 0
           \/ cost > orders[s].target \/ cost > funds
  BY <1>1 DEF FillBuy, Goto
<1>2. CASE ~ (s \in HeldNow \/ ~Convertible(s) \/ n = 0 \/ count = 0
              \/ cost > orders[s].target \/ cost > funds)
  <2>1. count \in Nat \ {0}
    BY <1>2, CountNat
  <2>2. Today(s).open \in Nat
    BY QuoteShape DEF OrderInv, Shapes, Quote
  <2>3. Today(s).open * count \in Nat
    <3> HIDE DEF count
    <3> QED
      BY <2>1, <2>2
  <2>4. cost \in Nat
    BY <2>3, InBaseNat
  <2>5. orders[s].target \in Nat
    BY DEF OrderInv, Shapes, OrderShape
  <2>6. /\ funds' = funds - cost
        /\ positions' = [positions EXCEPT ![s] = count]
        /\ entered' = [entered EXCEPT ![s] = [session |-> session, shares |-> count]]
        /\ phase' = phase
    BY <1>2 DEF FillBuy, Bought
  <2> HIDE DEF count, cost
  <2>7. cost <= orders[s].target /\ ~ (cost > funds)
    BY <1>2, <2>4, <2>5
  <2> QED
    BY <2>1, <2>4, <2>6, <2>7
<1> QED
  BY <1>1, <1>2

(* A sale is skipped, ends the run, or brings in cash.                      *)
LEMMA SellCases ==
  ASSUME OrderInv, NEW s \in Securities, FillSell(s)
  PROVE  \/ UNCHANGED <<funds, positions, entered>> /\ phase' \in {phase, "failed"}
         \/ /\ \E credit \in Nat : funds' = funds + credit
            /\ positions' = [positions EXCEPT ![s] = 0]
            /\ entered' = [entered EXCEPT ![s] = NoEntry]
            /\ phase' = phase
<1>1. Today(s).open \in Nat /\ positions[s] \in Nat
  BY QuoteShape DEF OrderInv, Shapes, Quote
<1>2. Today(s).open * positions[s] \in Nat
  BY <1>1
<1>3. InBase(s, Today(s).open * positions[s]) \in Nat
  BY <1>2, InBaseNat
<1> QED
  BY <1>3 DEF FillSell, Goto

-----------------------------------------------------------------------------

(* Cash.  What is reserved is a sum over the purchases that wait.           *)
Targets(o) == [s \in Securities |-> o[s].target]
BuysIn(o) == {s \in Securities : o[s].side = "BUY"}

FundsInv == funds \in Nat /\ Reserved <= funds

(* The reservations of any orders, summed over any part of the securities.  *)
LEMMA TargetsSum ==
  ASSUME NEW o \in [Securities -> OrderShape], NEW B, B \subseteq Securities
  PROVE  /\ IsFiniteSet(B)
         /\ \A s \in B : Targets(o)[s] = o[s].target /\ o[s].target \in Nat
         /\ SumOf([s \in B |-> o[s].target]) = Sum(Targets(o), B)
         /\ Sum(Targets(o), B) \in Nat
<1>1. IsFiniteSet(B) /\ \A s \in B : Targets(o)[s] = o[s].target /\ o[s].target \in Nat
  BY FS_Subset DEF OrderShape, Targets
<1> DEFINE f == [s \in B |-> o[s].target]
<1>2. SumOf(f) = Sum(f, B)
  BY SumOfIsSum
<1>3. \A s \in B : f[s] = Targets(o)[s]
  BY <1>1
<1> HIDE DEF f
<1>4. Sum(f, B) = Sum(Targets(o), B)
  BY <1>1, <1>3, SumAgree
<1>5. Sum(Targets(o), B) \in Nat
  BY <1>1, SumRemove
<1> QED
  BY <1>1, <1>2, <1>4, <1>5 DEF f

LEMMA ReservedIsSum ==
  OrderInv => Buys = BuysIn(orders) /\ Reserved = Sum(Targets(orders), Buys) /\ Reserved \in Nat
<1>1. Buys = BuysIn(orders) /\ Buys \subseteq Securities
  BY DEF Buys, BuysIn
<1> QED
  BY <1>1, TargetsSum DEF OrderInv, Shapes, Reserved

LEMMA ReservedNext ==
  OrderInv' => /\ Buys' = BuysIn(orders') /\ Buys' \subseteq Securities
               /\ Reserved' = Sum(Targets(orders'), Buys') /\ Reserved' \in Nat
<1>1. Buys' = BuysIn(orders') /\ Buys' \subseteq Securities
  BY DEF Buys, BuysIn
<1> QED
  BY <1>1, TargetsSum DEF OrderInv, Shapes, Reserved

LEMMA FundsInit == EngineInit => FundsInv
<1> SUFFICES ASSUME EngineInit PROVE FundsInv
  OBVIOUS
<1>1. Buys = {} /\ OrderInv
  BY OrdersInit DEF EngineInit, Buys, NoOrder
<1>2. Reserved = 0
  BY <1>1, ReservedIsSum, SumEmpty
<1> QED
  BY <1>2 DEF FundsInv, EngineInit

(* What pays out, or does nothing, keeps the reservations covered.          *)
LEMMA IncomeKeeps ==
  ASSUME OrderInv, FundsInv, UNCHANGED orders, NEW credit \in Nat, funds' = funds + credit
  PROVE  FundsInv'
<1>1. Reserved' = Reserved
  BY DEF Reserved, Buys
<1> QED
  BY <1>1, ReservedIsSum DEF FundsInv

LEMMA IdleKeeps == OrderInv /\ FundsInv /\ UNCHANGED <<orders, funds>> => FundsInv'
<1>1. FundsInv => funds + 0 = funds
  BY DEF FundsInv
<1> QED
  BY <1>1, IncomeKeeps

LEMMA ActionsCovered == OrderInv /\ FundsInv /\ ApplyActions => FundsInv'
<1> SUFFICES ASSUME OrderInv, FundsInv, ApplyActions PROVE FundsInv'
  OBVIOUS
<1>1. CASE EndRun
  BY <1>1, IdleKeeps DEF EndRun
<1>2. CASE ~ EndRun
  <2> DEFINE f == [s \in HeldNow |-> Credit(s)]
  <2>1. funds' = funds + SumOf(f) /\ UNCHANGED orders
    BY <1>2 DEF ApplyActions
  <2>2. ASSUME NEW s \in HeldNow PROVE f[s] \in Nat
    <3>1. s \in Securities /\ positions[s] \in Nat /\ Today(s).dividend \in Nat
      BY QuoteShape DEF OrderInv, Shapes, Quote, HeldNow
    <3>2. positions[s] * Today(s).dividend \in Nat
      BY <3>1
    <3>3. Credit(s) \in Nat
      BY <3>1, <3>2, InBaseNat DEF Credit
    <3> QED
      BY <3>3
  <2>3. IsFiniteSet(HeldNow) /\ DOMAIN f = HeldNow
    BY FS_Subset DEF HeldNow
  <2> HIDE DEF f
  <2>4. SumOf(f) \in Nat
    BY <2>2, <2>3, SumOfIsSum, SumRemove
  <2> QED
    BY <2>1, <2>4, IncomeKeeps
<1> QED
  BY <1>1, <1>2

(* The order that is filled gives its reservation back, and a purchase      *)
(* takes no more than that.                                                 *)
LEMMA FillCovered ==
  ASSUME NEW s \in Securities PROVE OrderInv /\ FundsInv /\ FillOrder(s) => FundsInv'
<1> SUFFICES ASSUME OrderInv, FundsInv, FillOrder(s) PROVE FundsInv'
  OBVIOUS
<1>1. orders \in [Securities -> OrderShape] /\ orders' = [orders EXCEPT ![s] = NoOrder]
  BY DEF FillOrder, OrderInv, Shapes
<1>2. OrderInv'
  BY FillKeeps
<1>3. Buys' = Buys \ {s} /\ Buys \subseteq Securities
  BY <1>1 DEF Buys, NoOrder
<1>4. Reserved' = Sum(Targets(orders), Buys \ {s}) /\ Reserved' \in Nat
  <2>1. \A t \in Buys \ {s} : Targets(orders')[t] = Targets(orders)[t]
    BY <1>1, <1>3 DEF Targets
  <2>2. IsFiniteSet(Buys \ {s})
    BY <1>3, FS_Subset
  <2>3. Sum(Targets(orders'), Buys \ {s}) = Sum(Targets(orders), Buys \ {s})
    BY <2>1, <2>2, SumAgree
  <2> QED
    BY <1>2, <1>3, <2>3, ReservedNext
<1>5. Reserved = Reserved' + (IF s \in Buys THEN orders[s].target ELSE 0)
      /\ orders[s].target \in Nat
  <2>1. /\ IsFiniteSet(Buys) /\ Reserved = Sum(Targets(orders), Buys)
        /\ \A t \in Buys : Targets(orders)[t] \in Nat
    BY <1>1, <1>3, TargetsSum, ReservedIsSum
  <2>2. s \in Buys => Sum(Targets(orders), Buys)
                        = Targets(orders)[s] + Sum(Targets(orders), Buys \ {s})
    <3>1. PICK f : f = Targets(orders)
      OBVIOUS
    <3>2. \A t \in Buys : f[t] \in Nat
      BY <2>1, <3>1
    <3>3. \A t \in Buys : Sum(f, Buys) = f[t] + Sum(f, Buys \ {t})
      BY <2>1, <3>2, SumRemove, SMTT(30)
    <3> QED
      BY <3>1, <3>3
  <2>3. s \notin Buys => Buys \ {s} = Buys
    OBVIOUS
  <2>4. orders[s].target \in Nat /\ Targets(orders)[s] = orders[s].target
    BY <1>1 DEF OrderShape, Targets
  <2>5. CASE s \in Buys
    BY <1>4, <2>1, <2>2, <2>4, <2>5
  <2>6. CASE s \notin Buys
    <3>1. Reserved' = Sum(Targets(orders), Buys)
      BY <1>4, <2>3, <2>6
    <3>2. Reserved = Reserved'
      BY <2>1, <3>1
    <3> QED
      BY <1>4, <2>4, <2>6, <3>2
  <2> QED
    BY <2>5, <2>6
<1>6. funds \in Nat /\ Reserved <= funds
  BY DEF FundsInv
<1>7. CASE UNCHANGED funds
  BY <1>4, <1>5, <1>6, <1>7 DEF FundsInv
<1>8. CASE FillSell(s)
  <2>1. UNCHANGED funds \/ \E credit \in Nat : funds' = funds + credit
    BY <1>8, SellCases
  <2>2. ASSUME NEW credit \in Nat, funds' = funds + credit PROVE FundsInv'
    BY <1>4, <1>5, <1>6, <2>2 DEF FundsInv
  <2> QED
    BY <1>7, <2>1, <2>2
<1>9. CASE FillBuy(s) /\ orders[s].side = "BUY"
  <2>1. \/ UNCHANGED funds
        \/ \E cost \in Nat : cost <= orders[s].target /\ ~ (cost > funds) /\ funds' = funds - cost
    BY <1>9, BuyCases
  <2>2. s \in Buys
    BY <1>9 DEF Buys
  <2>3. ASSUME NEW cost \in Nat, cost <= orders[s].target, ~ (cost > funds), funds' = funds - cost
        PROVE  FundsInv'
    BY <1>4, <1>5, <1>6, <2>2, <2>3 DEF FundsInv
  <2> QED
    BY <1>7, <2>1, <2>3
<1> QED
  BY <1>7, <1>8, <1>9 DEF FillOrder

(* A cohort's targets together are at most what was not reserved.           *)
LEMMA ScheduleCovered ==
  ASSUME OrderInv, FundsInv, OrderInv',
         NEW sales \in SUBSET Securities, NEW purchases \in SUBSET Securities,
         NEW target \in Nat,
         \A s \in sales : Fits(s, "SELL"), \A s \in purchases : Fits(s, "BUY"),
         target * Cardinality(purchases) <= Unreserved,
         Schedule(sales, purchases, target)
  PROVE  FundsInv'
<1>1. /\ orders' = [s \in Securities |->
                       IF s \in sales THEN Order(s, "SELL", 0)
                       ELSE IF s \in purchases THEN Order(s, "BUY", target)
                       ELSE orders[s]]
      /\ UNCHANGED funds
  BY DEF Schedule
<1>2. sales \cap purchases = {} /\ \A s \in sales \cup purchases : s \notin Waiting
  BY DEF Fits
<1>3. \A s \in sales \cup purchases : s \notin Buys
  BY <1>2 DEF Waiting, Buys, NoOrder
<1>4. Buys' = Buys \cup purchases /\ Buys \cap purchases = {} /\ Buys \subseteq Securities
  BY <1>1, <1>2, <1>3 DEF Buys, Order
<1>5. /\ \A s \in Buys : Targets(orders')[s] = Targets(orders)[s]
      /\ \A s \in purchases : Targets(orders')[s] = target
  BY <1>1, <1>2, <1>3, <1>4 DEF Targets, Order
<1>6. /\ IsFiniteSet(Buys) /\ IsFiniteSet(purchases) /\ Cardinality(purchases) \in Nat
      /\ \A s \in Buys : Targets(orders)[s] \in Nat
      /\ Reserved = Sum(Targets(orders), Buys) /\ Reserved \in Nat
  <2>1. IsFiniteSet(purchases)
    BY FS_Subset
  <2> QED
    BY <1>4, <2>1, TargetsSum, ReservedIsSum, FS_CardinalityType DEF OrderInv, Shapes
<1>7. Sum(Targets(orders'), Buys) = Reserved
  BY <1>5, <1>6, SumAgree
<1>8. Sum(Targets(orders'), Buys \cup purchases)
        = Sum(Targets(orders'), Buys) + target * Cardinality(purchases)
  <2>1. PICK f : f = Targets(orders')
    OBVIOUS
  <2>2. \A s \in Buys : f[s] \in Nat
    BY <1>5, <1>6, <2>1
  <2>3. \A s \in purchases : f[s] = target
    BY <1>5, <2>1
  <2>4. Sum(f, Buys \cup purchases) = Sum(f, Buys) + target * Cardinality(purchases)
    <3>1. /\ IsFiniteSet(Buys) /\ IsFiniteSet(purchases) /\ Buys \cap purchases = {}
          /\ target \in Nat
      BY <1>4, <1>6
    <3> QED
      BY ONLY <2>2, <2>3, <3>1, SumAdds
  <2> QED
    BY <2>1, <2>4
<1> DEFINE k == target * Cardinality(purchases)
<1>9. k \in Nat
  BY <1>6
<1>10. Reserved' = Reserved + k
  BY <1>4, <1>7, <1>8, ReservedNext
<1>11. k <= funds - Reserved
  BY DEF Unreserved
<1> HIDE DEF k
<1> QED
  BY <1>1, <1>6, <1>9, <1>10, <1>11 DEF FundsInv

LEMMA SignalsCovered ==
  ASSUME NEW sales \in SUBSET Securities, NEW purchases \in SUBSET Securities
  PROVE  OrderInv /\ FundsInv /\ ProcessSignals(sales, purchases) => FundsInv'
<1> SUFFICES ASSUME OrderInv, FundsInv, ProcessSignals(sales, purchases) PROVE FundsInv'
  OBVIOUS
<1>1. /\ \A s \in sales : Fits(s, "SELL")
      /\ \A s \in purchases : Fits(s, "BUY")
  BY DEF ProcessSignals
<1>2. OrderInv'
  BY SignalsKeep
<1>3. CASE purchases = {} /\ Schedule(sales, {}, 0)
  <2>1. Reserved \in Nat /\ funds \in Nat /\ Reserved <= funds
    BY ReservedIsSum DEF FundsInv
  <2>2. Cardinality({}) = 0 /\ 0 * Cardinality({}) <= Unreserved
    BY <2>1, FS_EmptySet DEF Unreserved
  <2> QED
    BY <1>1, <1>2, <1>3, <2>2, ScheduleCovered
<1>4. CASE EndRun
  BY <1>4, IdleKeeps DEF EndRun
<1>5. CASE \E target \in 0 .. funds :
             Share(target, Cardinality(purchases)) /\ Schedule(sales, purchases, target)
  <2>1. PICK target \in 0 .. funds :
               Share(target, Cardinality(purchases)) /\ Schedule(sales, purchases, target)
    BY <1>5
  <2>2. target \in Nat /\ target * Cardinality(purchases) <= Unreserved
    BY <2>1 DEF Share
  <2> QED
    BY <1>1, <1>2, <2>1, <2>2, ScheduleCovered
<1> QED
  BY <1>3, <1>4, <1>5 DEF ProcessSignals

LEMMA FundsStep == OrderInv /\ FundsInv /\ [EngineNext]_engine => FundsInv'
<1> SUFFICES ASSUME OrderInv, FundsInv, [EngineNext]_engine PROVE FundsInv'
  OBVIOUS
<1>1. CASE UNCHANGED <<orders, funds>>
  BY <1>1, IdleKeeps
<1>2. CASE \E s \in Securities : FillOrder(s)
  BY <1>2, FillCovered
<1>3. CASE \E sales, purchases \in SUBSET Securities : ProcessSignals(sales, purchases)
  BY <1>3, SignalsCovered
<1>4. CASE Value \/ Advance \/ Abort \/ UNCHANGED engine
  BY <1>1, <1>4 DEF Value, Advance, Abort, EndRun, engine
<1> QED
  BY <1>2, <1>3, <1>4, ActionsCovered DEF EngineNext

(* The cash always covers every target that is reserved, for the purchases  *)
(* of several days and exchanges at a time: none is skipped for lack of     *)
(* cash, and no cohort is given what an earlier one was promised.           *)
THEOREM ReservationsAlwaysCovered == EngineSpec => []ReservationsCovered
<1>1. EngineInit => OrderInv /\ FundsInv
  BY OrdersInit, FundsInit
<1>2. OrderInv /\ FundsInv /\ [EngineNext]_engine => OrderInv' /\ FundsInv'
  BY OrdersStep, FundsStep
<1>3. OrderInv /\ FundsInv => ReservationsCovered
  BY DEF FundsInv, ReservationsCovered
<1> QED
  BY <1>1, <1>2, <1>3, PTL DEF EngineSpec

-----------------------------------------------------------------------------

(* Positions and splits.                                                    *)
Ups(s) == [d \in Sessions |-> market[s][d].up]
Downs(s) == [d \in Sessions |-> market[s][d].down]

(* The last session whose actions are applied.                              *)
Applied == IF phase = "actions" THEN session - 1 ELSE session

Entry == [session : Nat, shares : Nat]

(* A position was entered in a session whose actions are applied, and is    *)
(* what was bought times the splits since.                                  *)
Follows(s) ==
  /\ entered[s].shares > 0
  /\ phase # "failed" =>
       /\ entered[s].session <= Applied
       /\ positions[s] * Product(Downs(s), entered[s].session, Applied)
            = entered[s].shares * Product(Ups(s), entered[s].session, Applied)

ShareInv ==
  /\ entered \in [Securities -> Entry]
  /\ \A s \in HeldNow : Follows(s)

LEMMA SharesInit == EngineInit => ShareInv
<1> SUFFICES ASSUME EngineInit PROVE ShareInv
  OBVIOUS
<1>1. entered \in [Securities -> Entry]
  BY DEF EngineInit, NoEntry, Entry
<1>2. HeldNow = {}
  BY DEF EngineInit, HeldNow
<1> QED
  BY <1>1, <1>2 DEF ShareInv

(* A position that a step leaves alone still follows its splits.            *)
LEMMA StillFollows ==
  ASSUME NEW s \in Securities, Follows(s), phase # "failed", market' = market,
         positions'[s] = positions[s], entered'[s] = entered[s],
         phase' # "failed" => Applied' = Applied
  PROVE  Follows(s)'
BY DEF Follows, Ups, Downs

LEMMA QuietKeeps ==
  ASSUME ShareInv, phase # "failed", UNCHANGED <<market, positions, entered>>,
         phase' # "failed" => Applied' = Applied
  PROVE  ShareInv'
<1>1. HeldNow' = HeldNow /\ HeldNow \subseteq Securities
  BY DEF HeldNow
<1> QED
  BY <1>1, StillFollows DEF ShareInv

(* The products of a day take its split in; without a day they are 1.       *)
LEMMA DayProduct ==
  ASSUME OrderInv, NEW s \in Securities, NEW from \in Nat, NEW day \in Sessions, from < day
  PROVE  /\ Product(Ups(s), from, day) = Product(Ups(s), from, day - 1) * market[s][day].up
         /\ Product(Downs(s), from, day) = Product(Downs(s), from, day - 1) * market[s][day].down
<1>1. day \in 0 .. LastSession /\ LastSession \in Nat /\ ~ (day <= from)
  OBVIOUS
<1>2. Ups(s)[day] = market[s][day].up /\ Downs(s)[day] = market[s][day].down
  BY DEF Ups, Downs
<1>3. \A g : Product(g, from, day) = Product(g, from, day - 1) * g[day]
  BY <1>1, ProductUnfolds
<1> QED
  BY <1>2, <1>3

(* Products of splits are natural numbers.                                  *)
LEMMA ProductNat ==
  ASSUME NEW g \in [Sessions -> Nat], NEW from \in Nat, NEW last \in 0 .. LastSession
  PROVE  Product(g, from, last) \in Nat
<1> DEFINE N == {n \in Nat : n <= LastSession /\ Product(g, from, n) \notin Nat}
<1> SUFFICES ASSUME Product(g, from, last) \notin Nat PROVE FALSE
  OBVIOUS
<1>1. N \subseteq Nat /\ N # {}
  OBVIOUS
<1>2. PICK n \in N : \A m \in N : n <= m
  <2> HIDE DEF N
  <2> QED
    BY <1>1, Least
<1>3. n \in 0 .. LastSession /\ Product(g, from, n) \notin Nat /\ LastSession \in Nat
  OBVIOUS
<1>4. Product(g, from, n) = IF n <= from THEN 1 ELSE Product(g, from, n - 1) * g[n]
  BY <1>3, ProductUnfolds
<1>5. ~ (n <= from)
  BY <1>3, <1>4
<1>6. n - 1 \in Nat /\ n - 1 < n /\ n - 1 <= LastSession /\ n \in Sessions
  BY <1>3, <1>5
<1>7. n - 1 \notin N
  <2> HIDE DEF N
  <2> QED
    BY <1>1, <1>2, <1>6
<1>8. Product(g, from, n - 1) \in Nat /\ g[n] \in Nat
  BY <1>6, <1>7
<1> QED
  BY <1>3, <1>4, <1>5, <1>8

LEMMA ExactProduct ==
  ASSUME NEW m \in Nat, NEW d \in Nat \ {0}, m % d = 0
  PROVE  m \div d \in Int /\ (m \div d) * d = m
<1>1. m \div d \in Int /\ m = (m \div d) * d + (m % d)
  OBVIOUS
<1> DEFINE q == m \div d
<1>2. q \in Int /\ q * d = m
  BY <1>1
<1> QED
  BY <1>2

(* A split that leaves no fraction multiplies both sides of the equation.   *)
LEMMA SplitEquation ==
  ASSUME NEW n \in Nat, NEW u \in Nat \ {0}, NEW d \in Nat \ {0}, (n * u) % d = 0,
         NEW shares \in Nat, NEW ups \in Nat, NEW downs \in Nat, n * downs = shares * ups
  PROVE  ((n * u) \div d) * (downs * d) = shares * (ups * u)
<1> DEFINE m == n * u
           q == m \div d
<1>1. m \in Nat /\ m % d = 0
  OBVIOUS
<1>2. q \in Int /\ q * d = m
  <2> HIDE DEF m
  <2> QED
    BY ONLY <1>1, d \in Nat \ {0}, ExactProduct DEF q
<1> HIDE DEF q
<1>3. q * (downs * d) = (q * d) * downs
  BY <1>2
<1>4. (n * u) * downs = (n * downs) * u
  OBVIOUS
<1>5. (shares * ups) * u = shares * (ups * u)
  OBVIOUS
<1>6. q * (downs * d) = shares * (ups * u)
  BY <1>2, <1>3, <1>4, <1>5 DEF m
<1> QED
  BY <1>6 DEF q, m

LEMMA ActionsFollow == OrderInv /\ ShareInv /\ ApplyActions => ShareInv'
<1> SUFFICES ASSUME OrderInv, ShareInv, ApplyActions PROVE ShareInv'
  OBVIOUS
<1>1. phase = "actions"
  BY DEF ApplyActions
<1>2. CASE EndRun
  BY <1>1, <1>2, QuietKeeps DEF EndRun, Goto
<1>3. CASE ~ EndRun
  <2>1. /\ \A s \in HeldNow : Splits(s)
        /\ positions' = [s \in Securities |->
                           IF s \in HeldNow THEN AfterSplit(s) ELSE positions[s]]
        /\ phase' = "fills"
        /\ UNCHANGED <<market, session, entered>>
    BY <1>3 DEF ApplyActions, Goto
  <2>2. session \in Sessions /\ positions \in [Securities -> Nat] /\ Applied = session - 1
        /\ Applied' = session
    BY <1>1, <2>1 DEF OrderInv, Shapes, Applied
  <2>3. HeldNow' \subseteq HeldNow
    BY <2>1 DEF HeldNow
  <2>4. ASSUME NEW s \in HeldNow PROVE Follows(s)'
    <3>1. s \in Securities
      BY DEF HeldNow
    <3> DEFINE from == entered[s].session
               n == positions[s]
               u == Today(s).up
               d == Today(s).down
               ups == Product(Ups(s), from, session - 1)
               downs == Product(Downs(s), from, session - 1)
               shares == entered[s].shares
    <3>2. /\ from \in Nat /\ shares \in Nat /\ shares > 0 /\ from <= session - 1
          /\ n * downs = shares * ups
      BY <1>1, <2>2, <3>1 DEF ShareInv, Follows, Entry
    <3>3. n \in Nat /\ u \in Nat \ {0} /\ d \in Nat \ {0} /\ (n * u) % d = 0
      BY <2>1, <2>2, <3>1, QuoteShape DEF OrderInv, Shapes, Quote, Splits
    <3>4. Ups(s) \in [Sessions -> Nat] /\ Downs(s) \in [Sessions -> Nat]
      <4>1. \A e \in Sessions : market[s][e] \in Quote
        BY <3>1 DEF OrderInv, Shapes
      <4> QED
        BY <4>1 DEF Ups, Downs, Quote
    <3>5. ups \in Nat /\ downs \in Nat
      <4>1. session - 1 \in 0 .. LastSession
        BY <2>2
      <4>2. \A g \in [Sessions -> Nat] : Product(g, from, session - 1) \in Nat
        BY <3>2, <4>1, ProductNat
      <4> QED
        BY <3>4, <4>2
    <3>6. /\ Product(Ups(s), from, session) = ups * u
          /\ Product(Downs(s), from, session) = downs * d
      <4>1. from < session
        BY <2>2, <3>2
      <4>2. PICK f \in Nat : f = from
        BY <3>2
      <4>3. /\ Product(Ups(s), f, session)
                 = Product(Ups(s), f, session - 1) * market[s][session].up
            /\ Product(Downs(s), f, session)
                 = Product(Downs(s), f, session - 1) * market[s][session].down
        <5>1. f < session
          BY <4>1, <4>2
        <5> HIDE DEF from, n, u, d, ups, downs, shares
        <5> QED
          BY <2>2, <3>1, <5>1, DayProduct
      <4> QED
        BY <4>2, <4>3 DEF Today
    <3>7. positions'[s] = (n * u) \div d
      BY <2>1, <3>1 DEF AfterSplit
    <3> HIDE DEF from, n, u, d, ups, downs, shares
    <3>8. ((n * u) \div d) * (downs * d) = shares * (ups * u)
      BY <3>2, <3>3, <3>5, SplitEquation
    <3>9. positions'[s] * Product(Downs(s), from, session)
            = shares * Product(Ups(s), from, session)
      BY <3>6, <3>7, <3>8
    <3>10. Ups(s)' = Ups(s) /\ Downs(s)' = Downs(s) /\ entered' = entered
      BY <2>1 DEF Ups, Downs
    <3>11. from <= session /\ shares > 0
      BY <2>2, <3>2
    <3> QED
      BY <2>2, <3>9, <3>10, <3>11 DEF Follows, from, shares
  <2> QED
    BY <2>1, <2>3, <2>4 DEF ShareInv
<1> QED
  BY <1>2, <1>3

(* A new position follows no split yet; a sold one is none.                 *)
LEMMA FillFollows ==
  ASSUME NEW s \in Securities PROVE OrderInv /\ ShareInv /\ FillOrder(s) => ShareInv'
<1> SUFFICES ASSUME OrderInv, ShareInv, FillOrder(s) PROVE ShareInv'
  OBVIOUS
<1>1. phase = "fills" /\ UNCHANGED <<market, session>> /\ session \in Sessions
      /\ positions \in [Securities -> Nat] /\ entered \in [Securities -> Entry]
  BY DEF FillOrder, OrderInv, Shapes, ShareInv
<1>2. CASE UNCHANGED <<positions, entered>> /\ phase' \in {phase, "failed"}
  BY <1>1, <1>2, QuietKeeps DEF Applied
<1>3. ASSUME NEW count \in Nat, NEW entry \in Entry, phase' = phase,
             positions' = [positions EXCEPT ![s] = count],
             entered' = [entered EXCEPT ![s] = entry],
             count > 0 => Follows(s)'
      PROVE  ShareInv'
  <2>1. \A t \in Securities \ {s} : positions'[t] = positions[t] /\ entered'[t] = entered[t]
    BY <1>1, <1>3
  <2>2. entered' \in [Securities -> Entry] /\ positions'[s] = count /\ Applied' = Applied
    BY <1>1, <1>3 DEF Applied
  <2>3. ASSUME NEW t \in HeldNow', t # s PROVE Follows(t)'
    <3>1. t \in Securities /\ t \in HeldNow
      BY <2>1, <2>3 DEF HeldNow
    <3> QED
      BY <1>1, <2>1, <2>2, <2>3, <3>1, StillFollows DEF ShareInv
  <2>4. s \in HeldNow' => Follows(s)'
    BY <1>3, <2>2 DEF HeldNow
  <2> QED
    BY <2>2, <2>3, <2>4 DEF ShareInv
<1>4. CASE FillSell(s)
  <2>1. \/ UNCHANGED <<positions, entered>> /\ phase' \in {phase, "failed"}
        \/ /\ positions' = [positions EXCEPT ![s] = 0]
           /\ entered' = [entered EXCEPT ![s] = NoEntry]
           /\ phase' = phase
    BY <1>4, SellCases
  <2>2. NoEntry \in Entry
    BY DEF NoEntry, Entry
  <2> QED
    BY <1>2, <1>3, <2>1, <2>2
<1>5. CASE FillBuy(s)
  <2>1. ASSUME NEW count \in Nat \ {0}, phase' = phase,
               positions' = [positions EXCEPT ![s] = count],
               entered' = [entered EXCEPT ![s] = [session |-> session, shares |-> count]]
        PROVE  ShareInv'
    <3>1. session \in Nat /\ session \in 0 .. LastSession /\ LastSession \in Nat /\ session <= session
      BY <1>1
    <3>2. \A g : Product(g, session, session) = 1
      BY <3>1, ProductUnfolds
    <3>3. Applied' = session /\ phase' # "failed"
      BY <1>1, <2>1 DEF Applied
    <3>4. positions'[s] = count /\ entered'[s] = [session |-> session, shares |-> count]
      BY <1>1, <2>1
    <3>5. entered'[s].session = session /\ entered'[s].shares = count
      BY <3>4
    <3>6. Follows(s)'
      BY <3>1, <3>2, <3>3, <3>4, <3>5 DEF Follows
    <3>7. [session |-> session, shares |-> count] \in Entry
      BY <3>1 DEF Entry
    <3> QED
      BY <1>3, <2>1, <3>6, <3>7
  <2>2. \/ UNCHANGED <<positions, entered>> /\ phase' \in {phase, "failed"}
        \/ \E count \in Nat \ {0} :
             /\ positions' = [positions EXCEPT ![s] = count]
             /\ entered' = [entered EXCEPT ![s] = [session |-> session, shares |-> count]]
             /\ phase' = phase
    BY <1>5, BuyCases
  <2> QED
    BY <1>2, <2>1, <2>2
<1>6. CASE Goto("failed") /\ UNCHANGED <<funds, positions, entered>>
  BY <1>2, <1>6 DEF Goto
<1> QED
  BY <1>4, <1>5, <1>6 DEF FillOrder

LEMMA SharesStep == OrderInv /\ ShareInv /\ [EngineNext]_engine => ShareInv'
<1> SUFFICES ASSUME OrderInv, ShareInv, [EngineNext]_engine PROVE ShareInv'
  OBVIOUS
<1>1. CASE UNCHANGED engine
  BY <1>1 DEF engine, ShareInv, HeldNow, Follows, Applied, Ups, Downs
<1>2. CASE Abort
  BY <1>2, QuietKeeps DEF Abort, EndRun, Goto
<1>3. CASE Value
  BY <1>3, QuietKeeps DEF Value, EndRun, Goto, Applied
<1>4. CASE Advance
  <2>1. Applied' = Applied
    BY <1>4 DEF Advance, Goto, Applied, OrderInv, Shapes
  <2> QED
    BY <1>4, <2>1, QuietKeeps DEF Advance, Goto
<1>5. CASE \E s \in Securities : FillOrder(s)
  BY <1>5, FillFollows
<1>6. CASE \E sales, purchases \in SUBSET Securities : ProcessSignals(sales, purchases)
  BY <1>6, QuietKeeps DEF ProcessSignals, Schedule, EndRun, Goto, Applied
<1> QED
  BY <1>1, <1>2, <1>3, <1>4, <1>5, <1>6, ActionsFollow DEF EngineNext

(* What is held is what was bought, times every split since the entry and   *)
(* not the split of the entry's own session, which its price already has.   *)
THEOREM SharesAlwaysFollowSplits == EngineSpec => []SharesFollowSplits
<1>1. EngineInit => OrderInv /\ ShareInv
  BY OrdersInit, SharesInit
<1>2. OrderInv /\ ShareInv /\ [EngineNext]_engine => OrderInv' /\ ShareInv'
  BY OrdersStep, SharesStep
<1>3. OrderInv /\ ShareInv => SharesFollowSplits
  BY DEF ShareInv, Follows, Applied, Ups, Downs, SharesFollowSplits, SplitUp, SplitDown
<1> QED
  BY <1>1, <1>2, <1>3, PTL DEF EngineSpec

-----------------------------------------------------------------------------
(* The snapshot months.                                                     *)

Fields ==
  {"stage", "profile", "update", "left", "month", "end", "cache", "looked",
   "predecessor", "source", "draft", "adopted"}

(* The months stay a sequence and the workers records.                      *)
MonthShapes ==
  /\ months \in Seq(Range(months))
  /\ DOMAIN child = Children
  /\ \A c \in Children : DOMAIN child[c] = Fields

(* What a worker carries is good for its data version, which is one of the  *)
(* code that is deployed: the evidence, the months it may adopt from and    *)
(* what it is about to commit.                                              *)
GoodWork(w, known, policy) ==
  w.stage # "idle" =>
    /\ w.profile.policy = policy
    /\ \A q \in w.predecessor : q.policy = policy
    /\ \A i \in w.source : i \in DOMAIN known /\ known[i].profile.policy = policy
    /\ \A r \in w.cache : r.symbol = Symbol(w.profile, r.id) /\ r.alias = w.profile.alias
    /\ w.stage = "commit" => AsRebuilt(w.profile, w.draft)

MonthsInv ==
  /\ MonthShapes
  /\ MonthsAsRebuilt
  /\ \A c \in Children : GoodWork(child[c], months, runtime)

-----------------------------------------------------------------------------

(* A sequence grows at its end only.                                        *)
LEMMA Appended ==
  ASSUME NEW s, s \in Seq(Range(s)), NEW e
  PROVE  /\ Append(s, e) \in Seq(Range(Append(s, e)))
         /\ DOMAIN Append(s, e) = DOMAIN s \cup {Len(s) + 1}
         /\ \A i \in DOMAIN s : Append(s, e)[i] = s[i]
         /\ Append(s, e)[Len(s) + 1] = e
<1> DEFINE S == Range(s) \cup {e}
           t == Append(s, e)
<1>1. s \in Seq(S)
  BY DEF S
<1>2. /\ t \in Seq(S) /\ Len(t) = Len(s) + 1 /\ Len(s) \in Nat
      /\ DOMAIN s = 1 .. Len(s) /\ DOMAIN t = 1 .. Len(t)
      /\ \A i \in 1 .. Len(s) : t[i] = s[i]
      /\ t[Len(s) + 1] = e
  BY <1>1
<1>3. \A i \in 1 .. Len(t) : t[i] \in Range(t)
  BY <1>2 DEF Range
<1>4. t \in Seq(Range(t))
  BY <1>2, <1>3
<1> QED BY <1>2, <1>4

(* A new month that is as a rebuild would have it leaves all in order.      *)
LEMMA OneMoreMonth ==
  ASSUME MonthsInv, NEW new, AsRebuilt(new.profile, new.members),
         months' = Append(months, new)
  PROVE  /\ months' \in Seq(Range(months'))
         /\ MonthsAsRebuilt'
         /\ \A w : GoodWork(w, months, runtime) => GoodWork(w, months', runtime)
<1>1. /\ months' \in Seq(Range(months'))
      /\ DOMAIN months' = DOMAIN months \cup {Len(months) + 1}
      /\ \A i \in DOMAIN months : months'[i] = months[i]
      /\ months'[Len(months) + 1] = new
  BY Appended DEF MonthsInv, MonthShapes
<1>2. \A i \in DOMAIN months' : AsRebuilt(months'[i].profile, months'[i].members)
  BY <1>1, Zenon DEF MonthsInv, MonthsAsRebuilt
<1>3. MonthsAsRebuilt'
  BY <1>2 DEF MonthsAsRebuilt, AsRebuilt, Symbol
<1>4. \A w : GoodWork(w, months, runtime) => GoodWork(w, months', runtime)
  BY <1>1 DEF GoodWork
<1> QED BY <1>1, <1>3, <1>4

(* A worker that becomes another good one disturbs nobody.                  *)
LEMMA OneBecomes ==
  ASSUME MonthsInv, NEW c \in Children, NEW w, Become(c, w),
         DOMAIN w = Fields, GoodWork(w, months, runtime),
         UNCHANGED <<months, runtime>>
  PROVE  MonthsInv'
<1>1. DOMAIN child' = Children /\ child'[c] = w
      /\ \A d \in Children \ {c} : child'[d] = child[d]
  BY DEF MonthsInv, MonthShapes, Become
<1>2. \A d \in Children : DOMAIN child'[d] = Fields /\ GoodWork(child'[d], months, runtime)
  BY <1>1, Zenon DEF MonthsInv, MonthShapes
<1>3. \A d \in Children : GoodWork(child[d], months, runtime)'
  BY <1>2 DEF GoodWork, AsRebuilt, Symbol
<1>4. MonthShapes'
  BY <1>1, <1>2 DEF MonthsInv, MonthShapes, Range
<1>5. MonthsAsRebuilt'
  BY DEF MonthsInv, MonthsAsRebuilt, AsRebuilt, Symbol
<1> QED BY <1>3, <1>4, <1>5 DEF MonthsInv

(* Nobody is at work in an unborn one.                                      *)
LEMMA UnbornGood == DOMAIN Unborn = Fields /\ GoodWork(Unborn, months, runtime)
BY DEF Unborn, Fields, GoodWork

-----------------------------------------------------------------------------

LEMMA BootKept ==
  ASSUME MonthsInv, NEW c \in Children, NEW p \in Profiles, NEW update \in BOOLEAN,
         Boot(c, p, update)
  PROVE  MonthsInv'
<1> DEFINE w == [Unborn EXCEPT !.stage = "months", !.profile = p, !.update = update,
                               !.left = {m \in Months : m < clock}]
<1>1. DOMAIN w = Fields /\ GoodWork(w, months, runtime)
  BY DEF Boot, Unborn, Fields, GoodWork
<1>2. Become(c, w) /\ UNCHANGED <<months, runtime>>
  BY DEF Boot
<1> HIDE DEF w
<1> QED BY <1>1, <1>2, OneBecomes

(* What is adopted from belongs to a predecessor that passed the gate.      *)
LEMMA NextMonthKept ==
  ASSUME MonthsInv, NEW c \in Children, NextMonth(c)
  PROVE  MonthsInv'
<1> DEFINE w == child[c]
           m == Min(w.left)
           skipped == [w EXCEPT !.left = @ \ {m}]
           begun == [w EXCEPT !.stage = "gather", !.month = m, !.end = clock,
                              !.looked = TRUE, !.predecessor = Predecessor(c),
                              !.source = UNION {Stored(q, m) : q \in Predecessor(c)}]
<1>1. w.stage = "months" /\ DOMAIN w = Fields /\ GoodWork(w, months, runtime)
  BY DEF NextMonth, MonthsInv, MonthShapes
<1>2. w.profile.policy = runtime
  BY <1>1 DEF GoodWork
<1>3. \A q \in Predecessor(c) : q.policy = runtime
  BY <1>1, <1>2 DEF Predecessor, Gate, GoodWork
<1>4. \A q : \A i \in Stored(q, m) : i \in DOMAIN months /\ months[i].profile = q
  BY DEF Stored
<1>5. DOMAIN skipped = Fields /\ GoodWork(skipped, months, runtime)
  BY <1>1 DEF Fields, GoodWork
<1>6. DOMAIN begun = Fields /\ GoodWork(begun, months, runtime)
  <2>1. /\ DOMAIN begun = Fields
        /\ begun.stage = "gather" /\ begun.profile = w.profile /\ begun.cache = w.cache
        /\ begun.predecessor = Predecessor(c)
        /\ begun.source = UNION {Stored(q, m) : q \in Predecessor(c)}
    BY <1>1 DEF Fields
  <2> HIDE DEF begun, w, m
  <2>2. \A i \in begun.source : i \in DOMAIN months /\ months[i].profile.policy = runtime
    BY <2>1, <1>3, <1>4
  <2> QED BY <2>1, <2>2, <1>1, <1>3 DEF GoodWork
<1>7. UNCHANGED <<months, runtime>>
  BY DEF NextMonth
<1>8. Become(c, Unborn) \/ Become(c, skipped) \/ Become(c, begun)
  BY DEF NextMonth, Die
<1> HIDE DEF w, m, skipped, begun
<1> QED BY <1>5, <1>6, <1>7, <1>8, UnbornGood, OneBecomes

(* Evidence that is found was asked for under the worker's own aliases.     *)
LEMMA FindRequestKept ==
  ASSUME MonthsInv, NEW c \in Children, FindRequest(c)
  PROVE  MonthsInv'
<1> DEFINE w == child[c]
           id == Min(Missing(w))
           found == {i \in DOMAIN evidence :
                       Asked(w, id, evidence[i]) /\ evidence[i].alias = w.profile.alias}
           asking == [w EXCEPT !.stage = "fetch"]
           pinned == [w EXCEPT !.cache = @ \cup Oldest(found)]
<1>1. w.stage = "gather" /\ DOMAIN w = Fields /\ GoodWork(w, months, runtime)
  BY DEF FindRequest, MonthsInv, MonthShapes
<1>2. \A r \in Oldest(found) : r.symbol = Symbol(w.profile, r.id) /\ r.alias = w.profile.alias
  BY DEF Oldest, Asked
<1>3. DOMAIN asking = Fields /\ GoodWork(asking, months, runtime)
  BY <1>1 DEF Fields, GoodWork
<1>4. DOMAIN pinned = Fields /\ GoodWork(pinned, months, runtime)
  <2> HIDE DEF found, id
  <2>1. /\ DOMAIN pinned = Fields
        /\ pinned.stage = w.stage /\ pinned.profile = w.profile
        /\ pinned.predecessor = w.predecessor /\ pinned.source = w.source
        /\ pinned.cache = w.cache \cup Oldest(found)
    BY <1>1 DEF Fields
  <2> QED BY <2>1, <1>1, <1>2 DEF GoodWork
<1>5. UNCHANGED <<months, runtime>>
  BY DEF FindRequest
<1>6. Become(c, asking) \/ Become(c, pinned)
  BY DEF FindRequest
<1> HIDE DEF w, id, found, asking, pinned
<1> QED BY <1>3, <1>4, <1>5, <1>6, OneBecomes

LEMMA FetchKept ==
  ASSUME MonthsInv, NEW c \in Children, Fetch(c)
  PROVE  MonthsInv'
<1> DEFINE w == child[c]
           id == Min(Missing(w))
           filed(rows) == Revision(w.profile, id, w.end, rows)
           pinned(rows) == [w EXCEPT !.stage = "gather", !.cache = @ \cup {filed(rows)}]
<1>1. w.stage = "fetch" /\ DOMAIN w = Fields /\ GoodWork(w, months, runtime)
  BY DEF Fetch, MonthsInv, MonthShapes
<1>2. \A rows : DOMAIN pinned(rows) = Fields /\ GoodWork(pinned(rows), months, runtime)
  <2> TAKE rows
  <2>1. filed(rows).symbol = Symbol(w.profile, filed(rows).id)
        /\ filed(rows).alias = w.profile.alias
    BY DEF Revision
  <2> HIDE DEF filed, id
  <2>2. /\ DOMAIN pinned(rows) = Fields
        /\ pinned(rows).stage = "gather" /\ pinned(rows).profile = w.profile
        /\ pinned(rows).predecessor = w.predecessor /\ pinned(rows).source = w.source
        /\ pinned(rows).cache = w.cache \cup {filed(rows)}
    BY <1>1 DEF Fields
  <2> QED BY <2>1, <2>2, <1>1 DEF GoodWork
<1>3. (\E rows : Become(c, pinned(rows))) /\ UNCHANGED <<months, runtime>>
  BY DEF Fetch
<1> HIDE DEF w, id, filed, pinned
<1> QED BY <1>2, <1>3, OneBecomes

(* A carried result was computed from the pinned revision under the policy  *)
(* of the code, as the scan of a fresh member is.                           *)
LEMMA ResolveKept ==
  ASSUME MonthsInv, NEW c \in Children, Resolve(c)
  PROVE  MonthsInv'
<1> DEFINE w == child[c]
           members == [id \in DOMAIN w.profile.roster |->
                         [revision |-> Pinned(w, id), result |-> Result(w, id, Pinned(w, id))]]
           ready == [w EXCEPT !.stage = "commit", !.draft = members, !.adopted = Adopted(w)]
<1>1. w.stage = "gather" /\ DOMAIN w = Fields /\ GoodWork(w, months, runtime)
  BY DEF Resolve, MonthsInv, MonthShapes
<1>2. w.profile.policy = runtime
  BY <1>1 DEF GoodWork
<1>3. ASSUME NEW id \in DOMAIN w.profile.roster
      PROVE  /\ members[id].revision.symbol = Symbol(w.profile, id)
             /\ members[id].revision.alias = w.profile.alias
             /\ members[id].result = Detect[w.profile.policy][id][members[id].revision.rows]
  <2> DEFINE r == Pinned(w, id)
             source == CHOOSE i \in Carried(w, id, r) : TRUE
  <2>1. Cached(w, id) # {}
    BY DEF Resolve, Missing
  <2>2. r \in w.cache /\ r.id = id
    BY <2>1 DEF Pinned, Cached
  <2>3. r.symbol = Symbol(w.profile, id) /\ r.alias = w.profile.alias
    BY <2>2, <1>1 DEF GoodWork
  <2>4. members[id].revision = r /\ members[id].result = Result(w, id, r)
    OBVIOUS
  <2> HIDE DEF r, members
  <2>5. CASE Carried(w, id, r) = {}
    BY <2>5, <2>4, <2>3, <1>2 DEF Result, Scanned
  <2>6. CASE Carried(w, id, r) # {}
    <3>1. source \in Carried(w, id, r)
      BY <2>6
    <3> HIDE DEF source
    <3>2. /\ source \in w.source
          /\ id \in DOMAIN months[source].members
          /\ months[source].members[id].revision = r
      BY <3>1 DEF Carried, SameRevision
    <3>3. source \in DOMAIN months /\ months[source].profile.policy = runtime
      BY <3>2, <1>1 DEF GoodWork
    <3>4. months[source].members[id].result = Detect[runtime][id][r.rows]
      BY <3>2, <3>3 DEF MonthsInv, MonthsAsRebuilt, AsRebuilt
    <3>5. Result(w, id, r) = months[source].members[id].result
      BY <2>6 DEF Result, source
    <3> QED BY <3>4, <3>5, <2>3, <2>4, <1>2
  <2> QED BY <2>5, <2>6
<1>4. AsRebuilt(w.profile, members)
  <2>1. DOMAIN members = DOMAIN w.profile.roster
    OBVIOUS
  <2> HIDE DEF members
  <2> QED BY <2>1, <1>3 DEF AsRebuilt
<1>5. DOMAIN ready = Fields /\ GoodWork(ready, months, runtime)
  <2> HIDE DEF members
  <2>1. /\ DOMAIN ready = Fields
        /\ ready.stage = "commit" /\ ready.profile = w.profile
        /\ ready.predecessor = w.predecessor /\ ready.source = w.source
        /\ ready.cache = w.cache /\ ready.draft = members
    BY <1>1 DEF Fields
  <2> QED BY <2>1, <1>1, <1>4 DEF GoodWork
<1>6. Become(c, ready) /\ UNCHANGED <<months, runtime>>
  BY DEF Resolve
<1> HIDE DEF w, members, ready
<1> QED BY <1>5, <1>6, OneBecomes

-----------------------------------------------------------------------------

(* The other workers keep their sources: months are only added.             *)
LEMMA CommitKept ==
  ASSUME MonthsInv, NEW c \in Children, Commit(c)
  PROVE  MonthsInv'
<1> DEFINE w == child[c]
           new == Month(w.profile, w.month, "reconstructed", w.draft, w.adopted)
           rest == [w EXCEPT !.stage = "months", !.left = @ \ {w.month}, !.draft = <<>>]
<1>1. w.stage = "commit" /\ DOMAIN w = Fields /\ GoodWork(w, months, runtime)
  BY DEF Commit, MonthsInv, MonthShapes
<1>2. new.profile = w.profile /\ new.members = w.draft
  BY DEF Month
<1>3. AsRebuilt(new.profile, new.members)
  BY <1>1, <1>2 DEF GoodWork
<1>4. months' = Append(months, new) /\ Become(c, rest) /\ runtime' = runtime
  BY DEF Commit, Insert
<1>5. DOMAIN rest = Fields /\ GoodWork(rest, months, runtime)
  BY <1>1 DEF Fields, GoodWork
<1> HIDE DEF w, new, rest
<1>6. /\ months' \in Seq(Range(months'))
      /\ MonthsAsRebuilt'
      /\ \A v : GoodWork(v, months, runtime) => GoodWork(v, months', runtime)
  BY <1>3, <1>4, OneMoreMonth
<1>7. DOMAIN child' = Children /\ child'[c] = rest
      /\ \A d \in Children \ {c} : child'[d] = child[d]
  BY <1>4 DEF MonthsInv, MonthShapes, Become
<1>8. \A d \in Children : DOMAIN child'[d] = Fields /\ GoodWork(child'[d], months', runtime)
  BY <1>5, <1>6, <1>7, Zenon DEF MonthsInv, MonthShapes
<1>9. \A d \in Children : GoodWork(child[d], months, runtime)'
  BY <1>8, <1>4 DEF GoodWork, AsRebuilt, Symbol
<1>10. MonthShapes'
  BY <1>6, <1>7, <1>8 DEF MonthShapes, Range
<1> QED BY <1>6, <1>9, <1>10 DEF MonthsInv

(* A promoted month is scanned by the code that is deployed.                *)
LEMMA PromoteRunKept ==
  ASSUME MonthsInv, NEW m \in Months, NEW rows, PromoteRun(m, rows)
  PROVE  MonthsInv'
<1> DEFINE p == Active
           seen == [id \in DOMAIN p.roster |->
                      [Revision(p, id, m + 1, rows[id]) EXCEPT !.observed = TRUE]]
           members == [id \in DOMAIN p.roster |->
                         [revision |-> seen[id], result |-> Scanned(id, seen[id])]]
           new == Month(p, m, "observed", members, {})
<1>1. new.profile = p /\ new.members = members
  BY DEF Month
<1>2. \A id \in DOMAIN p.roster :
        seen[id].symbol = Symbol(p, id) /\ seen[id].alias = p.alias
  BY DEF Revision
<1>3. p.policy = runtime
  BY DEF PromoteRun, Promotable
<1>4. DOMAIN members = DOMAIN p.roster
      /\ \A id \in DOMAIN p.roster :
           /\ members[id].revision = seen[id]
           /\ members[id].result = Detect[p.policy][id][seen[id].rows]
  BY <1>3 DEF Scanned
<1>5. months' = Append(months, new) /\ UNCHANGED <<runtime, child>>
  BY DEF PromoteRun, Insert
<1> HIDE DEF p, seen, members, new
<1>6. AsRebuilt(new.profile, new.members)
  BY <1>1, <1>2, <1>4 DEF AsRebuilt
<1>7. /\ months' \in Seq(Range(months'))
      /\ MonthsAsRebuilt'
      /\ \A w : GoodWork(w, months, runtime) => GoodWork(w, months', runtime)
  BY <1>5, <1>6, OneMoreMonth
<1>8. \A d \in Children : GoodWork(child[d], months, runtime)'
  BY <1>5, <1>7, ZenonT(40) DEF MonthsInv, GoodWork, AsRebuilt, Symbol
<1>9. MonthShapes'
  BY <1>5, <1>7 DEF MonthsInv, MonthShapes, Range
<1> QED BY <1>7, <1>8, <1>9 DEF MonthsInv

LEMMA LeaveKept ==
  ASSUME MonthsInv, NEW c \in Children, Leave(c)
  PROVE  MonthsInv'
<1>1. Become(c, Unborn) /\ UNCHANGED <<months, runtime>>
  BY DEF Leave, Die
<1> QED BY <1>1, UnbornGood, OneBecomes

(* New code finds nobody at work.                                           *)
LEMMA DeployKept ==
  ASSUME MonthsInv, NEW policy \in Policies, Deploy(policy)
  PROVE  MonthsInv'
<1>1. \A c \in Children : GoodWork(child[c], months, runtime)'
  BY DEF Deploy, GoodWork
<1> QED BY <1>1, SMTT(30) DEF Deploy, MonthsInv, MonthShapes, Range, MonthsAsRebuilt, AsRebuilt, Symbol

(* The claim, the clock and the activations change nothing of it.           *)
LEMMA OthersKept ==
  ASSUME MonthsInv, UNCHANGED <<months, runtime, child>>
  PROVE  MonthsInv'
<1>1. \A c \in Children : GoodWork(child[c], months, runtime)'
  BY DEF MonthsInv, GoodWork, AsRebuilt, Symbol
<1>2. MonthShapes' /\ MonthsAsRebuilt'
  BY SMTT(30) DEF MonthsInv, MonthShapes, Range, MonthsAsRebuilt, AsRebuilt, Symbol
<1> QED BY <1>1, <1>2 DEF MonthsInv

-----------------------------------------------------------------------------

LEMMA MonthsInvInit == MonthsInit => MonthsInv
<1> SUFFICES ASSUME MonthsInit PROVE MonthsInv
  OBVIOUS
<1>1. months = <<>> /\ child = [c \in Children |-> Unborn]
  BY DEF MonthsInit
<1>2. \A c \in Children : child[c] = Unborn
  BY <1>1
<1> QED BY <1>1, <1>2, UnbornGood DEF MonthsInv, MonthShapes, MonthsAsRebuilt

LEMMA MonthsInvStep == MonthsInv /\ [MonthsNext]_vault => MonthsInv'
<1> SUFFICES ASSUME MonthsInv, [MonthsNext]_vault PROVE MonthsInv'
  OBVIOUS
<1>1. ASSUME NEW c \in Children, NEW p \in Profiles, NEW update \in BOOLEAN, Boot(c, p, update)
      PROVE  MonthsInv'
  BY <1>1, BootKept
<1>2. ASSUME NEW c \in Children,
             NextMonth(c) \/ FindRequest(c) \/ Fetch(c) \/ Resolve(c) \/ Commit(c) \/ Leave(c)
      PROVE  MonthsInv'
  BY <1>2, NextMonthKept, FindRequestKept, FetchKept, ResolveKept, CommitKept, LeaveKept
<1>3. ASSUME NEW m \in Months, NEW rows, PromoteRun(m, rows) PROVE MonthsInv'
  BY <1>3, PromoteRunKept
<1>4. CASE Interrupt \/ MonthEnds \/ (\E p \in Profiles : Activate(p))
  BY <1>4, OthersKept DEF Interrupt, MonthEnds, Activate
<1>5. ASSUME NEW policy \in Policies, Deploy(policy) PROVE MonthsInv'
  BY <1>5, DeployKept
<1>6. CASE UNCHANGED vault
  BY <1>6, OthersKept DEF vault
<1> QED BY <1>1, <1>2, <1>3, <1>4, <1>5, <1>6 DEF MonthsNext

(* Every member of every snapshot month has the result that a rebuild under *)
(* the month's own data version would compute, whoever wrote the month and  *)
(* whatever was adopted for it.                                             *)
THEOREM MonthsAlwaysAsRebuilt == MonthsSpec => []MonthsAsRebuilt
<1>1. MonthsInv => MonthsAsRebuilt
  BY DEF MonthsInv
<1> QED BY MonthsInvInit, MonthsInvStep, <1>1, PTL DEF MonthsSpec

=============================================================================
