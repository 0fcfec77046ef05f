------------------------- MODULE LedgerHolds_proofs -------------------------
(***************************************************************************)
(* Proofs about LedgerHolds.  The argument about types, debts and the      *)
(* boundary is about one account: what the operators of module Ledger and  *)
(* Freed make of a good account is a good account.  The argument about the *)
(* counters is about one row: a step moves it, and sums over the rows and  *)
(* the counters follow.                                                    *)
(***************************************************************************)
EXTENDS LedgerHolds, FiniteSetTheorems, WellFoundedInduction, TLAPS

-----------------------------------------------------------------------------
(***************************************************************************)
(* Finite sums.  The prover cannot instantiate an induction theorem, so    *)
(* each of these goes by a smallest counterexample.                        *)
(***************************************************************************)
Any(s) == CHOOSE x \in s : TRUE

\* The recursion that the library's sum is the value of, on the subsets of U.
Summing(it, U, f) ==
  it = [s \in SUBSET U |-> IF s = {} THEN 0 ELSE f[Any(s)] + it[s \ {Any(s)}]]

\* The library's sum is the value of a function that satisfies the recursion.
LEMMA SumIsChosen ==
  ASSUME NEW f, NEW S
  PROVE  SumFunctionOnSet(f, S) = (CHOOSE it : Summing(it, S, f))[S]
BY DEF SumFunctionOnSet, FoldFunctionOnSet, MapThenFoldSet, Summing, Any

\* A set of subsets of a finite set has a smallest element.
LEMMA Smallest ==
  ASSUME NEW S, IsFiniteSet(S), NEW T, T \subseteq SUBSET S, T # {}
  PROVE  \E m \in T : \A s \in T : s \subseteq m => s = m
<1>1. IsWellFoundedOn(StrictSubsetOrdering(S), SUBSET S)
  BY FS_StrictSubsetOrderingWellFounded, FS_FiniteSubsetsOfFinite
<1>2. PICK m \in T : \A s \in T : <<s, m>> \notin StrictSubsetOrdering(S)
  BY <1>1, WFMin
<1>3. \A s \in T : s \subseteq m => s = m
  BY <1>2 DEF StrictSubsetOrdering
<1> QED
  BY <1>3

\* Two functions that satisfy the recursion agree where both are defined.
LEMMA SummingAgrees ==
  ASSUME NEW f, NEW U, NEW V, NEW i, NEW j, Summing(i, U, f), Summing(j, V, f),
         NEW S, S \subseteq U, S \subseteq V, IsFiniteSet(S)
  PROVE  i[S] = j[S]
<1> DEFINE T == {s \in SUBSET S : i[s] # j[s]}
<1> SUFFICES ASSUME T # {}  PROVE FALSE
  OBVIOUS
<1>1. PICK m \in T : \A s \in T : s \subseteq m => s = m
  <2>1. T \subseteq SUBSET S
    OBVIOUS
  <2> HIDE DEF T
  <2> QED
    BY <2>1, Smallest
<1>2. m \in SUBSET U /\ m \in SUBSET V /\ i[m] # j[m]
  OBVIOUS
<1>3. /\ i[m] = IF m = {} THEN 0 ELSE f[Any(m)] + i[m \ {Any(m)}]
      /\ j[m] = IF m = {} THEN 0 ELSE f[Any(m)] + j[m \ {Any(m)}]
  BY <1>2 DEF Summing
<1>4. m # {} => Any(m) \in m
  BY DEF Any
<1>5. m # {} => i[m \ {Any(m)}] = j[m \ {Any(m)}]
  BY <1>1, <1>4
<1> QED
  BY <1>2, <1>3, <1>5

\* The recursion has a solution on a finite set.
LEMMA SummingExists ==
  ASSUME NEW f, NEW U, IsFiniteSet(U)
  PROVE  \E it : Summing(it, U, f)
<1> DEFINE T == {s \in SUBSET U : ~ \E it : Summing(it, s, f)}
<1> SUFFICES ASSUME T # {}  PROVE FALSE
  OBVIOUS
<1>1. PICK m \in T : \A s \in T : s \subseteq m => s = m
  <2>1. T \subseteq SUBSET U
    OBVIOUS
  <2> HIDE DEF T
  <2> QED
    BY <2>1, Smallest
<1>2. m \in SUBSET U /\ IsFiniteSet(m)
  BY FS_Subset
<1> DEFINE It(s) == CHOOSE it : Summing(it, s, f)
<1>3. \A s \in SUBSET m : s # m => Summing(It(s), s, f)
  BY <1>1, <1>2
<1> DEFINE rest(s) == s \ {Any(s)}
           jt == [s \in SUBSET m |-> IF s = {} THEN 0 ELSE f[Any(s)] + It(rest(s))[rest(s)]]
<1>4. ASSUME NEW s \in SUBSET m, s # {}  PROVE jt[rest(s)] = It(rest(s))[rest(s)]
  <2> DEFINE q == rest(s)
  <2>1. Any(s) \in s
    BY <1>4 DEF Any
  <2>2. q \in SUBSET m /\ q # m /\ IsFiniteSet(q)
    BY <1>2, <2>1, FS_Subset
  <2>3. Summing(It(q), q, f)
    BY <1>3, <2>2
  <2>4. It(q)[q] = IF q = {} THEN 0 ELSE f[Any(q)] + It(q)[rest(q)]
    <3> HIDE DEF It, q
    <3> QED  BY <2>3 DEF Summing
  <2>5. q # {} => It(q)[rest(q)] = It(rest(q))[rest(q)]
    <3>1. SUFFICES ASSUME q # {}  PROVE It(q)[rest(q)] = It(rest(q))[rest(q)]
      OBVIOUS
    <3>2. Any(q) \in q
      BY <3>1 DEF Any
    <3>3. rest(q) \in SUBSET m /\ rest(q) # m /\ rest(q) \subseteq q /\ IsFiniteSet(rest(q))
      BY <2>2, <3>2, FS_Subset
    <3>4. Summing(It(rest(q)), rest(q), f)
      BY <1>3, <3>3
    <3> HIDE DEF It, q, rest
    <3> QED
      BY <2>3, <3>3, <3>4, SummingAgrees
  <2>6. jt[q] = IF q = {} THEN 0 ELSE f[Any(q)] + It(rest(q))[rest(q)]
    BY <2>2
  <2> QED
    BY <2>4, <2>5, <2>6
<1>5. Summing(jt, m, f)
  <2>1. ASSUME NEW s \in SUBSET m
        PROVE  jt[s] = IF s = {} THEN 0 ELSE f[Any(s)] + jt[rest(s)]
    <3>1. jt[s] = IF s = {} THEN 0 ELSE f[Any(s)] + It(rest(s))[rest(s)]
      OBVIOUS
    <3>2. s # {} => jt[rest(s)] = It(rest(s))[rest(s)]
      BY <1>4
    <3> HIDE DEF jt, It, rest
    <3> QED
      BY <3>1, <3>2
  <2>2. jt = [s \in SUBSET m |-> jt[s]]
    OBVIOUS
  <2> HIDE DEF jt
  <2> QED
    BY <2>1, <2>2 DEF Summing
<1> QED
  BY <1>5, <1>1

\* The sum over a finite set takes one of its elements at a time.
LEMMA SumUnfolds ==
  ASSUME NEW f, NEW S, IsFiniteSet(S)
  PROVE  SumFunctionOnSet(f, S)
           = IF S = {} THEN 0 ELSE f[Any(S)] + SumFunctionOnSet(f, S \ {Any(S)})
<1> DEFINE It(s) == CHOOSE it : Summing(it, s, f)
           q == S \ {Any(S)}
<1>1. IsFiniteSet(q) /\ q \subseteq S
  BY FS_Subset
<1>2. Summing(It(S), S, f) /\ Summing(It(q), q, f)
  BY <1>1, SummingExists
<1>3. SumFunctionOnSet(f, S) = It(S)[S] /\ SumFunctionOnSet(f, q) = It(q)[q]
  BY SumIsChosen
<1> HIDE DEF It
<1>4. It(S)[q] = It(q)[q]
  BY <1>1, <1>2, SummingAgrees
<1>5. It(S)[S] = IF S = {} THEN 0 ELSE f[Any(S)] + It(S)[q]
  BY <1>2 DEF Summing
<1> QED
  BY <1>3, <1>4, <1>5

\* A sum of integers is an integer, and one of natural numbers a natural number.
LEMMA SumTyped ==
  ASSUME NEW f, NEW N \in {Nat, Int}, NEW S, IsFiniteSet(S), \A x \in S : f[x] \in N
  PROVE  SumFunctionOnSet(f, S) \in N
<1> DEFINE T == {s \in SUBSET S : SumFunctionOnSet(f, s) \notin N}
<1> SUFFICES ASSUME T # {}  PROVE FALSE
  OBVIOUS
<1>1. PICK m \in T : \A s \in T : s \subseteq m => s = m
  <2>1. T \subseteq SUBSET S
    OBVIOUS
  <2> HIDE DEF T
  <2> QED
    BY <2>1, Smallest
<1>2. m \subseteq S /\ IsFiniteSet(m)
  BY FS_Subset
<1>3. SumFunctionOnSet(f, m)
        = IF m = {} THEN 0 ELSE f[Any(m)] + SumFunctionOnSet(f, m \ {Any(m)})
  BY <1>2, SumUnfolds
<1>4. m # {} => Any(m) \in m
  BY DEF Any
<1>5. m # {} => f[Any(m)] \in N /\ SumFunctionOnSet(f, m \ {Any(m)}) \in N
  BY <1>1, <1>2, <1>4
<1>6. \A x, y \in N : x + y \in N
  OBVIOUS
<1>7. 0 \in N
  OBVIOUS
<1> QED
  BY <1>3, <1>5, <1>6, <1>7

\* A sum depends on what it adds and on nothing else.
LEMMA SumSame ==
  ASSUME NEW f, NEW g, NEW S, IsFiniteSet(S), \A x \in S : f[x] = g[x]
  PROVE  SumFunctionOnSet(f, S) = SumFunctionOnSet(g, S)
<1> DEFINE T == {s \in SUBSET S : SumFunctionOnSet(f, s) # SumFunctionOnSet(g, s)}
<1> SUFFICES ASSUME T # {}  PROVE FALSE
  OBVIOUS
<1>1. PICK m \in T : \A s \in T : s \subseteq m => s = m
  <2>1. T \subseteq SUBSET S
    OBVIOUS
  <2> HIDE DEF T
  <2> QED
    BY <2>1, Smallest
<1>2. m \subseteq S /\ IsFiniteSet(m)
  BY FS_Subset
<1>3. /\ SumFunctionOnSet(f, m)
           = IF m = {} THEN 0 ELSE f[Any(m)] + SumFunctionOnSet(f, m \ {Any(m)})
      /\ SumFunctionOnSet(g, m)
           = IF m = {} THEN 0 ELSE g[Any(m)] + SumFunctionOnSet(g, m \ {Any(m)})
  BY <1>2, SumUnfolds
<1>4. m # {} => Any(m) \in m
  BY DEF Any
<1>5. m # {} => /\ f[Any(m)] = g[Any(m)]
                /\ SumFunctionOnSet(f, m \ {Any(m)}) = SumFunctionOnSet(g, m \ {Any(m)})
  BY <1>1, <1>2, <1>4
<1> QED
  BY <1>3, <1>5

\* Any element may be taken out first.
LEMMA SumTakes ==
  ASSUME NEW f, NEW S, IsFiniteSet(S), \A x \in S : f[x] \in Int, NEW e \in S
  PROVE  SumFunctionOnSet(f, S) = f[e] + SumFunctionOnSet(f, S \ {e})
<1> DEFINE Sum(s) == SumFunctionOnSet(f, s)
           T == {s \in SUBSET S : \E x \in s : Sum(s) # f[x] + Sum(s \ {x})}
<1> SUFFICES ASSUME T # {}  PROVE FALSE
  OBVIOUS
<1>1. PICK m \in T : \A s \in T : s \subseteq m => s = m
  <2>1. T \subseteq SUBSET S
    OBVIOUS
  <2> HIDE DEF T
  <2> QED
    BY <2>1, Smallest
<1>2. PICK x \in m : Sum(m) # f[x] + Sum(m \ {x})
  OBVIOUS
<1> DEFINE a == Any(m)
<1>3. m \subseteq S /\ IsFiniteSet(m) /\ a \in m
  BY <1>2, FS_Subset DEF Any
<1>4. \A s \in SUBSET m : IsFiniteSet(s) /\ Sum(s) \in Int
  BY <1>3, FS_Subset, SumTyped
<1>5. Sum(m) = f[a] + Sum(m \ {a})
  BY <1>2, <1>3, SumUnfolds
<1>6. x # a
  BY <1>2, <1>5
<1>7. Sum(m \ {a}) = f[x] + Sum((m \ {a}) \ {x})
  <2>1. m \ {a} \notin T
    BY <1>1, <1>3
  <2> QED
    BY <1>3, <1>6, <2>1
<1>8. Sum(m \ {x}) = f[a] + Sum((m \ {x}) \ {a})
  <2>1. m \ {x} \notin T
    BY <1>1, <1>2
  <2> QED
    BY <1>3, <1>6, <2>1
<1>9. (m \ {a}) \ {x} = (m \ {x}) \ {a}
  OBVIOUS
<1> DEFINE rest == Sum((m \ {a}) \ {x})
           fa == f[a]
           fx == f[x]
<1>10. fa \in Int /\ fx \in Int /\ rest \in Int
  BY <1>3, <1>4
<1>11. Sum(m) = fa + (fx + rest) /\ Sum(m \ {x}) = fa + rest
  BY <1>5, <1>7, <1>8, <1>9
<1>12. Sum(m) # fx + Sum(m \ {x})
  BY <1>2
<1> HIDE DEF Sum, rest, fa, fx
<1> QED
  BY <1>10, <1>11, <1>12

\* An element that is not among the others adds itself.
LEMMA SumAdds ==
  ASSUME NEW f, NEW S, IsFiniteSet(S), NEW e, e \notin S, \A x \in S \cup {e} : f[x] \in Int
  PROVE  SumFunctionOnSet(f, S \cup {e}) = SumFunctionOnSet(f, S) + f[e]
<1>1. IsFiniteSet(S \cup {e})
  BY FS_AddElement
<1>2. SumFunctionOnSet(f, S \cup {e}) = f[e] + SumFunctionOnSet(f, (S \cup {e}) \ {e})
  BY <1>1, SumTakes
<1>3. (S \cup {e}) \ {e} = S
  OBVIOUS
<1> DEFINE sum == SumFunctionOnSet(f, S)
           fe == f[e]
<1>4. sum \in Int /\ fe \in Int
  BY SumTyped
<1>5. SumFunctionOnSet(f, S \cup {e}) = fe + sum
  BY <1>2, <1>3
<1>6. SumFunctionOnSet(f, S \cup {e}) = sum + fe
  <2> HIDE DEF sum, fe
  <2> QED
    BY <1>4, <1>5
<1> QED
  BY <1>6

\* The sum over a part and the sum over the rest make the whole.
LEMMA SumSplits ==
  ASSUME NEW f, NEW S, IsFiniteSet(S), \A x \in S : f[x] \in Int, NEW P, P \subseteq S
  PROVE  SumFunctionOnSet(f, S) = SumFunctionOnSet(f, P) + SumFunctionOnSet(f, S \ P)
<1> DEFINE Sum(s) == SumFunctionOnSet(f, s)
           T == {p \in SUBSET S : Sum(S) # Sum(p) + Sum(S \ p)}
<1> SUFFICES ASSUME T # {}  PROVE FALSE
  OBVIOUS
<1>1. PICK m \in T : \A s \in T : s \subseteq m => s = m
  <2>1. T \subseteq SUBSET S
    OBVIOUS
  <2> HIDE DEF T
  <2> QED
    BY <2>1, Smallest
<1>2. \A s \in SUBSET S : IsFiniteSet(s) /\ Sum(s) \in Int
  BY FS_Subset, SumTyped
<1>3. CASE m = {}
  <2>1. Sum({}) = 0 /\ S \ {} = S
    BY FS_EmptySet, SumUnfolds
  <2> HIDE DEF Sum
  <2> QED
    BY <1>2, <1>3, <2>1
<1>4. CASE m # {}
  <2>1. PICK e : e \in m
    BY <1>4
  <2> DEFINE p == m \ {e}
  <2>2. Sum(S) = Sum(p) + Sum(S \ p)
    BY <1>1, <2>1
  <2>3. Sum(m) = f[e] + Sum(p)
    BY <1>2, <2>1, SumTakes
  <2>4. Sum(S \ p) = f[e] + Sum(S \ m)
    <3>1. e \in S \ p /\ (S \ p) \ {e} = S \ m
      BY <2>1
    <3>2. IsFiniteSet(S \ p)
      BY <1>2
    <3> QED
      BY <3>1, <3>2, SumTakes
  <2>5. f[e] \in Int /\ Sum(p) \in Int /\ Sum(S \ m) \in Int
    BY <1>2, <2>1
  <2> HIDE DEF Sum, p
  <2> QED
    BY <2>2, <2>3, <2>4, <2>5
<1> QED
  BY <1>3, <1>4

-----------------------------------------------------------------------------
(***************************************************************************)
(* One account.                                                            *)
(***************************************************************************)
\* An account that keeps the two promises of the ledger's functions, and holds
\* and owes nothing before it is opened.
Good(a) ==
  /\ a \in Account
  /\ a.debt > 0 => a.balance <= a.held
  /\ ~a.open => a.held = 0 /\ a.debt = 0
  /\ boundary => a.open /\ a.tuzis = a.balance /\ a.balance >= a.held

-----------------------------------------------------------------------------
\* Opening an account lazily keeps it good.
LEMMA OpenedGood ==
  ASSUME NEW a, Good(a), boundary \in BOOLEAN
  PROVE  Good(Opened(a)) /\ Opened(a).open /\ Opened(a).frozen = a.frozen
         /\ Opened(a).held = a.held /\ Opened(a).debt = a.debt
<1>1. CASE a.open
  BY <1>1 DEF Opened
<1>2. CASE ~a.open
  <2> DEFINE b == [a EXCEPT !.open = TRUE, !.balance = a.tuzis]
  <2>1. Opened(a) = b /\ ~boundary /\ a.debt = 0 /\ a.held = 0 /\ a \in Account
    BY <1>2 DEF Opened, Good
  <2>2. /\ b \in Account /\ b.open = TRUE /\ b.balance = a.tuzis /\ b.held = a.held
        /\ b.debt = a.debt /\ b.frozen = a.frozen
    BY <2>1 DEF Account
  <2> QED
    BY <2>1, <2>2 DEF Good
<1> QED
  BY <1>1, <1>2

\* An open account c is good when its debt leaves nothing available and, under
\* the boundary, its projection is exact and its holds are covered.
LEMMA GoodWhen ==
  ASSUME NEW c, c \in Account, c.open, boundary \in BOOLEAN,
         c.debt > 0 => c.balance <= c.held,
         boundary => c.tuzis = c.balance /\ c.balance >= c.held
  PROVE  Good(c)
  BY DEF Good

\* What taking an amount out of an account leaves in it.
LEMMA DebitedFields ==
  ASSUME NEW a, a \in Account, a.open, NEW n \in Int
  PROVE  /\ Debited(a, n) \in Account /\ Debited(a, n).open
         /\ Debited(a, n).held = a.held /\ Debited(a, n).debt = a.debt
         /\ Debited(a, n).balance = a.balance - n /\ Debited(a, n).tuzis = a.tuzis - n
<1>1. /\ a.balance \in Int /\ a.tuzis \in Int
      /\ a.balance - n \in Int /\ a.tuzis - n \in Int
  BY DEF Account
<1> QED
  BY <1>1 DEF Debited, Account

\* What adding an amount to an account leaves in it.
LEMMA CreditedFields ==
  ASSUME NEW a, a \in Account, a.open, NEW n \in Int
  PROVE  /\ Credited(a, n) \in Account /\ Credited(a, n).open
         /\ Credited(a, n).held = a.held /\ Credited(a, n).debt = a.debt
         /\ Credited(a, n).balance = a.balance + n /\ Credited(a, n).tuzis = a.tuzis + n
<1>1. /\ a.balance \in Int /\ a.tuzis \in Int
      /\ a.balance + n \in Int /\ a.tuzis + n \in Int
  BY DEF Account
<1> QED
  BY <1>1 DEF Credited, Account

\* Setting the debt changes nothing else.
LEMMA DebtFields ==
  ASSUME NEW a, a \in Account, a.open, NEW debt \in Nat, NEW c, c = [a EXCEPT !.debt = debt]
  PROVE  /\ c \in Account /\ c.open /\ c.held = a.held /\ c.debt = debt
         /\ c.balance = a.balance /\ c.tuzis = a.tuzis
  BY DEF Account

\* Setting what is held changes nothing else.
LEMMA HeldFields ==
  ASSUME NEW a, a \in Account, a.open, NEW held \in Int, NEW c, c = [a EXCEPT !.held = held]
  PROVE  /\ c \in Account /\ c.open /\ c.held = held /\ c.debt = a.debt
         /\ c.balance = a.balance /\ c.tuzis = a.tuzis /\ c.frozen = a.frozen
  BY DEF Account

\* Healing an open account meets its debt with what became available.
LEMMA HealedGood ==
  ASSUME NEW a, Good(a), a.open, boundary \in BOOLEAN
  PROVE  Good(Healed(a)) /\ Healed(a).open /\ Healed(a).held = a.held
<1>1. CASE boundary
  BY <1>1 DEF Healed
<1>2. CASE ~boundary
  <2> DEFINE delta == a.tuzis - a.balance
             repay == IF delta > 0
                      THEN Greatest(Least(Least(a.debt, delta), a.tuzis - a.held), 0)
                      ELSE 0
             c == Healed(a)
  <2>1. a \in Account /\ (a.debt > 0 => a.balance <= a.held)
    BY DEF Good
  <2>2. a.tuzis \in Int /\ a.balance \in Int /\ a.held \in Int /\ a.debt \in Nat
    BY <2>1 DEF Account
  <2>3. repay \in Nat /\ a.debt - repay \in Nat
        /\ (a.debt - repay > 0 => a.tuzis - repay <= a.held)
    BY <2>1, <2>2 DEF Least, Greatest
  <2>4. c = [a EXCEPT !.balance = a.tuzis - repay, !.tuzis = @ - repay,
                      !.debt = @ - repay]
    BY <1>2 DEF Healed
  <2>5. /\ c \in Account /\ c.open /\ c.held = a.held
        /\ c.balance = a.tuzis - repay /\ c.debt = a.debt - repay
    <3> HIDE DEF repay, c
    <3>1. a.tuzis - repay \in Int
      BY <2>2, <2>3
    <3> QED
      BY <2>1, <2>2, <2>3, <2>4, <3>1 DEF Account
  <2> HIDE DEF repay, c
  <2>6. Good(c)
    BY <1>2, <2>3, <2>5, GoodWhen
  <2> QED
    BY <2>5, <2>6 DEF c
<1> QED
  BY <1>1, <1>2

\* What lock_account returns is open and good.
LEMMA LockedGood ==
  ASSUME NEW a, Good(a), boundary \in BOOLEAN
  PROVE  Good(Locked(a)) /\ Locked(a).open /\ Locked(a).held = a.held
  BY OpenedGood, HealedGood DEF Locked

\* A spend never goes beyond what is available to an account without a debt.
LEMMA DebitedGood ==
  ASSUME NEW a, Good(a), a.open, boundary \in BOOLEAN,
         NEW n \in Nat, a.debt = 0, n <= Available(a)
  PROVE  Good(Debited(a, n)) /\ Debited(a, n).open /\ Debited(a, n).held = a.held
<1>1. a \in Account /\ (boundary => a.tuzis = a.balance)
  BY DEF Good
<1>2. a.balance \in Int /\ a.held \in Int /\ a.tuzis \in Int /\ n <= a.balance - a.held
  BY <1>1 DEF Account, Available
<1> DEFINE c == Debited(a, n)
<1>3. /\ c \in Account /\ c.open /\ c.held = a.held /\ c.debt = a.debt
      /\ c.balance = a.balance - n /\ c.tuzis = a.tuzis - n
  BY <1>1, DebitedFields
<1> HIDE DEF c
<1>4. Good(c)
  BY <1>1, <1>2, <1>3, GoodWhen
<1> QED
  BY <1>3, <1>4 DEF c

\* A credit repays the debt before it becomes available.
LEMMA RepaidGood ==
  ASSUME NEW a, Good(a), a.open, boundary \in BOOLEAN, NEW n \in Nat
  PROVE  Good(Repaid(a, n)) /\ Repaid(a, n).open /\ Repaid(a, n).held = a.held
<1> DEFINE repay == Least(a.debt, n)
           c == Repaid(a, n)
<1>1. /\ a \in Account /\ (a.debt > 0 => a.balance <= a.held)
      /\ boundary => a.tuzis = a.balance /\ a.balance >= a.held
  BY DEF Good
<1>2. a.tuzis \in Int /\ a.balance \in Int /\ a.held \in Int /\ a.debt \in Nat
  BY <1>1 DEF Account
<1>3. /\ repay \in Nat /\ a.debt - repay \in Nat /\ n - repay \in Nat
      /\ a.debt - repay > 0 => n - repay = 0
  BY <1>2 DEF Least
<1>4. /\ c \in Account /\ c.open /\ c.held = a.held /\ c.debt = a.debt - repay
      /\ c.balance = a.balance + (n - repay) /\ c.tuzis = a.tuzis + (n - repay)
  <2>1. c = [Credited(a, n - repay) EXCEPT !.debt = @ - repay]
    BY DEF Repaid
  <2> HIDE DEF repay, c
  <2>2. /\ Credited(a, n - repay) \in Account /\ Credited(a, n - repay).open
        /\ Credited(a, n - repay).held = a.held /\ Credited(a, n - repay).debt = a.debt
        /\ Credited(a, n - repay).balance = a.balance + (n - repay)
        /\ Credited(a, n - repay).tuzis = a.tuzis + (n - repay)
    BY <1>1, <1>3, CreditedFields
  <2>3. c = [Credited(a, n - repay) EXCEPT !.debt = a.debt - repay]
    BY <2>1, <2>2
  <2> QED
    BY <1>1, <1>3, <2>2, <2>3, DebtFields
<1> HIDE DEF repay, c
<1>5. Good(c)
  BY <1>1, <1>2, <1>3, <1>4, GoodWhen
<1> QED
  BY <1>4, <1>5 DEF c

\* A clawback becomes a debt only where nothing more was available.
LEMMA ClawedGood ==
  ASSUME NEW a, Good(a), a.open, boundary \in BOOLEAN, NEW n \in Nat
  PROVE  Good(Clawed(a, n)) /\ Clawed(a, n).open /\ Clawed(a, n).held = a.held
<1> DEFINE take == Greatest(Least(n, Available(a)), 0)
           c == Clawed(a, n)
<1>1. /\ a \in Account /\ (a.debt > 0 => a.balance <= a.held)
      /\ boundary => a.tuzis = a.balance /\ a.balance >= a.held
  BY DEF Good
<1>2. a.tuzis \in Int /\ a.balance \in Int /\ a.held \in Int /\ a.debt \in Nat
  BY <1>1 DEF Account
<1>3. /\ take \in Nat /\ n - take \in Nat
      /\ n - take > 0 => a.balance - take <= a.held
      /\ take > 0 => a.balance - take >= a.held
  BY <1>2 DEF Least, Greatest, Available
<1>4. /\ c \in Account /\ c.open /\ c.held = a.held /\ c.debt = a.debt + (n - take)
      /\ c.balance = a.balance - take /\ c.tuzis = a.tuzis - take
  <2>1. c = [Debited(a, take) EXCEPT !.debt = @ + (n - take)]
    BY DEF Clawed
  <2> HIDE DEF take, c
  <2>2. /\ Debited(a, take) \in Account /\ Debited(a, take).open
        /\ Debited(a, take).held = a.held /\ Debited(a, take).debt = a.debt
        /\ Debited(a, take).balance = a.balance - take
        /\ Debited(a, take).tuzis = a.tuzis - take
    BY <1>1, <1>3, DebitedFields
  <2>3. c = [Debited(a, take) EXCEPT !.debt = a.debt + (n - take)]
        /\ a.debt + (n - take) \in Nat
    BY <1>2, <1>3, <2>1, <2>2
  <2> QED
    BY <1>1, <1>3, <2>2, <2>3, DebtFields
<1> HIDE DEF take, c
<1>5. Good(c)
  BY <1>1, <1>2, <1>3, <1>4, GoodWhen
<1> QED
  BY <1>4, <1>5 DEF c

\* finish_hold frees n, repays and charges what the hold and the rest allow.
LEMMA FreedGood ==
  ASSUME NEW a, Good(a), a.open, boundary \in BOOLEAN,
         NEW n \in Nat, NEW charge \in Nat,
         charge = 0 \/ charge <= Available(Healed(a)) + n
  PROVE  /\ Good(Freed(a, n, charge)) /\ Freed(a, n, charge).open
         /\ Freed(a, n, charge).held = a.held - n
<1> DEFINE b == Healed(a)
           c == [b EXCEPT !.held = @ - n]
           repay == Greatest(Least(c.debt, Available(c) - charge), 0)
           d == Freed(a, n, charge)
<1>1. /\ b \in Account /\ b.open /\ b.held = a.held /\ (b.debt > 0 => b.balance <= b.held)
      /\ boundary => b.tuzis = b.balance /\ b.balance >= b.held
  BY HealedGood DEF Good
<1>2. b.tuzis \in Int /\ b.balance \in Int /\ b.held \in Int /\ b.debt \in Nat
  BY <1>1 DEF Account
<1>3. /\ c \in Account /\ c.open /\ c.balance = b.balance
      /\ c.held = b.held - n /\ c.debt = b.debt /\ c.tuzis = b.tuzis
  <2> HIDE DEF b
  <2>1. c = [b EXCEPT !.held = b.held - n] /\ b.held - n \in Int
    BY <1>2
  <2> QED
    BY <1>1, <2>1, HeldFields
<1>4. /\ repay \in Nat /\ c.debt - repay \in Nat
      /\ repay > 0 => repay <= c.balance - c.held - charge
      /\ c.debt - repay > 0 => c.balance - c.held - charge <= repay
  <2> HIDE DEF c
  <2> QED  BY <1>2, <1>3 DEF Least, Greatest, Available
<1>5. charge = 0 \/ charge <= c.balance - c.held
  BY <1>2, <1>3 DEF Available
<1>6. /\ d \in Account /\ d.open /\ d.held = c.held /\ d.debt = c.debt - repay
      /\ d.balance = c.balance - (repay + charge) /\ d.tuzis = c.tuzis - (repay + charge)
  <2>1. d = [Debited(c, repay + charge) EXCEPT !.debt = @ - repay]
    BY DEF Freed
  <2> HIDE DEF c, repay, d
  <2>2. repay + charge \in Int
    BY <1>4
  <2>3. /\ Debited(c, repay + charge) \in Account /\ Debited(c, repay + charge).open
        /\ Debited(c, repay + charge).held = c.held /\ Debited(c, repay + charge).debt = c.debt
        /\ Debited(c, repay + charge).balance = c.balance - (repay + charge)
        /\ Debited(c, repay + charge).tuzis = c.tuzis - (repay + charge)
    BY <1>3, <2>2, DebitedFields, <1>1
  <2>4. d = [Debited(c, repay + charge) EXCEPT !.debt = c.debt - repay]
    BY <2>1, <2>3
  <2> QED
    BY <1>3, <1>4, <2>2, <2>3, <2>4, DebtFields
<1> HIDE DEF b, c, repay, d
<1>7. /\ d.debt > 0 => d.balance <= d.held
      /\ boundary => d.tuzis = d.balance /\ d.balance >= d.held
  BY <1>1, <1>2, <1>3, <1>4, <1>5, <1>6
<1>8. Good(d)
  BY <1>1, <1>3, <1>6, <1>7, GoodWhen
<1> QED
  BY <1>1, <1>3, <1>6, <1>8 DEF d

-----------------------------------------------------------------------------
(***************************************************************************)
(* The inductive invariant.                                                *)
(***************************************************************************)
AccountsGood == acct \in [User -> Account] /\ \A u \in User : Good(acct[u])

\* A reservation stands on an account that was opened for it.
HoldsHaveAccounts == \A h \in Hold : Open(h) => acct[Owner[h]].open

IInv == HoldsTypeOK /\ AccountsGood /\ HoldsHaveAccounts

\* Finitely many holds were ever opened; a hold counts against a window only once
\* it was opened, and it is charged only when it ends.
OrderlyRows(hs) ==
  /\ IsFiniteSet({h \in Hold : hs[h].state # "unused"})
  /\ \A h \in Hold :
       /\ hs[h].state = "unused" => hs[h].window = NoWindow
       /\ hs[h].state \in {"unused", "open"} => hs[h].charged = 0

\* The sums over holds and over the queue are sums of finitely many numbers.
Orderly == OrderlyRows(holds) /\ IsFiniteSet(queue)

Frames == [User -> [Window -> [spent : Int, held : Int]]]

\* What the accounts hold stays as it is.
SameHeld == \A x \in User : acct'[x].held = acct[x].held

\* An action that puts one good account back keeps all accounts good.
LEMMA PutBack ==
  ASSUME AccountsGood, boundary' = boundary, NEW u \in User,
         NEW b, Good(b), acct[u].open => b.open, acct' = [acct EXCEPT ![u] = b]
  PROVE  AccountsGood' /\ \A x \in User : acct[x].open => acct'[x].open
<1>1. b \in Account
  BY DEF Good
<1>2. acct' \in [User -> Account]
  BY <1>1 DEF AccountsGood
<1>3. ASSUME NEW x \in User
      PROVE  Good(acct[x])' /\ (acct[x].open => acct'[x].open)
  <2>1. CASE x = u
    <3>1. acct'[x] = b
      BY <2>1 DEF AccountsGood
    <3>2. Good(acct[x])'
      BY <3>1 DEF Good
    <3> QED
      BY <3>1, <3>2
  <2>2. CASE x # u
    <3>1. acct'[x] = acct[x] /\ Good(acct[x])
      BY <2>2 DEF AccountsGood
    <3>2. Good(acct[x])'
      BY <3>1 DEF Good
    <3> QED
      BY <3>1, <3>2
  <2> QED
    BY <2>1, <2>2
<1> QED
  BY <1>2, <1>3 DEF AccountsGood

\* Reserving in a window, or taking a reservation back, keeps the windows' type.
LEMMA ReserveTyped ==
  ASSUME NEW ws \in Frames, NEW u \in User, NEW w \in Window \cup {NoWindow}, NEW n \in Int
  PROVE  Reserve(ws, u, w, n) \in Frames
<1>1. CASE w = NoWindow
  BY <1>1 DEF Reserve
<1>2. CASE w # NoWindow
  <2>1. w \in Window /\ ws[u] \in [Window -> [spent : Int, held : Int]]
    BY <1>2 DEF Frames
  <2>2. ws[u][w].held + n \in Int
    BY <2>1
  <2>3. [ws[u][w] EXCEPT !.held = @ + n] \in [spent : Int, held : Int]
    BY <2>1, <2>2
  <2>4. Reserve(ws, u, w, n)
          = [ws EXCEPT ![u] = [ws[u] EXCEPT ![w] = [ws[u][w] EXCEPT !.held = @ + n]]]
    BY <1>2, <2>1 DEF Reserve, Frames
  <2> QED
    BY <2>1, <2>3, <2>4 DEF Frames
<1> QED
  BY <1>1, <1>2

\* Recording a charge in a window keeps the windows' type.
LEMMA ConsumeTyped ==
  ASSUME NEW ws \in Frames, NEW u \in User, NEW w \in Window \cup {NoWindow}, NEW n \in Int
  PROVE  Consume(ws, u, w, n) \in Frames
<1>1. CASE w = NoWindow
  BY <1>1 DEF Consume
<1>2. CASE w # NoWindow
  <2>1. w \in Window /\ ws[u] \in [Window -> [spent : Int, held : Int]]
    BY <1>2 DEF Frames
  <2>2. ws[u][w].spent + n \in Int
    BY <2>1
  <2>3. [ws[u][w] EXCEPT !.spent = @ + n] \in [spent : Int, held : Int]
    BY <2>1, <2>2
  <2>4. Consume(ws, u, w, n)
          = [ws EXCEPT ![u] = [ws[u] EXCEPT ![w] = [ws[u][w] EXCEPT !.spent = @ + n]]]
    BY <1>2, <2>1 DEF Consume, Frames
  <2> QED
    BY <2>1, <2>3, <2>4 DEF Frames
<1> QED
  BY <1>1, <1>2

\* Hold amounts are natural numbers, owners are users, frames are typed.
LEMMA Typed ==
  ASSUME IInv, LedgerAssumption, HoldsAssumption
  PROVE  /\ boundary \in BOOLEAN /\ windows \in Frames
         /\ \A h \in Hold : /\ Owner[h] \in User /\ holds[h] \in HoldRow
                            /\ holds[h].amount \in Nat /\ holds[h].splits \in Nat
                            /\ holds[h].window \in Window \cup {NoWindow}
                            /\ acct[Owner[h]] \in Account /\ Good(acct[Owner[h]])
         /\ \A u \in User : acct[u] \in Account /\ Good(acct[u]) /\ cap[u] \in Cap
<1>1. boundary \in BOOLEAN /\ windows \in Frames /\ holds \in [Hold -> HoldRow]
      /\ cap \in [User -> Cap]
  BY DEF IInv, HoldsTypeOK, LedgerTypeOK, Frames
<1>2. \A u \in User : acct[u] \in Account /\ Good(acct[u])
  BY DEF IInv, AccountsGood
<1>3. \A h \in Hold : Owner[h] \in User /\ holds[h] \in HoldRow
  BY <1>1 DEF HoldsAssumption
<1>4. ASSUME NEW h \in Hold
      PROVE  /\ holds[h].amount \in Nat /\ holds[h].splits \in Nat
             /\ holds[h].window \in Window \cup {NoWindow}
  BY <1>3 DEF HoldRow
<1> QED
  BY <1>1, <1>2, <1>3, <1>4

\* A split row has its type, and there is at most one.
LEMMA SplitRowTyped ==
  ASSUME NEW h \in Hold, NEW provider \in Nat, NEW dev \in Nat, NEW platform \in Int
  PROVE  /\ SplitRow(h, provider, dev, platform) \subseteq Split
         /\ Cardinality(SplitRow(h, provider, dev, platform)) \in Nat
<1> DEFINE row == [hold |-> h, provider |-> provider, dev |-> dev, platform |-> platform]
<1>1. row \in Split
  BY DEF Split
<1>2. SplitRow(h, provider, dev, platform) \in {{}, {row}}
  BY DEF SplitRow
<1> HIDE DEF row
<1>3. Cardinality({}) = 0 /\ Cardinality({row}) = 1
  BY FS_EmptySet, FS_Singleton, Zenon
<1> QED
  BY <1>1, <1>2, <1>3

\* However a hold ends, the invariant stands.
LEMMA FinishKeeps ==
  ASSUME IInv, LedgerAssumption, HoldsAssumption, NEW h \in Hold, Open(h),
         NEW outcome \in Finished, NEW charge \in Nat, NEW provider \in Nat, NEW dev \in Nat,
         NEW w \in Window \cup {NoWindow}, NEW superseded \in BOOLEAN, NEW costed \in BOOLEAN,
         charge = 0 \/ charge <= Available(Healed(acct[Owner[h]])) + holds[h].amount,
         Finish(h, outcome, charge, provider, dev, w, superseded, costed)
  PROVE  IInv'
<1> DEFINE u == Owner[h]
           r == holds[h]
           row == SplitRow(h, provider, dev, charge - provider - dev)
           b == Freed(acct[u], r.amount, charge)
<1>1. /\ boundary \in BOOLEAN /\ windows \in Frames /\ u \in User /\ r \in HoldRow
      /\ r.amount \in Nat /\ r.splits \in Nat /\ r.window \in Window \cup {NoWindow}
      /\ acct[u] \in Account /\ Good(acct[u]) /\ acct[u].open
  BY Typed DEF IInv, HoldsHaveAccounts
<1>2. /\ acct' = [acct EXCEPT ![u] = b]
      /\ windows' = Consume(Reserve(windows, u, r.window, -r.amount), u, w, charge)
      /\ holds' = [holds EXCEPT ![h].state = outcome, ![h].charged = charge,
                                ![h].window = w, ![h].superseded = superseded,
                                ![h].costed = costed,
                                ![h].splits = @ + Cardinality(row)]
      /\ queue' = queue \cup row
      /\ clearing' = clearing + charge
      /\ UNCHANGED <<boundary, purchaseVars, capVars, pending>>
  <2>1. acct' = [acct EXCEPT ![u] = b]
    BY <1>1 DEF Finish, IInv, AccountsGood
  <2> QED
    BY <2>1 DEF Finish
<1>3. Good(b) /\ b.open
  BY <1>1, FreedGood
<1> HIDE DEF b
<1>4. AccountsGood' /\ \A x \in User : acct[x].open => acct'[x].open
  <2>1. boundary' = boundary
    BY <1>2
  <2> QED
    BY <1>1, <1>2, <1>3, <2>1, PutBack DEF IInv
<1>5. row \subseteq Split /\ Cardinality(row) \in Nat
  <2>1. charge - provider - dev \in Int
    OBVIOUS
  <2> QED
    BY <2>1, SplitRowTyped
<1>6. windows' \in Frames
  <2>1. -r.amount \in Int
    BY <1>1
  <2>2. Reserve(windows, u, r.window, -r.amount) \in Frames
    BY <1>1, <2>1, ReserveTyped
  <2> HIDE DEF u, r
  <2> QED
    BY <1>1, <1>2, <2>2, ConsumeTyped
<1>7. holds' \in [Hold -> HoldRow] /\ holds'[h].state = outcome
      /\ \A g \in Hold \ {h} : holds'[g] = holds[g]
  <2> DEFINE r2 == [r EXCEPT !.state = outcome, !.charged = charge, !.window = w,
                             !.superseded = superseded, !.costed = costed,
                             !.splits = @ + Cardinality(row)]
  <2> HIDE DEF row
  <2>1. r.splits + Cardinality(row) \in Nat
    BY <1>1, <1>5
  <2>2. r2 \in HoldRow /\ r2.state = outcome
    <3> DEFINE splits == r.splits + Cardinality(row)
    <3>1. r2 = [r EXCEPT !.state = outcome, !.charged = charge, !.window = w,
                         !.superseded = superseded, !.costed = costed, !.splits = splits]
      BY <1>1 DEF HoldRow
    <3>2. splits \in Nat /\ charge \in Int /\ outcome \in {"unused", "open"} \cup Finished
          /\ w \in {NoWindow} \cup Window
      BY <2>1
    <3> HIDE DEF r2, splits, r
    <3> QED
      BY <1>1, <3>1, <3>2 DEF HoldRow
  <2>3. holds \in [Hold -> HoldRow]
    BY DEF IInv, HoldsTypeOK
  <2>4. holds' = [holds EXCEPT ![h] = r2]
    BY <1>2, <2>3
  <2> HIDE DEF r2
  <2> QED
    BY <2>2, <2>3, <2>4
<1>8. HoldsTypeOK'
  BY <1>2, <1>4, <1>5, <1>6, <1>7
  DEF IInv, HoldsTypeOK, LedgerTypeOK, AccountsGood, purchaseVars, capVars, Frames
<1>9. HoldsHaveAccounts'
  <2>1. outcome # "open"
    BY DEF Finished
  <2>2. ASSUME NEW g \in Hold, Open(g)'  PROVE  acct'[Owner[g]].open
    <3>1. g # h /\ Open(g) /\ Owner[g] \in User
      BY <1>7, <2>1, <2>2, Typed DEF Open
    <3> QED
      BY <1>4, <3>1 DEF IInv, HoldsHaveAccounts
  <2> QED
    BY <2>2 DEF HoldsHaveAccounts
<1> QED
  BY <1>4, <1>8, <1>9 DEF IInv

\* The same for two accounts.
LEMMA PutTwoBack ==
  ASSUME AccountsGood, boundary' = boundary, NEW u \in User, NEW v \in User, u # v,
         NEW b, Good(b), b.open, NEW c, Good(c), c.open,
         acct' = [acct EXCEPT ![u] = b, ![v] = c]
  PROVE  AccountsGood' /\ \A x \in User : acct[x].open => acct'[x].open
<1>1. b \in Account /\ c \in Account
  BY DEF Good
<1>2. acct' \in [User -> Account]
  BY <1>1 DEF AccountsGood
<1>3. ASSUME NEW x \in User
      PROVE  Good(acct[x])' /\ (acct[x].open => acct'[x].open)
  <2>1. CASE x \in {u, v}
    <3>1. Good(acct'[x]) /\ acct'[x].open
      BY <2>1 DEF AccountsGood
    <3>2. Good(acct[x])'
      BY <3>1 DEF Good
    <3> QED
      BY <3>1, <3>2
  <2>2. CASE x \notin {u, v}
    <3>1. acct'[x] = acct[x] /\ Good(acct[x])
      BY <2>2 DEF AccountsGood
    <3>2. Good(acct[x])'
      BY <3>1 DEF Good
    <3> QED
      BY <3>1, <3>2
  <2> QED
    BY <2>1, <2>2
<1> QED
  BY <1>2, <1>3 DEF AccountsGood

\* What is left to show of an action that changes accounts and purchases only.
LEMMA OnlyAccounts ==
  ASSUME IInv, HoldsAssumption, AccountsGood', \A x \in User : acct[x].open => acct'[x].open,
         boundary' \in BOOLEAN, credited' \subseteq Purchase,
         refunded' \in [Purchase -> Nat], posted' \in [Purchase -> Int],
         UNCHANGED <<holds, capVars, windows, rollupVars>>
  PROVE  IInv'
<1>1. HoldsTypeOK'
  BY DEF IInv, HoldsTypeOK, LedgerTypeOK, AccountsGood, capVars, rollupVars
<1>2. HoldsHaveAccounts'
  BY DEF IInv, HoldsHaveAccounts, Open, HoldsAssumption
<1> QED
  BY <1>1, <1>2 DEF IInv

\* Freezing an account does not change what it holds and owes.
LEMMA FrozenGood ==
  ASSUME NEW a, Good(a), a.open, NEW freeze \in BOOLEAN
  PROVE  /\ Good(Frozen(a, freeze)) /\ Frozen(a, freeze).open
         /\ Frozen(a, freeze).held = a.held
<1> DEFINE b == Frozen(a, freeze)
<1>1. a \in Account
  BY DEF Good
<1>2. (a.frozen \/ freeze) \in BOOLEAN /\ b = [a EXCEPT !.frozen = a.frozen \/ freeze]
  BY <1>1 DEF Account, Frozen
<1> HIDE DEF b
<1>3. /\ b \in Account /\ b.open /\ b.balance = a.balance /\ b.held = a.held
      /\ b.debt = a.debt /\ b.tuzis = a.tuzis
  BY <1>1, <1>2 DEF Account
<1>4. Good(b)
  BY <1>3 DEF Good
<1> QED
  BY <1>3, <1>4 DEF b

\* The functions of module Ledger keep the invariant, and reserve nothing.
LEMMA LedgerKeeps ==
  ASSUME IInv, LedgerAssumption, HoldsAssumption, LedgerNext,
         UNCHANGED <<holds, capVars, windows, rollupVars>>
  PROVE  IInv' /\ SameHeld
<1>1. /\ boundary \in BOOLEAN /\ credited \subseteq Purchase
      /\ refunded \in [Purchase -> Nat] /\ posted \in [Purchase -> Int]
      /\ acct \in [User -> Account] /\ \A u \in User : Good(acct[u])
      /\ AccountsGood
  BY DEF IInv, HoldsTypeOK, LedgerTypeOK, AccountsGood
<1>2. \A u \in User : /\ Good(Locked(acct[u])) /\ Locked(acct[u]).open
                      /\ Locked(acct[u]).held = acct[u].held
  BY <1>1, LockedGood
<1>3. /\ Amount \subseteq Nat
      /\ \A p \in Purchase : Buyer[p] \in User /\ Price[p] \in Nat
      /\ \A p \in Purchase : \A target \in 0 .. Price[p] : target \in Nat
  BY DEF Amount, LedgerAssumption
<1>4. ASSUME NEW u \in User, NEW b, Good(b), b.open, b.held = acct[u].held,
             acct' = [acct EXCEPT ![u] = b], boundary' = boundary, credited' \subseteq Purchase,
             refunded' \in [Purchase -> Nat], posted' \in [Purchase -> Int]
      PROVE  IInv' /\ SameHeld
  <2>1. IInv'
    BY <1>1, <1>4, PutBack, OnlyAccounts
  <2>2. SameHeld
    BY <1>1, <1>4 DEF SameHeld
  <2> QED
    BY <2>1, <2>2
<1>5. ASSUME NEW u \in User, NEW n \in Amount, Spend(u, n)  PROVE  IInv' /\ SameHeld
  <2> DEFINE a == Locked(acct[u])
             b == IF MaySpend(a, n) THEN Debited(a, n) ELSE a
  <2>1. Good(a) /\ a.open /\ a.held = acct[u].held
    BY <1>2
  <2>2. Good(b) /\ b.open /\ b.held = acct[u].held
    <3> HIDE DEF a
    <3>1. CASE MaySpend(a, n)
      <4>1. a.debt = 0 /\ n <= Available(a) /\ n \in Nat
        BY <1>3, <2>1, <3>1 DEF MaySpend, Available, Good, Account
      <4> QED
        BY <1>1, <2>1, <3>1, <4>1, DebitedGood
    <3> QED
      BY <2>1, <3>1
  <2>3. acct' = [acct EXCEPT ![u] = b]
    BY <1>5 DEF Spend
  <2> HIDE DEF b
  <2> QED
    BY <1>1, <1>4, <1>5, <2>2, <2>3 DEF Spend, purchaseVars
<1>6. ASSUME NEW u \in User, NEW n \in Amount, SpendUpTo(u, n)  PROVE  IInv' /\ SameHeld
  <2> DEFINE a == Locked(acct[u])
             charge == Least(n, Available(a))
             b == IF a.frozen \/ a.debt > 0 \/ charge <= 0 THEN a ELSE Debited(a, charge)
  <2>1. Good(a) /\ a.open /\ a \in Account /\ a.held = acct[u].held
    BY <1>2 DEF Good
  <2>2. Good(b) /\ b.open /\ b.held = acct[u].held
    <3> HIDE DEF a
    <3>1. CASE ~(a.frozen \/ a.debt > 0 \/ charge <= 0)
      <4>1. a.debt \in Nat /\ Available(a) \in Int
        BY <2>1 DEF Available, Account
      <4>2. a.debt = 0 /\ charge <= Available(a) /\ charge \in Nat
        BY <1>3, <3>1, <4>1 DEF Least
      <4> QED
        BY <1>1, <2>1, <3>1, <4>2, DebitedGood
    <3> QED
      BY <2>1, <3>1
  <2>3. acct' = [acct EXCEPT ![u] = b]
    BY <1>6 DEF SpendUpTo
  <2> HIDE DEF b
  <2> QED
    BY <1>1, <1>4, <1>6, <2>2, <2>3 DEF SpendUpTo, purchaseVars
<1>7. ASSUME NEW u \in User, NEW n \in Amount, CreditUser(u, n)  PROVE  IInv' /\ SameHeld
  <2> DEFINE b == Repaid(Locked(acct[u]), n)
  <2>1. Good(b) /\ b.open /\ b.held = acct[u].held
    BY <1>1, <1>2, <1>3, RepaidGood
  <2>2. acct' = [acct EXCEPT ![u] = b]
    BY <1>7 DEF CreditUser
  <2> HIDE DEF b
  <2> QED
    BY <1>1, <1>4, <1>7, <2>1, <2>2 DEF CreditUser, purchaseVars
<1>8. ASSUME NEW u \in User, NEW v \in User, NEW n \in Amount, NEW active \in BOOLEAN,
             TransferUsers(u, v, n, active)
      PROVE  IInv' /\ SameHeld
  <2> DEFINE from == Locked(acct[u])
             to == Locked(acct[v])
             moves == active /\ MaySpend(from, n)
             b == IF moves THEN Debited(from, n) ELSE from
             c == IF moves THEN Repaid(to, n) ELSE to
  <2>1. /\ Good(from) /\ from.open /\ from.held = acct[u].held
        /\ Good(to) /\ to.open /\ to.held = acct[v].held /\ n \in Nat
    BY <1>2, <1>3
  <2>2. Good(b) /\ b.open /\ b.held = acct[u].held
    <3> HIDE DEF from
    <3>1. CASE moves
      <4>1. from.debt = 0 /\ n <= Available(from)
        BY <2>1, <3>1 DEF MaySpend, Available, Good, Account
      <4> QED
        BY <1>1, <2>1, <3>1, <4>1, DebitedGood
    <3> QED
      BY <2>1, <3>1
  <2>3. Good(c) /\ c.open /\ c.held = acct[v].held
    BY <1>1, <2>1, RepaidGood
  <2>4. u # v /\ acct' = [acct EXCEPT ![u] = b, ![v] = c] /\ boundary' = boundary
        /\ UNCHANGED purchaseVars
    BY <1>8 DEF TransferUsers
  <2> HIDE DEF b, c
  <2>5. AccountsGood' /\ \A x \in User : acct[x].open => acct'[x].open
    BY <1>1, <2>2, <2>3, <2>4, PutTwoBack
  <2>6. SameHeld
    BY <1>1, <2>2, <2>3, <2>4 DEF SameHeld
  <2> QED
    BY <1>1, <2>4, <2>5, <2>6, OnlyAccounts DEF purchaseVars
<1>9. ASSUME NEW p \in Purchase, CreditPurchase(p)  PROVE  IInv' /\ SameHeld
  <2> DEFINE u == Buyer[p]
             b == Repaid(Locked(acct[u]), Price[p])
  <2>1. Good(b) /\ b.open /\ u \in User /\ b.held = acct[u].held
    BY <1>1, <1>2, <1>3, RepaidGood
  <2>2. acct' = [acct EXCEPT ![u] = b]
    BY <1>1, <1>9, <2>1 DEF CreditPurchase
  <2>3. posted' \in [Purchase -> Int] /\ credited' \subseteq Purchase
    BY <1>1, <1>3, <1>9 DEF CreditPurchase
  <2> HIDE DEF b, u
  <2> QED
    BY <1>1, <1>4, <1>9, <2>1, <2>2, <2>3 DEF CreditPurchase
<1>10. ASSUME NEW p \in Purchase, NEW target \in 0 .. Price[p], NEW freeze \in BOOLEAN,
              RefundPurchase(p, target, freeze)
       PROVE  IInv' /\ SameHeld
  <2> DEFINE u == Buyer[p]
             delta == RefundDelta(p, target)
             c == Clawed(Locked(acct[u]), delta)
             b == Frozen(c, freeze)
  <2>1. delta \in Nat /\ u \in User
    BY <1>1, <1>3 DEF RefundDelta, Greatest, Least
  <2>2. Good(c) /\ c.open /\ c.held = acct[u].held
    <3> HIDE DEF delta
    <3> QED  BY <1>1, <1>2, <2>1, ClawedGood
  <2>3. Good(b) /\ b.open /\ b.held = acct[u].held
    <3> HIDE DEF c
    <3> QED  BY <2>2, FrozenGood
  <2>4. acct' = [acct EXCEPT ![u] = b]
    BY <1>1, <1>10, <2>1 DEF RefundPurchase
  <2>5. refunded' \in [Purchase -> Nat] /\ posted' \in [Purchase -> Int]
    <3>1. Greatest(refunded[p], Least(target, Price[p])) \in Nat
      BY <1>1, <1>3 DEF Greatest, Least
    <3>2. posted[p] - delta \in Int
      BY <1>1, <2>1
    <3>3. /\ refunded' = [refunded EXCEPT ![p] = Greatest(refunded[p], Least(target, Price[p]))]
          /\ posted' = [posted EXCEPT ![p] = posted[p] - delta]
      BY <1>1, <1>10 DEF RefundPurchase
    <3> HIDE DEF delta
    <3> QED
      BY <1>1, <3>1, <3>2, <3>3
  <2> HIDE DEF b, u
  <2> QED
    BY <1>1, <1>4, <1>10, <2>1, <2>3, <2>4, <2>5 DEF RefundPurchase
<1>11. ASSUME NEW p \in Purchase, NEW target \in 0 .. Price[p], RestorePurchase(p, target)
       PROVE  IInv' /\ SameHeld
  <2> DEFINE u == Buyer[p]
             restore == Greatest(refunded[p] - Least(target, Price[p]), 0)
             b == IF restore = 0 THEN Locked(acct[u]) ELSE Repaid(Locked(acct[u]), restore)
  <2>1. restore \in Nat /\ refunded[p] - restore \in Nat /\ posted[p] + restore \in Int
        /\ u \in User
    BY <1>1, <1>3 DEF Greatest, Least
  <2>2. Good(b) /\ b.open /\ b.held = acct[u].held
    <3> HIDE DEF restore
    <3> QED  BY <1>1, <1>2, <2>1, RepaidGood
  <2>3. /\ acct' = [acct EXCEPT ![u] = b]
        /\ refunded' = [refunded EXCEPT ![p] = refunded[p] - restore]
        /\ posted' = [posted EXCEPT ![p] = posted[p] + restore]
        /\ UNCHANGED <<boundary, credited>>
    BY <1>1, <1>11, <2>1 DEF RestorePurchase
  <2> HIDE DEF b, u, restore
  <2>4. refunded' \in [Purchase -> Nat] /\ posted' \in [Purchase -> Int]
    BY <1>1, <2>1, <2>3
  <2> QED
    BY <1>1, <1>4, <2>1, <2>2, <2>3, <2>4
<1>12. ASSUME NEW u \in User, NEW t \in 0 .. MaxBalance, LegacyWrite(u, t)  PROVE  IInv' /\ SameHeld
  <2> DEFINE a == acct[u]
             b == [a EXCEPT !.tuzis = t]
  <2>1. a \in Account /\ Good(a) /\ t \in Int /\ ~boundary
    BY <1>1, <1>12 DEF LegacyWrite
  <2>2. /\ b \in Account /\ (a.open <=> b.open) /\ b.balance = a.balance /\ b.held = a.held
        /\ b.debt = a.debt
    <3> HIDE DEF a
    <3> QED  BY <2>1 DEF Account
  <2>3. Good(b) /\ (a.open => b.open)
    <3> HIDE DEF b, a
    <3> QED  BY <2>1, <2>2 DEF Good
  <2>4. acct' = [acct EXCEPT ![u] = b] /\ boundary' = boundary /\ UNCHANGED purchaseVars
    BY <1>1, <1>12 DEF LegacyWrite
  <2> HIDE DEF b
  <2>5. AccountsGood' /\ \A x \in User : acct[x].open => acct'[x].open
    BY <1>1, <2>3, <2>4, PutBack
  <2>6. SameHeld
    BY <1>1, <2>2, <2>4 DEF SameHeld
  <2> QED
    BY <1>1, <2>4, <2>5, <2>6, OnlyAccounts DEF purchaseVars
<1>13. ASSUME ActivateWriterBoundary  PROVE  IInv' /\ SameHeld
  <2>1. boundary' = TRUE /\ UNCHANGED <<acct, purchaseVars>> /\ BoundaryReady
    BY <1>13 DEF ActivateWriterBoundary
  <2>2. ASSUME NEW x \in User  PROVE  Good(acct[x])'
    <3>1. acct'[x] = acct[x] /\ Good(acct[x]) /\ acct[x] \in Account
          /\ acct[x].open /\ acct[x].balance = acct[x].tuzis /\ acct[x].balance >= acct[x].held
      BY <1>1, <2>1 DEF BoundaryReady
    <3> QED
      BY <2>1, <3>1 DEF Good
  <2>3. AccountsGood' /\ \A x \in User : acct[x].open => acct'[x].open
    BY <1>1, <2>1, <2>2 DEF AccountsGood
  <2>4. SameHeld
    BY <2>1 DEF SameHeld
  <2> QED
    BY <1>1, <2>1, <2>3, <2>4, OnlyAccounts DEF purchaseVars
<1> QED
  BY <1>5, <1>6, <1>7, <1>8, <1>9, <1>10, <1>11, <1>12, <1>13 DEF LedgerNext

-----------------------------------------------------------------------------
\* What is left to show of an action that changes accounts, holds and windows.
LEMMA HoldsToo ==
  ASSUME IInv, AccountsGood', holds' \in [Hold -> HoldRow], windows' \in Frames,
         \A g \in Hold : Open(g)' => acct'[Owner[g]].open,
         UNCHANGED <<boundary, purchaseVars, capVars, rollupVars>>
  PROVE  IInv'
<1>1. HoldsTypeOK'
  BY DEF IInv, HoldsTypeOK, LedgerTypeOK, AccountsGood, capVars, rollupVars, purchaseVars, Frames
<1>2. HoldsHaveAccounts'
  BY DEF HoldsHaveAccounts, Open
<1> QED
  BY <1>1, <1>2 DEF IInv

\* The consent a hold stands on, and the window it counts against, are typed.
LEMMA CapTyped ==
  ASSUME IInv, LedgerAssumption, HoldsAssumption, NEW h \in Hold
  PROVE  /\ CapOf(h).revision \in Nat /\ CapOf(h).limit \in Nat \cup {NoLimit}
         /\ WindowNow(CapOf(h)) \in Window
         /\ WindowFor(h, CapOf(h)) \in Window \cup {NoWindow}
<1>1. /\ cap[Owner[h]] \in Cap /\ now \in Window
      /\ holds[h].window \in Window \cup {NoWindow}
  BY Typed DEF IInv, HoldsTypeOK
<1>2. CapOf(h).revision \in Nat /\ CapOf(h).limit \in Nat \cup {NoLimit}
  BY <1>1 DEF CapOf, Cap, HoldsAssumption
<1>3. ASSUME NEW c  PROVE WindowNow(c) \in Window
  BY <1>1 DEF WindowNow, Window, TotalWindow, HoldsAssumption
<1>4. WindowFor(h, CapOf(h)) \in Window \cup {NoWindow}
  BY <1>1, <1>3 DEF WindowFor
<1> QED
  BY <1>2, <1>3, <1>4

\* More is held only of what is available to an account without a debt.
LEMMA MoreHeldGood ==
  ASSUME NEW a, Good(a), a.open, boundary \in BOOLEAN,
         NEW n \in Nat, a.debt = 0, n <= Available(a)
  PROVE  /\ Good([a EXCEPT !.held = @ + n]) /\ [a EXCEPT !.held = @ + n].open
         /\ [a EXCEPT !.held = @ + n].held = a.held + n
<1> DEFINE b == [a EXCEPT !.held = @ + n]
<1>1. a \in Account /\ (boundary => a.tuzis = a.balance)
  BY DEF Good
<1>2. a.balance \in Int /\ a.held \in Int /\ n <= a.balance - a.held
  BY <1>1 DEF Account, Available
<1>3. b = [a EXCEPT !.held = a.held + n] /\ a.held + n \in Int
  BY <1>2
<1> HIDE DEF b
<1>4. /\ b \in Account /\ b.open /\ b.held = a.held + n /\ b.debt = a.debt
      /\ b.balance = a.balance /\ b.tuzis = a.tuzis
  BY <1>1, <1>3, HeldFields
<1>5. Good(b)
  BY <1>1, <1>2, <1>4, GoodWhen
<1> QED
  BY <1>4, <1>5 DEF b

\* The amounts of holds that were opened add up to a number.
LEMMA AmountsAddUp ==
  ASSUME IInv, Orderly, LedgerAssumption, HoldsAssumption,
         NEW S, S \subseteq {h \in Hold : holds[h].state # "unused"}
  PROVE  IsFiniteSet(S) /\ AmountOf(S) \in Nat
<1>1. IsFiniteSet(S)
  BY FS_Subset DEF Orderly, OrderlyRows
<1> DEFINE f == [h \in Hold |-> holds[h].amount]
<1>2. \A h \in S : f[h] \in Nat
  BY Typed
<1> HIDE DEF f
<1>3. SumFunctionOnSet(f, S) \in Nat
  BY <1>1, <1>2, SumTyped
<1> QED
  BY <1>1, <1>3 DEF AmountOf, f

\* The shares of queued rows add up to numbers.
LEMMA SharesAddUp ==
  ASSUME IInv, Orderly, NEW rows \in SUBSET queue
  PROVE  /\ SumOf(rows, "provider") \in Nat /\ SumOf(rows, "dev") \in Nat
         /\ SumOf(rows, "platform") \in Int
<1>1. IsFiniteSet(rows) /\ rows \subseteq Split
  BY FS_Subset DEF Orderly, IInv, HoldsTypeOK
<1>2. \A r \in rows : r.provider \in Nat /\ r.dev \in Nat /\ r.platform \in Int
  BY <1>1 DEF Split
<1>3. SumOf(rows, "provider") \in Nat
  BY <1>1, <1>2, SumTyped DEF SumOf
<1>4. SumOf(rows, "dev") \in Nat
  BY <1>1, <1>2, SumTyped DEF SumOf
<1>5. SumOf(rows, "platform") \in Int
  BY <1>1, <1>2, SumTyped DEF SumOf
<1> QED
  BY <1>3, <1>4, <1>5

\* The sweep of a user's expired holds, which every new hold begins with.
LEMMA SweptGood ==
  ASSUME IInv, Orderly, LedgerAssumption, HoldsAssumption, NEW u \in User
  PROVE  /\ Good(Swept(u)) /\ Swept(u).open
         /\ Swept(u).held = acct[u].held - AmountOf(ExpiredOf(u))
         /\ SweptWindows(u) \in Frames
         /\ SweptHolds(u) \in [Hold -> HoldRow]
         /\ \A g \in Hold : SweptHolds(u)[g].state = "open" => Open(g)
<1>1. boundary \in BOOLEAN /\ windows \in Frames /\ Good(acct[u])
      /\ holds \in [Hold -> HoldRow]
  BY Typed DEF IInv, HoldsTypeOK
<1>2. \A S \in SUBSET ExpiredOf(u) : AmountOf(S) \in Nat
  BY AmountsAddUp DEF ExpiredOf, OpenOf, Open
<1>3. /\ Good(Swept(u)) /\ Swept(u).open
      /\ Swept(u).held = acct[u].held - AmountOf(ExpiredOf(u))
  <2>1. AmountOf(ExpiredOf(u)) \in Nat
    BY <1>2
  <2>2. Good(Locked(acct[u])) /\ Locked(acct[u]).open /\ Locked(acct[u]).held = acct[u].held
    BY <1>1, LockedGood
  <2> QED
    BY <1>1, <2>1, <2>2, FreedGood DEF Swept
<1>4. SweptWindows(u) \in Frames
  <2> DEFINE inW(w) == AmountOf({h \in ExpiredOf(u) : holds[h].window = w})
             here == [w \in Window |-> [windows[u][w] EXCEPT !.held = @ - inW(w)]]
  <2>1. \A w \in Window : inW(w) \in Nat
    BY <1>2
  <2>2. windows[u] \in [Window -> [spent : Int, held : Int]]
    BY <1>1 DEF Frames
  <2> HIDE DEF inW
  <2>3. \A w \in Window : [windows[u][w] EXCEPT !.held = @ - inW(w)] \in [spent : Int, held : Int]
    BY <2>1, <2>2
  <2>4. here \in [Window -> [spent : Int, held : Int]]
    BY <2>3
  <2>5. SweptWindows(u) = [windows EXCEPT ![u] = here]
    BY DEF SweptWindows, inW
  <2> HIDE DEF here
  <2> QED
    BY <1>1, <2>4, <2>5 DEF Frames
<1>5. ASSUME NEW g \in Hold
      PROVE  SweptHolds(u)[g] \in HoldRow /\ (SweptHolds(u)[g].state = "open" => Open(g))
  BY <1>1 DEF SweptHolds, HoldRow, Finished, Open
<1>6. SweptHolds(u) \in [Hold -> HoldRow]
  BY <1>5 DEF SweptHolds
<1> QED
  BY <1>3, <1>4, <1>5, <1>6

\* A new hold: swept, then admitted or refused.
LEMMA HoldInternalKeeps ==
  ASSUME IInv, Orderly, LedgerAssumption, HoldsAssumption, NEW h \in Hold, NEW n \in Nat,
         HoldInternal(h, n)
  PROVE  IInv'
<1> DEFINE u == Owner[h]
           a == Swept(u)
           c == CapOf(h)
           w == IF Capped(c) THEN WindowNow(c) ELSE NoWindow
           fits == Capped(c) =>
             SweptWindows(u)[u][w].spent + SweptWindows(u)[u][w].held + n <= c.limit
           ws == SweptWindows(u)
           hs == SweptHolds(u)
           row == [hs[h] EXCEPT !.state = "open", !.amount = n, !.window = w,
                                !.revision = c.revision]
           b == [a EXCEPT !.held = @ + n]
<1>1. u \in User /\ boundary \in BOOLEAN /\ AccountsGood
  BY Typed DEF IInv
<1>2. /\ Good(a) /\ a.open /\ ws \in Frames /\ hs \in [Hold -> HoldRow]
      /\ \A g \in Hold : hs[g].state = "open" => Open(g)
  BY <1>1, SweptGood
<1>3. w \in Window \cup {NoWindow} /\ c.revision \in Nat
  BY CapTyped
<1>4. /\ Admits(h, n, a) /\ fits =>
           /\ acct' = [acct EXCEPT ![u] = b]
           /\ windows' = Reserve(ws, u, w, n)
           /\ holds' = [hs EXCEPT ![h] = row]
      /\ ~(Admits(h, n, a) /\ fits) =>
           acct' = [acct EXCEPT ![u] = a] /\ windows' = ws /\ holds' = hs
      /\ UNCHANGED <<boundary, purchaseVars, capVars, rollupVars>>
  <2>1. hs \in [Hold -> HoldRow]
    BY <1>2
  <2>2. Admits(h, n, a) /\ fits => holds' = [hs EXCEPT ![h] = row]
    BY <2>1 DEF HoldInternal
  <2> QED
    BY <2>2 DEF HoldInternal
<1> HIDE DEF a, ws, hs, w, fits
<1>5. CASE Admits(h, n, a) /\ fits
  <2>1. Good(b) /\ b.open
    <3>1. a \in Account
      BY <1>2 DEF Good
    <3>2. a.debt = 0 /\ n <= Available(a)
      BY <1>5, <3>1 DEF Admits, Available, Account
    <3> QED
      BY <1>1, <1>2, <3>2, MoreHeldGood
  <2>2. row \in HoldRow
    <3> DEFINE old == hs[h]
               revision == c.revision
    <3>1. row = [old EXCEPT !.state = "open", !.amount = n, !.window = w,
                            !.revision = revision]
      OBVIOUS
    <3>2. old \in HoldRow /\ revision \in Nat /\ w \in {NoWindow} \cup Window
      BY <1>2, <1>3
    <3> HIDE DEF row, old, revision
    <3> QED
      BY <3>1, <3>2 DEF HoldRow
  <2> HIDE DEF b, row, c
  <2>3. AccountsGood' /\ acct'[u].open /\ \A x \in User : acct[x].open => acct'[x].open
    <3>1. boundary' = boundary /\ acct' = [acct EXCEPT ![u] = b]
      BY <1>4, <1>5
    <3>2. acct'[u] = b
      BY <1>1, <3>1 DEF AccountsGood
    <3> QED
      BY <1>1, <2>1, <3>1, <3>2, PutBack
  <2>4. windows' \in Frames
    BY <1>1, <1>2, <1>3, <1>4, <1>5, ReserveTyped
  <2>5. holds' = [hs EXCEPT ![h] = row] /\ holds' \in [Hold -> HoldRow]
    BY <1>2, <1>4, <1>5, <2>2
  <2>6. ASSUME NEW g \in Hold, Open(g)'  PROVE  acct'[Owner[g]].open
    <3>1. CASE g = h
      BY <2>3, <3>1
    <3>2. CASE g # h
      <4>1. hs[g].state = "open"
        BY <1>2, <2>5, <2>6, <3>2 DEF Open
      <4>2. Open(g) /\ Owner[g] \in User
        BY <1>2, <4>1, Typed
      <4> QED
        BY <2>3, <4>2 DEF IInv, HoldsHaveAccounts
    <3> QED
      BY <3>1, <3>2
  <2> QED
    BY <1>4, <2>3, <2>4, <2>5, <2>6, HoldsToo
<1>6. CASE ~(Admits(h, n, a) /\ fits)
  <2> HIDE DEF b, row, c
  <2>1. AccountsGood' /\ \A x \in User : acct[x].open => acct'[x].open
    <3>1. boundary' = boundary /\ acct' = [acct EXCEPT ![u] = a]
      BY <1>4, <1>6
    <3> QED
      BY <1>1, <1>2, <3>1, PutBack
  <2>2. ASSUME NEW g \in Hold, Open(g)'  PROVE  acct'[Owner[g]].open
    <3>1. hs[g].state = "open"
      BY <1>4, <1>6, <2>2 DEF Open
    <3>2. Open(g) /\ Owner[g] \in User
      BY <1>2, <3>1, Typed
    <3> QED
      BY <2>1, <3>2 DEF IInv, HoldsHaveAccounts
  <2> QED
    BY <1>2, <1>4, <1>6, <2>1, <2>2, HoldsToo
<1> QED
  BY <1>5, <1>6

\* Renewing an unexpired hold, for more where the account and the cap admit it.
LEMMA ExtendHoldKeeps ==
  ASSUME IInv, LedgerAssumption, HoldsAssumption, NEW h \in Hold, NEW to \in Nat,
         ExtendHold(h, to)
  PROVE  IInv'
<1> DEFINE u == Owner[h]
           a == Healed(acct[u])
           c == cap[u]
           r == holds[h]
           delta == Greatest(to - r.amount, 0)
           w == WindowFor(h, c)
           asked == IF w = r.window THEN delta ELSE r.amount + delta
           grows == /\ c.consent = "live" /\ ~a.frozen /\ a.debt = 0
                    /\ delta > 0 /\ delta <= Greatest(Available(a), 0)
                    /\ Capped(c) => asked <= Room(u, w, c.limit)
           b == [a EXCEPT !.held = @ + delta]
           rev == IF Capped(c) THEN c.revision ELSE r.revision
           row == [r EXCEPT !.amount = r.amount + delta, !.window = w, !.revision = rev]
<1>1. /\ u \in User /\ boundary \in BOOLEAN /\ AccountsGood /\ windows \in Frames
      /\ r \in HoldRow /\ r.amount \in Nat /\ r.window \in Window \cup {NoWindow}
      /\ c \in Cap /\ acct[u] \in Account /\ Good(acct[u]) /\ acct[u].open
      /\ holds \in [Hold -> HoldRow]
  BY Typed DEF IInv, HoldsTypeOK, ExtendHold, HoldsHaveAccounts
<1>2. Good(a) /\ a.open /\ a \in Account
  BY <1>1, HealedGood DEF Good
<1>3. delta \in Nat /\ r.amount + delta \in Nat /\ -r.amount \in Int
  BY <1>1 DEF Greatest
<1>4. w \in Window \cup {NoWindow} /\ c.revision \in Nat
  BY <1>1 DEF WindowFor, WindowNow, Window, TotalWindow, HoldsAssumption, Cap, IInv, HoldsTypeOK
<1>5. /\ grows => /\ acct' = [acct EXCEPT ![u] = b]
                  /\ windows' = Rebook(u, r, w, r.amount + delta)
                  /\ holds' = [holds EXCEPT ![h] = row]
      /\ ~grows => acct' = [acct EXCEPT ![u] = a] /\ UNCHANGED <<windows, holds>>
      /\ UNCHANGED <<boundary, purchaseVars, capVars, rollupVars>>
  <2>1. grows => holds' = [holds EXCEPT ![h] = row]
    BY <1>1 DEF ExtendHold
  <2>2. grows => acct' = [acct EXCEPT ![u] = b] /\ windows' = Rebook(u, r, w, r.amount + delta)
    BY DEF ExtendHold
  <2>3. ~grows => acct' = [acct EXCEPT ![u] = a] /\ UNCHANGED <<windows, holds>>
    BY DEF ExtendHold
  <2> HIDE DEF grows
  <2> QED
    BY <2>1, <2>2, <2>3 DEF ExtendHold
<1>6. grows => Good(b) /\ b.open
  <2> HIDE DEF a, delta
  <2>1. grows => a.debt = 0 /\ delta <= Available(a)
    BY <1>2, <1>3 DEF Greatest, Available, Account
  <2> QED
    BY <1>1, <1>2, <1>3, <2>1, MoreHeldGood
<1>7. row \in HoldRow
  <2>1. rev \in Nat
    BY <1>1, <1>4 DEF HoldRow
  <2> DEFINE amount == r.amount + delta
  <2>2. row = [r EXCEPT !.amount = amount, !.window = w, !.revision = rev]
    OBVIOUS
  <2>3. amount \in Nat /\ w \in {NoWindow} \cup Window
    BY <1>3, <1>4
  <2> HIDE DEF rev, w, amount, r, row
  <2> QED
    BY <1>1, <2>1, <2>2, <2>3 DEF HoldRow
<1>8. Rebook(u, r, w, r.amount + delta) \in Frames
  <2> HIDE DEF delta, w, r
  <2>1. Reserve(windows, u, r.window, -r.amount) \in Frames
    BY <1>1, <1>3, ReserveTyped
  <2>2. r.amount + delta \in Int
    BY <1>3
  <2> QED
    BY <1>1, <1>4, <2>1, <2>2, ReserveTyped DEF Rebook
<1> DEFINE d == IF grows THEN b ELSE a
<1>9. Good(d) /\ d.open /\ acct' = [acct EXCEPT ![u] = d]
  <2> HIDE DEF a, b, grows
  <2> QED  BY <1>2, <1>5, <1>6
<1> HIDE DEF a, b, c, delta, w, grows, d, rev, row, asked
<1>10. AccountsGood' /\ \A x \in User : acct[x].open => acct'[x].open
  <2>1. boundary' = boundary
    BY <1>5
  <2> QED
    BY <1>1, <1>9, <2>1, PutBack
<1>11. holds' \in [Hold -> HoldRow] /\ windows' \in Frames
  BY <1>1, <1>5, <1>7, <1>8
<1>12. ASSUME NEW g \in Hold, Open(g)'  PROVE  acct'[Owner[g]].open
  <2>1. Open(h)
    BY DEF ExtendHold
  <2>2. Open(g)
    BY <1>1, <1>5, <1>12, <2>1 DEF Open
  <2> QED
    BY <1>10, <2>2, Typed DEF IInv, HoldsHaveAccounts
<1> QED
  BY <1>5, <1>10, <1>11, <1>12, HoldsToo

\* What a cap admits of a charge is a number between nothing and the charge.
LEMMA WithinCapTyped ==
  ASSUME IInv, LedgerAssumption, HoldsAssumption, NEW h \in Hold, NEW priced \in Nat
  PROVE  WithinCap(h, priced) \in Nat /\ WithinCap(h, priced) <= priced
<1> DEFINE u == Owner[h]
           c == CapOf(h)
           w == WindowFor(h, c)
           room == Room(u, w, c.limit)
<1>1. u \in User /\ windows \in Frames /\ holds[h].amount \in Nat
      /\ holds[h].window \in Window \cup {NoWindow}
  BY Typed
<1>2. CASE ~Capped(c)
  BY <1>2 DEF WithinCap
<1>3. CASE Capped(c)
  <2>1. c.limit \in Nat
    BY <1>3, CapTyped DEF Capped
  <2>2. w \in Window
    BY <1>1, <1>3, CapTyped DEF WindowFor
  <2>3. room \in Nat
    <3>1. windows[u][w].spent \in Int /\ windows[u][w].held \in Int
      BY <1>1, <2>2 DEF Frames
    <3> QED
      BY <2>1, <3>1 DEF Room, Greatest
  <2>4. WithinCap(h, priced)
          = Least(priced, IF w = holds[h].window THEN holds[h].amount + room ELSE room)
    BY <1>3 DEF WithinCap
  <2> HIDE DEF room, w
  <2> QED
    BY <1>1, <2>3, <2>4 DEF Least
<1> QED
  BY <1>2, <1>3

\* A charge is never more than what is available together with the hold's amount.
LEMMA ChargeBounds ==
  ASSUME IInv, LedgerAssumption, HoldsAssumption, NEW h \in Hold, Open(h), NEW priced \in Nat
  PROVE  /\ Charge(h, priced) \in Nat
         /\ Charge(h, priced) = 0
            \/ Charge(h, priced) <= Available(Healed(acct[Owner[h]])) + holds[h].amount
<1> DEFINE a == Healed(acct[Owner[h]])
           within == WithinCap(h, priced)
           available == Available(a)
           amount == holds[h].amount
<1>1. amount \in Nat /\ within \in Nat
  BY Typed, WithinCapTyped
<1>2. available \in Int
  <2>1. Good(a)
    BY Typed, HealedGood DEF IInv, HoldsHaveAccounts
  <2> QED
    BY <2>1 DEF Good, Account, Available
<1>3. Charge(h, priced)
        = Greatest(Least(Least(priced, available + amount),
                         Greatest(within, Least(amount, priced))), 0)
  BY DEF Charge
<1> HIDE DEF available, amount, within
<1>4. /\ Charge(h, priced) \in Nat
      /\ Charge(h, priced) = 0 \/ Charge(h, priced) <= available + amount
  BY <1>1, <1>2, <1>3 DEF Greatest, Least
<1> QED
  BY <1>4 DEF available, amount

\* Holds that only change when a late settlement is costed or time passes.
LEMMA OnlyHolds ==
  ASSUME IInv, LedgerAssumption, HoldsAssumption, UNCHANGED <<lvars, capVars, windows, pending>>,
         holds' \in [Hold -> HoldRow], queue' \subseteq Split, clearing' \in Int,
         \A g \in Hold : Open(g)' => Open(g)
  PROVE  IInv'
<1>1. HoldsTypeOK'
  BY DEF IInv, HoldsTypeOK, LedgerTypeOK, lvars, capVars, purchaseVars
<1>2. AccountsGood'
  <2>1. acct' = acct /\ boundary' = boundary
    BY DEF lvars
  <2>2. ASSUME NEW u \in User  PROVE  Good(acct[u])'
    BY <2>1 DEF IInv, AccountsGood, Good
  <2> QED
    BY <2>1, <2>2 DEF IInv, AccountsGood
<1>3. HoldsHaveAccounts'
  BY DEF IInv, HoldsHaveAccounts, lvars
<1> QED
  BY <1>1, <1>2, <1>3 DEF IInv

\* Settlements: in time, too late, and after the hold ended.
LEMMA SettleKeeps ==
  ASSUME IInv, LedgerAssumption, HoldsAssumption, NEW h \in Hold, NEW t \in Terms, Settle(h, t)
  PROVE  IInv'
<1>1. /\ t.priced \in Nat /\ t.provider \in Nat /\ t.dev \in Nat
      /\ holds[h] \in HoldRow /\ holds[h].window \in Window \cup {NoWindow}
      /\ holds \in [Hold -> HoldRow] /\ queue \subseteq Split /\ clearing \in Int
  BY Typed DEF HoldsAssumption, IInv, HoldsTypeOK
<1>2. CASE SettleTerminal(h, t)
  BY <1>1, <1>2, FinishKeeps DEF SettleTerminal, Finished
<1>3. CASE SettleOpen(h, t)
  <2> DEFINE charge == Charge(h, t.priced)
             dev == DevShare(t, charge)
             w == WindowFor(h, CapOf(h))
  <2>1. Open(h) /\ Finish(h, "settled", charge, t.provider, dev, w, FALSE, FALSE)
    BY <1>3 DEF SettleOpen
  <2>2. /\ charge \in Nat /\ w \in Window \cup {NoWindow}
        /\ charge = 0 \/ charge <= Available(Healed(acct[Owner[h]])) + holds[h].amount
    BY <1>1, <2>1, ChargeBounds, CapTyped
  <2> HIDE DEF charge
  <2>3. dev \in Nat
    BY <1>1, <2>2 DEF DevShare, Least, Greatest
  <2> HIDE DEF dev, w
  <2> QED
    BY <1>1, <2>1, <2>2, <2>3, FinishKeeps DEF Finished
<1>4. CASE SettleLate(h, t)
  <2> DEFINE row == SplitRow(h, t.provider, 0, -t.provider)
             splits == holds[h].splits + Cardinality(row)
             r == [holds[h] EXCEPT !.costed = TRUE, !.splits = splits]
  <2>1. row \subseteq Split /\ Cardinality(row) \in Nat
    <3>1. -t.provider \in Int
      BY <1>1
    <3> QED
      BY <1>1, <3>1, SplitRowTyped
  <2> HIDE DEF row
  <2>2. splits \in Nat
    BY <1>1, <2>1 DEF HoldRow
  <2>3. /\ holds' = [holds EXCEPT ![h] = r]
        /\ queue' = queue \cup row
        /\ UNCHANGED <<lvars, capVars, windows, pending, clearing>>
    BY <1>1, <1>4 DEF SettleLate, row
  <2> HIDE DEF splits
  <2>4. r \in HoldRow /\ (r.state = "open" <=> Open(h))
    BY <1>1, <2>2 DEF HoldRow, Open
  <2> HIDE DEF r
  <2>5. holds' \in [Hold -> HoldRow] /\ \A g \in Hold : Open(g)' => Open(g)
    BY <1>1, <2>3, <2>4 DEF Open
  <2> QED
    BY <1>1, <2>1, <2>3, <2>5, OnlyHolds
<1> QED
  BY <1>2, <1>3, <1>4 DEF Settle

\* The other ways a hold ends, and the passing of its time to live.
LEMMA EndsKeep ==
  ASSUME IInv, LedgerAssumption, HoldsAssumption, NEW h \in Hold,
         \/ \E n \in 0 .. MaxReserve : SettleFixed(h, n)
         \/ Release(h) \/ ExpireHold(h) \/ (Open(h) /\ Expire(h)) \/ TimePasses(h)
  PROVE  IInv'
<1>1. /\ holds[h] \in HoldRow /\ holds[h].window \in Window \cup {NoWindow}
      /\ holds \in [Hold -> HoldRow] /\ queue \subseteq Split /\ clearing \in Int
      /\ NoWindow \in Window \cup {NoWindow}
  BY Typed DEF IInv, HoldsTypeOK
<1>2. ASSUME NEW n \in 0 .. MaxReserve, SettleFixed(h, n)  PROVE  IInv'
  <2>0. n \in Nat
    BY DEF HoldsAssumption
  <2>1. /\ Open(h) /\ Charge(h, n) = n
        /\ Finish(h, "settled", n, 0, 0, NoWindow, FALSE, FALSE)
    BY <1>2, Zenon DEF SettleFixed
  <2>2. n = 0 \/ n <= Available(Healed(acct[Owner[h]])) + holds[h].amount
    BY <2>0, <2>1, ChargeBounds
  <2> QED
    BY <1>1, <2>0, <2>1, <2>2, FinishKeeps DEF Finished
<1>3. CASE Release(h)
  <2> DEFINE outcome == IF holds[h].late THEN "expired" ELSE "released"
  <2>1. outcome \in Finished /\ Open(h)
        /\ Finish(h, outcome, 0, 0, 0, holds[h].window, FALSE, FALSE)
    BY <1>3 DEF Finished, Release
  <2> HIDE DEF outcome
  <2> QED
    BY <1>1, <2>1, FinishKeeps
<1>4. CASE Open(h) /\ Expire(h)
  BY <1>1, <1>4, FinishKeeps DEF Expire, Finished
<1>5. CASE ExpireHold(h)
  BY <1>4, <1>5 DEF ExpireHold
<1>6. CASE TimePasses(h)
  <2> DEFINE r == [holds[h] EXCEPT !.late = TRUE]
  <2>1. /\ holds' = [holds EXCEPT ![h] = r] /\ Open(h)
        /\ UNCHANGED <<lvars, capVars, windows, rollupVars>>
    BY <1>1, <1>6 DEF TimePasses
  <2>2. r \in HoldRow
    BY <1>1 DEF HoldRow
  <2> HIDE DEF r
  <2>3. holds' \in [Hold -> HoldRow] /\ \A g \in Hold : Open(g)' => Open(g)
    BY <1>1, <2>1, <2>2 DEF Open
  <2> QED
    BY <1>1, <2>1, <2>3, OnlyHolds DEF rollupVars
<1> QED
  BY <1>2, <1>3, <1>4, <1>5, <1>6

\* Consents, the calendar and the rollup.
LEMMA RollupKeeps ==
  ASSUME IInv, Orderly, LedgerAssumption, HoldsAssumption,
         \/ \E u \in User, consent \in {"live", "revoked"}, limit \in Limit, total \in Totals :
              SyncGrant(u, consent, limit, total)
         \/ NextWindow
         \/ \E rows \in SUBSET queue : ConsumeSplitBatch(rows)
         \/ CreditDeveloper
  PROVE  IInv'
<1>1. /\ boundary \in BOOLEAN /\ AccountsGood /\ \A u \in User : Good(acct[u])
      /\ cap \in [User -> Cap] /\ now \in Window /\ pending \in Nat /\ clearing \in Int
      /\ queue \subseteq Split
  BY Typed DEF IInv, HoldsTypeOK
<1>2. ASSUME NEW u \in User, NEW consent \in {"live", "revoked"}, NEW limit \in Limit,
             NEW total \in Totals, SyncGrant(u, consent, limit, total)
      PROVE  IInv'
  <2> DEFINE c == cap[u]
             rev == IF c.consent = "none" \/ SameFrame(c, limit, total)
                    THEN c.revision ELSE c.revision + 1
             next == [consent |-> consent, limit |-> limit, total |-> total, revision |-> rev]
             b == Opened(acct[u])
  <2>1. /\ cap' = [cap EXCEPT ![u] = next] /\ acct' = [acct EXCEPT ![u] = b]
        /\ UNCHANGED <<boundary, purchaseVars, holds, windows, now, rollupVars>>
    BY <1>1, <1>2 DEF SyncGrant, AccountsGood
  <2>2. next \in Cap
    <3>1. c.revision \in Nat
      BY <1>1 DEF Cap
    <3>2. rev \in Nat /\ total \in BOOLEAN
      BY <3>1 DEF HoldsAssumption
    <3> HIDE DEF rev
    <3> QED
      BY <3>2 DEF Cap
  <2>3. Good(b) /\ b.open
    BY <1>1, OpenedGood
  <2> HIDE DEF next, b
  <2>4. AccountsGood' /\ \A x \in User : acct[x].open => acct'[x].open
    <3>1. boundary' = boundary /\ acct' = [acct EXCEPT ![u] = b]
      BY <2>1
    <3> QED
      BY <1>1, <2>3, <3>1, PutBack
  <2>5. cap' \in [User -> Cap]
    BY <1>1, <2>1, <2>2
  <2>6. HoldsTypeOK'
    BY <2>1, <2>4, <2>5 DEF IInv, HoldsTypeOK, LedgerTypeOK, AccountsGood, purchaseVars, rollupVars
  <2>7. HoldsHaveAccounts'
    BY <2>1, <2>4 DEF IInv, HoldsHaveAccounts, Open, HoldsAssumption
  <2> QED
    BY <2>4, <2>6, <2>7 DEF IInv
<1>3. CASE NextWindow
  <2>1. now' \in Window
    BY <1>1, <1>3 DEF NextWindow, Window, TotalWindow, HoldsAssumption
  <2>2. UNCHANGED <<lvars, holds, cap, windows, rollupVars>>
    BY <1>3 DEF NextWindow
  <2>3. HoldsTypeOK'
    BY <2>1, <2>2 DEF IInv, HoldsTypeOK, LedgerTypeOK, lvars, purchaseVars, rollupVars
  <2>4. AccountsGood'
    <3>1. acct' = acct /\ boundary' = boundary
      BY <2>2 DEF lvars
    <3>2. ASSUME NEW u \in User  PROVE  Good(acct[u])'
      BY <1>1, <3>1 DEF Good
    <3> QED
      BY <1>1, <3>1, <3>2 DEF AccountsGood
  <2>5. HoldsHaveAccounts'
    BY <2>2 DEF IInv, HoldsHaveAccounts, lvars, Open
  <2> QED
    BY <2>3, <2>4, <2>5 DEF IInv
<1>4. ASSUME NEW rows \in SUBSET queue, ConsumeSplitBatch(rows)  PROVE  IInv'
  <2> DEFINE provider == SumOf(rows, "provider")
             dev == SumOf(rows, "dev")
             platform == SumOf(rows, "platform")
  <2>1. /\ queue' = queue \ rows /\ clearing' = clearing - provider - platform
        /\ pending' = pending + dev
        /\ UNCHANGED <<lvars, holds, capVars, windows>>
        /\ provider \in Nat /\ dev \in Nat /\ platform \in Int
    BY <1>4, SharesAddUp DEF ConsumeSplitBatch
  <2> HIDE DEF provider, dev, platform
  <2>2. queue' \subseteq Split /\ clearing' \in Int /\ pending' \in Nat
    BY <1>1, <2>1
  <2>3. HoldsTypeOK'
    BY <2>1, <2>2 DEF IInv, HoldsTypeOK, LedgerTypeOK, lvars, purchaseVars, capVars
  <2>4. AccountsGood'
    <3>1. acct' = acct /\ boundary' = boundary
      BY <2>1 DEF lvars
    <3>2. ASSUME NEW u \in User  PROVE  Good(acct[u])'
      BY <1>1, <3>1 DEF Good
    <3> QED
      BY <1>1, <3>1, <3>2 DEF AccountsGood
  <2>5. HoldsHaveAccounts'
    BY <2>1 DEF IInv, HoldsHaveAccounts, lvars, Open
  <2> QED
    BY <2>3, <2>4, <2>5 DEF IInv
<1>5. CASE CreditDeveloper
  <2> DEFINE u == Developer
             b == Repaid(Locked(acct[u]), pending)
  <2>1. u \in User
    BY DEF HoldsAssumption
  <2>2. /\ acct' = [acct EXCEPT ![u] = b] /\ clearing' = clearing - pending /\ pending' = 0
        /\ UNCHANGED <<boundary, purchaseVars, holds, capVars, windows, queue>>
    BY <1>1, <1>5, <2>1 DEF CreditDeveloper, AccountsGood
  <2>3. Good(b) /\ b.open
    BY <1>1, <2>1, LockedGood, RepaidGood
  <2> HIDE DEF b, u
  <2>4. AccountsGood' /\ \A x \in User : acct[x].open => acct'[x].open
    <3>1. boundary' = boundary
      BY <2>2
    <3> QED
      BY <1>1, <2>1, <2>2, <2>3, <3>1, PutBack
  <2>5. clearing' \in Int /\ pending' \in Nat
    BY <1>1, <2>2
  <2>6. HoldsTypeOK'
    BY <2>2, <2>4, <2>5 DEF IInv, HoldsTypeOK, LedgerTypeOK, AccountsGood, purchaseVars, capVars
  <2>7. HoldsHaveAccounts'
    BY <2>2, <2>4 DEF IInv, HoldsHaveAccounts, Open, HoldsAssumption
  <2> QED
    BY <2>4, <2>6, <2>7 DEF IInv
<1> QED
  BY <1>2, <1>3, <1>4, <1>5

\* Before the first call, no account is open and nothing is held or owed.
LEMMA HoldsInitGood ==
  ASSUME LedgerAssumption, HoldsAssumption, HoldsInit
  PROVE  IInv
<1>1. ASSUME NEW t \in 0 .. MaxBalance
      PROVE  NewAccount(t) \in Account /\ NewAccount(t).debt = 0
             /\ NewAccount(t).held = 0 /\ ~NewAccount(t).open
  BY DEF NewAccount, Account
<1>2. acct \in [User -> {NewAccount(t) : t \in 0 .. MaxBalance}] /\ ~boundary
  BY DEF HoldsInit, LedgerInit
<1>3. ASSUME NEW u \in User  PROVE  acct[u] \in Account /\ Good(acct[u])
  <2>1. PICK t \in 0 .. MaxBalance : acct[u] = NewAccount(t)
    BY <1>2
  <2>2. acct[u] \in Account /\ acct[u].debt = 0 /\ acct[u].held = 0
    BY <1>1, <2>1
  <2> QED
    BY <1>2, <2>2 DEF Good
<1>4. acct \in [User -> Account]
  BY <1>2, <1>3
<1>5. HoldsTypeOK
  <2>1. LedgerTypeOK
    <3>1. /\ boundary = FALSE /\ credited = {}
          /\ refunded = [p \in Purchase |-> 0] /\ posted = [p \in Purchase |-> 0]
      BY DEF HoldsInit, LedgerInit
    <3>2. refunded \in [Purchase -> Nat] /\ posted \in [Purchase -> Int]
      BY <3>1
    <3> QED
      BY <1>4, <3>1, <3>2 DEF LedgerTypeOK
  <2>2. cap \in [User -> Cap] /\ windows \in [User -> [Window -> [spent : Int, held : Int]]]
    BY DEF HoldsInit, Cap
  <2>3. holds \in [Hold -> HoldRow]
    BY DEF HoldsInit, HoldRow
  <2>4. now \in Window
    BY DEF HoldsInit, Window, TotalWindow, HoldsAssumption
  <2>5. queue = {} /\ pending = 0 /\ clearing = 0
    BY DEF HoldsInit
  <2> QED
    BY <2>1, <2>2, <2>3, <2>4, <2>5 DEF HoldsTypeOK
<1>6. HoldsHaveAccounts
  BY DEF HoldsInit, HoldsHaveAccounts, Open
<1> QED
  BY <1>3, <1>4, <1>5, <1>6 DEF IInv, AccountsGood

-----------------------------------------------------------------------------
\* Every action, and stuttering, keeps the invariant.
LEMMA HoldsNextKeeps ==
  ASSUME IInv, Orderly, LedgerAssumption, HoldsAssumption, [HoldsNext]_hvars
  PROVE  IInv'
<1>1. CASE LedgerNext /\ UNCHANGED <<holds, capVars, windows, rollupVars>>
  BY <1>1, LedgerKeeps
<1>2. ASSUME NEW h \in Hold, NEW n \in 1 .. MaxReserve, HoldInternal(h, n) \/ Extend(h, n)
      PROVE  IInv'
  <2>1. n \in Nat
    BY DEF HoldsAssumption
  <2>2. CASE HoldInternal(h, n)
    BY <2>1, <2>2, HoldInternalKeeps
  <2>3. CASE ExtendHold(h, n)
    BY <2>1, <2>3, ExtendHoldKeeps
  <2>4. CASE Open(h) /\ Expire(h)
    BY <2>4, EndsKeep
  <2> QED
    BY <1>2, <2>2, <2>3, <2>4 DEF Extend
<1>3. ASSUME NEW h \in Hold, NEW t \in Terms, Settle(h, t)  PROVE  IInv'
  BY <1>3, SettleKeeps
<1>4. ASSUME NEW h \in Hold, NEW n \in 0 .. MaxReserve, SettleFixed(h, n)  PROVE  IInv'
  BY <1>4, EndsKeep
<1>5. ASSUME NEW h \in Hold, Release(h) \/ ExpireHold(h) \/ TimePasses(h)  PROVE  IInv'
  BY <1>5, EndsKeep
<1>6. CASE \/ \E u \in User, consent \in {"live", "revoked"}, limit \in Limit, total \in Totals :
                SyncGrant(u, consent, limit, total)
           \/ NextWindow
           \/ \E rows \in SUBSET queue : ConsumeSplitBatch(rows)
           \/ CreditDeveloper
  BY <1>6, RollupKeeps
<1>7. CASE UNCHANGED hvars
  <2>1. UNCHANGED <<lvars, capVars, windows, pending>> /\ holds' = holds
        /\ queue' = queue /\ clearing' = clearing
    BY <1>7 DEF hvars, rollupVars
  <2>2. holds \in [Hold -> HoldRow] /\ queue \subseteq Split /\ clearing \in Int
    BY DEF IInv, HoldsTypeOK
  <2> QED
    BY <2>1, <2>2, OnlyHolds DEF Open
<1> QED
  BY <1>1, <1>2, <1>3, <1>4, <1>5, <1>6, <1>7 DEF HoldsNext

-----------------------------------------------------------------------------
(***************************************************************************)
(* What a step does to the rows.                                           *)
(***************************************************************************)
\* Hold h ends, in one of the ways an open hold may.
Ends(h) ==
  \E outcome \in Finished, charge \in Nat, provider \in Nat, dev \in Nat,
     w \in Window \cup {NoWindow}, superseded \in BOOLEAN, costed \in BOOLEAN :
    /\ Open(h)
    /\ charge = 0 \/ charge <= Available(Healed(acct[Owner[h]])) + holds[h].amount
    /\ Finish(h, outcome, charge, provider, dev, w, superseded, costed)

\* Settlements, releases and expiries of an open hold end it.
LEMMA EndsCovered ==
  ASSUME IInv, LedgerAssumption, HoldsAssumption, NEW h \in Hold,
         \/ \E t \in Terms : SettleTerminal(h, t) \/ SettleOpen(h, t)
         \/ \E n \in 0 .. MaxReserve : SettleFixed(h, n)
         \/ Release(h) \/ ExpireHold(h) \/ (Open(h) /\ Expire(h))
  PROVE  Ends(h)
<1>1. /\ holds[h].window \in Window \cup {NoWindow} /\ NoWindow \in Window \cup {NoWindow}
      /\ 0 \in Nat /\ TRUE \in BOOLEAN /\ FALSE \in BOOLEAN /\ Finished = {"settled", "released", "expired"}
  BY Typed DEF Finished
<1>2. ASSUME NEW outcome \in Finished, NEW provider \in Nat, NEW superseded \in BOOLEAN,
             NEW costed \in BOOLEAN, Open(h),
             Finish(h, outcome, 0, provider, 0, holds[h].window, superseded, costed)
      PROVE  Ends(h)
  <2>1. ASSUME NEW charge \in Nat, NEW dev \in Nat,
               charge = 0 \/ charge <= Available(Healed(acct[Owner[h]])) + holds[h].amount,
               NEW w \in Window \cup {NoWindow},
               Finish(h, outcome, charge, provider, dev, w, superseded, costed)
        PROVE  Ends(h)
    BY <1>2, <2>1 DEF Ends
  <2> QED
    BY <1>1, <1>2, <2>1
<1>3. ASSUME NEW t \in Terms, SettleTerminal(h, t)  PROVE Ends(h)
  <2>1. t.provider \in Nat /\ Open(h)
    BY <1>3 DEF HoldsAssumption, SettleTerminal
  <2>2. \/ Finish(h, "expired", 0, t.provider, 0, holds[h].window, FALSE, TRUE)
        \/ Finish(h, "released", 0, t.provider, 0, holds[h].window, TRUE, TRUE)
    BY <1>3 DEF SettleTerminal
  <2> QED
    BY <1>1, <1>2, <2>1, <2>2
<1>4. ASSUME NEW t \in Terms, SettleOpen(h, t)  PROVE Ends(h)
  <2> DEFINE charge == Charge(h, t.priced)
             dev == DevShare(t, charge)
             w == WindowFor(h, CapOf(h))
  <2>1. /\ Open(h) /\ Finish(h, "settled", charge, t.provider, dev, w, FALSE, FALSE)
        /\ t.priced \in Nat /\ t.provider \in Nat /\ t.dev \in Nat
    BY <1>4 DEF SettleOpen, HoldsAssumption
  <2>2. /\ charge \in Nat /\ w \in Window \cup {NoWindow}
        /\ charge = 0 \/ charge <= Available(Healed(acct[Owner[h]])) + holds[h].amount
    BY <2>1, ChargeBounds, CapTyped
  <2> HIDE DEF charge
  <2>3. dev \in Nat
    BY <2>1, <2>2 DEF DevShare, Least, Greatest
  <2>4. "settled" \in Finished
    BY <1>1
  <2> HIDE DEF dev, w
  <2> QED
    BY <1>1, <2>1, <2>2, <2>3, <2>4, Zenon DEF Ends
<1>5. ASSUME NEW n \in 0 .. MaxReserve, SettleFixed(h, n)  PROVE Ends(h)
  <2>0. n \in Nat
    BY DEF HoldsAssumption
  <2>1. /\ Open(h) /\ Charge(h, n) = n
        /\ Finish(h, "settled", n, 0, 0, NoWindow, FALSE, FALSE)
    BY <1>5, Zenon DEF SettleFixed
  <2>2. n = 0 \/ n <= Available(Healed(acct[Owner[h]])) + holds[h].amount
    BY <2>0, <2>1, ChargeBounds
  <2>3. "settled" \in Finished
    BY <1>1
  <2> QED
    BY <1>1, <2>0, <2>1, <2>2, <2>3, Zenon DEF Ends
<1>6. CASE Release(h)
  <2> DEFINE outcome == IF holds[h].late THEN "expired" ELSE "released"
  <2>1. outcome \in Finished
    BY <1>1
  <2>2. Open(h) /\ Finish(h, outcome, 0, 0, 0, holds[h].window, FALSE, FALSE)
    BY <1>6 DEF Release
  <2> HIDE DEF outcome
  <2> QED
    BY <1>1, <1>2, <2>1, <2>2
<1>7. CASE Open(h) /\ Expire(h)
  BY <1>1, <1>2, <1>7 DEF Expire
<1> QED
  BY <1>3, <1>4, <1>5, <1>6, <1>7 DEF ExpireHold

\* A step ends a hold, opens or extends one after a sweep, records a late cost,
\* lets time pass, rolls up, or leaves rows, windows and what is held alone.
LEMMA StepsSorted ==
  ASSUME IInv, LedgerAssumption, HoldsAssumption, [HoldsNext]_hvars
  PROVE  \/ \E h \in Hold : \/ Ends(h)
                            \/ \E n \in Nat : HoldInternal(h, n) \/ ExtendHold(h, n)
                            \/ \E t \in Terms : SettleLate(h, t)
                            \/ TimePasses(h)
         \/ \E rows \in SUBSET queue : ConsumeSplitBatch(rows)
         \/ CreditDeveloper
         \/ SameHeld /\ UNCHANGED <<holds, windows, rollupVars>>
<1>1. CASE LedgerNext /\ UNCHANGED <<holds, capVars, windows, rollupVars>>
  BY <1>1, LedgerKeeps
<1>2. 1 .. MaxReserve \subseteq Nat
  BY DEF HoldsAssumption
<1>3. ASSUME NEW h \in Hold, NEW n \in 1 .. MaxReserve, Extend(h, n)
      PROVE  Ends(h) \/ ExtendHold(h, n)
  BY <1>3, EndsCovered DEF Extend
<1>4. ASSUME NEW h \in Hold, NEW t \in Terms, Settle(h, t)
      PROVE  Ends(h) \/ SettleLate(h, t)
  BY <1>4, EndsCovered DEF Settle
<1>5. ASSUME NEW h \in Hold,
             \/ \E n \in 0 .. MaxReserve : SettleFixed(h, n)
             \/ Release(h) \/ ExpireHold(h) \/ TimePasses(h)
      PROVE  Ends(h) \/ TimePasses(h)
  BY <1>5, EndsCovered
<1>6. ASSUME NEW u \in User, NEW consent, NEW limit, NEW total, SyncGrant(u, consent, limit, total)
      PROVE  SameHeld /\ UNCHANGED <<holds, windows, rollupVars>>
  <2>1. acct \in [User -> Account] /\ boundary \in BOOLEAN /\ Good(acct[u])
    BY Typed DEF IInv, AccountsGood
  <2>2. Opened(acct[u]).held = acct[u].held
    BY <2>1, OpenedGood
  <2>3. acct' = [acct EXCEPT ![u] = Opened(acct[u])]
    BY <1>6, <2>1 DEF SyncGrant
  <2>4. SameHeld
    BY <2>1, <2>2, <2>3 DEF SameHeld
  <2> QED
    BY <1>6, <2>4 DEF SyncGrant
<1>7. CASE NextWindow \/ UNCHANGED hvars
  BY <1>7 DEF NextWindow, hvars, lvars, SameHeld
<1> QED
  BY <1>1, <1>2, <1>3, <1>4, <1>5, <1>6, <1>7 DEF HoldsNext

\* One row changes, and stays orderly.
LEMMA RowStaysOrderly ==
  ASSUME NEW hs, OrderlyRows(hs), NEW h \in Hold, NEW hs2,
         \A g \in Hold : g # h => hs2[g] = hs[g],
         hs2[h].state # "unused",
         hs2[h].state = "open" => hs2[h].charged = 0
  PROVE  OrderlyRows(hs2)
<1> DEFINE S == {g \in Hold : hs[g].state # "unused"}
<1>1. IsFiniteSet(S)
  BY DEF OrderlyRows
<1>2. IsFiniteSet(S \cup {h})
  <2> HIDE DEF S
  <2> QED  BY <1>1, FS_AddElement
<1>3. {g \in Hold : hs2[g].state # "unused"} \subseteq S \cup {h}
  OBVIOUS
<1>4. IsFiniteSet({g \in Hold : hs2[g].state # "unused"})
  <2> HIDE DEF S
  <2> QED  BY <1>2, <1>3, FS_Subset
<1>5. ASSUME NEW g \in Hold
      PROVE  /\ hs2[g].state = "unused" => hs2[g].window = NoWindow
             /\ hs2[g].state \in {"unused", "open"} => hs2[g].charged = 0
  BY DEF OrderlyRows
<1> QED
  BY <1>4, <1>5 DEF OrderlyRows

\* A sweep leaves orderly rows.
LEMMA SweptOrderly ==
  ASSUME IInv, OrderlyRows(holds), NEW u
  PROVE  OrderlyRows(SweptHolds(u))
<1> DEFINE hs == SweptHolds(u)
<1>1. ASSUME NEW g \in Hold
      PROVE  /\ hs[g].window = holds[g].window /\ hs[g].charged = holds[g].charged
             /\ hs[g].state # "unused" <=> holds[g].state # "unused"
             /\ hs[g].state = "open" => holds[g].state = "open"
  BY DEF SweptHolds, ExpiredOf, OpenOf, Open, IInv, HoldsTypeOK, HoldRow
<1> HIDE DEF hs
<1>2. {g \in Hold : hs[g].state # "unused"} = {g \in Hold : holds[g].state # "unused"}
  BY <1>1
<1> QED
  BY <1>1, <1>2 DEF OrderlyRows, hs

\* Every step leaves orderly rows, and a finite queue.
LEMMA OrderlyKept ==
  ASSUME IInv, Orderly, LedgerAssumption, HoldsAssumption, [HoldsNext]_hvars
  PROVE  Orderly'
<1>1. OrderlyRows(holds) /\ IsFiniteSet(queue) /\ holds \in [Hold -> HoldRow]
  BY DEF Orderly, IInv, HoldsTypeOK
<1>2. ASSUME NEW row, IsFiniteSet(row), queue' = queue \cup row  PROVE IsFiniteSet(queue')
  BY <1>1, <1>2, FS_Union
<1>3. ASSUME NEW h, NEW provider, NEW dev, NEW platform
      PROVE  IsFiniteSet(SplitRow(h, provider, dev, platform))
  BY FS_EmptySet, FS_Singleton DEF SplitRow
<1>4. ASSUME NEW h \in Hold, Ends(h)  PROVE Orderly'
  <2>1. PICK outcome \in Finished, charge \in Nat, provider \in Nat, dev \in Nat,
             w \in Window \cup {NoWindow}, superseded \in BOOLEAN, costed \in BOOLEAN :
               Finish(h, outcome, charge, provider, dev, w, superseded, costed)
    BY <1>4 DEF Ends
  <2>2. /\ \A g \in Hold : g # h => holds'[g] = holds[g]
        /\ holds'[h].state = outcome
    BY <1>1, <2>1 DEF Finish, HoldRow
  <2>3. OrderlyRows(holds')
    BY <1>1, <2>2, RowStaysOrderly DEF Finished
  <2>4. IsFiniteSet(queue')
    BY <1>2, <1>3, <2>1 DEF Finish
  <2> QED
    BY <2>3, <2>4 DEF Orderly, OrderlyRows
<1>5. ASSUME NEW h \in Hold, NEW n \in Nat, HoldInternal(h, n)  PROVE Orderly'
  <2> DEFINE u == Owner[h]
             hs == SweptHolds(u)
  <2>1. OrderlyRows(hs) /\ hs \in [Hold -> HoldRow] /\ queue' = queue
    <3>1. hs \in [Hold -> HoldRow]
      BY SweptGood, Typed
    <3>2. queue' = queue
      BY <1>5 DEF HoldInternal, rollupVars
    <3> QED
      BY <1>1, <3>1, <3>2, SweptOrderly
  <2>2. \/ holds' = hs
        \/ \E w, rev : /\ holds[h].state = "unused"
                       /\ holds' = [hs EXCEPT ![h] = [hs[h] EXCEPT
                            !.state = "open", !.amount = n, !.window = w, !.revision = rev]]
    BY <1>5, <2>1 DEF HoldInternal, Admits
  <2>3. CASE holds' = hs
    BY <1>1, <2>1, <2>3 DEF Orderly, OrderlyRows
  <2>4. ASSUME NEW w, NEW rev, holds[h].state = "unused",
               holds' = [hs EXCEPT ![h] = [hs[h] EXCEPT
                 !.state = "open", !.amount = n, !.window = w, !.revision = rev]]
        PROVE  Orderly'
    <3>1. hs[h] = holds[h] /\ holds[h].charged = 0
      BY <1>1, <2>4 DEF SweptHolds, ExpiredOf, OpenOf, Open, OrderlyRows
    <3> HIDE DEF hs
    <3>2. holds'[h].state = "open" /\ holds'[h].charged = 0
          /\ \A g \in Hold : g # h => holds'[g] = hs[g]
      BY <2>1, <2>4, <3>1 DEF HoldRow
    <3>3. OrderlyRows(holds')
      BY <2>1, <3>2, RowStaysOrderly
    <3> QED
      BY <1>1, <2>1, <3>3 DEF Orderly, OrderlyRows
  <2> QED
    BY <2>2, <2>3, <2>4
<1>6. ASSUME NEW h \in Hold,
             \/ \E n \in Nat : ExtendHold(h, n)
             \/ TimePasses(h)
             \/ \E t \in Terms : SettleLate(h, t)
      PROVE  Orderly'
  <2>1. /\ \A g \in Hold : g # h => holds'[g] = holds[g]
        /\ holds'[h].state = holds[h].state /\ holds'[h].charged = holds[h].charged
        /\ holds[h].state # "unused"
    <3>1. ASSUME NEW n \in Nat, ExtendHold(h, n)
          PROVE  \A g \in Hold : /\ g # h => holds'[g] = holds[g]
                                 /\ holds'[g].state = holds[g].state
                                 /\ holds'[g].charged = holds[g].charged
      BY <1>1, <3>1 DEF ExtendHold, HoldRow
    <3>2. CASE \E n \in Nat : ExtendHold(h, n)
      <4>1. holds[h].state # "unused"
        BY <3>2 DEF ExtendHold, Open
      <4> QED
        BY <3>1, <3>2, <4>1
    <3>3. CASE TimePasses(h)
      BY <1>1, <3>3 DEF TimePasses, Open, HoldRow
    <3>4. CASE \E t \in Terms : SettleLate(h, t)
      BY <1>1, <3>4 DEF SettleLate, Late, HoldRow
    <3> QED
      BY <1>6, <3>2, <3>3, <3>4
  <2>2. holds[h].state = "open" => holds[h].charged = 0
    BY <1>1 DEF OrderlyRows
  <2>3. OrderlyRows(holds')
    BY ONLY <1>1, <1>6, <2>1, <2>2, RowStaysOrderly, Zenon
  <2>4. IsFiniteSet(queue')
    BY <1>1, <1>2, <1>3, <1>6 DEF ExtendHold, TimePasses, SettleLate, rollupVars
  <2> QED
    BY <2>3, <2>4 DEF Orderly, OrderlyRows
<1>7. CASE \/ \E rows \in SUBSET queue : ConsumeSplitBatch(rows)
           \/ CreditDeveloper
           \/ UNCHANGED <<holds, windows, rollupVars>>
  <2>1. queue' \subseteq queue /\ holds' = holds
    BY <1>7 DEF ConsumeSplitBatch, CreditDeveloper, rollupVars
  <2>2. IsFiniteSet(queue')
    BY <1>1, <2>1, FS_Subset
  <2> QED
    BY <1>1, <2>1, <2>2 DEF Orderly, OrderlyRows
<1> QED
  BY <1>4, <1>5, <1>6, <1>7, StepsSorted

\* Before the first call no hold was opened and nothing is queued.
LEMMA OrderlyBegins ==
  ASSUME HoldsInit  PROVE Orderly
<1>1. /\ {h \in Hold : holds[h].state # "unused"} = {} /\ queue = {}
      /\ \A h \in Hold : holds[h].window = NoWindow /\ holds[h].charged = 0
  BY DEF HoldsInit
<1> QED
  BY <1>1, FS_EmptySet DEF Orderly, OrderlyRows

-----------------------------------------------------------------------------
\* Whatever is reserved can be charged: under the boundary, a charge for at most
\* the hold's amount is met by the balance, and the cap does not undercut it.
LEMMA ReservationIsCharged ==
  ASSUME IInv, LedgerAssumption, HoldsAssumption, boundary,
         NEW h \in Hold, Open(h), NEW n \in 0 .. holds[h].amount
  PROVE  Charge(h, n) = n
<1> DEFINE a == acct[Owner[h]]
           amount == holds[h].amount
           within == WithinCap(h, n)
<1>1. amount \in Nat /\ n \in Nat /\ n <= amount
  BY Typed
<1>2. within \in Nat /\ within <= n
  BY <1>1, WithinCapTyped
<1>3. Healed(a) = a /\ Available(a) \in Nat
  <2>1. Good(a)
    BY Typed
  <2>2. a \in Account /\ a.balance >= a.held
    BY <2>1 DEF Good
  <2>3. a.balance \in Int /\ a.held \in Int
    BY <2>2 DEF Account
  <2> QED
    BY <2>2, <2>3 DEF Healed, Available
<1>4. Charge(h, n)
        = Greatest(Least(Least(n, Available(a) + amount), Greatest(within, Least(amount, n))), 0)
  BY <1>3 DEF Charge
<1> HIDE DEF a, amount, within
<1> QED
  BY <1>1, <1>2, <1>3, <1>4 DEF Greatest, Least

\* The inductive invariant holds in every state of every run.
THEOREM HoldsInvariant == HoldsSpec => [](IInv /\ Orderly)
<1>1. HoldsInit => IInv /\ Orderly
  BY HoldsInitGood, OrderlyBegins, LedgerAssumption, HoldsAssumption
<1>2. IInv /\ Orderly /\ [HoldsNext]_hvars => (IInv /\ Orderly)'
  BY HoldsNextKeeps, OrderlyKept, LedgerAssumption, HoldsAssumption
<1> QED
  BY <1>1, <1>2, PTL DEF HoldsSpec

\* Type correctness: no amount, window, share or counter leaves its domain, so
\* no split row ever has a negative share of the provider or the developer.
THEOREM HoldsTypeCorrect == HoldsSpec => []HoldsTypeOK
<1>1. IInv => HoldsTypeOK
  BY DEF IInv
<1> QED
  BY <1>1, HoldsInvariant, PTL

\* A user who owes anything has nothing available to spend or to reserve.
THEOREM DebtIsPaidFirst == HoldsSpec => []DebtBlocksSpending
<1>1. IInv => DebtBlocksSpending
  BY DEF IInv, AccountsGood, Good, DebtBlocksSpending
<1> QED
  BY <1>1, HoldsInvariant, PTL

\* Once the writer boundary is active, no function of the ledger leaves a
\* projection that differs from the journal, or a reservation without cover.
THEOREM BoundaryIsKept == HoldsSpec => []BoundaryHolds
<1>1. IInv => BoundaryHolds
  BY DEF IInv, AccountsGood, Good, BoundaryHolds
<1> QED
  BY <1>1, HoldsInvariant, PTL

\* Under the boundary every reservation can be collected in full.
THEOREM ReservationsAreCollectable == HoldsSpec => []ReservedIsCollectable
<1>1. IInv => ReservedIsCollectable
  BY ReservationIsCharged, LedgerAssumption, HoldsAssumption DEF ReservedIsCollectable
<1> QED
  BY <1>1, HoldsInvariant, PTL

-----------------------------------------------------------------------------
(***************************************************************************)
(* The story of each call and of each purchase: a call is charged once,    *)
(* its cost is split once, and a purchase's refund cursor is what the      *)
(* journal took back.  Both rest on few of the actions; the rest leave the *)
(* rows they are about alone.                                              *)
(***************************************************************************)
\* A cost is split when the hold is settled or marked as costed, not before.
SplitStory ==
  \A h \in Hold :
    /\ holds[h].splits <= 1
    /\ holds[h].splits = 0 \/ holds[h].state = "settled" \/ holds[h].costed
    /\ holds[h].state \in {"unused", "open"} => holds[h].splits = 0

CallStory == OneChargePerCall /\ SplitStory

\* A purchase that was not credited has nothing refunded.
PurchaseStory ==
  /\ CursorMatchesJournal
  /\ \A p \in Purchase : p \notin credited => refunded[p] = 0

-----------------------------------------------------------------------------
\* Calls: what settles no hold, queues no split and takes no mark of a cost back
\* continues the story.
LEMMA StoryGoesOn ==
  ASSUME CallStory,
         \A g \in Hold :
           /\ holds'[g].splits = holds[g].splits
           /\ holds[g].costed => holds'[g].costed
           /\ holds'[g].state = "settled" <=> holds[g].state = "settled"
           /\ holds'[g].state \in {"unused", "open"} => holds[g].state \in {"unused", "open"}
  PROVE  CallStory'
<1>1. OneChargePerCall'
  BY DEF CallStory, OneChargePerCall
<1>2. SplitStory'
  BY DEF CallStory, SplitStory
<1> QED
  BY <1>1, <1>2 DEF CallStory

\* A split row is queued or not.
LEMMA SplitRowCount ==
  ASSUME NEW h \in Hold, NEW provider, NEW dev, NEW platform
  PROVE  /\ Cardinality(SplitRow(h, provider, dev, platform)) \in {0, 1}
         /\ provider = 0 /\ dev = 0 /\ platform = 0
              => Cardinality(SplitRow(h, provider, dev, platform)) = 0
<1>1. Cardinality({}) = 0
  BY FS_EmptySet
<1>2. Cardinality({[hold |-> h, provider |-> provider, dev |-> dev, platform |-> platform]}) = 1
  BY FS_Singleton
<1>3. CASE provider = 0 /\ dev = 0 /\ platform = 0
  BY <1>1, <1>3 DEF SplitRow
<1>4. CASE ~(provider = 0 /\ dev = 0 /\ platform = 0)
  BY <1>2, <1>4 DEF SplitRow
<1> QED
  BY <1>3, <1>4

\* The end of a hold: settled only without a settled sibling, and with a cost
\* only if it is settled or marked.
LEMMA StoryEnds ==
  ASSUME IInv, CallStory, NEW h \in Hold, Open(h),
         NEW outcome \in Finished, NEW charge \in Int, NEW provider \in Int, NEW dev \in Int,
         NEW w, NEW superseded, NEW costed,
         Finish(h, outcome, charge, provider, dev, w, superseded, costed),
         outcome = "settled" => ~SettledSibling(h),
         outcome = "settled" \/ costed \/ (charge = 0 /\ provider = 0 /\ dev = 0)
  PROVE  CallStory'
<1> DEFINE row == SplitRow(h, provider, dev, charge - provider - dev)
<1>1. holds \in [Hold -> HoldRow]
  BY DEF IInv, HoldsTypeOK
<1>2. /\ \A g \in Hold : g # h => holds'[g] = holds[g]
      /\ holds'[h].state = outcome /\ holds'[h].costed = costed
      /\ holds'[h].splits = holds[h].splits + Cardinality(row)
  BY <1>1 DEF Finish, HoldRow
<1>3. holds[h].splits = 0
  BY DEF CallStory, SplitStory, Open
<1>4. /\ Cardinality(row) \in {0, 1}
      /\ charge = 0 /\ provider = 0 /\ dev = 0 => Cardinality(row) = 0
  BY SplitRowCount
<1> HIDE DEF row
<1>5. holds'[h].splits \in {0, 1}
      /\ (holds'[h].splits = 0 \/ holds'[h].state = "settled" \/ holds'[h].costed)
  BY <1>2, <1>3, <1>4
<1>6. SplitStory'
  <2>1. ASSUME NEW g \in Hold
        PROVE  /\ holds'[g].splits <= 1
               /\ holds'[g].splits = 0 \/ holds'[g].state = "settled" \/ holds'[g].costed
               /\ holds'[g].state \in {"unused", "open"} => holds'[g].splits = 0
    <3>1. CASE g = h
      BY <1>2, <1>5, <3>1 DEF Finished
    <3>2. CASE g # h
      BY <1>2, <3>2 DEF CallStory, SplitStory
    <3> QED
      BY <3>1, <3>2
  <2> QED
    BY <2>1 DEF SplitStory
<1>7. OneChargePerCall'
  BY <1>2 DEF CallStory, OneChargePerCall, SettledSibling
<1> QED
  BY <1>6, <1>7 DEF CallStory

\* The end of a hold that charges nothing.
LEMMA FreeEnd ==
  ASSUME IInv, CallStory, NEW h \in Hold, Open(h), NEW outcome \in {"expired", "released"},
         NEW provider \in Int, NEW superseded, NEW costed, costed \/ provider = 0,
         Finish(h, outcome, 0, provider, 0, holds[h].window, superseded, costed)
  PROVE  CallStory'
<1>1. outcome \in Finished /\ outcome # "settled" /\ 0 \in Int
  BY DEF Finished
<1> QED
  BY <1>1, StoryEnds

\* Holding, extending, settling and releasing.
LEMMA HoldActionsTell ==
  ASSUME IInv, CallStory, LedgerAssumption, HoldsAssumption, NEW h \in Hold,
         \/ \E n \in 1 .. MaxReserve : HoldInternal(h, n) \/ Extend(h, n)
         \/ \E t \in Terms : Settle(h, t)
         \/ \E n \in 0 .. MaxReserve : SettleFixed(h, n)
         \/ Release(h) \/ ExpireHold(h) \/ TimePasses(h)
  PROVE  CallStory'
<1>1. holds \in [Hold -> HoldRow]
  BY ONLY IInv DEF IInv, HoldsTypeOK
<1>2. ASSUME NEW n \in 1 .. MaxReserve, HoldInternal(h, n)  PROVE  CallStory'
  <2>1. \A g \in Hold : /\ SweptHolds(Owner[h])[g].splits = holds[g].splits
                        /\ SweptHolds(Owner[h])[g].costed = holds[g].costed
                        /\ \/ SweptHolds(Owner[h])[g].state = holds[g].state
                           \/ /\ holds[g].state = "open"
                              /\ SweptHolds(Owner[h])[g].state = "expired"
    BY <1>1 DEF SweptHolds, ExpiredOf, OpenOf, Open, HoldRow
  <2>2. CASE holds' = SweptHolds(Owner[h])
    BY <2>1, <2>2, StoryGoesOn
  <2>3. ASSUME NEW w, NEW r, holds[h].state = "unused",
               holds' = [SweptHolds(Owner[h]) EXCEPT ![h] =
                 [@ EXCEPT !.state = "open", !.amount = n, !.window = w, !.revision = r]]
        PROVE  CallStory'
    <3>1. SweptHolds(Owner[h])[h] = holds[h]
      BY <2>3 DEF SweptHolds, ExpiredOf, OpenOf, Open
    <3>2. /\ holds'[h].state = "open" /\ holds'[h].splits = holds[h].splits
          /\ holds'[h].costed = holds[h].costed
      BY <1>1, <2>3, <3>1 DEF SweptHolds, HoldRow
    <3>3. \A g \in Hold : g # h => holds'[g] = SweptHolds(Owner[h])[g]
      BY <2>3 DEF SweptHolds
    <3> QED
      BY <2>1, <2>3, <3>2, <3>3, StoryGoesOn
  <2> QED
    BY <1>2, <2>2, <2>3 DEF HoldInternal, Admits
<1>3. ASSUME NEW n \in 1 .. MaxReserve, ExtendHold(h, n)  PROVE  CallStory'
  <2>1. \A g \in Hold : /\ holds'[g].state = holds[g].state
                        /\ holds'[g].splits = holds[g].splits
                        /\ holds'[g].costed = holds[g].costed
    BY <1>1, <1>3 DEF ExtendHold, HoldRow
  <2> QED
    BY <2>1, StoryGoesOn
<1>4. CASE Open(h) /\ Expire(h)
  <2>1. Finish(h, "expired", 0, 0, 0, holds[h].window, FALSE, FALSE)
    BY <1>4 DEF Expire
  <2>2. "expired" \in {"expired", "released"} /\ 0 \in Int
    OBVIOUS
  <2> QED
    BY <1>4, <2>1, <2>2, FreeEnd
<1>5. ASSUME NEW t \in Terms, SettleTerminal(h, t)  PROVE  CallStory'
  <2>1. t.provider \in Int /\ Open(h)
    BY <1>5 DEF HoldsAssumption, SettleTerminal
  <2>2. \/ Finish(h, "expired", 0, t.provider, 0, holds[h].window, FALSE, TRUE)
        \/ Finish(h, "released", 0, t.provider, 0, holds[h].window, TRUE, TRUE)
    BY <1>5 DEF SettleTerminal
  <2> QED
    BY <2>1, <2>2, FreeEnd
<1>6. ASSUME NEW t \in Terms, SettleOpen(h, t)  PROVE  CallStory'
  <2> DEFINE charge == Charge(h, t.priced)
             dev == DevShare(t, charge)
             w == WindowFor(h, CapOf(h))
  <2>1. Finish(h, "settled", charge, t.provider, dev, w, FALSE, FALSE)
        /\ Open(h) /\ ~SettledSibling(h)
    BY <1>6 DEF SettleOpen, Supersedes
  <2>2. t.provider \in Int /\ t.dev \in Int /\ t.priced \in Nat
    BY DEF HoldsAssumption
  <2>3. charge \in Int
    BY <2>1, <2>2, ChargeBounds
  <2>4. dev \in Int
    BY <2>2, <2>3 DEF DevShare, Least, Greatest
  <2> HIDE DEF charge, dev, w
  <2> QED
    BY <2>1, <2>2, <2>3, <2>4, StoryEnds DEF Finished
<1>7. ASSUME NEW t \in Terms, SettleLate(h, t)  PROVE  CallStory'
  <2> DEFINE row == SplitRow(h, t.provider, 0, -t.provider)
  <2>1. /\ \A g \in Hold : g # h => holds'[g] = holds[g]
        /\ holds'[h].state = holds[h].state /\ holds'[h].costed
        /\ holds'[h].splits = holds[h].splits + Cardinality(row)
        /\ holds[h].state \in {"expired", "released"} /\ ~holds[h].costed
    BY <1>1, <1>7 DEF SettleLate, Late, HoldRow
  <2>2. Cardinality(row) \in {0, 1}
    BY SplitRowCount
  <2> HIDE DEF row
  <2>3. holds[h].splits = 0
    BY <2>1 DEF CallStory, SplitStory
  <2>4. OneChargePerCall'
    BY <2>1 DEF CallStory, OneChargePerCall
  <2>5. holds'[h].splits <= 1 /\ holds'[h].state \notin {"unused", "open"}
    BY <2>1, <2>2, <2>3
  <2>6. SplitStory'
    BY <2>1, <2>5 DEF CallStory, SplitStory
  <2> QED
    BY <2>4, <2>6 DEF CallStory
<1>8. ASSUME NEW n \in 0 .. MaxReserve, SettleFixed(h, n)  PROVE  CallStory'
  <2>1. /\ Open(h) /\ ~SettledSibling(h)
        /\ Finish(h, "settled", n, 0, 0, NoWindow, FALSE, FALSE)
    BY <1>8 DEF SettleFixed, Supersedes
  <2>2. n \in Int /\ 0 \in Int /\ "settled" \in Finished
    BY DEF Finished
  <2> QED
    BY <2>1, <2>2, StoryEnds
<1>9. CASE Release(h)
  <2> DEFINE outcome == IF holds[h].late THEN "expired" ELSE "released"
  <2>1. Open(h) /\ Finish(h, outcome, 0, 0, 0, holds[h].window, FALSE, FALSE)
    BY <1>9 DEF Release
  <2>2. outcome \in {"expired", "released"} /\ 0 \in Int
    OBVIOUS
  <2> HIDE DEF outcome
  <2> QED
    BY <2>1, <2>2, FreeEnd
<1>10. CASE TimePasses(h)
  <2>1. \A g \in Hold : /\ holds'[g].state = holds[g].state
                        /\ holds'[g].splits = holds[g].splits
                        /\ holds'[g].costed = holds[g].costed
    BY <1>1, <1>10 DEF TimePasses, HoldRow
  <2> QED
    BY <2>1, StoryGoesOn
<1> QED
  BY <1>2, <1>3, <1>4, <1>5, <1>6, <1>7, <1>8, <1>9, <1>10 DEF Extend, Settle, ExpireHold

\* Every step continues the story of the calls.
LEMMA CallStoryKept ==
  ASSUME IInv, CallStory, LedgerAssumption, HoldsAssumption, [HoldsNext]_hvars
  PROVE  CallStory'
<1>1. CASE holds' = holds
  BY <1>1, StoryGoesOn
<1>2. CASE \E h \in Hold :
             \/ \E n \in 1 .. MaxReserve : HoldInternal(h, n) \/ Extend(h, n)
             \/ \E t \in Terms : Settle(h, t)
             \/ \E n \in 0 .. MaxReserve : SettleFixed(h, n)
             \/ Release(h) \/ ExpireHold(h) \/ TimePasses(h)
  BY <1>2, HoldActionsTell
<1> QED
  BY <1>1, <1>2 DEF HoldsNext, SyncGrant, NextWindow, ConsumeSplitBatch, CreditDeveloper, hvars

\* Before the first call nothing was settled or split.
LEMMA CallStoryBegins ==
  ASSUME HoldsInit  PROVE  CallStory
BY DEF HoldsInit, CallStory, OneChargePerCall, SplitStory

\* The story of the calls holds throughout.
LEMMA CallStoryTrue == HoldsSpec => []CallStory
<1>1. HoldsInit => CallStory
  BY CallStoryBegins
<1>2. IInv /\ CallStory /\ [HoldsNext]_hvars => CallStory'
  BY CallStoryKept, LedgerAssumption, HoldsAssumption
<1> QED
  BY <1>1, <1>2, HoldsInvariant, PTL DEF HoldsSpec

\* However many attempts hold and settle a call, and in whatever order their
\* settlements, expiries and releases come, one of them is charged at most.
THEOREM CallsAreChargedOnce == HoldsSpec => []OneChargePerCall
<1>1. CallStory => OneChargePerCall
  BY DEF CallStory
<1> QED
  BY <1>1, CallStoryTrue, PTL

\* The provider's cost of an attempt is queued for the rollup once, however late
\* the settlement comes and however often it is retried.
THEOREM CostsAreSplitOnce == HoldsSpec => []SplitOnce
<1>1. CallStory => SplitOnce
  BY DEF CallStory, SplitStory, SplitOnce
<1> QED
  BY <1>1, CallStoryTrue, PTL

-----------------------------------------------------------------------------
\* Purchases: one purchase's rows change, and they change together.
LEMMA PurchaseMoves ==
  ASSUME PurchaseStory, NEW p \in Purchase,
         p \in credited', credited' = credited \cup {p},
         \A q \in Purchase : q # p => refunded'[q] = refunded[q] /\ posted'[q] = posted[q],
         refunded'[p] \in 0 .. Price[p], posted'[p] = Price[p] - refunded'[p]
  PROVE  PurchaseStory'
<1>1. CursorMatchesJournal'
  BY DEF PurchaseStory, CursorMatchesJournal
<1>2. \A q \in Purchase : q \notin credited' => refunded'[q] = 0
  BY DEF PurchaseStory
<1> QED
  BY <1>1, <1>2 DEF PurchaseStory

\* Crediting, refunding and restoring keep cursor and journal together.
LEMMA PurchasesTell ==
  ASSUME LedgerTypeOK, PurchaseStory, LedgerAssumption, NEW p \in Purchase,
         \/ CreditPurchase(p)
         \/ \E target \in 0 .. Price[p] :
              \/ \E freeze \in BOOLEAN : RefundPurchase(p, target, freeze)
              \/ RestorePurchase(p, target)
  PROVE  PurchaseStory'
<1>1. /\ refunded \in [Purchase -> Nat] /\ posted \in [Purchase -> Int]
      /\ Price[p] \in Nat
  BY DEF LedgerTypeOK, LedgerAssumption
<1>2. refunded[p] \in 0 .. Price[p]
  BY DEF PurchaseStory, CursorMatchesJournal
<1>3. CASE CreditPurchase(p)
  <2>1. posted[p] = 0 /\ refunded[p] = 0
    BY <1>3 DEF PurchaseStory, CursorMatchesJournal, CreditPurchase
  <2>2. /\ credited' = credited \cup {p} /\ refunded' = refunded
        /\ posted' = [posted EXCEPT ![p] = @ + Price[p]]
    BY <1>3 DEF CreditPurchase
  <2> QED
    BY <1>1, <1>2, <2>1, <2>2, PurchaseMoves
<1>4. ASSUME p \in credited, NEW x \in Int, refunded[p] + x \in 0 .. Price[p],
             credited' = credited, refunded'[p] = refunded[p] + x, posted'[p] = posted[p] - x,
             \A q \in Purchase : q # p => refunded'[q] = refunded[q] /\ posted'[q] = posted[q]
      PROVE  PurchaseStory'
  <2>1. posted[p] = Price[p] - refunded[p]
    BY <1>4 DEF PurchaseStory, CursorMatchesJournal
  <2>2. posted'[p] = Price[p] - refunded'[p]
    BY <1>1, <1>4, <2>1
  <2>3. credited' = credited \cup {p}
    BY <1>4
  <2> QED
    BY <1>4, <2>2, <2>3, PurchaseMoves
<1>5. ASSUME NEW target \in 0 .. Price[p], NEW freeze \in BOOLEAN, RefundPurchase(p, target, freeze)
      PROVE  PurchaseStory'
  <2> DEFINE x == RefundDelta(p, target)
  <2>1. /\ p \in credited /\ credited' = credited
        /\ refunded' = [refunded EXCEPT ![p] = Greatest(@, Least(target, Price[p]))]
        /\ posted' = [posted EXCEPT ![p] = @ - x]
    BY <1>5 DEF RefundPurchase
  <2>2. x \in Int /\ Greatest(refunded[p], Least(target, Price[p])) = refunded[p] + x
        /\ refunded[p] + x \in 0 .. Price[p]
    BY <1>1, <1>2 DEF RefundDelta, Greatest, Least
  <2> HIDE DEF x
  <2>3. refunded'[p] = refunded[p] + x /\ posted'[p] = posted[p] - x
    BY <1>1, <2>1, <2>2
  <2> QED
    BY <1>1, <1>4, <2>1, <2>2, <2>3
<1>6. ASSUME NEW target \in 0 .. Price[p], RestorePurchase(p, target)
      PROVE  PurchaseStory'
  <2> DEFINE restore == Greatest(refunded[p] - Least(target, Price[p]), 0)
  <2>1. /\ p \in credited /\ credited' = credited
        /\ refunded' = [refunded EXCEPT ![p] = @ - restore]
        /\ posted' = [posted EXCEPT ![p] = @ + restore]
    BY <1>6 DEF RestorePurchase
  <2>2. restore \in Int /\ refunded[p] - restore \in 0 .. Price[p]
    BY <1>1, <1>2 DEF Greatest, Least
  <2> HIDE DEF restore
  <2>3. -restore \in Int /\ refunded[p] + (-restore) \in 0 .. Price[p]
        /\ refunded'[p] = refunded[p] + (-restore) /\ posted'[p] = posted[p] - (-restore)
    BY <1>1, <2>1, <2>2
  <2> QED
    BY <1>1, <1>4, <2>1, <2>3
<1> QED
  BY <1>3, <1>5, <1>6

\* Every other step leaves the purchases alone.
LEMMA PurchaseStoryKept ==
  ASSUME IInv, PurchaseStory, LedgerAssumption, [HoldsNext]_hvars
  PROVE  PurchaseStory'
<1>1. CASE UNCHANGED purchaseVars
  BY <1>1 DEF purchaseVars, PurchaseStory, CursorMatchesJournal
<1>2. ASSUME NEW p \in Purchase,
             \/ CreditPurchase(p)
             \/ \E target \in 0 .. Price[p] :
                  \/ \E freeze \in BOOLEAN : RefundPurchase(p, target, freeze)
                  \/ RestorePurchase(p, target)
      PROVE  PurchaseStory'
  BY <1>2, PurchasesTell DEF IInv, HoldsTypeOK
<1>3. CASE LedgerNext
  BY <1>1, <1>2, <1>3
     DEF LedgerNext, Spend, SpendUpTo, CreditUser, TransferUsers, LegacyWrite, ActivateWriterBoundary
<1>4. ASSUME NEW h \in Hold, NEW n, HoldInternal(h, n) \/ Extend(h, n) \/ SettleFixed(h, n)
      PROVE  UNCHANGED purchaseVars
  BY <1>4 DEF HoldInternal, Extend, ExtendHold, Expire, SettleFixed, Finish
<1>5. ASSUME NEW h \in Hold, NEW t, Settle(h, t)  PROVE  UNCHANGED purchaseVars
  BY <1>5 DEF Settle, SettleTerminal, SettleOpen, SettleLate, Finish, lvars
<1>6. ASSUME NEW h \in Hold, Release(h) \/ ExpireHold(h) \/ TimePasses(h)
      PROVE  UNCHANGED purchaseVars
  BY <1>6 DEF Release, ExpireHold, Expire, TimePasses, Finish, lvars
<1>7. CASE \/ \E u \in User, consent \in {"live", "revoked"}, limit \in Limit, total \in Totals :
                SyncGrant(u, consent, limit, total)
           \/ NextWindow
           \/ \E rows \in SUBSET queue : ConsumeSplitBatch(rows)
           \/ CreditDeveloper
           \/ UNCHANGED hvars
  BY <1>7, <1>1 DEF SyncGrant, NextWindow, ConsumeSplitBatch, CreditDeveloper, hvars, lvars
<1> QED
  BY <1>1, <1>3, <1>4, <1>5, <1>6, <1>7 DEF HoldsNext

\* A purchase's cursor and the journal agree after any refunds, disputes and
\* restores in any order, for any price.
THEOREM CursorsMatchTheJournal == HoldsSpec => []CursorMatchesJournal
<1>1. LedgerAssumption /\ HoldsInit => PurchaseStory
  <2> SUFFICES ASSUME LedgerAssumption, HoldsInit  PROVE  PurchaseStory
    OBVIOUS
  <2>1. \A p \in Purchase : Price[p] \in Nat
    BY DEF LedgerAssumption
  <2> QED
    BY <2>1 DEF HoldsInit, LedgerInit, PurchaseStory, CursorMatchesJournal
<1>2. IInv /\ PurchaseStory /\ [HoldsNext]_hvars => PurchaseStory'
  BY PurchaseStoryKept, LedgerAssumption
<1>3. PurchaseStory => CursorMatchesJournal
  BY DEF PurchaseStory
<1> QED
  BY <1>1, <1>2, <1>3, LedgerAssumption, HoldsInvariant, PTL DEF HoldsSpec
-----------------------------------------------------------------------------
(***************************************************************************)
(* What the counters add up to.  A step moves one row, after a sweep that  *)
(* ends several; the lemmas are about the rows before and after a move.    *)
(***************************************************************************)
Amounts(hs)      == [h \in Hold |-> hs[h].amount]
Charges(hs)      == [h \in Hold |-> hs[h].charged]
OpenRows(hs, u)  == {h \in Hold : Owner[h] = u /\ hs[h].state = "open"}

\* With rows hs, the accounts ac hold what their open holds add up to.
HeldIs(hs, ac) ==
  \A u \in User : ac[u].held = SumFunctionOnSet(Amounts(hs), OpenRows(hs, u))

\* A sum with and without one element, whether it is there or not.
LEMMA SumWithout ==
  ASSUME NEW f, NEW S, IsFiniteSet(S), \A x \in S : f[x] \in Int, NEW e
  PROVE  /\ SumFunctionOnSet(f, S \ {e}) \in Int
         /\ e \in S => SumFunctionOnSet(f, S) = f[e] + SumFunctionOnSet(f, S \ {e})
         /\ e \notin S => SumFunctionOnSet(f, S) = SumFunctionOnSet(f, S \ {e})
<1>1. IsFiniteSet(S \ {e})
  BY FS_Subset
<1>2. \A x \in S \ {e} : f[x] \in Int
  OBVIOUS
<1>3. SumFunctionOnSet(f, S \ {e}) \in Int
  BY <1>1, <1>2, SumTyped
<1>4. e \notin S => S \ {e} = S
  OBVIOUS
<1> QED
  BY <1>3, <1>4, SumTakes

\* What element e contributes to a sum over S.
Part(f, S, e) == IF e \in S THEN f[e] ELSE 0

\* A sum when one term is changed, taken out or put in.
LEMMA SumFollows ==
  ASSUME NEW f, NEW g, NEW S, NEW S2, NEW e, IsFiniteSet(S), S \ {e} = S2 \ {e},
         \A x \in S : f[x] \in Int, \A x \in S2 : g[x] \in Int,
         \A x \in S \ {e} : f[x] = g[x]
  PROVE  /\ SumFunctionOnSet(f, S) \in Int
         /\ Part(f, S, e) \in Int /\ Part(g, S2, e) \in Int
         /\ SumFunctionOnSet(g, S2)
              = SumFunctionOnSet(f, S) - Part(f, S, e) + Part(g, S2, e)
<1>1. IsFiniteSet(S2)
  <2>1. IsFiniteSet(S \cup {e}) /\ S2 \subseteq S \cup {e}
    BY FS_AddElement
  <2> QED
    BY <2>1, FS_Subset
<1> DEFINE sum == SumFunctionOnSet(f, S)
           sum2 == SumFunctionOnSet(g, S2)
           rest == SumFunctionOnSet(f, S \ {e})
<1>2. /\ rest \in Int
      /\ e \in S => sum = f[e] + rest
      /\ e \notin S => sum = rest
  BY SumWithout
<1>3. /\ e \in S2 => sum2 = g[e] + rest
      /\ e \notin S2 => sum2 = rest
  <2>1. IsFiniteSet(S \ {e})
    BY FS_Subset
  <2>2. rest = SumFunctionOnSet(g, S \ {e})
    BY <2>1, SumSame
  <2>3. rest = SumFunctionOnSet(g, S2 \ {e})
    BY <2>2
  <2> HIDE DEF rest
  <2> QED
    BY <1>1, <2>3, SumWithout
<1> DEFINE out == Part(f, S, e)
           in == Part(g, S2, e)
<1>4. /\ out \in Int /\ in \in Int
      /\ sum = out + rest /\ sum2 = in + rest
  <2>1. /\ out = IF e \in S THEN f[e] ELSE 0
        /\ in = IF e \in S2 THEN g[e] ELSE 0
    BY DEF Part
  <2> DEFINE fe == f[e]
             ge == g[e]
  <2>2. /\ e \in S => fe \in Int /\ out = fe /\ sum = fe + rest
        /\ e \notin S => out = 0 /\ sum = rest
        /\ e \in S2 => ge \in Int /\ in = ge /\ sum2 = ge + rest
        /\ e \notin S2 => in = 0 /\ sum2 = rest
    BY <1>2, <1>3, <2>1
  <2> HIDE DEF sum, sum2, rest, out, in, fe, ge
  <2> QED
    BY <1>2, <2>2
<1>5. sum \in Int /\ sum2 = sum - out + in
  <2> HIDE DEF sum, sum2, rest, out, in
  <2> QED
    BY <1>2, <1>4
<1> QED
  BY <1>4, <1>5

\* One row is put in the place of another, and its account follows.
LEMMA HeldMoves ==
  ASSUME HoldsAssumption, NEW hs \in [Hold -> HoldRow], NEW hs2 \in [Hold -> HoldRow],
         NEW h \in Hold, \A g \in Hold : g # h => hs2[g] = hs[g],
         OrderlyRows(hs), NEW ac, NEW ac2, HeldIs(hs, ac),
         \A u \in User : u # Owner[h] => ac2[u].held = ac[u].held,
         ac2[Owner[h]].held
           = ac[Owner[h]].held - (IF hs[h].state = "open" THEN hs[h].amount ELSE 0)
                               + (IF hs2[h].state = "open" THEN hs2[h].amount ELSE 0)
  PROVE  HeldIs(hs2, ac2)
<1>1. \A g \in Hold : /\ Amounts(hs)[g] = hs[g].amount /\ hs[g].amount \in Int
                      /\ Amounts(hs2)[g] = hs2[g].amount /\ hs2[g].amount \in Int
                      /\ g # h => Amounts(hs2)[g] = Amounts(hs)[g]
  BY DEF Amounts, HoldRow
<1>2. ASSUME NEW u \in User
      PROVE  ac2[u].held = SumFunctionOnSet(Amounts(hs2), OpenRows(hs2, u))
  <2> DEFINE S == OpenRows(hs, u)
             S2 == OpenRows(hs2, u)
  <2>1. IsFiniteSet(S)
    <3>1. S \subseteq {g \in Hold : hs[g].state # "unused"}
      BY DEF OpenRows
    <3> QED
      BY <3>1, FS_Subset DEF OrderlyRows
  <2>2. S \ {h} = S2 \ {h} /\ S \subseteq Hold /\ S2 \subseteq Hold
    BY DEF OpenRows
  <2>3. /\ h \in S <=> (u = Owner[h] /\ hs[h].state = "open")
        /\ h \in S2 <=> (u = Owner[h] /\ hs2[h].state = "open")
    BY DEF OpenRows
  <2> HIDE DEF S, S2
  <2> DEFINE f == Amounts(hs)
             g == Amounts(hs2)
             old == hs[h].amount
             new == hs2[h].amount
             total == ac[u].held
             total2 == ac2[u].held
  <2>4. total = SumFunctionOnSet(f, S)
    BY DEF HeldIs, S
  <2>5. /\ \A x \in S : f[x] \in Int
        /\ \A x \in S2 : g[x] \in Int
        /\ \A x \in S \ {h} : f[x] = g[x]
        /\ f[h] = old /\ g[h] = new /\ old \in Int /\ new \in Int
    BY <1>1, <2>2
  <2>6. total \in Int
    BY <2>1, <2>4, <2>5, SumTyped
  <2> DEFINE out == Part(f, S, h)
             in == Part(g, S2, h)
             sum2 == SumFunctionOnSet(g, S2)
  <2>7. total2 = total - out + in
    <3>1. CASE u = Owner[h]
      BY <2>3, <2>5, <3>1 DEF Part
    <3>2. CASE u # Owner[h]
      <4>1. total2 = total /\ out = 0 /\ in = 0
        BY <2>3, <3>2 DEF Part
      <4> HIDE DEF total, total2, out, in
      <4> QED
        BY <2>6, <4>1
    <3> QED
      BY <3>1, <3>2
  <2> HIDE DEF f, g
  <2>8. sum2 = SumFunctionOnSet(f, S) - out + in
    BY <2>1, <2>2, <2>5, SumFollows
  <2>9. total2 = sum2
    <3> HIDE DEF total, total2, out, in, sum2
    <3> QED
      BY <2>4, <2>7, <2>8
  <2> QED
    BY <2>9 DEF S2, g
<1> QED
  BY <1>2 DEF HeldIs

\* After a sweep of u, the account holds what the remaining holds add up to.
LEMMA SweptHeld ==
  ASSUME IInv, Orderly, LedgerAssumption, HoldsAssumption, HeldIs(holds, acct),
         NEW u \in User, NEW ac, ac = [acct EXCEPT ![u] = Swept(u)]
  PROVE  HeldIs(SweptHolds(u), ac)
<1> DEFINE hs == SweptHolds(u)
           f == Amounts(holds)
<1>1. holds \in [Hold -> HoldRow] /\ acct \in [User -> Account] /\ hs \in [Hold -> HoldRow]
  BY SweptGood DEF IInv, HoldsTypeOK, AccountsGood
<1>2. Amounts(hs) = f
  BY <1>1 DEF Amounts, SweptHolds, HoldRow
<1>3. \A g \in Hold : f[g] \in Int
  BY <1>1 DEF Amounts, HoldRow
<1>4. /\ OpenRows(holds, u) = OpenOf(u)
      /\ OpenRows(hs, u) = OpenOf(u) \ ExpiredOf(u)
      /\ \A x \in User : x # u => OpenRows(hs, x) = OpenRows(holds, x)
  BY <1>1 DEF OpenRows, SweptHolds, ExpiredOf, OpenOf, Open, HoldRow
<1>5. /\ IsFiniteSet(OpenOf(u)) /\ OpenOf(u) \subseteq Hold
      /\ ExpiredOf(u) \subseteq OpenOf(u) /\ AmountOf(ExpiredOf(u)) \in Nat
      /\ AmountOf(OpenOf(u)) \in Nat
  <2>1. OpenOf(u) \subseteq {h \in Hold : holds[h].state # "unused"}
        /\ ExpiredOf(u) \subseteq OpenOf(u)
    BY DEF OpenOf, ExpiredOf, Open
  <2> QED
    BY <2>1, AmountsAddUp
<1>6. /\ AmountOf(OpenOf(u)) = SumFunctionOnSet(f, OpenOf(u))
      /\ AmountOf(ExpiredOf(u)) = SumFunctionOnSet(f, ExpiredOf(u))
  BY DEF AmountOf, Amounts
<1> HIDE DEF f
<1>7. SumFunctionOnSet(f, OpenOf(u))
        = SumFunctionOnSet(f, ExpiredOf(u)) + SumFunctionOnSet(f, OpenOf(u) \ ExpiredOf(u))
  BY <1>3, <1>5, SumSplits
<1>8. SumFunctionOnSet(f, OpenOf(u) \ ExpiredOf(u)) \in Int
  <2>1. IsFiniteSet(OpenOf(u) \ ExpiredOf(u))
    BY <1>5, FS_Subset
  <2> QED
    BY <1>3, <1>5, <2>1, SumTyped
<1>9. ac[u].held = SumFunctionOnSet(Amounts(hs), OpenRows(hs, u))
  <2> DEFINE all == AmountOf(OpenOf(u))
             gone == AmountOf(ExpiredOf(u))
             rest == SumFunctionOnSet(f, OpenOf(u) \ ExpiredOf(u))
  <2>1. acct[u].held = all
    BY <1>4, <1>6 DEF HeldIs, f
  <2>2. ac[u].held = acct[u].held - gone
    BY <1>1, SweptGood
  <2>3. all = gone + rest /\ all \in Int /\ gone \in Int /\ rest \in Int
    BY <1>5, <1>6, <1>7, <1>8
  <2> HIDE DEF all, gone, rest
  <2>4. ac[u].held = rest
    BY <2>1, <2>2, <2>3
  <2> QED
    BY <1>2, <1>4, <2>4 DEF rest
<1>10. ASSUME NEW x \in User, x # u
       PROVE  ac[x].held = SumFunctionOnSet(Amounts(hs), OpenRows(hs, x))
  BY <1>1, <1>2, <1>4, <1>10 DEF HeldIs, f
<1> QED
  BY <1>9, <1>10 DEF HeldIs

\* Rows that keep their amounts and stay open or closed, and accounts that hold
\* what they held.
LEMMA HeldStays ==
  ASSUME HoldsAssumption, NEW hs, NEW hs2, NEW ac, NEW ac2, HeldIs(hs, ac),
         \A g \in Hold : hs2[g].state = hs[g].state /\ hs2[g].amount = hs[g].amount,
         \A u \in User : ac2[u].held = ac[u].held
  PROVE  HeldIs(hs2, ac2)
<1>1. Amounts(hs2) = Amounts(hs) /\ \A u \in User : OpenRows(hs2, u) = OpenRows(hs, u)
  BY DEF Amounts, OpenRows
<1> QED
  BY <1>1 DEF HeldIs

\* What ends a hold: it is closed with its charge in its last window, and its
\* amount is no longer held.
LEMMA EndMoves ==
  ASSUME IInv, LedgerAssumption, HoldsAssumption, NEW h \in Hold, Ends(h)
  PROVE  \E charge \in Nat, provider \in Nat, dev \in Nat, w \in Window \cup {NoWindow} :
           LET row == SplitRow(h, provider, dev, charge - provider - dev)
           IN  /\ Open(h)
               /\ \A g \in Hold : g # h => holds'[g] = holds[g]
               /\ holds'[h].state \in Finished /\ holds'[h].amount = holds[h].amount
               /\ holds'[h].charged = charge /\ holds'[h].window = w
               /\ holds'[h].splits = holds[h].splits + Cardinality(row)
               /\ \A u \in User : u # Owner[h] => acct'[u].held = acct[u].held
               /\ acct'[Owner[h]].held = acct[Owner[h]].held - holds[h].amount
               /\ windows' = Consume(Reserve(windows, Owner[h], holds[h].window, -holds[h].amount),
                                     Owner[h], w, charge)
               /\ queue' = queue \cup row /\ clearing' = clearing + charge /\ pending' = pending
<1>1. PICK outcome \in Finished, charge \in Nat, provider \in Nat, dev \in Nat,
           w \in Window \cup {NoWindow}, superseded \in BOOLEAN, costed \in BOOLEAN :
             /\ Open(h)
             /\ charge = 0 \/ charge <= Available(Healed(acct[Owner[h]])) + holds[h].amount
             /\ Finish(h, outcome, charge, provider, dev, w, superseded, costed)
  BY DEF Ends
<1> DEFINE u == Owner[h]
           row == SplitRow(h, provider, dev, charge - provider - dev)
           b == Freed(acct[u], holds[h].amount, charge)
<1>2. /\ u \in User /\ boundary \in BOOLEAN /\ Good(acct[u]) /\ acct[u].open
      /\ holds[h].amount \in Nat /\ holds \in [Hold -> HoldRow] /\ acct \in [User -> Account]
  BY <1>1, Typed DEF IInv, HoldsHaveAccounts, HoldsTypeOK, AccountsGood
<1>3. b.held = acct[u].held - holds[h].amount
  BY <1>1, <1>2, FreedGood
<1> HIDE DEF b
<1>4. acct' = [acct EXCEPT ![u] = b]
  BY <1>1, <1>2 DEF Finish, b
<1>5. /\ \A x \in User : x # u => acct'[x].held = acct[x].held
      /\ acct'[u].held = acct[u].held - holds[h].amount
  BY <1>2, <1>3, <1>4
<1>6. /\ windows' = Consume(Reserve(windows, u, holds[h].window, -holds[h].amount), u, w, charge)
      /\ queue' = queue \cup row /\ clearing' = clearing + charge /\ pending' = pending
  BY <1>1 DEF Finish
<1>7. /\ \A g \in Hold : g # h => holds'[g] = holds[g]
      /\ holds'[h].state = outcome /\ holds'[h].amount = holds[h].amount
      /\ holds'[h].charged = charge /\ holds'[h].window = w
      /\ holds'[h].splits = holds[h].splits + Cardinality(row)
  BY <1>1, <1>2 DEF Finish, HoldRow
<1> HIDE DEF row
<1> WITNESS charge \in Nat, provider \in Nat, dev \in Nat, w \in Window \cup {NoWindow}
<1> QED
  BY <1>1, <1>5, <1>6, <1>7 DEF row

\* The accounts after a sweep of u.
SweptAccounts(u) == [acct EXCEPT ![u] = Swept(u)]

\* On top of a sweep, hold h opens with amount n, counted in window w.
OpensSwept(h, n, w) ==
  LET u  == Owner[h]
      hs == SweptHolds(u)
      ac == SweptAccounts(u)
  IN  /\ hs[h].state = "unused"
      /\ \A g \in Hold : g # h => holds'[g] = hs[g]
      /\ holds'[h].state = "open" /\ holds'[h].amount = n /\ holds'[h].window = w
      /\ holds'[h].charged = hs[h].charged /\ holds'[h].splits = hs[h].splits
      /\ \A x \in User : x # u => acct'[x].held = ac[x].held
      /\ acct'[u].held = ac[u].held + n
      /\ windows' = Reserve(SweptWindows(u), u, w, n)

\* A new hold is opened on top of a sweep, or only the sweep happens.
LEMMA HoldMoves ==
  ASSUME IInv, Orderly, LedgerAssumption, HoldsAssumption,
         NEW h \in Hold, NEW n \in Nat, HoldInternal(h, n)
  PROVE  /\ UNCHANGED rollupVars
         /\ \/ /\ acct' = SweptAccounts(Owner[h]) /\ holds' = SweptHolds(Owner[h])
               /\ windows' = SweptWindows(Owner[h])
            \/ \E w \in Window \cup {NoWindow} : OpensSwept(h, n, w)
<1> DEFINE u == Owner[h]
           hs == SweptHolds(u)
           ws == SweptWindows(u)
           a == Swept(u)
           ac == SweptAccounts(u)
           w == IF Capped(CapOf(h)) THEN WindowNow(CapOf(h)) ELSE NoWindow
           rev == CapOf(h).revision
<1>1. /\ u \in User /\ acct \in [User -> Account] /\ a \in Account /\ a.open
      /\ hs \in [Hold -> HoldRow] /\ w \in Window \cup {NoWindow}
  BY Typed, SweptGood, CapTyped DEF IInv, AccountsGood, Good
<1>2. \/ acct' = [acct EXCEPT ![u] = a] /\ holds' = hs /\ windows' = ws
      \/ /\ holds[h].state = "unused"
         /\ acct' = [acct EXCEPT ![u] = [a EXCEPT !.held = @ + n]]
         /\ windows' = Reserve(ws, u, w, n)
         /\ holds' = [hs EXCEPT ![h] = [hs[h] EXCEPT
              !.state = "open", !.amount = n, !.window = w, !.revision = rev]]
  BY <1>1 DEF HoldInternal, Admits
<1>3. holds[h].state = "unused" => hs[h].state = "unused"
  BY DEF SweptHolds, ExpiredOf, OpenOf, Open
<1>4. UNCHANGED rollupVars
  BY DEF HoldInternal
<1>5. ac = [acct EXCEPT ![u] = a]
  BY DEF SweptAccounts
<1> HIDE DEF hs, ws, a, w, ac
<1>6. ASSUME acct' = [acct EXCEPT ![u] = [a EXCEPT !.held = @ + n]]
      PROVE  /\ \A x \in User : x # u => acct'[x].held = ac[x].held
             /\ acct'[u].held = ac[u].held + n
  BY <1>1, <1>5, <1>6 DEF Account
<1>7. ASSUME holds' = [hs EXCEPT ![h] = [hs[h] EXCEPT
               !.state = "open", !.amount = n, !.window = w, !.revision = rev]]
      PROVE  /\ \A g \in Hold : g # h => holds'[g] = hs[g]
             /\ holds'[h].state = "open" /\ holds'[h].amount = n /\ holds'[h].window = w
             /\ holds'[h].charged = hs[h].charged /\ holds'[h].splits = hs[h].splits
  BY <1>1, <1>7 DEF HoldRow
<1>8. CASE acct' = [acct EXCEPT ![u] = a] /\ holds' = hs /\ windows' = ws
  BY <1>4, <1>5, <1>8 DEF hs, ws, ac
<1>9. CASE ~(acct' = [acct EXCEPT ![u] = a] /\ holds' = hs /\ windows' = ws)
  <2>1. /\ hs[h].state = "unused" /\ windows' = Reserve(ws, u, w, n)
        /\ \A g \in Hold : g # h => holds'[g] = hs[g]
        /\ holds'[h].state = "open" /\ holds'[h].amount = n /\ holds'[h].window = w
        /\ holds'[h].charged = hs[h].charged /\ holds'[h].splits = hs[h].splits
        /\ \A x \in User : x # u => acct'[x].held = ac[x].held
        /\ acct'[u].held = ac[u].held + n
    BY <1>2, <1>3, <1>6, <1>7, <1>9
  <2>2. OpensSwept(h, n, w)
    BY <2>1 DEF OpensSwept, hs, ws, ac
  <2> QED
    BY <1>1, <1>4, <2>2
<1> QED
  BY <1>8, <1>9

\* Hold h stays open, with another amount and perhaps in another window.
Resizes(h, amount, w) ==
  LET u == Owner[h]
  IN  /\ Open(h)
      /\ \A g \in Hold : g # h => holds'[g] = holds[g]
      /\ holds'[h].state = "open" /\ holds'[h].amount = amount /\ holds'[h].window = w
      /\ holds'[h].charged = holds[h].charged /\ holds'[h].splits = holds[h].splits
      /\ \A x \in User : x # u => acct'[x].held = acct[x].held
      /\ acct'[u].held = acct[u].held - holds[h].amount + amount
      /\ windows' = Rebook(u, holds[h], w, amount)

\* An extension resizes the hold, or leaves rows, windows and what is held alone.
LEMMA ExtendMoves ==
  ASSUME IInv, LedgerAssumption, HoldsAssumption, NEW h \in Hold, NEW to \in Nat,
         ExtendHold(h, to)
  PROVE  /\ UNCHANGED rollupVars
         /\ \/ SameHeld /\ UNCHANGED <<holds, windows>>
            \/ \E amount \in Nat, w \in Window \cup {NoWindow} : Resizes(h, amount, w)
<1> DEFINE u == Owner[h]
           a == Healed(acct[u])
           c == cap[u]
           r == holds[h]
           delta == Greatest(to - r.amount, 0)
           w == WindowFor(h, c)
           b == [a EXCEPT !.held = @ + delta]
           rev == IF Capped(c) THEN c.revision ELSE r.revision
<1>1. /\ u \in User /\ boundary \in BOOLEAN /\ acct \in [User -> Account]
      /\ r \in HoldRow /\ r.amount \in Nat /\ holds \in [Hold -> HoldRow]
      /\ Good(acct[u]) /\ acct[u].open /\ Open(h) /\ acct[u].held \in Int
  BY Typed DEF IInv, HoldsTypeOK, ExtendHold, HoldsHaveAccounts, AccountsGood, Account
<1>2. a.held = acct[u].held /\ a \in Account
  BY <1>1, HealedGood DEF Good
<1>3. delta \in Nat /\ r.amount + delta \in Nat
  BY <1>1 DEF Greatest
<1>4. w \in Window \cup {NoWindow}
  BY Typed DEF WindowFor, WindowNow, Window, TotalWindow, HoldsAssumption, IInv, HoldsTypeOK
<1>5. /\ \/ /\ acct' = [acct EXCEPT ![u] = b]
            /\ windows' = Rebook(u, r, w, r.amount + delta)
            /\ holds' = [holds EXCEPT ![h] = [r EXCEPT
                 !.amount = r.amount + delta, !.window = w, !.revision = rev]]
         \/ acct' = [acct EXCEPT ![u] = a] /\ UNCHANGED <<windows, holds>>
      /\ UNCHANGED rollupVars
  BY <1>1 DEF ExtendHold
<1>6. b.held = acct[u].held + delta
  BY <1>2 DEF Account
<1> DEFINE amount == r.amount + delta
<1>7. acct[u].held + delta = acct[u].held - r.amount + amount
  <2> DEFINE held == acct[u].held
             old == r.amount
  <2>1. held \in Int /\ old \in Nat
    BY <1>1
  <2> HIDE DEF held, old, delta
  <2>2. held + delta = held - old + (old + delta)
    BY <1>3, <2>1
  <2> QED
    BY <2>2 DEF held, old
<1> HIDE DEF a, b, c, w, rev, amount
<1>8. CASE acct' = [acct EXCEPT ![u] = a] /\ UNCHANGED <<windows, holds>>
  <2>1. SameHeld
    BY <1>1, <1>2, <1>8 DEF SameHeld
  <2> QED
    BY <1>5, <1>8, <2>1
<1>9. CASE ~(acct' = [acct EXCEPT ![u] = a] /\ UNCHANGED <<windows, holds>>)
  <2>1. /\ acct' = [acct EXCEPT ![u] = b]
        /\ windows' = Rebook(u, r, w, amount)
        /\ holds' = [holds EXCEPT ![h] = [r EXCEPT
             !.amount = amount, !.window = w, !.revision = rev]]
    BY <1>5, <1>9 DEF amount
  <2>2. /\ \A g \in Hold : g # h => holds'[g] = holds[g]
        /\ holds'[h].state = "open" /\ holds'[h].amount = amount /\ holds'[h].window = w
        /\ holds'[h].charged = holds[h].charged /\ holds'[h].splits = holds[h].splits
    <3> HIDE DEF r
    <3>1. r.state = "open" /\ r = holds[h]
      BY <1>1 DEF Open, r
    <3> QED
      BY <1>1, <2>1, <3>1 DEF HoldRow
  <2>3. /\ \A x \in User : x # u => acct'[x].held = acct[x].held
        /\ acct'[u].held = acct[u].held - r.amount + amount
    BY <1>1, <1>6, <1>7, <2>1
  <2>4. Resizes(h, amount, w)
    BY <1>1, <2>1, <2>2, <2>3 DEF Resizes
  <2>5. amount \in Nat
    BY <1>3 DEF amount
  <2> QED
    BY <1>4, <1>5, <2>4, <2>5
<1> QED
  BY <1>8, <1>9

\* Recording a late cost, or the passing of a hold's time: no counter moves.
LEMMA MarksOnly ==
  ASSUME IInv, NEW h \in Hold, TimePasses(h) \/ \E t \in Terms : SettleLate(h, t)
  PROVE  /\ UNCHANGED <<acct, windows>>
         /\ \A g \in Hold :
              /\ holds'[g].state = holds[g].state /\ holds'[g].amount = holds[g].amount
              /\ holds'[g].window = holds[g].window /\ holds'[g].charged = holds[g].charged
<1>1. holds \in [Hold -> HoldRow]
  BY DEF IInv, HoldsTypeOK
<1>2. CASE TimePasses(h)
  BY <1>1, <1>2 DEF TimePasses, lvars, HoldRow
<1>3. CASE \E t \in Terms : SettleLate(h, t)
  <2>1. PICK t \in Terms : SettleLate(h, t)
    BY <1>3
  <2>2. UNCHANGED <<acct, windows>>
    BY <2>1 DEF SettleLate, lvars
  <2> DEFINE splits == holds[h].splits + Cardinality(SplitRow(h, t.provider, 0, -t.provider))
             r == [holds[h] EXCEPT !.costed = TRUE, !.splits = splits]
  <2>3. holds' = [holds EXCEPT ![h] = r]
    BY <1>1, <2>1 DEF SettleLate
  <2> HIDE DEF splits
  <2>4. /\ r.state = holds[h].state /\ r.amount = holds[h].amount
        /\ r.window = holds[h].window /\ r.charged = holds[h].charged
    BY <1>1 DEF HoldRow
  <2> HIDE DEF r
  <2> QED
    BY <1>1, <2>2, <2>3, <2>4
<1> QED
  BY <1>2, <1>3

\* Crediting the developer reserves nothing.
LEMMA CreditReservesNothing ==
  ASSUME IInv, LedgerAssumption, HoldsAssumption, CreditDeveloper
  PROVE  SameHeld
<1> DEFINE u == Developer
           b == Repaid(Locked(acct[u]), pending)
<1>1. /\ u \in User /\ boundary \in BOOLEAN /\ acct \in [User -> Account] /\ Good(acct[u])
      /\ pending \in Nat
  BY Typed DEF HoldsAssumption, IInv, AccountsGood, HoldsTypeOK
<1>2. b.held = acct[u].held
  BY <1>1, LockedGood, RepaidGood
<1>3. acct' = [acct EXCEPT ![u] = b]
  BY <1>1 DEF CreditDeveloper
<1> HIDE DEF b
<1> QED
  BY <1>1, <1>2, <1>3 DEF SameHeld

\* Every step moves what an account holds together with its open holds.
LEMMA HeldKept ==
  ASSUME IInv, Orderly, HeldIs(holds, acct), LedgerAssumption, HoldsAssumption,
         [HoldsNext]_hvars
  PROVE  HeldIs(holds', acct')
<1>1. /\ holds \in [Hold -> HoldRow] /\ holds' \in [Hold -> HoldRow] /\ OrderlyRows(holds)
      /\ \A h \in Hold : Owner[h] \in User
  BY HoldsNextKeeps, Typed DEF IInv, HoldsTypeOK, Orderly
<1>2. acct \in [User -> Account]
  BY DEF IInv, AccountsGood
<1>3. ASSUME NEW h \in Hold, Ends(h)  PROVE HeldIs(holds', acct')
  <2>1. /\ Open(h) /\ \A g \in Hold : g # h => holds'[g] = holds[g]
        /\ holds'[h].state \in Finished
        /\ \A u \in User : u # Owner[h] => acct'[u].held = acct[u].held
        /\ acct'[Owner[h]].held = acct[Owner[h]].held - holds[h].amount
    BY <1>3, EndMoves
  <2>2. acct[Owner[h]].held - holds[h].amount
          = acct[Owner[h]].held - (IF holds[h].state = "open" THEN holds[h].amount ELSE 0)
              + (IF holds'[h].state = "open" THEN holds'[h].amount ELSE 0)
    <3>1. acct[Owner[h]].held \in Int /\ holds[h].amount \in Int
      BY <1>1, <1>2 DEF Account, HoldRow
    <3> DEFINE held == acct[Owner[h]].held
               amount == holds[h].amount
    <3>2. held - amount = held - amount + 0
      BY <3>1
    <3> HIDE DEF held, amount
    <3>3. /\ (IF holds[h].state = "open" THEN amount ELSE 0) = amount
          /\ (IF holds'[h].state = "open" THEN holds'[h].amount ELSE 0) = 0
      BY <2>1 DEF Open, Finished
    <3>4. held - amount = held - (IF holds[h].state = "open" THEN amount ELSE 0)
                               + (IF holds'[h].state = "open" THEN holds'[h].amount ELSE 0)
      BY <3>2, <3>3
    <3> QED
      BY <3>4 DEF held, amount
  <2> QED
    BY <1>1, <2>1, <2>2, HeldMoves
<1>4. ASSUME NEW h \in Hold, NEW n \in Nat, HoldInternal(h, n)  PROVE HeldIs(holds', acct')
  <2> DEFINE u == Owner[h]
             hs == SweptHolds(u)
             ac == SweptAccounts(u)
  <2>1. /\ HeldIs(hs, ac) /\ hs \in [Hold -> HoldRow] /\ OrderlyRows(hs)
        /\ ac[u].held \in Int
    <3>1. HeldIs(hs, ac)
      BY <1>1, SweptHeld DEF SweptAccounts
    <3>2. Swept(u).held \in Int
      BY <1>1, SweptGood DEF Good, Account
    <3> QED
      BY <1>1, <1>2, <3>1, <3>2, SweptGood, SweptOrderly DEF SweptAccounts
  <2>2. CASE acct' = ac /\ holds' = hs
    BY <2>1, <2>2
  <2>3. ASSUME NEW w \in Window \cup {NoWindow}, OpensSwept(h, n, w)
        PROVE  HeldIs(holds', acct')
    <3>1. /\ hs[h].state = "unused" /\ \A g \in Hold : g # h => holds'[g] = hs[g]
          /\ holds'[h].state = "open" /\ holds'[h].amount = n
          /\ \A x \in User : x # u => acct'[x].held = ac[x].held
          /\ acct'[u].held = ac[u].held + n
      BY <2>3 DEF OpensSwept
    <3> HIDE DEF hs, ac
    <3>2. ac[u].held + n
            = ac[u].held - (IF hs[h].state = "open" THEN hs[h].amount ELSE 0)
                         + (IF holds'[h].state = "open" THEN holds'[h].amount ELSE 0)
      <4> DEFINE held == ac[u].held
      <4>1. held + n = held - 0 + n
        BY <2>1
      <4> HIDE DEF held
      <4>2. held + n = held - (IF hs[h].state = "open" THEN hs[h].amount ELSE 0)
                            + (IF holds'[h].state = "open" THEN holds'[h].amount ELSE 0)
        BY <3>1, <4>1
      <4> QED
        BY <4>2 DEF held
    <3> QED
      BY ONLY HoldsAssumption, <1>1, <2>1, <3>1, <3>2, HeldMoves, SMTT(40)
  <2> QED
    BY <1>4, <2>2, <2>3, HoldMoves
<1>5. ASSUME NEW h \in Hold, NEW n \in Nat, ExtendHold(h, n)  PROVE HeldIs(holds', acct')
  <2>1. CASE SameHeld /\ UNCHANGED <<holds, windows>>
    BY <2>1, HeldStays DEF SameHeld
  <2>2. ASSUME NEW amount \in Nat, NEW w \in Window \cup {NoWindow}, Resizes(h, amount, w)
        PROVE  HeldIs(holds', acct')
    <3>1. /\ holds[h].state = "open" /\ \A g \in Hold : g # h => holds'[g] = holds[g]
          /\ holds'[h].state = "open" /\ holds'[h].amount = amount
          /\ \A x \in User : x # Owner[h] => acct'[x].held = acct[x].held
          /\ acct'[Owner[h]].held = acct[Owner[h]].held - holds[h].amount + amount
      BY <2>2 DEF Resizes, Open
    <3> QED
      BY <1>1, <3>1, HeldMoves
  <2> QED
    BY <1>5, <2>1, <2>2, ExtendMoves
<1>6. ASSUME NEW h \in Hold, TimePasses(h) \/ \E t \in Terms : SettleLate(h, t)
      PROVE  HeldIs(holds', acct')
  BY <1>6, MarksOnly, HeldStays
<1>7. CASE \/ CreditDeveloper
           \/ \E rows \in SUBSET queue : ConsumeSplitBatch(rows)
           \/ SameHeld /\ UNCHANGED <<holds, windows, rollupVars>>
  <2>1. holds' = holds /\ SameHeld
    BY <1>7, CreditReservesNothing DEF CreditDeveloper, ConsumeSplitBatch, SameHeld, lvars
  <2> QED
    BY <2>1, HeldStays DEF SameHeld
<1> QED
  BY <1>3, <1>4, <1>5, <1>6, <1>7, StepsSorted

\* Whatever holds, extensions, settlements, releases and sweeps happen, for any
\* holds and any amounts, an account's counter is the sum of its open holds.
THEOREM HeldCountsOpenHolds == HoldsSpec => []HeldIsOpenHolds
<1>1. HoldsInit => HeldIs(holds, acct)
  <2> SUFFICES ASSUME HoldsInit, NEW u \in User
               PROVE  acct[u].held = SumFunctionOnSet(Amounts(holds), OpenRows(holds, u))
    BY DEF HeldIs
  <2>1. OpenRows(holds, u) = {}
    BY DEF HoldsInit, OpenRows
  <2>2. SumFunctionOnSet(Amounts(holds), {}) = 0
    BY FS_EmptySet, SumUnfolds
  <2>3. acct[u].held = 0
    BY DEF HoldsInit, LedgerInit, NewAccount
  <2> QED
    BY <2>1, <2>2, <2>3
<1>2. IInv /\ Orderly /\ HeldIs(holds, acct) /\ [HoldsNext]_hvars => HeldIs(holds, acct)'
  <2>1. HeldIs(holds, acct)' <=> HeldIs(holds', acct')
    BY DEF HeldIs, Amounts, OpenRows
  <2> QED
    BY <2>1, HeldKept, LedgerAssumption, HoldsAssumption
<1>3. HeldIs(holds, acct) => HeldIsOpenHolds
  BY DEF HeldIs, HeldIsOpenHolds, AmountOf, Amounts, OpenRows, OpenOf, Open
<1> QED
  BY <1>1, <1>2, <1>3, HoldsInvariant, PTL DEF HoldsSpec

-----------------------------------------------------------------------------
(***************************************************************************)
(* Windows.  A step moves one row out of its window into another, after a  *)
(* sweep that takes several reservations out of theirs.                    *)
(***************************************************************************)
HereRows(hs, u, w) == {h \in Hold : Owner[h] = u /\ hs[h].window = w}
OpenHere(hs, u, w) == {h \in HereRows(hs, u, w) : hs[h].state = "open"}

\* With rows hs, the windows ws hold and have spent what the rows add up to.
WindowsAre(hs, ws) ==
  \A u \in User, w \in Window :
    /\ ws[u][w].held  = SumFunctionOnSet(Amounts(hs), OpenHere(hs, u, w))
    /\ ws[u][w].spent = SumFunctionOnSet(Charges(hs), HereRows(hs, u, w))

\* Only a hold that was opened counts against a window.
LEMMA HereFinite ==
  ASSUME HoldsAssumption, NEW hs, OrderlyRows(hs), NEW u, NEW w \in Window
  PROVE  IsFiniteSet(HereRows(hs, u, w)) /\ IsFiniteSet(OpenHere(hs, u, w))
<1>1. NoWindow \notin Window
  BY DEF NoWindow, Window, TotalWindow, HoldsAssumption
<1>2. HereRows(hs, u, w) \subseteq {h \in Hold : hs[h].state # "unused"}
  BY <1>1 DEF OrderlyRows, HereRows
<1>3. OpenHere(hs, u, w) \subseteq HereRows(hs, u, w)
  BY DEF OpenHere
<1> QED
  BY <1>2, <1>3, FS_Subset DEF OrderlyRows

\* From windows ws to ws2 the contributions of row h change and nothing else.
Follow(hs, hs2, h, ws, ws2) ==
  \A u \in User, w \in Window :
    /\ ws2[u][w].held = ws[u][w].held - Part(Amounts(hs), OpenHere(hs, u, w), h)
                                      + Part(Amounts(hs2), OpenHere(hs2, u, w), h)
    /\ ws2[u][w].spent = ws[u][w].spent - Part(Charges(hs), HereRows(hs, u, w), h)
                                        + Part(Charges(hs2), HereRows(hs2, u, w), h)

\* One row is put in the place of another, and the windows follow.
LEMMA WindowsMove ==
  ASSUME HoldsAssumption, NEW hs \in [Hold -> HoldRow], NEW hs2 \in [Hold -> HoldRow],
         NEW h \in Hold, \A g \in Hold : g # h => hs2[g] = hs[g],
         OrderlyRows(hs), NEW ws, NEW ws2, WindowsAre(hs, ws),
         Follow(hs, hs2, h, ws, ws2)
  PROVE  WindowsAre(hs2, ws2)
<1>1. \A g \in Hold : /\ Amounts(hs)[g] \in Int /\ Amounts(hs2)[g] \in Int
                      /\ Charges(hs)[g] \in Int /\ Charges(hs2)[g] \in Int
                      /\ g # h => /\ Amounts(hs)[g] = Amounts(hs2)[g]
                                  /\ Charges(hs)[g] = Charges(hs2)[g]
  BY DEF Amounts, Charges, HoldRow
<1>2. ASSUME NEW u \in User, NEW w \in Window
      PROVE  ws2[u][w].held = SumFunctionOnSet(Amounts(hs2), OpenHere(hs2, u, w))
  <2> DEFINE f == Amounts(hs)
             g == Amounts(hs2)
             S == OpenHere(hs, u, w)
             S2 == OpenHere(hs2, u, w)
  <2>1. S \subseteq Hold /\ S2 \subseteq Hold /\ S \ {h} = S2 \ {h} /\ IsFiniteSet(S)
    <3>1. IsFiniteSet(S)
      BY HereFinite
    <3>2. S \subseteq Hold /\ S2 \subseteq Hold /\ S \ {h} = S2 \ {h}
      BY DEF OpenHere, HereRows
    <3> QED
      BY <3>1, <3>2
  <2>2. ws[u][w].held = SumFunctionOnSet(f, S)
    BY DEF WindowsAre
  <2>3. ws2[u][w].held = ws[u][w].held - Part(f, S, h) + Part(g, S2, h)
    BY DEF Follow
  <2>4. /\ \A x \in S : f[x] \in Int
        /\ \A x \in S2 : g[x] \in Int
        /\ \A x \in S \ {h} : f[x] = g[x]
    BY <1>1, <2>1
  <2> HIDE DEF f, g, S, S2
  <2>5. SumFunctionOnSet(g, S2) = SumFunctionOnSet(f, S) - Part(f, S, h) + Part(g, S2, h)
    BY <2>1, <2>4, SumFollows
  <2>6. ws2[u][w].held = SumFunctionOnSet(g, S2)
    BY <2>2, <2>3, <2>5
  <2> QED
    BY <2>6 DEF g, S2
<1>3. ASSUME NEW u \in User, NEW w \in Window
      PROVE  ws2[u][w].spent = SumFunctionOnSet(Charges(hs2), HereRows(hs2, u, w))
  <2> DEFINE f == Charges(hs)
             g == Charges(hs2)
             S == HereRows(hs, u, w)
             S2 == HereRows(hs2, u, w)
  <2>1. S \subseteq Hold /\ S2 \subseteq Hold /\ S \ {h} = S2 \ {h} /\ IsFiniteSet(S)
    <3>1. IsFiniteSet(S)
      BY HereFinite
    <3>2. S \subseteq Hold /\ S2 \subseteq Hold /\ S \ {h} = S2 \ {h}
      BY DEF HereRows
    <3> QED
      BY <3>1, <3>2
  <2>2. ws[u][w].spent = SumFunctionOnSet(f, S)
    BY DEF WindowsAre
  <2>3. ws2[u][w].spent = ws[u][w].spent - Part(f, S, h) + Part(g, S2, h)
    BY DEF Follow
  <2>4. /\ \A x \in S : f[x] \in Int
        /\ \A x \in S2 : g[x] \in Int
        /\ \A x \in S \ {h} : f[x] = g[x]
    BY <1>1, <2>1
  <2> HIDE DEF f, g, S, S2
  <2>5. SumFunctionOnSet(g, S2) = SumFunctionOnSet(f, S) - Part(f, S, h) + Part(g, S2, h)
    BY <2>1, <2>4, SumFollows
  <2>6. ws2[u][w].spent = SumFunctionOnSet(g, S2)
    BY <2>2, <2>3, <2>5
  <2> QED
    BY <2>6 DEF g, S2
<1> QED
  BY <1>2, <1>3 DEF WindowsAre

\* Rows that stay in their windows, open or closed, with their amounts and charges.
LEMMA WindowsStay ==
  ASSUME HoldsAssumption, NEW hs, NEW hs2, NEW ws, WindowsAre(hs, ws),
         \A g \in Hold :
           /\ hs2[g].state = hs[g].state /\ hs2[g].amount = hs[g].amount
           /\ hs2[g].window = hs[g].window /\ hs2[g].charged = hs[g].charged
  PROVE  WindowsAre(hs2, ws)
<1>1. Amounts(hs2) = Amounts(hs) /\ Charges(hs2) = Charges(hs)
  BY DEF Amounts, Charges
<1>2. \A u, w : HereRows(hs2, u, w) = HereRows(hs, u, w)
  BY DEF HereRows
<1>3. \A u, w : OpenHere(hs2, u, w) = OpenHere(hs, u, w)
  BY DEF HereRows, OpenHere
<1> QED
  BY <1>1, <1>2, <1>3 DEF WindowsAre

\* What is counted at (x, v) when n is counted at (u, w).
At(x, v, u, w, n) == IF x = u /\ v = w THEN n ELSE 0

\* From windows ws to ws2, n more is reserved in window w of u.
ReserveCounts(ws, ws2, u, w, n) ==
  \A x \in User, v \in Window :
    /\ ws2[x][v].held = ws[x][v].held + At(x, v, u, w, n)
    /\ ws2[x][v].spent = ws[x][v].spent
    /\ ws[x][v].held \in Int /\ ws[x][v].spent \in Int

\* What a reservation of n in window w of u leaves in the windows.
LEMMA ReserveIs ==
  ASSUME HoldsAssumption, NEW ws \in Frames, NEW u \in User, NEW w \in Window \cup {NoWindow},
         NEW n \in Int
  PROVE  ReserveCounts(ws, Reserve(ws, u, w, n), u, w, n)
<1>1. NoWindow \notin Window
  BY DEF NoWindow, Window, TotalWindow, HoldsAssumption
<1>2. ASSUME NEW x \in User, NEW v \in Window
      PROVE  /\ Reserve(ws, u, w, n)[x][v].held = ws[x][v].held + At(x, v, u, w, n)
             /\ Reserve(ws, u, w, n)[x][v].spent = ws[x][v].spent
             /\ ws[x][v].held \in Int /\ ws[x][v].spent \in Int
  <2>1. /\ ws[x] \in [Window -> [spent : Int, held : Int]]
        /\ ws[x][v].held \in Int /\ ws[x][v].spent \in Int
        /\ ws[x][v] \in [spent : Int, held : Int]
    BY DEF Frames
  <2>2. CASE ~(x = u /\ v = w)
    <3>1. Reserve(ws, u, w, n)[x][v] = ws[x][v]
      BY <2>2 DEF Reserve, Frames
    <3> QED
      BY <2>1, <2>2, <3>1 DEF At
  <2>3. CASE x = u /\ v = w
    <3>1. Reserve(ws, u, w, n)[x][v] = [ws[x][v] EXCEPT !.held = @ + n]
      BY <1>1, <2>3 DEF Reserve, Frames
    <3>2. Reserve(ws, u, w, n)[x][v].held = ws[x][v].held + n
          /\ Reserve(ws, u, w, n)[x][v].spent = ws[x][v].spent
      BY <2>1, <3>1
    <3> QED
      BY <2>1, <2>3, <3>2 DEF At
  <2> QED
    BY <2>2, <2>3
<1> QED
  BY <1>2 DEF ReserveCounts

\* From windows ws to ws2, a charge of n is counted in window w of u.
ChargeCounts(ws, ws2, u, w, n) ==
  \A x \in User, v \in Window :
    /\ ws2[x][v].held = ws[x][v].held
    /\ ws2[x][v].spent = ws[x][v].spent + At(x, v, u, w, n)

\* What a charge of n to window w of u leaves in the windows.
LEMMA ConsumeIs ==
  ASSUME HoldsAssumption, NEW ws \in Frames, NEW u \in User, NEW w \in Window \cup {NoWindow},
         NEW n \in Int
  PROVE  ChargeCounts(ws, Consume(ws, u, w, n), u, w, n)
<1>1. NoWindow \notin Window
  BY DEF NoWindow, Window, TotalWindow, HoldsAssumption
<1>2. ASSUME NEW x \in User, NEW v \in Window
      PROVE  /\ Consume(ws, u, w, n)[x][v].held = ws[x][v].held
             /\ Consume(ws, u, w, n)[x][v].spent = ws[x][v].spent + At(x, v, u, w, n)
  <2>1. /\ ws[x] \in [Window -> [spent : Int, held : Int]]
        /\ ws[x][v].held \in Int /\ ws[x][v].spent \in Int
        /\ ws[x][v] \in [spent : Int, held : Int]
    BY DEF Frames
  <2>2. CASE ~(x = u /\ v = w)
    <3>1. Consume(ws, u, w, n)[x][v] = ws[x][v]
      BY <2>2 DEF Consume, Frames
    <3> QED
      BY <2>1, <2>2, <3>1 DEF At
  <2>3. CASE x = u /\ v = w
    <3>1. Consume(ws, u, w, n)[x][v] = [ws[x][v] EXCEPT !.spent = @ + n]
      BY <1>1, <2>3 DEF Consume, Frames
    <3>2. Consume(ws, u, w, n)[x][v].spent = ws[x][v].spent + n
          /\ Consume(ws, u, w, n)[x][v].held = ws[x][v].held
      BY <2>1, <3>1
    <3> QED
      BY <2>1, <2>3, <3>2 DEF At
  <2> QED
    BY <2>2, <2>3
<1> QED
  BY <1>2 DEF ChargeCounts

\* What is counted is a number, and taking n away is counting -n.
LEMMA AtNumber ==
  ASSUME NEW x, NEW v, NEW u, NEW w, NEW n \in Int
  PROVE  /\ At(x, v, u, w, n) \in Int /\ At(x, v, u, w, -n) \in Int
         /\ At(x, v, u, w, n) + At(x, v, u, w, -n) = 0
         /\ At(x, v, u, w, 0) = 0
<1>1. CASE x = u /\ v = w
  BY <1>1 DEF At
<1>2. CASE ~(x = u /\ v = w)
  <2>1. At(x, v, u, w, n) = 0 /\ At(x, v, u, w, -n) = 0 /\ At(x, v, u, w, 0) = 0
    BY <1>2 DEF At
  <2> DEFINE at == At(x, v, u, w, n)
             nat == At(x, v, u, w, -n)
  <2> HIDE DEF at, nat
  <2>2. at = 0 /\ nat = 0
    BY <2>1 DEF at, nat
  <2>3. at \in Int /\ nat \in Int /\ at + nat = 0
    BY <2>2
  <2> QED
    BY <2>1, <2>3 DEF at, nat
<1> QED
  BY <1>1, <1>2

\* What a row reserves in its window.
Reserved(r) == IF r.state = "open" THEN r.amount ELSE 0

\* What row h contributes to a window, in terms of At.
LEMMA PartsOf ==
  ASSUME NEW hs, NEW h \in Hold, NEW x \in User, NEW v \in Window
  PROVE  /\ Part(Amounts(hs), OpenHere(hs, x, v), h)
              = At(x, v, Owner[h], hs[h].window, Reserved(hs[h]))
         /\ Part(Charges(hs), HereRows(hs, x, v), h)
              = At(x, v, Owner[h], hs[h].window, hs[h].charged)
<1>1. /\ h \in OpenHere(hs, x, v) <=> (x = Owner[h] /\ v = hs[h].window /\ hs[h].state = "open")
      /\ h \in HereRows(hs, x, v) <=> (x = Owner[h] /\ v = hs[h].window)
      /\ Amounts(hs)[h] = hs[h].amount /\ Charges(hs)[h] = hs[h].charged
  BY DEF OpenHere, HereRows, Amounts, Charges
<1> QED
  BY <1>1 DEF Part, At, Reserved

\* From windows ws to ws2, row r of u is taken out and row r2 is put in.
Recounts(u, r, r2, ws, ws2) ==
  \A x \in User, v \in Window :
    /\ ws2[x][v].held = ws[x][v].held + At(x, v, u, r.window, -Reserved(r))
                                      + At(x, v, u, r2.window, Reserved(r2))
    /\ ws2[x][v].spent = ws[x][v].spent + At(x, v, u, r2.window, r2.charged)

\* One row is put in the place of another that was charged nothing.
LEMMA RowMoves ==
  ASSUME HoldsAssumption, NEW hs \in [Hold -> HoldRow], NEW hs2 \in [Hold -> HoldRow],
         NEW h \in Hold, \A g \in Hold : g # h => hs2[g] = hs[g],
         OrderlyRows(hs), NEW ws \in Frames, NEW ws2, WindowsAre(hs, ws),
         hs[h].charged = 0, Recounts(Owner[h], hs[h], hs2[h], ws, ws2)
  PROVE  WindowsAre(hs2, ws2)
<1> DEFINE u == Owner[h]
           r == hs[h]
           r2 == hs2[h]
<1>1. /\ Reserved(r) \in Int /\ Reserved(r2) \in Int /\ r2.charged \in Int
  BY DEF Reserved, HoldRow
<1>2. ASSUME NEW x \in User, NEW v \in Window
      PROVE  /\ ws2[x][v].held = ws[x][v].held - Part(Amounts(hs), OpenHere(hs, x, v), h)
                                               + Part(Amounts(hs2), OpenHere(hs2, x, v), h)
             /\ ws2[x][v].spent = ws[x][v].spent - Part(Charges(hs), HereRows(hs, x, v), h)
                                                 + Part(Charges(hs2), HereRows(hs2, x, v), h)
  <2> DEFINE held == ws[x][v].held
             spent == ws[x][v].spent
             out == At(x, v, u, r.window, Reserved(r))
             nout == At(x, v, u, r.window, -Reserved(r))
             in == At(x, v, u, r2.window, Reserved(r2))
             new == At(x, v, u, r2.window, r2.charged)
             old == At(x, v, u, r.window, r.charged)
  <2>1. held \in Int /\ spent \in Int
    BY DEF Frames
  <2>2. out + nout = 0 /\ nout \in Int /\ out \in Int /\ in \in Int /\ new \in Int
    <3> HIDE DEF r, r2
    <3> QED
      BY <1>1, AtNumber
  <2>3. old = 0
    BY DEF At
  <2>4. ws2[x][v].held = held + nout + in /\ ws2[x][v].spent = spent + new
    BY DEF Recounts
  <2>5. /\ Part(Amounts(hs), OpenHere(hs, x, v), h) = out
        /\ Part(Amounts(hs2), OpenHere(hs2, x, v), h) = in
        /\ Part(Charges(hs), HereRows(hs, x, v), h) = old
        /\ Part(Charges(hs2), HereRows(hs2, x, v), h) = new
    BY PartsOf
  <2>6. held + nout + in = held - out + in /\ spent + new = spent - old + new
    <3> HIDE DEF held, spent, out, nout, in, new, old
    <3> QED
      BY <2>1, <2>2, <2>3
  <2> HIDE DEF held, spent, out, nout, in, new, old
  <2>7. /\ ws2[x][v].held = held - Part(Amounts(hs), OpenHere(hs, x, v), h)
                                 + Part(Amounts(hs2), OpenHere(hs2, x, v), h)
        /\ ws2[x][v].spent = spent - Part(Charges(hs), HereRows(hs, x, v), h)
                                   + Part(Charges(hs2), HereRows(hs2, x, v), h)
    BY <2>4, <2>5, <2>6
  <2> QED
    BY <2>7 DEF held, spent
<1>3. Follow(hs, hs2, h, ws, ws2)
  BY <1>2 DEF Follow
<1> QED
  BY <1>3, WindowsMove

\* After a sweep of u, the windows hold and have spent what the rows add up to.
LEMMA SweptWindowsAre ==
  ASSUME IInv, Orderly, LedgerAssumption, HoldsAssumption, WindowsAre(holds, windows),
         NEW u \in User
  PROVE  WindowsAre(SweptHolds(u), SweptWindows(u))
<1> DEFINE hs == SweptHolds(u)
           ws == SweptWindows(u)
           f == Amounts(holds)
           gone(w) == {h \in ExpiredOf(u) : holds[h].window = w}
<1>1. holds \in [Hold -> HoldRow] /\ windows \in Frames /\ OrderlyRows(holds)
  BY Typed DEF IInv, HoldsTypeOK, Orderly
<1>2. /\ Amounts(hs) = f /\ Charges(hs) = Charges(holds)
      /\ \A x, w : HereRows(hs, x, w) = HereRows(holds, x, w)
  <2>1. \A g \in Hold : /\ hs[g].amount = holds[g].amount /\ hs[g].charged = holds[g].charged
                        /\ hs[g].window = holds[g].window
    BY <1>1 DEF SweptHolds, HoldRow
  <2> HIDE DEF hs
  <2>2. Amounts(hs) = f /\ Charges(hs) = Charges(holds)
    BY <2>1 DEF Amounts, Charges
  <2>3. \A x, w : HereRows(hs, x, w) = HereRows(holds, x, w)
    BY <2>1 DEF HereRows
  <2> QED
    BY <2>2, <2>3
<1>3. \A g \in Hold : f[g] \in Int
  BY <1>1 DEF Amounts, HoldRow
<1>4. ASSUME NEW x \in User, NEW w \in Window
      PROVE  /\ OpenHere(hs, x, w) = IF x = u THEN OpenHere(holds, x, w) \ gone(w)
                                     ELSE OpenHere(holds, x, w)
             /\ gone(w) \subseteq OpenHere(holds, u, w)
  <2>1. \A g \in Hold : /\ hs[g].window = holds[g].window
                        /\ hs[g].state = "open" <=> (holds[g].state = "open" /\ g \notin ExpiredOf(u))
    BY <1>1 DEF SweptHolds, HoldRow, ExpiredOf, OpenOf, Open
  <2>2. \A g \in ExpiredOf(u) : g \in Hold /\ Owner[g] = u /\ holds[g].state = "open"
    BY DEF ExpiredOf, OpenOf, Open
  <2> HIDE DEF hs
  <2> QED
    BY <2>1, <2>2 DEF OpenHere, HereRows
<1>5. ASSUME NEW x \in User, NEW w \in Window
      PROVE  /\ ws[x][w].spent = windows[x][w].spent
             /\ x # u => ws[x][w] = windows[x][w]
             /\ x = u => ws[x][w].held = windows[x][w].held - AmountOf(gone(w))
  <2>1. windows[x][w] \in [spent : Int, held : Int]
    BY <1>1 DEF Frames
  <2>2. CASE x = u
    <3>1. ws[x][w] = [windows[x][w] EXCEPT !.held = @ - AmountOf(gone(w))]
      BY <1>1, <2>2 DEF SweptWindows, Frames
    <3> HIDE DEF gone, ws
    <3> QED
      BY <2>1, <2>2, <3>1
  <2>3. CASE x # u
    BY <1>1, <2>3 DEF SweptWindows, Frames
  <2> QED
    BY <2>2, <2>3
<1> HIDE DEF hs, ws
<1>6. ASSUME NEW x \in User, NEW w \in Window
      PROVE  ws[x][w].spent = SumFunctionOnSet(Charges(hs), HereRows(hs, x, w))
  <2>1. windows[x][w].spent = SumFunctionOnSet(Charges(holds), HereRows(holds, x, w))
    BY DEF WindowsAre
  <2>2. ws[x][w].spent = windows[x][w].spent
    BY <1>5
  <2> QED
    BY <1>2, <2>1, <2>2
<1>7. ASSUME NEW x \in User, NEW w \in Window, x # u
      PROVE  ws[x][w].held = SumFunctionOnSet(Amounts(hs), OpenHere(hs, x, w))
  <2>1. windows[x][w].held = SumFunctionOnSet(Amounts(holds), OpenHere(holds, x, w))
    BY DEF WindowsAre
  <2>2. ws[x][w] = windows[x][w]
    BY <1>5, <1>7
  <2>3. OpenHere(hs, x, w) = OpenHere(holds, x, w)
    BY <1>4, <1>7
  <2> QED
    BY <1>2, <2>1, <2>2, <2>3
<1>8. ASSUME NEW w \in Window
      PROVE  ws[u][w].held = SumFunctionOnSet(Amounts(hs), OpenHere(hs, u, w))
  <2> DEFINE S == OpenHere(holds, u, w)
             P == gone(w)
             all == SumFunctionOnSet(f, S)
             out == SumFunctionOnSet(f, P)
             rest == SumFunctionOnSet(f, S \ P)
  <2>1. P \subseteq S /\ S \subseteq Hold
    BY <1>4 DEF OpenHere, HereRows
  <2>2. IsFiniteSet(S)
    BY <1>1, HereFinite
  <2>3. windows[u][w].held = all
    BY DEF WindowsAre
  <2>4. AmountOf(gone(w)) = out
    BY DEF AmountOf, Amounts
  <2>5. SumFunctionOnSet(Amounts(hs), OpenHere(hs, u, w)) = rest
    BY <1>2, <1>4
  <2> HIDE DEF f, S, P
  <2>6. all = out + rest
    BY <1>3, <2>1, <2>2, SumSplits
  <2>7. out \in Int /\ rest \in Int
    <3>1. IsFiniteSet(P) /\ IsFiniteSet(S \ P)
      BY <2>1, <2>2, FS_Subset
    <3>2. (\A x \in P : f[x] \in Int) /\ (\A x \in S \ P : f[x] \in Int)
      BY <1>3, <2>1
    <3>3. out \in Int
      BY <3>1, <3>2, SumTyped
    <3>4. rest \in Int
      BY <3>1, <3>2, SumTyped
    <3> QED
      BY <3>3, <3>4
  <2>8. ws[u][w].held = windows[u][w].held - out
    BY <1>5, <2>4
  <2> HIDE DEF all, out, rest
  <2>9. ws[u][w].held = rest
    BY <2>3, <2>6, <2>7, <2>8
  <2> QED
    BY <2>5, <2>9
<1>9. WindowsAre(hs, ws)
  BY <1>6, <1>7, <1>8 DEF WindowsAre
<1> QED
  BY <1>9 DEF hs, ws

\* A hold's end takes its amount out of its window, and its charge into its last.
LEMMA WindowsEnd ==
  ASSUME IInv, Orderly, LedgerAssumption, HoldsAssumption, WindowsAre(holds, windows),
         holds' \in [Hold -> HoldRow], NEW h \in Hold, Ends(h)
  PROVE  WindowsAre(holds', windows')
<1> DEFINE u == Owner[h]
           r == holds[h]
           r2 == holds'[h]
           freed == -Reserved(r)
           from == r.window
           mid == Reserve(windows, u, from, freed)
<1>1. /\ holds \in [Hold -> HoldRow] /\ windows \in Frames /\ u \in User
      /\ r.amount \in Nat /\ from \in Window \cup {NoWindow} /\ OrderlyRows(holds)
  BY Typed DEF IInv, HoldsTypeOK, Orderly
<1>2. PICK charge \in Nat, w \in Window \cup {NoWindow} :
        /\ r.state = "open"
        /\ \A g \in Hold : g # h => holds'[g] = holds[g]
        /\ r2.state # "open" /\ r2.charged = charge /\ r2.window = w
        /\ windows' = Consume(Reserve(windows, u, from, -r.amount), u, w, charge)
  BY EndMoves DEF Open, Finished
<1>3. r.charged = 0
  BY <1>1, <1>2 DEF OrderlyRows
<1>4. /\ Reserved(r) = r.amount /\ Reserved(r2) = 0
      /\ windows' = Consume(mid, u, w, charge)
  BY <1>2 DEF Reserved
<1>5. freed \in Int /\ charge \in Int
  BY <1>1, <1>4
<1> HIDE DEF freed, from
<1>6. mid \in Frames /\ ReserveCounts(windows, mid, u, from, freed)
  BY <1>1, <1>5, ReserveTyped, ReserveIs
<1> HIDE DEF mid
<1>7. ChargeCounts(mid, windows', u, w, charge)
  BY <1>1, <1>4, <1>5, <1>6, ConsumeIs
<1>8. ASSUME NEW x \in User, NEW v \in Window
      PROVE  /\ windows'[x][v].held = windows[x][v].held + At(x, v, u, from, freed)
                                                         + At(x, v, u, w, 0)
             /\ windows'[x][v].spent = windows[x][v].spent + At(x, v, u, w, charge)
  <2>1. /\ windows'[x][v].held = windows[x][v].held + At(x, v, u, from, freed)
        /\ windows'[x][v].spent = windows[x][v].spent + At(x, v, u, w, charge)
        /\ windows[x][v].held \in Int
    BY <1>6, <1>7 DEF ReserveCounts, ChargeCounts
  <2>2. At(x, v, u, from, freed) \in Int /\ At(x, v, u, w, 0) = 0
    BY <1>5, AtNumber DEF At
  <2> DEFINE held == windows[x][v].held
             out == At(x, v, u, from, freed)
             sum == windows'[x][v].held
  <2>3. sum = held + out + 0
    <3> HIDE DEF held, out, sum
    <3> QED
      BY <2>1, <2>2 DEF held, out, sum
  <2> HIDE DEF held, sum
  <2>4. sum = held + out + At(x, v, u, w, 0)
    BY <2>2, <2>3
  <2> QED
    BY <2>1, <2>4 DEF held, sum
<1>9. Recounts(u, r, r2, windows, windows')
  BY <1>2, <1>4, <1>8 DEF Recounts, freed, from
<1> QED
  BY <1>1, <1>2, <1>3, <1>9, RowMoves

\* An extension takes the old amount out of the old window and the new one in.
LEMMA WindowsResize ==
  ASSUME IInv, Orderly, LedgerAssumption, HoldsAssumption, WindowsAre(holds, windows),
         holds' \in [Hold -> HoldRow], NEW h \in Hold, NEW n \in Nat,
         NEW w \in Window \cup {NoWindow}, Resizes(h, n, w)
  PROVE  WindowsAre(holds', windows')
<1> DEFINE u == Owner[h]
           r == holds[h]
           r2 == holds'[h]
           freed == -Reserved(r)
           from == r.window
           mid == Reserve(windows, u, from, freed)
<1>1. /\ holds \in [Hold -> HoldRow] /\ windows \in Frames /\ u \in User
      /\ r.amount \in Nat /\ from \in Window \cup {NoWindow} /\ OrderlyRows(holds)
  BY Typed DEF IInv, HoldsTypeOK, Orderly
<1>2. /\ r.state = "open" /\ \A g \in Hold : g # h => holds'[g] = holds[g]
      /\ r2.state = "open" /\ r2.amount = n /\ r2.window = w /\ r2.charged = r.charged
      /\ windows' = Reserve(Reserve(windows, u, from, -r.amount), u, w, n)
  BY DEF Resizes, Rebook, Open
<1>3. r.charged = 0
  BY <1>1, <1>2 DEF OrderlyRows
<1>4. /\ Reserved(r) = r.amount /\ Reserved(r2) = n
      /\ windows' = Reserve(mid, u, w, n)
  BY <1>2 DEF Reserved
<1>5. freed \in Int /\ n \in Int
  BY <1>1, <1>4
<1> HIDE DEF freed, from
<1>6. mid \in Frames /\ ReserveCounts(windows, mid, u, from, freed)
  BY <1>1, <1>5, ReserveTyped, ReserveIs
<1> HIDE DEF mid
<1>7. ReserveCounts(mid, windows', u, w, n)
  BY <1>1, <1>4, <1>5, <1>6, ReserveIs
<1>8. ASSUME NEW x \in User, NEW v \in Window
      PROVE  /\ windows'[x][v].held = windows[x][v].held + At(x, v, u, from, freed)
                                                         + At(x, v, u, w, n)
             /\ windows'[x][v].spent = windows[x][v].spent + At(x, v, u, w, 0)
  <2>1. /\ windows'[x][v].held = windows[x][v].held + At(x, v, u, from, freed)
                                                    + At(x, v, u, w, n)
        /\ windows'[x][v].spent = windows[x][v].spent
        /\ windows[x][v].spent \in Int
    BY <1>6, <1>7 DEF ReserveCounts
  <2>2. At(x, v, u, w, 0) = 0
    BY DEF At
  <2>3. windows'[x][v].spent = windows[x][v].spent + At(x, v, u, w, 0)
    BY <2>1, <2>2
  <2> QED
    BY <2>1, <2>3
<1>9. Recounts(u, r, r2, windows, windows')
  BY <1>2, <1>3, <1>4, <1>8 DEF Recounts, freed, from
<1> QED
  BY <1>1, <1>2, <1>3, <1>9, RowMoves

\* A hold that opens on top of a sweep is counted in its window.
LEMMA WindowsOpen ==
  ASSUME IInv, Orderly, LedgerAssumption, HoldsAssumption, WindowsAre(holds, windows),
         holds' \in [Hold -> HoldRow], NEW h \in Hold, NEW n \in Nat,
         NEW w \in Window \cup {NoWindow}, OpensSwept(h, n, w)
  PROVE  WindowsAre(holds', windows')
<1> DEFINE u == Owner[h]
           hs == SweptHolds(u)
           ws == SweptWindows(u)
           r == hs[h]
           r2 == holds'[h]
           from == r.window
<1>1. u \in User /\ holds \in [Hold -> HoldRow]
  BY Typed DEF IInv, HoldsTypeOK
<1>2. /\ hs \in [Hold -> HoldRow] /\ ws \in Frames /\ OrderlyRows(hs) /\ WindowsAre(hs, ws)
  BY <1>1, SweptGood, SweptOrderly, SweptWindowsAre DEF Orderly
<1>3. /\ r.state = "unused" /\ \A g \in Hold : g # h => holds'[g] = hs[g]
      /\ r2.state = "open" /\ r2.amount = n /\ r2.window = w /\ r2.charged = r.charged
      /\ windows' = Reserve(ws, u, w, n)
  BY DEF OpensSwept
<1> HIDE DEF hs, ws
<1>4. r.charged = 0
  BY <1>2, <1>3 DEF OrderlyRows
<1>5. Reserved(r) = 0 /\ Reserved(r2) = n
  BY <1>3 DEF Reserved
<1> HIDE DEF r
<1>6. n \in Int
  OBVIOUS
<1>7. ReserveCounts(ws, windows', u, w, n)
  BY <1>1, <1>2, <1>3, <1>6, ReserveIs
<1>8. ASSUME NEW x \in User, NEW v \in Window
      PROVE  /\ windows'[x][v].held = ws[x][v].held + At(x, v, u, from, -Reserved(r))
                                                    + At(x, v, u, w, n)
             /\ windows'[x][v].spent = ws[x][v].spent + At(x, v, u, w, 0)
  <2> HIDE DEF from
  <2>1. /\ windows'[x][v].held = ws[x][v].held + At(x, v, u, w, n)
        /\ windows'[x][v].spent = ws[x][v].spent
        /\ ws[x][v].held \in Int /\ ws[x][v].spent \in Int
    BY <1>7 DEF ReserveCounts
  <2>2. At(x, v, u, w, 0) = 0 /\ At(x, v, u, from, 0) = 0
    BY DEF At
  <2>3. At(x, v, u, from, -Reserved(r)) = 0
    <3>1. /\ At(x, v, u, from, -0) \in Int
          /\ At(x, v, u, from, 0) + At(x, v, u, from, -0) = 0
      BY AtNumber
    <3> DEFINE nat == At(x, v, u, from, -0)
    <3> HIDE DEF nat
    <3>2. nat \in Int /\ 0 + nat = 0
      BY <2>2, <3>1 DEF nat
    <3>3. nat = 0
      BY <3>2
    <3> QED
      BY <1>5, <3>3 DEF nat
  <2>4. windows'[x][v].held = ws[x][v].held + 0 + At(x, v, u, w, n)
    BY <2>1
  <2>5. windows'[x][v].spent = ws[x][v].spent + 0
    BY <2>1
  <2> QED
    BY <2>2, <2>3, <2>4, <2>5
<1>9. Recounts(u, r, r2, ws, windows')
  BY <1>3, <1>4, <1>5, <1>8 DEF Recounts
<1> QED
  BY <1>2, <1>3, <1>4, <1>9, RowMoves DEF r

\* Every step moves what the windows count together with the rows.
LEMMA WindowsKept ==
  ASSUME IInv, Orderly, WindowsAre(holds, windows), LedgerAssumption, HoldsAssumption,
         [HoldsNext]_hvars
  PROVE  WindowsAre(holds', windows')
<1>1. /\ holds' \in [Hold -> HoldRow]
      /\ \A h \in Hold : Owner[h] \in User
  BY HoldsNextKeeps, Typed DEF IInv, HoldsTypeOK
<1>2. ASSUME NEW h \in Hold, Ends(h)  PROVE WindowsAre(holds', windows')
  BY <1>1, <1>2, WindowsEnd
<1>3. ASSUME NEW h \in Hold, NEW n \in Nat, HoldInternal(h, n)
      PROVE  WindowsAre(holds', windows')
  <2>1. CASE holds' = SweptHolds(Owner[h]) /\ windows' = SweptWindows(Owner[h])
    BY <1>1, <2>1, SweptWindowsAre
  <2>2. ASSUME NEW w \in Window \cup {NoWindow}, OpensSwept(h, n, w)
        PROVE  WindowsAre(holds', windows')
    BY <1>1, <2>2, WindowsOpen
  <2> QED
    BY <1>3, <2>1, <2>2, HoldMoves
<1>4. ASSUME NEW h \in Hold, NEW n \in Nat, ExtendHold(h, n)
      PROVE  WindowsAre(holds', windows')
  <2>1. CASE UNCHANGED <<holds, windows>>
    BY <2>1
  <2>2. ASSUME NEW amount \in Nat, NEW w \in Window \cup {NoWindow}, Resizes(h, amount, w)
        PROVE  WindowsAre(holds', windows')
    BY <1>1, <2>2, WindowsResize
  <2> QED
    BY <1>4, <2>1, <2>2, ExtendMoves
<1>5. ASSUME NEW h \in Hold, TimePasses(h) \/ \E t \in Terms : SettleLate(h, t)
      PROVE  WindowsAre(holds', windows')
  <2>1. windows' = windows
    BY <1>5, MarksOnly
  <2>2. WindowsAre(holds', windows)
    BY <1>5, MarksOnly, WindowsStay
  <2> QED
    BY <2>1, <2>2
<1>6. CASE \/ CreditDeveloper
           \/ \E rows \in SUBSET queue : ConsumeSplitBatch(rows)
           \/ SameHeld /\ UNCHANGED <<holds, windows, rollupVars>>
  <2>1. holds' = holds /\ windows' = windows
    BY <1>6 DEF CreditDeveloper, ConsumeSplitBatch
  <2> QED
    BY <2>1
<1> QED
  BY <1>2, <1>3, <1>4, <1>5, <1>6, StepsSorted

\* A spend window holds the open reservations and has spent the charges that
\* were counted in it, however often consent moves holds from frame to frame.
THEOREM WindowsCountHolds == HoldsSpec => []WindowsAddUp
<1>1. HoldsAssumption /\ HoldsInit => WindowsAre(holds, windows)
  <2> SUFFICES ASSUME HoldsAssumption, HoldsInit, NEW u \in User, NEW w \in Window
               PROVE  /\ windows[u][w].held
                           = SumFunctionOnSet(Amounts(holds), OpenHere(holds, u, w))
                      /\ windows[u][w].spent
                           = SumFunctionOnSet(Charges(holds), HereRows(holds, u, w))
    BY DEF WindowsAre
  <2>1. NoWindow \notin Window
    BY DEF NoWindow, Window, TotalWindow, HoldsAssumption
  <2>2. HereRows(holds, u, w) = {} /\ OpenHere(holds, u, w) = {}
    BY <2>1 DEF HoldsInit, HereRows, OpenHere
  <2>3. SumFunctionOnSet(Amounts(holds), {}) = 0 /\ SumFunctionOnSet(Charges(holds), {}) = 0
    BY FS_EmptySet, SumUnfolds
  <2>4. windows[u][w].held = 0 /\ windows[u][w].spent = 0
    BY DEF HoldsInit
  <2> QED
    BY <2>2, <2>3, <2>4
<1>2. IInv /\ Orderly /\ WindowsAre(holds, windows) /\ [HoldsNext]_hvars
        => WindowsAre(holds, windows)'
  <2>1. WindowsAre(holds, windows)' <=> WindowsAre(holds', windows')
    BY DEF WindowsAre, Amounts, Charges, OpenHere, HereRows
  <2> QED
    BY <2>1, WindowsKept, LedgerAssumption, HoldsAssumption
<1>3. WindowsAre(holds, windows) => WindowsAddUp
  <2> SUFFICES ASSUME WindowsAre(holds, windows), NEW u \in User, NEW w \in Window
               PROVE  LET here == {h \in Hold : Owner[h] = u /\ holds[h].window = w}
                      IN  /\ windows[u][w].held = AmountOf({h \in here : Open(h)})
                          /\ windows[u][w].spent =
                               SumFunctionOnSet([h \in Hold |-> holds[h].charged], here)
    BY DEF WindowsAddUp
  <2> DEFINE here == {h \in Hold : Owner[h] = u /\ holds[h].window = w}
  <2>1. here = HereRows(holds, u, w) /\ {h \in here : Open(h)} = OpenHere(holds, u, w)
    BY DEF HereRows, OpenHere, Open
  <2>2. \A S : AmountOf(S) = SumFunctionOnSet(Amounts(holds), S)
    BY DEF AmountOf, Amounts
  <2>3. Charges(holds) = [h \in Hold |-> holds[h].charged]
    BY DEF Charges
  <2>4. /\ windows[u][w].held = SumFunctionOnSet(Amounts(holds), OpenHere(holds, u, w))
        /\ windows[u][w].spent = SumFunctionOnSet(Charges(holds), HereRows(holds, u, w))
    BY DEF WindowsAre
  <2> QED
    BY <2>1, <2>2, <2>3, <2>4
<1> QED
  BY <1>1, <1>2, <1>3, HoldsAssumption, HoldsInvariant, PTL DEF HoldsSpec

-----------------------------------------------------------------------------
(***************************************************************************)
(* The rollup.  A row joins the queue when a hold's cost is split, which   *)
(* happens to it once; so no row is lost by being there already.           *)
(***************************************************************************)
Share == {"provider", "dev", "platform"}

\* A column of the queue, and what each row has in it.
Column(field) == [r \in Split |-> r[field]]

\* With queue q, pending p and clearing c, the account holds what is owed.
OwedIs(q, p, c) ==
  c = p + SumOf(q, "provider") + SumOf(q, "dev") + SumOf(q, "platform")

\* A queued row is one of the rows that its hold counted.
QueuedOnce == \A r \in queue : holds[r.hold].splits >= 1

\* The sum of a column is a sum over all possible rows, restricted to these.
LEMMA ColumnSum ==
  ASSUME NEW q, q \subseteq Split, IsFiniteSet(q), NEW field \in Share
  PROVE  /\ SumOf(q, field) = SumFunctionOnSet(Column(field), q)
         /\ SumOf(q, field) \in Int
         /\ \A r \in Split : Column(field)[r] = r[field] /\ r[field] \in Int
<1>1. \A r \in Split : Column(field)[r] = r[field] /\ r[field] \in Int
  BY DEF Column, Split, Share
<1> DEFINE f == [r \in q |-> r[field]]
           g == Column(field)
<1>2. \A r \in q : f[r] = g[r] /\ g[r] \in Int
  BY <1>1
<1>3. SumOf(q, field) = SumFunctionOnSet(f, q)
  BY DEF SumOf
<1> HIDE DEF f, g
<1>4. SumFunctionOnSet(f, q) = SumFunctionOnSet(g, q)
  BY <1>2, SumSame
<1>5. SumFunctionOnSet(g, q) \in Int
  BY <1>2, SumTyped
<1> QED
  BY <1>1, <1>3, <1>4, <1>5 DEF g

\* Queueing the split of a hold that is not in the queue adds its shares.
LEMMA RowQueued ==
  ASSUME NEW q, q \subseteq Split, IsFiniteSet(q), NEW h \in Hold, \A r \in q : r.hold # h,
         NEW provider \in Nat, NEW dev \in Nat, NEW platform \in Int,
         NEW q2, q2 = q \cup SplitRow(h, provider, dev, platform)
  PROVE  /\ SumOf(q2, "provider") = SumOf(q, "provider") + provider
         /\ SumOf(q2, "dev") = SumOf(q, "dev") + dev
         /\ SumOf(q2, "platform") = SumOf(q, "platform") + platform
<1> DEFINE r == [hold |-> h, provider |-> provider, dev |-> dev, platform |-> platform]
<1>1. \A field \in Share : SumOf(q, field) \in Int
  BY ColumnSum
<1>2. CASE provider = 0 /\ dev = 0 /\ platform = 0
  <2>1. q2 = q
    BY <1>2 DEF SplitRow
  <2>2. \A n \in Int : n = n + 0
    OBVIOUS
  <2> QED
    BY <1>1, <1>2, <2>1, <2>2 DEF Share
<1>3. CASE ~(provider = 0 /\ dev = 0 /\ platform = 0)
  <2>1. q2 = q \cup {r}
    BY <1>3 DEF SplitRow
  <2>2. /\ r \in Split /\ r \notin q /\ r["provider"] = provider /\ r["dev"] = dev
        /\ r["platform"] = platform
    BY DEF Split
  <2> HIDE DEF r
  <2>3. IsFiniteSet(q2) /\ q2 \subseteq Split
    BY <2>1, <2>2, FS_AddElement
  <2>4. ASSUME NEW field \in Share  PROVE SumOf(q2, field) = SumOf(q, field) + r[field]
    <3> DEFINE g == Column(field)
    <3>1. /\ SumOf(q, field) = SumFunctionOnSet(g, q)
          /\ SumOf(q2, field) = SumFunctionOnSet(g, q2)
          /\ \A x \in Split : g[x] = x[field] /\ g[x] \in Int
      BY <2>3, ColumnSum
    <3> HIDE DEF g
    <3>2. \A x \in q \cup {r} : g[x] \in Int
      BY <2>2, <3>1
    <3>3. SumFunctionOnSet(g, q \cup {r}) = SumFunctionOnSet(g, q) + g[r]
      BY <2>2, <3>2, SumAdds
    <3>4. g[r] = r[field]
      BY <2>2, <3>1
    <3> QED
      BY <2>1, <3>1, <3>3, <3>4
  <2> QED
    BY <2>2, <2>4 DEF Share
<1> QED
  BY <1>2, <1>3

\* Taking rows out of the queue takes their shares out of its columns.
LEMMA RowsTaken ==
  ASSUME NEW q, q \subseteq Split, IsFiniteSet(q), NEW rows, rows \subseteq q,
         NEW field \in Share
  PROVE  /\ SumOf(q, field) = SumOf(rows, field) + SumOf(q \ rows, field)
         /\ SumOf(rows, field) \in Int /\ SumOf(q \ rows, field) \in Int
<1> DEFINE g == Column(field)
           rest == q \ rows
<1>1. /\ IsFiniteSet(rows) /\ IsFiniteSet(rest)
      /\ rows \subseteq Split /\ rest \subseteq Split
  BY FS_Subset
<1>2. /\ SumOf(q, field) = SumFunctionOnSet(g, q)
      /\ \A x \in Split : g[x] \in Int
  BY ColumnSum
<1>3. SumOf(rows, field) = SumFunctionOnSet(g, rows) /\ SumOf(rows, field) \in Int
  BY <1>1, ColumnSum
<1>4. SumOf(rest, field) = SumFunctionOnSet(g, rest) /\ SumOf(rest, field) \in Int
  BY <1>1, ColumnSum
<1> HIDE DEF g
<1>5. SumFunctionOnSet(g, q) = SumFunctionOnSet(g, rows) + SumFunctionOnSet(g, q \ rows)
  <2>1. \A x \in q : g[x] \in Int
    BY <1>2
  <2> QED
    BY <2>1, SumSplits
<1> QED
  BY <1>2, <1>3, <1>4, <1>5

\* A split joins the queue with the part of the charge that it distributes.
LEMMA OwedGrows ==
  ASSUME IInv, Orderly, QueuedOnce, OwedIs(queue, pending, clearing),
         NEW h \in Hold, holds[h].splits = 0,
         NEW provider \in Nat, NEW dev \in Nat, NEW platform \in Int,
         queue' = queue \cup SplitRow(h, provider, dev, platform), pending' = pending,
         clearing' = clearing + (provider + dev + platform)
  PROVE  OwedIs(queue', pending', clearing')
<1> DEFINE P == SumOf(queue, "provider")
           D == SumOf(queue, "dev")
           S == SumOf(queue, "platform")
           P2 == SumOf(queue', "provider")
           D2 == SumOf(queue', "dev")
           S2 == SumOf(queue', "platform")
<1>1. queue \subseteq Split /\ IsFiniteSet(queue) /\ pending \in Nat
  BY DEF IInv, HoldsTypeOK, Orderly
<1>2. \A r \in queue : r.hold # h
  BY DEF QueuedOnce
<1>3. P2 = P + provider /\ D2 = D + dev /\ S2 = S + platform
  BY <1>1, <1>2, RowQueued
<1>4. P \in Int /\ D \in Int /\ S \in Int
  BY <1>1, ColumnSum DEF Share
<1>5. clearing = pending + P + D + S
  BY DEF OwedIs
<1> HIDE DEF P, D, S, P2, D2, S2
<1>6. clearing' = pending' + P2 + D2 + S2
  BY <1>1, <1>3, <1>4, <1>5
<1> QED
  BY <1>6 DEF OwedIs, P2, D2, S2

\* The hold whose split was queued has counted it, and nobody counts less.
LEMMA QueuedStays ==
  ASSUME IInv, QueuedOnce, NEW h \in Hold, NEW provider, NEW dev, NEW platform,
         queue' = queue \cup SplitRow(h, provider, dev, platform),
         holds'[h].splits = holds[h].splits + Cardinality(SplitRow(h, provider, dev, platform)),
         \A g \in Hold : g # h => holds'[g] = holds[g]
  PROVE  QueuedOnce'
<1> DEFINE row == SplitRow(h, provider, dev, platform)
<1>1. queue \subseteq Split /\ holds[h].splits \in Nat
  BY DEF IInv, HoldsTypeOK, HoldRow
<1>2. Cardinality(row) \in {0, 1}
  BY SplitRowCount
<1>3. \A r \in row : r.hold = h
  BY DEF SplitRow
<1>4. row # {} => Cardinality(row) = 1
  <2>1. \A x : Cardinality({x}) = 1
    BY FS_Singleton
  <2> QED
    BY <2>1 DEF SplitRow
<1> HIDE DEF row
<1>5. ASSUME NEW r \in queue'  PROVE holds'[r.hold].splits >= 1
  <2>1. CASE r \in row
    <3>1. r.hold = h /\ Cardinality(row) = 1
      BY <1>3, <1>4, <2>1
    <3>2. holds'[h].splits = holds[h].splits + 1
      BY <3>1 DEF row
    <3> QED
      BY <1>1, <3>1, <3>2
  <2>2. CASE r \in queue
    <3>1. r.hold \in Hold /\ holds[r.hold].splits >= 1
      BY <1>1, <2>2 DEF Split, QueuedOnce
    <3>2. CASE r.hold = h
      <4>1. holds[h].splits >= 1 /\ holds'[h].splits = holds[h].splits + Cardinality(row)
        BY <3>1, <3>2 DEF row
      <4> QED
        BY <1>1, <1>2, <3>2, <4>1
    <3>3. CASE r.hold # h
      BY <3>1, <3>3
    <3> QED
      BY <3>2, <3>3
  <2> QED
    BY <2>1, <2>2 DEF row
<1> QED
  BY <1>5 DEF QueuedOnce

\* Every step keeps the clearing account at what is owed.
LEMMA OwedKept ==
  ASSUME IInv, Orderly, CallStory, QueuedOnce, OwedIs(queue, pending, clearing),
         LedgerAssumption, HoldsAssumption, [HoldsNext]_hvars
  PROVE  QueuedOnce' /\ OwedIs(queue', pending', clearing')
<1>1. /\ queue \subseteq Split /\ IsFiniteSet(queue) /\ pending \in Nat /\ clearing \in Int
      /\ holds \in [Hold -> HoldRow]
  BY DEF IInv, HoldsTypeOK, Orderly
<1>2. ASSUME NEW h \in Hold, Ends(h)
      PROVE  QueuedOnce' /\ OwedIs(queue', pending', clearing')
  <2>0. PICK charge \in Nat, provider \in Nat, dev \in Nat, w \in Window \cup {NoWindow} :
          LET row == SplitRow(h, provider, dev, charge - provider - dev)
          IN  /\ Open(h)
              /\ \A g \in Hold : g # h => holds'[g] = holds[g]
              /\ holds'[h].state \in Finished /\ holds'[h].amount = holds[h].amount
              /\ holds'[h].charged = charge /\ holds'[h].window = w
              /\ holds'[h].splits = holds[h].splits + Cardinality(row)
              /\ \A u \in User : u # Owner[h] => acct'[u].held = acct[u].held
              /\ acct'[Owner[h]].held = acct[Owner[h]].held - holds[h].amount
              /\ windows' = Consume(Reserve(windows, Owner[h], holds[h].window, -holds[h].amount),
                                    Owner[h], w, charge)
              /\ queue' = queue \cup row /\ clearing' = clearing + charge /\ pending' = pending
    BY ONLY IInv, LedgerAssumption, HoldsAssumption, <1>2, EndMoves, Zenon
  <2>1. /\ Open(h)
        /\ \A g \in Hold : g # h => holds'[g] = holds[g]
        /\ holds'[h].splits = holds[h].splits
             + Cardinality(SplitRow(h, provider, dev, charge - provider - dev))
        /\ queue' = queue \cup SplitRow(h, provider, dev, charge - provider - dev)
        /\ clearing' = clearing + charge /\ pending' = pending
    BY <2>0
  <2>2. holds[h].splits = 0
    BY <2>1 DEF CallStory, SplitStory, Open
  <2>3. QueuedOnce'
    BY <2>1, QueuedStays
  <2> DEFINE platform == charge - provider - dev
  <2>4. platform \in Int /\ charge = provider + dev + platform
    OBVIOUS
  <2>5. /\ queue' = queue \cup SplitRow(h, provider, dev, platform)
        /\ clearing' = clearing + (provider + dev + platform)
    BY <2>1, <2>4
  <2> HIDE DEF platform
  <2>6. OwedIs(queue', pending', clearing')
    BY <2>1, <2>2, <2>4, <2>5, OwedGrows
  <2> QED
    BY <2>3, <2>6
<1>3. ASSUME NEW h \in Hold, NEW t \in Terms, SettleLate(h, t)
      PROVE  QueuedOnce' /\ OwedIs(queue', pending', clearing')
  <2> DEFINE provider == t.provider
             platform == -t.provider
             row == SplitRow(h, provider, 0, platform)
             splits == holds[h].splits + Cardinality(row)
  <2>1. /\ holds[h].state \in {"expired", "released"} /\ ~holds[h].costed
        /\ holds' = [holds EXCEPT ![h] = [holds[h] EXCEPT !.costed = TRUE, !.splits = splits]]
        /\ queue' = queue \cup row /\ pending' = pending /\ clearing' = clearing
    BY <1>1, <1>3 DEF SettleLate, Late
  <2>2. provider \in Nat
    BY DEF HoldsAssumption
  <2>3. platform \in Int /\ clearing = clearing + (provider + 0 + platform)
    BY <1>1, <2>2
  <2> HIDE DEF provider, platform
  <2>4. holds[h].splits = 0
    BY <2>1 DEF CallStory, SplitStory
  <2> HIDE DEF splits, row
  <2>5. /\ holds'[h].splits = splits
        /\ \A g \in Hold : g # h => holds'[g] = holds[g]
    BY <1>1, <2>1 DEF HoldRow
  <2>6. QueuedOnce'
    BY <2>1, <2>5, QueuedStays DEF splits, row
  <2>7. OwedIs(queue', pending', clearing')
    <3>1. clearing' = clearing + (provider + 0 + platform) /\ 0 \in Nat
      BY <2>1, <2>3
    <3> QED
      BY <2>1, <2>2, <2>3, <2>4, <3>1, OwedGrows DEF row
  <2> QED
    BY <2>6, <2>7
<1>4. ASSUME UNCHANGED rollupVars, \A g \in Hold : holds'[g].splits = holds[g].splits
      PROVE  QueuedOnce' /\ OwedIs(queue', pending', clearing')
  BY <1>1, <1>4 DEF rollupVars, QueuedOnce, Split
<1>5. ASSUME NEW h \in Hold, NEW n \in Nat, HoldInternal(h, n)
      PROVE  QueuedOnce' /\ OwedIs(queue', pending', clearing')
  <2>1. \A g \in Hold : SweptHolds(Owner[h])[g].splits = holds[g].splits
    BY <1>1 DEF SweptHolds, HoldRow
  <2>2. \A g \in Hold : holds'[g].splits = SweptHolds(Owner[h])[g].splits
    BY <1>5, HoldMoves DEF OpensSwept
  <2>3. UNCHANGED rollupVars
    BY <1>5, HoldMoves
  <2> QED
    BY <1>4, <2>1, <2>2, <2>3
<1>6. ASSUME NEW h \in Hold, NEW n \in Nat, ExtendHold(h, n)
      PROVE  QueuedOnce' /\ OwedIs(queue', pending', clearing')
  <2>1. \A g \in Hold : holds'[g].splits = holds[g].splits
    BY <1>6, ExtendMoves DEF Resizes
  <2>2. UNCHANGED rollupVars
    BY <1>6, ExtendMoves
  <2> QED
    BY <1>4, <2>1, <2>2
<1>7. ASSUME NEW h \in Hold, TimePasses(h)
      PROVE  QueuedOnce' /\ OwedIs(queue', pending', clearing')
  <2>1. UNCHANGED rollupVars /\ \A g \in Hold : holds'[g].splits = holds[g].splits
    BY <1>1, <1>7 DEF TimePasses, HoldRow
  <2> QED
    BY <1>4, <2>1
<1>8. ASSUME NEW rows \in SUBSET queue, ConsumeSplitBatch(rows)
      PROVE  QueuedOnce' /\ OwedIs(queue', pending', clearing')
  <2> DEFINE P == SumOf(queue, "provider")
             D == SumOf(queue, "dev")
             S == SumOf(queue, "platform")
             P1 == SumOf(rows, "provider")
             D1 == SumOf(rows, "dev")
             S1 == SumOf(rows, "platform")
             P2 == SumOf(queue \ rows, "provider")
             D2 == SumOf(queue \ rows, "dev")
             S2 == SumOf(queue \ rows, "platform")
  <2>1. /\ queue' = queue \ rows /\ holds' = holds
        /\ clearing' = clearing - P1 - S1 /\ pending' = pending + D1
    BY <1>8 DEF ConsumeSplitBatch
  <2>2. /\ P = P1 + P2 /\ P1 \in Int /\ P2 \in Int
        /\ D = D1 + D2 /\ D1 \in Int /\ D2 \in Int
        /\ S = S1 + S2 /\ S1 \in Int /\ S2 \in Int
    BY <1>1, RowsTaken DEF Share
  <2>3. clearing = pending + P + D + S
    BY DEF OwedIs
  <2> HIDE DEF P, D, S, P1, D1, S1, P2, D2, S2
  <2>4. clearing' = pending' + P2 + D2 + S2
    BY <1>1, <2>1, <2>2, <2>3
  <2>5. QueuedOnce'
    BY <2>1 DEF QueuedOnce
  <2> QED
    BY <2>1, <2>4, <2>5 DEF OwedIs, P2, D2, S2
<1>9. CASE CreditDeveloper
  <2> DEFINE P == SumOf(queue, "provider")
             D == SumOf(queue, "dev")
             S == SumOf(queue, "platform")
  <2>1. queue' = queue /\ holds' = holds /\ clearing' = clearing - pending /\ pending' = 0
    BY <1>9 DEF CreditDeveloper
  <2>2. P \in Int /\ D \in Int /\ S \in Int
    BY <1>1, ColumnSum DEF Share
  <2>3. clearing = pending + P + D + S
    BY DEF OwedIs
  <2> HIDE DEF P, D, S
  <2>4. clearing' = pending' + P + D + S
    BY <1>1, <2>1, <2>2, <2>3
  <2> QED
    BY <2>1, <2>4 DEF OwedIs, QueuedOnce, P, D, S
<1>10. CASE SameHeld /\ UNCHANGED <<holds, windows, rollupVars>>
  BY <1>4, <1>10
<1> QED
  BY <1>2, <1>3, <1>5, <1>6, <1>7, <1>8, <1>9, <1>10, StepsSorted

\* The clearing account holds what the rollup has yet to pay, for any number of
\* calls and any shares, whatever order settlements and both phases come in.
THEOREM ClearingIsAccountedFor == HoldsSpec => []ClearingIsOwed
<1> DEFINE Inv == QueuedOnce /\ OwedIs(queue, pending, clearing)
<1>1. HoldsInit => Inv
  <2> SUFFICES ASSUME HoldsInit  PROVE Inv
    OBVIOUS
  <2>1. queue = {} /\ pending = 0 /\ clearing = 0
    BY DEF HoldsInit
  <2>2. \A f : SumFunctionOnSet(f, {}) = 0
    BY FS_EmptySet, SumUnfolds
  <2>3. \A field : SumOf({}, field) = 0
    BY <2>2 DEF SumOf
  <2> QED
    BY <2>1, <2>3 DEF OwedIs, QueuedOnce
<1>2. IInv /\ Orderly /\ CallStory /\ Inv /\ [HoldsNext]_hvars => Inv'
  <2>1. OwedIs(queue, pending, clearing)' <=> OwedIs(queue', pending', clearing')
    BY DEF OwedIs, SumOf
  <2> QED
    BY <2>1, OwedKept, LedgerAssumption, HoldsAssumption
<1>3. IInv /\ Inv => ClearingIsOwed
  <2> SUFFICES ASSUME IInv, Inv  PROVE ClearingIsOwed
    OBVIOUS
  <2>1. \A r \in queue : r.provider >= 0 /\ r.dev >= 0
    BY DEF IInv, HoldsTypeOK, Split
  <2> QED
    BY <2>1 DEF OwedIs, ClearingIsOwed
<1> QED
  BY <1>1, <1>2, <1>3, HoldsInvariant, CallStoryTrue, PTL DEF HoldsSpec
=============================================================================
