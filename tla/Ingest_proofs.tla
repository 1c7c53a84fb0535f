--------------------------- MODULE Ingest_proofs ---------------------------
(***************************************************************************)
(* What holds of every CSV file, by either path: the types of the bars,    *)
(* the days a date is counted as, that a .pb file is read back record by   *)
(* record wherever it is cut, and that the two paths agree.                *)
(***************************************************************************)
EXTENDS Ingest, FiniteSetTheorems, SequenceTheorems, WellFoundedInduction, TLAPS

-----------------------------------------------------------------------------
(* Least elements, in the place of induction *)

LEMMA SmallestOf ==
  ASSUME NEW T \in SUBSET Nat, T # {}
  PROVE  \E x \in T : \A y \in T : x <= y
<1> DEFINE R == {p \in Nat \X Nat : p[1] < p[2]}
<1>1. R = OpToRel(<, Nat)
  BY DEF OpToRel
<1>2. IsWellFoundedOn(R, Nat)
  BY <1>1, NatLessThanWellFounded
<1>3. PICK x \in T : \A y \in T : ~(<<y, x>> \in R)
  BY <1>2, WFMin
<1>4. \A y \in T : <<y, x>> \in R <=> y < x
  OBVIOUS
<1> HIDE DEF R
<1>5. ASSUME NEW y \in T PROVE x <= y
  <2>1. x \in Nat /\ y \in Nat
    OBVIOUS
  <2>2. ~(y < x)
    BY <1>3, <1>4
  <2> QED
    BY <2>1, <2>2
<1> QED
  BY <1>5

\* Induction over the natural numbers, for a set of them.
LEMMA AllReached ==
  ASSUME NEW G, 0 \in G, \A n \in Nat : n \in G => n + 1 \in G
  PROVE  \A n \in Nat : n \in G
<1> DEFINE Bad == { n \in Nat : n \notin G }
<1> SUFFICES ASSUME Bad # {} PROVE FALSE
  OBVIOUS
<1>1. PICK k \in Bad : \A j \in Bad : k <= j
  <2>1. Bad \in SUBSET Nat
    OBVIOUS
  <2> HIDE DEF Bad
  <2> QED
    BY <2>1, SmallestOf
<1>2. k \in Nat /\ k # 0 /\ k \notin G
  OBVIOUS
<1>3. k - 1 \in Nat /\ ~(k <= k - 1) /\ (k - 1) + 1 = k
  BY <1>2
<1>4. k - 1 \in G
  BY <1>1, <1>3
<1> QED
  BY <1>2, <1>3, <1>4

\* Of some finite sets, one that is nonempty has a set beside it without one
\* of its elements, which is not among them: a smallest one.
LEMMA SmallestSet ==
  ASSUME NEW B, B # {}, \A s \in B : IsFiniteSet(s)
  PROVE  \E s \in B : \A t : t \in SUBSET s /\ t # s => t \notin B
<1> DEFINE T == { Cardinality(s) : s \in B }
<1>1. T \in SUBSET Nat /\ T # {}
  BY FS_CardinalityType
<1>2. PICK n \in T : \A k \in T : n <= k
  BY <1>1, SmallestOf
<1>3. PICK s \in B : n = Cardinality(s)
  BY <1>2
<1>4. ASSUME NEW t, t \in SUBSET s, t # s, t \in B
      PROVE  FALSE
  <2>1. IsFiniteSet(s) /\ IsFiniteSet(t)
    BY <1>4
  <2>2. Cardinality(s) \in Nat /\ Cardinality(t) \in Nat
    BY <2>1, FS_CardinalityType
  <2>3. Cardinality(t) <= Cardinality(s) /\ Cardinality(s) # Cardinality(t)
    BY <1>4, <2>1, FS_Subset
  <2>4. Cardinality(s) <= Cardinality(t)
    BY <1>2, <1>3, <1>4
  <2> QED
    BY <2>2, <2>3, <2>4
<1> QED
  BY <1>4

-----------------------------------------------------------------------------
(* Sums *)

Chosen(s) == CHOOSE x \in s : TRUE

\* h has the sums of g over the subsets of S, one element taken after the other.
Totals(h, g, S) ==
    h = [s \in SUBSET S |-> IF s = {} THEN 0 ELSE g[Chosen(s)] + h[s \ {Chosen(s)}]]

LEMMA ChosenIsElement == ASSUME NEW s, s # {} PROVE Chosen(s) \in s
BY DEF Chosen

LEMMA TotalsStep ==
  ASSUME NEW g, NEW S, NEW h, Totals(h, g, S), NEW s \in SUBSET S
  PROVE  h[s] = IF s = {} THEN 0 ELSE g[Chosen(s)] + h[s \ {Chosen(s)}]
BY Zenon DEF Totals

LEMMA TotalsAgree ==
  ASSUME NEW g, NEW S, NEW U, NEW h, NEW k,
         IsFiniteSet(S), Totals(h, g, S), Totals(k, g, U),
         NEW s0, s0 \in SUBSET S, s0 \in SUBSET U
  PROVE  h[s0] = k[s0]
<1> DEFINE Bad == { s \in SUBSET S : s \in SUBSET U /\ h[s] # k[s] }
<1> SUFFICES ASSUME Bad # {} PROVE FALSE
  OBVIOUS
<1>1. \A s \in Bad : IsFiniteSet(s)
  BY FS_Subset
<1>2. PICK s \in Bad : \A t : t \in SUBSET s /\ t # s => t \notin Bad
  <2> HIDE DEF Bad
  <2> QED
    BY <1>1, SmallestSet
<1>3. s \in SUBSET S /\ s \in SUBSET U /\ h[s] # k[s]
  OBVIOUS
<1>4. /\ h[s] = IF s = {} THEN 0 ELSE g[Chosen(s)] + h[s \ {Chosen(s)}]
      /\ k[s] = IF s = {} THEN 0 ELSE g[Chosen(s)] + k[s \ {Chosen(s)}]
  BY <1>3, TotalsStep
<1>5. s # {}
  BY <1>3, <1>4
<1>6. s \ {Chosen(s)} \in SUBSET s /\ s \ {Chosen(s)} # s
  BY <1>5, ChosenIsElement
<1>7. h[s \ {Chosen(s)}] = k[s \ {Chosen(s)}]
  BY <1>2, <1>3, <1>6
<1> QED
  BY <1>3, <1>4, <1>5, <1>7

LEMMA TotalsExist ==
  ASSUME NEW g, NEW S, IsFiniteSet(S)
  PROVE  \E h : Totals(h, g, S)
<1> DEFINE Bad == { s \in SUBSET S : ~ \E h : Totals(h, g, s) }
<1> SUFFICES ASSUME Bad # {} PROVE FALSE
  OBVIOUS
<1>1. \A s \in Bad : IsFiniteSet(s)
  BY FS_Subset
<1>2. PICK s \in Bad : \A t : t \in SUBSET s /\ t # s => t \notin Bad
  <2> HIDE DEF Bad
  <2> QED
    BY <1>1, SmallestSet
<1>3. s \in SUBSET S /\ IsFiniteSet(s) /\ \A h : ~Totals(h, g, s)
  BY <1>1
<1> DEFINE H(t) == CHOOSE h : Totals(h, g, t)
           Less(t) == t \ {Chosen(t)}
           k == [t \in SUBSET s |-> IF t = {} THEN 0 ELSE g[Chosen(t)] + H(Less(t))[Less(t)]]
<1>4. ASSUME NEW t, t \in SUBSET s, t # s
      PROVE  Totals(H(t), g, t)
  <2>1. \E h : Totals(h, g, t)
    BY <1>2, <1>3, <1>4
  <2> QED
    BY <2>1
<1>5. ASSUME NEW t, t \in SUBSET s, t # {}
      PROVE  Less(t) \in SUBSET s /\ Less(t) # s /\ Less(t) \in SUBSET t
  BY <1>5, ChosenIsElement
<1> HIDE DEF H, Less
<1>6. ASSUME NEW t, t \in SUBSET s, t # s
      PROVE  k[t] = H(t)[t]
  <2>1. H(t)[t] = IF t = {} THEN 0 ELSE g[Chosen(t)] + H(t)[Less(t)]
    <3>1. Totals(H(t), g, t) /\ t \in SUBSET t
      BY <1>4, <1>6
    <3> QED
      BY <3>1, TotalsStep DEF Less
  <2>2. CASE t = {}
    BY <2>1, <2>2, <1>6
  <2>3. CASE t # {}
    <3>1. Less(t) \in SUBSET s /\ Less(t) # s /\ Less(t) \in SUBSET t
      BY <1>5, <1>6, <2>3
    <3>2. H(t)[Less(t)] = H(Less(t))[Less(t)]
      <4>1. Totals(H(t), g, t) /\ Totals(H(Less(t)), g, Less(t)) /\ IsFiniteSet(t)
        BY <1>3, <1>4, <1>6, <3>1, FS_Subset
      <4>2. Less(t) \in SUBSET t /\ Less(t) \in SUBSET Less(t)
        BY <3>1
      <4> QED
        BY <4>1, <4>2, TotalsAgree
    <3>3. k[t] = g[Chosen(t)] + H(Less(t))[Less(t)]
      BY <1>6, <2>3
    <3> QED
      BY <2>1, <2>3, <3>2, <3>3
  <2> QED
    BY <2>2, <2>3
<1>7. Totals(k, g, s)
  <2> DEFINE F(t) == IF t = {} THEN 0 ELSE g[Chosen(t)] + k[Less(t)]
  <2>1. ASSUME NEW t \in SUBSET s PROVE k[t] = F(t)
    <3>1. CASE t = {}
      BY <3>1
    <3>2. CASE t # {}
      <4>1. k[Less(t)] = H(Less(t))[Less(t)]
        BY <1>5, <1>6, <3>2
      <4>2. k[t] = g[Chosen(t)] + H(Less(t))[Less(t)]
        BY <3>2
      <4> QED
        BY <3>2, <4>1, <4>2
    <3> QED
      BY <3>1, <3>2
  <2>2. k = [t \in SUBSET s |-> F(t)]
    <3>1. k = [t \in SUBSET s |-> k[t]]
      OBVIOUS
    <3> HIDE DEF k, F
    <3> QED
      BY <2>1, <3>1
  <2> QED
    BY <2>2 DEF Totals, Less
<1> QED
  BY <1>3, <1>7

LEMMA SumByTotals ==
  ASSUME NEW g, NEW S, IsFiniteSet(S)
  PROVE  \E h : Totals(h, g, S) /\ SumFunctionOnSet(g, S) = h[S]
<1>1. PICK h : Totals(h, g, S)
  BY TotalsExist
<1> QED
  BY <1>1, Zenon DEF SumFunctionOnSet, FoldFunctionOnSet, MapThenFoldSet, Totals, Chosen

\* The element that is taken first leaves the sum of the others,
LEMMA SumChosen ==
  ASSUME NEW g, NEW S, IsFiniteSet(S)
  PROVE  SumFunctionOnSet(g, S) =
           IF S = {} THEN 0 ELSE g[Chosen(S)] + SumFunctionOnSet(g, S \ {Chosen(S)})
<1> DEFINE R == S \ {Chosen(S)}
<1>1. PICK h : Totals(h, g, S) /\ SumFunctionOnSet(g, S) = h[S]
  BY SumByTotals
<1>2. R \in SUBSET S /\ R \in SUBSET R /\ IsFiniteSet(R) /\ S \in SUBSET S
  BY FS_Subset
<1>3. PICK k : Totals(k, g, R) /\ SumFunctionOnSet(g, R) = k[R]
  BY <1>2, SumByTotals
<1>4. h[R] = k[R]
  BY <1>1, <1>2, <1>3, TotalsAgree
<1>5. h[S] = IF S = {} THEN 0 ELSE g[Chosen(S)] + h[R]
  BY <1>1, <1>2, TotalsStep
<1> QED
  BY <1>1, <1>3, <1>4, <1>5

LEMMA SumIsInt ==
  ASSUME NEW g, NEW S, IsFiniteSet(S), \A x \in S : g[x] \in Int
  PROVE  /\ SumFunctionOnSet(g, S) \in Int
         /\ (\A x \in S : g[x] >= 0) => SumFunctionOnSet(g, S) >= 0
<1> DEFINE Total(s) == SumFunctionOnSet(g, s)
           Good(s) == Total(s) \in Int /\ ((\A x \in s : g[x] >= 0) => Total(s) >= 0)
           Bad == { s \in SUBSET S : ~Good(s) }
<1> SUFFICES ASSUME Bad # {} PROVE FALSE
  <2>1. S \in SUBSET S
    OBVIOUS
  <2> QED
    BY <2>1
<1>1. \A s \in Bad : IsFiniteSet(s)
  BY FS_Subset
<1>2. PICK s \in Bad : \A t : t \in SUBSET s /\ t # s => t \notin Bad
  <2> HIDE DEF Bad
  <2> QED
    BY <1>1, SmallestSet
<1>3. s \in SUBSET S /\ IsFiniteSet(s) /\ ~Good(s)
  BY <1>1
<1>4. Total(s) = IF s = {} THEN 0 ELSE g[Chosen(s)] + Total(s \ {Chosen(s)})
  BY <1>3, SumChosen
<1>5. s # {}
  BY <1>3, <1>4
<1>6. Chosen(s) \in s /\ g[Chosen(s)] \in Int
  BY <1>3, <1>5, ChosenIsElement
<1>7. Good(s \ {Chosen(s)})
  <2>1. s \ {Chosen(s)} \in SUBSET s /\ s \ {Chosen(s)} # s /\ s \ {Chosen(s)} \in SUBSET S
    BY <1>3, <1>6
  <2> QED
    BY <1>2, <2>1
<1> HIDE DEF Total
<1> QED
  BY <1>3, <1>4, <1>5, <1>6, <1>7

\* and so does any other.
LEMMA SumPick ==
  ASSUME NEW g, NEW S, IsFiniteSet(S), \A x \in S : g[x] \in Int, NEW x \in S
  PROVE  SumFunctionOnSet(g, S) = g[x] + SumFunctionOnSet(g, S \ {x})
<1> DEFINE Total(s) == SumFunctionOnSet(g, s)
           Good(s) == \A y \in s : Total(s) = g[y] + Total(s \ {y})
           Bad == { s \in SUBSET S : ~Good(s) }
<1> SUFFICES ASSUME Bad # {} PROVE FALSE
  <2>1. S \in SUBSET S
    OBVIOUS
  <2> QED
    BY <2>1
<1>1. \A s \in Bad : IsFiniteSet(s)
  BY FS_Subset
<1>2. PICK s \in Bad : \A t : t \in SUBSET s /\ t # s => t \notin Bad
  <2> HIDE DEF Bad
  <2> QED
    BY <1>1, SmallestSet
<1>3. s \in SUBSET S /\ IsFiniteSet(s) /\ ~Good(s)
  BY <1>1
<1>4. PICK y \in s : Total(s) # g[y] + Total(s \ {y})
  BY <1>3
<1> DEFINE c == Chosen(s)
           r == s \ {c, y}
<1>5. Total(s) = g[c] + Total(s \ {c})
  BY <1>3, <1>4, SumChosen
<1>6. c \in s /\ y # c
  <2>1. c \in s
    BY <1>4, ChosenIsElement
  <2> QED
    BY <1>4, <1>5, <2>1
<1>7. /\ (s \ {c}) \ {y} = r /\ (s \ {y}) \ {c} = r
      /\ y \in s \ {c} /\ c \in s \ {y}
      /\ s \ {c} \in SUBSET s /\ s \ {c} # s /\ s \ {c} \in SUBSET S
      /\ s \ {y} \in SUBSET s /\ s \ {y} # s /\ s \ {y} \in SUBSET S
  BY <1>3, <1>4, <1>6
<1>8. Good(s \ {c}) /\ Good(s \ {y})
  BY <1>2, <1>7
<1>9. Total(s \ {c}) = g[y] + Total(r) /\ Total(s \ {y}) = g[c] + Total(r)
  BY <1>7, <1>8
<1>10. g[y] \in Int /\ g[c] \in Int /\ Total(r) \in Int
  <2>1. IsFiniteSet(r) /\ \A z \in r : g[z] \in Int
    BY <1>3, FS_Subset
  <2> QED
    BY <1>3, <1>6, <2>1, SumIsInt
<1> HIDE DEF Total, c, r
<1> QED
  BY <1>4, <1>5, <1>9, <1>10

\* A sum over an interval grows at its end.
LEMMA SumNext ==
  ASSUME NEW g, NEW a \in Int, NEW b \in Int, a <= b + 1,
         \A x \in a .. b + 1 : g[x] \in Int
  PROVE  /\ SumFunctionOnSet(g, a .. b) \in Int
         /\ SumFunctionOnSet(g, a .. b + 1) = SumFunctionOnSet(g, a .. b) + g[b + 1]
<1>1. IsFiniteSet(a .. b + 1) /\ IsFiniteSet(a .. b)
  BY FS_Interval
<1>2. b + 1 \in a .. b + 1 /\ (a .. b + 1) \ {b + 1} = a .. b
  OBVIOUS
<1>3. SumFunctionOnSet(g, a .. b + 1) = g[b + 1] + SumFunctionOnSet(g, a .. b)
  BY <1>1, <1>2, SumPick
<1>4. SumFunctionOnSet(g, a .. b) \in Int
  BY <1>1, SumIsInt
<1> QED
  BY <1>2, <1>3, <1>4

\* and at its beginning.
LEMMA SumFirst ==
  ASSUME NEW g, NEW a \in Int, NEW b \in Int, a <= b,
         \A x \in a .. b : g[x] \in Int
  PROVE  SumFunctionOnSet(g, a .. b) = g[a] + SumFunctionOnSet(g, a + 1 .. b)
<1> DEFINE rest == (a .. b) \ {a}
           later == a + 1 .. b
<1>1. IsFiniteSet(a .. b) /\ a \in a .. b
  BY FS_Interval
<1>2. SumFunctionOnSet(g, a .. b) = g[a] + SumFunctionOnSet(g, rest)
  BY <1>1, SumPick
<1>3. rest = later
  OBVIOUS
<1> HIDE DEF rest, later
<1>4. SumFunctionOnSet(g, a .. b) = g[a] + SumFunctionOnSet(g, later)
  BY <1>2, <1>3
<1> QED
  BY <1>4 DEF later

LEMMA SumOverNothing ==
  ASSUME NEW g, NEW a \in Int, NEW b \in Int, b < a
  PROVE  SumFunctionOnSet(g, a .. b) = 0
<1>1. a .. b = {} /\ IsFiniteSet(a .. b)
  BY FS_EmptySet
<1> QED
  BY <1>1, SumChosen


\* The sum of the steps of f is what f grows by.
LEMMA SumOfSteps ==
  ASSUME NEW f, NEW g, NEW a \in Int, NEW c \in Int, a <= c,
         \A x \in a .. c : f[x] \in Int,
         \A x \in a .. c - 1 : g[x] \in Int /\ f[x + 1] = f[x] + g[x]
  PROVE  SumFunctionOnSet(g, a .. c - 1) = f[c] - f[a]
<1> DEFINE Total(b) == SumFunctionOnSet(g, a .. b)
           Good(n) == a + n <= c => Total(a + n - 1) = f[a + n] - f[a]
           G == { n \in Nat : Good(n) }
<1>1. 0 \in G
  <2>1. Total(a + 0 - 1) = 0
    BY SumOverNothing
  <2>2. f[a] \in Int /\ a + 0 = a
    OBVIOUS
  <2> HIDE DEF Total
  <2> QED
    BY <2>1, <2>2
<1>2. ASSUME NEW n \in Nat, n \in G PROVE n + 1 \in G
  <2> SUFFICES ASSUME a + (n + 1) <= c
               PROVE  Total(a + (n + 1) - 1) = f[a + (n + 1)] - f[a]
    OBVIOUS
  <2> DEFINE x == a + n
             b == x - 1
  <2>1. /\ x \in a .. c - 1 /\ x + 1 \in a .. c /\ x \in a .. c /\ a \in a .. c
        /\ a + n <= c /\ a + (n + 1) - 1 = x /\ a + (n + 1) = x + 1
        /\ b \in Int /\ a <= b + 1 /\ b + 1 = x /\ a + n - 1 = b
    OBVIOUS
  <2>2. Total(b) = f[x] - f[a]
    <3>1. n \in G
      BY <1>2
    <3>2. Good(n)
      BY <3>1
    <3> HIDE DEF Total
    <3> QED
      BY <2>1, <3>2
  <2>3. \A z \in a .. x : g[z] \in Int
    OBVIOUS
  <2>4. f[x] \in Int /\ f[a] \in Int /\ g[x] \in Int /\ f[x + 1] = f[x] + g[x]
    BY <2>1
  <2> HIDE DEF x, b, G, Good
  <2>5. Total(x) = Total(b) + g[x]
    <3>1. \A z \in a .. b + 1 : g[z] \in Int
      BY <2>1, <2>3
    <3>2. Total(b + 1) = Total(b) + g[b + 1]
      BY <2>1, <3>1, SumNext
    <3> QED
      BY <2>1, <3>2
  <2> HIDE DEF Total
  <2> QED
    BY <2>1, <2>2, <2>4, <2>5
<1>3. \A n \in Nat : n \in G
  <2> HIDE DEF G
  <2> QED
    BY <1>1, <1>2, AllReached
<1>4. c - a \in Nat /\ a + (c - a) = c /\ a + (c - a) - 1 = c - 1
  OBVIOUS
<1>5. Good(c - a)
  BY <1>3, <1>4
<1> HIDE DEF Total
<1>6. Total(c - 1) = f[c] - f[a]
  BY <1>4, <1>5
<1> QED
  BY <1>6 DEF Total

-----------------------------------------------------------------------------
(* days_from_civil() counts days, in every year *)

\* The days of the years that begin in March before a given one.
YearStart(yr) ==
  Era(yr) * 146097 + (yr - Era(yr) * 400) * 365
    + (yr - Era(yr) * 400) \div 4 - (yr - Era(yr) * 400) \div 100

\* The days of such a year before a month.
MonthStart(m) == (153 * (IF m > 2 THEN m - 3 ELSE m + 9) + 2) \div 5

\* The rounding of the era is down, for years before 0 too.
LEMMA EraRoundsDown == ASSUME NEW yr \in Int PROVE Era(yr) = yr \div 400
BY SMT DEF Era, Quotient

\* A year from March on has 366 days if the one it ends in is a leap year.
LEMMA YearLength ==
  ASSUME NEW y \in Int
  PROVE  YearStart(y) = YearStart(y - 1) + (IF IsLeap(y) THEN 366 ELSE 365)
<1> DEFINE e == y \div 400
           r == y - e * 400
<1>1. YearStart(y) = e * 146097 + r * 365 + r \div 4 - r \div 100
  <2>1. Era(y) = e
    BY EraRoundsDown
  <2> QED
    BY <2>1 DEF YearStart
<1>2. e \in Int /\ r \in 0 .. 399 /\ y = 400 * e + r
  BY SMT
<1> HIDE DEF e, r
<1>3. IsLeap(y) <=> r % 4 = 0 /\ (r % 100 # 0 \/ r = 0)
  BY <1>2, SMT DEF IsLeap
<1>4. CASE r = 0
  <2>1. Era(y - 1) = e - 1 /\ y - 1 - (e - 1) * 400 = 399
    <3>1. (y - 1) \div 400 = e - 1
      BY <1>2, <1>4, SMT
    <3> QED
      BY <1>2, <1>4, <3>1, EraRoundsDown
  <2>2. YearStart(y - 1) = (e - 1) * 146097 + 399 * 365 + 399 \div 4 - 399 \div 100
    BY <2>1 DEF YearStart
  <2> QED
    BY <1>1, <1>2, <1>3, <1>4, <2>2, SMT
<1>5. CASE r # 0
  <2>1. Era(y - 1) = e /\ y - 1 - e * 400 = r - 1
    <3>1. (y - 1) \div 400 = e
      BY <1>2, <1>5, SMT
    <3> QED
      BY <1>2, <1>5, <3>1, EraRoundsDown
  <2>2. YearStart(y - 1) = e * 146097 + (r - 1) * 365 + (r - 1) \div 4 - (r - 1) \div 100
    BY <2>1 DEF YearStart
  <2> QED
    BY <1>1, <1>2, <1>3, <1>5, <2>2, SMT
<1> QED
  BY <1>4, <1>5

\* days_from_civil() is the start of its year, that of its month, and the day.
LEMMA DaysSplit ==
  ASSUME NEW y \in Int, NEW m \in 1 .. 12, NEW d \in 1 .. 31
  PROVE  /\ DaysFromCivil(y, m, d) =
              YearStart(YearFromMarch(y, m)) + MonthStart(m) + d - 1 - 719468
         /\ MonthStart(m) \in Int
<1> DEFINE yr == YearFromMarch(y, m)
           era == Era(yr)
           yoe == yr - era * 400
           months == (153 * (IF m > 2 THEN m - 3 ELSE m + 9) + 2) \div 5
<1>1. yr \in Int
  BY DEF YearFromMarch
<1>2. months \in Int
  BY SMT
<1>3. era \in Int
  BY <1>1, EraRoundsDown, SMT
<1>4. DaysFromCivil(y, m, d) =
        era * 146097 + (yoe * 365 + yoe \div 4 - yoe \div 100 + (months + d - 1)) - 719468
  BY SMTT(30) DEF DaysFromCivil
<1>5. YearStart(yr) = era * 146097 + yoe * 365 + yoe \div 4 - yoe \div 100
  BY DEF YearStart
<1>6. MonthStart(m) = months
  BY Zenon DEF MonthStart
<1>7. yoe \in Int /\ yoe \div 4 \in Int /\ yoe \div 100 \in Int
  BY <1>1, <1>3
<1> HIDE DEF era, yoe, months
<1> QED
  BY <1>7, <1>2, <1>3, <1>4, <1>5, <1>6, SMT

LEMMA YearStartIsInt == ASSUME NEW y \in Int PROVE YearStart(y) \in Int
<1>1. Era(y) \in Int
  BY EraRoundsDown, SMT
<1> QED
  BY <1>1, SMT DEF YearStart

\* Within a year from March on, the months follow each other at their lengths.
LEMMA MonthLengths ==
  ASSUME NEW y \in Int
  PROVE  /\ MonthStart(3) = 0
         /\ MonthStart(2) = 337
         /\ MonthStart(1) = MonthStart(12) + 31
         /\ \A m \in (1 .. 11) \ {2} : MonthStart(m + 1) = MonthStart(m) + MonthLength(y, m)
BY SMT DEF MonthStart, MonthLength

\* days_from_civil() counts days: for every date of every year, tomorrow's
\* number is today's and one.
THEOREM CountsDays ==
  ASSUME NEW y \in Int, NEW m \in 1 .. 12, NEW d \in 1 .. MonthLength(y, m)
  PROVE  DaysFromCivil(Tomorrow(y, m, d)[1], Tomorrow(y, m, d)[2], Tomorrow(y, m, d)[3])
           = DaysFromCivil(y, m, d) + 1
<1>1. MonthLength(y, m) \in 28 .. 31
  BY DEF MonthLength
<1>2. d \in 1 .. 31
  BY <1>1
<1> DEFINE Sum(yr, month, day) == YearStart(yr) + MonthStart(month) + day - 1 - 719468
<1>3. DaysFromCivil(y, m, d) = Sum(YearFromMarch(y, m), m, d)
  BY <1>2, DaysSplit
<1>4. YearStart(y) \in Int /\ YearStart(y - 1) \in Int
  BY YearStartIsInt
<1>5. \A k \in 1 .. 12 : MonthStart(k) \in Int
  BY DaysSplit
<1>6. YearFromMarch(y, m) \in {y, y - 1}
  BY DEF YearFromMarch
<1>7. CASE d < MonthLength(y, m)
  <2>1. d + 1 \in 1 .. 31 /\ Tomorrow(y, m, d) = <<y, m, d + 1>>
    BY <1>1, <1>7 DEF Tomorrow
  <2>2. DaysFromCivil(y, m, d + 1) = Sum(YearFromMarch(y, m), m, d + 1)
    BY <2>1, DaysSplit
  <2> QED
    BY <1>3, <1>4, <1>5, <1>6, <2>1, <2>2
<1>8. CASE d = MonthLength(y, m) /\ m < 12
  <2>1. m + 1 \in 1 .. 12 /\ 1 \in 1 .. 31 /\ Tomorrow(y, m, d) = <<y, m + 1, 1>>
    BY <1>8 DEF Tomorrow
  <2>2. DaysFromCivil(y, m + 1, 1) = Sum(YearFromMarch(y, m + 1), m + 1, 1)
    BY <2>1, DaysSplit
  <2>3. CASE m = 2
    <3>1. YearFromMarch(y, m) = y - 1 /\ YearFromMarch(y, m + 1) = y
      BY <2>3 DEF YearFromMarch
    <3>2. MonthStart(m) = 337 /\ MonthStart(m + 1) = 0
      BY <2>3, MonthLengths
    <3>3. YearStart(y) = YearStart(y - 1) + 337 + d
      BY <1>4, <1>8, <2>3, YearLength DEF MonthLength
    <3> QED
      BY <1>3, <1>4, <2>1, <2>2, <3>1, <3>2, <3>3
  <2>4. CASE m # 2
    <3>1. YearFromMarch(y, m + 1) = YearFromMarch(y, m)
      BY <2>4 DEF YearFromMarch
    <3>2. MonthStart(m + 1) = MonthStart(m) + d
      BY <1>8, <2>4, MonthLengths
    <3> QED
      BY <1>3, <1>4, <1>5, <1>6, <2>1, <2>2, <3>1, <3>2
  <2> QED
    BY <2>3, <2>4
<1>9. CASE d = MonthLength(y, m) /\ m = 12
  <2>1. d = 31 /\ Tomorrow(y, m, d) = <<y + 1, 1, 1>>
    BY <1>9 DEF Tomorrow, MonthLength
  <2>2. YearFromMarch(y, m) = y /\ YearFromMarch(y + 1, 1) = y
    BY <1>9 DEF YearFromMarch
  <2>3. DaysFromCivil(y + 1, 1, 1) = Sum(YearFromMarch(y + 1, 1), 1, 1)
    BY DaysSplit
  <2>4. MonthStart(1) = MonthStart(m) + 31
    BY <1>9, MonthLengths
  <2> QED
    BY <1>3, <1>4, <1>5, <2>1, <2>2, <2>3, <2>4
<1> QED
  BY <1>1, <1>7, <1>8, <1>9

\* The count starts where the timestamps of the engine do.
THEOREM CountsFrom1970 == DaysFromCivil(1970, 1, 1) = 0
BY SMT DEF DaysFromCivil, YearFromMarch, Era, Quotient

-----------------------------------------------------------------------------
(* The days since 1970 *)

\* Years count on from each other by their lengths.
LEMMA NewYear ==
  ASSUME NEW y \in Int
  PROVE  /\ DaysFromCivil(y, 1, 1) \in Int
         /\ DaysFromCivil(y + 1, 1, 1) = DaysFromCivil(y, 1, 1) + LengthOfYear[y]
         /\ LengthOfYear[y] \in Int
<1>1. \A k \in Int : /\ DaysFromCivil(k, 1, 1) = YearStart(k - 1) + MonthStart(1) - 719468
                     /\ YearStart(k - 1) \in Int /\ MonthStart(1) \in Int
  <2> SUFFICES ASSUME NEW k \in Int
               PROVE  /\ DaysFromCivil(k, 1, 1) = YearStart(k - 1) + MonthStart(1) - 719468
                      /\ YearStart(k - 1) \in Int /\ MonthStart(1) \in Int
    OBVIOUS
  <2>1. YearFromMarch(k, 1) = k - 1
    BY DEF YearFromMarch
  <2>2. /\ DaysFromCivil(k, 1, 1) = YearStart(k - 1) + MonthStart(1) + 1 - 1 - 719468
        /\ MonthStart(1) \in Int
    BY <2>1, DaysSplit
  <2>3. YearStart(k - 1) \in Int
    BY YearStartIsInt
  <2> QED
    BY <2>2, <2>3
<1>2. YearStart(y) = YearStart(y - 1) + LengthOfYear[y]
  BY YearLength DEF LengthOfYear
<1>3. LengthOfYear[y] \in Int
  BY DEF LengthOfYear
<1>4. y + 1 \in Int /\ (y + 1) - 1 = y
  OBVIOUS
<1>5. DaysFromCivil(y + 1, 1, 1) = YearStart(y) + MonthStart(1) - 719468
  BY <1>1, <1>4
<1>6. /\ DaysFromCivil(y, 1, 1) = YearStart(y - 1) + MonthStart(1) - 719468
      /\ YearStart(y - 1) \in Int /\ MonthStart(1) \in Int
  BY <1>1
<1> QED
  BY <1>2, <1>3, <1>5, <1>6

LEMMA NewYears ==
  \A y \in Int : /\ DaysFromCivil(y, 1, 1) \in Int /\ LengthOfYear[y] \in Int
                 /\ DaysFromCivil(y + 1, 1, 1) = DaysFromCivil(y, 1, 1) + LengthOfYear[y]
BY NewYear, Zenon

\* Years count on from each other by their lengths,
LEMMA YearsCounted ==
  ASSUME NEW y \in Int, NEW z \in Int, y <= z
  PROVE  SumFunctionOnSet(LengthOfYear, y .. z - 1) = DaysFromCivil(z, 1, 1) - DaysFromCivil(y, 1, 1)
<1> DEFINE f == [k \in Int |-> DaysFromCivil(k, 1, 1)]
<1>1. \A k \in Int : f[k] = DaysFromCivil(k, 1, 1)
  OBVIOUS
<1> HIDE DEF f
<1>2. \A x \in y .. z : f[x] \in Int
  BY <1>1, NewYears
<1>3. \A x \in y .. z - 1 : LengthOfYear[x] \in Int /\ f[x + 1] = f[x] + LengthOfYear[x]
  BY <1>1, NewYears
<1>4. SumFunctionOnSet(LengthOfYear, y .. z - 1) = f[z] - f[y]
  BY <1>2, <1>3, SumOfSteps
<1> QED
  BY <1>1, <1>4

\* Within a month the days follow each other,
LEMMA NewDay ==
  ASSUME NEW y \in Int, NEW m \in 1 .. 12, NEW d \in 1 .. MonthLength(y, m)
  PROVE  /\ DaysFromCivil(y, m, d) = DaysFromCivil(y, m, 1) + d - 1
         /\ DaysFromCivil(y, m, 1) \in Int
         /\ MonthLength(y, m) \in 28 .. 31
<1>1. MonthLength(y, m) \in 28 .. 31
  BY DEF MonthLength
<1>2. d \in 1 .. 31 /\ 1 \in 1 .. 31
  BY <1>1
<1>3. YearFromMarch(y, m) \in Int
  BY DEF YearFromMarch
<1> DEFINE start == YearStart(YearFromMarch(y, m))
           month == MonthStart(m)
<1>4. start \in Int
  BY <1>3, YearStartIsInt
<1>5. month \in Int /\ DaysFromCivil(y, m, d) = start + month + d - 1 - 719468
  BY <1>2, DaysSplit
<1>6. DaysFromCivil(y, m, 1) = start + month + 1 - 1 - 719468
  BY <1>2, DaysSplit
<1> HIDE DEF start, month
<1> QED
  BY <1>1, <1>2, <1>4, <1>5, <1>6

\* and within a year the months.
LEMMA NewMonth ==
  ASSUME NEW y \in Int, NEW m \in 1 .. 11
  PROVE  DaysFromCivil(y, m + 1, 1) = DaysFromCivil(y, m, 1) + MonthLength(y, m)
<1> DEFINE last == MonthLength(y, m)
<1>1. m \in 1 .. 12 /\ last \in 28 .. 31
  BY DEF MonthLength
<1>2. last \in 1 .. last
  BY <1>1
<1>3. Tomorrow(y, m, last) = <<y, m + 1, 1>>
  <2>1. ~(last < last) /\ m < 12
    BY <1>1
  <2> QED
    BY <2>1, Zenon DEF Tomorrow
<1>4. DaysFromCivil(y, m + 1, 1) = DaysFromCivil(y, m, last) + 1
  BY <1>1, <1>2, <1>3, CountsDays
<1>5. DaysFromCivil(y, m, last) = DaysFromCivil(y, m, 1) + last - 1 /\ DaysFromCivil(y, m, 1) \in Int
  BY <1>1, <1>2, NewDay
<1> HIDE DEF last
<1>6. DaysFromCivil(y, m + 1, 1) = DaysFromCivil(y, m, 1) + last
  BY <1>1, <1>4, <1>5
<1> QED
  BY <1>6 DEF last

LEMMA MonthsCounted ==
  ASSUME NEW y \in Int, NEW m \in 1 .. 12,
         NEW lengths, \A k \in 1 .. 12 : lengths[k] = MonthLength(y, k)
  PROVE  SumFunctionOnSet(lengths, 1 .. m - 1) = DaysFromCivil(y, m, 1) - DaysFromCivil(y, 1, 1)
<1> DEFINE f == [k \in 1 .. 12 |-> DaysFromCivil(y, k, 1)]
<1>1. \A k \in 1 .. 12 : f[k] = DaysFromCivil(y, k, 1) /\ f[k] \in Int
  <2> SUFFICES ASSUME NEW k \in 1 .. 12 PROVE DaysFromCivil(y, k, 1) \in Int
    OBVIOUS
  <2>1. 1 \in 1 .. MonthLength(y, k)
    BY DEF MonthLength
  <2> QED
    BY <2>1, NewDay
<1>2. \A k \in 1 .. 11 : f[k + 1] = f[k] + MonthLength(y, k)
  <2>1. \A k \in 1 .. 11 : DaysFromCivil(y, k + 1, 1) = DaysFromCivil(y, k, 1) + MonthLength(y, k)
    BY NewMonth
  <2> HIDE DEF f
  <2> QED
    BY <1>1, <2>1
<1>3. \A k \in 1 .. 12 : lengths[k] = MonthLength(y, k) /\ lengths[k] \in Int
  BY DEF MonthLength
<1> HIDE DEF f
<1>4. 1 \in 1 .. 12 /\ 1 <= m /\ 1 .. m \subseteq 1 .. 12 /\ 1 .. m - 1 \subseteq 1 .. 11 /\ 1 .. 11 \subseteq 1 .. 12
  OBVIOUS
<1>5. \A x \in 1 .. m : f[x] \in Int
  BY <1>1, <1>4
<1>6. \A x \in 1 .. m - 1 : lengths[x] \in Int /\ f[x + 1] = f[x] + lengths[x]
  BY <1>2, <1>3, <1>4
<1>7. SumFunctionOnSet(lengths, 1 .. m - 1) = f[m] - f[1]
  <2>1. 1 \in Int /\ m \in Int
    OBVIOUS
  <2> QED
    BY <1>4, <1>5, <1>6, <2>1, SumOfSteps
<1> QED
  BY <1>1, <1>4, <1>7

\* days_from_civil() is the number of days of all the years and months between
\* 1970-01-01 and the date, for every date of every year, past or future.
THEOREM CountsAllDays ==
  ASSUME NEW y \in Int, NEW m \in Nat, NEW d \in Nat, IsDate(y, m, d)
  PROVE  DaysFromCivil(y, m, d) = DaysCounted(y, m, d) /\ DaysFromCivil(y, m, d) \in Int
<1> DEFINE lengths == [k \in 1 .. 12 |-> MonthLength(y, k)]
           after == SumFunctionOnSet(LengthOfYear, 1970 .. y - 1)
           before == SumFunctionOnSet(LengthOfYear, y .. 1969)
           months == SumFunctionOnSet(lengths, 1 .. m - 1)
           start == DaysFromCivil(y, 1, 1)
<1>1. m \in 1 .. 12 /\ d \in 1 .. MonthLength(y, m)
  BY DEF IsDate
<1>2. months = DaysFromCivil(y, m, 1) - start
  <2>1. \A k \in 1 .. 12 : lengths[k] = MonthLength(y, k)
    OBVIOUS
  <2> HIDE DEF lengths
  <2> QED
    BY <1>1, <2>1, MonthsCounted
<1>3. DaysFromCivil(y, m, d) = DaysFromCivil(y, m, 1) + d - 1 /\ DaysFromCivil(y, m, 1) \in Int
  BY <1>1, NewDay
<1>4. start \in Int
  BY NewYear
<1>5. after - before = start
  <2>1. CASE y >= 1970
    <3>1. after = start - 0
      BY <2>1, YearsCounted, CountsFrom1970
    <3>2. before = 0
      BY <2>1, SumOverNothing
    <3> HIDE DEF after, before, start
    <3> QED
      BY <1>4, <3>1, <3>2
  <2>2. CASE y < 1970
    <3>1. before = 0 - start
      <4>1. y <= 1970 /\ 1970 \in Int /\ 1970 - 1 = 1969
        BY <2>2
      <4>2. SumFunctionOnSet(LengthOfYear, y .. 1970 - 1) = DaysFromCivil(1970, 1, 1) - start
        BY <4>1, YearsCounted
      <4> HIDE DEF start
      <4> QED
        BY <4>1, <4>2, CountsFrom1970
    <3>2. after = 0
      BY <2>2, SumOverNothing
    <3> HIDE DEF after, before, start
    <3> QED
      BY <1>4, <3>1, <3>2
  <2> QED
    BY <2>1, <2>2
<1>6. after \in Int /\ before \in Int
  <2>1. \A k \in Int : LengthOfYear[k] \in Int
    BY DEF LengthOfYear
  <2>2. IsFiniteSet(1970 .. y - 1) /\ IsFiniteSet(y .. 1969)
    BY FS_Interval
  <2>3. (\A x \in 1970 .. y - 1 : LengthOfYear[x] \in Int) /\ (\A x \in y .. 1969 : LengthOfYear[x] \in Int)
    BY <2>1
  <2> QED
    BY <2>2, <2>3, SumIsInt
<1>7. DaysCounted(y, m, d) = after - before + months + d - 1
  BY Zenon DEF DaysCounted
<1> HIDE DEF after, before, months, start
<1> QED
  BY <1>1, <1>2, <1>3, <1>4, <1>5, <1>6, <1>7

-----------------------------------------------------------------------------
(* Extrema, powers and digits *)

LEMMA MinIsLeast ==
  ASSUME NEW S \in SUBSET Nat, S # {}
  PROVE  Min(S) \in S /\ \A y \in S : Min(S) <= y
<1>1. \E x \in S : \A y \in S : x <= y
  BY SmallestOf
<1> QED
  BY <1>1, Zenon DEF Min

LEMMA MaxIsGreatest ==
  ASSUME NEW n \in Nat, NEW S \in SUBSET (1 .. n), S # {}
  PROVE  Max(S) \in S /\ \A y \in S : Max(S) >= y
<1> DEFINE T == { n - x : x \in S }
<1>1. T \in SUBSET Nat /\ T # {}
  <2>1. \A x \in S : n - x \in Nat
    OBVIOUS
  <2>2. T \in SUBSET Nat
    BY <2>1
  <2>3. PICK x \in S : TRUE
    OBVIOUS
  <2>4. n - x \in T
    OBVIOUS
  <2> QED
    BY <2>2, <2>4
<1>2. PICK t \in T : \A y \in T : t <= y
  <2> HIDE DEF T
  <2> QED
    BY <1>1, SmallestOf
<1>3. PICK x \in S : t = n - x
  BY <1>2
<1>4. ASSUME NEW y \in S PROVE x >= y
  <2>1. n - y \in T
    OBVIOUS
  <2>2. n - x <= n - y
    BY <1>2, <1>3, <2>1
  <2>3. x \in Int /\ y \in Int /\ n \in Int
    OBVIOUS
  <2> HIDE DEF T
  <2> QED
    BY <2>2, <2>3
<1>5. \E z \in S : \A y \in S : z >= y
  BY <1>4
<1> QED
  BY <1>5, Zenon DEF Max

\* h has the powers of the base up to the n-th.
Powers(h, n) == h = [k \in 0 .. n |-> IF k = 0 THEN 1 ELSE Base * h[k - 1]]

LEMMA PowersStep ==
  ASSUME NEW n, NEW h, Powers(h, n), NEW k \in 0 .. n
  PROVE  h[k] = IF k = 0 THEN 1 ELSE Base * h[k - 1]
BY Zenon DEF Powers

LEMMA PowersAgree ==
  ASSUME NEW n \in Nat, NEW m \in Nat, NEW h, NEW g, Powers(h, n), Powers(g, m),
         NEW i \in Nat, i <= n, i <= m
  PROVE  h[i] = g[i]
<1> DEFINE G == { k \in Nat : k <= n /\ k <= m => h[k] = g[k] }
<1>1. 0 \in G
  <2>1. 0 \in 0 .. n /\ 0 \in 0 .. m
    OBVIOUS
  <2>2. h[0] = 1 /\ g[0] = 1
    BY <2>1, PowersStep
  <2> QED
    BY <2>2
<1>2. ASSUME NEW k \in Nat, k \in G PROVE k + 1 \in G
  <2> SUFFICES ASSUME k + 1 <= n, k + 1 <= m PROVE h[k + 1] = g[k + 1]
    OBVIOUS
  <2>1. k + 1 \in 0 .. n /\ k + 1 \in 0 .. m /\ k + 1 # 0 /\ (k + 1) - 1 = k /\ k <= n /\ k <= m
    OBVIOUS
  <2>2. h[k] = g[k]
    BY <1>2, <2>1
  <2> HIDE DEF G
  <2>3. h[k + 1] = Base * h[(k + 1) - 1] /\ g[k + 1] = Base * g[(k + 1) - 1]
    BY <2>1, PowersStep
  <2> QED
    BY <2>1, <2>2, <2>3
<1>3. \A k \in Nat : k \in G
  <2> HIDE DEF G
  <2> QED
    BY <1>1, <1>2, AllReached
<1> QED
  BY <1>3

LEMMA PowersExist == \A n \in Nat : \E h : Powers(h, n)
<1> DEFINE G == { n \in Nat : \E h : Powers(h, n) }
<1>1. 0 \in G
  <2> DEFINE h == [k \in 0 .. 0 |-> 1]
  <2>1. h = [k \in 0 .. 0 |-> IF k = 0 THEN 1 ELSE Base * h[k - 1]]
    OBVIOUS
  <2>2. Powers(h, 0)
    BY <2>1 DEF Powers
  <2> QED
    BY <2>2
<1>2. ASSUME NEW n \in Nat, n \in G PROVE n + 1 \in G
  <2>1. PICK h : Powers(h, n)
    BY <1>2
  <2> DEFINE g == [k \in 0 .. n + 1 |-> IF k = 0 THEN 1 ELSE Base * h[k - 1]]
             F(k) == IF k = 0 THEN 1 ELSE Base * g[k - 1]
  <2>2. ASSUME NEW k \in 0 .. n + 1 PROVE g[k] = F(k)
    <3>1. CASE k = 0
      BY <3>1
    <3>2. CASE k # 0
      <4>1. k - 1 \in 0 .. n /\ k - 1 \in 0 .. n + 1
        BY <3>2
      <4>2. h[k - 1] = IF k - 1 = 0 THEN 1 ELSE Base * h[(k - 1) - 1]
        BY <2>1, <4>1, PowersStep
      <4>3. g[k - 1] = IF k - 1 = 0 THEN 1 ELSE Base * h[(k - 1) - 1]
        BY <4>1
      <4>4. g[k] = Base * h[k - 1]
        BY <3>2
      <4> HIDE DEF g
      <4> QED
        BY <3>2, <4>2, <4>3, <4>4
    <3> QED
      BY <3>1, <3>2
  <2>3. g = [k \in 0 .. n + 1 |-> F(k)]
    <3>1. g = [k \in 0 .. n + 1 |-> g[k]]
      OBVIOUS
    <3> HIDE DEF g, F
    <3> QED
      BY <2>2, <3>1
  <2>4. Powers(g, n + 1)
    BY <2>3 DEF Powers
  <2> HIDE DEF g
  <2> QED
    BY <2>4
<1>3. \A n \in Nat : n \in G
  <2> HIDE DEF G
  <2> QED
    BY <1>1, <1>2, AllReached
<1> QED
  BY <1>3

LEMMA PowerIs ==
  \A n \in Nat : Power[n] = IF n = 0 THEN 1 ELSE Base * Power[n - 1]
<1> DEFINE H(k) == CHOOSE h : Powers(h, k)
           p == [k \in Nat |-> H(k)[k]]
           F(k) == IF k = 0 THEN 1 ELSE Base * p[k - 1]
<1>1. \A k \in Nat : Powers(H(k), k)
  BY PowersExist
<1> HIDE DEF H
<1>2. ASSUME NEW k \in Nat PROVE p[k] = F(k)
  <2>1. k \in 0 .. k /\ p[k] = H(k)[k] /\ Powers(H(k), k)
    BY <1>1
  <2>2. H(k)[k] = IF k = 0 THEN 1 ELSE Base * H(k)[k - 1]
    BY <2>1, PowersStep
  <2>3. CASE k = 0
    BY <2>1, <2>2, <2>3
  <2>4. CASE k # 0
    <3>1. k - 1 \in Nat /\ k - 1 <= k /\ k - 1 <= k - 1
      BY <2>4
    <3>2. Powers(H(k - 1), k - 1)
      BY <1>1, <3>1
    <3>3. H(k)[k - 1] = H(k - 1)[k - 1]
      BY <2>1, <3>1, <3>2, PowersAgree
    <3>4. p[k - 1] = H(k - 1)[k - 1]
      BY <3>1
    <3> HIDE DEF p
    <3> QED
      BY <2>1, <2>2, <2>4, <3>3, <3>4
  <2> QED
    BY <2>3, <2>4
<1>3. p = [k \in Nat |-> F(k)]
  <2>1. p = [k \in Nat |-> p[k]]
    OBVIOUS
  <2> HIDE DEF p, F
  <2> QED
    BY <1>2, <2>1
<1>4. \E f : f = [k \in Nat |-> IF k = 0 THEN 1 ELSE Base * f[k - 1]]
  BY <1>3
<1>5. Power = [k \in Nat |-> IF k = 0 THEN 1 ELSE Base * Power[k - 1]]
  BY <1>4, Zenon DEF Power
<1> QED
  BY <1>5, Zenon

LEMMA PowerGrows == \A n \in Nat : Power[n] \in Nat /\ Power[n] > n
<1> DEFINE G == { n \in Nat : Power[n] \in Nat /\ Power[n] > n }
<1>1. 0 \in G
  BY PowerIs
<1>2. ASSUME NEW n \in Nat, n \in G PROVE n + 1 \in G
  <2>1. Power[n] \in Nat /\ Power[n] > n
    BY <1>2
  <2>2. Power[n + 1] = Base * Power[n]
    <3>1. n + 1 \in Nat /\ n + 1 # 0 /\ (n + 1) - 1 = n
      OBVIOUS
    <3>2. Power[n + 1] = IF n + 1 = 0 THEN 1 ELSE Base * Power[(n + 1) - 1]
      BY <3>1, PowerIs
    <3> HIDE DEF G
    <3> QED
      BY <3>1, <3>2
  <2>3. Base \in Nat /\ Base >= 2
    BY IngestAssumption
  <2>4. \A p \in Nat, b \in Nat : b >= 2 => b * p \in Nat /\ b * p >= p + p
    OBVIOUS
  <2>5. Base * Power[n] \in Nat /\ Base * Power[n] >= Power[n] + Power[n]
    BY <2>1, <2>3, <2>4
  <2>6. Power[n + 1] \in Nat /\ Power[n + 1] > n + 1
    BY <2>1, <2>2, <2>5
  <2> QED
    BY <2>6
<1>3. \A n \in Nat : n \in G
  <2> HIDE DEF G
  <2> QED
    BY <1>1, <1>2, AllReached
<1> QED
  BY <1>3

LEMMA DigitsSuffice ==
  ASSUME NEW n \in Nat
  PROVE  Digits(n) \in 1 .. n + 1 /\ n < Power[Digits(n)]
<1> DEFINE S == { k \in 1 .. n + 1 : n < Power[k] }
<1>1. n + 1 \in S
  <2>1. n + 1 \in Nat /\ n + 1 \in 1 .. n + 1
    OBVIOUS
  <2>2. Power[n + 1] \in Nat /\ Power[n + 1] > n + 1
    BY <2>1, PowerGrows
  <2> QED
    BY <2>1, <2>2
<1>2. S \in SUBSET Nat /\ S # {}
  BY <1>1
<1>3. Min(S) \in S
  <2> HIDE DEF S
  <2> QED
    BY <1>2, MinIsLeast
<1> QED
  BY <1>3, Zenon DEF Digits

-----------------------------------------------------------------------------
(* The types of an ingest, and the bars that DataHandler has made *)

BarRecord == [timestamp : Nat, open : Nat, close : Nat]
Byte == [v : 0 .. 2 * Base - 1, bar : Nat, at : Nat]

\* The inductive invariant: the bars read are those of the file's first rows,
\* and every byte of the .pb file is one.
Inv ==
    /\ file \in Files
    /\ csv \in [line : 0 .. Len(file.rows), bars : Seq(BarRecord), ended : BOOLEAN]
    /\ Len(csv.bars) = csv.line
    /\ \A i \in DOMAIN csv.bars : csv.bars[i] = CsvBar(file.rows[i])
    /\ conv \in [row : 0 .. Len(file.rows), status : {"converting", "done", "failed", "cut"}]
    /\ records \in Seq(BarRecord) /\ Len(records) <= conv.row
    /\ pb \in Seq(Byte)
    /\ proto \in [pos : 0 .. Len(pb), bars : Seq(BarRecord), ended : BOOLEAN]

LEMMA FilesHaveFields ==
  ASSUME file \in Files
  PROVE  /\ file.header \in Seq(Column) /\ file.rows \in Seq(Seq(Field))
         /\ \A i \in 1 .. Len(file.rows) : file.rows[i] \in Seq(Field)
BY IngestAssumption

LEMMA NamedAreColumns ==
  ASSUME file \in Files, NEW kind
  PROVE  Named(kind) \in SUBSET (1 .. Len(file.header)) /\ Len(file.header) \in Nat
BY FilesHaveFields DEF Named

LEMMA CsvColumnIsPositive ==
  ASSUME file \in Files, NEW kind \in Kind
  PROVE  CsvColumn(kind) \in Nat \ {0}
<1>1. CASE Named(kind) = {}
  BY <1>1 DEF CsvColumn, Kind
<1>2. CASE Named(kind) # {}
  <2>1. Max(Named(kind)) \in Named(kind)
    BY <1>2, NamedAreColumns, MaxIsGreatest
  <2>2. CsvColumn(kind) = Max(Named(kind))
    BY <1>2, Zenon DEF CsvColumn
  <2> QED
    BY <2>1, <2>2, NamedAreColumns
<1> QED
  BY <1>1, <1>2

LEMMA DaysAreInt ==
  ASSUME NEW y \in Int, NEW m \in Int, NEW d \in Int
  PROVE  DaysFromCivil(y, m, d) \in Int
<1> DEFINE yr == YearFromMarch(y, m)
           era == Era(yr)
           yoe == yr - era * 400
           months == (153 * (IF m > 2 THEN m - 3 ELSE m + 9) + 2) \div 5
<1>1. yr \in Int
  BY DEF YearFromMarch
<1>2. era \in Int
  BY <1>1, EraRoundsDown, SMT
<1>3. months \in Int
  BY SMT
<1>4. yoe \in Int /\ yoe \div 4 \in Int /\ yoe \div 100 \in Int
  BY <1>1, <1>2, SMT
<1>5. DaysFromCivil(y, m, d) =
        era * 146097 + (yoe * 365 + yoe \div 4 - yoe \div 100 + (months + d - 1)) - 719468
  BY SMTT(30) DEF DaysFromCivil
<1> HIDE DEF era, yoe, months
<1> QED
  BY <1>2, <1>3, <1>4, <1>5

LEMMA FieldTypes ==
  ASSUME NEW f \in Field
  PROVE  f.n \in Nat /\ Epoch(f) \in Int /\ CsvTimestamp(f) \in Nat /\ Leading(f) \in Nat
<1>1. /\ f.n \in Nat /\ f.n \in Int
      /\ f.civil.month \in Int /\ f.civil.day \in Int /\ f.civil.hour \in Int /\ f.civil.offset \in Int
  BY DEF Field
<1>2. DaysFromCivil(f.n, f.civil.month, f.civil.day) \in Int
  BY <1>1, DaysAreInt
<1>3. Epoch(f) \in Int
  BY <1>1, <1>2 DEF Epoch
<1> QED
  BY <1>1, <1>3 DEF CsvTimestamp, Leading

LEMMA CsvBarIsBar ==
  ASSUME file \in Files, NEW row \in Seq(Field)
  PROVE  CsvBar(row) \in BarRecord
<1> DEFINE n == IF row = <<>> THEN 1 ELSE Len(row)
           full == \A kind \in Kind : CsvColumn(kind) <= n
           At(kind) == IF row = <<>> THEN 0 ELSE Leading(row[CsvColumn(kind)])
           stamp == IF CsvColumn("date") <= Len(row)
                      THEN CsvTimestamp(row[CsvColumn("date")]) ELSE 0
<1>1. \A kind \in Kind : CsvColumn(kind) \in Nat \ {0}
  BY CsvColumnIsPositive
<1>2. "date" \in Kind /\ "open" \in Kind /\ "close" \in Kind
  BY DEF Kind
<1>3. \A i \in Nat \ {0} : i <= Len(row) => row[i] \in Field
  OBVIOUS
<1>4. stamp \in Nat
  BY <1>1, <1>2, <1>3, FieldTypes
<1>5. ASSUME full, NEW kind \in Kind PROVE At(kind) \in Nat
  <2>1. CASE row = <<>>
    BY <2>1
  <2>2. CASE row # <<>>
    <3>1. row[CsvColumn(kind)] \in Field
      BY <1>1, <1>3, <1>5, <2>2
    <3> QED
      BY <2>2, <3>1, FieldTypes
  <2> QED
    BY <2>1, <2>2
<1>6. CsvBar(row) = [timestamp |-> stamp,
                     open |-> IF full THEN At("open") ELSE 0,
                     close |-> IF full THEN At("close") ELSE 0]
  BY Zenon DEF CsvBar
<1> HIDE DEF stamp, full, At
<1> QED
  BY <1>2, <1>4, <1>5, <1>6 DEF BarRecord

LEMMA PyBarIsBar ==
  ASSUME NEW row \in Seq(Field), ~Skips(row), ~Raises(row)
  PROVE  PyBar(row) \in BarRecord
<1>1. \A kind : Parses(row, kind) => row[PyColumn(kind)].n \in Nat
  BY FieldTypes DEF Parses, HasField
<1>2. PyColumn("open") # 0 => Parses(row, "open") /\ Parses(row, "close")
  BY DEF Skips, Raises
<1> QED
  BY <1>1, <1>2 DEF PyBar, BarRecord

LEMMA SizeIsPositive ==
  ASSUME NEW bar \in BarRecord
  PROVE  Size(bar) \in Nat \ {0}
<1> DEFINE D == {"timestamp", "open", "close"}
           S == { f \in DOMAIN bar : bar[f] # 0 }
<1>1. IsFiniteSet(D)
  <2>1. D = {"timestamp"} \cup {"open"} \cup {"close"}
    OBVIOUS
  <2> HIDE DEF D
  <2> QED
    BY <2>1, FS_Singleton, FS_Union
<1>2. S \in SUBSET D
  BY DEF BarRecord
<1>3. Cardinality(S) \in Nat
  BY <1>1, <1>2, FS_Subset, FS_CardinalityType
<1>4. ValueSize * Cardinality(S) \in Nat
  <2> HIDE DEF S
  <2> QED
    BY <1>3, IngestAssumption
<1> HIDE DEF S
<1> QED
  BY <1>4, IngestAssumption DEF Size, S

LEMMA FrameIsBytes ==
  ASSUME NEW bar \in BarRecord, NEW k \in Nat
  PROVE  Varint(Size(bar)) \in Seq(Byte) /\ Body(k, bar) \in Seq(Byte)
<1> DEFINE n == Size(bar)
           digits == Digits(n)
           digit(i) == (n \div Power[i - 1]) % Base
           v(i) == digit(i) + (IF i < digits THEN Base ELSE 0)
<1>1. n \in Nat /\ Base \in Nat /\ Base >= 2
  BY SizeIsPositive, IngestAssumption
<1>2. digits \in Nat
  BY <1>1, DigitsSuffice
<1>3. ASSUME NEW i \in 1 .. digits PROVE v(i) \in 0 .. 2 * Base - 1
  <2>1. i - 1 \in Nat /\ Power[i - 1] \in Nat /\ Power[i - 1] > 0
    <3>1. i - 1 \in Nat
      BY <1>2
    <3> HIDE DEF n, digits
    <3>2. Power[i - 1] \in Nat /\ Power[i - 1] > i - 1
      BY <3>1, PowerGrows
    <3> QED
      BY <3>1, <3>2
  <2>2. \A a \in Nat, p \in Nat : p > 0 => a \div p \in Int
    OBVIOUS
  <2>3. n \div Power[i - 1] \in Int
    BY <1>1, <2>1, <2>2
  <2>4. \A a \in Int, b \in Nat : b >= 2 => a % b \in 0 .. b - 1
    OBVIOUS
  <2>5. digit(i) \in 0 .. Base - 1
    BY <1>1, <2>3, <2>4
  <2> HIDE DEF digit
  <2> QED
    BY <1>1, <2>5
<1>4. Varint(n) = [i \in 1 .. digits |-> [v |-> v(i), bar |-> 0, at |-> 0]]
  BY Zenon DEF Varint
<1>5. Varint(n) \in [1 .. digits -> Byte]
  <2> HIDE DEF v, digits, n
  <2> QED
    BY <1>3, <1>4 DEF Byte
<1>6. Varint(n) \in Seq(Byte)
  <2> HIDE DEF digits, n
  <2> QED
    BY <1>2, <1>5
<1>7. Body(k, bar) \in [1 .. n -> Byte]
  <2>1. Base \in 0 .. 2 * Base - 1
    BY <1>1
  <2>2. Body(k, bar) = [i \in 1 .. n |-> [v |-> Base, bar |-> k, at |-> i]]
    BY Zenon DEF Body
  <2> HIDE DEF n
  <2> QED
    BY <1>1, <2>1, <2>2 DEF Byte
<1>8. Body(k, bar) \in Seq(Byte)
  <2> HIDE DEF n
  <2> QED
    BY <1>1, <1>7
<1> QED
  BY <1>6, <1>8

\* A length is a number, whatever bytes it is read from.
LEMMA RecordLengthIsNat ==
  ASSUME pb \in Seq(Byte), NEW pos \in Nat, NEW end \in pos + 1 .. Len(pb)
  PROVE  RecordLength(pos, end) \in Nat
<1> DEFINE g == [i \in pos + 1 .. end |-> (pb[i].v % Base) * Power[i - pos - 1]]
<1>1. ASSUME NEW i \in pos + 1 .. end PROVE g[i] \in Nat
  <2>1. i \in 1 .. Len(pb) /\ i - pos - 1 \in Nat
    OBVIOUS
  <2>2. pb[i].v \in Int
    <3>1. pb[i] \in Byte
      BY <2>1
    <3>2. pb[i].v \in 0 .. 2 * Base - 1
      BY <3>1 DEF Byte
    <3> QED
      BY <3>2, IngestAssumption
  <2>3. Power[i - pos - 1] \in Nat
    BY <2>1, PowerGrows
  <2>4. pb[i].v % Base \in Nat
    <3>1. \A a \in Int, b \in Nat : b >= 2 => a % b \in Nat
      OBVIOUS
    <3>2. Base \in Nat /\ Base >= 2
      BY IngestAssumption
    <3> QED
      BY <2>2, <3>1, <3>2
  <2>5. (pb[i].v % Base) * Power[i - pos - 1] \in Nat
    <3>1. \A a \in Nat, b \in Nat : a * b \in Nat
      OBVIOUS
    <3> QED
      BY <2>3, <2>4, <3>1
  <2> QED
    BY <2>5
<1> DEFINE S == pos + 1 .. end
<1>2. IsFiniteSet(S)
  BY FS_Interval
<1>3. RecordLength(pos, end) = SumFunctionOnSet(g, S)
  <2>1. DOMAIN g = S
    OBVIOUS
  <2>2. RecordLength(pos, end) = SumFunctionOnSet(g, DOMAIN g)
    BY Zenon DEF RecordLength, SumFunction
  <2> QED
    BY <2>1, <2>2
<1>4. \A i \in S : g[i] \in Int /\ g[i] >= 0
  BY <1>1
<1> HIDE DEF g, S
<1>5. SumFunctionOnSet(g, S) \in Int /\ SumFunctionOnSet(g, S) >= 0
  BY <1>2, <1>4, SumIsInt
<1> QED
  BY <1>3, <1>5

LEMMA InvInit == Init => Inv
<1> SUFFICES ASSUME Init PROVE Inv
  OBVIOUS
<1>1. file \in Files /\ Len(file.rows) \in Nat
  BY FilesHaveFields DEF Init
<1>2. <<>> \in Seq(BarRecord) /\ <<>> \in Seq(Byte) /\ Len(<<>>) = 0
  OBVIOUS
<1> QED
  BY <1>1, <1>2 DEF Init, Inv

LEMMA CsvBarsRemain ==
  ASSUME UNCHANGED file
  PROVE  \A row : CsvBar(row)' = CsvBar(row)
<1>1. \A kind : Named(kind)' = Named(kind)
  BY DEF Named
<1>2. \A kind : CsvColumn(kind)' = CsvColumn(kind)
  BY <1>1, Zenon DEF CsvColumn
<1> QED
  BY <1>2, Zenon DEF CsvBar

LEMMA InvStreamCsv == Inv /\ StreamCsv => Inv'
<1> SUFFICES ASSUME Inv, StreamCsv PROVE Inv'
  OBVIOUS
<1> USE DEF Inv, StreamCsv
<1>1. CASE csv.line < Len(file.rows)
  <2> DEFINE n == csv.line + 1
             bar == CsvBar(file.rows[n])
  <2>1. n \in 1 .. Len(file.rows) /\ file.rows[n] \in Seq(Field)
    BY <1>1, FilesHaveFields
  <2>2. bar \in BarRecord
    BY <2>1, CsvBarIsBar
  <2>3. csv'.line = n /\ csv'.bars = Append(csv.bars, bar) /\ csv'.ended = csv.ended
    BY <1>1
  <2>4. csv' \in [line : 0 .. Len(file.rows), bars : Seq(BarRecord), ended : BOOLEAN]
    <3>1. Append(csv.bars, bar) \in Seq(BarRecord)
      BY <2>2
    <3>2. csv' = [csv EXCEPT !.line = n, !.bars = Append(csv.bars, bar)]
      BY <1>1
    <3>3. n \in 0 .. Len(file.rows) /\ csv.ended \in BOOLEAN
      BY <2>1
    <3> DEFINE bars == Append(csv.bars, bar)
    <3>4. csv' = [line |-> n, bars |-> bars, ended |-> csv.ended] /\ bars \in Seq(BarRecord)
      BY <3>1, <3>2
    <3> HIDE DEF n, bars, Inv, StreamCsv
    <3> QED
      BY <3>3, <3>4
  <2>5. Len(csv'.bars) = csv'.line
    BY <2>3
  <2>6. \A i \in DOMAIN csv'.bars : csv'.bars[i] = CsvBar(file.rows[i])
    <3> SUFFICES ASSUME NEW i \in DOMAIN csv'.bars PROVE csv'.bars[i] = CsvBar(file.rows[i])
      OBVIOUS
    <3>1. CASE i \in DOMAIN csv.bars
      BY <2>3, <3>1
    <3>2. CASE i = n
      BY <2>3, <3>2
    <3> QED
      BY <2>3, <3>1, <3>2
  <2>7. UNCHANGED <<file, conv, records, pb, proto>>
    OBVIOUS
  <2>8. \A i \in DOMAIN csv'.bars : csv'.bars[i] = CsvBar(file.rows[i])'
    <3>1. \A row : CsvBar(row)' = CsvBar(row)
      BY <2>7, CsvBarsRemain
    <3> QED
      BY <2>6, <2>7, <3>1
  <2> QED
    BY <2>4, <2>5, <2>7, <2>8
<1>2. CASE ~(csv.line < Len(file.rows))
  <2>1. csv' = [csv EXCEPT !.ended = TRUE] /\ UNCHANGED <<file, conv, records, pb, proto>>
    BY <1>2
  <2>2. \A row : CsvBar(row)' = CsvBar(row)
    BY <2>1, CsvBarsRemain
  <2>3. /\ csv'.bars = csv.bars /\ csv'.line = csv.line
        /\ csv' \in [line : 0 .. Len(file.rows), bars : Seq(BarRecord), ended : BOOLEAN]
    BY <2>1
  <2> QED
    BY <2>1, <2>2, <2>3
<1> QED
  BY <1>1, <1>2

\* The other actions leave the file and what DataHandler read of it alone.
LEMMA CsvKept ==
  ASSUME Inv, UNCHANGED <<file, csv>>
  PROVE  \A i \in DOMAIN csv'.bars : csv'.bars[i] = CsvBar(file.rows[i])'
BY CsvBarsRemain DEF Inv

LEMMA InvConvert == Inv /\ Convert => Inv'
<1> SUFFICES ASSUME Inv, Convert PROVE Inv'
  OBVIOUS
<1> DEFINE row == file.rows[conv.row + 1]
           bar == PyBar(row)
<1>1. UNCHANGED <<file, csv, proto>>
  BY DEF Convert
<1>2. /\ conv.row + 1 \in 0 .. Len(file.rows) /\ row \in Seq(Field)
      /\ conv.status = "converting"
  BY FilesHaveFields DEF Inv, Convert
<1>3. CASE Skips(row) \/ Raises(row)
  <2>1. /\ conv' = [row |-> conv.row + 1,
                    status |-> IF Raises(row) THEN "failed" ELSE "converting"]
        /\ UNCHANGED <<records, pb>>
    BY <1>3, Zenon DEF Convert
  <2>2. conv' \in [row : 0 .. Len(file.rows), status : {"converting", "done", "failed", "cut"}]
    BY <1>2, <2>1
  <2>3. Len(records) <= conv'.row
    BY <2>1 DEF Inv
  <2> HIDE DEF row
  <2> QED
    BY <1>1, <2>1, <2>2, <2>3, CsvKept DEF Inv
<1>4. CASE ~(Skips(row) \/ Raises(row))
  <2> DEFINE frame == Varint(Size(bar)) \o Body(Len(records'), bar)
  <2>1. /\ records' = Append(records, bar)
        /\ pb' = pb \o Varint(Size(bar)) \o Body(Len(records'), bar)
        /\ conv' = [conv EXCEPT !.row = @ + 1]
    BY <1>4, Zenon DEF Convert
  <2>2. bar \in BarRecord
    BY <1>2, <1>4, PyBarIsBar
  <2> HIDE DEF row, bar
  <2>3. records \in Seq(BarRecord) /\ records' \in Seq(BarRecord) /\ Len(records') = Len(records) + 1
    BY <2>1, <2>2 DEF Inv
  <2>4. Varint(Size(bar)) \in Seq(Byte) /\ Body(Len(records'), bar) \in Seq(Byte)
    BY <2>2, <2>3, FrameIsBytes
  <2>5. pb' \in Seq(Byte) /\ Len(pb) \in Nat /\ Len(pb') \in Nat /\ Len(pb) <= Len(pb')
    <3> DEFINE s == Varint(Size(bar))
               t == Body(Len(records'), bar)
    <3>1. pb \in Seq(Byte) /\ s \in Seq(Byte) /\ t \in Seq(Byte) /\ pb' = pb \o s \o t
      BY <2>1, <2>4 DEF Inv
    <3> HIDE DEF s, t
    <3> QED
      BY <3>1
  <2>6. /\ conv' \in [row : 0 .. Len(file.rows), status : {"converting", "done", "failed", "cut"}]
        /\ Len(records') <= conv'.row
    <3>1. conv' = [row |-> conv.row + 1, status |-> conv.status] /\ Len(records) <= conv.row
      BY <2>1 DEF Inv
    <3>2. conv.row \in Nat /\ Len(records) \in Nat
      BY FilesHaveFields DEF Inv
    <3> QED
      BY <1>2, <2>3, <3>1, <3>2
  <2>7. proto \in [pos : 0 .. Len(pb'), bars : Seq(BarRecord), ended : BOOLEAN]
    BY <2>5 DEF Inv
  <2>8. Byte' = Byte
    BY DEF Byte
  <2> QED
    BY <1>1, <2>3, <2>5, <2>6, <2>7, <2>8, CsvKept DEF Inv
<1> QED
  BY <1>3, <1>4

LEMMA InvConverted == Inv /\ Converted => Inv'
BY CsvKept DEF Inv, Converted

LEMMA InvCut == Inv /\ Cut => Inv'
<1> SUFFICES ASSUME Inv, Cut PROVE Inv'
  OBVIOUS
<1>1. UNCHANGED <<file, csv, records, proto>> /\ conv' = [conv EXCEPT !.status = "cut"] /\ proto.pos = 0
  BY DEF Cut
<1>2. PICK n \in 0 .. Len(pb) : pb' = SubSeq(pb, 1, n)
  BY DEF Cut
<1>3. pb' \in Seq(Byte) /\ Len(pb') \in Nat
  BY <1>2 DEF Inv
<1>4. proto \in [pos : 0 .. Len(pb'), bars : Seq(BarRecord), ended : BOOLEAN]
  BY <1>1, <1>3 DEF Inv
<1>5. /\ conv' \in [row : 0 .. Len(file.rows), status : {"converting", "done", "failed", "cut"}]
      /\ conv'.row = conv.row
  BY <1>1 DEF Inv
<1> QED
  BY <1>1, <1>3, <1>4, <1>5, CsvKept DEF Inv

LEMMA VarintEndsInFile ==
  ASSUME pb \in Seq(Byte), NEW pos \in Nat, VarintEnd(pos) # 0
  PROVE  VarintEnd(pos) \in pos + 1 .. Len(pb)
<1> DEFINE last == { i \in pos + 1 .. Len(pb) : pb[i].v < Base }
<1>1. VarintEnd(pos) = IF last = {} THEN 0 ELSE Min(last)
  BY Zenon DEF VarintEnd
<1>2. last \in SUBSET Nat
  OBVIOUS
<1>3. last # {}
  BY <1>1
<1>4. Min(last) \in last
  <2> HIDE DEF last
  <2> QED
    BY <1>2, <1>3, MinIsLeast
<1> QED
  BY <1>1, <1>3, <1>4

LEMMA InvStreamProto == Inv /\ StreamProto => Inv'
<1> SUFFICES ASSUME Inv, StreamProto PROVE Inv'
  OBVIOUS
<1> DEFINE end == VarintEnd(proto.pos)
           last == end + RecordLength(proto.pos, end)
           bytes == SubSeq(pb, end + 1, last)
<1>1. UNCHANGED <<file, csv, conv, records, pb>>
  BY DEF StreamProto
<1>2. \/ proto' = [proto EXCEPT !.ended = TRUE]
      \/ /\ end # 0 /\ ~(last > Len(pb))
         /\ \E k \in ParsedFrom(bytes) :
              proto' = [proto EXCEPT !.pos = last, !.bars = Append(@, records[k])]
  BY Zenon DEF StreamProto
<1>3. proto' \in [pos : 0 .. Len(pb), bars : Seq(BarRecord), ended : BOOLEAN]
  <2>1. CASE proto' = [proto EXCEPT !.ended = TRUE]
    BY <2>1 DEF Inv
  <2>2. CASE end # 0 /\ ~(last > Len(pb)) /\ \E k \in ParsedFrom(bytes) :
               proto' = [proto EXCEPT !.pos = last, !.bars = Append(@, records[k])]
    <3>1. PICK k \in ParsedFrom(bytes) :
            proto' = [proto EXCEPT !.pos = last, !.bars = Append(@, records[k])]
      BY <2>2
    <3>2. k \in DOMAIN records
      BY DEF ParsedFrom
    <3>3. records[k] \in BarRecord
      BY <3>2 DEF Inv
    <3>4. proto.pos \in Nat /\ pb \in Seq(Byte)
      BY DEF Inv
    <3>5. end \in proto.pos + 1 .. Len(pb)
      BY <2>2, <3>4, VarintEndsInFile
    <3>6. RecordLength(proto.pos, end) \in Nat
      BY <3>4, <3>5, RecordLengthIsNat
    <3>7. last \in 0 .. Len(pb)
      <4>1. ~(last > Len(pb))
        BY <2>2
      <4> DEFINE length == RecordLength(proto.pos, end)
      <4>2. length \in Nat /\ Len(pb) \in Nat /\ end \in Nat
        BY <3>4, <3>5, <3>6
      <4> HIDE DEF end, length
      <4> QED
        BY <4>1, <4>2 DEF length
    <3> DEFINE bars == Append(proto.bars, records[k])
    <3>8. proto' = [pos |-> last, bars |-> bars, ended |-> proto.ended]
      BY <3>1 DEF Inv
    <3>9. bars \in Seq(BarRecord) /\ proto.ended \in BOOLEAN
      BY <3>3 DEF Inv
    <3> HIDE DEF last, end, bars
    <3> QED
      BY <3>7, <3>8, <3>9
  <2> QED
    BY <1>2, <2>1, <2>2
<1> QED
  BY <1>1, <1>3, CsvKept DEF Inv

LEMMA InvNext == Inv /\ [Next]_vars => Inv'
<1> SUFFICES ASSUME Inv, [Next]_vars PROVE Inv'
  OBVIOUS
<1>1. CASE UNCHANGED vars
  BY <1>1, CsvKept DEF Inv, vars, Byte
<1> QED
  BY <1>1, InvStreamCsv, InvConvert, InvConverted, InvCut, InvStreamProto DEF Next, AllRead

THEOREM InvHolds == Spec => []Inv
BY InvInit, InvNext, PTL DEF Spec

\* Of every CSV file, what either path has read, written and delivered is of
\* its type, and no length is negative, whatever bytes it is read from.
THEOREM TypeCorrect == Spec => []TypeOK
<1>1. Inv => TypeOK
  <2> SUFFICES ASSUME Inv PROVE TypeOK
    OBVIOUS
  <2>1. \A bar \in BarRecord : IsBar(bar)
    BY DEF BarRecord, IsBar
  <2>2. \A s \in Seq(BarRecord) : \A i \in DOMAIN s : IsBar(s[i])
    BY <2>1
  <2>3. \A i \in DOMAIN pb : pb[i].v \in 0 .. 2 * Base - 1
    <3> SUFFICES ASSUME NEW i \in DOMAIN pb PROVE pb[i].v \in 0 .. 2 * Base - 1
      OBVIOUS
    <3>1. pb[i] \in Byte
      BY DEF Inv
    <3> QED
      BY <3>1 DEF Byte
  <2> QED
    BY <2>2, <2>3 DEF Inv, TypeOK
<1> QED
  BY <1>1, InvHolds, PTL

\* Where a header names a kind of column once, both paths take that one.
LEMMA OneColumn ==
  ASSUME file \in Files, NEW kind \in Kind, Cardinality(Named(kind)) = 1
  PROVE  CsvColumn(kind) = PyColumn(kind) /\ PyColumn(kind) \in 1 .. Len(file.header)
<1>1. Named(kind) \in SUBSET (1 .. Len(file.header)) /\ Len(file.header) \in Nat
  BY NamedAreColumns
<1>2. PICK c : Named(kind) = {c}
  <2>1. IsFiniteSet(Named(kind))
    <3>1. IsFiniteSet(1 .. Len(file.header))
      BY <1>1, FS_Interval
    <3> QED
      BY <1>1, <3>1, FS_Subset
  <2> QED
    BY <2>1, FS_Singleton
<1>3. c \in 1 .. Len(file.header)
  BY <1>1, <1>2
<1>4. Max({c}) = c /\ Min({c}) = c
  <2> DEFINE S == {c}
  <2>1. S \in SUBSET (1 .. Len(file.header)) /\ S \in SUBSET Nat /\ S # {}
    BY <1>1, <1>3
  <2>2. Max(S) \in S /\ Min(S) \in S
    <3> HIDE DEF S
    <3> QED
      BY <1>1, <2>1, MaxIsGreatest, MinIsLeast
  <2> QED
    BY <2>2
<1> DEFINE same == { i \in DOMAIN file.header : file.header[i] = file.header[c] }
<1>5. same = {c}
  <2>1. same \subseteq Named(kind)
    BY <1>2 DEF Named
  <2>2. c \in same
    BY <1>3, FilesHaveFields
  <2> QED
    BY <1>2, <2>1, <2>2
<1>6. CsvColumn(kind) = c
  BY <1>2, <1>4, Zenon DEF CsvColumn
<1>7. PyColumn(kind) = Max(same)
  <2>1. Named(kind) # {} /\ Min(Named(kind)) = c
    BY <1>2, <1>4
  <2> QED
    BY <2>1, Zenon DEF PyColumn
<1> HIDE DEF same
<1> QED
  BY <1>3, <1>4, <1>5, <1>6, <1>7

\* Of every file, and in every year, a row's date is the hours since 1970 to
\* that instant in its zone, or 0 before: no leap day is lost or counted twice.
THEOREM TimestampsHold == Spec => []TimestampsAreEpochs
<1>1. Inv => TimestampsAreEpochs
  <2> SUFFICES ASSUME Inv, SaneHeader, NEW i \in DOMAIN csv.bars,
                      HasField(file.rows[i], "date"),
                      file.rows[i][PyColumn("date")].sort = "instant",
                      IsDate(file.rows[i][PyColumn("date")].n,
                             file.rows[i][PyColumn("date")].civil.month,
                             file.rows[i][PyColumn("date")].civil.day)
               PROVE  csv.bars[i].timestamp =
                        LET f == file.rows[i][PyColumn("date")]
                            hours == 24 * DaysCounted(f.n, f.civil.month, f.civil.day)
                                       + f.civil.hour - f.civil.offset
                        IN  IF hours >= 0 THEN hours ELSE 0
    BY Zenon DEF TimestampsAreEpochs
  <2> DEFINE row == file.rows[i]
             c == PyColumn("date")
             f == row[c]
  <2>1. i \in 1 .. Len(file.rows) /\ row \in Seq(Field) /\ csv.bars[i] = CsvBar(row)
    <3>1. i \in 1 .. Len(file.rows)
      BY FilesHaveFields DEF Inv
    <3>2. row \in Seq(Field)
      BY <3>1, FilesHaveFields DEF Inv
    <3> QED
      BY <3>1, <3>2 DEF Inv
  <2>2. CsvColumn("date") = c /\ c \in Nat
    <3>1. "date" \in Kind /\ Cardinality(Named("date")) = 1
      BY DEF SaneHeader, Kind
    <3> QED
      BY <3>1, OneColumn, NamedAreColumns DEF Inv
  <2>3. c \in 1 .. Len(row)
    BY <2>1 DEF HasField
  <2>4. f \in Field
    BY <2>1, <2>3
  <2>5. csv.bars[i].timestamp = CsvTimestamp(f)
    <3>1. CsvBar(row).timestamp = IF CsvColumn("date") <= Len(row)
                                    THEN CsvTimestamp(row[CsvColumn("date")]) ELSE 0
      BY DEF CsvBar
    <3>2. c <= Len(row)
      BY <2>3
    <3> HIDE DEF row, c
    <3> QED
      BY <2>1, <2>2, <3>1, <3>2 DEF f
  <2>6. CsvTimestamp(f) = IF Epoch(f) >= 0 THEN Epoch(f) ELSE 0
    BY DEF CsvTimestamp
  <2>7. DaysFromCivil(f.n, f.civil.month, f.civil.day) = DaysCounted(f.n, f.civil.month, f.civil.day)
    <3>1. f.n \in Int /\ f.civil.month \in Nat /\ f.civil.day \in Nat
      BY <2>4 DEF Field
    <3>2. IsDate(f.n, f.civil.month, f.civil.day)
      OBVIOUS
    <3> HIDE DEF f
    <3> QED
      BY <3>1, <3>2, CountsAllDays
  <2>8. Epoch(f) = 24 * DaysCounted(f.n, f.civil.month, f.civil.day) + f.civil.hour - f.civil.offset
    BY <2>7, Zenon DEF Epoch
  <2> QED
    BY <2>5, <2>6, <2>8
<1> QED
  BY <1>1, InvHolds, PTL

-----------------------------------------------------------------------------
(* A length is read as it was written *)

LEMMA RemainderIs ==
  ASSUME NEW a \in Nat, NEW m \in Nat \ {0}, NEW q \in Nat, NEW t \in Nat,
         a = m * q + t, t < m
  PROVE  a % m = t
<1> DEFINE p == a \div m
           r == a % m
<1>1. p \in Int /\ r \in 0 .. m - 1 /\ a = m * p + r
  OBVIOUS
<1> HIDE DEF p, r
<1>2. m * q + t = m * p + r
  BY <1>1
<1>3. \A x \in Int, y \in Int : x > y => m * x >= m * y + m
  <2> SUFFICES ASSUME NEW x \in Int, NEW y \in Int, x > y PROVE m * x >= m * y + m
    OBVIOUS
  <2>1. PICK k \in Nat : x = y + 1 + k
    <3>1. x - y - 1 \in Nat /\ x = y + 1 + (x - y - 1)
      OBVIOUS
    <3> QED
      BY <3>1
  <2>2. m * x = m * y + m + m * k /\ m * k >= 0
    BY <2>1
  <2> QED
    BY <2>2
<1>4. m * p \in Int /\ m * q \in Int
  BY <1>1
<1>5. ~(q > p) /\ ~(p > q)
  BY <1>1, <1>2, <1>3, <1>4
<1>6. p = q
  BY <1>1, <1>5
<1> QED
  BY <1>1, <1>2, <1>4, <1>6 DEF r

\* One more digit.
LEMMA DigitIsNext ==
  ASSUME NEW a \in Nat, NEW p \in Nat \ {0}, NEW b \in Nat \ {0}
  PROVE  a % (b * p) = (a % p) + ((a \div p) % b) * p
<1> DEFINE q == a \div p
           r == a % p
<1>1. q \in Nat /\ r \in Nat /\ r < p /\ a = p * q + r
  OBVIOUS
<1> HIDE DEF q, r
<1> DEFINE u == q \div b
           s == q % b
<1>2. u \in Nat /\ s \in Nat /\ s < b /\ q = b * u + s
  BY <1>1
<1> HIDE DEF u, s
<1>3. b * p \in Nat \ {0}
  OBVIOUS
<1>4. s * p + r \in Nat /\ s * p + r < b * p
  <2>1. PICK k \in Nat : b = s + 1 + k
    <3>1. b - s - 1 \in Nat /\ b = s + 1 + (b - s - 1)
      BY <1>2
    <3> QED
      BY <3>1
  <2>2. b * p = s * p + p + k * p /\ k * p >= 0 /\ s * p \in Nat
    BY <1>2, <2>1
  <2> QED
    BY <1>1, <2>2
<1>5. a = (b * p) * u + (s * p + r)
  BY <1>1, <1>2
<1>6. a % (b * p) = s * p + r
  BY <1>2, <1>3, <1>4, <1>5, RemainderIs
<1> QED
  BY <1>1, <1>4, <1>6 DEF r, s, q

LEMMA PowerIsPositive == \A n \in Nat : Power[n] \in Nat \ {0} /\ Power[n + 1] = Base * Power[n]
<1> SUFFICES ASSUME NEW n \in Nat PROVE Power[n] \in Nat \ {0} /\ Power[n + 1] = Base * Power[n]
  OBVIOUS
<1>1. Power[n] \in Nat /\ Power[n] > n
  BY PowerGrows
<1>2. n + 1 \in Nat /\ n + 1 # 0 /\ (n + 1) - 1 = n
  OBVIOUS
<1>3. Power[n + 1] = IF n + 1 = 0 THEN 1 ELSE Base * Power[(n + 1) - 1]
  BY <1>2, PowerIs
<1> QED
  BY <1>1, <1>2, <1>3

\* The digits of a varint, each at its weight, are the number it encodes.
LEMMA DigitsAddUp ==
  ASSUME NEW n \in Nat, NEW k \in Nat, NEW pos \in Nat, NEW g,
         \A i \in 1 .. k : g[pos + i] = ((n \div Power[i - 1]) % Base) * Power[i - 1]
  PROVE  SumFunctionOnSet(g, pos + 1 .. pos + k) = n % Power[k]
<1> DEFINE a == pos + 1
           c == pos + k + 1
           f == [x \in a .. c |-> n % Power[x - a]]
<1>1. \A x \in a .. c : x - a \in Nat /\ f[x] = n % Power[x - a]
  OBVIOUS
<1>2. a \in Int /\ c \in Int /\ a <= c /\ a \in a .. c /\ c \in a .. c /\ c - 1 = pos + k /\ a - a = 0 /\ c - a = k
  OBVIOUS
<1>3. \A j \in Nat : n % Power[j] \in Int
  <2>1. \A p \in Nat \ {0} : n % p \in Int
    OBVIOUS
  <2> QED
    BY <2>1, PowerIsPositive
<1> HIDE DEF f
<1>4. \A x \in a .. c : f[x] \in Int
  BY <1>1, <1>3
<1>5. ASSUME NEW x \in a .. c - 1
      PROVE  g[x] \in Int /\ f[x + 1] = f[x] + g[x]
  <2> DEFINE i == x - pos
             j == i - 1
  <2>1. /\ i \in 1 .. k /\ pos + i = x /\ j \in Nat /\ x - a = j /\ (x + 1) - a = j + 1
        /\ x \in a .. c /\ x + 1 \in a .. c
    OBVIOUS
  <2> HIDE DEF i
  <2>2. g[x] = ((n \div Power[j]) % Base) * Power[j]
    BY <2>1
  <2> HIDE DEF j, a, c
  <2>3. Power[j] \in Nat \ {0} /\ Power[j + 1] = Base * Power[j]
    BY <2>1, PowerIsPositive
  <2>4. Base \in Nat \ {0}
    BY IngestAssumption
  <2>5. n % (Base * Power[j]) = (n % Power[j]) + ((n \div Power[j]) % Base) * Power[j]
    BY <2>3, <2>4, DigitIsNext
  <2>6. f[x] = n % Power[j] /\ f[x + 1] = n % Power[j + 1]
    BY <1>1, <2>1
  <2>7. g[x] \in Int
    <3>1. \A m \in Nat, p \in Nat \ {0}, b \in Nat \ {0} : ((m \div p) % b) * p \in Int
      <4> SUFFICES ASSUME NEW m \in Nat, NEW p \in Nat \ {0}, NEW b \in Nat \ {0}
                   PROVE  ((m \div p) % b) * p \in Int
        OBVIOUS
      <4>1. m \div p \in Int
        OBVIOUS
      <4>2. (m \div p) % b \in Int
        BY <4>1
      <4> QED
        BY <4>2
    <3> QED
      BY <2>2, <2>3, <2>4, <3>1
  <2> QED
    BY <2>2, <2>3, <2>5, <2>6, <2>7
<1>6. SumFunctionOnSet(g, a .. c - 1) = f[c] - f[a]
  <2> HIDE DEF a, c
  <2> QED
    BY <1>2, <1>4, <1>5, SumOfSteps
<1>7. f[c] = n % Power[k] /\ f[a] = 0
  <2>1. Power[0] = 1
    BY PowerIs
  <2>2. f[a] = n % Power[0] /\ f[c] = n % Power[k]
    BY <1>1, <1>2
  <2> QED
    BY <2>1, <2>2
<1>8. n % Power[k] \in Int
  BY <1>3
<1> HIDE DEF c
<1> QED
  BY <1>2, <1>6, <1>7, <1>8

-----------------------------------------------------------------------------
(* The .pb file: records one after the other, each behind its length *)

Lengths(recs) == [k \in DOMAIN recs |-> Digits(Size(recs[k])) + Size(recs[k])]

\* The bytes of the first k records.
Offset(recs, k) == SumFunctionOnSet(Lengths(recs), 1 .. k)

FrameByte(k, bar, j) ==
    IF j <= Digits(Size(bar)) THEN Varint(Size(bar))[j]
    ELSE Body(k, bar)[j - Digits(Size(bar))]

\* The bytes are the records', as far as they go.
Framed(recs, bytes) ==
    /\ Len(bytes) <= Offset(recs, Len(recs))
    /\ \A k \in 1 .. Len(recs) : \A j \in 1 .. Lengths(recs)[k] :
         Offset(recs, k - 1) + j <= Len(bytes) =>
           bytes[Offset(recs, k - 1) + j] = FrameByte(k, recs[k], j)

LEMMA LengthsArePositive ==
  ASSUME NEW recs \in Seq(BarRecord), NEW k \in 1 .. Len(recs)
  PROVE  /\ Lengths(recs)[k] = Digits(Size(recs[k])) + Size(recs[k])
         /\ Size(recs[k]) \in Nat \ {0} /\ Digits(Size(recs[k])) \in Nat \ {0}
         /\ Lengths(recs)[k] \in Nat \ {0}
<1>1. recs[k] \in BarRecord
  OBVIOUS
<1>2. Size(recs[k]) \in Nat \ {0}
  BY <1>1, SizeIsPositive
<1>3. Digits(Size(recs[k])) \in Nat \ {0}
  <2> DEFINE n == Size(recs[k])
  <2>1. n \in Nat
    BY <1>2
  <2> HIDE DEF n
  <2>2. Digits(n) \in 1 .. n + 1
    BY <2>1, DigitsSuffice
  <2> QED
    BY <2>1, <2>2 DEF n
<1>4. Lengths(recs)[k] = Digits(Size(recs[k])) + Size(recs[k])
  BY DEF Lengths
<1> QED
  BY <1>2, <1>3, <1>4

LEMMA OffsetsAreNat ==
  ASSUME NEW recs \in Seq(BarRecord), NEW k \in 0 .. Len(recs)
  PROVE  Offset(recs, k) \in Nat /\ Offset(recs, 0) = 0
<1>1. \A i \in 1 .. k : Lengths(recs)[i] \in Int /\ Lengths(recs)[i] >= 0
  BY LengthsArePositive
<1>2. IsFiniteSet(1 .. k)
  BY FS_Interval
<1>3. SumFunctionOnSet(Lengths(recs), 1 .. k) \in Int /\ SumFunctionOnSet(Lengths(recs), 1 .. k) >= 0
  BY <1>1, <1>2, SumIsInt
<1>4. SumFunctionOnSet(Lengths(recs), 1 .. 0) = 0
  BY SumOverNothing
<1> QED
  BY <1>3, <1>4 DEF Offset

LEMMA OffsetNext ==
  ASSUME NEW recs \in Seq(BarRecord), NEW k \in 1 .. Len(recs)
  PROVE  Offset(recs, k) = Offset(recs, k - 1) + Lengths(recs)[k] /\ Offset(recs, k - 1) < Offset(recs, k)
<1> DEFINE b == k - 1
<1>1. b \in Int /\ 1 \in Int /\ 1 <= b + 1 /\ b + 1 = k /\ b \in 0 .. Len(recs)
  OBVIOUS
<1>2. \A i \in 1 .. b + 1 : Lengths(recs)[i] \in Int
  BY <1>1, LengthsArePositive
<1>3. SumFunctionOnSet(Lengths(recs), 1 .. b + 1) = SumFunctionOnSet(Lengths(recs), 1 .. b) + Lengths(recs)[b + 1]
  <2> HIDE DEF b
  <2> QED
    BY <1>1, <1>2, SumNext
<1>4. Offset(recs, b) \in Nat
  BY <1>1, OffsetsAreNat
<1>5. Lengths(recs)[k] \in Nat \ {0}
  BY LengthsArePositive
<1>6. Offset(recs, k) = Offset(recs, b) + Lengths(recs)[k]
  BY <1>1, <1>3 DEF Offset
<1> QED
  BY <1>4, <1>5, <1>6

LEMMA OffsetsGrow ==
  ASSUME NEW recs \in Seq(BarRecord), NEW i \in 0 .. Len(recs), NEW k \in 0 .. Len(recs), i <= k
  PROVE  Offset(recs, i) <= Offset(recs, k)
<1> DEFINE G == { n \in Nat : i + n <= Len(recs) => Offset(recs, i) <= Offset(recs, i + n) }
<1>1. 0 \in G
  <2>1. Offset(recs, i) \in Nat /\ i + 0 = i
    BY OffsetsAreNat
  <2> QED
    BY <2>1
<1>2. ASSUME NEW n \in Nat, n \in G PROVE n + 1 \in G
  <2> SUFFICES ASSUME i + (n + 1) <= Len(recs) PROVE Offset(recs, i) <= Offset(recs, i + (n + 1))
    OBVIOUS
  <2> DEFINE x == i + (n + 1)
  <2>1. x \in 1 .. Len(recs) /\ x \in 0 .. Len(recs) /\ x - 1 = i + n /\ i + n \in 0 .. Len(recs) /\ i + n <= Len(recs)
    OBVIOUS
  <2>2. Offset(recs, i) <= Offset(recs, i + n)
    BY <1>2, <2>1
  <2> HIDE DEF x
  <2>3. Offset(recs, x - 1) < Offset(recs, x)
    BY <2>1, OffsetNext
  <2>4. Offset(recs, i) \in Nat /\ Offset(recs, x - 1) \in Nat /\ Offset(recs, x) \in Nat
    BY <2>1, OffsetsAreNat
  <2>5. Offset(recs, i) <= Offset(recs, x)
    BY <2>1, <2>2, <2>3, <2>4
  <2> QED
    BY <2>5 DEF x
<1>3. \A n \in Nat : n \in G
  <2> HIDE DEF G
  <2> QED
    BY <1>1, <1>2, AllReached
<1>4. k - i \in Nat /\ i + (k - i) = k /\ i + (k - i) <= Len(recs)
  OBVIOUS
<1>5. i + (k - i) <= Len(recs) => Offset(recs, i) <= Offset(recs, i + (k - i))
  BY <1>3, <1>4
<1> QED
  BY <1>4, <1>5

LEMMA OffsetsKept ==
  ASSUME NEW recs \in Seq(BarRecord), NEW bar \in BarRecord, NEW k \in 0 .. Len(recs)
  PROVE  Offset(Append(recs, bar), k) = Offset(recs, k)
<1> DEFINE more == Append(recs, bar)
           c == k + 1
           f == [x \in 1 .. c |-> Offset(recs, x - 1)]
<1>1. more \in Seq(BarRecord) /\ Len(more) = Len(recs) + 1
  OBVIOUS
<1>2. \A x \in 1 .. k : /\ x \in 1 .. Len(recs) /\ x \in 1 .. c /\ x + 1 \in 1 .. c /\ (x + 1) - 1 = x
  OBVIOUS
<1>3. \A x \in 1 .. c : f[x] = Offset(recs, x - 1) /\ x - 1 \in 0 .. Len(recs)
  OBVIOUS
<1>4. \A x \in 1 .. k : Lengths(more)[x] = Lengths(recs)[x]
  BY <1>1, <1>2 DEF Lengths
<1>5. 1 \in Int /\ c \in Int /\ 1 <= c /\ c - 1 = k /\ 1 \in 1 .. c /\ c \in 1 .. c /\ 1 - 1 = 0
  OBVIOUS
<1> HIDE DEF f, more
<1>6. \A x \in 1 .. c : f[x] \in Int
  BY <1>3, OffsetsAreNat
<1>7. \A x \in 1 .. c - 1 : Lengths(more)[x] \in Int /\ f[x + 1] = f[x] + Lengths(more)[x]
  <2> SUFFICES ASSUME NEW x \in 1 .. k
               PROVE  Lengths(more)[x] \in Int /\ f[x + 1] = f[x] + Lengths(more)[x]
    BY <1>5
  <2>1. Lengths(recs)[x] \in Int /\ Offset(recs, x) = Offset(recs, x - 1) + Lengths(recs)[x]
    BY <1>2, LengthsArePositive, OffsetNext
  <2>2. f[x + 1] = Offset(recs, x) /\ f[x] = Offset(recs, x - 1)
    BY <1>2, <1>3
  <2> QED
    BY <1>4, <2>1, <2>2
<1>8. SumFunctionOnSet(Lengths(more), 1 .. c - 1) = f[c] - f[1]
  <2> DEFINE g == Lengths(more)
  <2>1. \A x \in 1 .. c - 1 : g[x] \in Int /\ f[x + 1] = f[x] + g[x]
    BY <1>7
  <2> HIDE DEF c, g
  <2>2. c \in Int /\ 1 \in Int /\ 1 <= c
    BY <1>5
  <2>3. SumFunctionOnSet(g, 1 .. c - 1) = f[c] - f[1]
    BY <1>6, <2>1, <2>2, SumOfSteps
  <2> QED
    BY <2>3 DEF g
<1>9. f[c] = Offset(recs, k) /\ f[1] = 0 /\ Offset(recs, k) \in Nat
  BY <1>3, <1>5, OffsetsAreNat
<1> HIDE DEF c
<1>10. Offset(more, k) = Offset(recs, k)
  BY <1>5, <1>8, <1>9 DEF Offset
<1> QED
  BY <1>10 DEF more

LEMMA FrameParts ==
  ASSUME NEW bar \in BarRecord, NEW k \in Nat
  PROVE  /\ Size(bar) \in Nat \ {0} /\ Digits(Size(bar)) \in Nat \ {0}
         /\ Varint(Size(bar)) \in Seq(Byte) /\ Len(Varint(Size(bar))) = Digits(Size(bar))
         /\ Body(k, bar) \in Seq(Byte) /\ Len(Body(k, bar)) = Size(bar)
<1> DEFINE n == Size(bar)
<1>1. n \in Nat \ {0}
  BY SizeIsPositive
<1>2. Varint(n) \in Seq(Byte) /\ Body(k, bar) \in Seq(Byte)
  BY FrameIsBytes
<1>3. Body(k, bar) = [i \in 1 .. n |-> [v |-> Base, bar |-> k, at |-> i]]
  BY Zenon DEF Body
<1> HIDE DEF n
<1> DEFINE d == Digits(n)
<1>4. d \in 1 .. n + 1
  BY <1>1, DigitsSuffice
<1>5. DOMAIN Varint(n) = 1 .. d
  BY DEF Varint
<1> HIDE DEF d
<1>6. d \in Nat \ {0}
  BY <1>1, <1>4
<1>7. Len(Varint(n)) = d
  <2> DEFINE s == Varint(n)
  <2>1. s \in Seq(Byte) /\ DOMAIN s = 1 .. d
    BY <1>2, <1>5
  <2> HIDE DEF s
  <2>2. Len(s) = d
    BY <1>6, <2>1
  <2> QED
    BY <2>2 DEF s
<1>8. Len(Body(k, bar)) = n
  BY <1>1, <1>3
<1> QED
  BY <1>1, <1>2, <1>6, <1>7, <1>8 DEF n, d

LEMMA ConcatIndices ==
  \A u, v \in Seq(Byte) :
    /\ u \o v \in Seq(Byte) /\ Len(u \o v) = Len(u) + Len(v)
    /\ \A p \in 1 .. Len(u) : (u \o v)[p] = u[p]
    /\ \A j \in 1 .. Len(v) : (u \o v)[Len(u) + j] = v[j]
OBVIOUS

\* A record that is written goes behind the others.
LEMMA FramedAppend ==
  ASSUME NEW recs \in Seq(BarRecord), NEW bytes \in Seq(Byte), NEW bar \in BarRecord,
         Framed(recs, bytes), Len(bytes) = Offset(recs, Len(recs)),
         NEW more, more = Append(recs, bar),
         NEW written, written = bytes \o Varint(Size(bar)) \o Body(Len(more), bar)
  PROVE  Framed(more, written) /\ Len(written) = Offset(more, Len(more))
<1> DEFINE N == Len(recs)
           d == Digits(Size(bar))
           s == Varint(Size(bar))
           t == Body(N + 1, bar)
<1>1. N \in Nat /\ more \in Seq(BarRecord) /\ Len(more) = N + 1 /\ more[N + 1] = bar
  OBVIOUS
<1>2. /\ Size(bar) \in Nat /\ d \in Nat
      /\ s \in Seq(Byte) /\ Len(s) = d /\ t \in Seq(Byte) /\ Len(t) = Size(bar)
  BY <1>1, FrameParts
<1>3. written = bytes \o s \o t
  BY <1>1
<1>4. Lengths(more)[N + 1] = d + Size(bar)
  BY <1>1 DEF Lengths
<1>5. \A k \in 0 .. N : Offset(more, k) = Offset(recs, k) /\ Offset(recs, k) \in Nat
  BY OffsetsKept, OffsetsAreNat
<1> DEFINE M == N + 1
<1>6. Offset(more, M) = Offset(more, N) + Lengths(more)[M]
  <2>1. M \in 1 .. Len(more) /\ M - 1 = N
    BY <1>1
  <2> HIDE DEF M, N
  <2> QED
    BY <1>1, <2>1, OffsetNext
<1>7. Offset(more, N + 1) = Len(bytes) + d + Size(bar)
  <2>1. N \in 0 .. N
    BY <1>1
  <2>2. Offset(more, N) = Len(bytes)
    BY <1>5, <2>1
  <2>3. Lengths(more)[M] = d + Size(bar) /\ Len(bytes) \in Nat
    BY <1>4
  <2>4. Offset(more, M) = Len(bytes) + d + Size(bar)
    <3> HIDE DEF M, N, d
    <3> QED
      BY <1>2, <1>6, <2>2, <2>3
  <2> QED
    BY <2>4
<1> HIDE DEF s, t, d, N, M
<1>8. /\ Len(written) = Len(bytes) + d + Size(bar)
      /\ \A p \in 1 .. Len(bytes) : written[p] = bytes[p]
      /\ \A j \in 1 .. d : written[Len(bytes) + j] = s[j]
      /\ \A j \in 1 .. Size(bar) : written[Len(bytes) + d + j] = t[j]
  <2> DEFINE z == Size(bar)
             st == bytes \o s
  <2>1. z \in Nat /\ d \in Nat /\ Len(s) = d /\ Len(t) = z /\ Len(bytes) \in Nat
    BY <1>2
  <2>2. /\ st \in Seq(Byte) /\ Len(st) = Len(bytes) + d
        /\ \A p \in 1 .. Len(bytes) : st[p] = bytes[p]
        /\ \A j \in 1 .. d : st[Len(bytes) + j] = s[j]
    <3>1. /\ bytes \o s \in Seq(Byte) /\ Len(bytes \o s) = Len(bytes) + Len(s)
          /\ \A p \in 1 .. Len(bytes) : (bytes \o s)[p] = bytes[p]
          /\ \A j \in 1 .. Len(s) : (bytes \o s)[Len(bytes) + j] = s[j]
      BY <1>2, ConcatIndices, Zenon
    <3>2. Len(s) = d
      BY <1>2
    <3> QED
      BY <3>1, <3>2, Zenon
  <2>3. written = st \o t
    BY <1>3
  <2> HIDE DEF st, z
  <2>4. /\ Len(written) = Len(st) + z
        /\ \A p \in 1 .. Len(st) : written[p] = st[p]
        /\ \A j \in 1 .. z : written[Len(st) + j] = t[j]
    <3>1. /\ Len(st \o t) = Len(st) + Len(t)
          /\ \A p \in 1 .. Len(st) : (st \o t)[p] = st[p]
          /\ \A j \in 1 .. Len(t) : (st \o t)[Len(st) + j] = t[j]
      BY <1>2, <2>2, ConcatIndices, Zenon
    <3>2. Len(t) = z
      BY <2>1
    <3> QED
      BY <2>3, <3>1, <3>2, Zenon
  <2>5. (\A p \in 1 .. Len(bytes) : p \in 1 .. Len(st)) /\ \A j \in 1 .. d : Len(bytes) + j \in 1 .. Len(st)
    BY <2>1, <2>2
  <2> QED
    BY <2>1, <2>2, <2>4, <2>5 DEF z
<1>9. ASSUME NEW k \in 1 .. Len(more), NEW j \in 1 .. Lengths(more)[k]
      PROVE  written[Offset(more, k - 1) + j] = FrameByte(k, more[k], j)
  <2>1. CASE k = N + 1
    <3>1. Offset(more, k - 1) = Len(bytes)
      <4>1. k - 1 = N /\ N \in 0 .. N
        BY <1>1, <2>1
      <4> QED
        BY <1>5, <4>1 DEF N
    <3>2. j \in 1 .. d + Size(bar) /\ more[k] = bar
      BY <1>1, <1>4, <2>1
    <3>3. CASE j <= d
      <4>1. FrameByte(k, bar, j) = s[j]
        BY <3>3 DEF FrameByte, d, s
      <4>2. j \in 1 .. d
        BY <1>2, <3>2, <3>3
      <4> QED
        BY <1>8, <3>1, <3>2, <4>1, <4>2
    <3>4. CASE ~(j <= d)
      <4> DEFINE i == j - d
      <4>1. FrameByte(k, bar, j) = t[i]
        BY <2>1, <3>4 DEF FrameByte, d, t
      <4>2. i \in 1 .. Size(bar) /\ Len(bytes) + d + i = Len(bytes) + j
        BY <1>2, <3>2, <3>4
      <4> HIDE DEF i
      <4>3. written[Len(bytes) + d + i] = t[i]
        BY <1>8, <4>2, Zenon
      <4> QED
        BY <3>1, <3>2, <4>1, <4>2, <4>3, Zenon
    <3> QED
      BY <3>3, <3>4
  <2>2. CASE k # N + 1
    <3>1. k \in 1 .. N /\ k \in 1 .. Len(recs) /\ k \in 0 .. Len(recs) /\ k - 1 \in 0 .. N
          /\ Len(recs) \in 0 .. Len(recs) /\ k <= Len(recs)
      BY <1>1, <2>2 DEF N
    <3>2. Lengths(more)[k] = Lengths(recs)[k] /\ more[k] = recs[k]
      BY <1>1, <3>1 DEF Lengths, N
    <3>3. Offset(recs, k) = Offset(recs, k - 1) + Lengths(recs)[k] /\ Offset(recs, k) <= Len(bytes)
      BY <3>1, OffsetNext, OffsetsGrow
    <3> DEFINE p == Offset(recs, k - 1) + j
    <3>4. Lengths(recs)[k] \in Nat /\ Offset(recs, k - 1) \in Nat /\ Offset(more, k - 1) = Offset(recs, k - 1)
      BY <1>5, <3>1, LengthsArePositive
    <3>5. p \in 1 .. Len(bytes)
      BY <3>2, <3>3, <3>4
    <3>6. bytes[p] = FrameByte(k, recs[k], j)
      BY <3>1, <3>2, <3>5 DEF Framed
    <3> QED
      BY <1>8, <3>2, <3>4, <3>5, <3>6
  <2> QED
    BY <2>1, <2>2
<1>10. Len(written) <= Offset(more, Len(more)) /\ Len(written) = Offset(more, Len(more))
  <2>1. Len(written) \in Nat
    BY <1>2, <1>8
  <2> QED
    BY <1>1, <1>7, <1>8, <2>1
<1> QED
  BY <1>9, <1>10 DEF Framed

LEMMA FramedCut ==
  ASSUME NEW recs \in Seq(BarRecord), NEW bytes \in Seq(Byte), Framed(recs, bytes),
         NEW n \in 0 .. Len(bytes)
  PROVE  Framed(recs, SubSeq(bytes, 1, n))
<1> DEFINE part == SubSeq(bytes, 1, n)
<1>1. Len(part) = n /\ \A p \in 1 .. n : part[p] = bytes[p] /\ p <= Len(bytes)
  OBVIOUS
<1> HIDE DEF part
<1>2. Offset(recs, Len(recs)) \in Nat /\ Len(bytes) \in Nat
  BY OffsetsAreNat
<1>3. Len(part) <= Offset(recs, Len(recs))
  BY <1>1, <1>2 DEF Framed
<1>4. ASSUME NEW k \in 1 .. Len(recs), NEW j \in 1 .. Lengths(recs)[k],
             Offset(recs, k - 1) + j <= Len(part)
      PROVE  part[Offset(recs, k - 1) + j] = FrameByte(k, recs[k], j)
  <2>1. Offset(recs, k - 1) \in Nat /\ Lengths(recs)[k] \in Nat
    BY OffsetsAreNat, LengthsArePositive
  <2>2. Offset(recs, k - 1) + j \in 1 .. n
    BY <1>1, <1>4, <2>1
  <2> QED
    BY <1>1, <2>2 DEF Framed
<1> QED
  BY <1>3, <1>4 DEF Framed, part

\* Of a length all bytes but the last are flagged, and each holds its digit.
LEMMA LengthBytes ==
  ASSUME NEW n \in Nat, NEW j \in 1 .. Digits(n)
  PROVE  /\ Varint(n)[j].v < Base <=> j = Digits(n)
         /\ Varint(n)[j].v % Base = (n \div Power[j - 1]) % Base
<1> DEFINE d == Digits(n)
           digit == (n \div Power[j - 1]) % Base
<1>1. d \in 1 .. n + 1
  BY DigitsSuffice
<1>2. d \in Nat /\ j \in 1 .. d /\ j - 1 \in Nat
  <2> HIDE DEF d
  <2> QED
    BY <1>1 DEF d
<1>3. Varint(n)[j].v = digit + (IF j < d THEN Base ELSE 0)
  BY DEF Varint
<1>4. Base \in Nat /\ Base >= 2
  BY IngestAssumption
<1>5. Power[j - 1] \in Nat \ {0}
  BY <1>2, PowerIsPositive
<1>6. digit \in 0 .. Base - 1
  <2>1. \A p \in Nat \ {0} : n \div p \in Int
    OBVIOUS
  <2>2. \A a \in Int, b \in Nat : b >= 2 => a % b \in 0 .. b - 1
    OBVIOUS
  <2> QED
    BY <1>4, <1>5, <2>1, <2>2
<1> DEFINE byte == Varint(n)[j].v
<1> HIDE DEF d, digit, byte
<1>7. byte = digit + (IF j < d THEN Base ELSE 0)
  BY <1>3 DEF byte
<1>8. byte < Base <=> j = d
  BY <1>2, <1>4, <1>6, <1>7
<1>9. byte % Base = digit
  <2>1. CASE j < d
    <3>1. byte = Base * 1 + digit /\ byte \in Nat /\ digit \in Nat /\ digit < Base
      BY <1>4, <1>6, <1>7, <2>1
    <3> QED
      BY <1>4, <3>1, RemainderIs
  <2>2. CASE ~(j < d)
    <3>1. byte = Base * 0 + digit /\ byte \in Nat /\ digit \in Nat /\ digit < Base
      BY <1>4, <1>6, <1>7, <2>2
    <3> QED
      BY <1>4, <3>1, RemainderIs
  <2> QED
    BY <2>1, <2>2
<1> QED
  BY <1>8, <1>9 DEF byte, d, digit

LEMMA LengthIsRead ==
  ASSUME NEW n \in Nat, NEW pos \in Nat, NEW d \in Nat, n < Power[d],
         \A j \in 1 .. d : pb[pos + j].v % Base = (n \div Power[j - 1]) % Base
  PROVE  RecordLength(pos, pos + d) = n
<1> DEFINE g == [i \in pos + 1 .. pos + d |-> (pb[i].v % Base) * Power[i - pos - 1]]
<1>1. RecordLength(pos, pos + d) = SumFunctionOnSet(g, pos + 1 .. pos + d)
  <2>1. RecordLength(pos, pos + d) = SumFunctionOnSet(g, DOMAIN g)
    BY Zenon DEF RecordLength, SumFunction
  <2> QED
    BY <2>1
<1>2. \A j \in 1 .. d : g[pos + j] = ((n \div Power[j - 1]) % Base) * Power[j - 1]
  <2> SUFFICES ASSUME NEW j \in 1 .. d
               PROVE  g[pos + j] = ((n \div Power[j - 1]) % Base) * Power[j - 1]
    OBVIOUS
  <2>1. pos + j \in pos + 1 .. pos + d /\ (pos + j) - pos - 1 = j - 1
    OBVIOUS
  <2>2. g[pos + j] = (pb[pos + j].v % Base) * Power[(pos + j) - pos - 1]
    BY <2>1, Zenon
  <2> QED
    BY <2>1, <2>2, Zenon
<1> HIDE DEF g
<1>3. SumFunctionOnSet(g, pos + 1 .. pos + d) = n % Power[d]
  BY <1>2, DigitsAddUp
<1>4. n % Power[d] = n
  <2>1. Power[d] \in Nat \ {0}
    BY PowerIsPositive
  <2>2. \A p \in Nat \ {0} : n < p => n % p = n
    <3> SUFFICES ASSUME NEW p \in Nat \ {0}, n < p PROVE n % p = n
      OBVIOUS
    <3>1. n = p * 0 + n /\ 0 \in Nat
      OBVIOUS
    <3> QED
      BY <3>1, RemainderIs
  <2> QED
    BY <2>1, <2>2
<1> QED
  BY <1>1, <1>3, <1>4

\* A set of places in which a length has none but its last digit has none before that.
LEMMA NoneEarlier ==
  ASSUME NEW start \in Nat, NEW digits \in Nat, NEW length \in Nat,
         NEW T \in SUBSET (start + 1 .. length),
         \A j \in 1 .. digits : start + j \in T => j = digits
  PROVE  \A i \in T : start + digits <= i
<1> SUFFICES ASSUME NEW i \in T, ~(start + digits <= i) PROVE FALSE
  OBVIOUS
<1>1. i \in Nat /\ start < i
  OBVIOUS
<1>2. PICK j \in Nat : j = i - start
  BY <1>1
<1>3. j \in 1 .. digits /\ j # digits /\ start + j = i
  BY <1>1, <1>2
<1> QED
  BY <1>3

\* The length before a record is found where it was written, and is read as
\* the size it was written for, unless the file ends in it.
LEMMA NextLength ==
  ASSUME records \in Seq(BarRecord), pb \in Seq(Byte), Framed(records, pb),
         NEW n \in 0 .. Len(records) - 1,
         NEW pos, pos = Offset(records, n),
         NEW d, d = Digits(Size(records[n + 1]))
  PROVE  IF pos + d <= Len(pb)
           THEN VarintEnd(pos) = pos + d /\ RecordLength(pos, pos + d) = Size(records[n + 1])
           ELSE VarintEnd(pos) = 0
<1> DEFINE k == n + 1
           size == Size(records[k])
           last == { i \in pos + 1 .. Len(pb) : pb[i].v < Base }
<1>1. k \in 1 .. Len(records) /\ k - 1 = n /\ n \in 0 .. Len(records)
  OBVIOUS
<1>2. /\ pos \in Nat /\ size \in Nat \ {0} /\ d \in Nat \ {0} /\ d = Digits(size)
      /\ Lengths(records)[k] = d + size /\ Len(pb) \in Nat
  <2> HIDE DEF k
  <2> QED
    BY <1>1, LengthsArePositive, OffsetsAreNat DEF k
<1>3. VarintEnd(pos) = IF last = {} THEN 0 ELSE Min(last)
  BY Zenon DEF VarintEnd
<1>4. ASSUME NEW j \in 1 .. d, pos + j <= Len(pb)
      PROVE  pb[pos + j] = Varint(size)[j]
  <2>1. j \in 1 .. Lengths(records)[k] /\ Offset(records, k - 1) = pos
    BY <1>1, <1>2
  <2>2. pb[pos + j] = FrameByte(k, records[k], j)
    <3> HIDE DEF k
    <3> QED
      BY <1>1, <1>4, <2>1 DEF Framed
  <2>3. FrameByte(k, records[k], j) = Varint(size)[j]
    <3>1. j <= Digits(Size(records[k]))
      BY <1>2
    <3> QED
      BY <3>1, Zenon DEF FrameByte
  <2> QED
    BY <2>2, <2>3
<1> HIDE DEF size, k
<1>5. ASSUME NEW j \in 1 .. d, pos + j <= Len(pb)
      PROVE  /\ pb[pos + j].v < Base <=> j = d
             /\ pb[pos + j].v % Base = (size \div Power[j - 1]) % Base
  <2>1. size \in Nat /\ j \in 1 .. Digits(size) /\ d = Digits(size)
    BY <1>2
  <2>2. /\ Varint(size)[j].v < Base <=> j = Digits(size)
        /\ Varint(size)[j].v % Base = (size \div Power[j - 1]) % Base
    BY <2>1, LengthBytes, Zenon
  <2>3. pb[pos + j] = Varint(size)[j]
    BY <1>4, <1>5
  <2> QED
    BY <2>1, <2>2, <2>3, Zenon
<1>6. ASSUME pos + d <= Len(pb)
      PROVE  VarintEnd(pos) = pos + d /\ RecordLength(pos, pos + d) = size
  <2>1. pos + d \in last
    <3>1. d \in 1 .. d /\ pos + d \in pos + 1 .. Len(pb)
      BY <1>2, <1>6
    <3>2. pb[pos + d].v < Base
      BY <1>5, <1>6, <3>1
    <3> QED
      BY <3>1, <3>2
  <2>2. \A i \in last : pos + d <= i
    <3>1. last \in SUBSET (pos + 1 .. Len(pb))
      OBVIOUS
    <3>2. ASSUME NEW j \in 1 .. d, pos + j \in last PROVE j = d
      <4>1. pos + j <= Len(pb) /\ pb[pos + j].v < Base
        BY <1>2, <3>2
      <4> QED
        BY <1>5, <4>1, Zenon
    <3>3. pos \in Nat /\ d \in Nat /\ Len(pb) \in Nat
      BY <1>2
    <3> HIDE DEF last
    <3> QED
      BY <3>1, <3>2, <3>3, NoneEarlier
  <2>3. Min(last) \in last /\ \A y \in last : Min(last) <= y
    <3>1. last \in SUBSET Nat /\ last # {}
      BY <1>2, <2>1
    <3> HIDE DEF last
    <3> QED
      BY <3>1, MinIsLeast
  <2>4. VarintEnd(pos) = pos + d
    <3> DEFINE e == Min(last)
    <3>1. e \in Int /\ pos + d \in Int /\ pos + d <= e /\ e <= pos + d
      <4>1. \A i \in last : i \in Int
        OBVIOUS
      <4> HIDE DEF last, e
      <4>2. e \in last /\ \A y \in last : e <= y
        BY <2>3 DEF e
      <4> QED
        BY <1>2, <2>1, <2>2, <4>1, <4>2
    <3>2. VarintEnd(pos) = e
      BY <1>3, <2>1
    <3> HIDE DEF e
    <3> QED
      BY <3>1, <3>2
  <2>5. RecordLength(pos, pos + d) = size
    <3>1. size < Power[d] /\ size \in Nat /\ d \in Nat /\ pos \in Nat
      <4>1. size < Power[Digits(size)]
        BY <1>2, DigitsSuffice
      <4> QED
        BY <1>2, <4>1
    <3>2. \A j \in 1 .. d : pb[pos + j].v % Base = (size \div Power[j - 1]) % Base
      <4> SUFFICES ASSUME NEW j \in 1 .. d
                   PROVE  pb[pos + j].v % Base = (size \div Power[j - 1]) % Base
        OBVIOUS
      <4>1. pos + j <= Len(pb)
        BY <1>2, <1>6
      <4> QED
        BY <1>5, <4>1
    <3> QED
      BY <3>1, <3>2, LengthIsRead, Zenon
  <2> QED
    BY <2>4, <2>5
<1>7. ASSUME ~(pos + d <= Len(pb))
      PROVE  VarintEnd(pos) = 0
  <2>1. ASSUME NEW i \in last PROVE FALSE
    <3> DEFINE j == i - pos
    <3>1. i \in pos + 1 .. Len(pb) /\ pb[i].v < Base
      BY <2>1
    <3> HIDE DEF last
    <3>2. j \in 1 .. d /\ pos + j = i /\ pos + j <= Len(pb) /\ j # d
      <4>1. Len(pb) < pos + d
        BY <1>2, <1>7
      <4>2. i \in Int /\ pos + 1 <= i /\ i <= Len(pb)
        BY <1>2, <3>1
      <4> QED
        BY <1>2, <4>1, <4>2
    <3> HIDE DEF j
    <3> QED
      BY <1>5, <3>1, <3>2, Zenon
  <2> QED
    BY <1>3, <2>1
<1> QED
  BY <1>6, <1>7 DEF size, k

LEMMA BodyIsRead ==
  ASSUME NEW bytes \in Seq(Byte), NEW body \in Seq(Byte), NEW e \in Nat,
         e + Len(body) <= Len(bytes),
         \A i \in 1 .. Len(body) : bytes[e + i] = body[i]
  PROVE  SubSeq(bytes, e + 1, e + Len(body)) = body
<1> DEFINE s == SubSeq(bytes, e + 1, e + Len(body))
<1>1. s \in Seq(Byte) /\ Len(s) = Len(body)
  OBVIOUS
<1>2. \A i \in 1 .. Len(body) : s[i] = bytes[e + i]
  OBVIOUS
<1> HIDE DEF s
<1>3. s = body
  BY <1>1, <1>2
<1> QED
  BY <1>3 DEF s

\* The bytes of one record are not those of another.
LEMMA BodiesDiffer ==
  ASSUME NEW bar \in BarRecord, NEW other \in BarRecord, NEW i \in Nat, NEW k \in Nat,
         Body(i, bar) = Body(k, other)
  PROVE  i = k
<1>1. Size(bar) \in Nat \ {0} /\ Size(other) \in Nat \ {0}
  BY SizeIsPositive
<1>2. 1 \in 1 .. Size(bar) /\ 1 \in 1 .. Size(other)
  BY <1>1
<1>3. Body(i, bar)[1].bar = i /\ Body(k, other)[1].bar = k
  BY <1>2 DEF Body
<1> QED
  BY <1>3

\* The inductive invariant of the framing: the .pb file is the records, as far
\* as it goes, and what has been read of it ends where a record does.
ReadsRecords ==
    /\ Framed(records, pb)
    /\ conv.status # "cut" => Len(pb) = Offset(records, Len(records))
    /\ Len(proto.bars) <= Len(records)
    /\ \A i \in 1 .. Len(proto.bars) : proto.bars[i] = records[i]
    /\ proto.pos = Offset(records, Len(proto.bars))
    /\ proto.ended => \/ Len(proto.bars) = Len(records)
                      \/ Len(pb) < Offset(records, Len(proto.bars) + 1)
    /\ conv.status = "converting" => proto.bars = <<>> /\ ~proto.ended

\* Reading on delivers the next record if the file has all of it, or ends.
LEMMA NextRecord ==
  ASSUME Inv, ReadsRecords, StreamProto, NEW n, n = Len(proto.bars)
  PROVE  \/ /\ n = Len(records) \/ Len(pb) < Offset(records, n + 1)
            /\ proto' = [proto EXCEPT !.ended = TRUE]
         \/ /\ n < Len(records) /\ Offset(records, n + 1) <= Len(pb)
            /\ proto' = [proto EXCEPT !.pos = Offset(records, n + 1),
                                      !.bars = Append(@, records[n + 1])]
<1> DEFINE pos == proto.pos
           end == VarintEnd(pos)
           last == end + RecordLength(pos, end)
           bytes == SubSeq(pb, end + 1, last)
<1>1. /\ records \in Seq(BarRecord) /\ pb \in Seq(Byte) /\ Framed(records, pb)
      /\ n \in 0 .. Len(records) /\ pos = Offset(records, n) /\ pos \in Nat
      /\ Len(pb) \in Nat /\ Len(records) \in Nat
  BY DEF Inv, ReadsRecords
<1>2. IF end = 0 \/ last > Len(pb) \/ ParsedFrom(bytes) = {}
        THEN proto' = [proto EXCEPT !.ended = TRUE]
        ELSE \E k \in ParsedFrom(bytes) :
               proto' = [proto EXCEPT !.pos = last, !.bars = Append(@, records[k])]
  BY Zenon DEF StreamProto
<1>3. CASE n = Len(records)
  <2>1. Len(pb) <= pos
    BY <1>1, <1>3 DEF Framed
  <2>2. pos + 1 .. Len(pb) = {}
    <3> HIDE DEF pos
    <3> QED
      BY <1>1, <2>1
  <2>3. end = 0
    BY <2>2 DEF VarintEnd
  <2> QED
    BY <1>2, <1>3, <2>3
<1>4. CASE n # Len(records)
  <2> DEFINE k == n + 1
             bar == records[k]
             size == Size(bar)
             d == Digits(size)
  <2>1. n \in 0 .. Len(records) - 1 /\ k \in 1 .. Len(records) /\ k - 1 = n /\ n < Len(records) /\ k \in Nat
    BY <1>1, <1>4
  <2>2. bar \in BarRecord
    BY <1>1, <2>1
  <2>3. /\ size \in Nat \ {0} /\ d \in Nat \ {0} /\ Lengths(records)[k] = d + size
        /\ Offset(records, k) = pos + d + size
    <3> HIDE DEF k
    <3>1. /\ Size(records[k]) \in Nat \ {0} /\ Digits(Size(records[k])) \in Nat \ {0}
          /\ Lengths(records)[k] = Digits(Size(records[k])) + Size(records[k])
      BY <1>1, <2>1, LengthsArePositive
    <3>2. Offset(records, k) = Offset(records, k - 1) + Lengths(records)[k]
      BY <1>1, <2>1, OffsetNext
    <3>3. Offset(records, k - 1) = pos
      BY <1>1, <2>1
    <3> DEFINE a == Digits(Size(records[k]))
               b == Size(records[k])
    <3>4. a \in Nat /\ b \in Nat /\ Lengths(records)[k] = a + b
      BY <3>1
    <3> HIDE DEF a, b, pos
    <3>5. Offset(records, k) = pos + a + b
      BY <1>1, <3>2, <3>3, <3>4
    <3> QED
      BY <3>1, <3>5 DEF a, b
  <2>4. IF pos + d <= Len(pb) THEN end = pos + d /\ RecordLength(pos, pos + d) = size
        ELSE end = 0
    BY <1>1, <2>1, NextLength, Zenon
  <2> HIDE DEF size, d, pos, bar, k
  <2>5. CASE ~(pos + d <= Len(pb))
    <3>1. end = 0
      BY <2>4, <2>5
    <3>2. Len(pb) < Offset(records, k)
      BY <1>1, <2>3, <2>5
    <3> QED
      BY <1>2, <3>1, <3>2 DEF k
  <2>6. CASE pos + d <= Len(pb) /\ ~(pos + d + size <= Len(pb))
    <3>1. last = pos + d + size
      BY <2>4, <2>6
    <3>2. last > Len(pb) /\ Len(pb) < Offset(records, k)
      <4> HIDE DEF last
      <4> QED
        BY <1>1, <2>3, <2>6, <3>1
    <3> QED
      BY <1>2, <3>2 DEF k
  <2>7. CASE pos + d + size <= Len(pb)
    <3> DEFINE e == pos + d
               body == Body(k, bar)
    <3>1. e \in Nat /\ e <= Len(pb) /\ e # 0
      BY <1>1, <2>3, <2>7
    <3>2. end = e /\ last = e + size
      BY <2>4, <3>1
    <3>3. body \in Seq(Byte) /\ Len(body) = size
      BY <2>1, <2>2, FrameParts DEF size
    <3>4. ASSUME NEW i \in 1 .. size PROVE pb[e + i] = body[i]
      <4> DEFINE j == d + i
      <4>1. j \in 1 .. Lengths(records)[k] /\ ~(j <= d) /\ j - d = i /\ pos + j = e + i /\ pos + j <= Len(pb)
        BY <1>1, <2>3, <2>7
      <4>2. pb[pos + j] = FrameByte(k, bar, j)
        <5>1. Offset(records, k - 1) = pos
          BY <1>1, <2>1
        <5>2. Offset(records, k - 1) + j <= Len(pb) => pb[Offset(records, k - 1) + j] = FrameByte(k, records[k], j)
          <6> HIDE DEF j, e
          <6> QED
            BY <1>1, <2>1, <4>1 DEF Framed
        <5> HIDE DEF j, e
        <5> QED
          BY <4>1, <5>1, <5>2, Zenon DEF bar
      <4>3. FrameByte(k, bar, j) = body[i]
        <5> HIDE DEF j
        <5> QED
          BY <4>1, Zenon DEF FrameByte, d, size
      <4> QED
        BY <4>1, <4>2, <4>3
    <3>5. bytes = body
      <4>1. SubSeq(pb, e + 1, e + Len(body)) = body
        <5>1. e + Len(body) <= Len(pb) /\ \A i \in 1 .. Len(body) : pb[e + i] = body[i]
          BY <2>7, <3>3, <3>4
        <5> HIDE DEF e, body
        <5> QED
          BY <1>1, <3>1, <3>3, <5>1, BodyIsRead
      <4> QED
        BY <3>2, <3>3, <4>1
    <3> HIDE DEF bytes, end, last, e
    <3>6. ParsedFrom(bytes) = {k}
      <4>1. k \in ParsedFrom(bytes)
        BY <1>1, <2>1, <3>5 DEF ParsedFrom, bar
      <4>2. ASSUME NEW i \in ParsedFrom(bytes) PROVE i = k
        <5>1. i \in 1 .. Len(records) /\ bytes = Body(i, records[i])
          BY <1>1 DEF ParsedFrom
        <5>2. records[i] \in BarRecord /\ i \in Nat
          BY <1>1, <5>1
        <5>3. Body(i, records[i]) = Body(k, bar)
          BY <3>5, <5>1
        <5> QED
          BY <2>1, <2>2, <5>2, <5>3, BodiesDiffer, Zenon
      <4> QED
        BY <4>1, <4>2
    <3>7. ~(last > Len(pb)) /\ end # 0 /\ last = Offset(records, k) /\ Offset(records, k) <= Len(pb)
      BY <1>1, <2>3, <2>7, <3>1, <3>2 DEF e
    <3>8. proto' = [proto EXCEPT !.pos = last, !.bars = Append(@, records[k])]
      BY <1>2, <3>6, <3>7
    <3> QED
      BY <2>1, <3>7, <3>8 DEF k
  <2> QED
    <3>1. pos + d + size <= Len(pb) => pos + d <= Len(pb)
      BY <1>1, <2>3
    <3> QED
      BY <2>5, <2>6, <2>7
<1> QED
  BY <1>3, <1>4

LEMMA ReadsInit == Init => ReadsRecords
<1> SUFFICES ASSUME Init PROVE ReadsRecords
  OBVIOUS
<1>1. /\ records = <<>> /\ pb = <<>> /\ proto = [pos |-> 0, bars |-> <<>>, ended |-> FALSE]
      /\ conv.status = "converting"
  BY DEF Init
<1>2. records \in Seq(BarRecord) /\ Len(records) = 0 /\ Len(pb) = 0 /\ Len(proto.bars) = 0
  BY <1>1
<1>3. Offset(records, 0) = 0
  BY SumOverNothing DEF Offset
<1>4. Framed(records, pb)
  BY <1>2, <1>3 DEF Framed
<1> QED
  BY <1>1, <1>2, <1>3, <1>4 DEF ReadsRecords

LEMMA ReadsConvert == Inv /\ ReadsRecords /\ Convert => ReadsRecords'
<1> SUFFICES ASSUME Inv, ReadsRecords, Convert PROVE ReadsRecords'
  OBVIOUS
<1> DEFINE row == file.rows[conv.row + 1]
           bar == PyBar(row)
<1>1. /\ UNCHANGED <<file, csv, proto>> /\ conv.status = "converting"
      /\ proto.bars = <<>> /\ ~proto.ended /\ Len(proto.bars) = 0
      /\ Len(pb) = Offset(records, Len(records)) /\ Framed(records, pb)
      /\ records \in Seq(BarRecord) /\ pb \in Seq(Byte) /\ proto.pos = Offset(records, 0)
  BY DEF Convert, ReadsRecords, Inv
<1>2. row \in Seq(Field)
  BY FilesHaveFields DEF Inv, Convert
<1>3. CASE Skips(row) \/ Raises(row)
  <2>1. UNCHANGED <<records, pb>>
    BY <1>3, Zenon DEF Convert
  <2> QED
    BY <1>1, <2>1 DEF ReadsRecords
<1>4. CASE ~(Skips(row) \/ Raises(row))
  <2>1. /\ records' = Append(records, bar)
        /\ pb' = pb \o Varint(Size(bar)) \o Body(Len(records'), bar)
    BY <1>4, Zenon DEF Convert
  <2>2. bar \in BarRecord
    BY <1>2, <1>4, PyBarIsBar
  <2> HIDE DEF row, bar
  <2>3. Framed(records', pb') /\ Len(pb') = Offset(records', Len(records'))
    BY <1>1, <2>1, <2>2, FramedAppend
  <2>4. Offset(records', 0) = Offset(records, 0)
    BY <1>1, <2>1, <2>2, OffsetsKept
  <2>5. 0 <= Len(records')
    BY <1>1, <2>1, <2>2
  <2> QED
    BY <1>1, <2>3, <2>4, <2>5 DEF ReadsRecords
<1> QED
  BY <1>3, <1>4

LEMMA ReadsCut == Inv /\ ReadsRecords /\ Cut => ReadsRecords' /\ proto.bars = <<>>
<1> SUFFICES ASSUME Inv, ReadsRecords, Cut PROVE ReadsRecords' /\ proto.bars = <<>>
  OBVIOUS
<1> DEFINE n == Len(proto.bars)
<1>1. /\ UNCHANGED <<file, csv, records, proto>> /\ conv' = [conv EXCEPT !.status = "cut"]
      /\ proto.pos = 0 /\ ~proto.ended
      /\ records \in Seq(BarRecord) /\ pb \in Seq(Byte) /\ Framed(records, pb)
      /\ n \in 0 .. Len(records) /\ Offset(records, n) = 0 /\ proto.bars \in Seq(BarRecord)
  BY DEF Cut, Inv, ReadsRecords
<1>2. PICK m \in 0 .. Len(pb) : pb' = SubSeq(pb, 1, m)
  BY DEF Cut
<1>3. Framed(records, pb')
  BY <1>1, <1>2, FramedCut
<1>4. n = 0
  <2>1. CASE n # 0
    <3>1. n \in 1 .. Len(records) /\ n - 1 \in 0 .. Len(records)
      BY <1>1, <2>1
    <3> HIDE DEF n
    <3>2. Offset(records, n - 1) < Offset(records, n) /\ Offset(records, n - 1) \in Nat
      BY <1>1, <3>1, OffsetNext, OffsetsAreNat
    <3> QED
      BY <1>1, <3>2
  <2> QED
    BY <2>1
<1>5. proto.bars = <<>> /\ conv'.status = "cut"
  BY <1>1, <1>4 DEF Inv
<1> QED
  BY <1>1, <1>3, <1>5 DEF ReadsRecords

LEMMA ReadsStreamProto == Inv /\ ReadsRecords /\ StreamProto => ReadsRecords'
<1> SUFFICES ASSUME Inv, ReadsRecords, StreamProto PROVE ReadsRecords'
  OBVIOUS
<1> DEFINE n == Len(proto.bars)
<1>1. /\ UNCHANGED <<file, csv, conv, records, pb>> /\ conv.status # "converting" /\ ~proto.ended
      /\ records \in Seq(BarRecord) /\ n \in 0 .. Len(records) /\ proto.bars \in Seq(BarRecord)
      /\ proto \in [pos : 0 .. Len(pb), bars : Seq(BarRecord), ended : BOOLEAN]
      /\ \A i \in 1 .. n : proto.bars[i] = records[i]
  <2>1. UNCHANGED <<file, csv, conv, records, pb>> /\ conv.status # "converting" /\ ~proto.ended
    BY DEF StreamProto
  <2>2. /\ records \in Seq(BarRecord)
        /\ proto \in [pos : 0 .. Len(pb), bars : Seq(BarRecord), ended : BOOLEAN]
    BY DEF Inv
  <2>3. n \in Nat /\ Len(records) \in Nat /\ proto.bars \in Seq(BarRecord)
    BY <2>2
  <2>4. n <= Len(records) /\ \A i \in 1 .. n : proto.bars[i] = records[i]
    BY DEF ReadsRecords
  <2> QED
    BY <2>1, <2>2, <2>3, <2>4
<1>2. CASE /\ n = Len(records) \/ Len(pb) < Offset(records, n + 1)
           /\ proto' = [proto EXCEPT !.ended = TRUE]
  <2>1. proto'.bars = proto.bars /\ proto'.pos = proto.pos
    BY <1>1, <1>2
  <2> QED
    BY <1>1, <1>2, <2>1 DEF ReadsRecords
<1>3. CASE /\ n < Len(records) /\ Offset(records, n + 1) <= Len(pb)
           /\ proto' = [proto EXCEPT !.pos = Offset(records, n + 1),
                                     !.bars = Append(@, records[n + 1])]
  <2>1. /\ proto'.bars = Append(proto.bars, records[n + 1])
        /\ proto'.pos = Offset(records, n + 1) /\ proto'.ended = proto.ended
    BY <1>1, <1>3
  <2>2. records[n + 1] \in BarRecord
    BY <1>1, <1>3
  <2>3. /\ Len(proto'.bars) = n + 1 /\ n + 1 <= Len(records)
        /\ \A i \in 1 .. n + 1 : proto'.bars[i] = records[i]
    BY <1>1, <1>3, <2>1, <2>2
  <2> QED
    BY <1>1, <2>1, <2>3 DEF ReadsRecords
<1> QED
  BY <1>2, <1>3, NextRecord

LEMMA ReadsNext == Inv /\ ReadsRecords /\ [Next]_vars => ReadsRecords'
<1>1. ASSUME ReadsRecords, UNCHANGED <<records, pb, proto, conv>> PROVE ReadsRecords'
  BY <1>1 DEF ReadsRecords
<1>2. ASSUME ReadsRecords, Converted PROVE ReadsRecords'
  <2>1. /\ UNCHANGED <<records, pb, proto>> /\ conv.status = "converting"
        /\ conv' = [conv EXCEPT !.status = "done"]
    BY <1>2 DEF Converted
  <2> QED
    BY <1>2, <2>1 DEF ReadsRecords
<1> QED
  BY <1>1, <1>2, ReadsConvert, ReadsCut, ReadsStreamProto DEF Next, AllRead, StreamCsv, vars

-----------------------------------------------------------------------------
(* ProtoDataHandler delivers the whole records, and ends *)

\* The records that can be recovered are the first, up to one that is cut.
LEMMA RecoverableIs ==
  ASSUME records \in Seq(BarRecord), Len(pb) \in Nat
  PROVE  \E w \in 0 .. Len(records) :
           /\ Recoverable = SubSeq(records, 1, w)
           /\ \A k \in 1 .. Len(records) : Offset(records, k) <= Len(pb) <=> k <= w
<1> DEFINE N == Len(records)
           Whole == { k \in 1 .. N : Offset(records, k) <= Len(pb) }
<1>1. N \in Nat /\ Whole \in SUBSET (1 .. N) /\ DOMAIN records = 1 .. N
  OBVIOUS
<1>2. Recoverable = SubSeq(records, 1, Cardinality(Whole))
  BY <1>1, Zenon DEF Recoverable, Offset, Lengths
<1>3. \E w \in 0 .. N : Whole = 1 .. w
  <2>1. CASE Whole = {}
    <3>1. 0 \in 0 .. N /\ Whole = 1 .. 0
      BY <1>1, <2>1
    <3> QED
      BY <3>1
  <2>2. CASE Whole # {}
    <3> DEFINE w == Max(Whole)
    <3>1. w \in Whole /\ \A y \in Whole : w >= y
      <4> HIDE DEF Whole, N
      <4> QED
        BY <1>1, <2>2, MaxIsGreatest
    <3> HIDE DEF w
    <3>2. w \in 1 .. N /\ Offset(records, w) <= Len(pb)
      BY <3>1
    <3>3. ASSUME NEW k \in 1 .. w PROVE k \in Whole
      <4>1. k \in 1 .. N /\ k \in 0 .. N /\ w \in 0 .. N /\ k <= w
        BY <3>2
      <4>2. Offset(records, k) <= Offset(records, w) /\ Offset(records, k) \in Nat /\ Offset(records, w) \in Nat
        BY <4>1, OffsetsGrow, OffsetsAreNat
      <4>3. Offset(records, k) <= Len(pb)
        BY <3>2, <4>2
      <4> QED
        BY <4>1, <4>3
    <3>4. ASSUME NEW k \in Whole PROVE k \in 1 .. w
      BY <3>1, <3>2
    <3>5. Whole = 1 .. w
      <4> HIDE DEF Whole
      <4> QED
        BY <3>3, <3>4
    <3> QED
      BY <3>2, <3>5
  <2> QED
    BY <2>1, <2>2
<1>4. PICK w \in 0 .. N : Whole = 1 .. w
  BY <1>3
<1>5. Cardinality(1 .. w) = w
  <2>1. 1 \in Int /\ w \in Int /\ 1 <= w + 1 /\ w - 1 + 1 = w
    OBVIOUS
  <2>2. Cardinality(1 .. w) = IF 1 > w THEN 0 ELSE w - 1 + 1
    BY FS_Interval
  <2> QED
    BY <2>1, <2>2
<1>6. Recoverable = SubSeq(records, 1, w)
  <2> HIDE DEF Whole
  <2> QED
    BY <1>2, <1>4, <1>5
<1>7. ASSUME NEW k \in 1 .. N PROVE Offset(records, k) <= Len(pb) <=> k <= w
  <2>1. Offset(records, k) <= Len(pb) <=> k \in Whole
    OBVIOUS
  <2>2. k \in 1 .. w <=> k <= w
    OBVIOUS
  <2> HIDE DEF Whole
  <2> QED
    BY <1>4, <2>1, <2>2
<1> QED
  BY <1>6, <1>7

LEMMA RecoverableRemains == UNCHANGED <<records, pb>> => Recoverable' = Recoverable
BY DEF Recoverable

\* ProtoDataHandler implements Feed, whatever the base of the varints, the
\* sizes of the records, and wherever the file is cut: it delivers the records
\* that are wholly in the file, each once and in order, and then ends.
THEOREM Refinement == Spec => ImplementsFeed
<1>1. Init => Source!Init
  BY DEF Init, Source!Init
<1>2. ASSUME Inv, ReadsRecords, [Next]_vars
      PROVE  [Source!Next]_Source!vars
  <2>1. CASE UNCHANGED <<records, pb, proto>>
    BY <2>1, RecoverableRemains DEF Source!vars
  <2>2. CASE Convert \/ Cut
    <3>1. UNCHANGED proto /\ proto.bars = <<>> /\ ~proto.ended
      BY <1>2, <2>2, ReadsCut DEF Convert, Cut, ReadsRecords
    <3> QED
      BY <3>1 DEF Source!Next, Source!Supply
  <2>3. CASE StreamProto
    <3> DEFINE n == Len(proto.bars)
    <3>1. /\ UNCHANGED <<file, csv, conv, records, pb>> /\ ~proto.ended
          /\ records \in Seq(BarRecord) /\ Len(pb) \in Nat
          /\ n \in 0 .. Len(records) /\ Offset(records, n) <= Len(pb)
          /\ proto \in [pos : 0 .. Len(pb), bars : Seq(BarRecord), ended : BOOLEAN]
      <4>1. UNCHANGED <<file, csv, conv, records, pb>> /\ ~proto.ended
        BY <2>3 DEF StreamProto
      <4>2. /\ records \in Seq(BarRecord) /\ Len(pb) \in Nat
            /\ proto \in [pos : 0 .. Len(pb), bars : Seq(BarRecord), ended : BOOLEAN]
        BY <1>2 DEF Inv
      <4>3. n \in Nat /\ Len(records) \in Nat /\ proto.pos <= Len(pb)
        BY <4>2
      <4>4. n <= Len(records) /\ Offset(records, n) = proto.pos
        BY <1>2 DEF ReadsRecords
      <4> QED
        BY <4>1, <4>2, <4>3, <4>4
    <3>2. PICK w \in 0 .. Len(records) :
            /\ Recoverable = SubSeq(records, 1, w)
            /\ \A k \in 1 .. Len(records) : Offset(records, k) <= Len(pb) <=> k <= w
      BY <3>1, RecoverableIs
    <3>3. Len(Recoverable) = w /\ \A i \in 1 .. w : Recoverable[i] = records[i]
      BY <3>1, <3>2
    <3>4. n <= w
      <4>1. CASE n = 0
        BY <3>2, <4>1
      <4>2. CASE n # 0
        <5>1. n \in 1 .. Len(records)
          BY <3>1, <4>2
        <5> HIDE DEF n
        <5> QED
          BY <3>1, <3>2, <5>1
      <4> QED
        BY <4>1, <4>2
    <3>5. UNCHANGED Recoverable
      BY <3>1, RecoverableRemains
    <3>6. CASE /\ n = Len(records) \/ Len(pb) < Offset(records, n + 1)
               /\ proto' = [proto EXCEPT !.ended = TRUE]
      <4>1. n = w
        <5>1. CASE n = Len(records)
          BY <3>2, <3>4, <5>1
        <5>2. CASE n # Len(records)
          <6> DEFINE k == n + 1
          <6>1. k \in 1 .. Len(records) /\ k \in 0 .. Len(records)
            BY <3>1, <5>2
          <6> HIDE DEF k
          <6>2. Offset(records, k) \in Nat
            BY <3>1, <6>1, OffsetsAreNat
          <6>3. ~(Offset(records, k) <= Len(pb))
            BY <3>1, <3>6, <5>2, <6>2 DEF k
          <6>4. ~(k <= w)
            BY <3>2, <6>1, <6>3
          <6> QED
            BY <3>1, <3>4, <6>4 DEF k
        <5> QED
          BY <5>1, <5>2
      <4>2. proto'.bars = proto.bars /\ proto'.ended = TRUE
        BY <3>1, <3>6
      <4>3. Source!End
        BY <3>3, <3>5, <4>1, <4>2 DEF Source!End
      <4> QED
        BY <4>3 DEF Source!Next
    <3>7. CASE /\ n < Len(records) /\ Offset(records, n + 1) <= Len(pb)
               /\ proto' = [proto EXCEPT !.pos = Offset(records, n + 1),
                                         !.bars = Append(@, records[n + 1])]
      <4>1. n + 1 <= w
        <5>1. n + 1 \in 1 .. Len(records)
          BY <3>1, <3>7
        <5> QED
          BY <3>2, <3>7, <5>1
      <4>2. proto'.bars = Append(proto.bars, records[n + 1]) /\ proto'.ended = proto.ended
        BY <3>1, <3>7
      <4>3. Recoverable[n + 1] = records[n + 1] /\ n < Len(Recoverable)
        BY <3>1, <3>3, <4>1
      <4>4. Source!Deliver
        BY <3>1, <3>5, <4>2, <4>3 DEF Source!Deliver
      <4> QED
        BY <4>4 DEF Source!Next
    <3> QED
      BY <1>2, <2>3, <3>6, <3>7, NextRecord
  <2> QED
    BY <1>2, <2>1, <2>2, <2>3 DEF Next, AllRead, StreamCsv, Converted, vars
<1>3. Spec => [](Inv /\ ReadsRecords)
  BY InvInit, InvNext, ReadsInit, ReadsNext, PTL DEF Spec
<1> QED
  BY <1>1, <1>2, <1>3, PTL DEF Spec, ImplementsFeed, Source!Spec

-----------------------------------------------------------------------------
(* The two paths agree *)

\* The well-formed ones of the first n rows.
KeptTo(n) == { i \in 1 .. n : WellFormed(file.rows[i]) }

\* The inductive invariant of the conversion: one record for each of them, the
\* k-th for the k-th.
ConvertsRows ==
    /\ csv.ended => csv.line = Len(file.rows)
    /\ conv.status = "done" => conv.row = Len(file.rows)
    /\ SaneHeader =>
         /\ Len(records) = Cardinality(KeptTo(conv.row))
         /\ \A i \in KeptTo(conv.row) :
              records[Cardinality(KeptTo(i))] = PyBar(file.rows[i])

LEMMA KeptCount ==
  ASSUME NEW n \in Nat
  PROVE  /\ IsFiniteSet(KeptTo(n)) /\ Cardinality(KeptTo(n)) \in Nat
         /\ \A i \in KeptTo(n) : /\ Cardinality(KeptTo(i)) \in 1 .. Cardinality(KeptTo(n))
                                 /\ KeptTo(i) = { j \in KeptTo(n) : j <= i }
<1>1. IsFiniteSet(1 .. n) /\ KeptTo(n) \in SUBSET (1 .. n)
  BY FS_Interval DEF KeptTo
<1>2. IsFiniteSet(KeptTo(n)) /\ Cardinality(KeptTo(n)) \in Nat
  BY <1>1, FS_Subset, FS_CardinalityType
<1>3. ASSUME NEW i \in KeptTo(n)
      PROVE  /\ Cardinality(KeptTo(i)) \in 1 .. Cardinality(KeptTo(n))
             /\ KeptTo(i) = { j \in KeptTo(n) : j <= i }
  <2>1. i \in 1 .. n /\ i \in KeptTo(i) /\ KeptTo(i) \in SUBSET KeptTo(n)
    BY DEF KeptTo
  <2>2. KeptTo(i) = { j \in KeptTo(n) : j <= i }
    BY <2>1 DEF KeptTo
  <2>3. IsFiniteSet(KeptTo(i)) /\ Cardinality(KeptTo(i)) <= Cardinality(KeptTo(n))
    BY <1>2, <2>1, FS_Subset
  <2>4. Cardinality(KeptTo(i)) \in Nat /\ Cardinality(KeptTo(i)) # 0
    BY <2>1, <2>3, FS_CardinalityType, FS_EmptySet
  <2> QED
    BY <1>2, <2>2, <2>3, <2>4
<1> QED
  BY <1>2, <1>3

LEMMA KeptNext ==
  ASSUME NEW n \in Nat
  PROVE  Cardinality(KeptTo(n + 1)) =
           IF WellFormed(file.rows[n + 1]) THEN Cardinality(KeptTo(n)) + 1
           ELSE Cardinality(KeptTo(n))
<1>1. IsFiniteSet(KeptTo(n)) /\ ~(n + 1 \in KeptTo(n))
  BY KeptCount DEF KeptTo
<1>2. CASE WellFormed(file.rows[n + 1])
  <2>1. KeptTo(n + 1) = KeptTo(n) \cup {n + 1}
    BY <1>2 DEF KeptTo
  <2> QED
    BY <1>1, <1>2, <2>1, FS_AddElement
<1>3. CASE ~WellFormed(file.rows[n + 1])
  <2>1. KeptTo(n + 1) = KeptTo(n)
    BY <1>3 DEF KeptTo
  <2> QED
    BY <1>3, <2>1
<1> QED
  BY <1>2, <1>3

\* Under a sane header the converter takes the well-formed rows.
LEMMA TakesWellFormed ==
  ASSUME file \in Files, SaneHeader, NEW row
  PROVE  ~(Skips(row) \/ Raises(row)) <=> WellFormed(row)
<1>1. \A kind \in Kind : PyColumn(kind) # 0
  <2> SUFFICES ASSUME NEW kind \in Kind PROVE PyColumn(kind) # 0
    OBVIOUS
  <2>1. PyColumn(kind) \in 1 .. Len(file.header) /\ Len(file.header) \in Nat
    BY OneColumn, NamedAreColumns DEF SaneHeader
  <2> QED
    BY <2>1
<1>2. PyColumn("date") # 0 /\ PyColumn("open") # 0 /\ PyColumn("close") # 0
  BY <1>1 DEF Kind
<1>3. HasField(row, "date") => row # <<>>
  BY DEF HasField
<1> QED
  BY <1>2, <1>3, Zenon DEF Skips, Raises, WellFormed

\* Of a well-formed row both paths make the same bar, but for a date that is
\* no number.
LEMMA SameBar ==
  ASSUME file \in Files, SaneHeader, NEW row \in Seq(Field), WellFormed(row)
  PROVE  PyBar(row) = IF Parses(row, "date") THEN CsvBar(row)
                      ELSE [CsvBar(row) EXCEPT !.timestamp = 0]
<1>1. "date" \in Kind /\ "open" \in Kind /\ "close" \in Kind
  BY DEF Kind
<1>2. \A kind \in Kind : CsvColumn(kind) = PyColumn(kind) /\ PyColumn(kind) \in Nat \ {0}
  <2> SUFFICES ASSUME NEW kind \in Kind
               PROVE  CsvColumn(kind) = PyColumn(kind) /\ PyColumn(kind) \in Nat \ {0}
    OBVIOUS
  <2>1. CsvColumn(kind) = PyColumn(kind) /\ PyColumn(kind) \in 1 .. Len(file.header) /\ Len(file.header) \in Nat
    BY OneColumn, NamedAreColumns DEF SaneHeader
  <2> QED
    BY <2>1
<1>3. /\ PyColumn("date") \in 1 .. Len(row) /\ PyColumn("open") \in 1 .. Len(row)
      /\ PyColumn("close") \in 1 .. Len(row) /\ row # <<>> /\ Len(row) \in Nat
  BY DEF WellFormed, HasField, Parses
<1>4. \A kind \in Kind : CsvColumn(kind) <= Len(row)
  BY <1>2, <1>3 DEF Kind
<1>5. CsvBar(row) = [timestamp |-> CsvTimestamp(row[PyColumn("date")]),
                     open |-> Leading(row[PyColumn("open")]),
                     close |-> Leading(row[PyColumn("close")])]
  BY <1>1, <1>2, <1>3, <1>4, Zenon DEF CsvBar
<1>6. PyBar(row) = [timestamp |-> IF Parses(row, "date") THEN row[PyColumn("date")].n ELSE 0,
                    open |-> row[PyColumn("open")].n, close |-> row[PyColumn("close")].n]
  <2>1. PyColumn("open") # 0
    BY <1>3
  <2> QED
    BY <2>1, Zenon DEF PyBar
<1>7. row[PyColumn("open")].sort = "number" /\ row[PyColumn("close")].sort = "number"
  BY DEF WellFormed, Parses
<1>8. \A f : f.sort = "number" => Leading(f) = f.n /\ CsvTimestamp(f) = f.n
  BY DEF Leading, CsvTimestamp
<1>9. Parses(row, "date") => row[PyColumn("date")].sort = "number"
  BY DEF Parses
<1> QED
  BY <1>5, <1>6, <1>7, <1>8, <1>9

LEMMA RowsInit == Init => ConvertsRows
<1> SUFFICES ASSUME Init PROVE ConvertsRows
  OBVIOUS
<1>1. KeptTo(0) = {}
  BY DEF KeptTo
<1>2. Cardinality(KeptTo(0)) = 0
  BY <1>1, FS_EmptySet
<1> QED
  BY <1>1, <1>2 DEF Init, ConvertsRows

LEMMA RowsRemain ==
  ASSUME UNCHANGED file
  PROVE  /\ SaneHeader' = SaneHeader
         /\ \A n : KeptTo(n)' = KeptTo(n)
         /\ \A row : PyBar(row)' = PyBar(row)
<1>1. \A kind : Named(kind)' = Named(kind)
  BY DEF Named
<1>2. \A kind : PyColumn(kind)' = PyColumn(kind)
  BY <1>1, Zenon DEF PyColumn
<1>3. \A row, kind : HasField(row, kind)' = HasField(row, kind) /\ Parses(row, kind)' = Parses(row, kind)
  BY <1>2, Zenon DEF HasField, Parses
<1>4. \A row : WellFormed(row)' = WellFormed(row)
  BY <1>3, Zenon DEF WellFormed
<1>5. \A n : KeptTo(n)' = KeptTo(n)
  BY <1>4 DEF KeptTo
<1>6. SaneHeader' = SaneHeader
  BY <1>1, Zenon DEF SaneHeader
<1>7. \A row : PyBar(row)' = PyBar(row)
  BY <1>2, <1>3, Zenon DEF PyBar
<1> QED
  BY <1>5, <1>6, <1>7

LEMMA RowsConvert == Inv /\ ConvertsRows /\ Convert => ConvertsRows'
<1> SUFFICES ASSUME Inv, ConvertsRows, Convert PROVE ConvertsRows'
  OBVIOUS
<1> DEFINE n == conv.row
           row == file.rows[n + 1]
           bar == PyBar(row)
           count == Cardinality(KeptTo(n))
<1>1. /\ UNCHANGED <<file, csv, proto>> /\ conv.status = "converting" /\ n \in Nat
      /\ n < Len(file.rows) /\ file \in Files /\ records \in Seq(BarRecord)
  <2>1. UNCHANGED <<file, csv, proto>> /\ conv.status = "converting" /\ n < Len(file.rows)
    BY DEF Convert
  <2>2. n \in Nat /\ file \in Files /\ records \in Seq(BarRecord)
    BY FilesHaveFields DEF Inv
  <2> QED
    BY <2>1, <2>2
<1>2. IF Skips(row) \/ Raises(row)
        THEN /\ conv' = [row |-> n + 1, status |-> IF Raises(row) THEN "failed" ELSE "converting"]
             /\ UNCHANGED <<records, pb>>
        ELSE /\ records' = Append(records, bar)
             /\ conv' = [conv EXCEPT !.row = @ + 1]
  BY Zenon DEF Convert
<1>3. conv'.row = n + 1 /\ conv'.status # "done"
  <2>1. CASE Skips(row) \/ Raises(row)
    <3>1. conv' = [row |-> n + 1, status |-> IF Raises(row) THEN "failed" ELSE "converting"]
      BY <1>2, <2>1
    <3> QED
      BY <3>1
  <2>2. CASE ~(Skips(row) \/ Raises(row))
    <3>1. conv' = [conv EXCEPT !.row = n + 1]
      BY <1>2, <2>2
    <3>2. conv' = [row |-> n + 1, status |-> "converting"]
      BY <1>1, <3>1 DEF Inv
    <3> QED
      BY <3>2
  <2> QED
    BY <2>1, <2>2
<1>4. ASSUME SaneHeader
      PROVE  /\ Len(records') = Cardinality(KeptTo(n + 1))
             /\ \A i \in KeptTo(n + 1) : records'[Cardinality(KeptTo(i))] = PyBar(file.rows[i])
  <2>1. /\ Len(records) = count
        /\ \A i \in KeptTo(n) : records[Cardinality(KeptTo(i))] = PyBar(file.rows[i])
    BY <1>4 DEF ConvertsRows
  <2>2. ~(Skips(row) \/ Raises(row)) <=> WellFormed(row)
    BY <1>1, <1>4, TakesWellFormed
  <2>3. CASE ~WellFormed(row)
    <3>1. records' = records
      BY <1>2, <2>2, <2>3
    <3>2. KeptTo(n + 1) = KeptTo(n)
      BY <1>1, <2>3 DEF KeptTo
    <3> QED
      BY <2>1, <3>1, <3>2
  <2>4. CASE WellFormed(row)
    <3>1. records' = Append(records, bar)
      BY <1>2, <2>2, <2>4
    <3>2. Cardinality(KeptTo(n + 1)) = count + 1
      BY <1>1, <2>4, KeptNext
    <3> DEFINE placed(i) == Cardinality(KeptTo(i))
    <3>3. \A i \in KeptTo(n) : placed(i) \in 1 .. count
      BY <1>1, KeptCount
    <3>4. \A i \in KeptTo(n + 1) : i = n + 1 \/ i \in KeptTo(n)
      BY <1>1 DEF KeptTo
    <3>5. Len(records) = count /\ count \in Nat
      BY <1>1, <2>1
    <3> HIDE DEF count, bar, placed
    <3>6. Len(records') = count + 1 /\ records'[count + 1] = bar
          /\ \A k \in 1 .. count : records'[k] = records[k]
      BY <1>1, <3>1, <3>5
    <3>7. ASSUME NEW i \in KeptTo(n + 1) PROVE records'[placed(i)] = PyBar(file.rows[i])
      <4>1. CASE i = n + 1
        <5>1. placed(i) = count + 1
          BY <3>2, <4>1 DEF placed
        <5> QED
          BY <3>6, <4>1, <5>1 DEF bar
      <4>2. CASE i \in KeptTo(n)
        <5>1. records'[placed(i)] = records[placed(i)]
          BY <3>3, <3>6, <4>2
        <5> QED
          BY <2>1, <4>2, <5>1 DEF placed
      <4> QED
        BY <3>4, <4>1, <4>2
    <3> QED
      BY <3>2, <3>6, <3>7 DEF placed
  <2> QED
    BY <2>3, <2>4
<1> HIDE DEF bar, row, n, count
<1>5. csv'.ended => csv'.line = Len(file'.rows)
  BY <1>1 DEF ConvertsRows
<1>6. SaneHeader' =>
        /\ Len(records') = Cardinality(KeptTo(conv'.row))
        /\ \A i \in KeptTo(conv'.row) : records'[Cardinality(KeptTo(i))] = PyBar(file.rows[i])
  BY <1>1, <1>3, <1>4, RowsRemain
<1> QED
  BY <1>1, <1>3, <1>5, <1>6, RowsRemain DEF ConvertsRows

LEMMA RowsNext == Inv /\ ConvertsRows /\ [Next]_vars => ConvertsRows'
<1> SUFFICES ASSUME Inv, ConvertsRows, [Next]_vars PROVE ConvertsRows'
  OBVIOUS
<1>1. CASE UNCHANGED <<file, records>> /\ conv'.row = conv.row
           /\ (csv'.ended => csv'.line = Len(file.rows))
           /\ (conv'.status = "done" => conv.row = Len(file.rows))
  BY <1>1, RowsRemain DEF ConvertsRows
<1>2. CASE StreamCsv
  <2>1. UNCHANGED <<file, conv, records, pb, proto>>
    BY <1>2 DEF StreamCsv
  <2>2. csv'.ended => csv'.line = Len(file.rows)
    <3>1. ~csv.ended /\ csv.line \in 0 .. Len(file.rows) /\ Len(file.rows) \in Nat
          /\ csv \in [line : 0 .. Len(file.rows), bars : Seq(BarRecord), ended : BOOLEAN]
      BY <1>2, FilesHaveFields DEF StreamCsv, Inv
    <3>2. CASE csv.line < Len(file.rows)
      <4>1. csv'.ended = csv.ended
        BY <1>2, <3>1, <3>2 DEF StreamCsv
      <4> QED
        BY <3>1, <4>1
    <3>3. CASE ~(csv.line < Len(file.rows))
      <4>1. csv' = [csv EXCEPT !.ended = TRUE]
        BY <1>2, <3>3 DEF StreamCsv
      <4>2. csv'.line = csv.line
        BY <3>1, <4>1
      <4> QED
        BY <3>1, <3>3, <4>2
    <3> QED
      BY <3>2, <3>3
  <2> QED
    BY <1>1, <2>1, <2>2 DEF ConvertsRows
<1>3. CASE Convert
  BY <1>3, RowsConvert
<1>4. CASE Converted
  <2>1. UNCHANGED <<file, csv, records, pb, proto>> /\ conv'.row = conv.row /\ conv.row = Len(file.rows)
    BY <1>4 DEF Converted, Inv
  <2> QED
    BY <1>1, <2>1 DEF ConvertsRows
<1>5. CASE Cut
  <2>1. UNCHANGED <<file, csv, records, proto>> /\ conv'.row = conv.row /\ conv'.status = "cut"
    BY <1>5 DEF Cut, Inv
  <2> QED
    BY <1>1, <2>1 DEF ConvertsRows
<1>6. CASE StreamProto
  <2>1. UNCHANGED <<file, csv, conv, records, pb>>
    BY <1>6 DEF StreamProto
  <2> QED
    BY <1>1, <2>1 DEF ConvertsRows
<1>7. CASE UNCHANGED vars
  BY <1>1, <1>7 DEF ConvertsRows, vars
<1> QED
  BY <1>2, <1>3, <1>4, <1>5, <1>6, <1>7 DEF Next, AllRead

\* Of every file whose header names each kind of column once, the .pb file
\* delivers the well-formed rows' bars, each in its place and as DataHandler
\* delivers it, but for a date that is no number; and all of them, if the
\* converter got to its end.
THEOREM PathsAlwaysAgree == Spec => []PathsAgree
<1>1. Inv /\ ReadsRecords /\ ConvertsRows => PathsAgree
  <2> SUFFICES ASSUME Inv, ReadsRecords, ConvertsRows, SaneHeader, csv.ended PROVE PathsAgree
    BY DEF PathsAgree
  <2> DEFINE N == Len(file.rows)
             rows == file.rows
             Kept == { i \in DOMAIN rows : WellFormed(rows[i]) }
             Place(i) == Cardinality({ j \in Kept : j <= i })
             Bar(i) == IF Parses(rows[i], "date") THEN csv.bars[i]
                       ELSE [csv.bars[i] EXCEPT !.timestamp = 0]
             read == Len(proto.bars)
             r == conv.row
  <2>1. /\ file \in Files /\ N \in Nat /\ DOMAIN rows = 1 .. N /\ r \in 0 .. N
        /\ \A i \in 1 .. N : rows[i] \in Seq(Field)
    <3>1. file \in Files /\ r \in 0 .. N
      BY DEF Inv
    <3> QED
      BY <3>1, FilesHaveFields
  <2>2. /\ csv.line = N /\ DOMAIN csv.bars = 1 .. N
        /\ \A i \in 1 .. N : csv.bars[i] = CsvBar(rows[i])
    BY DEF Inv, ConvertsRows
  <2>3. Kept = KeptTo(N)
    BY <2>1 DEF KeptTo
  <2>4. /\ Len(records) = Cardinality(KeptTo(r))
        /\ \A i \in KeptTo(r) : records[Cardinality(KeptTo(i))] = PyBar(rows[i])
        /\ read <= Len(records) /\ read \in Nat
        /\ \A i \in 1 .. read : proto.bars[i] = records[i]
    <3>1. read \in Nat
      BY DEF Inv
    <3> QED
      BY <3>1 DEF ConvertsRows, ReadsRecords
  <2>5. KeptTo(r) \in SUBSET Kept /\ Cardinality(KeptTo(r)) <= Cardinality(Kept)
        /\ Cardinality(KeptTo(r)) \in Nat /\ Cardinality(Kept) \in Nat
    <3>1. KeptTo(r) \in SUBSET KeptTo(N)
      BY <2>1 DEF KeptTo
    <3>2. IsFiniteSet(KeptTo(N)) /\ r \in Nat
      BY <2>1, KeptCount
    <3> HIDE DEF Kept, N, r
    <3> QED
      BY <2>1, <2>3, <3>1, <3>2, FS_Subset, KeptCount
  <2>6. \A i \in Kept : Place(i) = Cardinality(KeptTo(i)) /\ Place(i) \in Nat \ {0}
    <3> SUFFICES ASSUME NEW i \in KeptTo(N)
                 PROVE  Place(i) = Cardinality(KeptTo(i)) /\ Place(i) \in Nat \ {0}
      BY <2>3
    <3>1. KeptTo(i) = { j \in KeptTo(N) : j <= i } /\ Cardinality(KeptTo(i)) \in 1 .. Cardinality(KeptTo(N))
      BY <2>1, KeptCount
    <3>2. Cardinality(KeptTo(N)) \in Nat
      BY <2>1, KeptCount
    <3>3. Place(i) = Cardinality(KeptTo(i))
      BY <2>3, <3>1, Zenon
    <3> QED
      BY <3>1, <3>2, <3>3
  <2> HIDE DEF Kept, Place, Bar, read, r, rows, N
  <2>7. ASSUME NEW i \in Kept, Place(i) <= read PROVE proto.bars[Place(i)] = Bar(i)
    <3>1. i \in 1 .. N /\ WellFormed(rows[i])
      BY <2>1, <2>3 DEF KeptTo, rows
    <3>2. i \in KeptTo(r)
      <4>1. CASE i <= r
        BY <2>1, <3>1, <4>1 DEF KeptTo, rows
      <4>2. CASE ~(i <= r)
        <5>1. KeptTo(r) \in SUBSET KeptTo(i) /\ i \in KeptTo(i) /\ ~(i \in KeptTo(r))
          BY <2>1, <3>1, <4>2 DEF KeptTo, rows
        <5>2. IsFiniteSet(KeptTo(i)) /\ i \in Nat
          BY <2>1, <3>1, KeptCount
        <5>3. Cardinality(KeptTo(r)) < Cardinality(KeptTo(i))
          <6>1. Cardinality(KeptTo(r)) <= Cardinality(KeptTo(i)) /\ Cardinality(KeptTo(r)) # Cardinality(KeptTo(i))
            BY <5>1, <5>2, FS_Subset
          <6>2. Cardinality(KeptTo(r)) \in Nat /\ Cardinality(KeptTo(i)) \in Nat
            BY <2>5, <5>2, KeptCount
          <6> QED
            BY <6>1, <6>2
        <5> QED
          BY <2>4, <2>5, <2>6, <2>7, <5>3
      <4> QED
        BY <4>1, <4>2
    <3>3. proto.bars[Place(i)] = PyBar(rows[i])
      <4>1. Place(i) \in 1 .. read /\ Place(i) = Cardinality(KeptTo(i))
        BY <2>4, <2>6, <2>7
      <4> QED
        BY <2>4, <3>2, <4>1
    <3>4. PyBar(rows[i]) = IF Parses(rows[i], "date") THEN CsvBar(rows[i])
                           ELSE [CsvBar(rows[i]) EXCEPT !.timestamp = 0]
      BY <2>1, <3>1, SameBar
    <3> QED
      BY <2>2, <3>1, <3>3, <3>4 DEF Bar
  <2>8. read <= Cardinality(Kept)
    BY <2>4, <2>5
  <2>9. ASSUME proto.ended, conv.status = "done" PROVE read = Cardinality(Kept)
    <3>1. r = N
      BY <2>9 DEF ConvertsRows, r, N
    <3>2. Len(pb) = Offset(records, Len(records))
      BY <2>9 DEF ReadsRecords
    <3>3. read = Len(records)
      <4>1. CASE Len(pb) < Offset(records, read + 1) /\ read # Len(records)
        <5> DEFINE k == read + 1
        <5>1. k \in 0 .. Len(records) /\ Len(records) \in 0 .. Len(records) /\ k <= Len(records)
          BY <2>4, <2>5, <4>1
        <5>2. records \in Seq(BarRecord)
          BY DEF Inv
        <5> HIDE DEF k
        <5>3. /\ Offset(records, k) <= Offset(records, Len(records))
              /\ Offset(records, k) \in Nat /\ Offset(records, Len(records)) \in Nat
          BY <5>1, <5>2, OffsetsGrow, OffsetsAreNat
        <5> QED
          BY <3>2, <4>1, <5>3 DEF k
      <4> QED
        BY <2>9, <4>1 DEF ReadsRecords, read
    <3> QED
      BY <2>3, <2>4, <3>1, <3>3
  <2> QED
    BY <2>7, <2>8, <2>9, Zenon DEF PathsAgree, Kept, Place, Bar, read, rows
<1>2. Spec => [](Inv /\ ReadsRecords /\ ConvertsRows)
  BY InvInit, InvNext, ReadsInit, ReadsNext, RowsInit, RowsNext, PTL DEF Spec
<1> QED
  BY <1>1, <1>2, PTL

=============================================================================
