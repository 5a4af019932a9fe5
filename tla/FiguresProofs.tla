----------------------------- MODULE FiguresProofs -----------------------------
(***************************************************************************)
(* What the figures of a run compute, whatever the number of rows and      *)
(* cases: sums over rows and the ratings played case after case.           *)
(***************************************************************************)
EXTENDS VerdictsProofs, WellFoundedInduction

-----------------------------------------------------------------------------
(* Sums. *)

(* T gives every subset of S the sum of the weights w of its elements.       *)
IsSum(T, w, S) ==
  /\ T \in [SUBSET S -> Int]
  /\ T[{}] = 0
  /\ \A U \in SUBSET S : \A x \in U : T[U] = w[x] + T[U \ {x}]

(* A family of finite sets has a member with no smaller one in it.           *)
LEMMA SmallestMember ==
  ASSUME NEW S, IsFiniteSet(S), NEW F \in SUBSET SUBSET S, F # {}
  PROVE  \E U \in F : \A x \in U : U \ {x} \notin F
<1>1. IsWellFoundedOn(StrictSubsetOrdering(S), SUBSET S)
  BY FS_StrictSubsetOrderingWellFounded, FS_FiniteSubsetsOfFinite
<1>2. PICK U \in F : \A V \in F : ~ (<<V, U>> \in StrictSubsetOrdering(S))
  BY <1>1, WFMin
<1>3. ASSUME NEW x \in U, U \ {x} \in F PROVE FALSE
  BY <1>2, <1>3 DEF StrictSubsetOrdering
<1> QED BY <1>3

(* Finitely many weights can be added up in any order.                       *)
LEMMA SumExists ==
  ASSUME NEW S, IsFiniteSet(S), NEW w \in [S -> Int]
  PROVE  \E T : IsSum(T, w, S)
<1> DEFINE F == {U \in SUBSET S : ~ \E T : IsSum(T, w, U)}
<1> SUFFICES ASSUME F # {} PROVE FALSE  OBVIOUS
<1>1. PICK U \in F : \A x \in U : U \ {x} \notin F  BY SmallestMember
<1>2. CASE U = {}
  <2>1. IsSum([V \in SUBSET U |-> 0], w, U)  BY <1>2 DEF IsSum
  <2> QED BY <2>1
<1>3. CASE U # {}
  <2>1. PICK x \in U : TRUE  BY <1>3
  <2>2. PICK T : IsSum(T, w, U \ {x})  BY <1>1, <2>1
  <2> DEFINE Q == [V \in SUBSET U |-> IF x \in V THEN w[x] + T[V \ {x}] ELSE T[V]]
  <2>3. Q \in [SUBSET U -> Int] /\ Q[{}] = 0  BY <2>1, <2>2 DEF IsSum
  <2>4. ASSUME NEW V \in SUBSET U, NEW y \in V PROVE Q[V] = w[y] + Q[V \ {y}]
    <3>1. CASE y = x  BY <3>1
    <3>2. CASE y # x /\ x \in V
      <4>1. /\ Q[V] = w[x] + T[V \ {x}]
            /\ Q[V \ {y}] = w[x] + T[(V \ {y}) \ {x}]
        BY <3>2
      <4>2. T[V \ {x}] = w[y] + T[(V \ {x}) \ {y}]
        BY <2>2, <3>2 DEF IsSum
      <4>3. (V \ {x}) \ {y} = (V \ {y}) \ {x}  OBVIOUS
      <4>4. w[x] \in Int /\ w[y] \in Int /\ T[(V \ {y}) \ {x}] \in Int
        BY <2>1, <2>2, <3>2 DEF IsSum
      <4> HIDE DEF Q
      <4>5. PICK t \in Int : Q[V] = w[x] + (w[y] + t) /\ Q[V \ {y}] = w[x] + t
        BY <4>1, <4>2, <4>3, <4>4
      <4> QED BY <4>4, <4>5
    <3>3. CASE x \notin V
      <4>1. T[V] = w[y] + T[V \ {y}]
        <5>1. V \in SUBSET (U \ {x})  BY <3>3
        <5> QED BY <2>2, <5>1 DEF IsSum
      <4>2. Q[V] = T[V]  BY <3>3
      <4>3. Q[V \ {y}] = T[V \ {y}]  BY <3>3
      <4> QED BY <4>1, <4>2, <4>3
    <3> QED BY <3>1, <3>2, <3>3
  <2>5. IsSum(Q, w, U)
    <3> HIDE DEF Q
    <3> QED BY <2>3, <2>4 DEF IsSum
  <2> QED BY <2>5
<1> QED BY <1>2, <1>3

Renamed(h, U) == {h[x] : x \in U}

(* Weights that a renaming takes along give the same sums.                   *)
LEMMA SumRenamed ==
  ASSUME NEW S, IsFiniteSet(S), NEW w, NEW T, IsSum(T, w, S),
         NEW R, NEW v, NEW Q, IsSum(Q, v, R),
         NEW h, \A x \in S : h[x] \in R /\ v[h[x]] = w[x],
         \A x, y \in S : h[x] = h[y] => x = y
  PROVE  \A U \in SUBSET S : Q[Renamed(h, U)] = T[U]
<1> DEFINE Image(U) == {h[x] : x \in U}
<1> SUFFICES \A U \in SUBSET S : Q[Image(U)] = T[U]  BY DEF Renamed
<1> DEFINE F == {U \in SUBSET S : Q[Image(U)] # T[U]}
<1> SUFFICES ASSUME F # {} PROVE FALSE  OBVIOUS
<1>1. PICK U \in F : \A x \in U : U \ {x} \notin F  BY SmallestMember
<1>2. CASE U = {}  BY <1>2 DEF IsSum
<1>3. CASE U # {}
  <2>1. PICK x \in U : TRUE  BY <1>3
  <2>2. Q[Image(U \ {x})] = T[U \ {x}]  BY <1>1, <2>1
  <2>3. Image(U) \ {h[x]} = Image(U \ {x})  BY <2>1
  <2>4. Image(U) \in SUBSET R /\ h[x] \in Image(U)  BY <2>1
  <2>5. Q[Image(U)] = v[h[x]] + Q[Image(U) \ {h[x]}]  BY <2>4 DEF IsSum
  <2>6. T[U] = w[x] + T[U \ {x}]  BY <2>1 DEF IsSum
  <2> QED BY <2>1, <2>2, <2>3, <2>5, <2>6
<1> QED BY <1>2, <1>3

(* g adds up the weights of a set by picking one element after the other.    *)
AddsUp(g, pick, w, V) ==
  /\ g[{}] = 0
  /\ \A U \in SUBSET V : U # {} => pick[U] \in U /\ g[U] = w[pick[U]] + g[U \ {pick[U]}]

(* It computes the sum, whichever elements it picks.                         *)
LEMMA PickedSum ==
  ASSUME NEW V, IsFiniteSet(V), NEW S, V \subseteq S, NEW w, NEW T, IsSum(T, w, S),
         NEW g, NEW pick, AddsUp(g, pick, w, V)
  PROVE  g[V] = T[V]
<1> DEFINE F == {U \in SUBSET V : g[U] # T[U]}
<1> SUFFICES ASSUME F # {} PROVE FALSE  OBVIOUS
<1>1. PICK U \in F : \A x \in U : U \ {x} \notin F  BY SmallestMember
<1>2. CASE U = {}  BY <1>2 DEF IsSum, AddsUp
<1>3. CASE U # {}
  <2> DEFINE x == pick[U]
  <2>1. x \in U  BY <1>3 DEF AddsUp
  <2>2. g[U] = w[x] + g[U \ {x}]  BY <1>3 DEF AddsUp
  <2> HIDE DEF x
  <2>3. T[U] = w[x] + T[U \ {x}]  BY <2>1 DEF IsSum
  <2>4. g[U \ {x}] = T[U \ {x}]  BY <1>1, <2>1
  <2> QED BY <2>2, <2>3, <2>4
<1> QED BY <1>2, <1>3

(* And there is such a function.                                             *)
LEMMA SumPicks ==
  ASSUME NEW V, NEW S, V \subseteq S, NEW w, NEW T, IsSum(T, w, S)
  PROVE  LET f == [U \in SUBSET V |-> T[U]]
         IN  /\ f[{}] = 0
             /\ \A U \in SUBSET V : U # {} =>
                  /\ (CHOOSE x \in U : TRUE) \in V
                  /\ f[U] = w[CHOOSE x \in U : TRUE] + f[U \ {CHOOSE x \in U : TRUE}]
<1> DEFINE f == [U \in SUBSET V |-> T[U]]
<1>1. f[{}] = 0  BY DEF IsSum
<1>2. ASSUME NEW U \in SUBSET V, U # {}
      PROVE  /\ (CHOOSE x \in U : TRUE) \in V
             /\ f[U] = w[CHOOSE x \in U : TRUE] + f[U \ {CHOOSE x \in U : TRUE}]
  <2> DEFINE x == CHOOSE x \in U : TRUE
  <2>1. x \in U  BY <1>2
  <2> HIDE DEF x
  <2>2. T[U] = w[x] + T[U \ {x}]  BY <2>1 DEF IsSum
  <2>3. f[U] = T[U] /\ f[U \ {x}] = T[U \ {x}]  BY <2>1
  <2> HIDE DEF f
  <2>4. x \in V /\ f[U] = w[x] + f[U \ {x}]  BY <2>1, <2>2, <2>3
  <2> QED BY <2>4 DEF x
<1> QED BY <1>1, <1>2

ScoreTotal(V) == MapThenSumSet(LAMBDA r : r.score, V)
TotalA(V) == MapThenSumSet(LAMBDA r : r.a, V)
TotalB(V) == MapThenSumSet(LAMBDA r : r.b, V)

(* The scores of rows are added up as the metrics say.                       *)
LEMMA ScoresAddUp ==
  ASSUME NEW V, IsFiniteSet(V), NEW S, V \subseteq S,
         NEW w, \A r \in V : w[r] = r.score, NEW T, IsSum(T, w, S)
  PROVE  ScoreTotal(V) = T[V]
<1> DEFINE g == CHOOSE g : g = [s \in SUBSET V |->
                   IF s = {} THEN 0
                   ELSE (CHOOSE x \in s : TRUE).score + g[s \ {CHOOSE x \in s : TRUE}]]
<1>1. ScoreTotal(V) = g[V]
  BY DEF ScoreTotal, MapThenSumSet, MapThenFoldSet
<1>2. \E f : f = [s \in SUBSET V |->
               IF s = {} THEN 0
               ELSE (CHOOSE x \in s : TRUE).score + f[s \ {CHOOSE x \in s : TRUE}]]
  <2> DEFINE f == [s \in SUBSET V |-> T[s]]
  <2>1. f = [s \in SUBSET V |-> f[s]]  OBVIOUS
  <2>2. /\ f[{}] = 0
        /\ \A s \in SUBSET V : s # {} =>
             /\ (CHOOSE x \in s : TRUE) \in V
             /\ f[s] = w[CHOOSE x \in s : TRUE] + f[s \ {CHOOSE x \in s : TRUE}]
    BY SumPicks
  <2> HIDE DEF f, g
  <2>3. f = [s \in SUBSET V |->
               IF s = {} THEN 0
               ELSE (CHOOSE x \in s : TRUE).score + f[s \ {CHOOSE x \in s : TRUE}]]
    BY <2>1, <2>2
  <2> QED BY <2>3
<1>3. g = [s \in SUBSET V |->
             IF s = {} THEN 0
             ELSE (CHOOSE x \in s : TRUE).score + g[s \ {CHOOSE x \in s : TRUE}]]
  BY <1>2
<1> HIDE DEF g
<1> DEFINE pick == [U \in SUBSET V |-> CHOOSE x \in U : TRUE]
<1>4. ASSUME NEW U \in SUBSET V, U # {}
      PROVE  pick[U] \in U /\ g[U] = w[pick[U]] + g[U \ {pick[U]}]
  <2> DEFINE x == CHOOSE x \in U : TRUE
  <2>1. x \in U  BY <1>4
  <2>2. g[U] = x.score + g[U \ {x}]  BY <1>3, <1>4
  <2> HIDE DEF x
  <2>3. g[U] = w[x] + g[U \ {x}]  BY <2>1, <2>2
  <2> QED BY <2>1, <2>3 DEF x
<1>5. g[{}] = 0  BY <1>3
<1> HIDE DEF pick
<1>6. AddsUp(g, pick, w, V)  BY <1>4, <1>5 DEF AddsUp
<1> QED BY <1>1, <1>6, PickedSum

(* So are the scores of either model in a pairwise run.                      *)
LEMMA ScoresOfA ==
  ASSUME NEW V, IsFiniteSet(V), NEW S, V \subseteq S,
         NEW w, \A r \in V : w[r] = r.a, NEW T, IsSum(T, w, S)
  PROVE  TotalA(V) = T[V]
<1> DEFINE g == CHOOSE g : g = [s \in SUBSET V |->
                   IF s = {} THEN 0
                   ELSE (CHOOSE x \in s : TRUE).a + g[s \ {CHOOSE x \in s : TRUE}]]
<1>1. TotalA(V) = g[V]
  BY DEF TotalA, MapThenSumSet, MapThenFoldSet
<1>2. \E f : f = [s \in SUBSET V |->
               IF s = {} THEN 0
               ELSE (CHOOSE x \in s : TRUE).a + f[s \ {CHOOSE x \in s : TRUE}]]
  <2> DEFINE f == [s \in SUBSET V |-> T[s]]
  <2>1. f = [s \in SUBSET V |-> f[s]]  OBVIOUS
  <2>2. /\ f[{}] = 0
        /\ \A s \in SUBSET V : s # {} =>
             /\ (CHOOSE x \in s : TRUE) \in V
             /\ f[s] = w[CHOOSE x \in s : TRUE] + f[s \ {CHOOSE x \in s : TRUE}]
    BY SumPicks
  <2> HIDE DEF f, g
  <2>3. f = [s \in SUBSET V |->
               IF s = {} THEN 0
               ELSE (CHOOSE x \in s : TRUE).a + f[s \ {CHOOSE x \in s : TRUE}]]
    BY <2>1, <2>2
  <2> QED BY <2>3
<1>3. g = [s \in SUBSET V |->
             IF s = {} THEN 0
             ELSE (CHOOSE x \in s : TRUE).a + g[s \ {CHOOSE x \in s : TRUE}]]
  BY <1>2
<1> HIDE DEF g
<1> DEFINE pick == [U \in SUBSET V |-> CHOOSE x \in U : TRUE]
<1>4. ASSUME NEW U \in SUBSET V, U # {}
      PROVE  pick[U] \in U /\ g[U] = w[pick[U]] + g[U \ {pick[U]}]
  <2> DEFINE x == CHOOSE x \in U : TRUE
  <2>1. x \in U  BY <1>4
  <2>2. g[U] = x.a + g[U \ {x}]  BY <1>3, <1>4
  <2> HIDE DEF x
  <2>3. g[U] = w[x] + g[U \ {x}]  BY <2>1, <2>2
  <2> QED BY <2>1, <2>3 DEF x
<1>5. g[{}] = 0  BY <1>3
<1> HIDE DEF pick
<1>6. AddsUp(g, pick, w, V)  BY <1>4, <1>5 DEF AddsUp
<1> QED BY <1>1, <1>6, PickedSum

(* (The provers take one field at a time.)                                   *)
LEMMA ScoresOfB ==
  ASSUME NEW V, IsFiniteSet(V), NEW S, V \subseteq S,
         NEW w, \A r \in V : w[r] = r.b, NEW T, IsSum(T, w, S)
  PROVE  TotalB(V) = T[V]
<1> DEFINE g == CHOOSE g : g = [s \in SUBSET V |->
                   IF s = {} THEN 0
                   ELSE (CHOOSE x \in s : TRUE).b + g[s \ {CHOOSE x \in s : TRUE}]]
<1>1. TotalB(V) = g[V]
  BY DEF TotalB, MapThenSumSet, MapThenFoldSet
<1>2. \E f : f = [s \in SUBSET V |->
               IF s = {} THEN 0
               ELSE (CHOOSE x \in s : TRUE).b + f[s \ {CHOOSE x \in s : TRUE}]]
  <2> DEFINE f == [s \in SUBSET V |-> T[s]]
  <2>1. f = [s \in SUBSET V |-> f[s]]  OBVIOUS
  <2>2. /\ f[{}] = 0
        /\ \A s \in SUBSET V : s # {} =>
             /\ (CHOOSE x \in s : TRUE) \in V
             /\ f[s] = w[CHOOSE x \in s : TRUE] + f[s \ {CHOOSE x \in s : TRUE}]
    BY SumPicks
  <2> HIDE DEF f, g
  <2>3. f = [s \in SUBSET V |->
               IF s = {} THEN 0
               ELSE (CHOOSE x \in s : TRUE).b + f[s \ {CHOOSE x \in s : TRUE}]]
    BY <2>1, <2>2
  <2> QED BY <2>3
<1>3. g = [s \in SUBSET V |->
             IF s = {} THEN 0
             ELSE (CHOOSE x \in s : TRUE).b + g[s \ {CHOOSE x \in s : TRUE}]]
  BY <1>2
<1> HIDE DEF g
<1> DEFINE pick == [U \in SUBSET V |-> CHOOSE x \in U : TRUE]
<1>4. ASSUME NEW U \in SUBSET V, U # {}
      PROVE  pick[U] \in U /\ g[U] = w[pick[U]] + g[U \ {pick[U]}]
  <2> DEFINE x == CHOOSE x \in U : TRUE
  <2>1. x \in U  BY <1>4
  <2>2. g[U] = x.b + g[U \ {x}]  BY <1>3, <1>4
  <2> HIDE DEF x
  <2>3. g[U] = w[x] + g[U \ {x}]  BY <2>1, <2>2
  <2> QED BY <2>1, <2>3 DEF x
<1>5. g[{}] = 0  BY <1>3
<1> HIDE DEF pick
<1>6. AddsUp(g, pick, w, V)  BY <1>4, <1>5 DEF AddsUp
<1> QED BY <1>1, <1>6, PickedSum

-----------------------------------------------------------------------------
(* A row with another score. *)

(* Exchanging an element for a new one keeps the number of elements.         *)
LEMMA Exchanged ==
  ASSUME NEW Q, IsFiniteSet(Q), NEW r \in Q, NEW x, x \notin Q \ {r}
  PROVE  /\ IsFiniteSet((Q \ {r}) \cup {x})
         /\ Cardinality((Q \ {r}) \cup {x}) = Cardinality(Q)
<1>1. IsFiniteSet(Q \ {r}) /\ Cardinality(Q \ {r}) = Cardinality(Q) - 1
  BY FS_RemoveElement
<1>2. /\ IsFiniteSet((Q \ {r}) \cup {x})
      /\ Cardinality((Q \ {r}) \cup {x}) = Cardinality(Q \ {r}) + 1
  BY <1>1, FS_AddElement
<1>3. Cardinality(Q) \in Nat  BY FS_CardinalityType
<1> QED BY <1>1, <1>2, <1>3

(* The scores of rows can be added up.                                       *)
LEMMA ScoreSums ==
  ASSUME NEW V, IsFiniteSet(V), \A r \in V : r.score \in Int
  PROVE  \E T, w : IsSum(T, w, V) /\ \A r \in V : w[r] = r.score
<1> DEFINE w == [r \in V |-> r.score]
<1>1. w \in [V -> Int] /\ \A r \in V : w[r] = r.score  OBVIOUS
<1> HIDE DEF w
<1>2. PICK T : IsSum(T, w, V)  BY <1>1, SumExists
<1> QED BY <1>1, <1>2

(* A score that is replaced changes the sum by the difference.               *)
LEMMA SumRescored ==
  ASSUME NEW V, IsFiniteSet(V), \A q \in V : q.score \in Int,
         NEW r \in V, NEW x, x.score \in Int, x \notin V \ {r}
  PROVE  LET N == (V \ {r}) \cup {x}
         IN  ScoreTotal(V) \in Int /\ ScoreTotal(N) = ScoreTotal(V) - r.score + x.score
<1> DEFINE N == (V \ {r}) \cup {x}  S == V \cup {x}
<1>1. IsFiniteSet(S) /\ \A q \in S : q.score \in Int  BY FS_AddElement
<1>2. PICK T, w : IsSum(T, w, S) /\ \A q \in S : w[q] = q.score
  <2> HIDE DEF S
  <2> QED BY <1>1, ScoreSums
<1>3. IsFiniteSet(N)  BY Exchanged
<1>4. ScoreTotal(V) = T[V]
  <2>1. V \subseteq S /\ \A q \in V : w[q] = q.score  BY <1>2
  <2> HIDE DEF S
  <2> QED BY <1>2, <2>1, ScoresAddUp
<1>5. ScoreTotal(N) = T[N]
  <2>1. N \subseteq S /\ (\A q \in N : w[q] = q.score) /\ \A q \in N : q.score \in Int
    BY <1>2
  <2> HIDE DEF S, N
  <2> QED BY <1>2, <1>3, <2>1, ScoresAddUp
<1>6. T[V] = r.score + T[V \ {r}]
  <2>1. V \in SUBSET S /\ w[r] = r.score  BY <1>2
  <2> QED BY <1>2, <2>1 DEF IsSum
<1>7. T[N] = x.score + T[V \ {r}]
  <2>1. N \in SUBSET S /\ x \in N /\ N \ {x} = V \ {r} /\ w[x] = x.score  BY <1>2
  <2> HIDE DEF N
  <2> QED BY <1>2, <2>1 DEF IsSum
<1>8. T[V] \in Int /\ T[V \ {r}] \in Int
  <2>1. V \in SUBSET S /\ V \ {r} \in SUBSET S  OBVIOUS
  <2> QED BY <1>2, <2>1 DEF IsSum
<1> HIDE DEF N
<1>9. T[N] = T[V] - r.score + x.score  BY <1>6, <1>7, <1>8
<1> QED BY <1>4, <1>5, <1>8, <1>9 DEF N

-----------------------------------------------------------------------------
(* The figures of a run with one score changed. *)

(* n has the evidence of m and differs in what the scores add up to.         *)
SameEvidence(m, n) ==
  /\ n.total = m.total /\ n.ambiguous = m.ambiguous /\ n.unexpected = m.unexpected
  /\ n.valid = m.valid /\ n.backends = m.backends

NoWorse(m, n) == n.sum >= m.sum /\ n.passing >= m.passing

Typed(m) == m.valid \in Nat /\ m.sum \in Int /\ m.passing \in Nat

LEMMA MetricsTyped ==
  ASSUME NEW R, Stored(R), NEW e, NEW expected
  PROVE  Typed(Metrics(R, e, expected))
<1> DEFINE V == ValidRows(Authoritative(Mine(R, e), expected))
           P == {r \in V : r.score >= PassThreshold}
<1>1. V \subseteq R /\ P \subseteq V /\ \A r \in V : r.score \in Int
  BY DEF ValidRows, ValidScore, Scores, Authoritative, Mine
<1>2. /\ Metrics(R, e, expected).valid = Cardinality(V)
      /\ Metrics(R, e, expected).passing = Cardinality(P)
      /\ Metrics(R, e, expected).sum = ScoreTotal(V)
  BY DEF Metrics, Mine, ScoreTotal
<1> HIDE DEF V, P
<1>3. IsFiniteSet(V) /\ IsFiniteSet(P)  BY <1>1, FS_Subset DEF Stored
<1>4. PICK T, w : IsSum(T, w, V) /\ \A r \in V : w[r] = r.score  BY <1>1, <1>3, ScoreSums
<1>5. ScoreTotal(V) = T[V]  BY <1>3, <1>4, ScoresAddUp
<1>6. T[V] \in Int  BY <1>4 DEF IsSum
<1> QED BY <1>2, <1>3, <1>5, <1>6, FS_CardinalityType DEF Typed

PassingOf(V) == {r \in V : r.score >= PassThreshold}
BackendsOf(Q) == {r.backend : r \in Q}

(* When the evidence suffices, all rows count and the figures are plain.     *)
LEMMA PlainFigures ==
  ASSUME NEW R, IsFiniteSet(R), NEW e, NEW expected,
         CasesOf(Mine(R, e)) \subseteq expected,
         \A q, r \in Mine(R, e) : q.case = r.case => q = r
  PROVE  LET m == Metrics(R, e, expected)  V == ValidRows(Mine(R, e)) IN
         /\ m.total = Cardinality(expected) /\ m.ambiguous = 0 /\ m.unexpected = 0
         /\ m.valid = Cardinality(V)
         /\ m.sum = ScoreTotal(V)
         /\ m.passing = Cardinality(PassingOf(V))
         /\ m.backends = BackendsOf(Mine(R, e))
<1> DEFINE mine == Mine(R, e)
<1>1. ASSUME NEW r \in mine PROVE r.case \in expected /\ Copies(mine, r.case) = 1
  <2>1. {q \in mine : q.case = r.case} = {r}  OBVIOUS
  <2>2. Cardinality({r}) = 1  BY FS_Singleton
  <2> QED BY <2>1, <2>2 DEF CasesOf, Copies
<1>2. Authoritative(mine, expected) = mine
  <2> HIDE DEF mine
  <2> QED BY <1>1 DEF Authoritative
<1>3. Ambiguous(mine, expected) = {}
  <2> HIDE DEF mine
  <2> QED BY <1>1 DEF Ambiguous, CasesOf
<1>4. Unexpected(mine, expected) = {}  BY DEF Unexpected
<1>5. Cardinality({}) = 0  BY FS_EmptySet
<1> QED BY <1>2, <1>3, <1>4, <1>5 DEF Metrics, Mine, Denominator, ScoreTotal,
                                     PassingOf, BackendsOf

Rescored(R, r, s) == (R \ {r}) \cup {[r EXCEPT !.score = s]}

LEMMA RescoredFigures ==
  ASSUME NEW R, Stored(R), NEW r \in R, r.outcome = "evaluated", ValidScore(r.score),
         NEW s \in Scores, NEW scope, NEW expected, IsFiniteSet(expected),
         Sufficient(Metrics(R, r.evaluator, expected), scope)
  PROVE  LET m == Metrics(R, r.evaluator, expected)
             n == Metrics(Rescored(R, r, s), r.evaluator, expected)
         IN  /\ SameEvidence(m, n)
             /\ s >= r.score => NoWorse(m, n)
             /\ s <= r.score => NoWorse(n, m)
<1> DEFINE e == r.evaluator  x == [r EXCEPT !.score = s]  N == Rescored(R, r, s)
           mine == Mine(R, e)  V == ValidRows(mine)  W == ValidRows(Mine(N, e))
           m == Metrics(R, e, expected)  n == Metrics(N, e, expected)
<1>0. r \in Rows /\ IsFiniteSet(R)  BY DEF Stored
<1>1. /\ x.case = r.case /\ x.evaluator = e /\ x.outcome = "evaluated" /\ x.score = s
      /\ x.backend = r.backend
  BY <1>0 DEF Rows
<1> HIDE DEF x
<1>2. /\ CasesOf(mine) \subseteq expected
      /\ \A q, p \in mine : q.case = p.case => q = p
  BY <1>0, SufficientCounts
<1>3. Mine(N, e) = (mine \ {r}) \cup {x}
  BY <1>1 DEF Mine, Rescored, x
<1>4. r \in mine /\ x \notin mine \ {r}  BY <1>1, <1>2 DEF Mine
<1>5. /\ CasesOf(Mine(N, e)) \subseteq expected
      /\ \A q, p \in Mine(N, e) : q.case = p.case => q = p
      /\ BackendsOf(Mine(N, e)) = BackendsOf(mine)
  <2> HIDE DEF mine, e, N
  <2>1. CasesOf(Mine(N, e)) \subseteq expected  BY <1>1, <1>2, <1>3, <1>4 DEF CasesOf
  <2>2. \A q, p \in Mine(N, e) : q.case = p.case => q = p  BY <1>1, <1>2, <1>3, <1>4
  <2>3. BackendsOf(Mine(N, e)) = BackendsOf(mine)
    BY <1>1, <1>3, <1>4 DEF BackendsOf
  <2> QED BY <2>1, <2>2, <2>3
<1>6. W = (V \ {r}) \cup {x} /\ r \in V /\ x \notin V \ {r}
  <2> HIDE DEF mine, e, N
  <2>1. x.outcome = "evaluated" /\ ValidScore(x.score)  BY <1>1 DEF ValidScore
  <2> QED BY <1>3, <1>4, <2>1 DEF ValidRows
<1>7. IsFiniteSet(mine) /\ IsFiniteSet(V) /\ IsFiniteSet(N)
  <2>1. mine \subseteq R /\ V \subseteq R  BY DEF Mine, ValidRows
  <2>2. IsFiniteSet((R \ {r}) \cup {x})  BY <1>0, FS_RemoveElement, FS_AddElement
  <2> QED BY <1>0, <2>1, <2>2, FS_Subset DEF Rescored, x
<1>8. /\ \A q \in V : q.score \in Int
      /\ r.score \in Int /\ s \in Int /\ x.score \in Int
  BY <1>1 DEF ValidRows, ValidScore, Scores
<1> HIDE DEF N, mine, V, W, e
<1>9. /\ m.total = Cardinality(expected) /\ m.ambiguous = 0 /\ m.unexpected = 0
      /\ m.valid = Cardinality(V)
      /\ m.sum = ScoreTotal(V)
      /\ m.passing = Cardinality(PassingOf(V))
      /\ m.backends = BackendsOf(mine)
  BY <1>0, <1>2, PlainFigures DEF mine, V
<1>10. /\ n.total = Cardinality(expected) /\ n.ambiguous = 0 /\ n.unexpected = 0
       /\ n.valid = Cardinality(W)
       /\ n.sum = ScoreTotal(W)
       /\ n.passing = Cardinality(PassingOf(W))
       /\ n.backends = BackendsOf(Mine(N, e))
  BY <1>5, <1>7, PlainFigures DEF W
<1>11. n.valid = m.valid  BY <1>6, <1>7, <1>9, <1>10, Exchanged
<1>12. m.sum \in Int /\ n.sum = m.sum - r.score + s
  <2>1. x.score = s  BY <1>1
  <2> QED BY <1>6, <1>7, <1>8, <1>9, <1>10, <2>1, SumRescored
<1>13. /\ s >= r.score => n.passing >= m.passing
       /\ s <= r.score => m.passing >= n.passing
  <2> DEFINE P == PassingOf(V)
             Q == PassingOf(W)
  <2>1. IsFiniteSet(P) /\ IsFiniteSet(P \ {r}) /\ Cardinality(P) \in Nat
        /\ Cardinality(P \ {r}) \in Nat
    <3>1. P \subseteq V  BY DEF PassingOf
    <3> HIDE DEF P
    <3> QED BY <1>7, <3>1, FS_Subset, FS_RemoveElement, FS_CardinalityType
  <2>2. PassThreshold \in Int  BY MetricsAssumption
  <2>3. m.passing = Cardinality(P) /\ n.passing = Cardinality(Q)  BY <1>9, <1>10
  <2>4. CASE r.score >= PassThreshold /\ s >= PassThreshold
    <3>1. Q = (P \ {r}) \cup {x} /\ r \in P /\ x \notin P \ {r}
      BY <1>1, <1>6, <2>4 DEF PassingOf
    <3> HIDE DEF P, Q
    <3>2. Cardinality(Q) = Cardinality(P)  BY <2>1, <3>1, Exchanged
    <3> QED BY <2>1, <2>3, <3>2
  <2>5. CASE r.score >= PassThreshold /\ s < PassThreshold
    <3>1. Q = P \ {r} /\ r \in P /\ s < r.score
      BY <1>1, <1>6, <1>8, <2>2, <2>5 DEF PassingOf
    <3> HIDE DEF P, Q
    <3>2. Cardinality(Q) = Cardinality(P) - 1  BY <2>1, <3>1, FS_RemoveElement
    <3> QED BY <1>8, <2>1, <2>3, <3>1, <3>2
  <2>6. CASE r.score < PassThreshold /\ s >= PassThreshold
    <3>1. Q = P \cup {x} /\ x \notin P /\ s > r.score
      BY <1>1, <1>6, <1>8, <2>2, <2>6 DEF PassingOf
    <3> HIDE DEF P, Q
    <3>2. Cardinality(Q) = Cardinality(P) + 1  BY <2>1, <3>1, FS_AddElement
    <3> QED BY <1>8, <2>1, <2>3, <3>1, <3>2
  <2>7. CASE r.score < PassThreshold /\ s < PassThreshold
    <3>1. Q = P  BY <1>1, <1>6, <1>8, <2>2, <2>7 DEF PassingOf
    <3> HIDE DEF P, Q
    <3> QED BY <2>1, <2>3, <3>1
  <2> QED BY <1>8, <2>2, <2>4, <2>5, <2>6, <2>7
<1> HIDE DEF m, n
<1>14. SameEvidence(m, n)  BY <1>5, <1>9, <1>10, <1>11 DEF SameEvidence
<1>15. /\ s >= r.score => NoWorse(m, n)
       /\ s <= r.score => NoWorse(n, m)
  BY <1>8, <1>12, <1>13 DEF NoWorse
<1> QED BY <1>14, <1>15 DEF m, n, e, N

(* The same for what a scope shows of any evaluator.                         *)
LEMMA RescoredScope ==
  ASSUME NEW R, Stored(R), NEW r \in R, r.outcome = "evaluated", ValidScore(r.score),
         NEW s \in Scores, NEW scope, IsFiniteSet(scope.cases), NEW e,
         Sufficient(Seen(R, scope, e), scope)
  PROVE  LET m == Seen(R, scope, e)  n == Seen(Rescored(R, r, s), scope, e) IN
         /\ SameEvidence(m, n) /\ Typed(m) /\ Typed(n)
         /\ s >= r.score => NoWorse(m, n)
         /\ s <= r.score => NoWorse(n, m)
<1> DEFINE x == [r EXCEPT !.score = s]  N == Rescored(R, r, s)
           seen(Q) == IF scope.cases = Cases THEN Q ELSE Sliced(Q, scope.cases)
           m == Seen(R, scope, e)  n == Seen(N, scope, e)
<1>1. /\ m = Metrics(seen(R), e, scope.cases)
      /\ n = Metrics(seen(N), e, scope.cases)
  BY DEF Seen
<1>2. r \in Rows  BY DEF Stored
<1>3. x.case = r.case /\ x.evaluator = r.evaluator /\ x \in Rows
  BY <1>2 DEF Rows
<1>4. N = (R \ {r}) \cup {x}  BY DEF Rescored
<1> HIDE DEF x, N, m, n
<1>5. Stored(N)  BY <1>3, <1>4, FS_RemoveElement, FS_AddElement DEF Stored
<1>6. Stored(seen(R)) /\ Stored(seen(N))
  <2>1. \A Q : Sliced(Q, scope.cases) \subseteq Q  BY DEF Sliced
  <2> QED BY <1>5, <2>1, FS_Subset DEF Stored
<1>7. Typed(m) /\ Typed(n)  BY <1>1, <1>6, MetricsTyped
<1>8. ASSUME n = m
      PROVE  SameEvidence(m, n) /\ NoWorse(m, n) /\ NoWorse(n, m)
  BY <1>7, <1>8 DEF SameEvidence, NoWorse, Typed
<1>9. CASE e # r.evaluator
  <2>1. Mine(seen(N), e) = Mine(seen(R), e)
    BY <1>3, <1>4, <1>9 DEF Mine, Sliced
  <2>2. n = m  BY <1>1, <2>1 DEF Metrics, Mine
  <2> QED BY <1>7, <1>8, <2>2 DEF m, n, N
<1>10. CASE r \notin seen(R)
  <2>1. seen(N) = seen(R)  BY <1>3, <1>4, <1>10 DEF Sliced
  <2> QED BY <1>1, <1>7, <1>8, <2>1 DEF m, n, N
<1>11. CASE e = r.evaluator /\ r \in seen(R)
  <2>1. seen(N) = Rescored(seen(R), r, s)
    BY <1>3, <1>4, <1>11 DEF Sliced, Rescored, x
  <2>2. Sufficient(Metrics(seen(R), r.evaluator, scope.cases), scope)
    BY <1>1, <1>11 DEF m
  <2> HIDE DEF seen
  <2>3. /\ SameEvidence(m, n)
        /\ s >= r.score => NoWorse(m, n)
        /\ s <= r.score => NoWorse(n, m)
    BY <1>1, <1>6, <1>11, <2>1, <2>2, RescoredFigures
  <2> QED BY <1>7, <2>3 DEF m, n, N
<1> QED BY <1>9, <1>10, <1>11

LEMMA Monotone ==
  ASSUME NEW a \in Int, NEW b \in Int, NEW d \in Nat, a <= b
  PROVE  a * d \in Int /\ b * d \in Int /\ a * d <= b * d
<1>1. (b - a) * d >= 0  OBVIOUS
<1>2. b * d = a * d + (b - a) * d  OBVIOUS
<1> QED BY <1>1, <1>2

(* Figures that are no worse fail no check that the others pass, and as a    *)
(* baseline they set no lower standard.                                      *)
LEMMA BetterFailsLess ==
  ASSUME NEW m, NEW n, NEW o, Typed(m), Typed(n), Typed(o),
         n.valid = m.valid, NoWorse(m, n),
         NEW check, check.percent \in 0..100
  PROVE  /\ Fails(check, n, o) => Fails(check, m, o)
         /\ Fails(check, o, m) => Fails(check, o, n)
<1> DEFINE x == Share(m, check.metric)  y == Share(n, check.metric)
           z == Share(o, check.metric)
<1>1. /\ x.num \in Int /\ y.num \in Int /\ z.num \in Int
      /\ x.den \in Nat /\ y.den = x.den /\ z.den \in Nat
      /\ x.num <= y.num
  BY MetricsAssumption DEF Share, Typed, NoWorse
<1> HIDE DEF x, y, z
<1>2. /\ x.num * z.den \in Int /\ y.num * z.den \in Int
      /\ x.num * z.den <= y.num * z.den
  BY <1>1, Monotone
<1>3. z.num * x.den \in Int  BY <1>1, Monotone
<1>4. check.percent * x.den * z.den \in Int /\ check.percent * z.den * x.den \in Int
  <2>1. \A a, b \in Int : a * b \in Int  OBVIOUS
  <2> QED BY <1>1, <2>1
<1>5. Below(y, check.percent) => Below(x, check.percent)
  <2>1. check.percent * x.den \in Int  BY <1>1, Monotone
  <2> QED BY <1>1, <2>1 DEF Below
<1>6. Fell(y, z, check.percent) => Fell(x, z, check.percent)
  BY <1>1, <1>2, <1>3, <1>4 DEF Fell
<1>7. Fell(z, x, check.percent) => Fell(z, y, check.percent)
  BY <1>1, <1>2, <1>3, <1>4 DEF Fell
<1> QED BY <1>5, <1>6, <1>7 DEF Fails, x, y, z

(* Both sides of a passing check, with one of them no worse than it was.     *)
LEMMA StillPasses ==
  ASSUME NEW rules \in Policies, NEW f, NEW g, NEW side \in Sides, NEW other \in Sides,
         Sides = {side, other},
         Verdict(rules, [scope \in rules |-> f]) = "passed",
         g[other] = f[other],
         \A scope \in rules, e \in Evaluators :
           LET m == Seen(f[side], scope, e)  n == Seen(g[side], scope, e) IN
           /\ SameEvidence(m, n) /\ Typed(m) /\ Typed(n)
           /\ Typed(Seen(f[other], scope, e))
           /\ IF side = "current" THEN NoWorse(m, n) ELSE NoWorse(n, m)
  PROVE  Verdict(rules, [scope \in rules |-> g]) = "passed"
<1> DEFINE was(scope, s, e) == Seen(f[s], scope, e)
           now(scope, s, e) == Seen(g[s], scope, e)
<1>1. rules # {}  BY DEF Verdict
<1>2. ASSUME NEW scope \in rules, NEW e \in Evaluators
      PROVE  /\ \A s \in Sides : Sufficient(was(scope, s, e), scope)
             /\ SameBackend(e, was(scope, "current", e), was(scope, "baseline", e))
             /\ \A check \in scope.rules[e] :
                  ~Fails(check, was(scope, "current", e), was(scope, "baseline", e))
  BY DEF Verdict
<1>3. ASSUME NEW scope \in rules, NEW e \in Evaluators
      PROVE  /\ \A s \in Sides : Sufficient(now(scope, s, e), scope)
             /\ SameBackend(e, now(scope, "current", e), now(scope, "baseline", e))
             /\ \A check \in scope.rules[e] :
                  ~Fails(check, now(scope, "current", e), now(scope, "baseline", e))
  <2> DEFINE m == was(scope, side, e)  n == now(scope, side, e)  o == was(scope, other, e)
  <2>1. now(scope, other, e) = o  OBVIOUS
  <2>2. /\ SameEvidence(m, n) /\ Typed(m) /\ Typed(n) /\ Typed(o)
        /\ IF side = "current" THEN NoWorse(m, n) ELSE NoWorse(n, m)
    OBVIOUS
  <2>3. \/ side = "current" /\ other = "baseline"
        \/ side = "baseline" /\ other = "current"
    BY DEF Sides
  <2>4. Sufficient(m, scope) => Sufficient(n, scope)
    <3> HIDE DEF m, n, o
    <3> QED BY <2>2 DEF Sufficient, SameEvidence
  <2>5. n.backends = m.backends /\ n.valid = m.valid  BY <2>2 DEF SameEvidence
  <2>6. \A check \in scope.rules[e] : check.percent \in 0..100
    BY ComparisonAssumption
  <2>7. CASE side = "current" /\ other = "baseline"
    <3>1. Sufficient(m, scope) /\ Sufficient(o, scope) /\ SameBackend(e, m, o)
          /\ \A check \in scope.rules[e] : ~Fails(check, m, o)
      BY <1>2, <2>7
    <3>2. SameBackend(e, n, o)  BY <2>5, <3>1 DEF SameBackend
    <3>3. \A check \in scope.rules[e] : ~Fails(check, n, o)
      <4> HIDE DEF m, n, o
      <4> QED BY <2>2, <2>5, <2>6, <2>7, <3>1, BetterFailsLess
    <3> QED BY <2>1, <2>4, <2>7, <3>1, <3>2, <3>3 DEF Sides
  <2>8. CASE side = "baseline" /\ other = "current"
    <3>1. Sufficient(m, scope) /\ Sufficient(o, scope) /\ SameBackend(e, o, m)
          /\ \A check \in scope.rules[e] : ~Fails(check, o, m)
      BY <1>2, <2>8
    <3>2. SameBackend(e, o, n)  BY <2>5, <3>1 DEF SameBackend
    <3>3. \A check \in scope.rules[e] : ~Fails(check, o, n)
      <4> HIDE DEF m, n, o
      <4> QED BY <2>2, <2>5, <2>6, <2>8, <3>1, BetterFailsLess
    <3> QED BY <2>1, <2>4, <2>8, <3>1, <3>2, <3>3 DEF Sides
  <2> QED BY <2>3, <2>7, <2>8
<1> QED BY <1>1, <1>3 DEF Verdict

(* A better score for the current run, or a worse one for the baseline,      *)
(* never turns a passing check into another.                                 *)
THEOREM BetterStaysPassed == Spec => []BetterNeverFails
<1>1. AnswersInv /\ StoredInv => BetterNeverFails
  <2> SUFFICES ASSUME AnswersInv, StoredInv, Concluding, Answer = "passed",
                      NEW side \in Sides, NEW r \in ValidRows(Read[side]), NEW s \in Scores,
                      IF side = "current" THEN s >= r.score ELSE s <= r.score
               PROVE  VerdictWith(side, r, [r EXCEPT !.score = s]) = "passed"
    BY DEF BetterNeverFails
  <2> DEFINE g == [Read EXCEPT ![side] = Rescored(Read[side], r, s)]
             read == [scope \in policy |-> IF scope \in Slices THEN comparison.sliced ELSE Read]
  <2>1. policy \in Policies  BY DEF AnswersInv
  <2>2. /\ Read = [x \in Sides |-> Read[x]]
        /\ comparison.sliced = [x \in Sides |-> comparison.sliced[x]]
    <3>1. PICK k, f, h : /\ comparison = [stage |-> k, read |-> f, sliced |-> h]
                         /\ f = [x \in Sides |-> comparison.read[x]]
                         /\ h = [x \in Sides |-> comparison.sliced[x]]
      BY DEF AnswersInv
    <3>2. comparison.read = f /\ comparison.sliced = h  BY <3>1
    <3> QED BY <3>1, <3>2 DEF Read
  <2>3. \A scope \in policy : read[scope] = Read
    <3> SUFFICES ASSUME NEW scope \in Slices PROVE comparison.sliced = Read  OBVIOUS
    <3>1. \A x \in Sides : comparison.sliced[x] = Read[x]  BY SlicesAgree
    <3> QED BY <2>2, <3>1
  <2>4. Verdict(policy, read) = "passed"  BY DEF Answer
  <2>5. read = [scope \in policy |-> Read]  BY <2>3
  <2>6. r \in Read[side] /\ r.outcome = "evaluated" /\ ValidScore(r.score)
        /\ r.score \in Int /\ s \in Int
    BY DEF ValidRows, ValidScore, Scores
  <2>7. \A x \in Sides : Stored(Read[x])  BY DEF StoredInv, Read
  <2>8. g[side] = Rescored(Read[side], r, s) /\ \A x \in Sides : x # side => g[x] = Read[x]
    BY <2>2
  <2>9. PICK other \in Sides : Sides = {side, other} /\ other # side  BY DEF Sides
  <2>10. VerdictWith(side, r, [r EXCEPT !.score = s]) = Verdict(policy, [scope \in policy |-> g])
    BY DEF VerdictWith, Rescored
  <2> HIDE DEF g, read
  <2>11. Verdict(policy, [scope \in policy |-> Read]) = "passed"  BY <2>4, <2>5
  <2>12. ASSUME NEW scope \in policy, NEW e \in Evaluators
         PROVE  LET m == Seen(Read[side], scope, e)  n == Seen(g[side], scope, e) IN
                /\ SameEvidence(m, n) /\ Typed(m) /\ Typed(n)
                /\ Typed(Seen(Read[other], scope, e))
                /\ IF side = "current" THEN NoWorse(m, n) ELSE NoWorse(n, m)
    <3>1. Sufficient(Seen(Read[side], scope, e), scope)  BY <2>11, PassedScope
    <3>2. IsFiniteSet(scope.cases)  BY <2>1, ComparisonAssumption, MetricsAssumption, FS_Subset
    <3>3. Typed(Seen(Read[other], scope, e))
      <4>1. Sliced(Read[other], scope.cases) \subseteq Read[other]  BY DEF Sliced
      <4>2. Stored(Sliced(Read[other], scope.cases))  BY <2>7, <4>1, FS_Subset DEF Stored
      <4> QED BY <2>7, <4>2, MetricsTyped DEF Seen
    <3>4. LET m == Seen(Read[side], scope, e)  n == Seen(Rescored(Read[side], r, s), scope, e)
          IN  /\ SameEvidence(m, n) /\ Typed(m) /\ Typed(n)
              /\ s >= r.score => NoWorse(m, n)
              /\ s <= r.score => NoWorse(n, m)
      BY <2>6, <2>7, <3>1, <3>2, RescoredScope
    <3> QED BY <2>8, <3>3, <3>4
  <2>13. Verdict(policy, [scope \in policy |-> g]) = "passed"
    BY <2>1, <2>8, <2>9, <2>11, <2>12, StillPasses
  <2> QED BY <2>10, <2>13
<1> QED BY <1>1, AnswersAlways, StoredAlways, PTL

-----------------------------------------------------------------------------
(* Ratings: what playing case after case computes. *)

LEMMA LeastNumber ==
  ASSUME NEW N \in SUBSET Nat, N # {}
  PROVE  \E x \in N : \A y \in N : x <= y
<1>1. PICK x \in N : \A y \in N : ~ (<<y, x>> \in OpToRel(<, Nat))
  BY NatLessThanWellFounded, WFMin
<1>2. \A y \in N : ~ (y < x)  BY <1>1 DEF OpToRel
<1> QED BY <1>2

LEMMA GreatestNumber ==
  ASSUME NEW n \in Nat, NEW s \in SUBSET (1..n), s # {}
  PROVE  Max(s) \in s /\ \A y \in s : y <= Max(s)
<1> DEFINE N == {n - y : y \in s}
<1>0. \A y \in s : y \in Nat /\ n - y \in Nat  OBVIOUS
<1>1. N \in SUBSET Nat /\ N # {}  BY <1>0
<1>2. PICK x \in s : \A y \in s : n - x <= n - y
  <2> HIDE DEF N
  <2>1. PICK k \in N : \A m \in N : k <= m  BY <1>1, LeastNumber
  <2> QED BY <2>1 DEF N
<1>3. \A y \in s : x >= y  BY <1>0, <1>2
<1>4. Max(s) \in s /\ \A y \in s : Max(s) >= y  BY <1>3 DEF Max
<1> QED BY <1>4

Level == [a |-> 0, b |-> 0]

(* The ratings after one more case.                                          *)
After(R, ratings, c) ==
  LET played == {r \in R : r.case = c} IN
  IF played = {} THEN ratings
  ELSE EloUpdate(ratings, Score((CHOOSE r \in played : TRUE).winner))

(* The ratings are those of a game that starts level and plays the cases in  *)
(* their order.                                                              *)
IsGame(e, R) ==
  /\ e[0] = Level
  /\ \A i \in 1..Len(CaseOrder) : e[i] = After(R, e[i - 1], CaseOrder[i])
  /\ e[Len(CaseOrder)] = Elo(R)

LEMMA GameExists ==
  ASSUME NEW R
  PROVE  \E e : IsGame(e, R)
<1> DEFINE g == CHOOSE g : g = [s \in SUBSET DOMAIN CaseOrder |->
                  IF s = {} THEN Level
                  ELSE After(R, g[s \ {Max(s)}], CaseOrder[Max(s)])]
<1>1. Elo(R) = g[DOMAIN CaseOrder]
  BY DEF Elo, FoldLeft, MapThenFoldSet, After, Level
<1>2. \E f : f = [s \in SUBSET DOMAIN CaseOrder |->
               IF s = {} THEN Level
               ELSE After(R, f[s \ {Max(s)}], CaseOrder[Max(s)])]
  <2> DEFINE n == Len(CaseOrder)
             Fits(f, U) == f = [s \in SUBSET U |->
                                  IF s = {} THEN Level
                                  ELSE After(R, f[s \ {Max(s)}], CaseOrder[Max(s)])]
             F == {U \in SUBSET (1..n) : ~ \E f : Fits(f, U)}
  <2>1. n \in Nat /\ DOMAIN CaseOrder = 1..n  BY PairwiseAssumption
  <2> HIDE DEF n
  <2>2. IsFiniteSet(1..n)  BY <2>1, FS_Interval
  <2>3. SUFFICES ASSUME F # {} PROVE FALSE
    <3>1. CASE F = {}
      <4>1. \E f : Fits(f, 1..n)  BY <3>1
      <4> QED BY <2>1, <4>1
    <3> QED BY <3>1
  <2>4. PICK U \in F : \A x \in U : U \ {x} \notin F
    <3>1. F \in SUBSET SUBSET (1..n)  OBVIOUS
    <3> HIDE DEF F
    <3> QED BY <2>2, <2>3, <3>1, SmallestMember
  <2>5. CASE U = {}
    <3> DEFINE f == [s \in SUBSET U |-> Level]
    <3>1. Fits(f, U)  BY <2>5
    <3> QED BY <3>1
  <2>6. CASE U # {}
    <3>1. Max(U) \in U /\ \A y \in U : y <= Max(U)  BY <2>1, <2>6, GreatestNumber
    <3> DEFINE x == Max(U)
    <3>2. PICK f : Fits(f, U \ {x})  BY <2>4, <3>1
    <3> DEFINE h == [s \in SUBSET U |->
                       IF x \in s THEN After(R, f[s \ {x}], CaseOrder[x]) ELSE f[s]]
    <3>3. ASSUME NEW s \in SUBSET U
          PROVE  h[s] = IF s = {} THEN Level
                        ELSE After(R, h[s \ {Max(s)}], CaseOrder[Max(s)])
      <4>1. CASE x \in s
        <5>1. Max(s) = x
          <6>1. s \in SUBSET (1..n) /\ s # {}  BY <4>1
          <6>2. Max(s) \in s /\ \A y \in s : y <= Max(s)  BY <2>1, <6>1, GreatestNumber
          <6>3. Max(s) <= x /\ x <= Max(s)  BY <3>1, <4>1, <6>2
          <6>4. Max(s) \in 1..n /\ x \in 1..n  BY <3>1, <6>1, <6>2
          <6> HIDE DEF x
          <6> QED BY <2>1, <6>3, <6>4
        <5> HIDE DEF x
        <5>2. h[s] = After(R, f[s \ {x}], CaseOrder[x])  BY <4>1
        <5>3. h[s \ {x}] = f[s \ {x}]  OBVIOUS
        <5> HIDE DEF h
        <5> QED BY <4>1, <5>1, <5>2, <5>3
      <4>2. CASE x \notin s /\ s # {}
        <5>1. s \in SUBSET (U \ {x}) /\ s \in SUBSET (1..n)  BY <4>2
        <5>2. Max(s) \in s  BY <2>1, <4>2, <5>1, GreatestNumber
        <5> HIDE DEF x
        <5>3. f[s] = After(R, f[s \ {Max(s)}], CaseOrder[Max(s)])  BY <3>2, <4>2, <5>1
        <5>4. h[s] = f[s] /\ h[s \ {Max(s)}] = f[s \ {Max(s)}]  BY <4>2
        <5> HIDE DEF h
        <5> QED BY <4>2, <5>3, <5>4
      <4>3. CASE s = {}
        <5>1. f[{}] = Level  BY <3>2
        <5> QED BY <4>3, <5>1
      <4> QED BY <4>1, <4>2, <4>3
    <3>4. h = [s \in SUBSET U |-> h[s]]  OBVIOUS
    <3> HIDE DEF h
    <3>5. Fits(h, U)  BY <3>3, <3>4
    <3> QED BY <3>5
  <2> QED BY <2>5, <2>6
<1>3. g = [s \in SUBSET DOMAIN CaseOrder |->
             IF s = {} THEN Level
             ELSE After(R, g[s \ {Max(s)}], CaseOrder[Max(s)])]
  BY <1>2
<1> HIDE DEF g
<1> DEFINE n == Len(CaseOrder)  e == [i \in 0..n |-> g[1..i]]
<1>4. n \in Nat /\ DOMAIN CaseOrder = 1..n  BY PairwiseAssumption
<1>5. e[0] = Level /\ e[n] = Elo(R)
  <2> HIDE DEF n
  <2>1. 1..0 = {} /\ g[{}] = Level  BY <1>3
  <2> QED BY <1>1, <1>4, <2>1
<1>6. ASSUME NEW i \in 1..n PROVE e[i] = After(R, e[i - 1], CaseOrder[i])
  <2> HIDE DEF n
  <2>0. i \in Nat /\ i >= 1 /\ i <= n /\ i \in 0..n /\ i - 1 \in 0..n  BY <1>4
  <2>1. (1..i) \in SUBSET (1..n) /\ 1..i # {}
    <3>1. i \in 1..i  BY <2>0
    <3>2. \A y \in 1..i : y \in 1..n  BY <1>4, <2>0
    <3> QED BY <3>1, <3>2
  <2>2. Max(1..i) \in 1..i /\ \A y \in 1..i : y <= Max(1..i)
    BY <1>4, <2>1, GreatestNumber
  <2>3. Max(1..i) = i  BY <2>0, <2>2
  <2>4. (1..i) \ {i} = 1..(i - 1)  BY <2>0
  <2>5. g[1..i] = After(R, g[(1..i) \ {i}], CaseOrder[i])  BY <1>3, <1>4, <2>1, <2>3
  <2>6. e[i] = g[1..i] /\ e[i - 1] = g[1..(i - 1)]  BY <2>0
  <2> HIDE DEF e
  <2> QED BY <2>4, <2>5, <2>6
<1> HIDE DEF e
<1> QED BY <1>4, <1>5, <1>6 DEF IsGame

-----------------------------------------------------------------------------
(* A pairwise run with its models exchanged. *)

PairRows(R) == R \subseteq PairwiseRows /\ IsFiniteSet(R)

Mirror(r) == [r EXCEPT !.winner = Swapped(r).winner, !.a = r.b, !.b = r.a]

Exchange(r, z) == [r EXCEPT !.winner = z, !.a = r.b, !.b = r.a]

Comparison(c, k, o, t, w, x, y) ==
  [case |-> c, copy |-> k, order |-> o, outcome |-> t, winner |-> w, a |-> x, b |-> y]

LEMMA Exchanges ==
  ASSUME NEW c, NEW k, NEW o, NEW t, NEW w, NEW x, NEW y, NEW z
  PROVE  Exchange(Comparison(c, k, o, t, w, x, y), z) = Comparison(c, k, o, t, z, y, x)
<1> DEFINE r == Comparison(c, k, o, t, w, x, y)
           p == [r EXCEPT !.winner = z]  q == [p EXCEPT !.a = y]
<1>1. Exchange(r, z) = [[[r EXCEPT !.winner = z] EXCEPT !.a = r.b] EXCEPT !.b = r.a]
  BY DEF Exchange
<1>2. r.a = x /\ r.b = y  BY DEF Comparison
<1>3. p = [case |-> c, copy |-> k, order |-> o, outcome |-> t, winner |-> z, a |-> x, b |-> y]
  BY DEF Comparison
<1> HIDE DEF p, r
<1>4. q = [case |-> c, copy |-> k, order |-> o, outcome |-> t, winner |-> z, a |-> y, b |-> y]
  BY <1>3
<1>5. Exchange(r, z) = [q EXCEPT !.b = x]  BY <1>1, <1>2 DEF p
<1> HIDE DEF q
<1>6. Exchange(r, z) = Comparison(c, k, o, t, z, y, x)  BY <1>4, <1>5 DEF Comparison
<1> QED BY <1>6 DEF r

LEMMA MirrorKeeps ==
  ASSUME NEW r \in PairwiseRows
  PROVE  /\ Mirror(r) \in PairwiseRows /\ Mirror(Mirror(r)) = r
         /\ Mirror(r).case = r.case /\ Mirror(r).copy = r.copy
         /\ Mirror(r).outcome = r.outcome
         /\ Mirror(r).a = r.b /\ Mirror(r).b = r.a
         /\ Mirror(r).winner = IF r.winner = "A" THEN "B"
                               ELSE IF r.winner = "B" THEN "A" ELSE r.winner
<1>1. PICK c \in Compared, k \in 0..2, o \in {"AB", "BA"}, t \in {"evaluated"} \cup Errors,
           w \in Winners \cup {"none"}, x \in Scores \cup {Invalid}, y \in Scores \cup {Invalid} :
        r = Comparison(c, k, o, t, w, x, y)
  BY DEF PairwiseRows, Comparison
<1> DEFINE v == IF w = "A" THEN "B" ELSE IF w = "B" THEN "A" ELSE w
<1>2. Swapped(r).winner = v  BY <1>1 DEF Swapped, Comparison
<1>3. v \in Winners \cup {"none"}  BY DEF Winners
<1>4. \A q : Mirror(q) = Exchange(q, Swapped(q).winner)  BY DEF Mirror, Exchange
<1>5. w = IF v = "A" THEN "B" ELSE IF v = "B" THEN "A" ELSE v  BY DEF Winners
<1> DEFINE q == Comparison(c, k, o, t, v, y, x)
<1>6. Swapped(q).winner = w  BY <1>5 DEF Swapped, Comparison
<1>7. q \in PairwiseRows  BY <1>3 DEF PairwiseRows, Comparison
<1>8. /\ q.case = c /\ q.copy = k /\ q.outcome = t /\ q.winner = v /\ q.a = y /\ q.b = x
      /\ r.case = c /\ r.copy = k /\ r.outcome = t /\ r.winner = w /\ r.a = x /\ r.b = y
  BY <1>1 DEF Comparison
<1>9. Mirror(r) = q
  <2> HIDE DEF v
  <2> QED BY <1>1, <1>2, <1>4, Exchanges
<1>10. Mirror(q) = r
  <2>1. Exchange(q, w) = Comparison(c, k, o, t, w, x, y)
    <3> HIDE DEF v
    <3> QED BY Exchanges
  <2> HIDE DEF q
  <2> QED BY <1>1, <1>4, <1>6, <2>1
<1> HIDE DEF q
<1> QED BY <1>7, <1>8, <1>9, <1>10

LEMMA MirroredRows ==
  ASSUME NEW R, PairRows(R)
  PROVE  /\ Mirrored(R) = {Mirror(r) : r \in R}
         /\ PairRows(Mirrored(R))
         /\ Cardinality(Mirrored(R)) = Cardinality(R)
<1>1. Mirrored(R) = {Mirror(r) : r \in R}  BY DEF Mirrored, Mirror
<1>2. Mirrored(R) \subseteq PairwiseRows  BY <1>1, MirrorKeeps DEF PairRows
<1> DEFINE h == [r \in R |-> Mirror(r)]
<1>3. h \in Bijection(R, Mirrored(R))
  <2>1. h \in [R -> Mirrored(R)] /\ \A q \in Mirrored(R) : \E r \in R : h[r] = q
    BY <1>1
  <2>2. \A q, r \in R : h[q] = h[r] => q = r
    <3> SUFFICES ASSUME NEW q \in R, NEW r \in R, Mirror(q) = Mirror(r) PROVE q = r
      OBVIOUS
    <3>1. Mirror(Mirror(q)) = q /\ Mirror(Mirror(r)) = r  BY MirrorKeeps DEF PairRows
    <3> QED BY <3>1
  <2> HIDE DEF h
  <2> QED BY <2>1, <2>2 DEF Bijection, Injection, Surjection, IsInjective
<1>4. ExistsBijection(R, Mirrored(R))  BY <1>3 DEF ExistsBijection
<1> QED BY <1>1, <1>2, <1>4, FS_Bijection DEF PairRows

(* The exchange keeps how often a case is stored.                            *)
LEMMA MirroredCopies ==
  ASSUME NEW R, PairRows(R), NEW c
  PROVE  Copies(Mirrored(R), c) = Copies(R, c)
<1> DEFINE S == {r \in R : r.case = c}
<1>1. PairRows(S)  BY FS_Subset DEF PairRows
<1>2. Mirrored(S) = {q \in Mirrored(R) : q.case = c}
  <2>1. Mirrored(S) = {Mirror(r) : r \in S} /\ Mirrored(R) = {Mirror(r) : r \in R}
    BY <1>1, MirroredRows
  <2>2. \A r \in R : Mirror(r).case = r.case  BY MirrorKeeps DEF PairRows
  <2> QED BY <2>1, <2>2
<1>3. Cardinality(Mirrored(S)) = Cardinality(S)
  <2> HIDE DEF S
  <2> QED BY <1>1, MirroredRows
<1> QED BY <1>2, <1>3 DEF Copies

(* What counts of the comparisons: at most one row a case, with a winner and *)
(* two scores.                                                               *)
Played(C) ==
  /\ PairRows(C)
  /\ \A r \in C : r.case \in Compared /\ r.winner \in Winners
  /\ \A q, r \in C : q.case = r.case => q = r

LEMMA EvaluatedPlayed ==
  ASSUME NEW R, PairRows(R)
  PROVE  Played(Evaluated(R))
<1> DEFINE C == Evaluated(R)
<1>1. /\ C \subseteq R
      /\ \A r \in C : /\ r.case \in Compared /\ r.winner \in Winners
                       /\ Copies(R, r.case) = 1
  BY DEF Evaluated, Authoritative
<1> HIDE DEF C
<1>2. PairRows(C)  BY <1>1, FS_Subset DEF PairRows
<1>3. ASSUME NEW q \in C, NEW r \in C, q.case = r.case PROVE q = r
  <2> DEFINE S == {p \in R : p.case = r.case}
  <2>1. Cardinality(S) = 1  BY <1>1 DEF Copies
  <2>2. IsFiniteSet(S)  BY FS_Subset DEF PairRows
  <2>3. q \in S /\ r \in S  BY <1>1, <1>3
  <2> HIDE DEF S
  <2>4. PICK p : S = {p}  BY <2>1, <2>2, FS_Singleton
  <2> QED BY <2>3, <2>4
<1> QED BY <1>1, <1>2, <1>3 DEF Played, C

LEMMA MirroredEvaluated ==
  ASSUME NEW R, PairRows(R)
  PROVE  Evaluated(Mirrored(R)) = Mirrored(Evaluated(R))
<1> DEFINE Good(r) == /\ r.outcome = "evaluated" /\ r.winner \in Winners
                      /\ ValidScore(r.a) /\ ValidScore(r.b)
<1>1. ASSUME NEW r \in R PROVE Good(Mirror(r)) <=> Good(r)
  BY MirrorKeeps DEF PairRows, Winners
<1>2. \A r \in R : Mirror(r).case = r.case  BY MirrorKeeps DEF PairRows
<1>3. Mirrored(R) = {Mirror(r) : r \in R}  BY MirroredRows
<1>4. PairRows(Evaluated(R))  BY EvaluatedPlayed DEF Played
<1>5. Mirrored(Evaluated(R)) = {Mirror(r) : r \in Evaluated(R)}  BY <1>4, MirroredRows
<1>6. \A Q : Evaluated(Q) = {r \in Q : r.case \in Compared /\ Copies(Q, r.case) = 1 /\ Good(r)}
  BY DEF Evaluated, Authoritative
<1>7. \A c : Copies(Mirrored(R), c) = Copies(R, c)  BY MirroredCopies
<1> HIDE DEF Good
<1> QED BY <1>1, <1>2, <1>3, <1>5, <1>6, <1>7

Won(C, side) == Cardinality({r \in C : r.winner = side})

LEMMA MirroredWins ==
  ASSUME NEW C, PairRows(C)
  PROVE  /\ Won(Mirrored(C), "A") = Won(C, "B")
         /\ Won(Mirrored(C), "B") = Won(C, "A")
         /\ Won(Mirrored(C), "tie") = Won(C, "tie")
<1>1. ASSUME NEW s, NEW z, \A r \in C : (Mirror(r).winner = z) <=> (r.winner = s)
      PROVE  Won(Mirrored(C), z) = Won(C, s)
  <2> DEFINE S == {r \in C : r.winner = s}
  <2>1. PairRows(S)  BY FS_Subset DEF PairRows
  <2>2. Mirrored(S) = {q \in Mirrored(C) : q.winner = z}
    <3>1. Mirrored(S) = {Mirror(r) : r \in S} /\ Mirrored(C) = {Mirror(r) : r \in C}
      BY <2>1, MirroredRows
    <3> QED BY <1>1, <3>1
  <2>3. Cardinality(Mirrored(S)) = Cardinality(S)
    <3> HIDE DEF S
    <3> QED BY <2>1, MirroredRows
  <2> QED BY <2>2, <2>3 DEF Won
<1>2. ASSUME NEW r \in C
      PROVE  /\ (Mirror(r).winner = "A") <=> (r.winner = "B")
             /\ (Mirror(r).winner = "B") <=> (r.winner = "A")
             /\ (Mirror(r).winner = "tie") <=> (r.winner = "tie")
  BY MirrorKeeps DEF PairRows
<1> QED BY <1>1, <1>2

(* The scores of one model are those of the other.                           *)
LEMMA MirroredTotals ==
  ASSUME NEW C, PairRows(C)
  PROVE  TotalA(Mirrored(C)) = TotalB(C) /\ TotalB(Mirrored(C)) = TotalA(C)
<1> DEFINE M == Mirrored(C)  h == [r \in C |-> Mirror(r)]
<1>1. PairRows(M) /\ M = {Mirror(r) : r \in C}  BY MirroredRows
<1>2. M = Renamed(h, C) /\ \A r \in C : h[r] \in M /\ h[r].a = r.b /\ h[r].b = r.a
  BY <1>1, MirrorKeeps DEF PairRows, Renamed
<1>3. \A q, r \in C : h[q] = h[r] => q = r
  <2> SUFFICES ASSUME NEW q \in C, NEW r \in C, Mirror(q) = Mirror(r) PROVE q = r
    OBVIOUS
  <2>1. Mirror(Mirror(q)) = q /\ Mirror(Mirror(r)) = r  BY MirrorKeeps DEF PairRows
  <2> QED BY <2>1
<1> HIDE DEF M, h
<1>4. \A r \in PairwiseRows : r.a \in Int /\ r.b \in Int
  BY MetricsAssumption DEF PairwiseRows, Scores, Invalid
<1>5. IsFiniteSet(C) /\ IsFiniteSet(M) /\ C \subseteq PairwiseRows /\ M \subseteq PairwiseRows
  BY <1>1 DEF PairRows
<1>6. TotalA(M) = TotalB(C)
  <2> DEFINE w == [r \in C |-> r.b]  v == [q \in M |-> q.a]
  <2>1. w \in [C -> Int] /\ v \in [M -> Int]  BY <1>4, <1>5
  <2>2. (\A r \in C : w[r] = r.b) /\ \A q \in M : v[q] = q.a  OBVIOUS
  <2> HIDE DEF w, v
  <2>3. PICK T : IsSum(T, w, C)  BY <1>5, <2>1, SumExists
  <2>4. PICK Q : IsSum(Q, v, M)  BY <1>5, <2>1, SumExists
  <2>5. TotalB(C) = T[C]  BY <1>5, <2>2, <2>3, ScoresOfB
  <2>6. TotalA(M) = Q[M]  BY <1>5, <2>2, <2>4, ScoresOfA
  <2>7. \A r \in C : h[r] \in M /\ v[h[r]] = w[r]  BY <1>2, <2>2
  <2>8. \A U \in SUBSET C : Q[Renamed(h, U)] = T[U]
    BY <1>3, <1>5, <2>3, <2>4, <2>7, SumRenamed
  <2> QED BY <1>2, <2>5, <2>6, <2>8
<1>7. TotalB(M) = TotalA(C)
  <2> DEFINE w == [r \in C |-> r.a]  v == [q \in M |-> q.b]
  <2>1. w \in [C -> Int] /\ v \in [M -> Int]  BY <1>4, <1>5
  <2>2. (\A r \in C : w[r] = r.a) /\ \A q \in M : v[q] = q.b  OBVIOUS
  <2> HIDE DEF w, v
  <2>3. PICK T : IsSum(T, w, C)  BY <1>5, <2>1, SumExists
  <2>4. PICK Q : IsSum(Q, v, M)  BY <1>5, <2>1, SumExists
  <2>5. TotalA(C) = T[C]  BY <1>5, <2>2, <2>3, ScoresOfA
  <2>6. TotalB(M) = Q[M]  BY <1>5, <2>2, <2>4, ScoresOfB
  <2>7. \A r \in C : h[r] \in M /\ v[h[r]] = w[r]  BY <1>2, <2>2
  <2>8. \A U \in SUBSET C : Q[Renamed(h, U)] = T[U]
    BY <1>3, <1>5, <2>3, <2>4, <2>7, SumRenamed
  <2> QED BY <1>2, <2>5, <2>6, <2>8
<1> QED BY <1>6, <1>7 DEF M

-----------------------------------------------------------------------------
(* Ratings move by opposite amounts, so that one number tells both. *)

Apart(x) == [a |-> x, b |-> -x]

(* One update from a lead that the expectation is known for.                 *)
LEMMA Updated ==
  ASSUME NEW x \in Int, -(1000 * Len(CaseOrder)) <= x, x <= 1000 * Len(CaseOrder),
         NEW s \in {0, 500, 1000}
  PROVE  \E y \in Int :
           /\ EloUpdate(Apart(x), s) = Apart(y)
           /\ EloUpdate(Apart(-x), 1000 - s) = Apart(-y)
           /\ x - 1000 <= y /\ y <= x + 1000
           /\ x >= 0 /\ s # 0 => y >= 0
           /\ x >= 0 /\ s = 1000 => y >= 500
<1> DEFINE n == Len(CaseOrder)  E == ExpectedScore(2 * x)  y == x + s - E
<1>1. n \in Nat  BY PairwiseAssumption
<1>2. \A lead \in 0..(2000 * n) :
         /\ ExpectedScore(lead) \in 0..1000
         /\ ExpectedScore(-lead) = 1000 - ExpectedScore(lead)
         /\ lead > 0 => 2 * (ExpectedScore(lead) - 500) < lead
  BY PairwiseAssumption
<1> HIDE DEF n
<1>3. E \in 0..1000 /\ ExpectedScore(2 * (-x)) = 1000 - E
  <2>1. CASE x >= 0
    <3>1. 2 * x \in 0..(2000 * n) /\ 2 * (-x) = -(2 * x)  BY <1>1, <2>1 DEF n
    <3> QED BY <1>2, <3>1
  <2>2. CASE x < 0
    <3>1. 2 * (-x) \in 0..(2000 * n) /\ 2 * x = -(2 * (-x))  BY <1>1, <2>2 DEF n
    <3> DEFINE F == ExpectedScore(2 * (-x))
    <3>2. F \in 0..1000 /\ E = 1000 - F  BY <1>2, <3>1
    <3> HIDE DEF F, E
    <3>3. E \in 0..1000 /\ F = 1000 - E  BY <3>2
    <3> QED BY <3>3 DEF F
  <2> QED BY <2>1, <2>2
<1>4. x = 0 => E = 500
  <2> DEFINE k == 2000 * n  Opposite(l) == -l
  <2>0. k \in Nat /\ \A l \in 0..k : /\ ExpectedScore(l) \in 0..1000
                                     /\ ExpectedScore(Opposite(l)) = 1000 - ExpectedScore(l)
    BY <1>1, <1>2
  <2> HIDE DEF k
  <2>1. \E l \in 0..k : l = 0 /\ Opposite(l) = 0  BY <2>0
  <2> HIDE DEF Opposite
  <2>2. ExpectedScore(0) = 1000 - ExpectedScore(0) /\ ExpectedScore(0) \in 0..1000
    BY <2>0, <2>1
  <2> SUFFICES ASSUME x = 0 PROVE E = 500  OBVIOUS
  <2> DEFINE l == 2 * x
  <2>3. l = 0  OBVIOUS
  <2> DEFINE z == ExpectedScore(0)
  <2>4. z = 1000 - z /\ z \in 0..1000  BY <2>2
  <2> HIDE DEF l, z
  <2>5. z = 500  BY <2>4
  <2>6. ExpectedScore(l) = 500  BY <2>3, <2>5 DEF z
  <2> QED BY <2>6 DEF l
<1>5. x > 0 => E - 500 < x
  <2> SUFFICES ASSUME x > 0 PROVE E - 500 < x  OBVIOUS
  <2> DEFINE l == 2 * x
  <2>1. l \in 0..(2000 * n) /\ l > 0  BY <1>1 DEF n
  <2> HIDE DEF l
  <2>2. 2 * (ExpectedScore(l) - 500) < l  BY <1>2, <2>1
  <2>3. 2 * (E - 500) < 2 * x  BY <2>2 DEF l
  <2> HIDE DEF E
  <2> QED BY <1>3, <2>3
<1>6. EloUpdate(Apart(x), s) = Apart(y)
  <2>1. x - (-x) = 2 * x  OBVIOUS
  <2>2. EloUpdate(Apart(x), s) = [a |-> x + s - E, b |-> -x + (1000 - s) - (1000 - E)]
    BY <2>1 DEF EloUpdate, Apart
  <2> HIDE DEF E
  <2>3. -x + (1000 - s) - (1000 - E) = -y  BY <1>3
  <2> QED BY <2>2, <2>3 DEF Apart
<1>7. EloUpdate(Apart(-x), 1000 - s) = Apart(-y)
  <2>1. (-x) - (-(-x)) = 2 * (-x)  OBVIOUS
  <2> DEFINE F == ExpectedScore(2 * (-x))
  <2>2. EloUpdate(Apart(-x), 1000 - s)
          = [a |-> -x + (1000 - s) - F, b |-> -(-x) + (1000 - (1000 - s)) - (1000 - F)]
    BY <2>1 DEF EloUpdate, Apart
  <2>3. F = 1000 - E  BY <1>3
  <2> HIDE DEF E, F
  <2>4. /\ -x + (1000 - s) - F = -y
        /\ -(-x) + (1000 - (1000 - s)) - (1000 - F) = -(-y)
    BY <1>3, <2>3
  <2> QED BY <2>2, <2>4 DEF Apart
<1> HIDE DEF E
<1>8. /\ y \in Int /\ x - 1000 <= y /\ y <= x + 1000
      /\ x >= 0 /\ s # 0 => y >= 0
      /\ x >= 0 /\ s = 1000 => y >= 500
  BY <1>3, <1>4, <1>5
<1> HIDE DEF y
<1> QED BY <1>6, <1>7, <1>8

(* A case leaves the ratings alone or updates them by its only row.          *)
LEMMA AfterCase ==
  ASSUME NEW C, Played(C), NEW c, NEW ratings
  PROVE  /\ (\A r \in C : r.case # c) => After(C, ratings, c) = ratings
         /\ \A r \in C : r.case = c =>
               After(C, ratings, c) = EloUpdate(ratings, Score(r.winner))
<1> DEFINE S == {r \in C : r.case = c}
<1>1. After(C, ratings, c) = IF S = {} THEN ratings
                             ELSE EloUpdate(ratings, Score((CHOOSE r \in S : TRUE).winner))
  BY DEF After
<1>2. ASSUME NEW r \in C, r.case = c PROVE (CHOOSE q \in S : TRUE) = r
  <2>1. r \in S  BY <1>2
  <2> DEFINE q == CHOOSE q \in S : TRUE
  <2>2. q \in S  BY <2>1
  <2>3. q = r  BY <1>2, <2>2 DEF Played
  <2> QED BY <2>3
<1>3. ASSUME NEW r \in C, r.case = c
      PROVE  After(C, ratings, c) = EloUpdate(ratings, Score(r.winner))
  <2>1. S # {}  BY <1>3
  <2>2. (CHOOSE q \in S : TRUE) = r  BY <1>2, <1>3
  <2> HIDE DEF S
  <2> QED BY <1>1, <2>1, <2>2
<1>4. (\A r \in C : r.case # c) => After(C, ratings, c) = ratings  BY <1>1
<1> QED BY <1>3, <1>4

LEMMA MirroredPlayed ==
  ASSUME NEW C, Played(C)
  PROVE  Played(Mirrored(C))
<1>1. PairRows(Mirrored(C)) /\ Mirrored(C) = {Mirror(r) : r \in C}
  BY MirroredRows DEF Played
<1>2. \A r \in C : Mirror(r).case = r.case /\ Mirror(r).winner \in Winners
  BY MirrorKeeps DEF Played, PairRows, Winners
<1> QED BY <1>1, <1>2 DEF Played

(* After i cases one number x tells the ratings, and its opposite those of   *)
(* the game with the models exchanged.                                       *)
At(e, f, i, x) ==
  /\ x \in Int /\ -(1000 * i) <= x /\ x <= 1000 * i
  /\ e[i] = Apart(x) /\ f[i] = Apart(-x)

(* A case nobody played leaves the lead as it was.  Without a loss a lead    *)
(* is not given away, and after a win it is at least half of K.              *)
Plays(C, c, x, y) ==
  /\ (\A r \in C : r.case # c) => y = x
  /\ \A r \in C : r.case = c /\ x >= 0 /\ r.winner # "B" =>
        y >= 0 /\ (r.winner = "A" => y >= 500)

(* The step from one case to the next.                                       *)
LEMMA NextCase ==
  ASSUME NEW C, Played(C), NEW e, IsGame(e, C), NEW f, IsGame(f, Mirrored(C)),
         NEW i \in 1..Len(CaseOrder), NEW x, At(e, f, i - 1, x)
  PROVE  \E y : At(e, f, i, y) /\ Plays(C, CaseOrder[i], x, y)
<1> DEFINE c == CaseOrder[i]  M == Mirrored(C)
<1>1. /\ e[i] = After(C, Apart(x), c) /\ f[i] = After(M, Apart(-x), c)
      /\ x \in Int /\ -(1000 * (i - 1)) <= x /\ x <= 1000 * (i - 1)
  BY DEF IsGame, At
<1>2. Len(CaseOrder) \in Nat /\ i \in Nat /\ i <= Len(CaseOrder)  BY PairwiseAssumption
<1>3. Played(M) /\ M = {Mirror(r) : r \in C}  BY MirroredPlayed, MirroredRows DEF Played
<1>4. \A r \in C : Mirror(r).case = r.case  BY MirrorKeeps DEF Played, PairRows
<1> HIDE DEF c, M
<1>5. CASE \A r \in C : r.case # c
  <2>1. \A q \in M : q.case # c  BY <1>3, <1>4, <1>5
  <2>2. e[i] = Apart(x) /\ f[i] = Apart(-x)  BY <1>1, <1>3, <1>5, <2>1, AfterCase
  <2>3. At(e, f, i, x)  BY <1>1, <1>2, <2>2 DEF At
  <2>4. Plays(C, c, x, x)  BY <1>5 DEF Plays
  <2> QED BY <2>3, <2>4 DEF c
<1>6. ASSUME NEW r \in C, r.case = c
      PROVE  \E y : /\ At(e, f, i, y)
                    /\ x >= 0 /\ r.winner # "B" =>
                         y >= 0 /\ (r.winner = "A" => y >= 500)
  <2> DEFINE s == Score(r.winner)
  <2>1. r.winner \in Winners  BY DEF Played
  <2>2. s \in {0, 500, 1000} /\ (s = 0 <=> r.winner = "B") /\ (s = 1000 <=> r.winner = "A")
    BY <2>1 DEF Score, Winners
  <2>3. Score(Mirror(r).winner) = 1000 - s
    BY <2>1, MirrorKeeps DEF Score, Winners, Played, PairRows
  <2>4. e[i] = EloUpdate(Apart(x), s)  BY <1>1, <1>6, AfterCase
  <2>5. f[i] = EloUpdate(Apart(-x), 1000 - s)
    <3>1. Mirror(r) \in M /\ Mirror(r).case = c  BY <1>3, <1>4, <1>6
    <3>2. f[i] = EloUpdate(Apart(-x), Score(Mirror(r).winner))
      BY <1>1, <1>3, <3>1, AfterCase
    <3> QED BY <2>3, <3>2
  <2> HIDE DEF s
  <2>6. -(1000 * Len(CaseOrder)) <= x /\ x <= 1000 * Len(CaseOrder)  BY <1>1, <1>2
  <2>7. PICK y \in Int :
          /\ EloUpdate(Apart(x), s) = Apart(y)
          /\ EloUpdate(Apart(-x), 1000 - s) = Apart(-y)
          /\ x - 1000 <= y /\ y <= x + 1000
          /\ x >= 0 /\ s # 0 => y >= 0
          /\ x >= 0 /\ s = 1000 => y >= 500
    BY <1>1, <2>2, <2>6, Updated
  <2>8. -(1000 * i) <= y /\ y <= 1000 * i  BY <1>1, <1>2, <2>7
  <2>9. At(e, f, i, y)  BY <2>4, <2>5, <2>7, <2>8 DEF At
  <2> QED BY <2>2, <2>7, <2>9
<1>7. ASSUME NEW r \in C, r.case = c, NEW q \in C, q.case = c PROVE q = r
  BY <1>7 DEF Played
<1>8. CASE \E r \in C : r.case = c
  <2>1. PICK r \in C : r.case = c  BY <1>8
  <2>2. PICK y : /\ At(e, f, i, y)
                 /\ x >= 0 /\ r.winner # "B" =>
                      y >= 0 /\ (r.winner = "A" => y >= 500)
    BY <1>6, <2>1
  <2>3. \A q \in C : q.case = c => q = r  BY <1>7, <2>1
  <2>4. Plays(C, c, x, y)  BY <2>1, <2>2, <2>3 DEF Plays
  <2> QED BY <2>2, <2>4 DEF c
<1> QED BY <1>5, <1>8 DEF c

(* A model that lost none of the cases is never behind, and leads by half of *)
(* K when it won the last one played of the first i.                         *)
Unbeaten(C) == \A r \in C : r.winner # "B"
WonAt(C, i) ==
  \E j \in 1..i, r \in C :
    /\ r.case = CaseOrder[j] /\ r.winner = "A"
    /\ \A k \in 1..i, q \in C : q.case = CaseOrder[k] => k <= j
Ahead(C, i, x) == Unbeaten(C) => x >= 0 /\ (WonAt(C, i) => x >= 500)

LEMMA Ratings ==
  ASSUME NEW C, Played(C)
  PROVE  \E x \in Int : /\ Elo(C) = Apart(x) /\ Elo(Mirrored(C)) = Apart(-x)
                        /\ Ahead(C, Len(CaseOrder), x)
<1> DEFINE n == Len(CaseOrder)
<1>1. n \in Nat  BY PairwiseAssumption
<1>2. PICK e : IsGame(e, C)  BY GameExists
<1>3. PICK f : IsGame(f, Mirrored(C))  BY GameExists
<1> DEFINE Holds(i) == \E x : At(e, f, i, x) /\ Ahead(C, i, x)
           N == {i \in 0..n : ~ Holds(i)}
<1>4. Holds(0)
  <2>1. At(e, f, 0, 0)
    <3>1. e[0] = Level /\ f[0] = Level  BY <1>2, <1>3 DEF IsGame
    <3>2. \E x \in Int : x = 0 /\ Apart(x) = Level /\ Apart(-x) = Level
      BY DEF Apart, Level
    <3> QED BY <3>1, <3>2 DEF At
  <2>2. Ahead(C, 0, 0)  BY DEF Ahead, WonAt
  <2> QED BY <2>1, <2>2
<1>5. ASSUME NEW i \in 1..n, Holds(i - 1) PROVE Holds(i)
  <2> DEFINE c == CaseOrder[i]
  <2>1. PICK x : At(e, f, i - 1, x) /\ Ahead(C, i - 1, x)  BY <1>5
  <2>2. PICK y : At(e, f, i, y) /\ Plays(C, c, x, y)
    <3>1. i \in 1..Len(CaseOrder)  OBVIOUS
    <3>2. At(e, f, i - 1, x)  BY <2>1
    <3> HIDE DEF n, N, Holds
    <3> QED BY <1>2, <1>3, <3>1, <3>2, NextCase
  <2>3. SUFFICES ASSUME Unbeaten(C) PROVE y >= 0 /\ (WonAt(C, i) => y >= 500)
    BY <2>2 DEF Ahead
  <2>4. x >= 0 /\ (WonAt(C, i - 1) => x >= 500)  BY <2>1, <2>3 DEF Ahead
  <2>5. i \in 1..i /\ \A j \in 1..i : (i <= j => j = i) /\ (j # i => j \in 1..(i - 1))
    BY <1>1
  <2>6. CASE \A r \in C : r.case # c
    <3>1. y = x  BY <2>2, <2>6 DEF Plays
    <3>2. ASSUME WonAt(C, i) PROVE WonAt(C, i - 1)
      <4>1. PICK j \in 1..i, r \in C :
               /\ r.case = CaseOrder[j] /\ r.winner = "A"
               /\ \A k \in 1..i, q \in C : q.case = CaseOrder[k] => k <= j
        BY <3>2 DEF WonAt
      <4>2. j \in 1..(i - 1)  BY <2>5, <2>6, <4>1
      <4>3. 1..(i - 1) \subseteq 1..i  BY <1>1
      <4> QED BY <4>1, <4>2, <4>3 DEF WonAt
    <3> QED BY <2>4, <3>1, <3>2
  <2>7. CASE \E r \in C : r.case = c
    <3>1. PICK r \in C : r.case = c  BY <2>7
    <3>2. \A q \in C : q.case = c => q = r  BY <3>1 DEF Played
    <3>3. r.winner # "B"  BY <2>3 DEF Unbeaten
    <3>4. y >= 0 /\ (r.winner = "A" => y >= 500)
      <4> HIDE DEF c
      <4> QED BY <2>2, <2>4, <3>1, <3>3 DEF Plays
    <3>5. ASSUME WonAt(C, i) PROVE r.winner = "A"
      <4>1. PICK j \in 1..i, q \in C :
               /\ q.case = CaseOrder[j] /\ q.winner = "A"
               /\ \A k \in 1..i, p \in C : p.case = CaseOrder[k] => k <= j
        BY <3>5 DEF WonAt
      <4>2. j = i  BY <2>5, <3>1, <4>1
      <4> QED BY <3>2, <4>1, <4>2
    <3> QED BY <3>4, <3>5
  <2> QED BY <2>6, <2>7
<1>6. N = {}
  <2> SUFFICES ASSUME N # {} PROVE FALSE  OBVIOUS
  <2> HIDE DEF Holds
  <2>1. N \in SUBSET Nat  BY <1>1
  <2>2. PICK k \in N : \A i \in N : k <= i
    <3> HIDE DEF N
    <3> QED BY <2>1, LeastNumber
  <2>3. k \in 1..n /\ ~ Holds(k)  BY <1>1, <1>4
  <2>4. k - 1 \in 0..n /\ ~ (k <= k - 1)  BY <1>1, <2>3
  <2>5. Holds(k - 1)  BY <2>2, <2>4
  <2> QED BY <1>5, <2>3, <2>5
<1>7. Holds(n)
  <2> HIDE DEF Holds
  <2> QED BY <1>1, <1>6
<1>8. PICK x : At(e, f, Len(CaseOrder), x) /\ Ahead(C, Len(CaseOrder), x)  BY <1>7
<1> HIDE DEF n, N, Holds
<1>9. e[Len(CaseOrder)] = Elo(C) /\ f[Len(CaseOrder)] = Elo(Mirrored(C))
  BY <1>2, <1>3 DEF IsGame
<1>10. /\ x \in Int /\ Elo(C) = Apart(x) /\ Elo(Mirrored(C)) = Apart(-x)
       /\ Ahead(C, Len(CaseOrder), x)
  BY <1>8, <1>9 DEF At
<1> QED BY <1>10

-----------------------------------------------------------------------------
(* The figures of the run. *)

(* Whatever is stored, a comparison made is one row of a known case.         *)
PairInv == PairRows(stored)

LEMMA CompareStep ==
  ASSUME PairInv, NEW c \in Compared, Compare(c)
  PROVE  PairInv'
<1>1. ASSUME NEW o \in {"AB", "BA"}, NEW t \in Errors
      PROVE  ComparisonError(c, o, t) \in PairwiseRows
  BY DEF ComparisonError, PairwiseRows
<1>2. ASSUME NEW row \in PairwiseRows, stored' = stored \cup {row} PROVE PairInv'
  BY <1>2, FS_AddElement DEF PairInv, PairRows
<1>3. CASE GenerationFails(c)  BY <1>1, <1>2, <1>3 DEF GenerationFails, Errors
<1>4. CASE JudgeFails(c)
  <2>1. PICK o \in {"AB", "BA"} :
           stored' = stored \cup {ComparisonError(c, o, "evaluation_error")}
    BY <1>4 DEF JudgeFails
  <2> QED BY <1>1, <1>2, <2>1 DEF Errors
<1>5. CASE JudgeAnswers(c)
  <2>1. PICK held \in Opinions, o \in {"AB", "BA"} :
           stored' = stored \cup {Judgement(c, o, Unswapped(Judged(held, o), o))}
    BY <1>5 DEF JudgeAnswers
  <2> DEFINE x == Unswapped(Judged(held, o), o)
  <2>2. x.winner \in Winners => x.a \in Scores /\ x.b \in Scores
    BY DEF Unswapped, Judged, Swapped, Opinions, NoOpinion, Winners
  <2> HIDE DEF x
  <2>3. Judgement(c, o, x) \in PairwiseRows
    BY <1>1, <2>2 DEF Judgement, PairwiseRows, Errors
  <2> QED BY <1>2, <2>1, <2>3 DEF x
<1> QED BY <1>3, <1>4, <1>5 DEF Compare

LEMMA PairAlways == Spec => []PairInv
<1>1. Init => PairInv
  BY PairwiseAssumption DEF Init, PairwiseInit, PairInv, PairRows
<1>2. PairInv /\ [Next]_vars => PairInv'
  <2> SUFFICES ASSUME PairInv, [Next]_vars PROVE PairInv'  OBVIOUS
  <2>1. CASE UNCHANGED pairwiseVars  BY <2>1 DEF PairInv, PairRows, pairwiseVars
  <2>2. CASE PairwiseNext  BY <2>2, CompareStep DEF PairwiseNext
  <2> QED BY <2>1, <2>2 DEF Next, vars
<1> QED BY <1>1, <1>2, PTL DEF Spec

LEMMA PairFigures ==
  ASSUME NEW R
  PROVE  LET m == PairwiseMetrics(R)  C == Evaluated(R)
         IN  /\ m.valid = Cardinality(C)
             /\ m.wins_a = Won(C, "A") /\ m.wins_b = Won(C, "B") /\ m.ties = Won(C, "tie")
             /\ m.elo_a = IF C = {} THEN NoRating ELSE Reported(Elo(C).a)
             /\ m.elo_b = IF C = {} THEN NoRating ELSE Reported(Elo(C).b)
             /\ m.sum_a = TotalA(C) /\ m.sum_b = TotalB(C)
BY DEF PairwiseMetrics, Won, TotalA, TotalB

(* Whatever the comparisons and the judge's answers, exchanging the models   *)
(* exchanges their figures and changes nothing else.                         *)
THEOREM LabelsExchange == Spec => []LabelsAreNeutral
<1>1. PairInv => LabelsAreNeutral
  <2> SUFFICES ASSUME PairInv PROVE LabelsAreNeutral  OBVIOUS
  <2> DEFINE R == stored  C == Evaluated(R)  D == Mirrored(C)
             m == PairwiseMetrics(R)  n == PairwiseMetrics(Mirrored(R))
  <2>1. PairRows(R) /\ Played(C) /\ PairRows(C)  BY EvaluatedPlayed DEF PairInv, Played
  <2>2. Evaluated(Mirrored(R)) = D  BY <2>1, MirroredEvaluated
  <2>3. /\ m.valid = Cardinality(C)
        /\ m.wins_a = Won(C, "A") /\ m.wins_b = Won(C, "B") /\ m.ties = Won(C, "tie")
        /\ m.elo_a = IF C = {} THEN NoRating ELSE Reported(Elo(C).a)
        /\ m.elo_b = IF C = {} THEN NoRating ELSE Reported(Elo(C).b)
        /\ m.sum_a = TotalA(C) /\ m.sum_b = TotalB(C)
    BY PairFigures
  <2>4. /\ n.valid = Cardinality(D)
        /\ n.wins_a = Won(D, "A") /\ n.wins_b = Won(D, "B") /\ n.ties = Won(D, "tie")
        /\ n.elo_a = IF D = {} THEN NoRating ELSE Reported(Elo(D).a)
        /\ n.elo_b = IF D = {} THEN NoRating ELSE Reported(Elo(D).b)
        /\ n.sum_a = TotalA(D) /\ n.sum_b = TotalB(D)
    <3> HIDE DEF D
    <3> QED BY <2>2, PairFigures
  <2>5. PICK x \in Int : Elo(C) = Apart(x) /\ Elo(D) = Apart(-x)
    <3> HIDE DEF C
    <3> QED BY <2>1, Ratings
  <2>6. Elo(D).a = Elo(C).b /\ Elo(D).b = Elo(C).a  BY <2>5 DEF Apart
  <2> HIDE DEF C
  <2>9. D = {} <=> C = {}
    <3>1. D = {Mirror(r) : r \in C}  BY <2>1, MirroredRows
    <3> QED BY <3>1
  <2>7. /\ Cardinality(D) = Cardinality(C)
        /\ Won(D, "A") = Won(C, "B") /\ Won(D, "B") = Won(C, "A") /\ Won(D, "tie") = Won(C, "tie")
        /\ TotalA(D) = TotalB(C) /\ TotalB(D) = TotalA(C)
    BY <2>1, MirroredRows, MirroredWins, MirroredTotals
  <2> HIDE DEF D, R, m, n
  <2>8. /\ <<n.wins_a, n.wins_b, n.ties, n.valid>> = <<m.wins_b, m.wins_a, m.ties, m.valid>>
        /\ <<n.elo_a, n.elo_b, n.sum_a, n.sum_b>> = <<m.elo_b, m.elo_a, m.sum_b, m.sum_a>>
    BY <2>3, <2>4, <2>6, <2>7, <2>9
  <2> QED BY <2>8 DEF LabelsAreNeutral, R, m, n
<1> QED BY <1>1, PairAlways, PTL

(* Rounding keeps the order of two ratings, and half of K apart from zero on *)
(* either side are two different reported ratings.                           *)
LEMMA RoundingKeepsOrder ==
  ASSUME NEW x \in Int, x >= 0
  PROVE  /\ Reported(x) \in Int /\ Reported(-x) \in Int /\ Reported(x) >= Reported(-x)
         /\ x >= 500 => Reported(x) > Reported(-x)
BY DEF Reported

(* And a model that lost no case is not reported behind the other one, and   *)
(* is reported ahead when it won the last case.                              *)
THEOREM WinnerLeads == Spec => []UnbeatenLeads
<1>1. ASSUME NEW C, Played(C)
      PROVE  /\ Won(C, "A") = 0 => \A r \in C : r.winner # "A"
             /\ Won(C, "B") = 0 => Unbeaten(C)
             /\ Cardinality(C) > 0 => C # {}
  <2>1. ASSUME NEW s, Won(C, s) = 0 PROVE \A r \in C : r.winner # s
    <3> DEFINE S == {r \in C : r.winner = s}
    <3>1. IsFiniteSet(S)  BY <1>1, FS_Subset DEF Played, PairRows
    <3>2. S = {} => \A r \in C : r.winner # s  OBVIOUS
    <3>3. Cardinality(S) = 0  BY <2>1 DEF Won
    <3> HIDE DEF S
    <3> QED BY <3>1, <3>2, <3>3, FS_EmptySet
  <2>2. Cardinality(C) > 0 => C # {}  BY FS_EmptySet
  <2> QED BY <2>1, <2>2 DEF Unbeaten
<1>2. ASSUME NEW C, Played(C), C # {}, Won(C, "B") = 0
      PROVE  \E x \in Int :
               /\ Elo(C) = Apart(x) /\ Elo(Mirrored(C)) = Apart(-x)
               /\ Reported(x) >= Reported(-x)
               /\ WonLast(C, "A") => Reported(x) > Reported(-x)
  <2>1. PICK x \in Int : /\ Elo(C) = Apart(x) /\ Elo(Mirrored(C)) = Apart(-x)
                         /\ Ahead(C, Len(CaseOrder), x)
    BY <1>2, Ratings
  <2>2. DOMAIN CaseOrder = 1..Len(CaseOrder)  BY PairwiseAssumption
  <2>3. WonLast(C, "A") => WonAt(C, Len(CaseOrder))  BY <2>2 DEF WonLast, WonAt
  <2>4. x >= 0 /\ (WonLast(C, "A") => x >= 500)  BY <1>1, <1>2, <2>1, <2>3 DEF Ahead
  <2> QED BY <2>1, <2>4, RoundingKeepsOrder
<1>3. PairInv => UnbeatenLeads
  <2> SUFFICES ASSUME PairInv, PairwiseMetrics(stored).valid > 0
               PROVE  LET m == PairwiseMetrics(stored)  counted == Evaluated(stored) IN
                      /\ m.wins_b = 0 => m.elo_a >= m.elo_b
                      /\ m.wins_a = 0 => m.elo_b >= m.elo_a
                      /\ m.wins_b = 0 /\ WonLast(counted, "A") => m.elo_a > m.elo_b
                      /\ m.wins_a = 0 /\ WonLast(counted, "B") => m.elo_b > m.elo_a
    BY DEF UnbeatenLeads
  <2> DEFINE C == Evaluated(stored)  D == Mirrored(C)  m == PairwiseMetrics(stored)
  <2>1. Played(C) /\ m.valid = Cardinality(C)  BY EvaluatedPlayed, PairFigures DEF PairInv
  <2> HIDE DEF C
  <2>2. C # {}  BY <1>1, <2>1
  <2>3. /\ m.wins_a = Won(C, "A") /\ m.wins_b = Won(C, "B")
        /\ m.elo_a = Reported(Elo(C).a) /\ m.elo_b = Reported(Elo(C).b)
    BY <2>2, PairFigures DEF C
  <2> HIDE DEF m
  <2>4. ASSUME Won(C, "B") = 0
        PROVE  /\ m.elo_a >= m.elo_b
               /\ WonLast(C, "A") => m.elo_a > m.elo_b
    <3>1. PICK x \in Int : /\ Elo(C) = Apart(x) /\ Reported(x) >= Reported(-x)
                           /\ WonLast(C, "A") => Reported(x) > Reported(-x)
      BY <1>2, <2>1, <2>2, <2>4
    <3>2. Elo(C).a = x /\ Elo(C).b = -x  BY <3>1 DEF Apart
    <3> QED BY <2>3, <3>1, <3>2
  <2>5. ASSUME Won(C, "A") = 0
        PROVE  /\ m.elo_b >= m.elo_a
               /\ WonLast(C, "B") => m.elo_b > m.elo_a
    <3>1. Played(D) /\ Won(D, "B") = 0 /\ D = {Mirror(r) : r \in C}
      BY <2>1, <2>5, MirroredPlayed, MirroredWins, MirroredRows DEF Played
    <3>2. D # {}  BY <2>2, <3>1
    <3>3. WonLast(C, "B") => WonLast(D, "A")
      <4>1. \A r \in C : /\ Mirror(r) \in D /\ Mirror(r).case = r.case
                         /\ r.winner = "B" => Mirror(r).winner = "A"
        BY <2>1, <3>1, MirrorKeeps DEF Played, PairRows
      <4>2. \A q \in D : \E r \in C : q.case = r.case  BY <3>1, <4>1
      <4> HIDE DEF D
      <4> QED BY <4>1, <4>2 DEF WonLast
    <3>4. PICK y \in Int : Elo(C) = Apart(y) /\ Elo(D) = Apart(-y)  BY <2>1, Ratings
    <3> HIDE DEF D
    <3>5. PICK x \in Int : /\ Elo(D) = Apart(x) /\ Reported(x) >= Reported(-x)
                           /\ WonLast(D, "A") => Reported(x) > Reported(-x)
      BY <1>2, <3>1, <3>2
    <3>6. x = -y /\ y = -x  BY <3>4, <3>5 DEF Apart
    <3>7. Elo(C).a = -x /\ Elo(C).b = x  BY <3>4, <3>6 DEF Apart
    <3> QED BY <2>3, <3>3, <3>5, <3>7
  <2> QED BY <2>3, <2>4, <2>5 DEF C, m
<1> QED BY <1>3, PairAlways, PTL

================================================================================
