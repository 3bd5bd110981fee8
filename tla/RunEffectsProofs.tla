---------------------------- MODULE RunEffectsProofs ----------------------------
(***************************************************************************)
(* What a run leaves behind besides its doc, for any number of sources,    *)
(* months, tokens and places in the queue: the usage row is the exact sum  *)
(* of what was spent unless runs overlap, never too high, and the git      *)
(* mirror differs from the database only after a failure.                  *)
(***************************************************************************)
EXTENDS RunEffects, FiniteSetTheorems, WellFoundedInduction, TLAPS

-----------------------------------------------------------------------------
(* Sums over finite sets.  MapThenSumSet is a recursive function over the subsets,  *)
(* which removes a member that CHOOSE picks; the lemmas say that it is there, and   *)
(* that any other member may be removed instead.  Every induction is on a smallest  *)
(* counterexample.                                                                  *)

\* A nonempty set of naturals has a least member.
LEMMA LeastNatural ==
    ASSUME NEW T, T \subseteq Nat, T # {}
    PROVE  \E n \in T : \A m \in T : n <= m
<1> DEFINE Less == {p \in Nat \X Nat : p[1] < p[2]}
<1>1. IsWellFoundedOn(Less, Nat)
  BY NatLessThanWellFounded DEF OpToRel
<1>2. \A m, n \in Nat : <<m, n>> \in Less <=> m < n
  OBVIOUS
<1> HIDE DEF Less
<1>3. PICK n \in T : \A m \in T : <<m, n>> \notin Less
  BY <1>1, WFMin
<1>4. \A m \in T : m \in Nat /\ n \in Nat /\ ~(m < n)
  BY <1>2, <1>3
<1>5. \A m \in T : n <= m
  BY <1>4
<1> QED BY <1>5

\* A nonempty family of subsets of a finite set has a member without smaller ones.
LEMMA SmallestSubset ==
    ASSUME NEW T, IsFiniteSet(T), NEW F, F \subseteq SUBSET T, F # {}
    PROVE  \E s \in F : \A u \in SUBSET s : u # s => u \notin F
<1> DEFINE sizes == {Cardinality(s) : s \in F}
<1>1. \A s \in F : IsFiniteSet(s) /\ Cardinality(s) \in Nat
  BY FS_Subset, FS_CardinalityType
<1>2. PICK n \in sizes : \A m \in sizes : n <= m
  <2>1. sizes \subseteq Nat /\ sizes # {}
    BY <1>1
  <2> HIDE DEF sizes
  <2> QED BY <2>1, LeastNatural
<1>3. PICK s \in F : n = Cardinality(s)
  OBVIOUS
<1>4. ASSUME NEW u \in SUBSET s, u # s, u \in F PROVE FALSE
  <2>1. Cardinality(u) < Cardinality(s)
    BY <1>1, <1>4, FS_Subset
  <2>2. Cardinality(s) <= Cardinality(u)
    BY <1>2, <1>3, <1>4
  <2> QED BY <1>1, <1>4, <2>1, <2>2
<1> QED BY <1>4

One(s) == CHOOSE x \in s : TRUE
IsSum(g, T, it) ==
    it = [s \in SUBSET T |-> IF s = {} THEN 0 ELSE g[One(s)] + it[s \ {One(s)}]]
Sum(g, T) == (CHOOSE it : IsSum(g, T, it))[T]

LEMMA OneIn == ASSUME NEW s, s # {} PROVE One(s) \in s
BY DEF One

LEMMA SumUnique ==
    ASSUME NEW g, NEW A, NEW B, IsFiniteSet(A), NEW f, NEW h, IsSum(g, A, f), IsSum(g, B, h)
    PROVE  \A s \in SUBSET (A \cap B) : f[s] = h[s]
<1> DEFINE F == {s \in SUBSET (A \cap B) : f[s] # h[s]}
<1> SUFFICES ASSUME F # {} PROVE FALSE
  OBVIOUS
<1>1. PICK s \in F : \A u \in SUBSET s : u # s => u \notin F
  <2>1. F \subseteq SUBSET (A \cap B) /\ IsFiniteSet(A \cap B)
    BY FS_Subset
  <2> HIDE DEF F
  <2> QED BY <2>1, SmallestSubset
<1>2. s \in SUBSET A /\ s \in SUBSET B /\ f[s] # h[s]
  OBVIOUS
<1>3. CASE s = {}
  BY <1>2, <1>3 DEF IsSum
<1>4. CASE s # {}
  <2>1. s \ {One(s)} \in SUBSET s /\ s \ {One(s)} # s /\ s \ {One(s)} \in SUBSET (A \cap B)
    BY <1>2, <1>4, OneIn
  <2>2. f[s \ {One(s)}] = h[s \ {One(s)}]
    BY <1>1, <2>1
  <2>3. f[s] = g[One(s)] + f[s \ {One(s)}] /\ h[s] = g[One(s)] + h[s \ {One(s)}]
    BY <1>2, <1>4 DEF IsSum
  <2> QED BY <1>2, <2>2, <2>3
<1> QED BY <1>3, <1>4

\* A set whose subsets have sums has one.
LEMMA SumExtends ==
    ASSUME NEW g, NEW T, IsFiniteSet(T),
           \A s \in SUBSET T : s # T => \E it : IsSum(g, s, it)
    PROVE  \E it : IsSum(g, T, it)
<1> DEFINE value(s) == IF s = {} THEN 0 ELSE g[One(s)] + Sum(g, s \ {One(s)})
           it == [s \in SUBSET T |-> value(s)]
<1>1. ASSUME NEW s \in SUBSET T, s # T PROVE Sum(g, s) = value(s)
  <2> DEFINE f == CHOOSE k : IsSum(g, s, k)
  <2>1. IsSum(g, s, f) /\ Sum(g, s) = f[s]
    BY <1>1 DEF Sum
  <2> HIDE DEF f
  <2>2. CASE s = {}
    BY <2>1, <2>2 DEF IsSum
  <2>3. CASE s # {}
    <3> DEFINE u == s \ {One(s)}
               h == CHOOSE k : IsSum(g, u, k)
    <3>1. u \in SUBSET T /\ u # T /\ u \in SUBSET s /\ u \in SUBSET (s \cap u) /\ IsFiniteSet(s)
      BY <2>3, <1>1, OneIn, FS_Subset
    <3>2. IsSum(g, u, h) /\ Sum(g, u) = h[u]
      BY <3>1 DEF Sum
    <3> HIDE DEF h
    <3>3. f[u] = h[u]
      BY <2>1, <3>1, <3>2, SumUnique
    <3>4. f[s] = g[One(s)] + f[u]
      BY <2>1, <2>3 DEF IsSum
    <3> QED BY <2>1, <2>3, <3>2, <3>3, <3>4
  <2> QED BY <2>2, <2>3
<1>2. \A s \in SUBSET T : s # {} => it[s \ {One(s)}] = Sum(g, s \ {One(s)})
  <2> SUFFICES ASSUME NEW s \in SUBSET T, s # {}
               PROVE  it[s \ {One(s)}] = Sum(g, s \ {One(s)})
    OBVIOUS
  <2>1. s \ {One(s)} \in SUBSET T /\ s \ {One(s)} # T
    BY OneIn
  <2> HIDE DEF value
  <2> QED BY <1>1, <2>1
<1>3. \A s \in SUBSET T : it[s] = IF s = {} THEN 0 ELSE g[One(s)] + it[s \ {One(s)}]
  BY <1>2
<1>4. it = [s \in SUBSET T |-> IF s = {} THEN 0 ELSE g[One(s)] + it[s \ {One(s)}]]
  <2>1. it = [s \in SUBSET T |-> it[s]]
    OBVIOUS
  <2> HIDE DEF it
  <2> QED BY <1>3, <2>1
<1> HIDE DEF it
<1> QED BY <1>4 DEF IsSum

LEMMA SumExists ==
    ASSUME NEW g, NEW T, IsFiniteSet(T)
    PROVE  \E it : IsSum(g, T, it)
<1> DEFINE F == {s \in SUBSET T : ~ \E it : IsSum(g, s, it)}
<1> SUFFICES ASSUME F # {} PROVE FALSE
  OBVIOUS
<1>1. PICK s \in F : \A u \in SUBSET s : u # s => u \notin F
  <2>1. F \subseteq SUBSET T
    OBVIOUS
  <2> HIDE DEF F
  <2> QED BY <2>1, SmallestSubset
<1>2. IsFiniteSet(s) /\ \A u \in SUBSET s : u # s => \E it : IsSum(g, u, it)
  BY <1>1, FS_Subset
<1> QED BY <1>2, SumExtends

LEMMA SumUnfolds ==
    ASSUME NEW g, NEW T, IsFiniteSet(T)
    PROVE  /\ T = {} => Sum(g, T) = 0
           /\ T # {} => Sum(g, T) = g[One(T)] + Sum(g, T \ {One(T)})
<1> DEFINE f == CHOOSE k : IsSum(g, T, k)
           u == T \ {One(T)}
           h == CHOOSE k : IsSum(g, u, k)
<1>1. IsSum(g, T, f) /\ Sum(g, T) = f[T]
  BY SumExists DEF Sum
<1>2. IsSum(g, u, h) /\ Sum(g, u) = h[u]
  BY SumExists, FS_Subset DEF Sum
<1> HIDE DEF f, h
<1>3. f[u] = h[u]
  <2>1. u \in SUBSET (T \cap u)
    OBVIOUS
  <2> QED BY <1>1, <1>2, <2>1, SumUnique
<1>4. f[T] = IF T = {} THEN 0 ELSE g[One(T)] + f[u]
  BY <1>1 DEF IsSum
<1> QED BY <1>1, <1>2, <1>3, <1>4

LEMMA SumType ==
    ASSUME NEW T, IsFiniteSet(T), NEW g, \A x \in T : g[x] \in Nat
    PROVE  Sum(g, T) \in Nat
<1> DEFINE F == {s \in SUBSET T : Sum(g, s) \notin Nat}
<1> SUFFICES ASSUME F # {} PROVE FALSE
  OBVIOUS
<1>1. PICK s \in F : \A u \in SUBSET s : u # s => u \notin F
  <2>1. F \subseteq SUBSET T
    OBVIOUS
  <2> HIDE DEF F
  <2> QED BY <2>1, SmallestSubset
<1>2. IsFiniteSet(s) /\ s \in SUBSET T /\ Sum(g, s) \notin Nat
  BY FS_Subset
<1>3. s # {}
  <2>1. s = {} => Sum(g, s) = 0
    BY <1>2, SumUnfolds
  <2> QED BY <1>2, <2>1
<1>4. One(s) \in s /\ Sum(g, s \ {One(s)}) \in Nat
  BY <1>1, <1>2, <1>3, OneIn
<1>5. Sum(g, s) = g[One(s)] + Sum(g, s \ {One(s)})
  BY <1>2, <1>3, SumUnfolds
<1> QED BY <1>2, <1>4, <1>5

\* Any member may be the one that is taken out.
LEMMA SumRemove ==
    ASSUME NEW T, IsFiniteSet(T), NEW g, \A x \in T : g[x] \in Nat, NEW x \in T
    PROVE  Sum(g, T) = g[x] + Sum(g, T \ {x})
<1> DEFINE F == {s \in SUBSET T : \E y \in s : Sum(g, s) # g[y] + Sum(g, s \ {y})}
<1> SUFFICES ASSUME F # {} PROVE FALSE
  OBVIOUS
<1>1. PICK s \in F : \A u \in SUBSET s : u # s => u \notin F
  <2>1. F \subseteq SUBSET T
    OBVIOUS
  <2> HIDE DEF F
  <2> QED BY <2>1, SmallestSubset
<1>2. PICK y \in s : Sum(g, s) # g[y] + Sum(g, s \ {y})
  OBVIOUS
<1> DEFINE p == One(s)
<1>3. IsFiniteSet(s) /\ s \in SUBSET T /\ s # {} /\ p \in s
  BY FS_Subset, OneIn
<1> HIDE DEF p
<1>4. Sum(g, s) = g[p] + Sum(g, s \ {p})
  BY <1>3, SumUnfolds DEF p
<1>5. p # y
  BY <1>2, <1>4
<1>6. /\ Sum(g, s \ {p}) = g[y] + Sum(g, (s \ {p}) \ {y})
      /\ Sum(g, s \ {y}) = g[p] + Sum(g, (s \ {y}) \ {p})
  <2>1. s \ {p} \in SUBSET T /\ s \ {p} \in SUBSET s /\ s \ {p} # s /\ y \in s \ {p}
    BY <1>3, <1>5
  <2>2. s \ {y} \in SUBSET T /\ s \ {y} \in SUBSET s /\ s \ {y} # s /\ p \in s \ {y}
    BY <1>3, <1>5
  <2> QED BY <1>1, <2>1, <2>2
<1>7. (s \ {p}) \ {y} = (s \ {y}) \ {p}
  OBVIOUS
<1>8. g[p] \in Nat /\ g[y] \in Nat /\ Sum(g, (s \ {p}) \ {y}) \in Nat
  BY <1>3, SumType, FS_Subset
<1>9. Sum(g, s) = g[p] + (g[y] + Sum(g, (s \ {p}) \ {y}))
  BY <1>4, <1>6
<1>10. g[y] + Sum(g, s \ {y}) = g[y] + (g[p] + Sum(g, (s \ {p}) \ {y}))
  BY <1>6, <1>7
<1>11. g[p] + (g[y] + Sum(g, (s \ {p}) \ {y})) = g[y] + (g[p] + Sum(g, (s \ {p}) \ {y}))
  BY <1>8
<1> QED BY <1>2, <1>9, <1>10, <1>11

\* Sums of terms that are each at most as large.
LEMMA SumMonotone ==
    ASSUME NEW T, IsFiniteSet(T), NEW g, NEW h,
           \A x \in T : g[x] \in Nat /\ h[x] \in Nat /\ g[x] <= h[x]
    PROVE  Sum(g, T) <= Sum(h, T)
<1> DEFINE F == {s \in SUBSET T : ~(Sum(g, s) <= Sum(h, s))}
<1> SUFFICES ASSUME F # {} PROVE FALSE
  OBVIOUS
<1>1. PICK s \in F : \A u \in SUBSET s : u # s => u \notin F
  <2>1. F \subseteq SUBSET T
    OBVIOUS
  <2> HIDE DEF F
  <2> QED BY <2>1, SmallestSubset
<1>2. IsFiniteSet(s) /\ s \in SUBSET T /\ ~(Sum(g, s) <= Sum(h, s))
  BY FS_Subset
<1>3. s # {}
  <2>1. s = {} => Sum(g, s) = 0 /\ Sum(h, s) = 0
    BY <1>2, SumUnfolds
  <2> QED BY <1>2, <2>1
<1>4. PICK x : x \in s
  BY <1>3
<1>5. /\ Sum(g, s) = g[x] + Sum(g, s \ {x}) /\ Sum(h, s) = h[x] + Sum(h, s \ {x})
      /\ Sum(g, s \ {x}) \in Nat /\ Sum(h, s \ {x}) \in Nat
  BY <1>2, <1>4, SumRemove, SumType, FS_Subset
<1>6. Sum(g, s \ {x}) <= Sum(h, s \ {x})
  <2>1. s \ {x} \in SUBSET s /\ s \ {x} # s /\ s \ {x} \in SUBSET T
    BY <1>2, <1>4
  <2> QED BY <1>1, <2>1
<1> QED BY <1>2, <1>4, <1>5, <1>6

\* The sum of a map over the rows, as the model states it.
LEMMA SumOfMap ==
    ASSUME NEW seq, NEW f, NEW T, IsFiniteSet(T), \A r \in T : f[r] = seq[r].tokens
    PROVE  MapThenSumSet(LAMBDA r : seq[r].tokens, T) = Sum(f, T)
<1> DEFINE Eqn(it) == it = [s \in SUBSET T |-> IF s = {} THEN 0
                               ELSE seq[One(s)].tokens + it[s \ {One(s)}]]
<1>1. \A it : Eqn(it) <=> IsSum(f, T, it)
  <2> SUFFICES ASSUME NEW it PROVE Eqn(it) <=> IsSum(f, T, it)
    OBVIOUS
  <2>1. \A s \in SUBSET T : (IF s = {} THEN 0 ELSE seq[One(s)].tokens + it[s \ {One(s)}])
                             = (IF s = {} THEN 0 ELSE f[One(s)] + it[s \ {One(s)}])
    BY OneIn
  <2>2. [s \in SUBSET T |-> IF s = {} THEN 0 ELSE seq[One(s)].tokens + it[s \ {One(s)}]]
      = [s \in SUBSET T |-> IF s = {} THEN 0 ELSE f[One(s)] + it[s \ {One(s)}]]
    BY <2>1
  <2> QED BY <2>2 DEF IsSum
<1>2. MapThenSumSet(LAMBDA r : seq[r].tokens, T) = (CHOOSE it : Eqn(it))[T]
  BY DEF MapThenSumSet, MapThenFoldSet, One
<1> HIDE DEF Eqn
<1>3. IsSum(f, T, CHOOSE it : Eqn(it))
  BY <1>1, SumExists
<1>4. IsSum(f, T, CHOOSE it : IsSum(f, T, it))
  BY SumExists
<1>5. (CHOOSE it : Eqn(it))[T] = (CHOOSE it : IsSum(f, T, it))[T]
  <2>1. T \in SUBSET (T \cap T)
    OBVIOUS
  <2> QED BY <1>3, <1>4, <2>1, SumUnique
<1> QED BY <1>2, <1>5 DEF Sum
-----------------------------------------------------------------------------
(* The inductive invariant: the usage rows. *)

RowsIn(p) == {r \in DOMAIN usage : usage[r].period = p}
Mine(s)   == {sess[s].mine[i] : i \in DOMAIN sess[s].mine}

Stages == {"idle", "queued", "counting", "publishing", "exporting", "ending"}

\* What a session holds of the table: nothing, or a row of the month it was last
\* read in, or its own; nothing added before the call has answered.
SessInv ==
    \A s \in Sources :
        /\ pc[s] = "idle" => sess[s] = NoSess
        /\ pc[s] \in {"queued", "counting"} =>
              /\ sess[s].use.added = 0 /\ sess[s].use.period # 0
              /\ sess[s].mine # <<>> => sess[s].use.row = 0 /\ Mine(s) = {sess[s].use.period}
        /\ sess[s].use.period <= period
        /\ \A i \in DOMAIN sess[s].mine : sess[s].mine[i] <= sess[s].use.period
        /\ \A i, j \in DOMAIN sess[s].mine : sess[s].mine[i] = sess[s].mine[j] => i = j
        /\ sess[s].use.period = 0 => sess[s] = NoSess
        /\ sess[s].use.row # 0 => sess[s].use.row \in RowsIn(sess[s].use.period)
        /\ sess[s].use.row = 0 =>
              /\ sess[s].use.tokens = sess[s].use.added
              /\ sess[s].use.period # 0 => sess[s].use.period \in Mine(s)

\* While no two sessions have met in a month, one has it for itself: the row it has
\* read is the one row of the month, as it is, and the sum of what was spent.
Touches(s, p) == sess[s].use.period = p \/ p \in Mine(s)

ExactInv ==
    \A p \in Periods : ~raced[p] =>
        /\ \A s, t \in Sources : Touches(s, p) /\ Touches(t, p) => s = t
        /\ \A s \in Sources : p \in Mine(s) => RowsIn(p) = {}
        /\ \A s \in Sources : sess[s].use.period = p /\ sess[s].use.row # 0 =>
              sess[s].use.tokens = usage[sess[s].use.row].tokens + sess[s].use.added
        /\ \A r, t \in RowsIn(p) : r = t
        /\ RowsIn(p) = {} => spent[p] = 0
        /\ \A r \in RowsIn(p) : usage[r].tokens = spent[p]

\* A row with a quota is the only one of the first month, so whoever was admitted
\* was admitted by that row.
QuotaInv ==
    \A r \in DOMAIN usage : usage[r].quota > 0 =>
        /\ usage[r].period = 1 /\ RowsIn(1) = {r}
        /\ usage[r].tokens < usage[r].quota + MaxTokens
        /\ \A s \in Sources :
              /\ 1 \notin Mine(s)
              /\ sess[s].use.row = r /\ pc[s] \in {"queued", "counting"} =>
                    sess[s].use.tokens < usage[r].quota
              /\ sess[s].use.row = r /\ sess[s].use.added > 0 =>
                    sess[s].use.tokens < usage[r].quota + MaxTokens

\* Every row has a share of what was spent in its month, of which no session has
\* read more than there is: what one adds to what it read cannot exceed the share
\* and what it spends.
Shares(share) ==
    /\ \A r \in DOMAIN usage : usage[r].tokens <= share[r]
    /\ \A s \in Sources : sess[s].use.row # 0 =>
          sess[s].use.tokens <= share[sess[s].use.row] + sess[s].use.added
    /\ \A p \in Periods : Sum(share, RowsIn(p)) <= spent[p]
ShareInv == \E share \in [DOMAIN usage -> Nat] : Shares(share)

UsageInv ==
    /\ MeteringTypes /\ pc \in [Sources -> Stages]
    /\ SessInv /\ ExactInv /\ QuotaInv /\ ShareInv

-----------------------------------------------------------------------------
(* The steps of the usage. *)

LEMMA RowTypes ==
    ASSUME MeteringTypes, NEW r \in DOMAIN usage
    PROVE  /\ r \in 1 .. Len(usage) /\ r \in Nat /\ r # 0
           /\ usage[r].period \in Periods /\ usage[r].tokens \in Nat
           /\ usage[r].quota \in {0, Quota}
<1> DEFINE Row == [period : Periods, tokens : Nat, quota : {0, Quota}]
<1>1. usage \in Seq(Row)
  BY DEF MeteringTypes
<1>2. usage[r] \in Row /\ r \in 1 .. Len(usage) /\ Len(usage) \in Nat
  <2> HIDE DEF Row
  <2> QED BY <1>1
<1> QED BY <1>2

LEMMA RowsFinite == ASSUME MeteringTypes, NEW p PROVE IsFiniteSet(RowsIn(p))
<1>1. DOMAIN usage = 1 .. Len(usage) /\ Len(usage) \in Nat
  BY DEF MeteringTypes
<1>2. IsFiniteSet(DOMAIN usage)
  BY <1>1, FS_Interval
<1> QED BY <1>2, FS_Subset DEF RowsIn

\* Sums of equal terms; sums with a term that is changed or added.
LEMMA SumSame ==
    ASSUME NEW T, IsFiniteSet(T), NEW g, NEW h, \A x \in T : g[x] \in Nat /\ h[x] = g[x]
    PROVE  Sum(h, T) = Sum(g, T)
<1>1. Sum(g, T) <= Sum(h, T) /\ Sum(h, T) <= Sum(g, T)
  BY SumMonotone
<1>2. Sum(g, T) \in Nat /\ Sum(h, T) \in Nat
  BY SumType
<1> QED BY <1>1, <1>2

LEMMA SumAdd ==
    ASSUME NEW T, IsFiniteSet(T), NEW x, x \notin T, NEW g, g[x] \in Nat, \A y \in T : g[y] \in Nat
    PROVE  Sum(g, T \cup {x}) = g[x] + Sum(g, T)
<1>1. IsFiniteSet(T \cup {x}) /\ (T \cup {x}) \ {x} = T
  BY FS_AddElement
<1>2. Sum(g, T \cup {x}) = g[x] + Sum(g, (T \cup {x}) \ {x})
  BY <1>1, SumRemove
<1> QED BY <1>1, <1>2

LEMMA SumChange ==
    ASSUME NEW T, IsFiniteSet(T), NEW x \in T, NEW g, NEW h, \A y \in T : g[y] \in Nat,
           \A y \in T \ {x} : h[y] = g[y], NEW d \in Nat, h[x] = g[x] + d
    PROVE  Sum(h, T) = Sum(g, T) + d
<1>1. IsFiniteSet(T \ {x}) /\ Sum(h, T \ {x}) = Sum(g, T \ {x}) /\ Sum(g, T \ {x}) \in Nat
  BY FS_RemoveElement, SumSame, SumType
<1>2. Sum(h, T) = h[x] + Sum(h, T \ {x})
  BY SumRemove
<1>3. Sum(g, T) = g[x] + Sum(g, T \ {x})
  BY SumRemove
<1> QED BY <1>1, <1>2, <1>3

LEMMA UsageInit == Init => UsageInv
<1> SUFFICES ASSUME Init PROVE UsageInv
  OBVIOUS
<1>1. /\ usage \in {<<>>, <<[period |-> 1, tokens |-> 0, quota |-> Quota]>>}
      /\ period = 1 /\ spent = [p \in Periods |-> 0] /\ raced = [p \in Periods |-> FALSE]
      /\ sess = [s \in Sources |-> NoSess] /\ pc = [s \in Sources |-> "idle"]
  BY DEF Init, MeteringInit
<1>2. /\ NoSess \in [mine : Seq(Periods), use : Use] /\ NoSess.mine = <<>>
      /\ NoSess.use.row = 0 /\ NoSess.use.period = 0
      /\ NoSess.use.tokens = 0 /\ NoSess.use.added = 0
  BY EffectsAssumption DEF NoSess, NoUse, Use
<1> HIDE DEF NoSess
<1>3. /\ \A r \in DOMAIN usage : r = 1 /\ usage[r].period = 1 /\ usage[r].tokens = 0
                                 /\ usage[r].quota = Quota
      /\ usage \in Seq([period : Periods, tokens : Nat, quota : {0, Quota}])
  <2>1. CASE usage = <<>>
    BY <2>1
  <2>2. CASE usage = <<[period |-> 1, tokens |-> 0, quota |-> Quota]>>
    <3>1. [period |-> 1, tokens |-> 0, quota |-> Quota]
            \in [period : Periods, tokens : Nat, quota : {0, Quota}]
      BY EffectsAssumption DEF Periods
    <3> QED BY <2>2, <3>1
  <2> QED BY <1>1, <2>1, <2>2
<1>4. \A s \in Sources : sess[s] = NoSess /\ Mine(s) = {} /\ pc[s] = "idle"
  <2>1. ASSUME NEW s \in Sources
        PROVE  sess[s] = NoSess /\ pc[s] = "idle" /\ sess[s].mine = <<>>
    BY <1>1, <1>2
  <2>2. DOMAIN <<>> = {}
    OBVIOUS
  <2> QED BY <2>1, <2>2 DEF Mine
<1>5. MeteringTypes /\ pc \in [Sources -> Stages]
  BY <1>1, <1>2, <1>3, EffectsAssumption DEF MeteringTypes, Periods, Stages
<1>6. SessInv
  <2> SUFFICES ASSUME NEW s \in Sources
               PROVE  /\ sess[s] = NoSess /\ pc[s] = "idle" /\ sess[s].use.period <= period
                      /\ DOMAIN sess[s].mine = {} /\ sess[s].use.row = 0 /\ sess[s].use.period = 0
                      /\ sess[s].use.tokens = sess[s].use.added
    BY DEF SessInv
  <2>1. sess[s] = NoSess /\ pc[s] = "idle"
    BY <1>4
  <2>2. DOMAIN <<>> = {}
    OBVIOUS
  <2> QED BY <1>1, <1>2, <2>1, <2>2
<1>7. ExactInv
  <2>1. ASSUME NEW p \in Periods, NEW s \in Sources PROVE ~Touches(s, p)
    BY <1>2, <1>4 DEF Touches, Periods
  <2>2. \A p \in Periods : spent[p] = 0
    BY <1>1
  <2> QED BY <1>2, <1>3, <1>4, <2>1, <2>2 DEF ExactInv, RowsIn
<1>8. QuotaInv
  BY <1>2, <1>3, <1>4, EffectsAssumption DEF QuotaInv, RowsIn
<1>9. ShareInv
  <2> DEFINE share == [r \in DOMAIN usage |-> 0]
  <2>1. share \in [DOMAIN usage -> Nat] /\ \A r \in DOMAIN usage : share[r] = 0
    OBVIOUS
  <2> HIDE DEF share
  <2>2. ASSUME NEW p \in Periods PROVE Sum(share, RowsIn(p)) <= spent[p]
    <3>1. IsFiniteSet(RowsIn(p)) /\ spent[p] = 0
      BY <1>1, <1>5, RowsFinite
    <3>2. CASE RowsIn(p) = {}
      <4>1. Sum(share, RowsIn(p)) = 0
        BY <3>1, <3>2, SumUnfolds
      <4> QED BY <3>1, <4>1
    <3>3. CASE RowsIn(p) # {}
      <4>1. RowsIn(p) = {1} /\ share[1] = 0
        BY <1>3, <2>1, <3>3 DEF RowsIn
      <4>2. Sum(share, {1}) = share[1] + Sum(share, {1} \ {1}) /\ IsFiniteSet({1} \ {1})
        BY <3>1, <4>1, SumRemove, FS_EmptySet
      <4>3. Sum(share, {1} \ {1}) = 0
        BY <4>2, SumUnfolds
      <4> QED BY <3>1, <4>1, <4>2, <4>3
    <3> QED BY <3>2, <3>3
  <2>3. Shares(share)
    BY <1>2, <1>3, <1>4, <2>1, <2>2 DEF Shares
  <2> QED BY <2>1, <2>3 DEF ShareInv
<1> QED BY <1>5, <1>6, <1>7, <1>8, <1>9 DEF UsageInv

\* What get_period_usage hands to a run that has added nothing yet: the month's own
\* row as the table has it, or as the session has read it, or a row of its own.
LEMMA GotProps ==
    ASSUME UsageInv, NEW s \in Sources, pc[s] \in {"idle", "counting"},
           NEW got \in GetPeriodUsage(s)
    PROVE  /\ got \in [mine : Seq(Periods), use : Use]
           /\ got.use.added = 0 /\ got.use.period = period
           /\ \A i \in DOMAIN got.mine : got.mine[i] <= period
           /\ \A i, j \in DOMAIN got.mine : got.mine[i] = got.mine[j] => i = j
           /\ \A i \in DOMAIN got.mine :
                 got.mine[i] \in Mine(s) \/ (got.mine[i] = period /\ RowsIn(period) = {})
           /\ got.use.row # 0 =>
                 /\ got.use.row \in RowsIn(period)
                 /\ got.use = sess[s].use
                    \/ (got.use.tokens = usage[got.use.row].tokens
                        /\ ~(sess[s].use.period = period /\ sess[s].use.row = got.use.row))
           /\ got.use.row = 0 =>
                 got.use.tokens = 0 /\ \E i \in DOMAIN got.mine : got.mine[i] = period
           /\ pc[s] = "idle" /\ got.mine # <<>> =>
                 got.use.row = 0 /\ \A i \in DOMAIN got.mine : got.mine[i] = period
<1> DEFINE known  == sess[s].use
           mine   == sess[s].mine
           own    == \E i \in DOMAIN mine : mine[i] = period
           Get(r) == IF known.period = period /\ known.row = r THEN known
                     ELSE [row |-> r, period |-> period, tokens |-> usage[r].tokens, added |-> 0]
<1>1. /\ period \in Periods /\ period \in Nat /\ sess[s] \in [mine : Seq(Periods), use : Use]
      /\ usage \in Seq([period : Periods, tokens : Nat, quota : {0, Quota}])
  BY DEF UsageInv, MeteringTypes, Periods
<1>2. mine \in Seq(Periods) /\ known \in Use /\ known.row \in Nat /\ known.tokens \in Nat
      /\ known.added \in Nat /\ known.period \in 0 .. MaxPeriod
  BY <1>1 DEF Use
<1>3. /\ known.added = 0 /\ known.period <= period
      /\ \A i \in DOMAIN mine : mine[i] <= known.period
      /\ \A i, j \in DOMAIN mine : mine[i] = mine[j] => i = j
      /\ known.row # 0 => known.row \in RowsIn(known.period)
      /\ known.row = 0 => known.tokens = 0
      /\ mine # <<>> => pc[s] = "counting" /\ known.row = 0
  <2>1. CASE pc[s] = "idle"
    <3>1. sess[s] = NoSess
      BY <2>1 DEF UsageInv, SessInv
    <3> QED BY <1>1, <3>1, EffectsAssumption DEF NoSess, NoUse, Periods
  <2>2. CASE pc[s] = "counting"
    BY <2>2 DEF UsageInv, SessInv
  <2> QED BY <2>1, <2>2
<1>4. own => known.period = period /\ known.row = 0 /\ pc[s] = "counting"
  <2>1. SUFFICES ASSUME NEW i \in DOMAIN mine, mine[i] = period
                 PROVE  known.period = period /\ known.row = 0 /\ pc[s] = "counting"
    OBVIOUS
  <2>2. mine # <<>> /\ period <= known.period
    BY <1>2, <1>3, <2>1
  <2> QED BY <1>1, <1>2, <1>3, <2>2 DEF Periods
<1>5. \A i \in DOMAIN mine : mine[i] \in Mine(s) /\ mine[i] \in Periods /\ mine[i] <= period
  <2>1. ASSUME NEW i \in DOMAIN mine PROVE mine[i] \in Mine(s) /\ mine[i] \in Periods
    BY <1>2 DEF Mine
  <2> QED BY <1>1, <1>2, <1>3, <2>1 DEF Periods
<1>6. CASE RowsIn(period) = {} /\ ~own
  <2>1. got = [mine |-> Append(mine, period), use |-> [NoUse EXCEPT !.period = period]]
    BY <1>6 DEF GetPeriodUsage, RowsIn
  <2>2. /\ got.mine = Append(mine, period) /\ got.use.row = 0 /\ got.use.tokens = 0
        /\ got.use.added = 0 /\ got.use.period = period
        /\ got \in [mine : Seq(Periods), use : Use]
    <3>1. [NoUse EXCEPT !.period = period]
            = [row |-> 0, period |-> period, tokens |-> 0, added |-> 0]
      BY DEF NoUse
    <3>2. [row |-> 0, period |-> period, tokens |-> 0, added |-> 0] \in Use
      BY <1>1, EffectsAssumption DEF Use, Periods
    <3>3. Append(mine, period) \in Seq(Periods)
      BY <1>1, <1>2
    <3> QED BY <2>1, <3>1, <3>2, <3>3
  <2> HIDE DEF mine
  <2>3. /\ DOMAIN got.mine = 1 .. Len(mine) + 1 /\ DOMAIN mine = 1 .. Len(mine) /\ Len(mine) \in Nat
        /\ \A i \in 1 .. Len(mine) : got.mine[i] = mine[i]
        /\ got.mine[Len(mine) + 1] = period
    BY <1>1, <1>2, <2>2
  <2>4. \A i \in DOMAIN got.mine : i \in DOMAIN mine \/ i = Len(mine) + 1
    BY <2>3
  <2>5. \A i \in DOMAIN mine : mine[i] # period
    BY <1>6 DEF mine
  <2>6. \A i, j \in DOMAIN got.mine : got.mine[i] = got.mine[j] => i = j
    BY <1>3, <2>3, <2>4, <2>5 DEF mine
  <2>7. pc[s] = "idle" => \A i \in DOMAIN got.mine : got.mine[i] = period
    BY <1>3, <2>3, <2>4 DEF mine
  <2>8. \A i \in DOMAIN got.mine : got.mine[i] <= period
    BY <1>1, <1>5, <2>3, <2>4 DEF mine
  <2>9. \A i \in DOMAIN got.mine :
           got.mine[i] \in Mine(s) \/ (got.mine[i] = period /\ RowsIn(period) = {})
    BY <1>5, <1>6, <2>3, <2>4 DEF mine
  <2>10. \E i \in DOMAIN got.mine : got.mine[i] = period
    BY <2>3
  <2> QED BY <2>2, <2>6, <2>7, <2>8, <2>9, <2>10
<1>7. CASE ~(RowsIn(period) = {} /\ ~own)
  <2>1. PICK r \in (IF own THEN RowsIn(period) \cup {0} ELSE RowsIn(period)) :
           got = [mine |-> mine, use |-> Get(r)]
    BY <1>7 DEF GetPeriodUsage, RowsIn
  <2>2. got.mine = mine /\ got.use = Get(r)
    BY <2>1
  <2>3. CASE r = 0
    <3>1. own /\ known.period = period /\ known.row = 0
      BY <1>1, <1>4, <2>1, <2>3 DEF RowsIn
    <3>2. got.use = known /\ got = [mine |-> mine, use |-> known]
      BY <2>1, <2>2, <2>3, <3>1
    <3>3. got \in [mine : Seq(Periods), use : Use]
      BY <1>2, <3>2
    <3> HIDE DEF known, mine
    <3> QED BY <1>3, <1>4, <1>5, <2>2, <3>1, <3>2, <3>3
  <2>4. CASE r # 0
    <3>1. r \in RowsIn(period) /\ r \in Nat /\ usage[r].tokens \in Nat
      <4>1. r \in RowsIn(period)
        BY <2>1, <2>4
      <4>2. r \in DOMAIN usage
        BY <4>1 DEF RowsIn
      <4> QED BY <4>1, <4>2, RowTypes DEF UsageInv
    <3>2. got.use.row = r /\ got.use.period = period /\ got.use.added = 0
      BY <1>3, <2>2
    <3>3. got.use = known \/ (got.use.tokens = usage[r].tokens
                              /\ ~(known.period = period /\ known.row = r))
      BY <2>2
    <3>4. got.use \in Use
      BY <1>1, <1>2, <2>2, <3>1, EffectsAssumption DEF Use, Periods
    <3>5. got \in [mine : Seq(Periods), use : Use]
      BY <1>2, <2>1, <3>4
    <3> HIDE DEF known, mine, Get
    <3> QED BY <1>3, <1>5, <2>2, <2>4, <3>1, <3>2, <3>3, <3>5 DEF known
  <2> QED BY <2>3, <2>4
<1> QED BY <1>6, <1>7

\* A session reads or adds to the usage: only what it holds of the table changes.
LEMMA OpenStep ==
    ASSUME UsageInv, NEW s \in Sources, pc[s] \in {"idle", "counting"},
           NEW got \in GetPeriodUsage(s), NEW a \in 0 .. MaxTokens,
           a > 0 => pc[s] = "counting",
           NEW next \in {"queued", "publishing", "ending"},
           next = "queued" => pc[s] = "idle" /\ a = 0 /\ ~IsOverQuota(got.use),
           pc' = [pc EXCEPT ![s] = next],
           Open(s, [got EXCEPT !.use.tokens = @ + a, !.use.added = a])
    PROVE  UsageInv'
<1> DEFINE v == [got EXCEPT !.use.tokens = @ + a, !.use.added = a]
<1>1. /\ got \in [mine : Seq(Periods), use : Use]
      /\ got.use.added = 0 /\ got.use.period = period
      /\ \A i \in DOMAIN got.mine : got.mine[i] <= period
      /\ \A i, j \in DOMAIN got.mine : got.mine[i] = got.mine[j] => i = j
      /\ \A i \in DOMAIN got.mine :
            got.mine[i] \in Mine(s) \/ (got.mine[i] = period /\ RowsIn(period) = {})
      /\ got.use.row # 0 =>
            /\ got.use.row \in RowsIn(period)
            /\ got.use = sess[s].use
               \/ (got.use.tokens = usage[got.use.row].tokens
                   /\ ~(sess[s].use.period = period /\ sess[s].use.row = got.use.row))
      /\ got.use.row = 0 =>
            got.use.tokens = 0 /\ \E i \in DOMAIN got.mine : got.mine[i] = period
      /\ pc[s] = "idle" /\ got.mine # <<>> =>
            got.use.row = 0 /\ \A i \in DOMAIN got.mine : got.mine[i] = period
  BY GotProps
<1>2. /\ MeteringTypes /\ pc \in [Sources -> Stages] /\ SessInv /\ ExactInv /\ QuotaInv
      /\ period \in Periods /\ period \in Nat /\ period # 0 /\ a \in Nat
      /\ sess \in [Sources -> [mine : Seq(Periods), use : Use]]
      /\ raced \in [Periods -> BOOLEAN]
  BY DEF UsageInv, MeteringTypes, Periods
<1>3. /\ got.use \in Use /\ got.mine \in Seq(Periods)
      /\ got.use.row \in Nat /\ got.use.tokens \in Nat
      /\ got = [mine |-> got.mine, use |-> got.use]
      /\ got.use = [row |-> got.use.row, period |-> got.use.period,
                    tokens |-> got.use.tokens, added |-> got.use.added]
  BY <1>1 DEF Use
<1>4. /\ v \in [mine : Seq(Periods), use : Use]
      /\ v.mine = got.mine /\ v.use.row = got.use.row /\ v.use.period = period
      /\ v.use.tokens = got.use.tokens + a /\ v.use.added = a
  <2> DEFINE u1 == [got.use EXCEPT !.tokens = got.use.tokens + a]
             g1 == [got EXCEPT !.use = u1]
  <2>1. v = [g1 EXCEPT !.use = [g1.use EXCEPT !.added = a]]
    BY Zenon
  <2> HIDE DEF v
  <2>2. g1 = [mine |-> got.mine, use |-> u1] /\ g1.use = u1
    <3> HIDE DEF u1
    <3> QED BY <1>1
  <2> HIDE DEF g1
  <2>4. u1 = [row |-> got.use.row, period |-> period, tokens |-> got.use.tokens + a,
              added |-> got.use.added]
    BY <1>1, <1>3 DEF Use
  <2> HIDE DEF u1
  <2>5. [u1 EXCEPT !.added = a]
          = [row |-> got.use.row, period |-> period, tokens |-> got.use.tokens + a, added |-> a]
    BY <2>4
  <2>3. [row |-> got.use.row, period |-> period, tokens |-> got.use.tokens + a, added |-> a] \in Use
    BY <1>1, <1>2, <1>3 DEF Use, Periods
  <2>6. v = [mine |-> got.mine, use |-> [row |-> got.use.row, period |-> period,
                                         tokens |-> got.use.tokens + a, added |-> a]]
    BY <2>1, <2>2, <2>5
  <2> QED BY <1>3, <2>3, <2>6
<1>5. /\ \A t \in Sources : sess'[t] = (IF t = s THEN v ELSE sess[t])
      /\ \A t \in Sources : pc'[t] = (IF t = s THEN next ELSE pc[t])
      /\ sess' \in [Sources -> [mine : Seq(Periods), use : Use]]
      /\ pc' \in [Sources -> Stages]
      /\ usage' = usage /\ period' = period /\ spent' = spent
      /\ raced' = IF \E u \in Sources \ {s} : sess[u].use.period = period
                  THEN [raced EXCEPT ![period] = TRUE] ELSE raced
  <2>1. sess' = [sess EXCEPT ![s] = v]
    BY DEF Open
  <2> HIDE DEF v
  <2> QED BY <1>2, <1>4, <2>1 DEF Stages, Open
<1> HIDE DEF v
<1>6. /\ raced' \in [Periods -> BOOLEAN]
      /\ \A p \in Periods : ~raced'[p] => ~raced[p]
      /\ ~raced'[period] => \A u \in Sources \ {s} : sess[u].use.period # period
  BY <1>2, <1>5
<1>7. /\ \A p : RowsIn(p)' = RowsIn(p)
      /\ \A t \in Sources \ {s} : Mine(t)' = Mine(t)
      /\ Mine(s)' = {got.mine[i] : i \in DOMAIN got.mine}
  BY <1>4, <1>5 DEF RowsIn, Mine
<1>8. Mine(s)' \subseteq Mine(s) \cup {period} /\ \A p \in Mine(s)' : p \in Mine(s) \/ RowsIn(p) = {}
  BY <1>1, <1>7
<1>9. MeteringTypes'
  BY <1>2, <1>5, <1>6 DEF MeteringTypes
<1>10. SessInv'
  <2> SUFFICES ASSUME NEW t \in Sources
        PROVE (/\ pc[t] = "idle" => sess[t] = NoSess
               /\ pc[t] \in {"queued", "counting"} =>
                     /\ sess[t].use.added = 0 /\ sess[t].use.period # 0
                     /\ sess[t].mine # <<>> => sess[t].use.row = 0 /\ Mine(t) = {sess[t].use.period}
               /\ sess[t].use.period <= period
               /\ \A i \in DOMAIN sess[t].mine : sess[t].mine[i] <= sess[t].use.period
               /\ \A i, j \in DOMAIN sess[t].mine : sess[t].mine[i] = sess[t].mine[j] => i = j
               /\ sess[t].use.period = 0 => sess[t] = NoSess
               /\ sess[t].use.row # 0 => sess[t].use.row \in RowsIn(sess[t].use.period)
               /\ sess[t].use.row = 0 =>
                     /\ sess[t].use.tokens = sess[t].use.added
                     /\ sess[t].use.period # 0 => sess[t].use.period \in Mine(t))'
    BY DEF SessInv
  <2>1. CASE t # s
    BY <1>2, <1>5, <1>7, <2>1 DEF SessInv
  <2>2. CASE t = s
    <3>1. sess'[t] = v /\ pc'[t] = next /\ period' = period
      BY <1>5, <2>2
    <3>2. got.use.row = 0 => v.use.tokens = v.use.added /\ period \in Mine(s)'
      BY <1>1, <1>2, <1>4, <1>7
    <3>3. next = "queued" /\ got.mine # <<>> => got.use.row = 0 /\ Mine(s)' = {period}
      BY <1>1, <1>7
    <3> QED BY <1>1, <1>2, <1>4, <1>7, <2>2, <3>1, <3>2, <3>3
  <2> QED BY <2>1, <2>2
<1>11. ExactInv'
  <2> SUFFICES ASSUME NEW p \in Periods, ~raced'[p]
        PROVE (/\ \A t, u \in Sources : Touches(t, p) /\ Touches(u, p) => t = u
               /\ \A t \in Sources : p \in Mine(t) => RowsIn(p) = {}
               /\ \A t \in Sources : sess[t].use.period = p /\ sess[t].use.row # 0 =>
                     sess[t].use.tokens = usage[sess[t].use.row].tokens + sess[t].use.added
               /\ \A r, t \in RowsIn(p) : r = t
               /\ RowsIn(p) = {} => spent[p] = 0
               /\ \A r \in RowsIn(p) : usage[r].tokens = spent[p])'
    BY DEF ExactInv
  <2>1. /\ \A t, u \in Sources : Touches(t, p) /\ Touches(u, p) => t = u
        /\ \A t \in Sources : p \in Mine(t) => RowsIn(p) = {}
        /\ \A t \in Sources : sess[t].use.period = p /\ sess[t].use.row # 0 =>
              sess[t].use.tokens = usage[sess[t].use.row].tokens + sess[t].use.added
        /\ \A r, t \in RowsIn(p) : r = t
        /\ RowsIn(p) = {} => spent[p] = 0
        /\ \A r \in RowsIn(p) : usage[r].tokens = spent[p]
    BY <1>2, <1>6 DEF ExactInv
  <2>2. \A t \in Sources \ {s} : Touches(t, p)' = Touches(t, p)
    BY <1>5, <1>7 DEF Touches
  <2>3. p # period => (Touches(s, p)' => Touches(s, p))
    BY <1>4, <1>5, <1>8 DEF Touches
  <2>4. p = period => \A u \in Sources \ {s} : ~Touches(u, p)
    <3> SUFFICES ASSUME p = period, NEW u \in Sources \ {s}, Touches(u, p) PROVE FALSE
      OBVIOUS
    <3>1. sess[u].use.period # period
      BY <1>6
    <3>2. PICK i \in DOMAIN sess[u].mine : sess[u].mine[i] = period
      BY <3>1 DEF Touches, Mine
    <3>3. period <= sess[u].use.period /\ sess[u].use.period <= period
      BY <1>2, <3>2 DEF SessInv
    <3>4. sess[u].use.period \in 0 .. MaxPeriod
      BY <1>2 DEF Use
    <3> QED BY <1>2, <3>1, <3>3, <3>4
  <2>5. ASSUME NEW t \in Sources, NEW u \in Sources, Touches(t, p)', Touches(u, p)'
        PROVE  t = u
    BY <2>1, <2>2, <2>3, <2>4, <2>5
  <2>6. ASSUME NEW t \in Sources, p \in Mine(t)' PROVE RowsIn(p) = {}
    BY <1>7, <1>8, <2>1, <2>6
  <2>7. ASSUME NEW t \in Sources, sess'[t].use.period = p, sess'[t].use.row # 0
        PROVE  sess'[t].use.tokens = usage[sess'[t].use.row].tokens + sess'[t].use.added
    <3>1. CASE t # s
      BY <1>5, <2>1, <2>7, <3>1
    <3>2. CASE t = s
      <4>1. p = period /\ sess'[t] = v /\ got.use.row # 0
        BY <1>4, <1>5, <2>7, <3>2
      <4>2. got.use.tokens = usage[got.use.row].tokens
        <5>1. CASE got.use = sess[s].use
          <6>1. sess[s].use.tokens = usage[got.use.row].tokens + sess[s].use.added
            BY <1>1, <2>1, <4>1, <5>1
          <6>2. got.use.row \in DOMAIN usage
            BY <1>1, <4>1 DEF RowsIn
          <6>3. usage[got.use.row].tokens \in Nat
            BY <1>2, <6>2, RowTypes
          <6> QED BY <1>1, <5>1, <6>1, <6>3
        <5>2. CASE got.use # sess[s].use
          BY <1>1, <4>1, <5>2
        <5> QED BY <5>1, <5>2
      <4> QED BY <1>4, <4>1, <4>2
    <3> QED BY <3>1, <3>2
  <2>8. \A t, u \in Sources : Touches(t, p)' /\ Touches(u, p)' => t = u
    BY <2>5
  <2>9. \A t \in Sources : p \in Mine(t)' => RowsIn(p) = {}
    BY <2>6
  <2>10. \A t \in Sources : sess'[t].use.period = p /\ sess'[t].use.row # 0 =>
              sess'[t].use.tokens = usage[sess'[t].use.row].tokens + sess'[t].use.added
    BY <2>7
  <2> QED BY <1>5, <1>7, <2>1, <2>8, <2>9, <2>10
<1>12. QuotaInv'
  <2> SUFFICES ASSUME NEW r \in DOMAIN usage, usage[r].quota > 0
        PROVE (/\ usage[r].period = 1 /\ RowsIn(1) = {r}
               /\ usage[r].tokens < usage[r].quota + MaxTokens
               /\ \A t \in Sources :
                     /\ 1 \notin Mine(t)
                     /\ sess[t].use.row = r /\ pc[t] \in {"queued", "counting"} =>
                           sess[t].use.tokens < usage[r].quota
                     /\ sess[t].use.row = r /\ sess[t].use.added > 0 =>
                           sess[t].use.tokens < usage[r].quota + MaxTokens)'
    BY <1>5 DEF QuotaInv
  <2>1. /\ usage[r].period = 1 /\ RowsIn(1) = {r}
        /\ usage[r].tokens < usage[r].quota + MaxTokens
        /\ \A t \in Sources :
              /\ 1 \notin Mine(t)
              /\ sess[t].use.row = r /\ pc[t] \in {"queued", "counting"} =>
                    sess[t].use.tokens < usage[r].quota
              /\ sess[t].use.row = r /\ sess[t].use.added > 0 =>
                    sess[t].use.tokens < usage[r].quota + MaxTokens
    BY <1>2 DEF QuotaInv
  <2>2. usage[r].tokens \in Nat /\ usage[r].quota \in Nat /\ MaxTokens \in Nat /\ r # 0
    BY <1>2, RowTypes, EffectsAssumption
  <2>3. 1 \notin Mine(s)'
    <3>1. RowsIn(1) # {}
      BY <2>1
    <3> QED BY <1>8, <2>1, <3>1
  <2>4. ASSUME v.use.row = r, next = "queued" PROVE v.use.tokens < usage[r].quota
    <3>1. ~IsOverQuota(got.use) /\ a = 0 /\ got.use.row = r
      BY <1>4, <2>4
    <3> QED BY <1>3, <1>4, <2>2, <3>1 DEF IsOverQuota
  <2>5. ASSUME v.use.row = r, a > 0 PROVE v.use.tokens < usage[r].quota + MaxTokens
    <3>1. pc[s] = "counting" /\ got.use.row = r /\ r \in RowsIn(period)
      BY <1>1, <1>4, <2>2, <2>5
    <3>2. period = 1
      BY <2>1, <3>1 DEF RowsIn
    <3>3. sess[s].use.period # 0 /\ sess[s].use.period <= period
      BY <1>2, <3>1 DEF SessInv
    <3>4. sess[s].use.period \in 0 .. MaxPeriod
      BY <1>2 DEF Use
    <3>5. sess[s].use.period = 1
      BY <3>2, <3>3, <3>4, EffectsAssumption
    <3>6. sess[s].use.row # 0
      <4>1. sess[s].use.row = 0 => 1 \in Mine(s)
        BY <1>2, <3>5 DEF SessInv
      <4> QED BY <2>1, <4>1
    <3>7. sess[s].use.row = r
      <4>1. sess[s].use.row \in RowsIn(1)
        BY <1>2, <3>5, <3>6 DEF SessInv
      <4> QED BY <2>1, <4>1
    <3>8. got.use = sess[s].use
      BY <1>1, <2>2, <3>1, <3>2, <3>5, <3>7
    <3>9. got.use.tokens < usage[r].quota
      BY <2>1, <3>1, <3>7, <3>8
    <3> QED BY <1>3, <1>4, <2>2, <3>9
  <2>6. ASSUME NEW t \in Sources
        PROVE  /\ 1 \notin Mine(t)'
               /\ sess'[t].use.row = r /\ pc'[t] \in {"queued", "counting"} =>
                     sess'[t].use.tokens < usage[r].quota
               /\ sess'[t].use.row = r /\ sess'[t].use.added > 0 =>
                     sess'[t].use.tokens < usage[r].quota + MaxTokens
    <3>1. CASE t # s
      BY <1>5, <1>7, <2>1, <3>1
    <3>2. CASE t = s
      <4>1. sess'[t] = v /\ pc'[t] = next
        BY <1>5, <3>2
      <4> QED BY <1>4, <2>3, <2>4, <2>5, <3>2, <4>1
    <3> QED BY <3>1, <3>2
  <2> QED BY <1>5, <1>7, <2>1, <2>6
<1>13. ShareInv'
  <2>1. PICK share \in [DOMAIN usage -> Nat] : Shares(share)
    BY DEF UsageInv, ShareInv
  <2>2. ASSUME NEW t \in Sources, sess'[t].use.row # 0
        PROVE  sess'[t].use.tokens <= share[sess'[t].use.row] + sess'[t].use.added
    <3>1. CASE t # s
      BY <1>5, <2>1, <2>2, <3>1 DEF Shares
    <3>2. CASE t = s
      <4>1. sess'[t] = v /\ got.use.row # 0
        BY <1>4, <1>5, <2>2, <3>2
      <4>2. got.use.row \in DOMAIN usage
        BY <1>1, <4>1 DEF RowsIn
      <4>3. usage[got.use.row].tokens <= share[got.use.row] /\ usage[got.use.row].tokens \in Nat
            /\ share[got.use.row] \in Nat
        BY <1>2, <2>1, <4>2, RowTypes DEF Shares
      <4>4. got.use.tokens <= share[got.use.row]
        <5>1. CASE got.use = sess[s].use
          <6>1. sess[s].use.tokens <= share[sess[s].use.row] + sess[s].use.added
            BY <2>1, <4>1, <5>1 DEF Shares
          <6> QED BY <1>1, <4>3, <5>1, <6>1
        <5>2. CASE got.use # sess[s].use
          BY <1>1, <4>1, <4>3, <5>2
        <5> QED BY <5>1, <5>2
      <4> QED BY <1>2, <1>3, <1>4, <4>1, <4>3, <4>4
    <3> QED BY <3>1, <3>2
  <2>3. \A p \in Periods : Sum(share, RowsIn(p)') <= spent'[p]
    BY <1>5, <1>7, <2>1 DEF Shares
  <2>4. \A r \in DOMAIN usage' : usage'[r].tokens <= share[r]
    BY <1>5, <2>1 DEF Shares
  <2>5. Shares(share)'
    BY <2>2, <2>3, <2>4 DEF Shares
  <2> QED BY <1>5, <2>1, <2>5 DEF ShareInv
<1> QED BY <1>5, <1>9, <1>10, <1>11, <1>12, <1>13 DEF UsageInv

\* Sessions go on, are closed without a commit, or the month ends.
LEMMA CloseStep ==
    ASSUME UsageInv,
           usage' = usage, spent' = spent, raced' = raced,
           period' \in Periods, period <= period',
           sess' \in [Sources -> [mine : Seq(Periods), use : Use]], pc' \in [Sources -> Stages],
           \A s \in Sources :
              \/ /\ sess'[s] = sess[s] /\ (pc'[s] = "idle" => pc[s] = "idle")
                 /\ pc'[s] \in {"queued", "counting"} => pc[s] \in {"queued", "counting"}
              \/ sess'[s] = NoSess /\ pc'[s] = "idle"
    PROVE  UsageInv'
<1>1. /\ MeteringTypes /\ SessInv /\ ExactInv /\ QuotaInv
      /\ period \in Nat /\ period' \in Nat
      /\ sess \in [Sources -> [mine : Seq(Periods), use : Use]]
  BY DEF UsageInv, MeteringTypes, Periods
<1>2. /\ NoSess.mine = <<>> /\ DOMAIN NoSess.mine = {}
      /\ NoSess.use.row = 0 /\ NoSess.use.period = 0
      /\ NoSess.use.tokens = 0 /\ NoSess.use.added = 0
  <2>1. DOMAIN <<>> = {}
    OBVIOUS
  <2> QED BY <2>1 DEF NoSess, NoUse
<1> HIDE DEF NoSess
<1>3. \A p : RowsIn(p)' = RowsIn(p)
  BY DEF RowsIn
<1>4. \A s \in Sources : /\ sess'[s] = sess[s] => Mine(s)' = Mine(s)
                         /\ sess'[s] = NoSess => Mine(s)' = {}
  BY <1>2 DEF Mine
<1>5. MeteringTypes'
  BY <1>1 DEF MeteringTypes
<1>6. SessInv'
  <2> SUFFICES ASSUME NEW s \in Sources
        PROVE (/\ pc[s] = "idle" => sess[s] = NoSess
               /\ pc[s] \in {"queued", "counting"} =>
                     /\ sess[s].use.added = 0 /\ sess[s].use.period # 0
                     /\ sess[s].mine # <<>> => sess[s].use.row = 0 /\ Mine(s) = {sess[s].use.period}
               /\ sess[s].use.period <= period
               /\ \A i \in DOMAIN sess[s].mine : sess[s].mine[i] <= sess[s].use.period
               /\ \A i, j \in DOMAIN sess[s].mine : sess[s].mine[i] = sess[s].mine[j] => i = j
               /\ sess[s].use.period = 0 => sess[s] = NoSess
               /\ sess[s].use.row # 0 => sess[s].use.row \in RowsIn(sess[s].use.period)
               /\ sess[s].use.row = 0 =>
                     /\ sess[s].use.tokens = sess[s].use.added
                     /\ sess[s].use.period # 0 => sess[s].use.period \in Mine(s))'
    BY DEF SessInv
  <2>1. CASE /\ sess'[s] = sess[s] /\ (pc'[s] = "idle" => pc[s] = "idle")
             /\ pc'[s] \in {"queued", "counting"} => pc[s] \in {"queued", "counting"}
    <3>1. sess[s].use.period \in 0 .. MaxPeriod
      BY <1>1 DEF Use
    <3>2. sess[s].use.period <= period'
      BY <1>1, <3>1, EffectsAssumption DEF SessInv
    <3> QED BY <1>1, <1>3, <1>4, <2>1, <3>2 DEF SessInv
  <2>2. CASE sess'[s] = NoSess /\ pc'[s] = "idle"
    BY <1>1, <1>2, <2>2
  <2> QED BY <2>1, <2>2
<1>7. ASSUME NEW p \in Periods, NEW s \in Sources, Touches(s, p)'
      PROVE  Touches(s, p) /\ sess'[s] = sess[s]
  <2>1. sess'[s] # NoSess
    BY <1>2, <1>4, <1>7 DEF Touches, Periods
  <2> QED BY <1>4, <1>7, <2>1 DEF Touches
<1>8. ExactInv'
  <2> SUFFICES ASSUME NEW p \in Periods, ~raced[p]
        PROVE (/\ \A t, u \in Sources : Touches(t, p) /\ Touches(u, p) => t = u
               /\ \A t \in Sources : p \in Mine(t) => RowsIn(p) = {}
               /\ \A t \in Sources : sess[t].use.period = p /\ sess[t].use.row # 0 =>
                     sess[t].use.tokens = usage[sess[t].use.row].tokens + sess[t].use.added
               /\ \A r, t \in RowsIn(p) : r = t
               /\ RowsIn(p) = {} => spent[p] = 0
               /\ \A r \in RowsIn(p) : usage[r].tokens = spent[p])'
    BY DEF ExactInv
  <2>1. \A t \in Sources : p \in Mine(t)' => Mine(t)' = Mine(t)
    BY <1>4
  <2>2. \A t \in Sources : sess'[t].use.row # 0 => sess'[t] = sess[t]
    BY <1>2
  <2>3. /\ \A t, u \in Sources : Touches(t, p) /\ Touches(u, p) => t = u
        /\ \A t \in Sources : p \in Mine(t) => RowsIn(p) = {}
        /\ \A t \in Sources : sess[t].use.period = p /\ sess[t].use.row # 0 =>
              sess[t].use.tokens = usage[sess[t].use.row].tokens + sess[t].use.added
        /\ \A r, t \in RowsIn(p) : r = t
        /\ RowsIn(p) = {} => spent[p] = 0
        /\ \A r \in RowsIn(p) : usage[r].tokens = spent[p]
    BY <1>1 DEF ExactInv
  <2>4. \A t, u \in Sources : Touches(t, p)' /\ Touches(u, p)' => t = u
    BY <1>7, <2>3
  <2>5. \A t \in Sources : p \in Mine(t)' => RowsIn(p) = {}
    BY <2>1, <2>3
  <2>6. ASSUME NEW t \in Sources, sess'[t].use.period = p, sess'[t].use.row # 0
        PROVE  sess'[t].use.tokens = usage[sess'[t].use.row].tokens + sess'[t].use.added
    BY <2>2, <2>3, <2>6
  <2> QED BY <1>3, <2>3, <2>4, <2>5, <2>6
<1>9. QuotaInv'
  <2> SUFFICES ASSUME NEW r \in DOMAIN usage, usage[r].quota > 0
        PROVE (/\ usage[r].period = 1 /\ RowsIn(1) = {r}
               /\ usage[r].tokens < usage[r].quota + MaxTokens
               /\ \A t \in Sources :
                     /\ 1 \notin Mine(t)
                     /\ sess[t].use.row = r /\ pc[t] \in {"queued", "counting"} =>
                           sess[t].use.tokens < usage[r].quota
                     /\ sess[t].use.row = r /\ sess[t].use.added > 0 =>
                           sess[t].use.tokens < usage[r].quota + MaxTokens)'
    BY DEF QuotaInv
  <2>1. ASSUME NEW t \in Sources
        PROVE  /\ 1 \notin Mine(t)'
               /\ sess'[t].use.row = r /\ pc'[t] \in {"queued", "counting"} =>
                     sess'[t].use.tokens < usage[r].quota
               /\ sess'[t].use.row = r /\ sess'[t].use.added > 0 =>
                     sess'[t].use.tokens < usage[r].quota + MaxTokens
    <3>1. r # 0
      BY <1>1, RowTypes
    <3> QED BY <1>1, <1>2, <1>4, <3>1 DEF QuotaInv
  <2> QED BY <1>1, <1>3, <2>1 DEF QuotaInv
<1>10. ShareInv'
  <2>1. PICK share \in [DOMAIN usage -> Nat] : Shares(share)
    BY DEF UsageInv, ShareInv
  <2>2. \A t \in Sources : sess'[t].use.row # 0 => sess'[t] = sess[t]
    BY <1>2
  <2>3. Shares(share)'
    BY <1>3, <2>1, <2>2 DEF Shares
  <2> QED BY <2>1, <2>3 DEF ShareInv
<1> QED BY <1>5, <1>6, <1>8, <1>9, <1>10 DEF UsageInv

\* The rows after a commit: those there were, of which the session's has its sum,
\* and the session's own.
LEMMA CommitRows ==
    ASSUME UsageInv, NEW s \in Sources, CommitUsage(s)
    PROVE  /\ usage' \in Seq([period : Periods, tokens : Nat, quota : {0, Quota}])
           /\ DOMAIN usage' = 1 .. Len(usage) + Len(sess[s].mine)
           /\ DOMAIN usage \subseteq DOMAIN usage'
           /\ \A r \in DOMAIN usage :
                 /\ usage'[r].period = usage[r].period /\ usage'[r].quota = usage[r].quota
                 /\ usage'[r].tokens = IF sess[s].use.added > 0 /\ sess[s].use.row = r
                                       THEN sess[s].use.tokens ELSE usage[r].tokens
           /\ \A i \in DOMAIN sess[s].mine :
                 /\ usage'[Len(usage) + i].period = sess[s].mine[i]
                 /\ usage'[Len(usage) + i].quota = 0
                 /\ usage'[Len(usage) + i].tokens =
                       IF sess[s].use.row = 0 /\ sess[s].use.period = sess[s].mine[i]
                       THEN sess[s].use.added ELSE 0
           /\ \A r \in DOMAIN usage' :
                 r \in DOMAIN usage \/ \E i \in DOMAIN sess[s].mine : r = Len(usage) + i
<1> DEFINE Row     == [period : Periods, tokens : Nat, quota : {0, Quota}]
           use     == sess[s].use
           mine    == sess[s].mine
           NewRow(p) == [period |-> p, quota |-> 0,
                         tokens |-> IF use.row = 0 /\ use.period = p THEN use.tokens ELSE 0]
           new     == [i \in DOMAIN mine |-> NewRow(mine[i])]
           updated == IF use.added > 0 /\ use.row # 0
                      THEN [usage EXCEPT ![use.row].tokens = use.tokens] ELSE usage
<1>1. usage' = updated \o new
  BY DEF CommitUsage
<1>2. /\ usage \in Seq(Row) /\ sess[s] \in [mine : Seq(Periods), use : Use]
      /\ mine \in Seq(Periods) /\ use \in Use
  BY DEF UsageInv, MeteringTypes
<1>3. use.row \in Nat /\ use.tokens \in Nat /\ use.added \in Nat
  BY <1>2 DEF Use
<1>4. /\ use.row # 0 => use.row \in DOMAIN usage
      /\ use.row = 0 => use.tokens = use.added
  BY DEF UsageInv, SessInv, RowsIn
<1>5. /\ DOMAIN usage = 1 .. Len(usage) /\ Len(usage) \in Nat
      /\ DOMAIN mine = 1 .. Len(mine) /\ Len(mine) \in Nat
      /\ \A i \in DOMAIN mine : mine[i] \in Periods
      /\ \A r \in DOMAIN usage : usage[r] \in Row
  <2> HIDE DEF Row, mine
  <2> QED BY <1>2
<1>6. /\ updated \in Seq(Row) /\ Len(updated) = Len(usage)
      /\ \A r \in DOMAIN usage :
            /\ updated[r].period = usage[r].period /\ updated[r].quota = usage[r].quota
            /\ updated[r].tokens = IF use.added > 0 /\ use.row = r THEN use.tokens ELSE usage[r].tokens
  <2>1. CASE use.added > 0 /\ use.row # 0
    <3> DEFINE w == [usage[use.row] EXCEPT !.tokens = use.tokens]
    <3>1. use.row \in DOMAIN usage /\ usage[use.row] \in Row
      BY <1>4, <1>5, <2>1
    <3>2. w \in Row /\ w.period = usage[use.row].period /\ w.quota = usage[use.row].quota
          /\ w.tokens = use.tokens
      BY <1>3, <3>1
    <3>3. updated = [usage EXCEPT ![use.row] = w]
      BY <2>1
    <3> HIDE DEF w, updated, use, Row
    <3>4. /\ updated \in Seq(Row) /\ Len(updated) = Len(usage)
          /\ \A r \in DOMAIN usage : updated[r] = IF r = use.row THEN w ELSE usage[r]
      BY <1>2, <3>1, <3>2, <3>3
    <3> QED BY <2>1, <3>2, <3>4
  <2>2. CASE ~(use.added > 0 /\ use.row # 0)
    <3>1. updated = usage
      BY <2>2
    <3>2. ASSUME NEW r \in DOMAIN usage PROVE ~(use.added > 0 /\ use.row = r)
      BY <1>5, <2>2
    <3> HIDE DEF updated, use
    <3> QED BY <1>2, <3>1, <3>2
  <2> QED BY <2>1, <2>2
<1>7. ASSUME NEW i \in DOMAIN mine
      PROVE  /\ new[i] \in Row /\ new[i].period = mine[i] /\ new[i].quota = 0
             /\ new[i].tokens = IF use.row = 0 /\ use.period = mine[i] THEN use.added ELSE 0
  <2>1. new[i] = NewRow(mine[i]) /\ mine[i] \in Periods
    BY <1>5
  <2> QED BY <1>3, <1>4, <2>1
<1>8. new \in Seq(Row) /\ Len(new) = Len(mine) /\ DOMAIN new = DOMAIN mine
  <2> HIDE DEF Row, NewRow, mine
  <2>1. new \in [1 .. Len(mine) -> Row]
    BY <1>5, <1>7
  <2> QED BY <1>5, <2>1
<1> HIDE DEF updated, new, use, mine, Row, NewRow
<1>9. /\ updated \o new \in Seq(Row)
      /\ DOMAIN (updated \o new) = 1 .. Len(usage) + Len(mine)
      /\ \A r \in 1 .. Len(usage) : (updated \o new)[r] = updated[r]
      /\ \A i \in 1 .. Len(mine) : (updated \o new)[Len(usage) + i] = new[i]
  <2>1. /\ updated \o new \in Seq(Row)
        /\ Len(updated \o new) = Len(usage) + Len(mine)
        /\ \A i \in 1 .. Len(usage) + Len(mine) : (updated \o new)[i] =
              IF i <= Len(usage) THEN updated[i] ELSE new[i - Len(usage)]
    <3>1. /\ updated \o new \in Seq(Row)
          /\ Len(updated \o new) = Len(updated) + Len(new)
          /\ \A i \in 1 .. Len(updated) + Len(new) : (updated \o new)[i] =
                IF i <= Len(updated) THEN updated[i] ELSE new[i - Len(updated)]
      <4>1. updated \in Seq(Row) /\ new \in Seq(Row)
        BY <1>6, <1>8
      <4>2. updated \o new \in Seq(Row)
        BY <4>1
      <4>3. Len(updated \o new) = Len(updated) + Len(new)
        BY <4>1
      <4>4. \A i \in 1 .. Len(updated) + Len(new) : (updated \o new)[i] =
                IF i <= Len(updated) THEN updated[i] ELSE new[i - Len(updated)]
        BY <4>1
      <4> QED BY <4>2, <4>3, <4>4
    <3> QED BY <1>6, <1>8, <3>1, Zenon
  <2>2. \A i \in 1 .. Len(mine) : /\ Len(usage) + i \in 1 .. Len(usage) + Len(mine)
                                  /\ ~(Len(usage) + i <= Len(usage))
                                  /\ (Len(usage) + i) - Len(usage) = i
    BY <1>5
  <2>3. \A r \in 1 .. Len(usage) : r \in 1 .. Len(usage) + Len(mine) /\ r <= Len(usage)
    BY <1>5
  <2>4. DOMAIN (updated \o new) = 1 .. Len(usage) + Len(mine)
    BY <2>1
  <2> QED BY <2>1, <2>2, <2>3, <2>4
<1>10. \A r \in 1 .. Len(usage) + Len(mine) :
          r \in 1 .. Len(usage) \/ \E i \in 1 .. Len(mine) : r = Len(usage) + i
  <2> SUFFICES ASSUME NEW r \in 1 .. Len(usage) + Len(mine), r \notin 1 .. Len(usage)
               PROVE  \E i \in 1 .. Len(mine) : r = Len(usage) + i
    OBVIOUS
  <2>1. r - Len(usage) \in 1 .. Len(mine) /\ r = Len(usage) + (r - Len(usage))
    BY <1>5
  <2> QED BY <2>1
<1>11. /\ \A r \in DOMAIN usage : usage'[r] = updated[r]
       /\ \A i \in DOMAIN mine : usage'[Len(usage) + i] = new[i]
       /\ DOMAIN usage' = 1 .. Len(usage) + Len(mine)
       /\ DOMAIN usage \subseteq DOMAIN usage'
       /\ usage' \in Seq(Row)
       /\ \A r \in DOMAIN usage' : r \in DOMAIN usage \/ \E i \in DOMAIN mine : r = Len(usage) + i
  <2>1. DOMAIN usage = 1 .. Len(usage) /\ DOMAIN mine = 1 .. Len(mine)
    BY <1>5
  <2>2. 1 .. Len(usage) \subseteq 1 .. Len(usage) + Len(mine)
    BY <1>5
  <2> QED BY <1>1, <1>9, <1>10, <2>1, <2>2
<1>12. \A r \in DOMAIN usage :
          /\ usage'[r].period = usage[r].period /\ usage'[r].quota = usage[r].quota
          /\ usage'[r].tokens = IF use.added > 0 /\ use.row = r THEN use.tokens ELSE usage[r].tokens
  BY <1>6, <1>11
<1>13. \A i \in DOMAIN mine :
          /\ usage'[Len(usage) + i].period = mine[i] /\ usage'[Len(usage) + i].quota = 0
          /\ usage'[Len(usage) + i].tokens =
                IF use.row = 0 /\ use.period = mine[i] THEN use.added ELSE 0
  BY <1>7, <1>11
<1> QED BY <1>11, <1>12, <1>13 DEF use, mine, Row

\* A run commits: its tokens are in one row and in what was spent.
LEMMA CommitStep ==
    ASSUME UsageInv, NEW s \in Sources, CommitUsage(s),
           pc' = [pc EXCEPT ![s] = "idle"]
    PROVE  UsageInv'
<1> DEFINE use  == sess[s].use
           mine == sess[s].mine
           n    == Len(usage)
           Old(r) == IF use.added > 0 /\ use.row = r THEN use.tokens ELSE usage[r].tokens
           New(p) == IF use.row = 0 /\ use.period = p THEN use.added ELSE 0
<1>1. /\ usage' \in Seq([period : Periods, tokens : Nat, quota : {0, Quota}])
      /\ DOMAIN usage' = 1 .. n + Len(mine) /\ DOMAIN usage \subseteq DOMAIN usage'
      /\ \A r \in DOMAIN usage : /\ usage'[r].period = usage[r].period
                                 /\ usage'[r].quota = usage[r].quota /\ usage'[r].tokens = Old(r)
      /\ \A i \in DOMAIN mine : /\ usage'[n + i].period = mine[i] /\ usage'[n + i].quota = 0
                                /\ usage'[n + i].tokens = New(mine[i])
      /\ \A r \in DOMAIN usage' : r \in DOMAIN usage \/ \E i \in DOMAIN mine : r = n + i
  BY CommitRows
<1>2. /\ MeteringTypes /\ SessInv /\ ExactInv /\ QuotaInv /\ pc \in [Sources -> Stages]
      /\ sess \in [Sources -> [mine : Seq(Periods), use : Use]]
      /\ usage \in Seq([period : Periods, tokens : Nat, quota : {0, Quota}])
      /\ spent \in [Periods -> Nat] /\ raced \in [Periods -> BOOLEAN] /\ period \in Periods
  BY DEF UsageInv, MeteringTypes
<1>3. /\ use.row \in Nat /\ use.tokens \in Nat /\ use.added \in Nat /\ use.period \in 0 .. MaxPeriod
      /\ mine \in Seq(Periods)
  <2>1. use \in Use /\ mine \in Seq(Periods)
    BY <1>2
  <2> QED BY <2>1 DEF Use
<1>4. n \in Nat /\ DOMAIN usage = 1 .. n /\ DOMAIN mine = 1 .. Len(mine) /\ Len(mine) \in Nat
      /\ \A i \in DOMAIN mine : mine[i] \in Periods
  BY <1>2, <1>3
<1>5. /\ NoSess \in [mine : Seq(Periods), use : Use]
      /\ NoSess.mine = <<>> /\ DOMAIN NoSess.mine = {}
      /\ NoSess.use.row = 0 /\ NoSess.use.period = 0
      /\ NoSess.use.tokens = 0 /\ NoSess.use.added = 0
  <2>1. DOMAIN <<>> = {}
    OBVIOUS
  <2> QED BY <2>1, EffectsAssumption DEF NoSess, NoUse, Use
<1>6. /\ sess' = [sess EXCEPT ![s] = NoSess] /\ period' = period /\ raced' = raced
      /\ spent' = IF use.added > 0 THEN [spent EXCEPT ![use.period] = @ + use.added] ELSE spent
  BY DEF CommitUsage
<1> HIDE DEF NoSess
<1>7. /\ \A t \in Sources : sess'[t] = (IF t = s THEN NoSess ELSE sess[t])
      /\ \A t \in Sources : pc'[t] = (IF t = s THEN "idle" ELSE pc[t])
      /\ sess' \in [Sources -> [mine : Seq(Periods), use : Use]]
      /\ pc' \in [Sources -> Stages]
  BY <1>2, <1>5, <1>6 DEF Stages
<1>8. /\ use.row # 0 => use.row \in RowsIn(use.period) /\ use.row \in DOMAIN usage
      /\ use.row = 0 => use.tokens = use.added
      /\ use.row = 0 /\ use.period # 0 => use.period \in Mine(s)
      /\ use.added > 0 => use.period # 0
      /\ \A i, j \in DOMAIN mine : mine[i] = mine[j] => i = j
  <2>1. use.period = 0 => use.added = 0
    BY <1>2, <1>5 DEF SessInv
  <2>2. /\ use.row # 0 => use.row \in RowsIn(use.period)
        /\ use.row = 0 => use.tokens = use.added
        /\ use.row = 0 /\ use.period # 0 => use.period \in Mine(s)
        /\ \A i, j \in DOMAIN mine : mine[i] = mine[j] => i = j
    BY <1>2 DEF SessInv
  <2>3. use.row # 0 => use.row \in DOMAIN usage
    BY <2>2 DEF RowsIn
  <2> HIDE DEF use, mine
  <2> QED BY <1>3, <2>1, <2>2, <2>3
<1>9. \A p \in Periods :
         spent'[p] = spent[p] + (IF use.added > 0 /\ use.period = p THEN use.added ELSE 0)
  <2>1. use.added > 0 => use.period \in Periods
    BY <1>3, <1>8, EffectsAssumption DEF Periods
  <2> HIDE DEF use
  <2> QED BY <1>2, <1>3, <1>6, <2>1
<1>10. spent' \in [Periods -> Nat]
  <2>1. use.added > 0 => use.period \in Periods
    BY <1>3, <1>8, EffectsAssumption DEF Periods
  <2> HIDE DEF use
  <2> QED BY <1>2, <1>3, <1>6, <2>1
<1>11. \A p : Mine(s) = {mine[i] : i \in DOMAIN mine}
  BY DEF Mine
<1>12. /\ \A t \in Sources \ {s} : Mine(t)' = Mine(t)
       /\ Mine(s)' = {}
  BY <1>5, <1>7 DEF Mine
<1> HIDE DEF use, mine, n
<1>13. \A i \in DOMAIN mine : n + i \in DOMAIN usage' /\ n + i \notin DOMAIN usage
  BY <1>1, <1>4
<1>14. ASSUME NEW p, p \notin Mine(s) PROVE RowsIn(p)' = RowsIn(p)
  <2>1. ASSUME NEW r \in DOMAIN usage', usage'[r].period = p PROVE r \in DOMAIN usage
    BY <1>1, <1>11, <1>14, <2>1
  <2> QED BY <1>1, <2>1 DEF RowsIn
<1>15. ASSUME NEW p \in Mine(s)
       PROVE  \E i \in DOMAIN mine : mine[i] = p /\ RowsIn(p)' = RowsIn(p) \cup {n + i}
                                     /\ n + i \notin RowsIn(p)
  <2>1. PICK i \in DOMAIN mine : mine[i] = p
    BY <1>11, <1>15
  <2>2. ASSUME NEW r \in DOMAIN usage', usage'[r].period = p PROVE r \in DOMAIN usage \/ r = n + i
    BY <1>1, <1>8, <2>1, <2>2
  <2>3. n + i \in DOMAIN usage' /\ n + i \notin DOMAIN usage /\ usage'[n + i].period = p
    BY <1>1, <1>13, <2>1
  <2> QED BY <1>1, <2>1, <2>2, <2>3 DEF RowsIn
<1>16. MeteringTypes'
  BY <1>1, <1>2, <1>6, <1>7, <1>10 DEF MeteringTypes
<1>17. SessInv'
  <2> SUFFICES ASSUME NEW t \in Sources
        PROVE (/\ pc[t] = "idle" => sess[t] = NoSess
               /\ pc[t] \in {"queued", "counting"} =>
                     /\ sess[t].use.added = 0 /\ sess[t].use.period # 0
                     /\ sess[t].mine # <<>> => sess[t].use.row = 0 /\ Mine(t) = {sess[t].use.period}
               /\ sess[t].use.period <= period
               /\ \A i \in DOMAIN sess[t].mine : sess[t].mine[i] <= sess[t].use.period
               /\ \A i, j \in DOMAIN sess[t].mine : sess[t].mine[i] = sess[t].mine[j] => i = j
               /\ sess[t].use.period = 0 => sess[t] = NoSess
               /\ sess[t].use.row # 0 => sess[t].use.row \in RowsIn(sess[t].use.period)
               /\ sess[t].use.row = 0 =>
                     /\ sess[t].use.tokens = sess[t].use.added
                     /\ sess[t].use.period # 0 => sess[t].use.period \in Mine(t))'
    BY DEF SessInv
  <2>1. CASE t # s
    <3>1. \A p : RowsIn(p) \subseteq RowsIn(p)'
      BY <1>1 DEF RowsIn
    <3> QED BY <1>2, <1>6, <1>7, <1>12, <2>1, <3>1 DEF SessInv
  <2>2. CASE t = s
    <3>1. sess'[t] = NoSess /\ pc'[t] = "idle" /\ 0 <= period'
      BY <1>2, <1>6, <1>7, <2>2 DEF Periods
    <3> QED BY <1>5, <3>1
  <2> QED BY <2>1, <2>2

<1>18. ExactInv'
  <2> SUFFICES ASSUME NEW p \in Periods, ~raced[p]
        PROVE (/\ \A t, u \in Sources : Touches(t, p) /\ Touches(u, p) => t = u
               /\ \A t \in Sources : p \in Mine(t) => RowsIn(p) = {}
               /\ \A t \in Sources : sess[t].use.period = p /\ sess[t].use.row # 0 =>
                     sess[t].use.tokens = usage[sess[t].use.row].tokens + sess[t].use.added
               /\ \A r, t \in RowsIn(p) : r = t
               /\ RowsIn(p) = {} => spent[p] = 0
               /\ \A r \in RowsIn(p) : usage[r].tokens = spent[p])'
    BY <1>6 DEF ExactInv
  <2>1. /\ \A t, u \in Sources : Touches(t, p) /\ Touches(u, p) => t = u
        /\ \A t \in Sources : p \in Mine(t) => RowsIn(p) = {}
        /\ \A t \in Sources : sess[t].use.period = p /\ sess[t].use.row # 0 =>
              sess[t].use.tokens = usage[sess[t].use.row].tokens + sess[t].use.added
        /\ \A r, t \in RowsIn(p) : r = t
        /\ RowsIn(p) = {} => spent[p] = 0
        /\ \A r \in RowsIn(p) : usage[r].tokens = spent[p]
    BY <1>2 DEF ExactInv
  <2>2. ~Touches(s, p)' /\ \A t \in Sources \ {s} : Touches(t, p)' = Touches(t, p)
    <3>1. p # 0
      BY DEF Periods
    <3> QED BY <1>5, <1>7, <1>12, <3>1 DEF Touches
  <2>3. \A t, u \in Sources : Touches(t, p)' /\ Touches(u, p)' => t = u
    BY <2>1, <2>2
  <2>4. p \in Mine(s) \/ (use.added > 0 /\ use.period = p) => \A t \in Sources \ {s} : ~Touches(t, p)
    <3>1. p \in Mine(s) \/ (use.added > 0 /\ use.period = p) => Touches(s, p)
      BY DEF Touches, use
    <3> QED BY <2>1, <3>1
  <2>5. CASE p \in Mine(s)
    <3>1. PICK i \in DOMAIN mine : mine[i] = p /\ RowsIn(p)' = RowsIn(p) \cup {n + i}
      BY <1>15, <2>5
    <3>2. RowsIn(p) = {} /\ RowsIn(p)' = {n + i} /\ spent[p] = 0
      BY <2>1, <2>5, <3>1
    <3>3. use.period = p => use.row = 0
      BY <1>8, <3>2
    <3>4. usage'[n + i].tokens = IF use.period = p THEN use.added ELSE 0
      BY <1>1, <3>1, <3>3
    <3>5. usage'[n + i].tokens = spent'[p]
      BY <1>3, <1>9, <3>2, <3>4
    <3>6. ASSUME NEW t \in Sources PROVE p \notin Mine(t)' /\ sess'[t].use.period # p
      <4>1. ~Touches(t, p)'
        BY <2>2, <2>4, <2>5
      <4> QED BY <4>1 DEF Touches
    <3> QED BY <2>3, <3>2, <3>5, <3>6
  <2>6. CASE p \notin Mine(s)
    <3>1. RowsIn(p)' = RowsIn(p)
      BY <1>14, <2>6
    <3>2. \A t \in Sources : p \in Mine(t)' => p \in Mine(t)
      BY <1>12
    <3>3. CASE use.added > 0 /\ use.period = p
      <4>1. use.row \in RowsIn(p) /\ use.row \in DOMAIN usage /\ use.row # 0
        BY <1>8, <1>9, <2>6, <3>3
      <4>2. RowsIn(p) = {use.row}
        BY <2>1, <4>1
      <4>3. use.tokens = usage[use.row].tokens + use.added
        BY <2>1, <3>3, <4>1 DEF use
      <4>4. usage'[use.row].tokens = use.tokens
        BY <1>1, <3>3, <4>1
      <4>5. \A r \in RowsIn(p) : usage'[r].tokens = spent'[p]
        BY <1>9, <2>1, <3>3, <4>2, <4>3, <4>4
      <4>6. \A t \in Sources : sess'[t].use.period # p
        BY <2>2, <2>4, <3>3 DEF Touches
      <4> QED BY <2>1, <2>3, <3>1, <3>2, <4>2, <4>5, <4>6
    <3>4. CASE ~(use.added > 0 /\ use.period = p)
      <4>1. \A r \in RowsIn(p) : r \in DOMAIN usage /\ usage[r].period = p
        BY DEF RowsIn
      <4>2. use.added > 0 /\ use.row # 0 => use.row \notin RowsIn(p)
        BY <1>8, <3>4 DEF RowsIn
      <4>3. \A r \in RowsIn(p) : usage'[r].tokens = usage[r].tokens
        <5> SUFFICES ASSUME NEW r \in RowsIn(p) PROVE usage'[r].tokens = usage[r].tokens
          OBVIOUS
        <5>1. r \in DOMAIN usage /\ r # 0
          BY <1>2, <4>1, RowTypes
        <5>2. ~(use.added > 0 /\ use.row = r)
          BY <4>2, <5>1
        <5> QED BY <1>1, <5>1, <5>2
      <4>4. spent'[p] = spent[p]
        BY <1>2, <1>9, <3>4
      <4>5. ASSUME NEW t \in Sources, sess'[t].use.period = p, sess'[t].use.row # 0
            PROVE  sess'[t].use.tokens = usage'[sess'[t].use.row].tokens + sess'[t].use.added
        <5>1. sess'[t] = sess[t]
          BY <1>5, <1>7, <4>5
        <5>2. sess[t].use.row \in RowsIn(p)
          BY <1>2, <4>5, <5>1 DEF SessInv
        <5> QED BY <2>1, <4>3, <4>5, <5>1, <5>2
      <4> QED BY <2>1, <2>3, <3>1, <3>2, <4>3, <4>4, <4>5
    <3> QED BY <3>3, <3>4
  <2> QED BY <2>5, <2>6
<1>19. QuotaInv'
  <2> SUFFICES ASSUME NEW r \in DOMAIN usage', usage'[r].quota > 0
        PROVE (/\ usage[r].period = 1 /\ RowsIn(1) = {r}
               /\ usage[r].tokens < usage[r].quota + MaxTokens
               /\ \A t \in Sources :
                     /\ 1 \notin Mine(t)
                     /\ sess[t].use.row = r /\ pc[t] \in {"queued", "counting"} =>
                           sess[t].use.tokens < usage[r].quota
                     /\ sess[t].use.row = r /\ sess[t].use.added > 0 =>
                           sess[t].use.tokens < usage[r].quota + MaxTokens)'
    BY DEF QuotaInv
  <2>1. r \in DOMAIN usage /\ usage[r].quota > 0 /\ usage'[r].quota = usage[r].quota
    BY <1>1
  <2>2. /\ usage[r].period = 1 /\ RowsIn(1) = {r}
        /\ usage[r].tokens < usage[r].quota + MaxTokens
        /\ \A t \in Sources :
              /\ 1 \notin Mine(t)
              /\ sess[t].use.row = r /\ pc[t] \in {"queued", "counting"} =>
                    sess[t].use.tokens < usage[r].quota
              /\ sess[t].use.row = r /\ sess[t].use.added > 0 =>
                    sess[t].use.tokens < usage[r].quota + MaxTokens
    BY <1>2, <2>1 DEF QuotaInv
  <2>3. RowsIn(1)' = {r} /\ usage'[r].period = 1 /\ r # 0
    BY <1>1, <1>2, <1>14, <2>1, <2>2, RowTypes
  <2>4. usage'[r].tokens < usage'[r].quota + MaxTokens
    BY <1>1, <2>1, <2>2 DEF use
  <2>5. ASSUME NEW t \in Sources
        PROVE  /\ 1 \notin Mine(t)'
               /\ sess'[t].use.row = r /\ pc'[t] \in {"queued", "counting"} =>
                     sess'[t].use.tokens < usage'[r].quota
               /\ sess'[t].use.row = r /\ sess'[t].use.added > 0 =>
                     sess'[t].use.tokens < usage'[r].quota + MaxTokens
    BY <1>5, <1>7, <1>12, <2>1, <2>2, <2>3
  <2> QED BY <2>3, <2>4, <2>5
<1>20. \A r \in DOMAIN usage' : usage'[r].tokens \in Nat
  <2>1. ASSUME NEW r \in DOMAIN usage PROVE usage[r].tokens \in Nat
    BY <1>2, RowTypes
  <2>2. ASSUME NEW r \in DOMAIN usage PROVE usage'[r].tokens \in Nat
    BY <1>1, <1>3, <2>1
  <2>3. ASSUME NEW i \in DOMAIN mine PROVE usage'[n + i].tokens \in Nat
    <3>1. usage'[n + i].tokens = New(mine[i])
      BY <1>1
    <3> QED BY <1>3, <3>1
  <2>4. \A r \in DOMAIN usage' : r \in DOMAIN usage \/ \E i \in DOMAIN mine : r = n + i
    BY <1>1
  <2> QED BY <2>2, <2>3, <2>4
<1>21. ShareInv'
  <2>1. PICK share \in [DOMAIN usage -> Nat] : Shares(share)
    BY DEF UsageInv, ShareInv
  <2> DEFINE plus(r) == IF use.added > 0 /\ use.row = r THEN use.added ELSE 0
             after == [r \in DOMAIN usage' |-> IF r \in DOMAIN usage THEN share[r] + plus(r)
                                               ELSE usage'[r].tokens]
  <2>2. /\ \A r \in DOMAIN usage : after[r] = share[r] + plus(r) /\ plus(r) \in Nat
                                   /\ share[r] \in Nat
        /\ \A r \in DOMAIN usage' \ DOMAIN usage : after[r] = usage'[r].tokens
        /\ after \in [DOMAIN usage' -> Nat]
    BY <1>1, <1>3, <1>20, <2>1
  <2>3. ASSUME NEW r \in DOMAIN usage' PROVE usage'[r].tokens <= after[r]
    <3>1. CASE r \notin DOMAIN usage
      BY <1>20, <2>2, <3>1
    <3>2. CASE r \in DOMAIN usage
      <4>1. usage[r].tokens <= share[r] /\ usage[r].tokens \in Nat /\ r # 0
        BY <1>2, <2>1, <3>2, RowTypes DEF Shares
      <4>2. use.row = r => use.tokens <= share[r] + use.added
        BY <2>1, <4>1 DEF Shares, use
      <4> HIDE DEF after
      <4> QED BY <1>1, <1>3, <2>2, <3>2, <4>1, <4>2
    <3> QED BY <3>1, <3>2
  <2>4. ASSUME NEW t \in Sources, sess'[t].use.row # 0
        PROVE  sess'[t].use.tokens <= after[sess'[t].use.row] + sess'[t].use.added
    <3>1. sess'[t] = sess[t]
      BY <1>5, <1>7, <2>4
    <3>2. sess[t].use.row \in DOMAIN usage /\ sess[t].use.tokens \in Nat /\ sess[t].use.added \in Nat
      <4>1. sess[t].use \in Use /\ sess[t].use.row \in RowsIn(sess[t].use.period)
        BY <1>2, <2>4, <3>1 DEF SessInv
      <4> QED BY <4>1 DEF RowsIn, Use
    <3>3. sess[t].use.tokens <= share[sess[t].use.row] + sess[t].use.added
      BY <2>1, <2>4, <3>1 DEF Shares
    <3> HIDE DEF after
    <3> QED BY <2>2, <3>1, <3>2, <3>3
  <2>5. ASSUME NEW p \in Periods PROVE Sum(after, RowsIn(p)') <= spent'[p]
    <3> DEFINE d == IF use.added > 0 /\ use.row \in RowsIn(p) THEN use.added ELSE 0
    <3>1. /\ IsFiniteSet(RowsIn(p)) /\ RowsIn(p) \subseteq DOMAIN usage
          /\ Sum(share, RowsIn(p)) <= spent[p] /\ spent[p] \in Nat
      BY <1>2, <2>1, RowsFinite DEF Shares, RowsIn
    <3>2. \A r \in RowsIn(p) : share[r] \in Nat /\ after[r] = share[r] + plus(r)
      BY <2>2, <3>1
    <3> HIDE DEF after
    <3>3. Sum(share, RowsIn(p)) \in Nat
      BY <3>1, <3>2, SumType
    <3>4. Sum(after, RowsIn(p)) = Sum(share, RowsIn(p)) + d
      <4>1. CASE use.added > 0 /\ use.row \in RowsIn(p)
        <5>1. /\ after[use.row] = share[use.row] + use.added
              /\ \A r \in RowsIn(p) \ {use.row} : after[r] = share[r]
          BY <1>3, <3>2, <4>1
        <5>2. \A r \in RowsIn(p) : share[r] \in Nat
          BY <3>2
        <5>3. Sum(after, RowsIn(p)) = Sum(share, RowsIn(p)) + use.added
          <6>1. use.added \in Nat /\ use.row \in RowsIn(p) /\ IsFiniteSet(RowsIn(p))
            BY <1>3, <3>1, <4>1
          <6> QED BY ONLY <5>1, <5>2, <6>1, SumChange
        <5> QED BY <4>1, <5>3
      <4>2. CASE ~(use.added > 0 /\ use.row \in RowsIn(p))
        <5>1. \A r \in RowsIn(p) : share[r] \in Nat /\ after[r] = share[r]
          BY <3>2, <4>2
        <5>2. Sum(after, RowsIn(p)) = Sum(share, RowsIn(p))
          BY <3>1, <5>1, SumSame
        <5> QED BY <3>3, <4>2, <5>2
      <4> QED BY <4>1, <4>2
    <3>5. d > 0 => use.period = p /\ use.row # 0
      <4>1. use.row \in RowsIn(p) => use.row # 0 /\ usage[use.row].period = p
        BY <1>2, RowTypes DEF RowsIn
      <4>2. use.row # 0 => usage[use.row].period = use.period
        BY <1>8 DEF RowsIn
      <4> QED BY <4>1, <4>2
    <3>6. d \in Nat /\ spent'[p] = spent[p] + (IF use.added > 0 /\ use.period = p THEN use.added ELSE 0)
      BY <1>3, <1>9
    <3>7. d <= (IF use.added > 0 /\ use.period = p THEN use.added ELSE 0)
      BY <1>3, <3>5
    <3>8. CASE p \notin Mine(s)
      <4>1. RowsIn(p)' = RowsIn(p)
        BY <1>14, <3>8
      <4> HIDE DEF d
      <4> QED BY <1>3, <3>1, <3>3, <3>4, <3>6, <3>7, <4>1
    <3>9. CASE p \in Mine(s)
      <4>1. PICK i \in DOMAIN mine : mine[i] = p /\ RowsIn(p)' = RowsIn(p) \cup {n + i}
                                     /\ n + i \notin RowsIn(p)
        BY <1>15, <3>9
      <4>2. after[n + i] = New(p) /\ New(p) \in Nat
        <5>1. n + i \in DOMAIN usage' \ DOMAIN usage
          BY <1>13, <4>1
        <5>2. usage'[n + i].tokens = New(p)
          BY <1>1, <4>1
        <5>3. after[n + i] = usage'[n + i].tokens
          BY <2>2, <5>1
        <5> QED BY <1>3, <5>2, <5>3
      <4>3. \A r \in RowsIn(p) : after[r] \in Nat
        BY <2>2, <3>1, <1>1
      <4>4. Sum(after, RowsIn(p)') = New(p) + Sum(after, RowsIn(p))
        <5> HIDE DEF New
        <5> QED BY <3>1, <4>1, <4>2, <4>3, SumAdd
      <4>5. d + New(p) <= (IF use.added > 0 /\ use.period = p THEN use.added ELSE 0)
        BY <1>3, <3>5
      <4> HIDE DEF New, d
      <4> QED BY <1>3, <3>1, <3>3, <3>4, <3>6, <4>2, <4>4, <4>5
    <3> QED BY <3>8, <3>9
  <2> HIDE DEF after
  <2>6. PICK left \in [DOMAIN usage' -> Nat] :
           /\ \A r \in DOMAIN usage' : usage'[r].tokens <= left[r]
           /\ \A t \in Sources : sess'[t].use.row # 0 =>
                 sess'[t].use.tokens <= left[sess'[t].use.row] + sess'[t].use.added
           /\ \A p \in Periods : Sum(left, RowsIn(p)') <= spent'[p]
    BY <2>2, <2>3, <2>4, <2>5
  <2>7. Shares(left)'
    BY <2>6 DEF Shares
  <2> QED BY <2>6, <2>7 DEF ShareInv
<1> QED BY <1>7, <1>16, <1>17, <1>18, <1>19, <1>21 DEF UsageInv

LEMMA UsageNext == UsageInv /\ [Next]_vars => UsageInv'
<1> SUFFICES ASSUME UsageInv, [Next]_vars PROVE UsageInv'
  OBVIOUS
<1>1. /\ pc \in [Sources -> Stages] /\ sess \in [Sources -> [mine : Seq(Periods), use : Use]]
      /\ period \in Periods /\ period \in Nat /\ MaxTokens \in Nat
      /\ NoSess \in [mine : Seq(Periods), use : Use]
  BY EffectsAssumption DEF UsageInv, MeteringTypes, Periods, NoSess, NoUse, Use
<1> DEFINE Goes(s) ==
             /\ UNCHANGED metering
             /\ \E n \in Stages \ {"idle"} :
                   /\ pc' = [pc EXCEPT ![s] = n]
                   /\ n \in {"queued", "counting"} => pc[s] \in {"queued", "counting"}
           Closes(s) ==
             /\ UNCHANGED <<usage, period, spent, raced>>
             /\ sess' = [sess EXCEPT ![s] = NoSess] /\ pc' = [pc EXCEPT ![s] = "idle"]
<1>2. ASSUME NEW s \in Sources, Goes(s) PROVE UsageInv'
  <2>1. PICK n \in Stages \ {"idle"} : pc' = [pc EXCEPT ![s] = n]
           /\ (n \in {"queued", "counting"} => pc[s] \in {"queued", "counting"})
    BY <1>2
  <2>2. usage' = usage /\ period' = period /\ sess' = sess /\ spent' = spent /\ raced' = raced
    BY <1>2 DEF metering
  <2>3. pc' \in [Sources -> Stages] /\ period' \in Periods /\ period <= period'
    BY <1>1, <2>1, <2>2
  <2>4. ASSUME NEW t \in Sources
        PROVE  /\ sess'[t] = sess[t] /\ (pc'[t] = "idle" => pc[t] = "idle")
               /\ pc'[t] \in {"queued", "counting"} => pc[t] \in {"queued", "counting"}
    BY <1>1, <2>1, <2>2
  <2> QED BY <1>1, <2>2, <2>3, <2>4, CloseStep
<1>3. ASSUME NEW s \in Sources, Closes(s) PROVE UsageInv'
  <2>1. /\ sess' \in [Sources -> [mine : Seq(Periods), use : Use]]
        /\ pc' \in [Sources -> Stages] /\ period' \in Periods /\ period <= period'
    <3> HIDE DEF NoSess
    <3> QED BY <1>1, <1>3 DEF Stages
  <2>2. ASSUME NEW t \in Sources
        PROVE  \/ sess'[t] = sess[t] /\ pc'[t] = pc[t]
               \/ sess'[t] = NoSess /\ pc'[t] = "idle"
    BY <1>1, <1>3
  <2> QED BY <1>1, <1>3, <2>1, <2>2, CloseStep
<1>4. ASSUME NEW s \in Sources, NEW next \in {"queued", "ending"}, NEW over \in BOOLEAN,
             CheckQuota(s, next, over), next = "queued" => over = FALSE
      PROVE  UsageInv'
  <2>1. PICK got \in GetPeriodUsage(s) : (IsOverQuota(got.use) <=> over) /\ Open(s, got)
    BY <1>4 DEF CheckQuota
  <2>2. pc[s] = "idle" /\ pc' = [pc EXCEPT ![s] = next]
    BY <1>4 DEF CheckQuota, Go
  <2>3. got \in [mine : Seq(Periods), use : Use] /\ got.use.added = 0
    BY <2>2, GotProps
  <2>4. got = [got EXCEPT !.use.tokens = @ + 0, !.use.added = 0]
    <3> DEFINE u1 == [got.use EXCEPT !.tokens = got.use.tokens + 0]
               g1 == [got EXCEPT !.use = u1]
    <3>1. [got EXCEPT !.use.tokens = @ + 0, !.use.added = 0]
             = [g1 EXCEPT !.use = [g1.use EXCEPT !.added = 0]]
      BY Zenon
    <3>2. u1 = got.use /\ got.use = [got.use EXCEPT !.added = 0] /\ got = [got EXCEPT !.use = got.use]
      BY <2>3 DEF Use
    <3>3. g1 = got
      BY <3>2, Zenon
    <3> HIDE DEF g1
    <3>4. [g1 EXCEPT !.use = [g1.use EXCEPT !.added = 0]] = got
      BY <3>2, <3>3
    <3> QED BY <3>1, <3>4, Zenon
  <2>5. Open(s, [got EXCEPT !.use.tokens = @ + 0, !.use.added = 0])
    BY <2>1, <2>4, Zenon
  <2>6. next = "queued" => ~IsOverQuota(got.use)
    BY <1>4, <2>1
  <2>7. 0 \in 0 .. MaxTokens /\ ~(0 > 0)
    BY <1>1
  <2> QED BY <2>2, <2>5, <2>6, <2>7, OpenStep
<1>5. ASSUME NEW s \in Sources, NEW tokens \in 1 .. MaxTokens, Count(s, tokens) PROVE UsageInv'
  <2>1. PICK got \in GetPeriodUsage(s) :
           Open(s, [got EXCEPT !.use.tokens = @ + tokens, !.use.added = tokens])
    BY <1>5 DEF Count, IncrementUsage
  <2>2. pc[s] = "counting" /\ pc' = [pc EXCEPT ![s] = "publishing"] /\ tokens \in 0 .. MaxTokens
    BY <1>5 DEF Count, Go
  <2> QED BY <2>1, <2>2, OpenStep
<1>6. ASSUME NEW s \in Sources, Commit(s) PROVE UsageInv'
  <2>1. CommitUsage(s) /\ pc' = [pc EXCEPT ![s] = "idle"]
    BY <1>6 DEF Commit, Go
  <2> QED BY <2>1, CommitStep
<1>7. ASSUME Crash PROVE UsageInv'
  <2>1. /\ \A t \in Sources : sess'[t] = NoSess /\ pc'[t] = "idle"
        /\ usage' = usage /\ period' = period /\ spent' = spent /\ raced' = raced
        /\ sess' = [t \in Sources |-> NoSess] /\ pc' = [t \in Sources |-> "idle"]
    BY <1>7 DEF Crash
  <2>2. /\ sess' \in [Sources -> [mine : Seq(Periods), use : Use]]
        /\ pc' \in [Sources -> Stages] /\ period' \in Periods /\ period <= period'
    <3> HIDE DEF NoSess
    <3> QED BY <1>1, <2>1 DEF Stages
  <2> QED BY <2>1, <2>2, CloseStep
<1>8. ASSUME NextMonth PROVE UsageInv'
  <2>1. usage' = usage /\ sess' = sess /\ spent' = spent /\ raced' = raced /\ pc' = pc
        /\ period' = period + 1 /\ period < MaxPeriod
    BY <1>8 DEF NextMonth, Month
  <2>2. period' \in Periods /\ period <= period'
    BY <1>1, <2>1, EffectsAssumption DEF Periods
  <2> QED BY <1>1, <2>1, <2>2, CloseStep
<1>9. ASSUME UNCHANGED vars PROVE UsageInv'
  <2>1. usage' = usage /\ sess' = sess /\ spent' = spent /\ raced' = raced /\ pc' = pc
        /\ period' = period
    BY <1>9 DEF vars, metering
  <2> QED BY <1>1, <2>1, CloseStep
<1>10. ASSUME NEW s \in Sources,
              \/ LLMAnswers(s) \/ LLMFails(s) \/ Refuse(s) \/ Mirror(s)
              \/ \E text \in 0 .. MaxCalls : Publish(s, text) \/ PublishUnexported(s, text)
       PROVE  Goes(s)
  BY <1>10 DEF LLMAnswers, LLMFails, Publish, PublishUnexported, PublishText, Refuse, Mirror,
     Go, Stages
<1>11. ASSUME NEW s \in Sources, Rollback(s) PROVE Closes(s)
  BY <1>11 DEF Rollback, RollbackUsage
<1> HIDE DEF Goes, Closes
<1>12. ASSUME NEW s \in Sources, Reject(s) \/ SkipWithoutKey(s) \/ QueueLLM(s) PROVE UsageInv'
  BY <1>4, <1>12 DEF Reject, SkipWithoutKey, QueueLLM
<1> QED BY <1>2, <1>3, <1>5, <1>6, <1>7, <1>8, <1>9, <1>10, <1>11, <1>12 DEF Next

LEMMA UsageAlways == Spec => []UsageInv
BY UsageInit, UsageNext, PTL DEF Spec

\* As long as no two runs of an organization are between quota check and commit in a
\* month, its row is one and the exact sum (get_period_usage, increment_usage).
THEOREM UsageIsExact == Spec => []ExactUnlessRaced
<1>1. UsageInv => ExactUnlessRaced
  <2> SUFFICES ASSUME UsageInv, NEW p \in Periods, ~raced[p]
               PROVE  /\ Counted(p) = spent[p]
                      /\ \A r, t \in DOMAIN usage : usage[r].period = p /\ usage[t].period = p => r = t
    BY DEF ExactUnlessRaced
  <2>1. /\ \A r, t \in RowsIn(p) : r = t
        /\ RowsIn(p) = {} => spent[p] = 0
        /\ \A r \in RowsIn(p) : usage[r].tokens = spent[p]
    BY DEF UsageInv, ExactInv
  <2>2. PICK tokens : tokens = [r \in DOMAIN usage |-> usage[r].tokens]
    OBVIOUS
  <2>3. /\ IsFiniteSet(RowsIn(p)) /\ \A r \in RowsIn(p) : tokens[r] = usage[r].tokens
        /\ \A r \in RowsIn(p) : tokens[r] \in Nat /\ spent[p] \in Nat
    <3>1. \A r \in RowsIn(p) : r \in DOMAIN usage
      BY DEF RowsIn
    <3>2. ASSUME NEW r \in DOMAIN usage PROVE usage[r].tokens \in Nat
      BY RowTypes DEF UsageInv
    <3> QED BY <2>2, <3>1, <3>2, RowsFinite DEF UsageInv, MeteringTypes
  <2>4. Counted(p) = Sum(tokens, RowsIn(p))
    <3>1. MapThenSumSet(LAMBDA r : usage[r].tokens, RowsIn(p)) = Sum(tokens, RowsIn(p))
      BY <2>3, SumOfMap
    <3> QED BY <3>1 DEF Counted, RowsIn
  <2>5. CASE RowsIn(p) = {}
    <3>1. Sum(tokens, RowsIn(p)) = 0
      BY <2>3, <2>5, SumUnfolds
    <3> QED BY <2>1, <2>4, <2>5, <3>1 DEF RowsIn
  <2>6. CASE RowsIn(p) # {}
    <3>1. PICK r : RowsIn(p) = {r}
      BY <2>1, <2>6
    <3>2. Sum(tokens, RowsIn(p)) = tokens[r] + Sum(tokens, RowsIn(p) \ {r}) /\ r \in RowsIn(p)
      BY <2>3, <3>1, SumRemove
    <3>3. RowsIn(p) \ {r} = {} /\ IsFiniteSet(RowsIn(p) \ {r})
      BY <2>3, <3>1, FS_EmptySet
    <3>4. Sum(tokens, RowsIn(p) \ {r}) = 0
      BY <3>3, SumUnfolds
    <3>5. tokens[r] = spent[p] /\ spent[p] \in Nat
      BY <2>1, <2>3, <3>2
    <3> QED BY <2>4, <2>1, <3>2, <3>4, <3>5 DEF RowsIn
  <2> QED BY <2>1, <2>5, <2>6 DEF RowsIn
<1> QED BY <1>1, UsageAlways, PTL

\* However runs race, no organization is charged for tokens that no committed run of
\* it used (increment_usage).
THEOREM NoOvercharge == Spec => []NeverOvercharged
<1>1. UsageInv => NeverOvercharged
  <2> SUFFICES ASSUME UsageInv, NEW p \in Periods PROVE Counted(p) <= spent[p]
    BY DEF NeverOvercharged
  <2>1. PICK share \in [DOMAIN usage -> Nat] : Shares(share)
    BY DEF UsageInv, ShareInv
  <2>2. PICK tokens : tokens = [r \in DOMAIN usage |-> usage[r].tokens]
    OBVIOUS
  <2>3. /\ IsFiniteSet(RowsIn(p)) /\ \A r \in RowsIn(p) : tokens[r] = usage[r].tokens
        /\ \A r \in RowsIn(p) : tokens[r] \in Nat /\ share[r] \in Nat /\ tokens[r] <= share[r]
        /\ spent[p] \in Nat
    <3>1. \A r \in RowsIn(p) : r \in DOMAIN usage
      BY DEF RowsIn
    <3>2. ASSUME NEW r \in DOMAIN usage PROVE usage[r].tokens \in Nat
      BY RowTypes DEF UsageInv
    <3> QED BY <2>1, <2>2, <3>1, <3>2, RowsFinite DEF UsageInv, MeteringTypes, Shares
  <2>4. Counted(p) = Sum(tokens, RowsIn(p))
    <3>1. MapThenSumSet(LAMBDA r : usage[r].tokens, RowsIn(p)) = Sum(tokens, RowsIn(p))
      BY <2>3, SumOfMap
    <3> QED BY <3>1 DEF Counted, RowsIn
  <2>5. Sum(tokens, RowsIn(p)) <= Sum(share, RowsIn(p))
    BY <2>3, SumMonotone
  <2>6. Sum(share, RowsIn(p)) <= spent[p]
    BY <2>1 DEF Shares
  <2>7. Sum(tokens, RowsIn(p)) \in Nat /\ Sum(share, RowsIn(p)) \in Nat
    BY <2>3, SumType
  <2> QED BY <2>3, <2>4, <2>5, <2>6, <2>7
<1> QED BY <1>1, UsageAlways, PTL

\* The row that has a quota is overshot by less than one call's tokens (is_over_quota,
\* increment_usage).
THEOREM QuotaOvershot == Spec => []QuotaRow
<1>1. UsageInv => QuotaRow
  BY DEF UsageInv, QuotaInv, QuotaRow
<1> QED BY <1>1, UsageAlways, PTL

-----------------------------------------------------------------------------
(* The git mirror. *)

Repos == [init : BOOLEAN, origin : Remotes \cup {NoRemote},
          index : [Sources -> Nat], commits : Seq([Sources -> Nat])]

\* What the mirror shows of a source's doc.
Shown(r, s) == IF r.commits = <<>> THEN 0 ELSE r.commits[Len(r.commits)][s]

\* A dirty draft is either not exported yet, or its export has failed (drift), or the
\* mirror shows it; the index is the last commit's except where an export failed.
MirrorInv ==
    /\ MirrorTypes /\ pc \in [Sources -> Stages]
    /\ \A s \in Sources :
          /\ refs[s] <= Len(repo.commits)
          /\ draft[s].dirty => pc[s] \in {"exporting", "ending"}
          /\ pc[s] = "exporting" => draft[s].dirty /\ draft[s].ref = refs[s]
          /\ draft[s].dirty /\ pc[s] = "ending" => s \in drift \/ draft[s].ref # refs[s]
          /\ s \notin drift => repo.index[s] = Shown(repo, s)
          /\ s \notin drift /\ ~draft[s].dirty /\ refs[s] # 0 => Shown(repo, s) = texts[s]
          /\ draft[s].dirty /\ draft[s].ref # refs[s] =>
                /\ draft[s].ref \in 1 .. Len(repo.commits)
                /\ repo.commits[draft[s].ref][s] = draft[s].text
                /\ repo.index[s] = draft[s].text /\ Shown(repo, s) = draft[s].text

\* Origin is added with the repository and stays, and it is what exports push to.
PushedInv ==
    /\ ~repo.init => repo.origin = NoRemote
    /\ \A r \in Remotes : pushed[r] <= Len(repo.commits)
    /\ \A s \in Sources : draft[s].dirty /\ draft[s].ref # refs[s] /\ RemoteOf[s] # NoRemote =>
          repo.origin # NoRemote /\ pushed[repo.origin] >= draft[s].ref

\* git init with its remote, git add, git commit.
LEMMA ReadyRepo ==
    ASSUME NEW r \in Repos, NEW remote \in Remotes \cup {NoRemote}
    PROVE  /\ EnsureRepo(r, remote) \in Repos
           /\ EnsureRepo(r, remote).index = r.index /\ EnsureRepo(r, remote).commits = r.commits
           /\ EnsureRepo(r, remote).init
           /\ r.init => EnsureRepo(r, remote).origin = r.origin
BY DEF EnsureRepo, Repos

LEMMA StagedRepo ==
    ASSUME NEW r \in Repos, NEW s \in Sources, draft[s].text \in Nat
    PROVE  /\ Staged(s, r) \in Repos /\ Staged(s, r).commits = r.commits
           /\ Staged(s, r).init = r.init /\ Staged(s, r).origin = r.origin
           /\ Staged(s, r).index[s] = draft[s].text
           /\ \A t \in Sources \ {s} : Staged(s, r).index[t] = r.index[t]
<1> DEFINE i == [r.index EXCEPT ![s] = draft[s].text]
<1>1. Staged(s, r) = [r EXCEPT !.index = i]
  BY DEF Staged
<1>2. i \in [Sources -> Nat] /\ i[s] = draft[s].text /\ \A t \in Sources \ {s} : i[t] = r.index[t]
  BY DEF Repos
<1> HIDE DEF i
<1>3. /\ Staged(s, r) \in Repos /\ Staged(s, r).index = i /\ Staged(s, r).commits = r.commits
      /\ Staged(s, r).init = r.init /\ Staged(s, r).origin = r.origin
  BY <1>1, <1>2 DEF Repos
<1> QED BY <1>2, <1>3

LEMMA CommittedRepo ==
    ASSUME NEW r \in Repos
    PROVE  /\ Committed(r) \in Repos /\ Committed(r).index = r.index
           /\ Committed(r).init = r.init /\ Committed(r).origin = r.origin
           /\ Committed(r).commits = Append(r.commits, r.index)
<1> DEFINE Text == [Sources -> Nat]
<1>1. r.commits \in Seq(Text) /\ r.index \in Text
  BY DEF Repos
<1>2. Append(r.commits, r.index) \in Seq(Text)
  <2> HIDE DEF Text
  <2> QED BY <1>1
<1> QED BY <1>2 DEF Committed, Repos

\* What becomes of the other docs when an export of one changes the working copy.
LEMMA OthersKept ==
    ASSUME MirrorInv, NEW s \in Sources, NEW r \in Repos,
           \A t \in Sources \ {s} : r.index[t] = repo.index[t],
           r.commits = repo.commits \/ r.commits = Append(repo.commits, r.index)
    PROVE  /\ Len(repo.commits) <= Len(r.commits)
           /\ \A i \in 1 .. Len(repo.commits) : r.commits[i] = repo.commits[i]
           /\ \A t \in Sources \ {s} : repo.index[t] = Shown(repo, t) => Shown(r, t) = Shown(repo, t)
<1>1. repo \in Repos /\ repo.commits \in Seq([Sources -> Nat]) /\ r.index \in [Sources -> Nat]
  BY DEF MirrorInv, MirrorTypes, Repos
<1>2. CASE r.commits = repo.commits
  BY <1>1, <1>2 DEF Shown
<1>3. CASE r.commits = Append(repo.commits, r.index)
  <2>1. /\ Len(r.commits) = Len(repo.commits) + 1 /\ r.commits # <<>> /\ Len(repo.commits) \in Nat
        /\ r.commits[Len(r.commits)] = r.index
        /\ \A i \in 1 .. Len(repo.commits) : r.commits[i] = repo.commits[i]
    BY <1>1, <1>3
  <2>2. \A t : Shown(r, t) = r.index[t]
    BY <2>1 DEF Shown
  <2> QED BY <2>1, <2>2
<1> QED BY <1>2, <1>3

\* An export stops halfway: its doc is one whose mirror may differ.
LEMMA StopStep ==
    ASSUME MirrorInv, NEW s \in Sources, NEW r \in Repos, ExportStops(s, r), Go(s, "exporting", "ending"),
           \A t \in Sources \ {s} : r.index[t] = repo.index[t],
           r.commits = repo.commits \/ r.commits = Append(repo.commits, r.index),
           r.init \/ r = repo, repo.init => r.origin = repo.origin
    PROVE  MirrorInv' /\ (PushedInv => PushedInv')
<1>1. /\ repo' = r /\ drift' = drift \cup {s} /\ pushed' = pushed /\ texts' = texts
      /\ refs' = refs /\ draft' = draft /\ pc' = [pc EXCEPT ![s] = "ending"] /\ pc[s] = "exporting"
  BY DEF ExportStops, Go
<1>2. /\ Len(repo.commits) <= Len(r.commits)
      /\ \A i \in 1 .. Len(repo.commits) : r.commits[i] = repo.commits[i]
      /\ \A t \in Sources \ {s} : repo.index[t] = Shown(repo, t) => Shown(r, t) = Shown(repo, t)
  BY OthersKept
<1>3. Len(repo.commits) \in Nat /\ Len(r.commits) \in Nat /\ MirrorTypes /\ pc \in [Sources -> Stages]
      /\ refs \in [Sources -> Nat] /\ pushed \in [Remotes -> Nat]
      /\ \A t \in Sources : draft[t].ref \in Nat
  BY DEF MirrorInv, MirrorTypes, Repos
<1>4. MirrorTypes' /\ pc' \in [Sources -> Stages]
  BY <1>1, <1>3 DEF MirrorTypes, Repos, Stages
<1>5. ASSUME NEW t \in Sources
      PROVE (/\ refs[t] <= Len(repo.commits)
             /\ draft[t].dirty => pc[t] \in {"exporting", "ending"}
             /\ pc[t] = "exporting" => draft[t].dirty /\ draft[t].ref = refs[t]
             /\ draft[t].dirty /\ pc[t] = "ending" => t \in drift \/ draft[t].ref # refs[t]
             /\ t \notin drift => repo.index[t] = Shown(repo, t)
             /\ t \notin drift /\ ~draft[t].dirty /\ refs[t] # 0 => Shown(repo, t) = texts[t]
             /\ draft[t].dirty /\ draft[t].ref # refs[t] =>
                   /\ draft[t].ref \in 1 .. Len(repo.commits)
                   /\ repo.commits[draft[t].ref][t] = draft[t].text
                   /\ repo.index[t] = draft[t].text /\ Shown(repo, t) = draft[t].text)'
  <2>1. refs[t] <= Len(r.commits)
    BY <1>2, <1>3 DEF MirrorInv
  <2>2. CASE t = s
    BY <1>1, <1>3, <2>1, <2>2 DEF MirrorInv
  <2>3. CASE t # s
    <3>1. pc'[t] = pc[t] /\ (t \in drift' <=> t \in drift) /\ r.index[t] = repo.index[t]
      BY <1>1, <1>3, <2>3
    <3>2. t \notin drift => r.index[t] = Shown(r, t) /\ Shown(r, t) = Shown(repo, t)
      BY <1>2, <2>3, <3>1 DEF MirrorInv
    <3>3. draft[t].dirty /\ draft[t].ref # refs[t] =>
            /\ draft[t].ref \in 1 .. Len(r.commits) /\ r.commits[draft[t].ref][t] = draft[t].text
            /\ r.index[t] = draft[t].text /\ Shown(r, t) = draft[t].text
      BY <1>2, <1>3, <2>3, <3>1 DEF MirrorInv
    <3> QED BY <1>1, <2>1, <3>1, <3>2, <3>3 DEF MirrorInv
  <2> QED BY <2>2, <2>3
<1>6. MirrorInv'
  BY <1>4, <1>5 DEF MirrorInv
<1>7. PushedInv => PushedInv'
  BY <1>1, <1>2, <1>3 DEF PushedInv
<1> QED BY <1>6, <1>7

\* An export succeeds: the new commit has the draft's text, and the draft names it.
LEMMA ExportStep ==
    ASSUME MirrorInv, NEW s \in Sources, Export(s), Go(s, "exporting", "ending")
    PROVE  MirrorInv' /\ (PushedInv => PushedInv')
<1> DEFINE ready == EnsureRepo(repo, RemoteOf[s])
           done  == Committed(Staged(s, ready))
<1>1. /\ MirrorTypes /\ pc \in [Sources -> Stages] /\ repo \in Repos
      /\ Len(repo.commits) \in Nat /\ repo.commits \in Seq([Sources -> Nat])
      /\ refs \in [Sources -> Nat] /\ texts \in [Sources -> Nat] /\ pushed \in [Remotes -> Nat]
      /\ draft \in [Sources -> [text : Nat, ref : Nat, dirty : BOOLEAN]]
      /\ RemoteOf[s] \in Remotes \cup {NoRemote}
      /\ \A t \in Sources : draft[t].text \in Nat /\ draft[t].ref \in Nat
  BY EffectsAssumption DEF MirrorInv, MirrorTypes, Repos
<1>2. /\ ready \in Repos /\ ready.index = repo.index /\ ready.commits = repo.commits
      /\ ready.init /\ (repo.init => ready.origin = repo.origin)
  BY <1>1, ReadyRepo
<1> HIDE DEF ready
<1>3. /\ done \in Repos /\ done.commits = Append(repo.commits, done.index)
      /\ done.index[s] = draft[s].text
      /\ \A t \in Sources \ {s} : done.index[t] = repo.index[t]
      /\ done.init /\ (repo.init => done.origin = repo.origin)
  <2>1. /\ Staged(s, ready) \in Repos /\ Staged(s, ready).commits = ready.commits
        /\ Staged(s, ready).index[s] = draft[s].text
        /\ \A t \in Sources \ {s} : Staged(s, ready).index[t] = ready.index[t]
        /\ Staged(s, ready).init = ready.init /\ Staged(s, ready).origin = ready.origin
    BY <1>1, <1>2, StagedRepo
  <2> DEFINE staged == Staged(s, ready)
  <2> HIDE DEF staged
  <2>2. /\ Committed(staged) \in Repos /\ Committed(staged).index = staged.index
        /\ Committed(staged).commits = Append(staged.commits, staged.index)
        /\ Committed(staged).init = staged.init /\ Committed(staged).origin = staged.origin
    BY <2>1, CommittedRepo DEF staged
  <2> QED BY <1>2, <2>1, <2>2 DEF staged
<1>4. /\ repo' = done /\ draft' = [draft EXCEPT ![s].ref = Len(done.commits)]
      /\ texts' = texts /\ refs' = refs /\ drift' = drift
      /\ pushed' = IF RemoteOf[s] = NoRemote THEN pushed
                   ELSE [pushed EXCEPT ![done.origin] = Len(done.commits)]
      /\ RemoteOf[s] # NoRemote => done.origin # NoRemote
      /\ pc' = [pc EXCEPT ![s] = "ending"] /\ pc[s] = "exporting"
  BY DEF Export, Go, ready
<1> HIDE DEF done
<1>5. /\ Len(done.commits) = Len(repo.commits) + 1 /\ done.commits # <<>>
      /\ done.commits[Len(done.commits)] = done.index /\ done.origin \in Remotes \cup {NoRemote}
  <2> DEFINE Index == [Sources -> Nat]
             row   == done.index
             old   == repo.commits
             all   == done.commits
  <2>1. row \in Index /\ done.origin \in Remotes \cup {NoRemote}
    BY <1>3 DEF Repos
  <2>2. old \in Seq(Index) /\ all = Append(old, row)
    BY <1>1, <1>3
  <2> HIDE DEF Index, row, old, all
  <2>3. Len(all) = Len(old) + 1 /\ all # <<>> /\ all[Len(all)] = row
    BY ONLY <2>1, <2>2
  <2> QED BY <2>1, <2>3 DEF row, old, all
<1>6. Shown(done, s) = draft[s].text
  BY <1>3, <1>5 DEF Shown
<1>7. /\ \A i \in 1 .. Len(repo.commits) : done.commits[i] = repo.commits[i]
      /\ \A t \in Sources \ {s} : repo.index[t] = Shown(repo, t) => Shown(done, t) = Shown(repo, t)
  BY <1>3, OthersKept
<1>8. /\ draft'[s].text = draft[s].text /\ draft'[s].dirty = draft[s].dirty
      /\ draft'[s].ref = Len(done.commits)
      /\ \A t \in Sources \ {s} : draft'[t] = draft[t]
      /\ draft' \in [Sources -> [text : Nat, ref : Nat, dirty : BOOLEAN]]
  <2> DEFINE n == Len(done.commits)
             d == [draft[s] EXCEPT !.ref = n]
  <2>1. n \in Nat
    BY <1>1, <1>5
  <2>2. draft' = [draft EXCEPT ![s] = d]
    BY <1>4
  <2> HIDE DEF n
  <2>3. /\ d \in [text : Nat, ref : Nat, dirty : BOOLEAN] /\ d.ref = n
        /\ d.text = draft[s].text /\ d.dirty = draft[s].dirty
    BY <1>1, <2>1
  <2> HIDE DEF d
  <2> QED BY <1>1, <2>2, <2>3 DEF n
<1>9. pushed' \in [Remotes -> Nat] /\ \A r \in Remotes : pushed'[r] \in {pushed[r], Len(done.commits)}
  <2> DEFINE n == Len(done.commits)
  <2>1. n \in Nat
    BY <1>1, <1>5
  <2> HIDE DEF n
  <2>2. CASE RemoteOf[s] = NoRemote
    BY <1>1, <1>4, <2>2
  <2>3. CASE RemoteOf[s] # NoRemote
    <3>1. pushed' = [pushed EXCEPT ![done.origin] = n] /\ done.origin \in Remotes
      BY <1>4, <1>5, <2>3 DEF n
    <3> QED BY <1>1, <2>1, <3>1 DEF n
  <2> QED BY <2>2, <2>3
<1>10. MirrorTypes' /\ pc' \in [Sources -> Stages]
  BY <1>1, <1>3, <1>4, <1>8, <1>9 DEF MirrorTypes, Repos, Stages
<1>11. draft[s].dirty /\ draft[s].ref = refs[s] /\ refs[s] <= Len(repo.commits)
  BY <1>4 DEF MirrorInv
<1>12. ASSUME NEW t \in Sources
       PROVE (/\ refs[t] <= Len(repo.commits)
              /\ draft[t].dirty => pc[t] \in {"exporting", "ending"}
              /\ pc[t] = "exporting" => draft[t].dirty /\ draft[t].ref = refs[t]
              /\ draft[t].dirty /\ pc[t] = "ending" => t \in drift \/ draft[t].ref # refs[t]
              /\ t \notin drift => repo.index[t] = Shown(repo, t)
              /\ t \notin drift /\ ~draft[t].dirty /\ refs[t] # 0 => Shown(repo, t) = texts[t]
              /\ draft[t].dirty /\ draft[t].ref # refs[t] =>
                    /\ draft[t].ref \in 1 .. Len(repo.commits)
                    /\ repo.commits[draft[t].ref][t] = draft[t].text
                    /\ repo.index[t] = draft[t].text /\ Shown(repo, t) = draft[t].text)'
  <2>1. refs[t] <= Len(done.commits)
    BY <1>1, <1>5 DEF MirrorInv
  <2>2. CASE t = s
    <3>1. refs[s] # Len(done.commits) /\ Len(done.commits) \in 1 .. Len(done.commits)
      BY <1>1, <1>5, <1>11
    <3>2. pc'[s] = "ending"
      BY <1>1, <1>4
    <3> QED BY <1>3, <1>4, <1>5, <1>6, <1>8, <1>11, <2>1, <2>2, <3>1, <3>2
  <2>3. CASE t # s
    <3>1. pc'[t] = pc[t] /\ done.index[t] = repo.index[t] /\ draft'[t] = draft[t]
      BY <1>1, <1>3, <1>4, <1>8, <2>3
    <3>2. t \notin drift => done.index[t] = Shown(done, t) /\ Shown(done, t) = Shown(repo, t)
      BY <1>7, <2>3, <3>1 DEF MirrorInv
    <3>3. draft[t].dirty /\ draft[t].ref # refs[t] =>
            /\ draft[t].ref \in 1 .. Len(done.commits) /\ done.commits[draft[t].ref][t] = draft[t].text
            /\ done.index[t] = draft[t].text /\ Shown(done, t) = draft[t].text
      <4> SUFFICES ASSUME draft[t].dirty, draft[t].ref # refs[t]
                   PROVE  /\ draft[t].ref \in 1 .. Len(done.commits)
                          /\ done.commits[draft[t].ref][t] = draft[t].text
                          /\ done.index[t] = draft[t].text /\ Shown(done, t) = draft[t].text
        OBVIOUS
      <4>1. /\ draft[t].ref \in 1 .. Len(repo.commits)
            /\ repo.commits[draft[t].ref][t] = draft[t].text
            /\ repo.index[t] = draft[t].text /\ Shown(repo, t) = draft[t].text
        BY DEF MirrorInv
      <4>2. draft[t].ref \in 1 .. Len(done.commits)
        BY <1>1, <1>5, <4>1
      <4>3. done.commits[draft[t].ref] = repo.commits[draft[t].ref]
        BY <1>7, <4>1
      <4>4. Shown(done, t) = Shown(repo, t)
        BY <1>7, <2>3, <4>1
      <4> QED BY <3>1, <4>1, <4>2, <4>3, <4>4
    <3> QED BY <1>4, <2>1, <3>1, <3>2, <3>3 DEF MirrorInv
  <2> QED BY <2>2, <2>3
<1>13. MirrorInv'
  BY <1>10, <1>12 DEF MirrorInv
<1>14. ASSUME PushedInv PROVE PushedInv'
  <2>1. \A r \in Remotes : pushed'[r] <= Len(done.commits) /\ pushed[r] <= pushed'[r]
    BY <1>1, <1>4, <1>5, <1>9, <1>14 DEF PushedInv
  <2>2. RemoteOf[s] # NoRemote =>
            done.origin # NoRemote /\ pushed'[done.origin] = Len(done.commits)
    BY <1>1, <1>4, <1>5
  <2>3. ASSUME NEW t \in Sources, draft'[t].dirty, draft'[t].ref # refs[t], RemoteOf[t] # NoRemote
        PROVE  done.origin # NoRemote /\ pushed'[done.origin] >= draft'[t].ref
    <3>1. CASE t = s
      BY <1>1, <1>5, <1>8, <2>2, <2>3, <3>1
    <3>2. CASE t # s
      <4>1. /\ repo.origin # NoRemote /\ pushed[repo.origin] >= draft[t].ref
            /\ done.origin = repo.origin /\ repo.origin \in Remotes
        BY <1>1, <1>3, <1>8, <1>14, <2>3, <3>2 DEF PushedInv, Repos
      <4> QED BY <1>1, <1>8, <1>9, <2>1, <3>2, <4>1
    <3> QED BY <3>1, <3>2
  <2> QED BY <1>3, <1>4, <2>1, <2>3 DEF PushedInv
<1> QED BY <1>13, <1>14

\* A run's transaction ends.
LEMMA CommitDocStep ==
    ASSUME MirrorInv, NEW s \in Sources, CommitDoc(s), Go(s, "ending", "idle")
    PROVE  /\ MirrorInv' /\ (PushedInv => PushedInv')
           /\ \A t \in Sources : refs'[t] # refs[t] =>
                 /\ repo.commits[refs'[t]][t] = texts'[t]
                 /\ PushedInv /\ RemoteOf[t] # NoRemote =>
                       repo.origin # NoRemote /\ pushed[repo.origin] >= refs'[t]
<1> DEFINE d == draft[s]
<1>1. /\ MirrorTypes /\ pc \in [Sources -> Stages] /\ repo \in Repos
      /\ Len(repo.commits) \in Nat
      /\ refs \in [Sources -> Nat] /\ texts \in [Sources -> Nat] /\ pushed \in [Remotes -> Nat]
      /\ draft \in [Sources -> [text : Nat, ref : Nat, dirty : BOOLEAN]]
      /\ d.text \in Nat /\ d.ref \in Nat /\ d.dirty \in BOOLEAN /\ drift \subseteq Sources
  BY DEF MirrorInv, MirrorTypes, Repos
<1>2. /\ texts' = (IF d.dirty THEN [texts EXCEPT ![s] = d.text] ELSE texts)
      /\ refs' = (IF d.dirty THEN [refs EXCEPT ![s] = d.ref] ELSE refs)
      /\ drift' = (IF d.dirty /\ d.ref # refs[s] THEN drift \ {s} ELSE drift)
      /\ draft' = [draft EXCEPT ![s] = NoDraft]
      /\ repo' = repo /\ pushed' = pushed
      /\ pc' = [pc EXCEPT ![s] = "idle"] /\ pc[s] = "ending"
  BY DEF CommitDoc, Go
<1>3. /\ draft' \in [Sources -> [text : Nat, ref : Nat, dirty : BOOLEAN]]
      /\ ~draft'[s].dirty /\ pc'[s] = "idle"
      /\ \A t \in Sources \ {s} : draft'[t] = draft[t] /\ pc'[t] = pc[t]
  BY <1>1, <1>2 DEF NoDraft
<1>4. /\ \A t \in Sources \ {s} : texts'[t] = texts[t] /\ refs'[t] = refs[t] /\ (t \in drift' <=> t \in drift)
      /\ texts'[s] = (IF d.dirty THEN d.text ELSE texts[s])
      /\ refs'[s] = (IF d.dirty THEN d.ref ELSE refs[s])
      /\ s \in drift' <=> s \in drift /\ ~(d.dirty /\ d.ref # refs[s])
      /\ texts' \in [Sources -> Nat] /\ refs' \in [Sources -> Nat] /\ drift' \subseteq Sources
  BY <1>1, <1>2
<1>5. /\ refs[s] <= Len(repo.commits)
      /\ d.dirty => s \in drift \/ d.ref # refs[s]
      /\ s \notin drift => repo.index[s] = Shown(repo, s)
      /\ s \notin drift /\ ~d.dirty /\ refs[s] # 0 => Shown(repo, s) = texts[s]
      /\ d.dirty /\ d.ref # refs[s] =>
            /\ d.ref \in 1 .. Len(repo.commits) /\ repo.commits[d.ref][s] = d.text
            /\ repo.index[s] = d.text /\ Shown(repo, s) = d.text
  BY <1>2 DEF MirrorInv
<1> HIDE DEF d
<1>6. MirrorTypes' /\ pc' \in [Sources -> Stages]
  BY <1>1, <1>2, <1>3, <1>4 DEF MirrorTypes, Stages
<1>7. ASSUME NEW t \in Sources
      PROVE (/\ refs[t] <= Len(repo.commits)
             /\ draft[t].dirty => pc[t] \in {"exporting", "ending"}
             /\ pc[t] = "exporting" => draft[t].dirty /\ draft[t].ref = refs[t]
             /\ draft[t].dirty /\ pc[t] = "ending" => t \in drift \/ draft[t].ref # refs[t]
             /\ t \notin drift => repo.index[t] = Shown(repo, t)
             /\ t \notin drift /\ ~draft[t].dirty /\ refs[t] # 0 => Shown(repo, t) = texts[t]
             /\ draft[t].dirty /\ draft[t].ref # refs[t] =>
                   /\ draft[t].ref \in 1 .. Len(repo.commits)
                   /\ repo.commits[draft[t].ref][t] = draft[t].text
                   /\ repo.index[t] = draft[t].text /\ Shown(repo, t) = draft[t].text)'
  <2>1. CASE t = s
    <3>1. refs'[s] <= Len(repo.commits)
      BY <1>1, <1>4, <1>5
    <3>2. s \notin drift' => repo.index[s] = Shown(repo, s)
      BY <1>4, <1>5
    <3>3. s \notin drift' /\ refs'[s] # 0 => Shown(repo, s) = texts'[s]
      BY <1>4, <1>5
    <3> QED BY <1>2, <1>3, <2>1, <3>1, <3>2, <3>3
  <2>2. CASE t # s
    BY <1>2, <1>3, <1>4, <2>2 DEF MirrorInv
  <2> QED BY <2>1, <2>2
<1>8. MirrorInv'
  BY <1>6, <1>7 DEF MirrorInv
<1>9. PushedInv => PushedInv'
  BY <1>2, <1>3, <1>4 DEF PushedInv
<1>10. ASSUME NEW t \in Sources, refs'[t] # refs[t]
       PROVE  /\ repo.commits[refs'[t]][t] = texts'[t]
              /\ PushedInv /\ RemoteOf[t] # NoRemote =>
                       repo.origin # NoRemote /\ pushed[repo.origin] >= refs'[t]
  <2>1. t = s /\ d.dirty /\ d.ref # refs[s] /\ refs'[s] = d.ref /\ texts'[s] = d.text
    BY <1>4, <1>10
  <2> QED BY <1>5, <2>1 DEF PushedInv, d
<1> QED BY <1>8, <1>9, <1>10

\* Runs lose their drafts (a rollback, a crash), or go on without touching the mirror.
LEMMA LoseDrafts ==
    ASSUME MirrorInv, repo' = repo, pushed' = pushed, texts' = texts, refs' = refs,
           drift' \subseteq Sources, drift \subseteq drift',
           draft' \in [Sources -> [text : Nat, ref : Nat, dirty : BOOLEAN]],
           pc' \in [Sources -> Stages],
           \A s \in Sources :
              \/ /\ draft'[s] = draft[s] /\ (draft[s].dirty => pc'[s] = pc[s])
                 /\ pc'[s] = "exporting" => pc[s] = "exporting"
              \/ ~draft'[s].dirty /\ pc'[s] = "idle" /\ (draft[s].dirty => s \in drift')
    PROVE  MirrorInv' /\ (PushedInv => PushedInv')
<1>1. MirrorTypes'
  BY DEF MirrorInv, MirrorTypes
<1>2. ASSUME NEW t \in Sources
      PROVE (/\ refs[t] <= Len(repo.commits)
             /\ draft[t].dirty => pc[t] \in {"exporting", "ending"}
             /\ pc[t] = "exporting" => draft[t].dirty /\ draft[t].ref = refs[t]
             /\ draft[t].dirty /\ pc[t] = "ending" => t \in drift \/ draft[t].ref # refs[t]
             /\ t \notin drift => repo.index[t] = Shown(repo, t)
             /\ t \notin drift /\ ~draft[t].dirty /\ refs[t] # 0 => Shown(repo, t) = texts[t]
             /\ draft[t].dirty /\ draft[t].ref # refs[t] =>
                   /\ draft[t].ref \in 1 .. Len(repo.commits)
                   /\ repo.commits[draft[t].ref][t] = draft[t].text
                   /\ repo.index[t] = draft[t].text /\ Shown(repo, t) = draft[t].text)'
  <2>1. CASE /\ draft'[t] = draft[t] /\ (draft[t].dirty => pc'[t] = pc[t])
             /\ pc'[t] = "exporting" => pc[t] = "exporting"
    BY <2>1 DEF MirrorInv
  <2>2. CASE ~draft'[t].dirty /\ pc'[t] = "idle" /\ (draft[t].dirty => t \in drift')
    BY <2>2 DEF MirrorInv
  <2> QED BY <2>1, <2>2
<1>3. MirrorInv'
  BY <1>1, <1>2 DEF MirrorInv
<1>4. PushedInv => PushedInv'
  BY DEF PushedInv
<1> QED BY <1>3, <1>4

\* A new text is flushed: it is not exported yet, or it will not be.
LEMMA FlushStep ==
    ASSUME MirrorInv, NEW s \in Sources, NEW text \in Nat, FlushText(s, text),
           NEW to \in {"exporting", "ending"}, Go(s, "publishing", to),
           drift' = IF to = "ending" THEN drift \cup {s} ELSE drift
    PROVE  MirrorInv' /\ (PushedInv => PushedInv')
<1> DEFINE d == [text |-> text, ref |-> refs[s], dirty |-> TRUE]
<1>1. /\ MirrorTypes /\ pc \in [Sources -> Stages] /\ refs \in [Sources -> Nat]
      /\ draft \in [Sources -> [text : Nat, ref : Nat, dirty : BOOLEAN]]
  BY DEF MirrorInv, MirrorTypes
<1>2. /\ repo' = repo /\ pushed' = pushed /\ texts' = texts /\ refs' = refs
      /\ drift \subseteq drift' /\ drift' \subseteq drift \cup {s} /\ (to = "ending" => s \in drift')
      /\ draft' = [draft EXCEPT ![s] = d]
      /\ pc' = [pc EXCEPT ![s] = to] /\ pc[s] = "publishing"
  BY DEF FlushText, Go
<1>3. d \in [text : Nat, ref : Nat, dirty : BOOLEAN] /\ d.dirty /\ d.ref = refs[s]
  BY <1>1
<1> HIDE DEF d
<1>4. /\ draft' \in [Sources -> [text : Nat, ref : Nat, dirty : BOOLEAN]]
      /\ draft'[s] = d /\ pc'[s] = to /\ pc' \in [Sources -> Stages]
      /\ \A t \in Sources \ {s} : draft'[t] = draft[t] /\ pc'[t] = pc[t]
  BY <1>1, <1>2, <1>3 DEF Stages
<1>5. MirrorTypes'
  BY <1>1, <1>2, <1>4 DEF MirrorTypes
<1>6. ASSUME NEW t \in Sources
      PROVE (/\ refs[t] <= Len(repo.commits)
             /\ draft[t].dirty => pc[t] \in {"exporting", "ending"}
             /\ pc[t] = "exporting" => draft[t].dirty /\ draft[t].ref = refs[t]
             /\ draft[t].dirty /\ pc[t] = "ending" => t \in drift \/ draft[t].ref # refs[t]
             /\ t \notin drift => repo.index[t] = Shown(repo, t)
             /\ t \notin drift /\ ~draft[t].dirty /\ refs[t] # 0 => Shown(repo, t) = texts[t]
             /\ draft[t].dirty /\ draft[t].ref # refs[t] =>
                   /\ draft[t].ref \in 1 .. Len(repo.commits)
                   /\ repo.commits[draft[t].ref][t] = draft[t].text
                   /\ repo.index[t] = draft[t].text /\ Shown(repo, t) = draft[t].text)'
  <2>1. CASE t = s
    BY <1>2, <1>3, <1>4, <2>1 DEF MirrorInv
  <2>2. CASE t # s
    BY <1>2, <1>4, <2>2 DEF MirrorInv
  <2> QED BY <2>1, <2>2
<1>7. MirrorInv'
  BY <1>4, <1>5, <1>6 DEF MirrorInv
<1>8. PushedInv => PushedInv'
  <2>1. \A t \in Sources : draft'[t].ref # refs[t] => draft'[t] = draft[t]
    BY <1>3, <1>4
  <2> QED BY <1>2, <2>1 DEF PushedInv
<1> QED BY <1>7, <1>8

LEMMA MirrorStarts == Init => MirrorInv /\ PushedInv
<1> SUFFICES ASSUME Init PROVE MirrorInv /\ PushedInv
  OBVIOUS
<1>1. /\ repo = Empty /\ pushed = [r \in Remotes |-> 0] /\ texts = NoText /\ refs = NoText
      /\ draft = [s \in Sources |-> NoDraft] /\ drift = {} /\ pc = [s \in Sources |-> "idle"]
  BY DEF Init, MirrorInit
<1>2. /\ repo.commits = <<>> /\ repo.index = NoText /\ Len(repo.commits) = 0 /\ repo \in Repos
      /\ repo.origin = NoRemote
  BY <1>1 DEF Empty, Repos, NoText
<1>3. \A s \in Sources : /\ ~draft[s].dirty /\ draft[s] \in [text : Nat, ref : Nat, dirty : BOOLEAN]
                         /\ pc[s] = "idle" /\ refs[s] = 0 /\ repo.index[s] = 0
  BY <1>1, <1>2 DEF NoDraft, NoText
<1>4. MirrorTypes /\ pc \in [Sources -> Stages]
  BY <1>1, <1>2, <1>3 DEF MirrorTypes, NoText, Stages, Repos
<1>5. MirrorInv
  BY <1>2, <1>3, <1>4 DEF MirrorInv, Shown
<1>6. PushedInv
  BY <1>1, <1>2, <1>3 DEF PushedInv
<1> QED BY <1>5, <1>6

LEMMA MirrorNext ==
    ASSUME MirrorInv, [Next]_vars
    PROVE  /\ MirrorInv' /\ (PushedInv => PushedInv')
           /\ \A t \in Sources : refs'[t] # refs[t] =>
                 /\ repo.commits[refs'[t]][t] = texts'[t]
                 /\ PushedInv /\ RemoteOf[t] # NoRemote =>
                       repo.origin # NoRemote /\ pushed[repo.origin] >= refs'[t]
<1> DEFINE Rest == \A t \in Sources : refs'[t] # refs[t] =>
                      /\ repo.commits[refs'[t]][t] = texts'[t]
                      /\ PushedInv /\ RemoteOf[t] # NoRemote =>
                       repo.origin # NoRemote /\ pushed[repo.origin] >= refs'[t]
           Goal == MirrorInv' /\ (PushedInv => PushedInv') /\ Rest
           Goes(s) == /\ UNCHANGED mirror
                      /\ \E n \in Stages : /\ pc' = [pc EXCEPT ![s] = n] /\ n # "exporting"
                                           /\ pc[s] \in {"idle", "queued", "counting", "publishing"}
<1>1. /\ MirrorTypes /\ pc \in [Sources -> Stages] /\ repo \in Repos /\ drift \subseteq Sources
      /\ draft \in [Sources -> [text : Nat, ref : Nat, dirty : BOOLEAN]]
      /\ \A s \in Sources : draft[s].text \in Nat
      /\ NoDraft \in [text : Nat, ref : Nat, dirty : BOOLEAN] /\ ~NoDraft.dirty
  BY DEF MirrorInv, MirrorTypes, Repos, NoDraft
<1> HIDE DEF NoDraft
<1>2. refs' = refs => Rest
  OBVIOUS
<1>3. ASSUME NEW s \in Sources, Goes(s) PROVE Goal
  <2>1. PICK n \in Stages : pc' = [pc EXCEPT ![s] = n] /\ n # "exporting"
                            /\ pc[s] \in {"idle", "queued", "counting", "publishing"}
    BY <1>3
  <2>2. repo' = repo /\ pushed' = pushed /\ texts' = texts /\ refs' = refs /\ draft' = draft
        /\ drift' = drift
    BY <1>3 DEF mirror
  <2>3. ~draft[s].dirty /\ pc' \in [Sources -> Stages] /\ pc'[s] = n
        /\ \A t \in Sources \ {s} : pc'[t] = pc[t]
    BY <1>1, <2>1 DEF MirrorInv
  <2>4. ASSUME NEW t \in Sources
        PROVE  (draft[t].dirty => pc'[t] = pc[t]) /\ (pc'[t] = "exporting" => pc[t] = "exporting")
    BY <2>1, <2>3
  <2>5. MirrorInv' /\ (PushedInv => PushedInv')
    BY <1>1, <2>2, <2>3, <2>4, LoseDrafts
  <2> QED BY <1>2, <2>2, <2>5
<1>4. ASSUME NEW s \in Sources, NEW text \in 0 .. MaxCalls,
             Publish(s, text) \/ PublishUnexported(s, text)
      PROVE  Goal
  <2>1. FlushText(s, text) /\ text \in Nat
    BY <1>4, EffectsAssumption DEF Publish, PublishUnexported, PublishText
  <2>2. \E to \in {"exporting", "ending"} :
           /\ Go(s, "publishing", to)
           /\ drift' = IF to = "ending" THEN drift \cup {s} ELSE drift
    BY <1>4 DEF Publish, PublishUnexported
  <2>3. refs' = refs
    BY <2>1 DEF FlushText
  <2> QED BY <1>2, <2>1, <2>2, <2>3, FlushStep
<1>5. ASSUME NEW s \in Sources, Mirror(s) PROVE Goal
  <2>1. Go(s, "exporting", "ending") /\ RemoteOf[s] \in Remotes \cup {NoRemote}
        /\ NoRemote \in Remotes \cup {NoRemote}
    BY <1>5, EffectsAssumption DEF Mirror
  <2>2. \A r : ExportStops(s, r) => refs' = refs
    BY DEF ExportStops
  <2>3. CASE Export(s)
    <3>1. refs' = refs
      BY <2>3 DEF Export
    <3> QED BY <1>2, <2>1, <2>3, <3>1, ExportStep
  <2>4. CASE ExportFailsEarly(s)
    <3>1. ExportStops(s, repo)
      BY <2>4 DEF ExportFailsEarly
    <3> QED BY <1>1, <1>2, <2>1, <2>2, <3>1, StopStep
  <2>5. ASSUME NEW step \in {"remote", "add", "commit"}, ExportFailsLocally(s, step) PROVE Goal
    <3> DEFINE ready == EnsureRepo(repo, IF step = "remote" THEN NoRemote ELSE RemoteOf[s])
               left  == IF step = "commit" THEN Staged(s, ready) ELSE ready
    <3>1. /\ ready \in Repos /\ ready.index = repo.index /\ ready.commits = repo.commits
          /\ ready.init /\ (repo.init => ready.origin = repo.origin)
      BY <1>1, <2>1, ReadyRepo
    <3>2. ExportStops(s, left)
      BY <2>5 DEF ExportFailsLocally
    <3> HIDE DEF ready
    <3>3. left \in Repos /\ left.commits = repo.commits
          /\ left.init /\ (repo.init => left.origin = repo.origin)
          /\ \A t \in Sources \ {s} : left.index[t] = repo.index[t]
      BY <1>1, <3>1, StagedRepo
    <3> HIDE DEF left
    <3> QED BY <1>2, <2>1, <2>2, <3>2, <3>3, StopStep
  <2>6. CASE ExportFailsToPush(s)
    <3> DEFINE ready  == EnsureRepo(repo, RemoteOf[s])
               staged == Staged(s, ready)
               left   == Committed(staged)
    <3>1. /\ ready \in Repos /\ ready.index = repo.index /\ ready.commits = repo.commits
          /\ ready.init /\ (repo.init => ready.origin = repo.origin)
      BY <1>1, <2>1, ReadyRepo
    <3>2. ExportStops(s, left)
      BY <2>6 DEF ExportFailsToPush
    <3> HIDE DEF ready
    <3>3. staged \in Repos /\ staged.commits = repo.commits
          /\ staged.init /\ (repo.init => staged.origin = repo.origin)
          /\ \A t \in Sources \ {s} : staged.index[t] = repo.index[t]
      BY <1>1, <3>1, StagedRepo
    <3> HIDE DEF staged
    <3>4. left \in Repos /\ left.index = staged.index /\ left.commits = Append(repo.commits, left.index)
          /\ left.init /\ (repo.init => left.origin = repo.origin)
      BY <3>3, CommittedRepo
    <3> HIDE DEF left
    <3> QED BY <1>2, <2>1, <2>2, <3>2, <3>3, <3>4, StopStep
  <2> QED BY <1>5, <2>3, <2>4, <2>5, <2>6 DEF Mirror
<1>6. ASSUME NEW s \in Sources, Commit(s) PROVE Goal
  BY <1>6, CommitDocStep DEF Commit
<1>7. ASSUME NEW s \in Sources, Rollback(s) PROVE Goal
  <2>1. /\ drift' = (IF draft[s].dirty THEN drift \cup {s} ELSE drift)
        /\ draft' = [draft EXCEPT ![s] = NoDraft] /\ pc' = [pc EXCEPT ![s] = "idle"]
        /\ repo' = repo /\ pushed' = pushed /\ texts' = texts /\ refs' = refs
    BY <1>7 DEF Rollback, RollbackDoc
  <2>2. /\ draft' \in [Sources -> [text : Nat, ref : Nat, dirty : BOOLEAN]]
        /\ pc' \in [Sources -> Stages] /\ drift' \subseteq Sources /\ drift \subseteq drift'
    BY <1>1, <2>1 DEF Stages
  <2>3. ASSUME NEW t \in Sources
        PROVE  \/ draft'[t] = draft[t] /\ pc'[t] = pc[t]
               \/ ~draft'[t].dirty /\ pc'[t] = "idle" /\ (draft[t].dirty => t \in drift')
    BY <1>1, <2>1
  <2>4. MirrorInv' /\ (PushedInv => PushedInv')
    BY <2>1, <2>2, <2>3, LoseDrafts
  <2> QED BY <1>2, <2>1, <2>4
<1>8. ASSUME Crash PROVE Goal
  <2>1. /\ drift' = drift \cup {s \in Sources : draft[s].dirty}
        /\ draft' = [s \in Sources |-> NoDraft] /\ pc' = [s \in Sources |-> "idle"]
        /\ repo' = repo /\ pushed' = pushed /\ texts' = texts /\ refs' = refs
    BY <1>8 DEF Crash
  <2>2. /\ draft' \in [Sources -> [text : Nat, ref : Nat, dirty : BOOLEAN]]
        /\ pc' \in [Sources -> Stages] /\ drift' \subseteq Sources /\ drift \subseteq drift'
    BY <1>1, <2>1 DEF Stages
  <2>3. ASSUME NEW t \in Sources
        PROVE  ~draft'[t].dirty /\ pc'[t] = "idle" /\ (draft[t].dirty => t \in drift')
    BY <1>1, <2>1
  <2>4. MirrorInv' /\ (PushedInv => PushedInv')
    BY <2>1, <2>2, <2>3, LoseDrafts
  <2> QED BY <1>2, <2>1, <2>4
<1>9. ASSUME NextMonth \/ UNCHANGED vars PROVE Goal
  <2>1. /\ repo' = repo /\ pushed' = pushed /\ texts' = texts /\ refs' = refs /\ draft' = draft
        /\ drift' = drift /\ pc' = pc
    BY <1>9 DEF NextMonth, vars, mirror
  <2>2. MirrorInv' /\ (PushedInv => PushedInv')
    BY <1>1, <2>1, LoseDrafts
  <2> QED BY <1>2, <2>1, <2>2
<1>10. ASSUME NEW s \in Sources,
              Reject(s) \/ SkipWithoutKey(s) \/ QueueLLM(s) \/ LLMFails(s) \/ LLMAnswers(s)
                \/ (\E tokens \in 1 .. MaxTokens : Count(s, tokens)) \/ Refuse(s)
       PROVE  Goes(s)
  BY <1>10 DEF Reject, SkipWithoutKey, QueueLLM, CheckQuota, LLMFails, LLMAnswers, Count, Refuse,
     Go, Stages, mirror
<1> HIDE DEF Goes, Goal
<1>11. Goal
  BY <1>3, <1>4, <1>5, <1>6, <1>7, <1>8, <1>9, <1>10 DEF Next
<1> QED BY <1>11 DEF Goal

\* The mirror shows another text than the database only for a doc whose last export
\* or last run failed, or that was published with its export switched off since,
\* although the mirror is written first (git_export, the commit of
\* _generate_and_publish), whatever the docs' remotes are.
THEOREM DriftIsExplained == Spec => []DriftExplained
<1>1. MirrorInv => DriftExplained
  <2> SUFFICES ASSUME MirrorInv, NEW s \in Sources \ drift, ~draft[s].dirty, refs[s] # 0
               PROVE  repo.commits[Len(repo.commits)][s] = texts[s]
    BY DEF DriftExplained
  <2>1. refs[s] <= Len(repo.commits) /\ refs[s] \in Nat /\ Len(repo.commits) \in Nat
    BY DEF MirrorInv, MirrorTypes
  <2>2. repo.commits # <<>>
    BY <2>1
  <2> QED BY <2>2 DEF MirrorInv, Shown
<1>2. Init => MirrorInv
  BY MirrorStarts
<1>3. MirrorInv /\ [Next]_vars => MirrorInv'
  BY MirrorNext
<1> QED BY <1>1, <1>2, <1>3, PTL DEF Spec

\* last_git_export_commit names a commit with the text it is stored with, and origin has
\* it if the doc has a remote (export_doc_to_git), whatever the docs' remotes are: the
\* working copy has one origin, that of the first export, and every export pushes to it.
THEOREM RefsNameExports == Spec => RefNamesExport
<1>1. Init => MirrorInv /\ PushedInv
  BY MirrorStarts
<1>2. MirrorInv /\ PushedInv /\ [Next]_vars => (MirrorInv /\ PushedInv)'
  BY MirrorNext
<1>3. MirrorInv /\ PushedInv /\ [Next]_vars =>
         [\A s \in Sources : refs'[s] # refs[s] =>
             /\ repo.commits[refs'[s]][s] = texts'[s]
             /\ RemoteOf[s] # NoRemote =>
                   repo.origin # NoRemote /\ pushed[repo.origin] >= refs'[s]]_refs
  BY MirrorNext
<1> QED BY <1>1, <1>2, <1>3, PTL DEF Spec, RefNamesExport

==============================================================================
