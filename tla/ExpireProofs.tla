----------------------------- MODULE ExpireProofs -----------------------------
(***************************************************************************)
(* Machine-checked proofs about Expire, for all numbers of slots, limits,  *)
(* modes, starts and deaths, and any width of the counters of a record.    *)
(***************************************************************************)
EXTENDS Expire, FiniteSetTheorems, WellFoundedInduction, TLAPS

-------------------------------------------------------------------------------
(* Sums: what SumFunction computes                                         *)

(* A set of subsets of a finite set has a smallest one.                    *)
LEMMA SmallestSubset ==
  ASSUME NEW S, IsFiniteSet(S), NEW C, C \subseteq SUBSET S, C # {}
  PROVE  \E T \in C : \A U \in C : ~(U \subseteq T /\ U # T)
<1>1. C \subseteq FiniteSubsetsOf(S)
  BY FS_FiniteSubsetsOfFinite
<1>2. PICK T \in C : \A U \in C : ~(<<U, T>> \in StrictSubsetOrdering(S))
  BY <1>1, FS_StrictSubsetOrderingWellFounded, WFMin, Zenon
<1>3. ASSUME NEW U \in C, U \subseteq T, U # T PROVE FALSE
  <2>1. <<U, T>> \in StrictSubsetOrdering(S)
    BY <1>3 DEF StrictSubsetOrdering
  <2> QED
    BY <1>2, <2>1
<1> QED
  BY <1>3, Zenon

(* What the recursion of SumFunction computes for the subsets of V         *)
Pick(s) == CHOOSE x \in s : TRUE
Sums(f, g, V) ==
    /\ g = [s \in SUBSET V |-> g[s]]
    /\ \A s \in SUBSET V : g[s] = IF s = {} THEN 0 ELSE f[Pick(s)] + g[s \ {Pick(s)}]

LEMMA PickIn == ASSUME NEW s, s # {} PROVE Pick(s) \in s
BY DEF Pick

(* There is one such function for functions that agree on V.               *)
LEMMA SumsAgree ==
  ASSUME NEW S, IsFiniteSet(S), NEW V \in SUBSET S, NEW W \in SUBSET S, NEW f, NEW g, NEW h, NEW k,
         Sums(f, g, V), Sums(k, h, W), \A x \in V \cap W : f[x] = k[x],
         NEW s \in SUBSET (V \cap W)
  PROVE  g[s] = h[s]
<1> DEFINE C == {t \in SUBSET (V \cap W) : g[t] # h[t]}
<1> SUFFICES ASSUME C # {} PROVE FALSE
  OBVIOUS
<1>1. C \subseteq SUBSET S
  OBVIOUS
<1> HIDE DEF C
<1>2. PICK t \in C : \A u \in C : ~(u \subseteq t /\ u # t)
  BY <1>1, SmallestSubset
<1>3. t \in SUBSET V /\ t \in SUBSET W /\ g[t] # h[t]
  BY DEF C
<1>4. t # {}
  BY <1>3 DEF Sums
<1>5. Pick(t) \in t
  BY <1>4, PickIn
<1>6. g[t \ {Pick(t)}] = h[t \ {Pick(t)}]
  BY <1>2, <1>3, <1>5 DEF C
<1>7. g[t] = f[Pick(t)] + g[t \ {Pick(t)}] /\ h[t] = k[Pick(t)] + h[t \ {Pick(t)}]
  BY <1>3, <1>4 DEF Sums
<1> QED
  BY <1>3, <1>5, <1>6, <1>7

LEMMA SumsExist ==
  ASSUME NEW S, IsFiniteSet(S), NEW f
  PROVE  \E g : Sums(f, g, S)
<1> DEFINE C == {V \in SUBSET S : ~\E g : Sums(f, g, V)}
<1> SUFFICES ASSUME C # {} PROVE FALSE
  OBVIOUS
<1>1. C \subseteq SUBSET S
  OBVIOUS
<1> HIDE DEF C
<1>2. PICK V \in C : \A u \in C : ~(u \subseteq V /\ u # V)
  BY <1>1, SmallestSubset
<1>3. V \subseteq S /\ ~\E g : Sums(f, g, V)
  BY DEF C
<1> DEFINE G(U) == CHOOSE g : Sums(f, g, U)
<1>4. \A U \in SUBSET V : U # V => Sums(f, G(U), U)
  <2> SUFFICES ASSUME NEW U \in SUBSET V, U # V PROVE \E g : Sums(f, g, U)
    BY Zenon
  <2> QED
    BY <1>2, <1>3 DEF C
<1> DEFINE below(s) == G(s \ {Pick(s)})[s \ {Pick(s)}]
           g == [s \in SUBSET V |-> IF s = {} THEN 0 ELSE f[Pick(s)] + below(s)]
<1>5. \A s \in SUBSET V : s # V => g[s] = G(s)[s]
  <2> SUFFICES ASSUME NEW s \in SUBSET V, s # V PROVE g[s] = G(s)[s]
    OBVIOUS
  <2>1. Sums(f, G(s), s)
    BY <1>4
  <2>2. CASE s = {}
    <3>1. G(s)[s] = 0
      BY <2>1, <2>2 DEF Sums
    <3> QED
      BY <2>2, <3>1
  <2>3. CASE s # {}
    <3> DEFINE t == s \ {Pick(s)}
    <3>1. t \in SUBSET s /\ t \in SUBSET V /\ t # V
      BY <2>3, PickIn
    <3>2. G(s)[s] = f[Pick(s)] + G(s)[t]
      BY <2>1, <2>3 DEF Sums
    <3>3. Sums(f, G(t), t)
      BY <1>4, <3>1
    <3>4. G(s)[t] = G(t)[t]
      <4> HIDE DEF t, G
      <4>1. s \in SUBSET S /\ t \in SUBSET S /\ t \in SUBSET (s \cap t)
        BY <1>3, <3>1
      <4>2. PICK a : a = G(s)
        OBVIOUS
      <4>3. PICK b : b = G(t)
        OBVIOUS
      <4>4. Sums(f, a, s) /\ Sums(f, b, t)
        BY <2>1, <3>3, <4>2, <4>3, Zenon
      <4>5. a[t] = b[t]
        BY <4>1, <4>4, SumsAgree
      <4> QED
        BY <4>2, <4>3, <4>5, Zenon
    <3>5. g[s] = f[Pick(s)] + G(t)[t]
      BY <2>3
    <3> QED
      BY <3>2, <3>4, <3>5
  <2> QED
    BY <2>2, <2>3
<1>6. \A s \in SUBSET V : g[s] = IF s = {} THEN 0 ELSE f[Pick(s)] + g[s \ {Pick(s)}]
  <2>1. ASSUME NEW s \in SUBSET V, s # {} PROVE g[s] = f[Pick(s)] + g[s \ {Pick(s)}]
    <3> DEFINE t == s \ {Pick(s)}
    <3>1. t \in SUBSET V /\ t # V
      BY <2>1, PickIn
    <3>2. g[t] = G(t)[t]
      BY <1>5, <3>1
    <3>3. g[s] = f[Pick(s)] + G(t)[t]
      BY <2>1
    <3> QED
      BY <3>2, <3>3
  <2>2. \A s \in SUBSET V : s = {} => g[s] = 0
    OBVIOUS
  <2> HIDE DEF g
  <2> QED
    BY <2>1, <2>2
<1>7. g = [s \in SUBSET V |-> g[s]]
  OBVIOUS
<1>8. Sums(f, g, V)
  <2> HIDE DEF g
  <2> QED
    BY <1>6, <1>7 DEF Sums
<1> QED
  BY <1>3, <1>8

LEMMA SumIsSums ==
  ASSUME NEW f, IsFiniteSet(DOMAIN f)
  PROVE  \E g : Sums(f, g, DOMAIN f) /\ SumFunction(f) = g[DOMAIN f]
<1> DEFINE E(g) == g = [s \in SUBSET DOMAIN f |->
                    IF s = {} THEN 0 ELSE f[CHOOSE x \in s : TRUE] + g[s \ {CHOOSE x \in s : TRUE}]]
<1>1. SumFunction(f) = (CHOOSE g : E(g))[DOMAIN f]
  BY DEF SumFunction, SumFunctionOnSet, FoldFunctionOnSet, MapThenFoldSet
<1>2. PICK g : Sums(f, g, DOMAIN f)
  BY SumsExist
<1>3. \A h : E(h) <=> Sums(f, h, DOMAIN f)
  BY DEF Sums, Pick
<1>4. E(CHOOSE h : E(h))
  <2>1. \E h : E(h)
    <3> HIDE DEF E
    <3>1. E(g)
      BY <1>2, <1>3
    <3> QED
      BY <3>1, Zenon
  <2> HIDE DEF E
  <2> QED
    BY <2>1, Zenon
<1> HIDE DEF E
<1> QED
  BY <1>1, <1>3, <1>4, Zenon

(* The order in which the elements are picked does not matter.             *)
LEMMA SumsInt ==
  ASSUME NEW S, IsFiniteSet(S), NEW f, NEW g, Sums(f, g, S), \A x \in S : f[x] \in Int
  PROVE  \A s \in SUBSET S : g[s] \in Int
<1> DEFINE C == {s \in SUBSET S : g[s] \notin Int}
<1> SUFFICES ASSUME C # {} PROVE FALSE
  OBVIOUS
<1>1. C \subseteq SUBSET S
  OBVIOUS
<1> HIDE DEF C
<1>2. PICK s \in C : \A u \in C : ~(u \subseteq s /\ u # s)
  BY <1>1, SmallestSubset
<1>3. s \in SUBSET S /\ g[s] \notin Int
  BY DEF C
<1>4. s # {}
  <2>1. {} \in SUBSET S => g[{}] = 0
    BY DEF Sums
  <2> QED
    BY <1>3, <2>1
<1>5. Pick(s) \in s
  BY <1>4, PickIn
<1>6. g[s \ {Pick(s)}] \in Int
  BY <1>2, <1>3, <1>5 DEF C
<1>7. g[s] = f[Pick(s)] + g[s \ {Pick(s)}]
  BY <1>3, <1>4 DEF Sums
<1> QED
  BY <1>3, <1>5, <1>6, <1>7

LEMMA SumsRemove ==
  ASSUME NEW S, IsFiniteSet(S), NEW f, NEW g, Sums(f, g, S), \A x \in S : f[x] \in Int
  PROVE  \A s \in SUBSET S : \A x \in s : g[s] = f[x] + g[s \ {x}]
<1> DEFINE C == {s \in SUBSET S : \E x \in s : g[s] # f[x] + g[s \ {x}]}
<1> SUFFICES ASSUME C # {} PROVE FALSE
  OBVIOUS
<1>1. C \subseteq SUBSET S
  OBVIOUS
<1> HIDE DEF C
<1>2. PICK s \in C : \A u \in C : ~(u \subseteq s /\ u # s)
  BY <1>1, SmallestSubset
<1>3. PICK x \in s : g[s] # f[x] + g[s \ {x}]
  BY DEF C
<1>4. s \in SUBSET S
  BY DEF C
<1> DEFINE y == Pick(s)
<1>5. y \in s
  BY PickIn
<1>6. g[s] = f[y] + g[s \ {y}]
  BY <1>4 DEF Sums
<1> HIDE DEF y
<1>7. x # y
  BY <1>3, <1>6
<1>8. \A u \in SUBSET s : u # s => \A z \in u : g[u] = f[z] + g[u \ {z}]
  BY <1>2, <1>4 DEF C
<1>9. g[s \ {y}] = f[x] + g[(s \ {y}) \ {x}]
  BY <1>5, <1>7, <1>8
<1>10. g[s \ {x}] = f[y] + g[(s \ {x}) \ {y}]
  BY <1>5, <1>7, <1>8
<1>11. (s \ {y}) \ {x} = (s \ {x}) \ {y}
  OBVIOUS
<1>12. f[x] \in Int /\ f[y] \in Int /\ g[(s \ {x}) \ {y}] \in Int
  BY <1>4, <1>5, SumsInt
<1> QED
  <2> DEFINE c == g[(s \ {x}) \ {y}]
  <2>1. g[s] = f[y] + (f[x] + c) /\ g[s \ {x}] = f[y] + c
    BY <1>6, <1>9, <1>10, <1>11
  <2>2. f[x] \in Int /\ f[y] \in Int /\ c \in Int
    BY <1>12
  <2> HIDE DEF c
  <2>3. f[y] + (f[x] + c) = f[x] + (f[y] + c)
    BY <2>2
  <2> QED
    BY <1>3, <2>1, <2>3

LEMMA SumOfNone == ASSUME NEW f, DOMAIN f = {} PROVE SumFunction(f) = 0
<1>1. PICK g : Sums(f, g, DOMAIN f) /\ SumFunction(f) = g[DOMAIN f]
  BY SumIsSums, FS_EmptySet
<1> QED
  BY <1>1 DEF Sums

LEMMA SumInInt ==
  ASSUME NEW f, IsFiniteSet(DOMAIN f), \A x \in DOMAIN f : f[x] \in Int
  PROVE  SumFunction(f) \in Int
<1>1. PICK g : Sums(f, g, DOMAIN f) /\ SumFunction(f) = g[DOMAIN f]
  BY SumIsSums
<1> QED
  BY <1>1, SumsInt

LEMMA SumRemove ==
  ASSUME NEW f, IsFiniteSet(DOMAIN f), \A x \in DOMAIN f : f[x] \in Int, NEW x \in DOMAIN f,
         NEW h, DOMAIN h = DOMAIN f \ {x}, \A y \in DOMAIN h : h[y] = f[y]
  PROVE  SumFunction(f) = f[x] + SumFunction(h)
<1>1. PICK g : Sums(f, g, DOMAIN f) /\ SumFunction(f) = g[DOMAIN f]
  BY SumIsSums
<1>2. IsFiniteSet(DOMAIN h)
  BY FS_RemoveElement
<1>3. PICK k : Sums(h, k, DOMAIN h) /\ SumFunction(h) = k[DOMAIN h]
  BY <1>2, SumIsSums
<1>4. g[DOMAIN h] = k[DOMAIN h]
  <2>1. DOMAIN f \in SUBSET DOMAIN f /\ DOMAIN h \in SUBSET DOMAIN f
    OBVIOUS
  <2>2. DOMAIN h \in SUBSET (DOMAIN f \cap DOMAIN h)
    OBVIOUS
  <2>3. \A y \in DOMAIN f \cap DOMAIN h : f[y] = h[y]
    OBVIOUS
  <2> QED
    BY <1>1, <1>3, <2>1, <2>2, <2>3, SumsAgree
<1>5. g[DOMAIN f] = f[x] + g[DOMAIN f \ {x}]
  BY <1>1, SumsRemove
<1> QED
  BY <1>1, <1>3, <1>4, <1>5

LEMMA SumAgrees ==
  ASSUME NEW f, NEW h, IsFiniteSet(DOMAIN f), DOMAIN h = DOMAIN f, \A y \in DOMAIN f : h[y] = f[y]
  PROVE  SumFunction(h) = SumFunction(f)
<1>1. PICK g : Sums(f, g, DOMAIN f) /\ SumFunction(f) = g[DOMAIN f]
  BY SumIsSums
<1>2. PICK k : Sums(h, k, DOMAIN h) /\ SumFunction(h) = k[DOMAIN h]
  BY SumIsSums
<1>3. g[DOMAIN f] = k[DOMAIN f]
  <2>1. DOMAIN f \in SUBSET DOMAIN f /\ DOMAIN h \in SUBSET DOMAIN f
    OBVIOUS
  <2>2. DOMAIN f \in SUBSET (DOMAIN f \cap DOMAIN h)
    OBVIOUS
  <2> QED
    BY <1>1, <1>2, <2>1, <2>2, SumsAgree
<1> QED
  BY <1>1, <1>2, <1>3

-------------------------------------------------------------------------------
(* Arithmetic modulo SizeModulus                                           *)

LEMMA Division == ASSUME NEW n \in Int
  PROVE  Wrap(n) \in 0 .. SizeModulus - 1 /\ \E k \in Int : n = k * SizeModulus + Wrap(n)
<1>1. n % SizeModulus \in 0 .. SizeModulus - 1
  BY ExpireAssumption
<1>2. n \div SizeModulus \in Int
  BY ExpireAssumption
<1>3. n = SizeModulus * (n \div SizeModulus) + (n % SizeModulus)
  BY ExpireAssumption
<1>4. SizeModulus * (n \div SizeModulus) = (n \div SizeModulus) * SizeModulus
  BY <1>2, ExpireAssumption
<1> QED
  BY <1>1, <1>2, <1>3, <1>4 DEF Wrap

LEMMA Multiple ==
  ASSUME NEW a \in 0 .. SizeModulus - 1, NEW b \in 0 .. SizeModulus - 1, NEW k \in Int,
         a - b = k * SizeModulus
  PROVE  a = b
<1>1. k >= 1 => k * SizeModulus >= SizeModulus
  BY ExpireAssumption
<1>2. k <= -1 => k * SizeModulus <= -SizeModulus
  BY ExpireAssumption
<1>3. k = 0 => k * SizeModulus = 0
  BY ExpireAssumption
<1> QED
  BY ExpireAssumption, <1>1, <1>2, <1>3

LEMMA Congruent ==
  ASSUME NEW a \in Int, NEW b \in Int, NEW k \in Int, a - b = k * SizeModulus
  PROVE  Wrap(a) = Wrap(b)
<1>1. PICK i \in Int : a = i * SizeModulus + Wrap(a)
  BY Division
<1>2. PICK j \in Int : b = j * SizeModulus + Wrap(b)
  BY Division
<1>3. Wrap(a) \in 0 .. SizeModulus - 1 /\ Wrap(b) \in 0 .. SizeModulus - 1
  BY Division
<1>4. Wrap(a) - Wrap(b) = (k - i + j) * SizeModulus
  <2> DEFINE x == Wrap(a)
             y == Wrap(b)
  <2> HIDE DEF x, y
  <2>1. x \in Int /\ y \in Int /\ SizeModulus \in Int
    BY <1>3, ExpireAssumption DEF x, y
  <2>2. x = a - i * SizeModulus /\ y = b - j * SizeModulus
    BY <1>1, <1>2, <2>1 DEF x, y
  <2>3. (k - i + j) * SizeModulus = k * SizeModulus - i * SizeModulus + j * SizeModulus
    BY <2>1
  <2> QED
    BY <2>1, <2>2, <2>3 DEF x, y
<1>5. k - i + j \in Int
  OBVIOUS
<1> QED
  BY <1>3, <1>4, <1>5, Multiple

LEMMA Congruence == ASSUME NEW a \in Int, NEW b \in Int, Wrap(a) = Wrap(b)
  PROVE \E k \in Int : a - b = k * SizeModulus
<1>1. PICK i \in Int : a = i * SizeModulus + Wrap(a)
  BY Division
<1>2. PICK j \in Int : b = j * SizeModulus + Wrap(b)
  BY Division
<1>3. a - b = (i - j) * SizeModulus
  <2> DEFINE x == Wrap(a)
  <2> HIDE DEF x
  <2>1. x \in Int /\ SizeModulus \in Int
    BY Division, ExpireAssumption DEF x
  <2>2. a = i * SizeModulus + x /\ b = j * SizeModulus + x
    BY <1>1, <1>2 DEF x
  <2>3. (i - j) * SizeModulus = i * SizeModulus - j * SizeModulus
    BY <2>1
  <2> QED
    BY <2>1, <2>2, <2>3
<1> QED
  BY <1>3

LEMMA WrapAdd == ASSUME NEW a \in Int, NEW b \in Int, NEW c \in Int, Wrap(a) = Wrap(b)
  PROVE Wrap(a + c) = Wrap(b + c)
<1>1. PICK k \in Int : a - b = k * SizeModulus
  BY Congruence
<1>2. (a + c) - (b + c) = k * SizeModulus
  BY <1>1
<1> QED
  BY <1>2, Congruent

LEMMA WrapWrap == ASSUME NEW a \in Int PROVE Wrap(a) \in 0 .. SizeModulus - 1 /\ Wrap(Wrap(a)) = Wrap(a)
<1>1. PICK k \in Int : a = k * SizeModulus + Wrap(a)
  BY Division
<1>2. a - Wrap(a) = k * SizeModulus /\ Wrap(a) \in Int
  <2> DEFINE x == Wrap(a)
  <2> HIDE DEF x
  <2>1. x \in Int /\ SizeModulus \in Int /\ x \in 0 .. SizeModulus - 1
    BY Division, ExpireAssumption DEF x
  <2> QED
    BY <1>1, <2>1 DEF x
<1> QED
  BY <1>2, Congruent, Division

LEMMA WrapModulus == ASSUME NEW a \in Int PROVE Wrap(a + SizeModulus) = Wrap(a)
<1>1. (a + SizeModulus) - a = 1 * SizeModulus /\ a + SizeModulus \in Int
  BY ExpireAssumption
<1> QED
  BY <1>1, Congruent
LEMMA WrapSmall == ASSUME NEW a \in 0 .. SizeModulus - 1 PROVE Wrap(a) = a
BY ExpireAssumption DEF Wrap


-------------------------------------------------------------------------------
(* The first and the last of some slots                                    *)

Less == {ss \in Nat \X Nat : ss[1] < ss[2]}

LEMMA LeastNumber ==
  ASSUME NEW T, T \subseteq Nat, T # {}
  PROVE  \E n \in T : \A m \in T : n <= m
<1>1. OpToRel(<, Nat) = Less
  BY Zenon DEF OpToRel, Less
<1>2. IsWellFoundedOn(Less, Nat)
  BY <1>1, NatLessThanWellFounded, Zenon
<1>3. PICK n \in T : \A m \in T : ~(<<m, n>> \in Less)
  BY <1>2, WFMin, Zenon
<1>4. ASSUME NEW m \in T, m < n PROVE FALSE
  <2>1. <<m, n>> \in Less
    BY <1>4 DEF Less
  <2> QED
    BY <1>3, <2>1
<1> QED
  BY <1>3, <1>4

LEMMA MinFacts ==
  ASSUME NEW S \in SUBSET Slots, S # {}
  PROVE  Min(S) \in S /\ Min(S) \in Nat /\ \A s \in S : Min(S) <= s
<1>1. S \subseteq Nat
  BY ExpireAssumption DEF Slots
<1>2. \E x \in S : \A y \in S : x <= y
  BY <1>1, LeastNumber
<1> QED
  BY <1>1, <1>2 DEF Min

LEMMA MaxFacts ==
  ASSUME NEW S \in SUBSET Slots, S # {}
  PROVE  Max(S) \in S /\ Max(S) \in Nat /\ \A s \in S : s <= Max(S)
<1>1. S \subseteq Nat
  BY ExpireAssumption DEF Slots
<1> DEFINE T == {n \in Nat : \A s \in S : s <= n}
<1>2. MaxSlot \in T
  BY ExpireAssumption DEF Slots
<1>3. PICK n \in T : \A m \in T : n <= m
  <2>1. T \subseteq Nat /\ T # {}
    BY <1>2
  <2> HIDE DEF T
  <2> QED
    BY <2>1, LeastNumber
<1>4. n \in S
  <2> SUFFICES ASSUME n \notin S PROVE FALSE
    OBVIOUS
  <2>1. \A s \in S : s <= n - 1
    BY <1>1
  <2>2. PICK s \in S : TRUE
    OBVIOUS
  <2>3. n - 1 \in Nat
    BY <1>1, <2>1, <2>2
  <2>4. n - 1 \in T
    BY <2>1, <2>3
  <2> QED
    BY <1>3, <2>4
<1>5. \E x \in S : \A y \in S : x >= y
  BY <1>1, <1>4
<1> QED
  BY <1>1, <1>5 DEF Max

LEMMA SlotsFinite == ASSUME NEW S \in SUBSET Slots
  PROVE  IsFiniteSet(S) /\ Cardinality(S) \in 0 .. MaxSlot /\ Cardinality(S) < SizeModulus
<1>1. IsFiniteSet(Slots) /\ Cardinality(Slots) = MaxSlot
  BY FS_Interval, ExpireAssumption DEF Slots
<1>2. IsFiniteSet(S) /\ Cardinality(S) <= MaxSlot
  BY <1>1, FS_Subset
<1>3. Cardinality(S) \in Nat
  BY <1>2, FS_CardinalityType
<1> QED
  BY <1>2, <1>3, ExpireAssumption

-------------------------------------------------------------------------------
(* The inductive invariant                                                 *)

(* Types: directories and books have finitely many files.                  *)
FilesIn == UNION {[S -> Nat] : S \in SUBSET Slots}
Locations == {"idle", "lock", "take", "sequence", "scan", "compare", "again", "clear", "expire",
              "unlink", "tally", "param", "truncate", "write", "overwrite", "reopen", "relock", "quit"}
Phases == {"down", "run", "moved", "lastmoved", "stop", "stat", "truncate", "write", "released", "release"}
Jobs == [mode : {"list", "rescan", "expire", "update"}, limits : Limits \cup {NoLimits},
         fresh : BOOLEAN, rescan : BOOLEAN, attached : {"no", "yes", "orphan"}, loop : 0 .. 2,
         nofiles : BOOLEAN, dirty : BOOLEAN, walk : FilesIn, size_done : BOOLEAN,
         lifetime_done : BOOLEAN, expired : Nat]

DiskTypes ==
    /\ clock \in Slots /\ dir \in FilesIn
    /\ stat \in [exists : BOOLEAN, rec : Record]
    /\ lock \in Procs \cup {"none"}
BookTypes ==
    /\ booked \in FilesIn /\ orphan \in FilesIn
    /\ segment \in BOOLEAN /\ sem \in BOOLEAN /\ changed \in BOOLEAN
RunTypes ==
    /\ phase \in Phases /\ messages \in Nat /\ events \in 0 .. MaxEvents /\ auto \in BOOLEAN
    /\ pc \in [Expirers -> Locations] /\ job \in [Expirers -> Jobs] /\ rec \in [Procs -> Record]
Types == DiskTypes /\ BookTypes /\ RunTypes

(* Where the processes are: nfexpire has stages of its own, an idle one    *)
(* has no locals, the launcher has ended when the collector takes in the   *)
(* books, and the record nfexpire -u writes again is good only as long as  *)
(* nobody has taken the lock in between.                                   *)
Stages ==
    /\ pc["launcher"] \notin {"sequence", "compare", "again", "param", "overwrite", "reopen",
                              "relock", "quit"}
    /\ job["launcher"].mode = "list"
    /\ \A p \in Expirers : pc[p] = "idle" => job[p] = NoJob /\ rec[p] = Torn(NoLimits)
    /\ \A p \in Expirers : pc[p] = "lock" => ~job[p].dirty /\ job[p].attached = "no"
    /\ \A p \in Expirers : job[p].expired # 0 => pc[p] \in {"unlink", "tally"}
    /\ job["launcher"].attached # "orphan"
    /\ pc["nfexpire"] \in {"reopen", "relock"} /\ rec["nfexpire"].exact => lock = "none"

Sessions ==
    /\ phase \in {"down", "stat", "truncate", "write", "released", "release"} => messages = 0
    /\ phase \in {"stat", "truncate", "write", "released", "release"} => pc["launcher"] = "idle"
    /\ phase = "moved" => clock < MaxSlot
    /\ phase \in {"run", "moved", "lastmoved"} => messages < clock
    /\ messages <= clock
    /\ phase # "down" => events > 0

(* Files are no larger than the number of starts, no file and no entry of  *)
(* the books is of a later slot, a slot is booked once by a collector, and *)
(* when a booked file is gone all older ones are.                          *)
Sizes ==
    /\ \A s \in DOMAIN dir : dir[s] \in 1 .. events /\ s <= clock
    /\ phase = "run" /\ clock \in DOMAIN dir => dir[clock] < events
    /\ \A s \in DOMAIN booked : s <= clock
    /\ phase \in {"run", "moved", "lastmoved"} => clock \notin DOMAIN booked
    /\ \A s \in (DOMAIN booked \cup Moved) \ DOMAIN dir : \A t \in DOMAIN dir : t > s

(* What is left of a walk is there, and all other files are later.         *)
Walks ==
    \A p \in Expirers : pc[p] = "unlink" =>
      /\ DOMAIN job[p].walk \subseteq DOMAIN dir
      /\ \A f \in DOMAIN job[p].walk : \A s \in DOMAIN dir \ DOMAIN job[p].walk : s > f

Base == Types /\ LockHeld /\ Stages /\ Sessions /\ Sizes /\ Walks

-------------------------------------------------------------------------------
(* Types                                                                   *)

LEMMA FilesFacts ==
  ASSUME NEW f \in FilesIn
  PROVE  /\ f = [s \in DOMAIN f |-> f[s]] /\ DOMAIN f \in SUBSET Slots
         /\ \A s \in DOMAIN f : f[s] \in Nat /\ f[s] \in Int /\ s \in Slots /\ s \in Nat
         /\ IsFiniteSet(DOMAIN f) /\ Cardinality(DOMAIN f) \in 0 .. MaxSlot
         /\ SumFunction(f) \in Int
<1>1. PICK S \in SUBSET Slots : f \in [S -> Nat]
  BY DEF FilesIn
<1>2. Slots \subseteq Nat
  BY ExpireAssumption DEF Slots
<1>3. IsFiniteSet(DOMAIN f) /\ Cardinality(DOMAIN f) \in 0 .. MaxSlot
  BY <1>1, SlotsFinite
<1>4. \A s \in DOMAIN f : f[s] \in Int
  BY <1>1
<1> QED
  BY <1>1, <1>2, <1>3, <1>4, SumInInt

LEMMA FilesAre ==
  ASSUME NEW S \in SUBSET Slots, NEW f \in [S -> Nat]
  PROVE  f \in FilesIn
BY DEF FilesIn

LEMMA NoFilesFacts == NoFiles \in FilesIn /\ DOMAIN NoFiles = {}
<1>1. NoFiles \in [{} -> Nat]
  BY DEF NoFiles
<1> QED
  BY <1>1, FilesAre

LEMMA FilesNone == ASSUME NEW f \in FilesIn PROVE f = NoFiles <=> DOMAIN f = {}
<1>1. NoFiles = [s \in {} |-> 0]
  BY DEF NoFiles
<1> QED
  BY <1>1, FilesFacts, NoFilesFacts

LEMMA FilesWith ==
  ASSUME NEW f \in FilesIn, NEW s \in Slots, NEW n \in Nat
  PROVE  /\ With(f, s, n) \in FilesIn
         /\ DOMAIN With(f, s, n) = DOMAIN f \cup {s}
         /\ With(f, s, n)[s] = n
         /\ \A t \in DOMAIN f : t # s => With(f, s, n)[t] = f[t]
<1> DEFINE g == With(f, s, n)
<1>1. g = [t \in DOMAIN f \cup {s} |-> IF t = s THEN n ELSE f[t]]
  BY DEF With
<1> HIDE DEF g
<1>2. DOMAIN f \cup {s} \in SUBSET Slots /\ g \in [DOMAIN f \cup {s} -> Nat]
  BY <1>1, FilesFacts
<1>3. g \in FilesIn
  BY <1>2, FilesAre
<1>4. DOMAIN g = DOMAIN f \cup {s} /\ g[s] = n /\ \A t \in DOMAIN f : t # s => g[t] = f[t]
  BY <1>1
<1> QED
  BY <1>3, <1>4 DEF g

LEMMA FilesWithout ==
  ASSUME NEW f \in FilesIn, NEW s
  PROVE  /\ Without(f, s) \in FilesIn
         /\ DOMAIN Without(f, s) = DOMAIN f \ {s}
         /\ \A t \in DOMAIN f \ {s} : Without(f, s)[t] = f[t]
<1>1. Without(f, s) = [t \in DOMAIN f \ {s} |-> f[t]]
  BY DEF Without, Restrict
<1>2. DOMAIN f \ {s} \in SUBSET Slots /\ [t \in DOMAIN f \ {s} |-> f[t]] \in [DOMAIN f \ {s} -> Nat]
  BY FilesFacts
<1> QED
  BY <1>1, <1>2, FilesAre

LEMMA Limited_ ==
  ASSUME NEW l \in Limits \cup {NoLimits}
  PROVE  l \in [max_size : {0} \cup {k.max_size : k \in Limits},
                max_lifetime : {0} \cup {k.max_lifetime : k \in Limits}]
<1>1. CASE l \in Limits
  <2>1. l \in [max_size : Nat, max_lifetime : Nat]
    BY <1>1, ExpireAssumption
  <2> QED
    BY <1>1, <2>1
<1>2. CASE l = NoLimits
  BY <1>2 DEF NoLimits
<1> QED
  BY <1>1, <1>2

LEMMA TornRecord ==
  ASSUME NEW l \in [max_size : {0} \cup {k.max_size : k \in Limits},
                    max_lifetime : {0} \cup {k.max_lifetime : k \in Limits}]
  PROVE  Torn(l) \in Record
<1>1. 0 \in 0 .. MaxSlot /\ 0 \in 0 .. SizeModulus - 1
  BY ExpireAssumption
<1> QED
  BY <1>1 DEF Torn, Record

LEMMA TornNone == Torn(NoLimits) \in Record /\ ~Torn(NoLimits).exact /\ Torn(NoLimits).rebuild
BY Limited_, TornRecord DEF Torn

LEMMA VerifyRecord ==
  ASSUME NEW r \in Record
  PROVE  /\ Verify(r) \in Record /\ Verify(r).numfiles = r.numfiles /\ Verify(r).last = r.last
         /\ Verify(r).filesize = r.filesize /\ Verify(r).exact = r.exact
         /\ r.rebuild => Verify(r).rebuild
BY DEF Verify, Record

LEMMA SlotNumbers == ASSUME NEW s \in Slots PROVE s \in 0 .. MaxSlot /\ s \in Nat
BY ExpireAssumption DEF Slots

LEMMA TakenRecord ==
  ASSUME NEW r \in Record, NEW b \in FilesIn
  PROVE  Taken(r, b) \in Record
<1>1. CASE b = NoFiles
  BY <1>1 DEF Taken
<1>2. CASE b # NoFiles /\ (Max(DOMAIN b) <= r.last \/ Min(DOMAIN b) <= r.first)
  BY <1>2 DEF Taken, Record
<1>3. CASE b # NoFiles /\ ~(Max(DOMAIN b) <= r.last \/ Min(DOMAIN b) <= r.first)
  <2>1. Max(DOMAIN b) \in 0 .. MaxSlot /\ Min(DOMAIN b) \in Nat
    BY <1>3, FilesFacts, FilesNone, MaxFacts, MinFacts, SlotNumbers
  <2>2. r.numfiles + Cardinality(DOMAIN b) \in Int /\ r.filesize + SumFunction(b) \in Int
    BY FilesFacts, ExpireAssumption DEF Record
  <2>3. /\ Wrap(r.numfiles + Cardinality(DOMAIN b)) \in 0 .. SizeModulus - 1
        /\ Wrap(r.filesize + SumFunction(b)) \in 0 .. SizeModulus - 1
    BY <2>2, WrapWrap
  <2>4. (r.exact /\ Min(DOMAIN b) > r.last) \in BOOLEAN
    BY DEF Record
  <2>5. Taken(r, b) = [r EXCEPT !.last = Max(DOMAIN b),
                     !.numfiles = Wrap(r.numfiles + Cardinality(DOMAIN b)),
                     !.filesize = Wrap(r.filesize + SumFunction(b)),
                     !.exact = r.exact /\ Min(DOMAIN b) > r.last]
    BY <1>3 DEF Taken
  <2> QED
    BY <2>1, <2>3, <2>4, <2>5 DEF Record
<1> QED
  BY <1>1, <1>2, <1>3

LEMMA ScannedRecord ==
  ASSUME NEW r \in Record, clock \in Slots, dir \in FilesIn
  PROVE  Scanned(r) \in Record
<1>1. CASE dir = NoFiles
  <2>1. 0 \in 0 .. SizeModulus - 1 /\ clock \in 0 .. MaxSlot
    BY ExpireAssumption, SlotNumbers
  <2> QED
    BY <1>1, <2>1 DEF Scanned, Record
<1>2. CASE dir # NoFiles
  <2>1. Max(DOMAIN dir) \in 0 .. MaxSlot /\ Min(DOMAIN dir) \in 0 .. MaxSlot
    BY <1>2, FilesFacts, FilesNone, MaxFacts, MinFacts, SlotNumbers
  <2>2. Cardinality(DOMAIN dir) \in 0 .. SizeModulus - 1
    BY FilesFacts, ExpireAssumption
  <2>3. Wrap(SumFunction(dir)) \in 0 .. SizeModulus - 1
    BY FilesFacts, WrapWrap
  <2>4. Scanned(r) = [r EXCEPT !.first = Min(DOMAIN dir), !.last = Max(DOMAIN dir),
                     !.numfiles = Cardinality(DOMAIN dir),
                     !.filesize = Wrap(SumFunction(dir)),
                     !.rebuild = FALSE, !.exact = TRUE]
    BY <1>2 DEF Scanned
  <2> QED
    BY <2>1, <2>2, <2>3, <2>4 DEF Record
<1> QED
  BY <1>1, <1>2

(* A record that counts no longer                                          *)
LEMMA InexactRecord ==
  ASSUME NEW r \in Record, NEW e \in BOOLEAN
  PROVE  [r EXCEPT !.exact = e] \in Record
BY DEF Record

LEMMA NoJobFacts ==
  /\ NoJob \in Jobs /\ ~NoJob.dirty /\ NoJob.expired = 0 /\ NoJob.attached = "no"
  /\ NoJob.mode = "list" /\ NoJob.loop = 0
BY NoFilesFacts DEF NoJob, Jobs

LEMMA Processes == "launcher" \in Expirers /\ "nfexpire" \in Expirers /\ Expirers \subseteq Procs
                   /\ "collector" \in Procs /\ "collector" \notin Expirers /\ "none" \notin Procs
BY DEF Expirers, Procs

LEMMA QuitTypes ==
  ASSUME RunTypes, NEW p \in Expirers, Quit(p)
  PROVE  /\ pc' \in [Expirers -> Locations] /\ job' \in [Expirers -> Jobs] /\ rec' \in [Procs -> Record]
         /\ pc'[p] = "idle" /\ job'[p] = NoJob /\ rec'[p] = Torn(NoLimits)
         /\ \A q \in Expirers : q # p => pc'[q] = pc[q] /\ job'[q] = job[q]
         /\ \A q \in Procs : q # p => rec'[q] = rec[q]
BY NoJobFacts, TornNone, Processes DEF Quit, Go, RunTypes, Locations

LEMMA StaleTypes ==
  ASSUME rec \in [Procs -> Record]
  PROVE  /\ Stale \in [Procs -> Record]
         /\ \A q \in Procs : q # "nfexpire" => Stale[q] = rec[q]
         /\ Stale["nfexpire"] = rec["nfexpire"] \/
            Stale["nfexpire"] = [rec["nfexpire"] EXCEPT !.exact = FALSE]
         /\ pc["nfexpire"] \in {"reopen", "relock"} => ~Stale["nfexpire"].exact
         /\ pc["nfexpire"] \notin {"reopen", "relock"} => Stale = rec
<1>1. CASE pc["nfexpire"] \in {"reopen", "relock"}
  <2>1. Stale = [rec EXCEPT !["nfexpire"].exact = FALSE]
    BY <1>1 DEF Stale
  <2>2. rec["nfexpire"] \in Record
    BY Processes
  <2>3. [rec["nfexpire"] EXCEPT !.exact = FALSE] \in Record /\ ~[rec["nfexpire"] EXCEPT !.exact = FALSE].exact
    BY <2>2 DEF Record
  <2> QED
    BY <1>1, <2>1, <2>3, Processes
<1>2. CASE pc["nfexpire"] \notin {"reopen", "relock"}
  BY <1>2 DEF Stale
<1> QED
  BY <1>1, <1>2

LEMMA MiscountTypes ==
  ASSUME Types, Miscount
  PROVE  /\ stat' \in [exists : BOOLEAN, rec : Record] /\ rec' \in [Procs -> Record]
         /\ stat'.exists = stat.exists /\ ~stat'.rec.exact
         /\ \A q \in Procs : rec'[q] = [rec[q] EXCEPT !.exact = FALSE] /\ ~rec'[q].exact
<1>1. [stat.rec EXCEPT !.exact = FALSE] \in Record /\ ~[stat.rec EXCEPT !.exact = FALSE].exact
  BY DEF Types, DiskTypes, Record
<1>2. \A q \in Procs : [rec[q] EXCEPT !.exact = FALSE] \in Record /\ ~[rec[q] EXCEPT !.exact = FALSE].exact
  BY DEF Types, RunTypes, Record
<1> QED
  BY <1>1, <1>2 DEF Miscount, Types, DiskTypes

-------------------------------------------------------------------------------
(* Types are kept                                                          *)

LEMMA OldestFacts ==
  ASSUME NEW p, job[p].walk \in FilesIn, job[p].walk # NoFiles
  PROVE  /\ Oldest(p) \in DOMAIN job[p].walk /\ Oldest(p) \in Slots /\ Oldest(p) \in 0 .. MaxSlot
         /\ \A s \in DOMAIN job[p].walk : Oldest(p) <= s
<1> DEFINE w == job[p].walk
<1>1. DOMAIN w \in SUBSET Slots /\ DOMAIN w # {}
  BY FilesFacts, FilesNone
<1>2. Min(DOMAIN w) \in DOMAIN w /\ \A s \in DOMAIN w : Min(DOMAIN w) <= s
  BY <1>1, MinFacts
<1> QED
  BY <1>1, <1>2, SlotNumbers DEF Oldest

LEMMA ExpirerTypes ==
  ASSUME Types, NEW p \in Expirers, Expirer(p)
  PROVE  Types'
<1> USE DEF Types, DiskTypes, BookTypes, RunTypes
<1>1. /\ p \in Procs /\ pc[p] \in Locations /\ job[p] \in Jobs /\ rec[p] \in Record /\ stat.rec \in Record
      /\ stat.exists \in BOOLEAN
  BY Processes
<1> DEFINE Step(q, j, r) == /\ pc' = [pc EXCEPT ![p] = q] /\ q \in Locations
                            /\ job' = [job EXCEPT ![p] = j] /\ j \in Jobs
                            /\ rec' = [rec EXCEPT ![p] = r] /\ r \in Record
<1>0. ASSUME NEW q, NEW j, NEW r, Step(q, j, r), UNCHANGED <<phase, messages, events, auto>>
      PROVE  RunTypes'
  BY <1>0
<1> DEFINE Same == UNCHANGED <<clock, auto, phase, messages, events, deaths, segment>>
<1>2. Same
  BY DEF Expirer, LockStat, TakeBooks, KeepSequence, RescanDir, CompareSequence, CompareAgain,
    ClearBooks, StartExpire, Unlink, KeepFile, Tally, SetLimits, TruncateStat, WriteStat, ReopenStat,
    RelockStat, LeaveStat, Emptied, disk, books, owner, bounds
<1>3. CASE LockStat(p)
  <2> DEFINE r == IF job[p].fresh THEN Torn(NoLimits) ELSE Verify(stat.rec)
             j == [job[p] EXCEPT !.rescan = r.rebuild \/ job[p].mode = "rescan",
                                 !.attached = IF segment THEN "yes" ELSE "no"]
  <2>1. r \in Record
    BY <1>1, TornNone, VerifyRecord
  <2>2. r.rebuild \in BOOLEAN
    BY <2>1 DEF Record
  <2>3. /\ rec' = [Stale EXCEPT ![p] = r] /\ job' = [job EXCEPT ![p] = j]
        /\ pc' = [pc EXCEPT ![p] = AfterLock(p, j)]
        /\ lock' = p /\ UNCHANGED <<dir, stat, booked, orphan, sem, changed>>
    BY <1>3 DEF LockStat, Go, books
  <2> HIDE DEF r
  <2>4. j \in Jobs
    BY <1>1, <2>2 DEF Jobs
  <2> HIDE DEF j
  <2>5. AfterLock(p, j) \in Locations
    BY DEF AfterLock, Act, Written, Locations
  <2>6. Stale \in [Procs -> Record]
    BY StaleTypes
  <2>7. rec' \in [Procs -> Record] /\ pc' \in [Expirers -> Locations] /\ job' \in [Expirers -> Jobs]
    BY <1>1, <2>1, <2>3, <2>4, <2>5, <2>6
  <2> QED
    BY <1>1, <1>2, <2>3, <2>7
<1>4. CASE TakeBooks(p)
  <2> DEFINE r == Taken(rec[p], Books(p))
             j == [job[p] EXCEPT !.rescan = job[p].rescan \/ r.rebuild, !.dirty = TRUE]
             q == IF p = "launcher" THEN IF Limited(r) THEN "expire" ELSE "truncate"
                    ELSE IF j.rescan THEN "sequence" ELSE Act(j)
  <2>1. Books(p) \in FilesIn
    BY NoFilesFacts DEF Books
  <2>2. r \in Record
    BY <1>1, <2>1, TakenRecord
  <2>3. r.rebuild \in BOOLEAN
    BY <2>2 DEF Record
  <2>4. /\ rec' = [rec EXCEPT ![p] = r] /\ job' = [job EXCEPT ![p] = j] /\ pc' = [pc EXCEPT ![p] = q]
        /\ Emptied(p) /\ UNCHANGED <<dir, stat, lock>>
    BY <1>4 DEF TakeBooks, Go, disk
  <2> HIDE DEF r
  <2>5. j \in Jobs
    BY <1>1, <2>3 DEF Jobs
  <2> HIDE DEF j
  <2>6. q \in Locations
    BY DEF Act, Written, Locations
  <2> HIDE DEF q
  <2>7. RunTypes'
    BY <1>0, <1>2, <2>2, <2>4, <2>5, <2>6
  <2> QED
    BY <1>2, <2>4, <2>7, NoFilesFacts DEF Emptied
<1>5. CASE KeepSequence(p)
  BY <1>1, <1>2, <1>5 DEF KeepSequence, Go, Locations, disk
<1>6. CASE RescanDir(p)
  <2>1. Scanned(rec[p]) \in Record
    BY <1>1, ScannedRecord
  <2>2. [job[p] EXCEPT !.nofiles = job[p].nofiles \/ dir = NoFiles] \in Jobs
    BY <1>1 DEF Jobs
  <2>3. RunTypes'
    BY <1>1, <1>2, <1>6, <2>1, <2>2 DEF RescanDir, Go, Locations
  <2> QED
    BY <1>2, <1>6, <2>3 DEF RescanDir, disk, books
<1>7. CASE CompareSequence(p)
  <2>1. [job[p] EXCEPT !.loop = IF job[p].loop < 2 THEN job[p].loop + 1 ELSE job[p].loop] \in Jobs
    BY <1>1 DEF Jobs
  <2>2. RunTypes'
    BY <1>1, <1>2, <1>7, <2>1 DEF CompareSequence, Go, Locations
  <2> QED
    BY <1>2, <1>7, <2>2 DEF CompareSequence, disk, books
<1>8. CASE CompareAgain(p)
  <2> DEFINE e == rec[p].exact /\ \A s \in DOMAIN booked \cup Moved : s > rec[p].last
  <2>1. [job[p] EXCEPT !.mode = "list"] \in Jobs
    BY <1>1 DEF Jobs
  <2>2. e \in BOOLEAN
    BY <1>1 DEF Record
  <2>3. \/ UNCHANGED <<job, rec>> /\ pc' = [pc EXCEPT ![p] = "clear"]
        \/ /\ rec' = [rec EXCEPT ![p].exact = e] /\ job' = [job EXCEPT ![p].mode = "list"]
           /\ pc' = [pc EXCEPT ![p] = Written(job[p])]
    BY <1>1, <1>8 DEF CompareAgain, Go
  <2> HIDE DEF e
  <2>4. [rec[p] EXCEPT !.exact = e] \in Record
    BY <1>1, <2>2, InexactRecord
  <2>5. RunTypes'
    BY <1>1, <1>2, <2>1, <2>3, <2>4 DEF Locations, Written
  <2> QED
    BY <1>2, <1>8, <2>5 DEF CompareAgain, disk, books
<1>9. CASE ClearBooks(p)
  <2> DEFINE e == rec[p].exact /\ \A s \in DOMAIN booked' \cup Moved : s > rec[p].last
             j == [job[p] EXCEPT !.dirty = TRUE]
             q == IF p = "launcher" THEN IF job[p].attached = "no" THEN
                     IF Limited(rec[p]) THEN "expire" ELSE "truncate" ELSE "take" ELSE Act(job[p])
  <2>1. j \in Jobs
    BY <1>1 DEF Jobs
  <2>2. e \in BOOLEAN
    BY <1>1 DEF Record
  <2>3. /\ rec' = [rec EXCEPT ![p].exact = e] /\ job' = [job EXCEPT ![p].dirty = TRUE]
        /\ pc' = [pc EXCEPT ![p] = q] /\ Emptied(p) /\ UNCHANGED <<dir, stat, lock>>
    BY <1>1, <1>9 DEF ClearBooks, Go, disk
  <2> HIDE DEF e
  <2>4. [rec[p] EXCEPT !.exact = e] \in Record
    BY <1>1, <2>2, InexactRecord
  <2>5. q \in Locations
    BY DEF Act, Written, Locations
  <2> HIDE DEF q
  <2>6. RunTypes'
    BY <1>1, <1>2, <2>1, <2>3, <2>4, <2>5
  <2> QED
    BY <1>2, <2>3, <2>6, NoFilesFacts DEF Emptied
<1>10. CASE StartExpire(p)
  <2> DEFINE l == IF job[p].limits = NoLimits THEN rec[p].limits ELSE job[p].limits
             r == [rec[p] EXCEPT !.limits = l]
             a == l.max_size = 0 \/ r.filesize < l.max_size
             b == l.max_lifetime = 0 \/ clock - r.first < l.max_lifetime
             j == [job[p] EXCEPT !.size_done = a, !.lifetime_done = b, !.walk = dir, !.expired = 0]
  <2>1. r \in Record
    BY <1>1, Limited_ DEF Record, Jobs
  <2>2. /\ rec' = [rec EXCEPT ![p] = r] /\ job' = [job EXCEPT ![p] = j] /\ pc' = [pc EXCEPT ![p] = "unlink"]
        /\ UNCHANGED <<dir, stat, lock, booked, orphan, segment, sem, changed>>
    BY <1>10 DEF StartExpire, Go, disk, books
  <2>3. a \in BOOLEAN /\ b \in BOOLEAN
    OBVIOUS
  <2> HIDE DEF a, b, r
  <2>4. j \in Jobs
    BY <1>1, <2>3 DEF Jobs
  <2> HIDE DEF j
  <2>5. RunTypes'
    BY <1>0, <1>2, <2>1, <2>2, <2>4 DEF Locations
  <2> QED
    BY <1>2, <2>2, <2>5
<1>11. CASE Unlink(p)
  <2> DEFINE f == Oldest(p)
             r == [rec[p] EXCEPT !.filesize = Wrap(rec[p].filesize + SizeModulus - job[p].walk[f]),
                                 !.first = IF ByTime(p) /\ ~job[p].size_done THEN f ELSE rec[p].first]
             j == [job[p] EXCEPT !.walk = Without(job[p].walk, f), !.expired = job[p].expired + 1,
                                 !.dirty = TRUE, !.size_done = job[p].size_done \/ ByTime(p)]
  <2>1. /\ rec' = [rec EXCEPT ![p] = r] /\ job' = [job EXCEPT ![p] = j]
        /\ pc' = [pc EXCEPT ![p] = "tally"] \/ pc' = [pc EXCEPT ![p] = "unlink"]
        /\ dir' = Without(dir, f) /\ UNCHANGED <<stat, lock, booked, orphan, segment, sem, changed>>
        /\ job[p].walk # NoFiles
    BY <1>11 DEF Unlink, Go, books, Walking
  <2>2. job[p].walk \in FilesIn
    BY <1>1 DEF Jobs
  <2>3. f \in DOMAIN job[p].walk /\ f \in 0 .. MaxSlot
    BY <2>1, <2>2, OldestFacts
  <2> HIDE DEF f
  <2>4. job[p].walk[f] \in Nat
    BY <2>2, <2>3, FilesFacts
  <2>5. Without(job[p].walk, f) \in FilesIn /\ dir' \in FilesIn
    BY <2>1, <2>2, FilesWithout
  <2>6. rec[p].filesize + SizeModulus - job[p].walk[f] \in Int
    BY <1>1, <2>4, ExpireAssumption DEF Record
  <2>7. Wrap(rec[p].filesize + SizeModulus - job[p].walk[f]) \in 0 .. SizeModulus - 1
    BY <2>6, WrapWrap
  <2>8. r \in Record
    BY <1>1, <2>3, <2>7 DEF Record
  <2>9. ByTime(p) \in BOOLEAN
    BY DEF ByTime
  <2>10. j \in Jobs
    <3>1. job[p].size_done \in BOOLEAN /\ job[p].expired + 1 \in Nat
      BY <1>1 DEF Jobs
    <3> QED
      BY <1>1, <2>5, <2>9, <3>1 DEF Jobs
  <2> HIDE DEF j, r
  <2>11. RunTypes'
    <3>1. "tally" \in Locations /\ "unlink" \in Locations
      BY DEF Locations
    <3> QED
      BY <1>1, <1>2, <2>1, <2>8, <2>10, <3>1
  <2> QED
    BY <1>2, <2>1, <2>5, <2>11
<1>12. CASE KeepFile(p)
  <2> DEFINE x == IF job[p].size_done /\ job[p].lifetime_done THEN rec[p].first ELSE Oldest(p)
  <2>1. job[p].walk \in FilesIn /\ job[p].walk # NoFiles
    BY <1>1, <1>12 DEF Jobs, KeepFile, Walking
  <2>2. Oldest(p) \in 0 .. MaxSlot
    BY <2>1, OldestFacts
  <2>3. x \in 0 .. MaxSlot
    BY <1>1, <2>2 DEF Record
  <2>4. rec' = [rec EXCEPT ![p].first = x]
    BY <1>1, <1>12 DEF KeepFile
  <2> HIDE DEF x
  <2>5. [rec[p] EXCEPT !.first = x] \in Record
    BY <1>1, <2>3 DEF Record
  <2>6. RunTypes'
    BY <1>1, <1>2, <1>12, <2>4, <2>5 DEF KeepFile, Go, Locations
  <2> QED
    BY <1>2, <1>12, <2>6 DEF KeepFile, disk, books
<1>13. CASE Tally(p)
  <2> DEFINE o == rec[p]
             n == IF job[p].expired > o.numfiles THEN 0 ELSE o.numfiles - job[p].expired
             all == pc[p] = "unlink"
             r == [o EXCEPT !.numfiles = n,
                !.first = IF n = 0 THEN clock ELSE IF all THEN o.last ELSE o.first,
                !.last = IF n = 0 THEN clock ELSE o.last,
                !.rebuild = o.rebuild \/ n = 0]
             j == [job[p] EXCEPT !.walk = NoFiles, !.expired = 0]
             q == IF p = "nfexpire" THEN Written(job[p]) ELSE "truncate"
  <2>1. /\ rec' = [rec EXCEPT ![p] = r] /\ job' = [job EXCEPT ![p] = j] /\ pc' = [pc EXCEPT ![p] = q]
        /\ UNCHANGED <<dir, stat, lock, booked, orphan, segment, sem, changed>>
    BY <1>13 DEF Tally, Go, disk, books
  <2>2. n \in 0 .. SizeModulus - 1
    BY <1>1, ExpireAssumption DEF Record, Jobs
  <2>3. clock \in 0 .. MaxSlot
    BY SlotNumbers
  <2> HIDE DEF n
  <2>4. r \in Record
    BY <1>1, <2>2, <2>3 DEF Record
  <2>5. j \in Jobs
    BY <1>1, NoFilesFacts DEF Jobs
  <2>6. q \in Locations
    BY DEF Written, Locations
  <2> HIDE DEF r, j, q
  <2>7. RunTypes'
    BY <1>0, <1>2, <2>1, <2>4, <2>5, <2>6
  <2> QED
    BY <1>2, <2>1, <2>7
<1>14. CASE SetLimits(p)
  <2> DEFINE l == IF job[p].limits = NoLimits THEN rec[p].limits ELSE job[p].limits
  <2>1. [rec[p] EXCEPT !.limits = l] \in Record
    BY <1>1, Limited_ DEF Record, Jobs
  <2>2. rec' = [rec EXCEPT ![p].limits = l]
    BY <1>1, <1>14 DEF SetLimits
  <2> HIDE DEF l
  <2>3. RunTypes'
    BY <1>1, <1>2, <1>14, <2>1, <2>2 DEF SetLimits, Go, Locations
  <2> QED
    BY <1>2, <1>14, <2>3 DEF SetLimits, disk
<1>15. CASE TruncateStat(p) \/ ReopenStat(p)
  BY <1>1, <1>2, <1>15, TornNone DEF TruncateStat, ReopenStat, Go, Locations, books
<1>16. CASE WriteStat(p)
  <2>1. \/ UNCHANGED <<job, rec>> /\ pc' = [pc EXCEPT ![p] = "reopen"]
        \/ Quit(p)
    BY <1>16 DEF WriteStat, Go
  <2>2. RunTypes'
    BY <1>2, <2>1, QuitTypes DEF Locations
  <2>3. stat' \in [exists : BOOLEAN, rec : Record]
    BY <1>1, <1>16 DEF WriteStat
  <2> QED
    BY <1>2, <1>16, <2>2, <2>3 DEF WriteStat, books
<1>17. CASE RelockStat(p)
  BY <1>1, <1>2, <1>17 DEF RelockStat, Go, Locations, books
<1>18. CASE LeaveStat(p)
  <2>1. RunTypes'
    BY <1>2, <1>18, QuitTypes DEF LeaveStat
  <2> QED
    BY <1>2, <1>18, <2>1 DEF LeaveStat, books
<1> QED
  BY <1>3, <1>4, <1>5, <1>6, <1>7, <1>8, <1>9, <1>10, <1>11, <1>12, <1>13, <1>14, <1>15, <1>16, <1>17,
     <1>18 DEF Expirer

LEMMA CollectorTypes ==
  ASSUME Types, Sessions, StartCollector \/ MoveFile \/ UpdateBooks \/ Ending \/ KillCollector
  PROVE  Types'
<1> USE DEF Types, DiskTypes, BookTypes, RunTypes
<1>1. stat.rec \in Record /\ stat.exists \in BOOLEAN /\ rec["collector"] \in Record
  BY Processes
<1>2. \/ UNCHANGED <<stat, rec>>
      \/ stat' \in [exists : BOOLEAN, rec : Record] /\ rec' \in [Procs -> Record]
  <2>1. CASE StartCollector \/ UpdateBooks \/ DestroyBooks \/ KillCollector
    <3>1. CASE Miscount
      BY <3>1, MiscountTypes
    <3>2. CASE UNCHANGED <<stat, rec>>
      BY <3>2
    <3>3. CASE UpdateBooks /\ ~Miscount
      <4>1. UNCHANGED stat /\ rec' = [p \in Procs |-> IF p \in Expirers /\ pc[p] = "clear"
                                         THEN [rec[p] EXCEPT !.exact = FALSE] ELSE rec[p]]
        BY <3>3 DEF UpdateBooks
      <4>2. \A p \in Procs : [rec[p] EXCEPT !.exact = FALSE] \in Record
        BY InexactRecord
      <4> QED
        BY <4>1, <4>2
    <3> QED
      BY <2>1, <3>1, <3>2, <3>3 DEF StartCollector, UpdateBooks, DestroyBooks, KillCollector
  <2>2. CASE MoveFile
    <3>1. \A p \in Procs : [rec[p] EXCEPT !.exact = FALSE] \in Record
      BY InexactRecord
    <3> QED
      BY <2>2, <3>1 DEF MoveFile
  <2>3. CASE StopLauncher
    BY <2>3 DEF StopLauncher, disk
  <2>4. CASE FinalStat
    <3>1. Taken(Verify(stat.rec), booked) \in Record
      BY <1>1, VerifyRecord, TakenRecord
    <3> QED
      BY <2>4, <3>1, StaleTypes, Processes DEF FinalStat
  <2>5. CASE FinalTruncate
    BY <1>1, <2>5, TornNone DEF FinalTruncate
  <2>6. CASE FinalWrite
    BY <1>1, <2>6, TornNone, Processes DEF FinalWrite
  <2> QED
    BY <2>1, <2>2, <2>3, <2>4, <2>5, <2>6 DEF Ending
<1>3. stat' \in [exists : BOOLEAN, rec : Record] /\ rec' \in [Procs -> Record]
  BY <1>2
<1>4. CASE StartCollector
  <2>1. clock' \in Slots
    BY <1>4 DEF StartCollector
  <2>2. events' \in 0 .. MaxEvents
    BY <1>4, ExpireAssumption DEF StartCollector, Event
  <2> QED
    BY <1>3, <1>4, <2>1, <2>2, NoFilesFacts DEF StartCollector, Phases
<1>5. CASE MoveFile
  <2>1. dir' \in FilesIn
    <3>1. (IF clock \in DOMAIN dir THEN dir[clock] + 1 ELSE 1) \in Nat
      BY FilesFacts
    <3> QED
      BY <1>5, <3>1, FilesWith DEF MoveFile
  <2> QED
    BY <1>3, <1>5, <2>1 DEF MoveFile, Phases, books, bounds
<1>6. CASE UpdateBooks
  <2>1. PICK n \in IF clock \in DOMAIN dir THEN {dir[clock]} ELSE {0, SizeModulus - 1} :
               booked' = With(booked, clock, n)
    BY <1>6 DEF UpdateBooks
  <2>2. n \in Nat
    BY <2>1, FilesFacts, ExpireAssumption
  <2>3. booked' \in FilesIn
    BY <2>1, <2>2, FilesWith
  <2>4. clock' \in Slots
    BY <1>6, ExpireAssumption DEF UpdateBooks, Sessions, Slots
  <2> QED
    BY <1>3, <1>6, <2>3, <2>4 DEF UpdateBooks, Phases, bounds
<1>7. CASE Ending
  <2>1. CASE StopLauncher
    BY <2>1 DEF StopLauncher, Phases, disk, books, bounds
  <2>2. CASE FinalStat
    BY <1>3, <2>2 DEF FinalStat, Phases, Procs, books, bounds
  <2>3. CASE FinalTruncate
    BY <1>3, <2>3 DEF FinalTruncate, Phases, books, bounds
  <2>4. CASE FinalWrite
    BY <1>3, <2>4 DEF FinalWrite, Phases, books, bounds
  <2>5. CASE DestroyBooks
    <3>1. \A p \in Expirers : [job[p] EXCEPT !.attached = "orphan"] \in Jobs
      BY DEF Jobs
    <3>2. job' \in [Expirers -> Jobs]
      BY <2>5, <3>1 DEF DestroyBooks
    <3> QED
      BY <1>3, <2>5, <3>2, NoFilesFacts DEF DestroyBooks, Phases, bounds
  <2> QED
    BY <1>7, <2>1, <2>2, <2>3, <2>4, <2>5 DEF Ending
<1>8. CASE KillCollector
  <2>1. events' \in 0 .. MaxEvents
    BY <1>8, ExpireAssumption DEF KillCollector, Death, Event
  <2> QED
    BY <1>3, <1>8, <2>1 DEF KillCollector, Phases
<1> QED
  BY <1>4, <1>5, <1>6, <1>7, <1>8

LEMMA StartTypes ==
  ASSUME Types, DoExpire \/ NfExpire \/ KillNfExpire
  PROVE  Types'
<1> USE DEF Types, DiskTypes, BookTypes, RunTypes
<1>1. stat.rec \in Record /\ stat.exists \in BOOLEAN /\ rec["nfexpire"] \in Record
      /\ job["launcher"] \in Jobs /\ job["nfexpire"] \in Jobs
  BY Processes
<1>2. CASE DoExpire
  <2>1. [job["launcher"] EXCEPT !.fresh = ~stat.exists] \in Jobs
    BY <1>1 DEF Jobs
  <2>2. job' \in [Expirers -> Jobs] /\ pc' \in [Expirers -> Locations]
    BY <1>1, <1>2, <2>1 DEF DoExpire, Go, Locations
  <2>3. messages' \in Nat
    BY <1>2 DEF DoExpire
  <2>4. stat' \in [exists : BOOLEAN, rec : Record]
    BY <1>1, <1>2 DEF DoExpire
  <2> QED
    BY <1>2, <2>2, <2>3, <2>4 DEF DoExpire, books, bounds
<1>3. CASE NfExpire
  <2>1. PICK m \in Modes : \E l \in Limits \cup {NoLimits} :
          job' = [job EXCEPT !["nfexpire"] =
                        [job["nfexpire"] EXCEPT !.mode = m, !.limits = l, !.fresh = ~stat.exists]]
    BY <1>3 DEF NfExpire
  <2>2. PICK l \in Limits \cup {NoLimits} :
          job' = [job EXCEPT !["nfexpire"] =
                        [job["nfexpire"] EXCEPT !.mode = m, !.limits = l, !.fresh = ~stat.exists]]
    BY <2>1
  <2>3. m \in {"list", "rescan", "expire", "update"}
    BY ExpireAssumption
  <2>4. [job["nfexpire"] EXCEPT !.mode = m, !.limits = l, !.fresh = ~stat.exists] \in Jobs
    BY <1>1, <2>3, Zenon DEF Jobs
  <2> DEFINE j == [job["nfexpire"] EXCEPT !.mode = m, !.limits = l, !.fresh = ~stat.exists]
  <2>5. job' \in [Expirers -> Jobs]
    <3>1. job' = [job EXCEPT !["nfexpire"] = j] /\ j \in Jobs
      BY <2>2, <2>4
    <3> HIDE DEF j
    <3> QED
      BY <3>1
  <2>6. events' \in 0 .. MaxEvents
    <3>1. Event
      BY <1>3 DEF NfExpire
    <3> QED
      BY <3>1, ExpireAssumption DEF Event
  <2>7. pc' \in [Expirers -> Locations]
    BY <1>3 DEF NfExpire, Go, Locations
  <2>8. stat' \in [exists : BOOLEAN, rec : Record]
    BY <1>1, <1>3 DEF NfExpire
  <2> QED
    BY <1>3, <2>5, <2>6, <2>7, <2>8 DEF NfExpire, books, owner
<1>4. CASE KillNfExpire
  <2>1. Quit("nfexpire") /\ Death /\ UNCHANGED <<dir, segment, booked, orphan, changed, owner>>
        /\ lock' \in {lock, "none"} /\ sem' \in BOOLEAN
    BY <1>4 DEF KillNfExpire
  <2>2. PICK l \in {NoLimits, [NoLimits EXCEPT !.max_size = rec["nfexpire"].limits.max_size],
                     rec["nfexpire"].limits} :
          stat' = IF pc["nfexpire"] = "write" THEN [stat EXCEPT !.rec = Torn(l)]
                  ELSE [stat EXCEPT !.rec.exact = @ /\ ~job["nfexpire"].dirty
                                                          /\ pc["nfexpire"] # "overwrite"]
    BY <1>4 DEF KillNfExpire
  <2>3. l \in [max_size : {0} \cup {k.max_size : k \in Limits},
               max_lifetime : {0} \cup {k.max_lifetime : k \in Limits}]
    <3>1. rec["nfexpire"].limits \in [max_size : {0} \cup {k.max_size : k \in Limits},
               max_lifetime : {0} \cup {k.max_lifetime : k \in Limits}]
      BY <1>1 DEF Record
    <3> QED
      BY <2>2, <3>1 DEF NoLimits
  <2>4. Torn(l) \in Record
    BY <2>3, TornRecord
  <2> DEFINE e == stat.rec.exact /\ ~job["nfexpire"].dirty /\ pc["nfexpire"] # "overwrite"
  <2>5. [stat.rec EXCEPT !.exact = e] \in Record
    BY <1>1, InexactRecord
  <2>6. stat' \in [exists : BOOLEAN, rec : Record]
    BY <1>1, <2>2, <2>4, <2>5
  <2>7. events' \in 0 .. MaxEvents
    BY <2>1, ExpireAssumption DEF Death, Event
  <2> QED
    BY <2>1, <2>6, <2>7, QuitTypes, Processes DEF owner
<1> QED
  BY <1>2, <1>3, <1>4

LEMMA TypesKept == ASSUME Types, Sessions, [Next]_vars PROVE Types'
<1>1. CASE UNCHANGED vars
  BY <1>1 DEF vars, disk, books, owner, bounds, Types, DiskTypes, BookTypes, RunTypes
<1> QED
  BY <1>1, ExpirerTypes, CollectorTypes, StartTypes DEF Next
-------------------------------------------------------------------------------
(* What the steps of an expirer do, field by field                         *)

Others(p) ==
    /\ \A q \in Expirers : q # p => pc'[q] = pc[q] /\ job'[q] = job[q]
    /\ \A q \in Procs : q # p => rec'[q] = rec[q]

(* the locals the invariant speaks of                                      *)
Locals(p) ==
    /\ job'[p].mode = job[p].mode /\ job'[p].attached = job[p].attached
    /\ job'[p].expired = job[p].expired /\ job'[p].walk = job[p].walk

(* a record that counts no file of S                                       *)
Counted(r, S) == [r EXCEPT !.exact = r.exact /\ \A s \in S : s > r.last]

Place == <<clock, auto, phase, messages, events, deaths, segment>>

LEMMA ExpirerPlace ==
  ASSUME NEW p \in Expirers, Expirer(p)
  PROVE  UNCHANGED Place
BY DEF Place, Expirer, LockStat, TakeBooks, KeepSequence, RescanDir, CompareSequence, CompareAgain,
    ClearBooks, StartExpire, Unlink, KeepFile, Tally, SetLimits, TruncateStat, WriteStat, ReopenStat,
    RelockStat, LeaveStat, Emptied, disk, books, owner, bounds

LEMMA LockStatEffect ==
  ASSUME Types, NEW p \in Expirers, LockStat(p)
  PROVE  /\ pc[p] = "lock" /\ lock = "none" /\ lock' = p
         /\ UNCHANGED <<dir, stat, booked, orphan, sem, changed>>
         /\ \A q \in Expirers : q # p => pc'[q] = pc[q] /\ job'[q] = job[q]
         /\ \A q \in Procs : q # p => rec'[q] = Stale[q]
         /\ rec'[p] = IF job[p].fresh THEN Torn(NoLimits) ELSE Verify(stat.rec)
         /\ job'[p].mode = job[p].mode /\ job'[p].dirty = job[p].dirty
         /\ job'[p].expired = job[p].expired
         /\ job'[p].attached \in {"yes", "no"}
         /\ pc'[p] \in {"take", "scan", "sequence", "expire", "param", "quit", "truncate"}
         /\ p = "launcher" => pc'[p] \in {"take", "scan"}
<1> USE DEF Types, DiskTypes, RunTypes
<1>1. p \in Procs /\ job[p] \in Jobs
  BY Processes
<1> DEFINE r == IF job[p].fresh THEN Torn(NoLimits) ELSE Verify(stat.rec)
           j == [job[p] EXCEPT !.rescan = r.rebuild \/ job[p].mode = "rescan",
                               !.attached = IF segment THEN "yes" ELSE "no"]
<1>2. /\ pc[p] = "lock" /\ lock = "none" /\ lock' = p
      /\ UNCHANGED <<dir, stat, booked, orphan, sem, changed>>
      /\ rec' = [Stale EXCEPT ![p] = r] /\ job' = [job EXCEPT ![p] = j]
      /\ pc' = [pc EXCEPT ![p] = AfterLock(p, j)]
  BY DEF LockStat, Go, books
<1> HIDE DEF r
<1>3. j.mode = job[p].mode /\ j.dirty = job[p].dirty /\ j.expired = job[p].expired
      /\ j.attached \in {"yes", "no"}
  BY <1>1 DEF Jobs
<1> HIDE DEF j
<1>4. /\ AfterLock(p, j) \in {"take", "scan", "sequence", "expire", "param", "quit", "truncate"}
      /\ p = "launcher" => AfterLock(p, j) \in {"take", "scan"}
  BY DEF AfterLock, Act, Written
<1>5. Stale \in [Procs -> Record]
  BY StaleTypes
<1> QED
  BY <1>1, <1>2, <1>3, <1>4, <1>5 DEF r

LEMMA TakeBooksEffect ==
  ASSUME Types, NEW p \in Expirers, TakeBooks(p)
  PROVE  /\ pc[p] = "take" /\ Emptied(p) /\ UNCHANGED <<dir, stat, lock, sem>>
         /\ Others(p) /\ Locals(p) /\ job'[p].dirty
         /\ rec'[p] = Taken(rec[p], Books(p))
         /\ pc'[p] \in {"expire", "truncate", "sequence", "param", "quit"}
         /\ p = "launcher" => pc'[p] \in {"expire", "truncate"}
<1> USE DEF Types, RunTypes
<1>1. p \in Procs /\ job[p] \in Jobs
  BY Processes
<1> DEFINE r == Taken(rec[p], Books(p))
           j == [job[p] EXCEPT !.rescan = job[p].rescan \/ r.rebuild, !.dirty = TRUE]
           q == IF p = "launcher" THEN IF Limited(r) THEN "expire" ELSE "truncate"
                  ELSE IF j.rescan THEN "sequence" ELSE Act(j)
<1>2. /\ rec' = [rec EXCEPT ![p] = r] /\ job' = [job EXCEPT ![p] = j] /\ pc' = [pc EXCEPT ![p] = q]
      /\ pc[p] = "take" /\ Emptied(p) /\ UNCHANGED <<dir, stat, lock>>
  BY DEF TakeBooks, Go, disk
<1> HIDE DEF r
<1>3. j.mode = job[p].mode /\ j.attached = job[p].attached /\ j.expired = job[p].expired
      /\ j.walk = job[p].walk /\ j.dirty
  BY <1>1 DEF Jobs
<1> HIDE DEF j
<1>4. /\ q \in {"expire", "truncate", "sequence", "param", "quit"}
      /\ p = "launcher" => q \in {"expire", "truncate"}
  BY DEF Act, Written
<1> HIDE DEF q
<1>5. rec'[p] = Taken(rec[p], Books(p)) /\ pc'[p] = q /\ job'[p] = j /\ Others(p)
  BY <1>1, <1>2 DEF r, Others
<1> QED
  BY <1>2, <1>3, <1>4, <1>5 DEF Locals, Emptied

LEMMA KeepSequenceEffect ==
  ASSUME Types, NEW p \in Expirers, KeepSequence(p)
  PROVE  /\ pc[p] = "sequence" /\ UNCHANGED <<dir, stat, lock, sem, booked, orphan>>
         /\ Others(p) /\ job'[p] = job[p] /\ rec'[p] = rec[p] /\ pc'[p] = "scan"
BY DEF Types, RunTypes, KeepSequence, Go, Others, disk

LEMMA RescanDirEffect ==
  ASSUME Types, NEW p \in Expirers, RescanDir(p)
  PROVE  /\ pc[p] = "scan" /\ UNCHANGED <<dir, stat, lock, sem, booked, orphan, changed>>
         /\ Others(p) /\ Locals(p) /\ job'[p].dirty = job[p].dirty /\ rec'[p] = Scanned(rec[p])
         /\ pc'[p] = IF p = "launcher" THEN "clear" ELSE "compare"
<1> USE DEF Types, RunTypes
<1>1. p \in Procs /\ job[p] \in Jobs
  BY Processes
<1> DEFINE j == [job[p] EXCEPT !.nofiles = job[p].nofiles \/ dir = NoFiles]
<1>2. /\ pc[p] = "scan" /\ UNCHANGED <<dir, stat, lock, sem, booked, orphan, changed>>
      /\ rec' = [rec EXCEPT ![p] = Scanned(rec[p])] /\ job' = [job EXCEPT ![p] = j]
      /\ pc' = [pc EXCEPT ![p] = IF p = "launcher" THEN "clear" ELSE "compare"]
  BY <1>1 DEF RescanDir, Go, disk, books
<1>3. j.mode = job[p].mode /\ j.attached = job[p].attached /\ j.expired = job[p].expired
      /\ j.walk = job[p].walk /\ j.dirty = job[p].dirty
  BY <1>1 DEF Jobs
<1> HIDE DEF j
<1> QED
  BY <1>1, <1>2, <1>3 DEF Others, Locals

LEMMA CompareSequenceEffect ==
  ASSUME Types, NEW p \in Expirers, CompareSequence(p)
  PROVE  /\ pc[p] = "compare" /\ UNCHANGED <<dir, stat, lock, sem, booked, orphan, changed>>
         /\ Others(p) /\ Locals(p) /\ job'[p].dirty = job[p].dirty /\ rec'[p] = rec[p]
         /\ pc'[p] \in {"again", "sequence"}
<1> USE DEF Types, RunTypes
<1>1. p \in Procs /\ job[p] \in Jobs
  BY Processes
<1> DEFINE j == [job[p] EXCEPT !.loop = IF job[p].loop < 2 THEN job[p].loop + 1 ELSE job[p].loop]
<1>2. /\ pc[p] = "compare" /\ UNCHANGED <<dir, stat, lock, sem, booked, orphan, changed, rec>>
      /\ job' = job \/ job' = [job EXCEPT ![p] = j]
      /\ \E q \in {"again", "sequence"} : pc' = [pc EXCEPT ![p] = q]
  BY <1>1 DEF CompareSequence, Go, disk, books
<1>3. j.mode = job[p].mode /\ j.attached = job[p].attached /\ j.expired = job[p].expired
      /\ j.walk = job[p].walk /\ j.dirty = job[p].dirty
  BY <1>1 DEF Jobs
<1> HIDE DEF j
<1> QED
  BY <1>1, <1>2, <1>3 DEF Others, Locals

LEMMA CompareAgainEffect ==
  ASSUME Types, NEW p \in Expirers, CompareAgain(p)
  PROVE  /\ pc[p] = "again" /\ UNCHANGED <<dir, stat, lock, sem, booked, orphan, changed>>
         /\ Others(p) /\ job'[p].attached = job[p].attached /\ job'[p].dirty = job[p].dirty
         /\ job'[p].expired = job[p].expired /\ job'[p].mode \in {job[p].mode, "list"}
         /\ \/ pc'[p] = "clear" /\ rec'[p] = rec[p] /\ (job[p].attached = "yes" => ~changed)
            \/ /\ pc'[p] \in {"quit", "truncate"} /\ job[p].attached = "yes" /\ changed
               /\ rec'[p] = Counted(rec[p], DOMAIN booked \cup Moved)
<1> USE DEF Types, RunTypes
<1>1. p \in Procs /\ job[p] \in Jobs
  BY Processes
<1> DEFINE j == [job[p] EXCEPT !.mode = "list"]
           r == Counted(rec[p], DOMAIN booked \cup Moved)
<1>2. /\ pc[p] = "again" /\ UNCHANGED <<dir, stat, lock, sem, booked, orphan, changed>>
      /\ \/ UNCHANGED <<job, rec>> /\ pc' = [pc EXCEPT ![p] = "clear"] /\ (job[p].attached = "yes" => ~changed)
         \/ /\ job[p].attached = "yes" /\ changed /\ job' = [job EXCEPT ![p] = j] /\ rec' = [rec EXCEPT ![p] = r]
            /\ \E q \in {"quit", "truncate"} : pc' = [pc EXCEPT ![p] = q]
  BY <1>1 DEF CompareAgain, Go, disk, books, Written, Unchanged, Counted
<1>3. j.mode = "list" /\ j.attached = job[p].attached /\ j.expired = job[p].expired
      /\ j.dirty = job[p].dirty
  BY <1>1 DEF Jobs
<1> HIDE DEF j, r
<1>4. CASE UNCHANGED <<job, rec>> /\ pc' = [pc EXCEPT ![p] = "clear"] /\ (job[p].attached = "yes" => ~changed)
  BY <1>1, <1>2, <1>4 DEF Others
<1>5. CASE /\ job[p].attached = "yes" /\ changed /\ job' = [job EXCEPT ![p] = j] /\ rec' = [rec EXCEPT ![p] = r]
           /\ \E q \in {"quit", "truncate"} : pc' = [pc EXCEPT ![p] = q]
  <2>1. job'[p] = j /\ rec'[p] = r /\ pc'[p] \in {"quit", "truncate"} /\ Others(p)
    BY <1>1, <1>5 DEF Others
  <2> QED
    BY <1>2, <1>3, <1>5, <2>1 DEF r
<1> QED
  BY <1>2, <1>4, <1>5

LEMMA ClearBooksEffect ==
  ASSUME Types, NEW p \in Expirers, ClearBooks(p)
  PROVE  /\ pc[p] = "clear" /\ Emptied(p) /\ UNCHANGED <<dir, stat, lock, sem>>
         /\ Others(p) /\ Locals(p) /\ job'[p].dirty
         /\ rec'[p] = Counted(rec[p], DOMAIN booked' \cup Moved)
         /\ pc'[p] \in {"expire", "truncate", "take", "param", "quit"}
         /\ p = "launcher" => pc'[p] \in {"expire", "truncate", "take"}
         /\ p = "nfexpire" => pc'[p] # "take"
<1> USE DEF Types, RunTypes
<1>1. p \in Procs /\ job[p] \in Jobs
  BY Processes
<1> DEFINE r == Counted(rec[p], DOMAIN booked' \cup Moved)
           j == [job[p] EXCEPT !.dirty = TRUE]
           q == IF p = "launcher" THEN IF job[p].attached = "no" THEN
                     IF Limited(rec[p]) THEN "expire" ELSE "truncate" ELSE "take" ELSE Act(job[p])
<1>2. /\ rec' = [rec EXCEPT ![p] = r] /\ job' = [job EXCEPT ![p] = j] /\ pc' = [pc EXCEPT ![p] = q]
      /\ pc[p] = "clear" /\ Emptied(p) /\ UNCHANGED <<dir, stat, lock>>
  BY <1>1 DEF ClearBooks, Go, disk, Counted
<1>3. j.mode = job[p].mode /\ j.attached = job[p].attached /\ j.expired = job[p].expired
      /\ j.walk = job[p].walk /\ j.dirty
  BY <1>1 DEF Jobs
<1> HIDE DEF j, r
<1>4. /\ q \in {"expire", "truncate", "take", "param", "quit"}
      /\ p = "launcher" => q \in {"expire", "truncate", "take"}
      /\ p = "nfexpire" => q # "take"
  BY DEF Act, Written
<1> HIDE DEF q
<1>5. rec'[p] = r /\ pc'[p] = q /\ job'[p] = j /\ Others(p)
  BY <1>1, <1>2 DEF Others
<1> QED
  BY <1>2, <1>3, <1>4, <1>5 DEF Locals, Emptied, r

LEMMA StartExpireEffect ==
  ASSUME Types, NEW p \in Expirers, StartExpire(p)
  PROVE  /\ pc[p] = "expire" /\ UNCHANGED <<dir, stat, lock, sem, booked, orphan, changed>>
         /\ Others(p) /\ job'[p].mode = job[p].mode /\ job'[p].attached = job[p].attached
         /\ job'[p].dirty = job[p].dirty /\ job'[p].expired = 0 /\ job'[p].walk = dir
         /\ \E l : rec'[p] = [rec[p] EXCEPT !.limits = l]
         /\ pc'[p] = "unlink"
<1> USE DEF Types, RunTypes
<1>1. p \in Procs /\ job[p] \in Jobs
  BY Processes
<1> DEFINE l == IF job[p].limits = NoLimits THEN rec[p].limits ELSE job[p].limits
           r == [rec[p] EXCEPT !.limits = l]
           a == l.max_size = 0 \/ r.filesize < l.max_size
           b == l.max_lifetime = 0 \/ clock - r.first < l.max_lifetime
           j == [job[p] EXCEPT !.size_done = a, !.lifetime_done = b, !.walk = dir, !.expired = 0]
<1>2. /\ rec' = [rec EXCEPT ![p] = r] /\ job' = [job EXCEPT ![p] = j] /\ pc' = [pc EXCEPT ![p] = "unlink"]
      /\ pc[p] = "expire" /\ UNCHANGED <<dir, stat, lock, booked, orphan, sem, changed>>
  BY DEF StartExpire, Go, disk, books
<1>3. \E k : r = [rec[p] EXCEPT !.limits = k]
  OBVIOUS
<1> HIDE DEF a, b, r
<1>4. j.mode = job[p].mode /\ j.attached = job[p].attached /\ j.expired = 0
      /\ j.walk = dir /\ j.dirty = job[p].dirty
  BY <1>1 DEF Jobs
<1> HIDE DEF j
<1>5. rec'[p] = r /\ job'[p] = j /\ pc'[p] = "unlink" /\ Others(p)
  BY <1>1, <1>2 DEF Others
<1> QED
  BY <1>2, <1>3, <1>4, <1>5

LEMMA UnlinkEffect ==
  ASSUME Types, NEW p \in Expirers, Unlink(p), NEW f, f = Oldest(p)
  PROVE  /\ pc[p] = "unlink" /\ UNCHANGED <<stat, lock, sem, booked, orphan, changed>>
         /\ Others(p) /\ job'[p].mode = job[p].mode /\ job'[p].attached = job[p].attached
         /\ job'[p].dirty /\ job'[p].expired = job[p].expired + 1
         /\ job[p].walk # NoFiles /\ dir' = Without(dir, f) /\ job'[p].walk = Without(job[p].walk, f)
         /\ rec'[p].filesize = Wrap(rec[p].filesize + SizeModulus - job[p].walk[f])
         /\ rec'[p].numfiles = rec[p].numfiles /\ rec'[p].last = rec[p].last
         /\ rec'[p].exact = rec[p].exact /\ rec'[p].rebuild = rec[p].rebuild
         /\ pc'[p] \in {"unlink", "tally"}
<1> USE DEF Types, RunTypes
<1>1. p \in Procs /\ job[p] \in Jobs /\ rec[p] \in Record
  BY Processes
<1> DEFINE r == [rec[p] EXCEPT !.filesize = Wrap(rec[p].filesize + SizeModulus - job[p].walk[f]),
                               !.first = IF ByTime(p) /\ ~job[p].size_done THEN f ELSE rec[p].first]
           j == [job[p] EXCEPT !.walk = Without(job[p].walk, f), !.expired = job[p].expired + 1,
                               !.dirty = TRUE, !.size_done = job[p].size_done \/ ByTime(p)]
<1>2. /\ rec' = [rec EXCEPT ![p] = r] /\ job' = [job EXCEPT ![p] = j]
      /\ \E q \in {"tally", "unlink"} : pc' = [pc EXCEPT ![p] = q]
      /\ pc[p] = "unlink" /\ job[p].walk # NoFiles /\ dir' = Without(dir, f)
      /\ UNCHANGED <<stat, lock, booked, orphan, sem, changed>>
  BY DEF Unlink, Go, books, Walking
<1>3. j.mode = job[p].mode /\ j.attached = job[p].attached /\ j.expired = job[p].expired + 1
      /\ j.walk = Without(job[p].walk, f) /\ j.dirty
  BY <1>1 DEF Jobs
<1>4. r.filesize = Wrap(rec[p].filesize + SizeModulus - job[p].walk[f])
      /\ r.numfiles = rec[p].numfiles /\ r.last = rec[p].last
      /\ r.exact = rec[p].exact /\ r.rebuild = rec[p].rebuild
  BY <1>1 DEF Record
<1> HIDE DEF j, r
<1>5. rec'[p] = r /\ job'[p] = j /\ pc'[p] \in {"unlink", "tally"} /\ Others(p)
  BY <1>1, <1>2 DEF Others
<1> QED
  BY <1>2, <1>3, <1>4, <1>5

LEMMA KeepFileEffect ==
  ASSUME Types, NEW p \in Expirers, KeepFile(p)
  PROVE  /\ pc[p] = "unlink" /\ UNCHANGED <<dir, stat, lock, sem, booked, orphan, changed>>
         /\ Others(p) /\ job'[p] = job[p] /\ \E x : rec'[p] = [rec[p] EXCEPT !.first = x]
         /\ pc'[p] = "tally"
<1> DEFINE x == IF job[p].size_done /\ job[p].lifetime_done THEN rec[p].first ELSE Oldest(p)
<1>1. p \in Procs
  BY Processes
<1>2. /\ rec' = [rec EXCEPT ![p].first = x] /\ pc' = [pc EXCEPT ![p] = "tally"]
      /\ pc[p] = "unlink" /\ UNCHANGED <<dir, stat, lock, sem, booked, orphan, changed, job>>
  BY <1>1 DEF KeepFile, Go, disk, books, Walking, Types, RunTypes
<1> HIDE DEF x
<1> QED
  BY <1>1, <1>2 DEF Others, Types, RunTypes

(* the files left, as ExpireDir counts them                                *)
Left(p) == IF job[p].expired > rec[p].numfiles THEN 0 ELSE rec[p].numfiles - job[p].expired

LEMMA TallyEffect ==
  ASSUME Types, NEW p \in Expirers, Tally(p)
  PROVE  /\ pc[p] \in {"unlink", "tally"} /\ UNCHANGED <<dir, stat, lock, sem, booked, orphan, changed>>
         /\ Others(p) /\ job'[p].mode = job[p].mode /\ job'[p].attached = job[p].attached
         /\ job'[p].dirty = job[p].dirty /\ job'[p].expired = 0
         /\ rec'[p].numfiles = Left(p) /\ rec'[p].filesize = rec[p].filesize
         /\ Left(p) # 0 => rec'[p].last = rec[p].last
         /\ rec'[p].exact = rec[p].exact /\ rec'[p].rebuild = (rec[p].rebuild \/ Left(p) = 0)
         /\ pc'[p] \in {"quit", "truncate"} /\ (p = "launcher" => pc'[p] = "truncate")
<1> USE DEF Types, RunTypes
<1>1. p \in Procs /\ job[p] \in Jobs /\ rec[p] \in Record
  BY Processes
<1> DEFINE n == IF job[p].expired > rec[p].numfiles THEN 0 ELSE rec[p].numfiles - job[p].expired
           a == IF n = 0 THEN clock ELSE IF pc[p] = "unlink" THEN rec[p].last ELSE rec[p].first
           r == [rec[p] EXCEPT !.numfiles = n, !.first = a,
                               !.last = IF n = 0 THEN clock ELSE rec[p].last,
                               !.rebuild = rec[p].rebuild \/ n = 0]
           j == [job[p] EXCEPT !.walk = NoFiles, !.expired = 0]
           q == IF p = "nfexpire" THEN Written(job[p]) ELSE "truncate"
<1>2. /\ rec' = [rec EXCEPT ![p] = r] /\ job' = [job EXCEPT ![p] = j] /\ pc' = [pc EXCEPT ![p] = q]
      /\ pc[p] \in {"unlink", "tally"}
      /\ UNCHANGED <<dir, stat, lock, booked, orphan, sem, changed>>
  BY DEF Tally, Go, disk, books
<1>3. j.mode = job[p].mode /\ j.attached = job[p].attached /\ j.expired = 0 /\ j.dirty = job[p].dirty
  BY <1>1 DEF Jobs
<1>4. n = Left(p)
  BY DEF Left
<1> HIDE DEF n, a
<1>5. r.filesize = rec[p].filesize /\ r.numfiles = n /\ r.exact = rec[p].exact
      /\ r.rebuild = (rec[p].rebuild \/ n = 0) /\ (n # 0 => r.last = rec[p].last)
  BY <1>1 DEF Record
<1>6. q \in {"quit", "truncate"} /\ (p = "launcher" => q = "truncate")
  BY DEF Written
<1> HIDE DEF j, r, q
<1>7. rec'[p] = r /\ job'[p] = j /\ pc'[p] = q /\ Others(p)
  BY <1>1, <1>2 DEF Others
<1> QED
  BY <1>2, <1>3, <1>4, <1>5, <1>6, <1>7

LEMMA SetLimitsEffect ==
  ASSUME Types, NEW p \in Expirers, SetLimits(p)
  PROVE  /\ pc[p] = "param" /\ UNCHANGED <<dir, stat, lock, sem, booked, orphan>>
         /\ Others(p) /\ job'[p] = job[p] /\ \E l : rec'[p] = [rec[p] EXCEPT !.limits = l]
         /\ pc'[p] = "truncate"
<1> DEFINE l == IF job[p].limits = NoLimits THEN rec[p].limits ELSE job[p].limits
<1>1. p \in Procs
  BY Processes
<1>2. /\ rec' = [rec EXCEPT ![p].limits = l] /\ pc' = [pc EXCEPT ![p] = "truncate"]
      /\ pc[p] = "param" /\ UNCHANGED <<dir, stat, lock, sem, booked, orphan, job>>
  BY <1>1 DEF SetLimits, Go, disk, Types, RunTypes
<1> HIDE DEF l
<1> QED
  BY <1>1, <1>2 DEF Others, Types, RunTypes

LEMMA TornStatEffect ==
  ASSUME Types, NEW p \in Expirers, TruncateStat(p) \/ ReopenStat(p)
  PROVE  /\ \/ pc[p] = "truncate" /\ pc'[p] = "write"
            \/ pc[p] = "reopen" /\ pc'[p] = "relock"
         /\ UNCHANGED <<dir, lock, sem, booked, orphan, changed, rec>>
         /\ Others(p) /\ job'[p] = job[p] /\ stat'.rec = Torn(NoLimits)
<1>1. CASE TruncateStat(p)
  BY <1>1 DEF TruncateStat, Go, books, Others, Types, RunTypes, DiskTypes
<1>2. CASE ReopenStat(p)
  BY <1>2 DEF ReopenStat, Go, books, Others, Types, RunTypes, DiskTypes
<1> QED
  BY <1>1, <1>2

LEMMA WriteStatEffect ==
  ASSUME Types, NEW p \in Expirers, WriteStat(p)
  PROVE  /\ pc[p] \in {"write", "overwrite"} /\ lock' = "none"
         /\ UNCHANGED <<dir, sem, booked, orphan, changed>>
         /\ Others(p) /\ stat'.rec = rec[p]
         /\ \/ pc'[p] = "reopen" /\ job'[p] = job[p] /\ rec'[p] = rec[p] /\ job[p].mode = "update"
            \/ pc'[p] = "idle" /\ job'[p] = NoJob /\ rec'[p] = Torn(NoLimits)
<1>1. /\ pc[p] \in {"write", "overwrite"} /\ lock' = "none"
      /\ UNCHANGED <<dir, sem, booked, orphan, changed>> /\ stat'.rec = rec[p]
      /\ \/ UNCHANGED <<job, rec>> /\ pc' = [pc EXCEPT ![p] = "reopen"] /\ job[p].mode = "update"
         \/ Quit(p)
  BY DEF WriteStat, Go, books, Types, DiskTypes
<1>2. CASE UNCHANGED <<job, rec>> /\ pc' = [pc EXCEPT ![p] = "reopen"] /\ job[p].mode = "update"
  BY <1>1, <1>2 DEF Others, Types, RunTypes
<1>3. CASE Quit(p)
  BY <1>1, <1>3, QuitTypes DEF Others, Types
<1> QED
  BY <1>1, <1>2, <1>3

LEMMA RelockStatEffect ==
  ASSUME Types, NEW p \in Expirers, RelockStat(p)
  PROVE  /\ pc[p] = "relock" /\ lock = "none" /\ lock' = p
         /\ UNCHANGED <<dir, stat, sem, booked, orphan, changed, rec>>
         /\ Others(p) /\ job'[p] = job[p] /\ pc'[p] = "overwrite"
BY DEF RelockStat, Go, books, Others, Types, RunTypes

LEMMA LeaveStatEffect ==
  ASSUME Types, NEW p \in Expirers, LeaveStat(p)
  PROVE  /\ pc[p] = "quit" /\ lock' = "none"
         /\ UNCHANGED <<dir, stat, sem, booked, orphan, changed>>
         /\ Others(p) /\ pc'[p] = "idle" /\ job'[p] = NoJob /\ rec'[p] = Torn(NoLimits)
<1>1. /\ pc[p] = "quit" /\ lock' = "none" /\ Quit(p)
      /\ UNCHANGED <<dir, stat, sem, booked, orphan, changed>>
  BY DEF LeaveStat, books
<1> QED
  BY <1>1, QuitTypes DEF Others, Types
-------------------------------------------------------------------------------
(* The rest of Base is kept: the steps of an expirer                       *)

LEMMA ExpirerNames == \A p \in Expirers : p = "launcher" \/ p = "nfexpire"
BY DEF Expirers

(* While p holds the lock the other expirer waits for it or has done.      *)
LEMMA OnlyHolder ==
  ASSUME LockHeld, NEW p \in Expirers, lock = p, NEW q \in Expirers, q # p
  PROVE  pc[q] \in {"idle", "lock", "reopen", "relock"}
BY DEF LockHeld

(* Who takes a step that is not LockStat, ReopenStat or RelockStat holds   *)
(* the lock.                                                               *)
LEMMA Holder ==
  ASSUME LockHeld, NEW p \in Expirers, pc[p] \notin {"idle", "lock", "reopen", "relock"}
  PROVE  lock = p /\ phase \notin {"truncate", "write"}
BY DEF LockHeld, Expirers

LEMMA ExpirerLock ==
  ASSUME Base, NEW p \in Expirers, Expirer(p)
  PROVE  LockHeld'
<1> USE DEF Others, Locals
<1>0. UNCHANGED phase /\ Types /\ \A q \in Expirers : q # "none" /\ q # "collector"
  BY ExpirerPlace, Processes DEF Place, Expirers, Base
<1> DEFINE L(a, b, c) ==
      /\ \A q \in Expirers : a[q] \in {"idle", "lock", "reopen", "relock"} <=> b # q
      /\ b = "collector" <=> phase \in {"truncate", "write"} \/ (phase = "release" /\ b = "collector")
      /\ \A q \in Expirers : c[q].dirty => b = q \/ a[q] \in {"reopen", "relock"}
<1>1. L(pc, lock, job)
  BY DEF LockHeld, Base
<1>2. LockHeld' <=> L(pc', lock', job')
  BY <1>0 DEF LockHeld
<1>3. CASE LockStat(p)
  <2>1. /\ pc[p] = "lock" /\ lock = "none" /\ lock' = p
        /\ \A q \in Expirers : q # p => pc'[q] = pc[q] /\ job'[q] = job[q]
        /\ pc'[p] \notin {"idle", "lock", "reopen", "relock"}
    BY <1>0, <1>3, LockStatEffect
  <2> QED
    BY <1>0, <1>1, <1>2, <2>1
<1>4. CASE TakeBooks(p)
  BY <1>0, <1>1, <1>2, <1>4, TakeBooksEffect
<1>5. CASE KeepSequence(p)
  BY <1>0, <1>1, <1>2, <1>5, KeepSequenceEffect
<1>6. CASE RescanDir(p)
  BY <1>0, <1>1, <1>2, <1>6, RescanDirEffect
<1>7. CASE CompareSequence(p)
  BY <1>0, <1>1, <1>2, <1>7, CompareSequenceEffect
<1>8. CASE CompareAgain(p)
  BY <1>0, <1>1, <1>2, <1>8, CompareAgainEffect
<1>9. CASE ClearBooks(p)
  <2>1. /\ pc[p] = "clear" /\ UNCHANGED lock /\ \A q \in Expirers : q # p => pc'[q] = pc[q] /\ job'[q] = job[q]
        /\ pc'[p] \notin {"idle", "lock", "reopen", "relock"}
    BY <1>0, <1>9, ClearBooksEffect
  <2> QED
    BY <1>0, <1>1, <1>2, <2>1
<1>10. CASE StartExpire(p)
  BY <1>0, <1>1, <1>2, <1>10, StartExpireEffect
<1>11. CASE Unlink(p)
  BY <1>0, <1>1, <1>2, <1>11, UnlinkEffect
<1>12. CASE KeepFile(p)
  BY <1>0, <1>1, <1>2, <1>12, KeepFileEffect
<1>13. CASE Tally(p)
  BY <1>0, <1>1, <1>2, <1>13, TallyEffect
<1>14. CASE SetLimits(p)
  BY <1>0, <1>1, <1>2, <1>14, SetLimitsEffect
<1>15. CASE TruncateStat(p) \/ ReopenStat(p)
  BY <1>0, <1>1, <1>2, <1>15, TornStatEffect
<1>16. CASE WriteStat(p)
  <2>1. /\ pc[p] \in {"write", "overwrite"} /\ lock' = "none"
        /\ \A q \in Expirers : q # p => pc'[q] = pc[q] /\ job'[q] = job[q]
        /\ pc'[p] = "reopen" \/ (pc'[p] = "idle" /\ ~job'[p].dirty)
    <3>1. ~NoJob.dirty
      BY NoJobFacts
    <3> QED
      BY <1>0, <1>16, <3>1, WriteStatEffect
  <2>2. lock = p
    BY <1>1, <2>1
  <2> QED
    BY <1>0, <1>1, <1>2, <2>1, <2>2
<1>17. CASE RelockStat(p)
  <2>1. /\ pc[p] = "relock" /\ lock = "none" /\ lock' = p /\ pc'[p] = "overwrite"
        /\ \A q \in Expirers : q # p => pc'[q] = pc[q] /\ job'[q] = job[q]
    BY <1>0, <1>17, RelockStatEffect
  <2> QED
    BY <1>0, <1>1, <1>2, <2>1
<1>18. CASE LeaveStat(p)
  <2>1. /\ pc[p] = "quit" /\ lock' = "none" /\ pc'[p] = "idle" /\ ~job'[p].dirty
        /\ \A q \in Expirers : q # p => pc'[q] = pc[q] /\ job'[q] = job[q]
    BY <1>0, <1>18, LeaveStatEffect, NoJobFacts
  <2>2. lock = p
    BY <1>1, <2>1
  <2> QED
    BY <1>0, <1>1, <1>2, <2>1, <2>2
<1> QED
  BY <1>3, <1>4, <1>5, <1>6, <1>7, <1>8, <1>9, <1>10, <1>11, <1>12, <1>13, <1>14, <1>15, <1>16, <1>17,
     <1>18 DEF Expirer

LEMMA ExpirerStages ==
  ASSUME Base, NEW p \in Expirers, Expirer(p)
  PROVE  Stages'
<1> USE DEF Others, Locals, Stages
<1>0. Types /\ Stages /\ LockHeld /\ p # "none" /\ p # "collector" /\ (p = "launcher" \/ p = "nfexpire")
      /\ "launcher" \in Expirers /\ "nfexpire" \in Expirers /\ "nfexpire" \in Procs
      /\ \A q \in Expirers : q \in Procs /\ (q = "launcher" \/ q = "nfexpire")
  BY Processes DEF Expirers, Base
<1>3. CASE LockStat(p)
  <2>1. CASE p = "launcher"
    <3>1. pc["nfexpire"] \in {"reopen", "relock"} => ~Stale["nfexpire"].exact
      BY <1>0, StaleTypes DEF Types, RunTypes
    <3>2. pc["nfexpire"] # "idle" \/ Stale["nfexpire"] = rec["nfexpire"]
      BY DEF Stale
    <3> QED
      <4>1. /\ pc[p] = "lock" /\ rec'["nfexpire"] = Stale["nfexpire"]
            /\ \A q \in Expirers : q # p => pc'[q] = pc[q] /\ job'[q] = job[q]
            /\ job'[p].expired = job[p].expired /\ pc'[p] \in {"take", "scan"}
            /\ job'[p].mode = job[p].mode /\ job'[p].attached # "orphan"
        BY <1>0, <1>3, <2>1, LockStatEffect
      <4>2. p # "nfexpire"
        BY <2>1
      <4>3. pc["nfexpire"] = "idle" => rec'["nfexpire"] = rec["nfexpire"]
        BY <3>2, <4>1
      <4> QED
        BY <1>0, <2>1, <3>1, <4>1, <4>2, <4>3
  <2>2. CASE p = "nfexpire"
    <3>1. Stale["launcher"] = rec["launcher"]
      BY <1>0, StaleTypes, Processes DEF Types, RunTypes
    <3>2. /\ pc["nfexpire"] = "lock" /\ rec'["launcher"] = rec["launcher"]
          /\ pc'["launcher"] = pc["launcher"] /\ job'["launcher"] = job["launcher"]
          /\ job'["nfexpire"].expired = job["nfexpire"].expired
          /\ pc'["nfexpire"] \notin {"idle", "lock", "reopen", "relock"}
      BY <1>0, <1>3, <2>2, <3>1, LockStatEffect
    <3>3. job'["nfexpire"].expired = 0
      BY <1>0, <3>2
    <3> QED
      BY <1>0, <3>2, <3>3
  <2> QED
    BY <1>0, <2>1, <2>2
<1>4. CASE TakeBooks(p)
  BY <1>0, <1>4, TakeBooksEffect
<1>5. CASE KeepSequence(p)
  BY <1>0, <1>5, KeepSequenceEffect
<1>6. CASE RescanDir(p)
  BY <1>0, <1>6, RescanDirEffect
<1>7. CASE CompareSequence(p)
  BY <1>0, <1>7, CompareSequenceEffect
<1>8. CASE CompareAgain(p)
  <2>1. /\ pc[p] = "again" /\ (\A q \in Expirers : q # p => pc'[q] = pc[q] /\ job'[q] = job[q])
        /\ \A q \in Procs : q # p => rec'[q] = rec[q]
        /\ job'[p].expired = job[p].expired /\ job'[p].attached = job[p].attached
        /\ pc'[p] \in {"clear", "quit", "truncate"}
    BY <1>0, <1>8, CompareAgainEffect
  <2>2. p = "nfexpire"
    BY <1>0, <2>1
  <2> QED
    BY <1>0, <2>1, <2>2
<1>9. CASE ClearBooks(p)
  <2>1. /\ pc[p] = "clear" /\ (\A q \in Expirers : q # p => pc'[q] = pc[q] /\ job'[q] = job[q])
        /\ \A q \in Procs : q # p => rec'[q] = rec[q]
        /\ job'[p].expired = job[p].expired /\ job'[p].attached = job[p].attached
        /\ job'[p].mode = job[p].mode /\ UNCHANGED lock
        /\ pc'[p] \in {"expire", "truncate", "take", "param", "quit"}
        /\ p = "launcher" => pc'[p] \in {"expire", "truncate", "take"}
    BY <1>0, <1>9, ClearBooksEffect
  <2> QED
    BY <1>0, <2>1
<1>10. CASE StartExpire(p)
  BY <1>0, <1>10, StartExpireEffect
<1>11. CASE Unlink(p)
  BY <1>0, <1>11, UnlinkEffect
<1>12. CASE KeepFile(p)
  BY <1>0, <1>12, KeepFileEffect
<1>13. CASE Tally(p)
  BY <1>0, <1>13, TallyEffect
<1>14. CASE SetLimits(p)
  BY <1>0, <1>14, SetLimitsEffect
<1>15. CASE TruncateStat(p) \/ ReopenStat(p)
  BY <1>0, <1>15, TornStatEffect
<1>16. CASE WriteStat(p)
  BY <1>0, <1>16, WriteStatEffect, NoJobFacts
<1>17. CASE RelockStat(p)
  BY <1>0, <1>17, RelockStatEffect
<1>18. CASE LeaveStat(p)
  BY <1>0, <1>18, LeaveStatEffect, NoJobFacts
<1> QED
  BY <1>3, <1>4, <1>5, <1>6, <1>7, <1>8, <1>9, <1>10, <1>11, <1>12, <1>13, <1>14, <1>15, <1>16, <1>17,
     <1>18 DEF Expirer

LEMMA ExpirerSessions ==
  ASSUME Base, NEW p \in Expirers, Expirer(p)
  PROVE  Sessions'
<1>1. UNCHANGED <<clock, phase, messages, events>>
  BY ExpirerPlace DEF Place
<1>2. pc["launcher"] = "idle" => pc'["launcher"] = "idle"
  <2>1. CASE p = "launcher"
    BY <2>1 DEF Expirer, LockStat, TakeBooks, KeepSequence, RescanDir, CompareSequence, CompareAgain,
      ClearBooks, StartExpire, Unlink, KeepFile, Tally, SetLimits, TruncateStat, WriteStat, ReopenStat,
      RelockStat, LeaveStat, Walking
  <2>2. CASE p # "launcher"
    <3>1. \E q : pc' = [pc EXCEPT ![p] = q]
      BY DEF Expirer, LockStat, TakeBooks, KeepSequence, RescanDir, CompareSequence, CompareAgain,
      ClearBooks, StartExpire, Unlink, KeepFile, Tally, SetLimits, TruncateStat, WriteStat, ReopenStat,
      RelockStat, LeaveStat, Quit, Go
    <3> QED
      BY <2>2, <3>1, Processes DEF Base, Types, RunTypes
  <2> QED
    BY <2>1, <2>2
<1> QED
  BY <1>1, <1>2 DEF Base, Sessions

(* what happens to the files, the books and the walks                      *)
LEMMA ExpirerFiles ==
  ASSUME Base, NEW p \in Expirers, Expirer(p)
  PROVE  /\ \/ UNCHANGED dir
            \/ /\ pc[p] = "unlink" /\ job[p].walk # NoFiles /\ dir' = Without(dir, Oldest(p))
               /\ job'[p].walk = Without(job[p].walk, Oldest(p))
         /\ booked' = booked \/ booked' = NoFiles
         /\ pc'[p] = "unlink" => \/ UNCHANGED dir /\ job'[p].walk = dir
                                 \/ /\ pc[p] = "unlink" /\ dir' = Without(dir, Oldest(p))
                                    /\ job'[p].walk = Without(job[p].walk, Oldest(p))
         /\ \A q \in Expirers : q # p => pc'[q] = pc[q] /\ job'[q] = job[q]
<1> USE DEF Others
<1>0. Types
  BY DEF Base
<1>3. CASE LockStat(p)
  BY <1>0, <1>3, LockStatEffect
<1>4. CASE TakeBooks(p)
  BY <1>0, <1>4, TakeBooksEffect DEF Emptied
<1>5. CASE KeepSequence(p)
  BY <1>0, <1>5, KeepSequenceEffect
<1>6. CASE RescanDir(p)
  BY <1>0, <1>6, RescanDirEffect
<1>7. CASE CompareSequence(p)
  BY <1>0, <1>7, CompareSequenceEffect
<1>8. CASE CompareAgain(p)
  BY <1>0, <1>8, CompareAgainEffect
<1>9. CASE ClearBooks(p)
  BY <1>0, <1>9, ClearBooksEffect DEF Emptied
<1>10. CASE StartExpire(p)
  BY <1>0, <1>10, StartExpireEffect
<1>11. CASE Unlink(p)
  BY <1>0, <1>11, UnlinkEffect
<1>12. CASE KeepFile(p)
  BY <1>0, <1>12, KeepFileEffect
<1>13. CASE Tally(p)
  BY <1>0, <1>13, TallyEffect
<1>14. CASE SetLimits(p)
  BY <1>0, <1>14, SetLimitsEffect
<1>15. CASE TruncateStat(p) \/ ReopenStat(p)
  BY <1>0, <1>15, TornStatEffect
<1>16. CASE WriteStat(p)
  BY <1>0, <1>16, WriteStatEffect
<1>17. CASE RelockStat(p)
  BY <1>0, <1>17, RelockStatEffect
<1>18. CASE LeaveStat(p)
  BY <1>0, <1>18, LeaveStatEffect
<1> QED
  BY <1>3, <1>4, <1>5, <1>6, <1>7, <1>8, <1>9, <1>10, <1>11, <1>12, <1>13, <1>14, <1>15, <1>16, <1>17,
     <1>18 DEF Expirer

LEMMA WithoutFacts ==
  ASSUME NEW f, NEW s
  PROVE  /\ DOMAIN Without(f, s) = DOMAIN f \ {s}
         /\ \A t \in DOMAIN f \ {s} : Without(f, s)[t] = f[t]
BY DEF Without, Restrict


LEMMA ExpirerSizes ==
  ASSUME Base, NEW p \in Expirers, Expirer(p)
  PROVE  Sizes' /\ Walks'
<1>1. UNCHANGED <<clock, phase, events>> /\ Moved' = Moved
  BY ExpirerPlace DEF Place, Moved
<1>2. Types /\ LockHeld /\ Sizes /\ Walks /\ DOMAIN NoFiles = {}
  BY NoFilesFacts DEF Base
<1>3. DOMAIN booked' \subseteq DOMAIN booked
  BY <1>2, ExpirerFiles
<1>4. CASE UNCHANGED dir
  <2>1. Sizes'
    BY <1>1, <1>2, <1>3, <1>4 DEF Sizes
  <2>2. ASSUME NEW q \in Expirers, pc'[q] = "unlink"
        PROVE  \/ job'[q].walk = dir
               \/ pc[q] = "unlink" /\ DOMAIN job'[q].walk \subseteq DOMAIN job[q].walk
                  /\ DOMAIN job'[q].walk = DOMAIN job[q].walk
    <3>1. CASE q # p
      BY <2>2, <3>1, ExpirerFiles
    <3>2. CASE q = p /\ job'[p].walk # dir
      <4>1. pc[p] = "unlink" /\ dir = Without(dir, Oldest(p))
            /\ job'[p].walk = Without(job[p].walk, Oldest(p))
        BY <1>4, <2>2, <3>2, ExpirerFiles
      <4>2. Oldest(p) \notin DOMAIN dir
        <5>1. DOMAIN Without(dir, Oldest(p)) = DOMAIN dir \ {Oldest(p)}
          BY WithoutFacts
        <5> HIDE DEF Oldest
        <5> QED
          BY <4>1, <5>1, Zenon
      <4>3. DOMAIN job[p].walk \subseteq DOMAIN dir
        BY <1>2, <4>1 DEF Walks
      <4> QED
        <5>1. DOMAIN job'[p].walk = DOMAIN job[p].walk \ {Oldest(p)}
          BY <4>1, WithoutFacts
        <5> QED
          BY <3>2, <4>1, <4>2, <4>3, <5>1
    <3> QED
      BY <3>1, <3>2
  <2>3. Walks'
    BY <1>2, <1>4, <2>2 DEF Walks
  <2> QED
    BY <2>1, <2>3
<1>5. CASE dir' # dir
  <2> DEFINE f == Oldest(p)
             w == job[p].walk
  <2>1. /\ pc[p] = "unlink" /\ w # NoFiles /\ dir' = Without(dir, f)
        /\ job'[p].walk = Without(w, f)
    BY <1>5, ExpirerFiles
  <2>2. w \in FilesIn /\ dir \in FilesIn /\ booked \in FilesIn /\ clock \in Slots
    BY <1>2 DEF Types, DiskTypes, BookTypes, RunTypes, Jobs
  <2>3. f \in DOMAIN w /\ (\A s \in DOMAIN w : f <= s) /\ f \in Nat
    BY <2>1, <2>2, OldestFacts, SlotNumbers
  <2>4. DOMAIN w \subseteq DOMAIN dir /\ \A s \in DOMAIN dir \ DOMAIN w : s > f
    BY <1>2, <2>1, <2>3 DEF Walks
  <2>5. DOMAIN dir \subseteq Nat
    BY <2>2, FilesFacts
  <2>6. \A s \in DOMAIN dir : s = f \/ s > f
    BY <2>3, <2>4, <2>5
  <2>7. /\ DOMAIN dir' = DOMAIN dir \ {f} /\ \A s \in DOMAIN dir' : dir'[s] = dir[s]
        /\ DOMAIN job'[p].walk = DOMAIN w \ {f}
    BY <2>1, WithoutFacts, Zenon
  <2>8. Sizes'
    <3>1. \A s \in (DOMAIN booked \cup Moved) \ DOMAIN dir : \A t \in DOMAIN dir : t > s
      BY <1>2 DEF Sizes
    <3>2. \A s \in (DOMAIN booked' \cup Moved') \ DOMAIN dir' : \A t \in DOMAIN dir' : t > s
      BY <1>1, <1>3, <2>6, <2>7, <3>1
    <3>3. \A s \in DOMAIN dir' : dir'[s] \in 1 .. events /\ s <= clock
      BY <1>2, <2>7 DEF Sizes
    <3>4. phase = "run" /\ clock \in DOMAIN dir' => dir'[clock] < events
      BY <1>2, <2>7 DEF Sizes
    <3> QED
      BY <1>1, <1>2, <1>3, <3>2, <3>3, <3>4 DEF Sizes
  <2>9. ASSUME NEW q \in Expirers, pc'[q] = "unlink" PROVE q = p
    <3> SUFFICES ASSUME q # p PROVE FALSE
      OBVIOUS
    <3>1. lock = p
      BY <1>2, <2>1, Holder
    <3>2. pc[q] = "unlink"
      BY <2>9, ExpirerFiles
    <3> QED
      BY <1>2, <3>1, <3>2, OnlyHolder
  <2>10. /\ DOMAIN job'[p].walk \subseteq DOMAIN dir'
         /\ \A g \in DOMAIN job'[p].walk : \A s \in DOMAIN dir' \ DOMAIN job'[p].walk : s > g
    <3>1. \A g \in DOMAIN w : \A s \in DOMAIN dir \ DOMAIN w : s > g
      BY <1>2, <2>1 DEF Walks
    <3> QED
      BY <2>4, <2>7, <3>1
  <2> QED
    BY <2>8, <2>9, <2>10 DEF Walks
<1> QED
  BY <1>4, <1>5
-------------------------------------------------------------------------------
(* The rest of Base is kept: the other steps                               *)

LEMMA TornDoubted == [Torn(NoLimits) EXCEPT !.exact = FALSE] = Torn(NoLimits)
<1>1. ASSUME NEW r \in Record, ~r.exact PROVE [r EXCEPT !.exact = FALSE] = r
  BY <1>1 DEF Record
<1> QED
  BY <1>1, TornNone

(* The collector spoils the records of others, no more.                    *)
Doubted(r, o) == r = o \/ r = [o EXCEPT !.exact = FALSE]

LEMMA DoubtedFacts ==
  ASSUME NEW o \in Record, NEW r, Doubted(r, o)
  PROVE  /\ r.exact => o.exact /\ r = o
         /\ o = Torn(NoLimits) => r = o
         /\ r.numfiles = o.numfiles /\ r.filesize = o.filesize /\ r.last = o.last /\ r.rebuild = o.rebuild
BY TornDoubted DEF Doubted, Record

LEMMA MiscountDoubts == ASSUME Types, Miscount PROVE \A q \in Procs : Doubted(rec'[q], rec[q])
BY MiscountTypes DEF Doubted

LEMMA StaleDoubts ==
  ASSUME rec \in [Procs -> Record]
  PROVE  \A q \in Procs : Doubted(Stale[q], rec[q])
BY StaleTypes DEF Doubted

LEMMA CollectorDoubts ==
  ASSUME Types, StartCollector \/ MoveFile \/ UpdateBooks \/ Ending \/ KillCollector
  PROVE  \A q \in Expirers : Doubted(rec'[q], rec[q])
<1>0. Expirers \subseteq Procs /\ "collector" \notin Expirers /\ rec \in [Procs -> Record]
  BY Processes DEF Types, RunTypes
<1>1. CASE StartCollector \/ DestroyBooks \/ KillCollector
  <2>1. Miscount \/ UNCHANGED rec
    BY <1>1 DEF StartCollector, DestroyBooks, KillCollector
  <2> QED
    BY <1>0, <2>1, MiscountDoubts DEF Doubted
<1>2. CASE MoveFile
  <2>1. \A q \in Procs : rec'[q] = IF clock \in DOMAIN dir /\ Scanning(q)
                                 THEN [rec[q] EXCEPT !.exact = FALSE] ELSE rec[q]
    BY <1>2 DEF MoveFile
  <2> QED
    BY <1>0, <2>1 DEF Doubted
<1>3. CASE UpdateBooks
  <2>1. Miscount \/ \A q \in Procs : rec'[q] = IF q \in Expirers /\ pc[q] = "clear"
                                         THEN [rec[q] EXCEPT !.exact = FALSE] ELSE rec[q]
    BY <1>3 DEF UpdateBooks
  <2> QED
    BY <1>0, <2>1, MiscountDoubts DEF Doubted
<1>4. CASE FinalStat
  <2>1. \A q \in Expirers : rec'[q] = rec[q] \/ rec'[q] = Stale[q]
    BY <1>0, <1>4, StaleTypes DEF FinalStat
  <2> QED
    BY <1>0, <2>1, StaleDoubts DEF Doubted
<1>5. CASE StopLauncher \/ FinalTruncate \/ FinalWrite
  <2>1. \A q \in Expirers : rec'[q] = rec[q]
    BY <1>0, <1>5 DEF StopLauncher, FinalTruncate, FinalWrite
  <2> QED
    BY <2>1 DEF Doubted
<1> QED
  BY <1>1, <1>2, <1>3, <1>4, <1>5 DEF Ending

(* Who works, and on what, the collector leaves alone.                     *)
LEMMA CollectorLeaves ==
  ASSUME Base, StartCollector \/ MoveFile \/ UpdateBooks \/ Ending \/ KillCollector
  PROVE  /\ pc' = pc
         /\ \A q \in Expirers : /\ job'[q].mode = job[q].mode /\ job'[q].dirty = job[q].dirty
                                /\ job'[q].expired = job[q].expired /\ job'[q].walk = job[q].walk
                                /\ job[q].attached = "no" => job'[q] = job[q]
                                /\ job[q].attached # "yes" => job'[q].attached = job[q].attached
                                /\ job'[q].attached \in {job[q].attached, "orphan"}
                                /\ ~DestroyBooks => job'[q] = job[q]
<1>1. CASE DestroyBooks
  <2>1. pc' = pc /\ \A q \in Expirers : job'[q] = IF job[q].attached = "yes"
                                    THEN [job[q] EXCEPT !.attached = "orphan"] ELSE job[q]
    BY <1>1 DEF DestroyBooks
  <2>2. \A q \in Expirers : job[q] \in Jobs
    BY DEF Base, Types, RunTypes
  <2> QED
    BY <1>1, <2>1, <2>2, Zenon DEF Jobs
<1>2. CASE ~DestroyBooks
  <2>1. UNCHANGED <<pc, job>>
    BY <1>2 DEF StartCollector, MoveFile, UpdateBooks, Ending, KillCollector, StopLauncher, FinalStat,
      FinalTruncate, FinalWrite
  <2> QED
    BY <2>1
<1> QED
  BY <1>1, <1>2

LEMMA CollectorLock ==
  ASSUME Base, StartCollector \/ MoveFile \/ UpdateBooks \/ Ending \/ KillCollector
  PROVE  LockHeld'
<1> DEFINE P == phase \in {"truncate", "write"} \/ (phase = "release" /\ lock = "collector")
<1>1. /\ \A q \in Expirers : pc[q] \in {"idle", "lock", "reopen", "relock"} <=> lock # q
      /\ lock = "collector" <=> P
      /\ \A q \in Expirers : job[q].dirty => lock = q \/ pc[q] \in {"reopen", "relock"}
  BY DEF Base, LockHeld
<1>2. \A q \in Expirers : q # "none" /\ q # "collector"
  BY DEF Expirers
<1>3. /\ lock' = lock \/ (lock = "none" /\ lock' = "collector") \/ (lock = "collector" /\ lock' = "none")
      /\ lock' = "collector" <=> P'
  <2>1. CASE StartCollector \/ MoveFile \/ UpdateBooks \/ StopLauncher \/ FinalTruncate
    BY <1>1, <2>1 DEF StartCollector, MoveFile, UpdateBooks, StopLauncher, FinalTruncate, disk
  <2>2. CASE FinalStat
    BY <1>1, <2>2 DEF FinalStat
  <2>3. CASE FinalWrite \/ DestroyBooks \/ KillCollector
    BY <1>1, <2>3 DEF FinalWrite, DestroyBooks, KillCollector
  <2> QED
    BY <2>1, <2>2, <2>3 DEF Ending
<1>4. \A q \in Expirers : lock' = q <=> lock = q
  BY <1>2, <1>3
<1>5. pc' = pc /\ \A q \in Expirers : job'[q].dirty = job[q].dirty
  BY CollectorLeaves
<1> QED
  BY <1>1, <1>3, <1>4, <1>5 DEF LockHeld

LEMMA CollectorStages ==
  ASSUME Base, StartCollector \/ MoveFile \/ UpdateBooks \/ Ending \/ KillCollector
  PROVE  Stages'
<1>1. Types /\ LockHeld /\ Stages /\ Sessions /\ \A q \in Expirers : rec[q] \in Record
  BY Processes DEF Base, Types, RunTypes
<1>2. "launcher" \in Expirers /\ "nfexpire" \in Expirers
  BY Processes
<1>3. \A q \in Expirers : (rec'[q].exact => rec[q].exact) /\ (rec[q] = Torn(NoLimits) => rec'[q] = rec[q])
  BY <1>1, CollectorDoubts, DoubtedFacts
<1>4. job'["launcher"].attached # "orphan"
  <2>1. CASE DestroyBooks
    <3>1. job["launcher"].attached = "no"
      BY <1>1, <1>2, <2>1, NoJobFacts DEF DestroyBooks, Sessions, Stages
    <3> QED
      BY <1>2, <3>1, CollectorLeaves
  <2>2. CASE ~DestroyBooks
    BY <1>1, <1>2, <2>2, CollectorLeaves DEF Stages
  <2> QED
    BY <2>1, <2>2
<1>5. pc'["nfexpire"] \in {"reopen", "relock"} /\ rec'["nfexpire"].exact => lock' = "none"
  <2>1. CASE FinalStat /\ lock' # lock
    <3>1. rec'["nfexpire"] = Stale["nfexpire"] /\ pc' = pc
      BY <1>1, <2>1, CollectorLeaves, Processes, StaleTypes DEF FinalStat, Types, RunTypes
    <3> QED
      BY <1>1, <3>1, StaleTypes DEF Types, RunTypes
  <2>2. CASE ~FinalStat \/ UNCHANGED lock
    <3>1. lock' \in {lock, "none"}
      BY <2>2 DEF StartCollector, MoveFile, UpdateBooks, Ending, KillCollector, StopLauncher, FinalStat,
        FinalTruncate, FinalWrite, DestroyBooks, disk
    <3> QED
      BY <1>1, <1>2, <1>3, <3>1, CollectorLeaves DEF Stages
  <2> QED
    BY <2>1, <2>2
<1>6. \A q \in Expirers : pc'[q] = "idle" => job'[q] = NoJob /\ rec'[q] = Torn(NoLimits)
  BY <1>1, <1>3, CollectorLeaves, NoJobFacts DEF Stages
<1>7. \A q \in Expirers : pc'[q] = "lock" => ~job'[q].dirty /\ job'[q].attached = "no"
  BY <1>1, CollectorLeaves DEF Stages
<1> QED
  BY <1>1, <1>2, <1>4, <1>5, <1>6, <1>7, CollectorLeaves DEF Stages

LEMMA CollectorSessions ==
  ASSUME Base, StartCollector \/ MoveFile \/ UpdateBooks \/ Ending \/ KillCollector
  PROVE  Sessions'
<1>1. /\ pc' = pc /\ clock \in Slots /\ messages \in Nat /\ events \in Nat /\ MaxSlot \in Nat
      /\ Slots \subseteq Nat \ {0}
  BY CollectorLeaves, ExpireAssumption DEF Base, Types, DiskTypes, RunTypes, Slots
<1>2. Sessions
  BY DEF Base
<1>3. CASE StartCollector
  <2>1. clock' \in Slots /\ clock' >= clock /\ messages' = messages /\ phase' = "run" /\ phase = "down"
        /\ events' = events + 1
    BY <1>1, <1>3 DEF StartCollector, Event
  <2> QED
    BY <1>1, <1>2, <2>1 DEF Sessions
<1>4. CASE MoveFile
  BY <1>1, <1>2, <1>4 DEF Sessions, MoveFile, bounds
<1>5. CASE UpdateBooks
  BY <1>1, <1>2, <1>5 DEF Sessions, UpdateBooks, bounds
<1>6. CASE Ending
  <2>1. UNCHANGED events /\ messages' \in {messages, 0} /\ UNCHANGED clock
    BY <1>6 DEF Ending, StopLauncher, FinalStat, FinalTruncate, FinalWrite, DestroyBooks, bounds
  <2>2. phase \in {"stop", "stat", "truncate", "write", "released", "release"}
        /\ phase' \in {"stat", "truncate", "write", "released", "release", "down"}
    BY <1>6 DEF Ending, StopLauncher, FinalStat, FinalTruncate, FinalWrite, DestroyBooks
  <2>3. pc["launcher"] = "idle" /\ messages' = 0
    BY <1>2, <1>6 DEF Ending, StopLauncher, FinalStat, FinalTruncate, FinalWrite, DestroyBooks, Sessions
  <2> QED
    BY <1>1, <1>2, <2>1, <2>2, <2>3 DEF Sessions
<1>7. CASE KillCollector
  BY <1>1, <1>2, <1>7 DEF Sessions, KillCollector
<1> QED
  BY <1>3, <1>4, <1>5, <1>6, <1>7

LEMMA CollectorSizes ==
  ASSUME Base, StartCollector \/ MoveFile \/ UpdateBooks \/ Ending \/ KillCollector
  PROVE  Sizes' /\ Walks'
<1>1. /\ Types /\ Sessions /\ Sizes /\ Walks /\ clock \in Slots /\ clock \in Nat /\ events \in Nat
      /\ dir \in FilesIn /\ booked \in FilesIn /\ DOMAIN NoFiles = {}
  BY SlotNumbers, NoFilesFacts DEF Base, Types, DiskTypes, BookTypes, RunTypes
<1>2. /\ \A s \in DOMAIN dir : dir[s] \in 1 .. events /\ s <= clock
      /\ phase = "run" /\ clock \in DOMAIN dir => dir[clock] < events
      /\ \A s \in DOMAIN booked : s <= clock
      /\ phase \in {"run", "moved", "lastmoved"} => clock \notin DOMAIN booked
      /\ \A s \in (DOMAIN booked \cup Moved) \ DOMAIN dir : \A t \in DOMAIN dir : t > s
  BY <1>1 DEF Sizes
<1>3. pc' = pc /\ \A q \in Expirers : job'[q].walk = job[q].walk
  BY CollectorLeaves
<1>4. DOMAIN dir \subseteq Nat /\ DOMAIN booked \subseteq Nat
  BY <1>1, FilesFacts
<1>5. CASE StartCollector
  <2>1. /\ clock' \in Slots /\ clock' >= clock /\ clock' \in Nat /\ phase' = "run" /\ Moved' = {}
        /\ events' = events + 1 /\ booked' = NoFiles /\ UNCHANGED dir
    <3>1. clock' \in {clock, clock + 1} \cap Slots
      BY <1>5 DEF StartCollector
    <3> QED
      BY <1>1, <1>5, <3>1 DEF StartCollector, Event, Moved
  <2>2. Sizes'
    <3>1. \A s \in DOMAIN dir : dir[s] \in 1 .. events + 1 /\ s <= clock'
      BY <1>1, <1>2, <1>4, <2>1
    <3>2. clock' \in DOMAIN dir => dir[clock'] < events + 1
      BY <1>1, <1>2
    <3> QED
      BY <1>1, <2>1, <3>1, <3>2 DEF Sizes
  <2>3. Walks'
    BY <1>1, <1>3, <2>1 DEF Walks
  <2> QED
    BY <2>2, <2>3
<1>6. CASE MoveFile
  <2>0. PICK n : n = (IF clock \in DOMAIN dir THEN dir[clock] + 1 ELSE 1) /\ dir' = With(dir, clock, n)
    BY <1>6 DEF MoveFile
  <2>1. /\ phase = "run" /\ phase' \in {"moved", "lastmoved"} /\ Moved' = {clock} /\ Moved = {}
        /\ UNCHANGED <<clock, events, booked>>
    BY <1>6 DEF MoveFile, books, bounds, Moved
  <2>2. n \in 1 .. events
    <3>1. events > 0
      BY <1>1, <2>1 DEF Sessions
    <3> QED
      BY <1>1, <1>2, <2>0, <2>1, <3>1
  <2>3. /\ DOMAIN dir' = DOMAIN dir \cup {clock} /\ dir'[clock] = n
        /\ \A s \in DOMAIN dir : s # clock => dir'[s] = dir[s]
    BY <2>0 DEF With
  <2>4. Sizes'
    <3>1. \A s \in DOMAIN dir' : dir'[s] \in 1 .. events /\ s <= clock
      BY <1>1, <1>2, <2>2, <2>3
    <3>2. \A s \in (DOMAIN booked \cup {clock}) \ DOMAIN dir' : \A t \in DOMAIN dir' : t > s
      BY <1>1, <1>2, <1>4, <2>1, <2>3
    <3> QED
      BY <1>1, <1>2, <2>1, <3>1, <3>2 DEF Sizes
  <2>5. Walks'
    <3> SUFFICES ASSUME NEW q \in Expirers, pc'[q] = "unlink"
        PROVE  /\ DOMAIN job'[q].walk \subseteq DOMAIN dir'
               /\ \A f \in DOMAIN job'[q].walk : \A s \in DOMAIN dir' \ DOMAIN job'[q].walk : s > f
      BY DEF Walks
    <3>1. /\ DOMAIN job[q].walk \subseteq DOMAIN dir
          /\ \A f \in DOMAIN job[q].walk : \A s \in DOMAIN dir \ DOMAIN job[q].walk : s > f
      BY <1>1, <1>3 DEF Walks
    <3> QED
      BY <1>1, <1>2, <1>3, <1>4, <2>3, <3>1
  <2> QED
    BY <2>4, <2>5
<1>7. CASE UpdateBooks
  <2>1. PICK n \in IF clock \in DOMAIN dir THEN {dir[clock]} ELSE {0, SizeModulus - 1} :
               booked' = With(booked, clock, n)
    BY <1>7 DEF UpdateBooks
  <2>2. n \in Nat
    BY <1>1, <2>1, FilesFacts, ExpireAssumption
  <2>3. DOMAIN booked' = DOMAIN booked \cup {clock}
    BY <1>1, <2>1, <2>2, FilesWith
  <2>4. /\ UNCHANGED <<dir, events>> /\ Moved = {clock} /\ Moved' = {}
        /\ \/ phase = "moved" /\ phase' = "run" /\ clock' = clock + 1
           \/ phase = "lastmoved" /\ phase' = "stop" /\ clock' = clock
    BY <1>7 DEF UpdateBooks, Moved, bounds
  <2>5. Sizes'
    <3>1. \A s \in DOMAIN dir : dir[s] \in 1 .. events /\ s <= clock'
      BY <1>1, <1>2, <1>4, <2>4
    <3>2. phase' = "run" => clock' \notin DOMAIN dir /\ clock' \notin DOMAIN booked'
      BY <1>1, <1>2, <1>4, <2>3, <2>4
    <3>3. \A s \in DOMAIN booked' : s <= clock'
      BY <1>1, <1>2, <1>4, <2>3, <2>4
    <3>4. \A s \in (DOMAIN booked' \cup {}) \ DOMAIN dir : \A t \in DOMAIN dir : t > s
      BY <1>2, <2>3, <2>4
    <3> QED
      BY <2>4, <3>1, <3>2, <3>3, <3>4 DEF Sizes
  <2>6. Walks'
    BY <1>1, <1>3, <2>4 DEF Walks
  <2> QED
    BY <2>5, <2>6
<1>8. CASE Ending
  <2>1. UNCHANGED <<events, clock, dir>> /\ Moved = {} /\ Moved' = {} /\ (booked' = booked \/ booked' = NoFiles)
        /\ phase' \notin {"run", "moved", "lastmoved"}
    BY <1>8 DEF Ending, StopLauncher, FinalStat, FinalTruncate, FinalWrite, DestroyBooks, bounds, disk,
      books, Moved
  <2> QED
    BY <1>1, <1>2, <1>3, <2>1 DEF Sizes, Walks
<1>9. CASE KillCollector
  <2>1. UNCHANGED <<clock, dir, booked>> /\ Moved' = {} /\ phase' = "down" /\ events' = events + 1
    BY <1>9 DEF KillCollector, Death, Event, Moved
  <2>2. \A s \in DOMAIN dir : dir[s] \in 1 .. events + 1
    BY <1>1, <1>2
  <2> QED
    BY <1>1, <1>2, <1>3, <2>1, <2>2 DEF Sizes, Walks
<1> QED
  BY <1>5, <1>6, <1>7, <1>8, <1>9

LEMMA StartsBase ==
  ASSUME Base, DoExpire \/ NfExpire \/ KillNfExpire
  PROVE  LockHeld' /\ Stages' /\ Sessions' /\ Sizes' /\ Walks'
<1> USE Processes
<1>1. /\ Types /\ LockHeld /\ Stages /\ Sessions /\ Sizes /\ Walks /\ events \in Nat
      /\ \A q \in Expirers : q = "launcher" \/ q = "nfexpire"
      /\ dir \in FilesIn /\ messages \in Nat /\ clock \in Nat /\ ~NoJob.dirty /\ NoJob.expired = 0
      /\ NoJob.mode = "list" /\ NoJob.attached = "no" /\ \A q \in Expirers : q # "none" /\ q # "collector"
  BY NoJobFacts, SlotNumbers DEF Base, Types, DiskTypes, RunTypes, Expirers
<1>2. UNCHANGED <<clock, dir, booked, phase>> /\ Moved' = Moved
  BY DEF DoExpire, NfExpire, KillNfExpire, books, owner, Moved
<1>3. events' \in Nat /\ events' >= events /\ messages' \in Nat /\ messages' <= messages
  <2>1. CASE DoExpire
    BY <1>1, <2>1 DEF DoExpire, bounds
  <2>2. CASE NfExpire \/ KillNfExpire
    <3>1. Event /\ UNCHANGED owner
      BY <2>2 DEF NfExpire, KillNfExpire, Death, owner
    <3> QED
      BY <1>1, <3>1 DEF Event, owner
  <2> QED
    BY <2>1, <2>2
<1>4. Sizes'
  <2>1. \A s \in DOMAIN dir : dir[s] \in Nat
    BY <1>1, FilesFacts
  <2>2. \A s \in DOMAIN dir : dir[s] \in 1 .. events'
    BY <1>1, <1>3, <2>1 DEF Sizes
  <2>3. phase = "run" /\ clock \in DOMAIN dir => dir[clock] < events'
    BY <1>1, <1>3, <2>1 DEF Sizes
  <2> QED
    BY <1>1, <1>2, <2>2, <2>3 DEF Sizes
<1>5. Sessions'
  <2>1. pc'["launcher"] = "idle" \/ phase \notin {"stat", "truncate", "write", "released", "release"}
    <3>1. CASE DoExpire
      BY <1>1, <3>1 DEF DoExpire, Sessions
    <3>2. CASE NfExpire \/ KillNfExpire
      <4>1. pc'["launcher"] = pc["launcher"]
        BY <1>1, <3>2 DEF NfExpire, KillNfExpire, Quit, Go, Types, RunTypes
      <4> QED
        BY <1>1, <4>1 DEF Sessions
    <3> QED
      BY <3>1, <3>2
  <2> QED
    BY <1>1, <1>2, <1>3, <2>1 DEF Sessions
<1>6. CASE DoExpire \/ NfExpire
  <2> DEFINE p == IF DoExpire THEN "launcher" ELSE "nfexpire"
  <2>1. /\ p \in Expirers /\ pc[p] = "idle" /\ pc' = [pc EXCEPT ![p] = "lock"]
        /\ UNCHANGED <<rec, lock>>
        /\ (DoExpire /\ p = "launcher") \/ (NfExpire /\ p = "nfexpire")
    <3>1. CASE DoExpire
      <4>1. p = "launcher"
        BY <3>1
      <4> HIDE DEF p
      <4> QED
        BY <3>1, <4>1, Processes DEF DoExpire, Go
    <3>2. CASE ~DoExpire
      <4>1. p = "nfexpire" /\ NfExpire
        BY <1>6, <3>2
      <4> HIDE DEF p
      <4> QED
        BY <4>1, Processes DEF NfExpire, Go
    <3> QED
      BY <3>1, <3>2
  <2> HIDE DEF p
  <2>2. /\ \A q \in Expirers : q # p => job'[q] = job[q]
        /\ job'[p].dirty = job[p].dirty /\ job'[p].expired = job[p].expired
        /\ job'[p].attached = job[p].attached /\ (p = "launcher" => job'[p].mode = job[p].mode)
    <3>0. job \in [Expirers -> Jobs] /\ job[p] \in Jobs
      BY <1>1, <2>1 DEF Types, RunTypes
    <3>1. CASE DoExpire /\ p = "launcher"
      <4>1. job' = [job EXCEPT !["launcher"] = [job["launcher"] EXCEPT !.fresh = ~stat.exists]]
        BY <3>0, <3>1 DEF DoExpire
      <4> QED
        BY <2>1, <3>0, <3>1, <4>1 DEF Jobs
    <3>2. CASE NfExpire /\ p = "nfexpire"
      <4>1. PICK m \in Modes : \E l \in Limits \cup {NoLimits} :
              job' = [job EXCEPT !["nfexpire"] = [job["nfexpire"] EXCEPT
                                        !.mode = m, !.limits = l, !.fresh = ~stat.exists]]
        BY <3>2 DEF NfExpire
      <4>2. PICK l \in Limits \cup {NoLimits} :
              job' = [job EXCEPT !["nfexpire"] = [job["nfexpire"] EXCEPT
                                        !.mode = m, !.limits = l, !.fresh = ~stat.exists]]
        BY <4>1
      <4> QED
        BY <2>1, <3>0, <3>2, <4>2 DEF Jobs
    <3> QED
      BY <2>1, <3>1, <3>2
  <2>3. job[p] = NoJob
    BY <1>1, <2>1 DEF Stages
  <2>4. pc'[p] = "lock" /\ \A q \in Expirers : q # p => pc'[q] = pc[q]
    BY <1>1, <2>1 DEF Types, RunTypes
  <2>5. LockHeld'
    BY <1>1, <1>2, <2>1, <2>2, <2>3, <2>4 DEF LockHeld
  <2>6. Stages'
    BY <1>1, <2>1, <2>2, <2>3, <2>4 DEF Stages
  <2>7. Walks'
    BY <1>1, <1>2, <2>2, <2>4 DEF Walks
  <2> QED
    BY <1>4, <1>5, <2>5, <2>6, <2>7
<1>7. CASE KillNfExpire
  <2>1. /\ pc'["nfexpire"] = "idle" /\ job'["nfexpire"] = NoJob /\ rec'["nfexpire"] = Torn(NoLimits)
        /\ pc'["launcher"] = pc["launcher"] /\ job'["launcher"] = job["launcher"]
        /\ rec'["launcher"] = rec["launcher"]
    <3>1. Quit("nfexpire")
      BY <1>7 DEF KillNfExpire
    <3> QED
      BY <1>1, <3>1, QuitTypes DEF Types
  <2>2. lock' = IF lock = "nfexpire" THEN "none" ELSE lock
    BY <1>7 DEF KillNfExpire
  <2>3. LockHeld'
    BY <1>1, <1>2, <2>1, <2>2 DEF LockHeld
  <2>4. Stages'
    BY <1>1, <2>1 DEF Stages
  <2>5. Walks'
    BY <1>1, <1>2, <2>1 DEF Walks
  <2> QED
    BY <1>4, <1>5, <2>3, <2>4, <2>5
<1> QED
  BY <1>6, <1>7

LEMMA BaseKept == ASSUME Base, [Next]_vars PROVE Base'
<1>1. Types'
  BY TypesKept DEF Base
<1>2. CASE UNCHANGED vars
  BY <1>2 DEF vars, disk, books, owner, bounds, Base, Types, DiskTypes, BookTypes, RunTypes, LockHeld, Stages,
    Sessions, Sizes, Walks, Moved
<1>3. CASE \E p \in Expirers : Expirer(p)
  BY <1>1, <1>3, ExpirerLock, ExpirerStages, ExpirerSessions, ExpirerSizes DEF Base
<1>4. CASE StartCollector \/ MoveFile \/ UpdateBooks \/ Ending \/ KillCollector
  BY <1>1, <1>4, CollectorLock, CollectorStages, CollectorSessions, CollectorSizes DEF Base
<1>5. CASE DoExpire \/ NfExpire \/ KillNfExpire
  BY <1>1, <1>5, StartsBase DEF Base
<1> QED
  BY <1>2, <1>3, <1>4, <1>5 DEF Next

LEMMA BaseInit == ASSUME Init PROVE Base
<1> USE DEF Init
<1>1. /\ NoFiles \in FilesIn /\ DOMAIN NoFiles = {} /\ NoJob \in Jobs /\ Torn(NoLimits) \in Record
      /\ ~NoJob.dirty /\ NoJob.expired = 0 /\ NoJob.attached = "no" /\ NoJob.mode = "list"
  BY NoFilesFacts, NoJobFacts, TornNone
<1>2. Types
  <2>1. clock \in Slots /\ events \in 0 .. MaxEvents /\ auto \in BOOLEAN
    BY ExpireAssumption DEF Slots
  <2>2. pc \in [Expirers -> Locations] /\ job \in [Expirers -> Jobs] /\ rec \in [Procs -> Record]
    BY <1>1 DEF Locations
  <2>3. stat \in [exists : BOOLEAN, rec : Record]
    BY <1>1
  <2> QED
    BY <1>1, <2>1, <2>2, <2>3 DEF Types, DiskTypes, BookTypes, RunTypes, Phases
<1>3. LockHeld /\ Stages /\ Sessions
  BY <1>1, Processes DEF LockHeld, Stages, Sessions, Expirers, Procs
<1>4. Sizes /\ Walks
  BY <1>1 DEF Sizes, Walks, Moved
<1> QED
  BY <1>2, <1>3, <1>4 DEF Base
-------------------------------------------------------------------------------
(* What the records count.  A good record will be believed, and nothing    *)
(* has made it miscount; files awaited are on their way into a record, as  *)
(* entries of the books or about to be entered, until the collector has    *)
(* taken in the books itself.                                              *)

Good(r) == r.exact /\ ~r.rebuild

Awaited == IF phase = "released" THEN {} ELSE DOMAIN booked \cup Moved
Pending == [s \in Awaited |-> IF s \in Moved THEN dir[s] ELSE booked[s]]
Closed  == IF phase = "released" THEN DOMAIN booked ELSE {}

(* A good record counts some file that is there, and gone ones; one that   *)
(* ends before the files P that are awaited, all of them still in D,       *)
(* counts exactly the others, and gone more; one that was written when the *)
(* collector had closed the books C has all of them.                       *)
Filled(r, gone, D) ==
    Good(r) => 0 < r.numfiles /\ r.numfiles <= Cardinality({s \in DOMAIN D : s <= r.last}) + gone

Balanced(r, gone, D, P) ==
    /\ r.numfiles + Cardinality(DOMAIN P) = Cardinality(DOMAIN D) + gone
    /\ Wrap(r.filesize + SumFunction(P)) = Wrap(SumFunction(D))
    /\ \A s \in DOMAIN D \ DOMAIN P : s <= r.last

Fresh(r, D, P, M) == Good(r) /\ M \subseteq DOMAIN D /\ \A s \in DOMAIN P : s > r.last

Claims(r, gone, D, P, M, C) ==
    /\ Filled(r, gone, D)
    /\ Fresh(r, D, P, M) => Balanced(r, gone, D, P)
    /\ Good(r) => \A s \in C : s <= r.last

(* A scan has counted the files up to the last; later ones are awaited.    *)
Newer(r, D) == {s \in DOMAIN D : s > r.last}
Scan(r, D, P) ==
    Good(r) => /\ r.last \in DOMAIN D /\ 0 < r.numfiles
               /\ r.numfiles + Cardinality(Newer(r, D)) = Cardinality(DOMAIN D)
               /\ Wrap(r.filesize + SumFunction(Restrict(D, Newer(r, D)))) = Wrap(SumFunction(D))
               /\ Newer(r, D) = {s \in DOMAIN P : s > r.last}
               /\ \A s \in Newer(r, D) : P[s] = D[s]

Accounts(r, gone) == Claims(r, gone, dir, Pending, Moved, Closed)

Early     == {"take", "sequence", "scan", "compare", "again", "clear"}
Counting  == {"take", "expire", "unlink", "tally", "param", "truncate", "write", "overwrite",
              "reopen", "relock", "quit"}
Comparing == {"compare", "again", "clear"}

(* the record on disk, unless who holds the lock has taken in books or     *)
(* removed files                                                           *)
StatKept  == (\A p \in Expirers : lock = p => ~job[p].dirty) => Accounts(stat.rec, 0)
StatFilled ==
    (\A p \in Expirers : lock = p => ~job[p].dirty \/ pc[p] \in Early) => Filled(stat.rec, 0, dir)

(* who finds no file at all leaves a record nobody believes                *)
StatLeft(p) ==
    /\ job[p].nofiles => ~Good(stat.rec) /\ pc[p] \notin {"idle", "lock", "reopen", "relock"}
    /\ pc[p] = "quit" => job[p].nofiles

(* the record an expirer works on                                          *)
RecKept(p)  == pc[p] \in Counting => Accounts(rec[p], job[p].expired)
Covered(p) ==
    Good(rec[p]) /\ job[p].attached = "yes" /\ (pc[p] # "clear" => ~changed)
      => \A s \in DOMAIN booked : s <= rec[p].last
ScanKept(p) == pc[p] \in Comparing => Scan(rec[p], dir, Pending) /\ Covered(p)
OrphanKept(p) ==
    pc[p] = "take" /\ job[p].attached = "orphan" /\ Good(rec[p]) =>
      \A s \in DOMAIN orphan : s <= rec[p].last
WalkKept(p) ==
    pc[p] = "unlink" /\ Fresh(rec[p], dir, Pending, Moved) =>
      \A f \in DOMAIN job[p].walk : dir[f] = job[p].walk[f]

(* the books a collector has closed are those of who reads the record then *)
ClosedFor(p) ==
    phase = "released" /\ pc[p] \notin {"idle", "lock", "reopen", "relock", "overwrite"} =>
      job[p].attached = "yes" /\ (pc[p] \in {"scan", "compare", "again"} => ~changed)

(* the record the collector writes when it ends                            *)
FinalKept ==
    phase \in {"truncate", "write"} /\ Good(rec["collector"]) =>
      /\ 0 < rec["collector"].numfiles
      /\ rec["collector"].numfiles = Cardinality(DOMAIN dir)
      /\ rec["collector"].filesize = Wrap(SumFunction(dir))
      /\ \A s \in DOMAIN dir \cup DOMAIN booked : s <= rec["collector"].last

SegmentKept == phase # "down" => segment

Working(p) == StatLeft(p) /\ RecKept(p) /\ ScanKept(p) /\ OrphanKept(p) /\ WalkKept(p) /\ ClosedFor(p)
Kept == StatKept /\ StatFilled /\ FinalKept /\ SegmentKept /\ \A p \in Expirers : Working(p)
-------------------------------------------------------------------------------
(* What is known of a record, under each change of files and books         *)

Follows(r, o) ==
    /\ r.numfiles = o.numfiles /\ r.filesize = o.filesize /\ r.last = o.last
    /\ Good(r) => Good(o)

LEMMA BadRecord ==
  ASSUME NEW r, ~Good(r), NEW g, NEW D, NEW P, NEW M, NEW C
  PROVE  Filled(r, g, D) /\ Claims(r, g, D, P, M, C) /\ ~Fresh(r, D, P, M) /\ Scan(r, D, P)
BY DEF Filled, Claims, Fresh, Scan

LEMMA FollowsFacts ==
  ASSUME NEW r, NEW o, Follows(r, o), NEW g, NEW D, NEW P, NEW M, NEW C
  PROVE  /\ Filled(o, g, D) => Filled(r, g, D)
         /\ Claims(o, g, D, P, M, C) => Claims(r, g, D, P, M, C)
         /\ Fresh(r, D, P, M) => Fresh(o, D, P, M)
         /\ Scan(o, D, P) => Scan(r, D, P)
<1>1. (Filled(o, g, D) => Filled(r, g, D)) /\ (Fresh(r, D, P, M) => Fresh(o, D, P, M))
  BY DEF Follows, Filled, Fresh
<1>2. Balanced(o, g, D, P) => Balanced(r, g, D, P)
  BY DEF Follows, Balanced
<1>3. Claims(o, g, D, P, M, C) => Claims(r, g, D, P, M, C)
  BY <1>1, <1>2 DEF Follows, Claims
<1>4. Newer(r, D) = Newer(o, D)
  BY DEF Newer, Follows
<1>5. Scan(o, D, P) => Scan(r, D, P)
  BY <1>4 DEF Follows, Scan
<1> QED
  BY <1>1, <1>3, <1>5

LEMMA DoubtedFollows == ASSUME NEW o \in Record, NEW r, Doubted(r, o) PROVE Follows(r, o)
BY DoubtedFacts DEF Follows, Good

(* Books that reach behind the last file of a record, all of it counted,   *)
(* are of files that are there.                                            *)
LEMMA BooksThere ==
  ASSUME NEW r \in Record, NEW g, NEW D \in FilesIn, NEW A \in SUBSET Slots,
         \A s \in A \ DOMAIN D : \A t \in DOMAIN D : t > s,
         Good(r), Filled(r, 0, D), \A s \in A : s > r.last
  PROVE  A \subseteq DOMAIN D
<1> DEFINE E == {s \in DOMAIN D : s <= r.last}
<1>1. E # {}
  <2>1. 0 < r.numfiles /\ r.numfiles <= Cardinality(E) + 0
    BY DEF Filled
  <2>2. r.numfiles \in Int
    BY DEF Record
  <2>3. E \in SUBSET Slots /\ Cardinality(E) \in 0 .. MaxSlot
    BY FilesFacts, SlotsFinite
  <2> HIDE DEF E
  <2>4. Cardinality(E) # 0
    BY <2>1, <2>2, <2>3, ExpireAssumption
  <2> QED
    BY <2>4, FS_EmptySet
<1>2. PICK t \in DOMAIN D : t <= r.last
  BY <1>1
<1>3. DOMAIN D \subseteq Slots /\ Slots \subseteq Int /\ r.last \in Int
  BY FilesFacts, ExpireAssumption DEF Slots, Record
<1>4. ASSUME NEW s \in A PROVE s \in Int /\ t \in Int /\ s > t
  <2>1. s \in Int /\ t \in Int /\ r.last \in Int /\ s > r.last /\ t <= r.last
    BY <1>2, <1>3, <1>4
  <2> QED
    BY <2>1
<1>5. ASSUME NEW s \in A, s \notin DOMAIN D PROVE FALSE
  <2>1. t > s /\ s > t
    BY <1>4, <1>5
  <2> QED
    BY <2>1, <1>4, <1>5
<1> QED
  BY <1>5

(* A set and what is taken out of it                                       *)
LEMMA CardSplit ==
  ASSUME NEW S \in SUBSET Slots, NEW A \in SUBSET S
  PROVE  /\ Cardinality(S) = Cardinality(A) + Cardinality(S \ A)
         /\ Cardinality(S) \in 0 .. MaxSlot /\ Cardinality(A) \in 0 .. MaxSlot
         /\ Cardinality(S \ A) \in 0 .. MaxSlot
<1>1. /\ Cardinality(S) \in 0 .. MaxSlot /\ Cardinality(A) \in 0 .. MaxSlot
      /\ Cardinality(S \ A) \in 0 .. MaxSlot /\ IsFiniteSet(S) /\ IsFiniteSet(A) /\ IsFiniteSet(S \ A)
  BY SlotsFinite
<1>2. S \cap A = A
  OBVIOUS
<1>3. Cardinality(S \ A) = Cardinality(S) - Cardinality(A)
  BY <1>1, <1>2, FS_Difference, Zenon
<1> QED
  BY <1>1, <1>3

(* One file more                                                           *)
LEMMA OneMore ==
  ASSUME NEW F \in FilesIn, NEW G \in FilesIn, NEW c, c \notin DOMAIN F, DOMAIN G = DOMAIN F \cup {c},
         \A s \in DOMAIN F : G[s] = F[s]
  PROVE  /\ SumFunction(G) = G[c] + SumFunction(F) /\ SumFunction(F) \in Int
         /\ Cardinality(DOMAIN G) = Cardinality(DOMAIN F) + 1 /\ Cardinality(DOMAIN F) \in Int
<1>1. c \in DOMAIN G /\ DOMAIN F = DOMAIN G \ {c}
  OBVIOUS
<1>2. SumFunction(F) \in Int /\ IsFiniteSet(DOMAIN G) /\ \A x \in DOMAIN G : G[x] \in Int
  BY FilesFacts
<1>5. \A y \in DOMAIN F : F[y] = G[y]
  OBVIOUS
<1>3. SumFunction(G) = G[c] + SumFunction(F)
  BY ONLY <1>1, <1>2, <1>5, SumRemove
<1>4. IsFiniteSet(DOMAIN F) /\ Cardinality(DOMAIN F) \in Int
  BY FilesFacts
<1> QED
  BY <1>2, <1>3, <1>4, FS_AddElement

(* When a file more is there and awaited, or not there and not awaited     *)
(* any more, the balance stays.                                            *)
LEMMA AddBalance ==
  ASSUME NEW r \in Record, NEW g \in Int, NEW D \in FilesIn, NEW P \in FilesIn, NEW c \in Slots,
         c \notin DOMAIN D, c \notin DOMAIN P, NEW n \in Nat,
         NEW E \in FilesIn, DOMAIN E = DOMAIN D \cup {c}, E[c] = n, \A s \in DOMAIN D : E[s] = D[s],
         NEW Q \in FilesIn, DOMAIN Q = DOMAIN P \cup {c}, Q[c] = n, \A s \in DOMAIN P : Q[s] = P[s],
         Balanced(r, g, D, P)
  PROVE  Balanced(r, g, E, Q)
<1>2. /\ SumFunction(E) = n + SumFunction(D) /\ SumFunction(D) \in Int
      /\ Cardinality(DOMAIN E) = Cardinality(DOMAIN D) + 1 /\ Cardinality(DOMAIN D) \in Int
  BY OneMore
<1>3. /\ SumFunction(Q) = n + SumFunction(P) /\ SumFunction(P) \in Int
      /\ Cardinality(DOMAIN Q) = Cardinality(DOMAIN P) + 1 /\ Cardinality(DOMAIN P) \in Int
  BY OneMore
<1>4. r.numfiles \in Int /\ r.filesize \in Int
  BY DEF Record
<1>5. r.numfiles + Cardinality(DOMAIN Q) = Cardinality(DOMAIN E) + g
  BY <1>2, <1>3, <1>4 DEF Balanced
<1>6. Wrap(r.filesize + SumFunction(Q)) = Wrap(SumFunction(E))
  <2>1. Wrap(r.filesize + SumFunction(P)) = Wrap(SumFunction(D))
    BY DEF Balanced
  <2>2. Wrap((r.filesize + SumFunction(P)) + n) = Wrap(SumFunction(D) + n)
    BY <2>1, <1>2, <1>3, <1>4, WrapAdd
  <2>3. r.filesize + SumFunction(Q) = (r.filesize + SumFunction(P)) + n /\ SumFunction(E) = SumFunction(D) + n
    BY <1>2, <1>3, <1>4
  <2> QED
    BY <2>2, <2>3
<1>7. \A s \in DOMAIN E \ DOMAIN Q : s <= r.last
  BY DEF Balanced
<1> QED
  BY <1>5, <1>6, <1>7 DEF Balanced

(* The files that go with the oldest one removed                           *)
LEMMA UnlinkBalance ==
  ASSUME NEW r \in Record, NEW g \in Int, NEW D \in FilesIn, NEW P \in FilesIn, NEW f \in DOMAIN D,
         NEW E \in FilesIn, DOMAIN E = DOMAIN D \ {f}, \A s \in DOMAIN E : E[s] = D[s],
         NEW Q \in FilesIn, DOMAIN Q = DOMAIN P, \A s \in DOMAIN P : Q[s] = P[s],
         NEW o \in Record, o.numfiles = r.numfiles, o.last = r.last,
         o.filesize = Wrap(r.filesize + SizeModulus - D[f]),
         Balanced(r, g, D, P)
  PROVE  Balanced(o, g + 1, E, Q)
<1>1. SumFunction(Q) = SumFunction(P) /\ SumFunction(P) \in Int
  BY FilesFacts, SumAgrees
<1>2. SumFunction(D) = D[f] + SumFunction(E) /\ SumFunction(E) \in Int /\ SumFunction(D) \in Int
  <2>1. SumFunction(E) \in Int /\ SumFunction(D) \in Int /\ IsFiniteSet(DOMAIN D) /\ \A x \in DOMAIN D : D[x] \in Int
    BY FilesFacts
  <2>2. SumFunction(D) = D[f] + SumFunction(E)
    BY <2>1, SumRemove
  <2> QED
    BY <2>1, <2>2
<1>3. Cardinality(DOMAIN D) = Cardinality(DOMAIN E) + 1 /\ Cardinality(DOMAIN E) \in Int
      /\ Cardinality(DOMAIN D) \in Int
  <2>1. IsFiniteSet(DOMAIN D) /\ Cardinality(DOMAIN D) \in Int /\ Cardinality(DOMAIN E) \in Int
    BY FilesFacts
  <2>2. Cardinality(DOMAIN E) = Cardinality(DOMAIN D) - 1
    BY <2>1, FS_RemoveElement
  <2> QED
    BY <2>1, <2>2
<1>4. r.numfiles \in Int /\ r.filesize \in Int /\ D[f] \in Int /\ SizeModulus \in Int
  BY FilesFacts, ExpireAssumption DEF Record
<1>5. Cardinality(DOMAIN P) \in Int
  BY FilesFacts
<1>6. o.numfiles + Cardinality(DOMAIN Q) = Cardinality(DOMAIN E) + (g + 1)
  BY <1>3, <1>4, <1>5 DEF Balanced
<1>7. Wrap(o.filesize + SumFunction(Q)) = Wrap(SumFunction(E))
  <2> DEFINE a == r.filesize + SumFunction(P)
  <2>1. Wrap(a) = Wrap(SumFunction(D)) /\ a \in Int
    BY <1>1, <1>4 DEF Balanced
  <2> HIDE DEF a
  <2>9. 0 - D[f] \in Int
    BY <1>4
  <2>2. Wrap(a + (0 - D[f])) = Wrap(SumFunction(D) + (0 - D[f]))
    BY ONLY <2>1, <2>9, <1>2, WrapAdd
  <2>3. SumFunction(D) + (0 - D[f]) = SumFunction(E)
    BY <1>2, <1>4
  <2>4. Wrap(a + (0 - D[f])) = Wrap(SumFunction(E))
    BY <2>2, <2>3
  <2> DEFINE b == r.filesize + SizeModulus - D[f]
  <2>5. b \in Int /\ Wrap(o.filesize) = Wrap(b) /\ o.filesize \in Int
    <3>1. b \in Int
      BY <1>4
    <3>2. o.filesize = Wrap(b)
      OBVIOUS
    <3> HIDE DEF b
    <3>3. Wrap(b) \in 0 .. SizeModulus - 1 /\ Wrap(Wrap(b)) = Wrap(b)
      BY <3>1, WrapWrap
    <3> QED
      BY <3>1, <3>2, <3>3, <1>4
  <2>6. Wrap(o.filesize + SumFunction(P)) = Wrap(b + SumFunction(P))
    <3> HIDE DEF b
    <3> QED
      BY <2>5, <1>1, WrapAdd
  <2>7. b + SumFunction(P) = (a + (0 - D[f])) + SizeModulus /\ a + (0 - D[f]) \in Int
    BY <1>1, <1>4 DEF a
  <2>8. Wrap(b + SumFunction(P)) = Wrap(a + (0 - D[f]))
    <3> HIDE DEF b
    <3> QED
      BY <2>7, WrapModulus
  <2> HIDE DEF b
  <2> QED
    BY <2>4, <2>6, <2>8, <1>1
<1>8. \A s \in DOMAIN E \ DOMAIN Q : s <= o.last
  BY DEF Balanced
<1> QED
  BY <1>6, <1>7, <1>8 DEF Balanced

(* A scan, when exactly the files behind it are awaited                    *)
LEMMA ScanBalance ==
  ASSUME NEW r \in Record, NEW D \in FilesIn, NEW P, Good(r), Scan(r, D, P),
         NEW Q, DOMAIN Q = Newer(r, D), \A s \in Newer(r, D) : Q[s] = D[s]
  PROVE  Balanced(r, 0, D, Q) /\ Filled(r, 0, D)
<1> DEFINE N == Newer(r, D)
<1>1. N \in SUBSET DOMAIN D /\ DOMAIN D \in SUBSET Slots /\ DOMAIN D \ N = {s \in DOMAIN D : s <= r.last}
  <2>1. DOMAIN D \subseteq Slots /\ Slots \subseteq Int /\ r.last \in Int
    BY FilesFacts, ExpireAssumption DEF Slots, Record
  <2>2. ASSUME NEW s \in DOMAIN D PROVE ~(s > r.last) <=> s <= r.last
    <3>1. s \in Int /\ r.last \in Int
      BY <2>1
    <3> QED
      BY <3>1
  <2> QED
    BY <2>1, <2>2 DEF Newer
<1>2. Cardinality(DOMAIN D) = Cardinality(N) + Cardinality(DOMAIN D \ N)
      /\ Cardinality(DOMAIN D) \in Int /\ Cardinality(N) \in Int /\ Cardinality(DOMAIN D \ N) \in Int
  <2> HIDE DEF N
  <2> QED
    BY <1>1, CardSplit
<1>3. 0 < r.numfiles /\ r.numfiles + Cardinality(N) = Cardinality(DOMAIN D) /\ r.numfiles \in Int
  BY DEF Scan, Record
<1>4. Filled(r, 0, D)
  <2>1. r.numfiles = Cardinality({s \in DOMAIN D : s <= r.last})
    BY <1>1, <1>2, <1>3
  <2> QED
    BY <2>1, <1>3 DEF Filled
<1>5. SumFunction(Q) = SumFunction(Restrict(D, N))
  <2> DEFINE R == Restrict(D, N)
  <2>1. R = [s \in N |-> D[s]]
    BY DEF Restrict
  <2>2. IsFiniteSet(N)
    BY <1>1, SlotsFinite
  <2> HIDE DEF N, R
  <2>3. IsFiniteSet(DOMAIN R) /\ DOMAIN Q = DOMAIN R /\ \A y \in DOMAIN R : Q[y] = R[y]
    BY <2>1, <2>2 DEF N
  <2> QED
    BY <2>3, SumAgrees DEF R
<1>6. Wrap(r.filesize + SumFunction(Q)) = Wrap(SumFunction(D))
  BY <1>5 DEF Scan
<1>7. \A s \in DOMAIN D \ DOMAIN Q : s <= r.last
  BY <1>1
<1> QED
  BY <1>2, <1>3, <1>4, <1>6, <1>7 DEF Balanced

(* Books taken into a record that stays good are later than it, and it has *)
(* them after that.                                                        *)
LEMMA TakenGood ==
  ASSUME NEW r \in Record, NEW b \in FilesIn, b # NoFiles, NEW o, o = Taken(r, b), Good(o)
  PROVE  /\ Good(r) /\ \A s \in DOMAIN b : s > r.last /\ s <= o.last
         /\ o.last \in Slots /\ o.last > r.last
         /\ o.numfiles = Wrap(r.numfiles + Cardinality(DOMAIN b))
         /\ o.filesize = Wrap(r.filesize + SumFunction(b))
<1> DEFINE m == Min(DOMAIN b)
           x == Max(DOMAIN b)
<1>1. DOMAIN b \in SUBSET Slots /\ DOMAIN b # {} /\ Slots \subseteq Int
  BY FilesFacts, FilesNone, ExpireAssumption DEF Slots
<1>2. m \in DOMAIN b /\ x \in DOMAIN b /\ \A s \in DOMAIN b : m <= s /\ s <= x
  BY <1>1, MinFacts, MaxFacts
<1>3. ~(x <= r.last \/ m <= r.first)
  <2>1. ASSUME x <= r.last \/ m <= r.first PROVE FALSE
    <3>1. o = [r EXCEPT !.rebuild = TRUE]
      BY <2>1 DEF Taken
    <3>2. o.rebuild
      BY <3>1 DEF Record
    <3> QED
      BY <3>2 DEF Good
  <2> QED
    BY <2>1
<1>4. o = [r EXCEPT !.last = x,
                    !.numfiles = Wrap(r.numfiles + Cardinality(DOMAIN b)),
                    !.filesize = Wrap(r.filesize + SumFunction(b)),
                    !.exact = r.exact /\ m > r.last]
  BY <1>3 DEF Taken
<1> HIDE DEF m, x
<1>5. /\ o.last = x /\ o.numfiles = Wrap(r.numfiles + Cardinality(DOMAIN b))
      /\ o.filesize = Wrap(r.filesize + SumFunction(b)) /\ o.exact = (r.exact /\ m > r.last)
      /\ o.rebuild = r.rebuild
  BY <1>4 DEF Record
<1>6. Good(r) /\ m > r.last
  BY <1>5 DEF Good
<1>7. r.last \in Int
  BY ExpireAssumption DEF Record
<1>8. ASSUME NEW s \in DOMAIN b PROVE s > r.last /\ s <= o.last
  <2>1. m \in Int /\ s \in Int /\ m <= s
    BY <1>1, <1>2
  <2> QED
    BY <2>1, <1>2, <1>5, <1>6, <1>7
<1> QED
  BY <1>1, <1>2, <1>5, <1>6, <1>8

LEMMA TakenBad ==
  ASSUME NEW r \in Record, NEW b \in FilesIn, ~Good(r)
  PROVE  ~Good(Taken(r, b))
<1>1. CASE b = NoFiles
  BY <1>1 DEF Taken
<1>2. CASE b # NoFiles
  BY <1>2, TakenGood
<1> QED
  BY <1>1, <1>2

LEMMA TakenFilled ==
  ASSUME NEW r \in Record, NEW b \in FilesIn, b # NoFiles, NEW o, o = Taken(r, b), Good(o),
         NEW D \in FilesIn, \A s \in DOMAIN b \ DOMAIN D : \A t \in DOMAIN D : t > s,
         Filled(r, 0, D)
  PROVE  /\ DOMAIN b \subseteq DOMAIN D /\ Filled(o, 0, D)
         /\ o.numfiles = r.numfiles + Cardinality(DOMAIN b)
<1>1. /\ Good(r) /\ \A s \in DOMAIN b : s > r.last /\ s <= o.last
      /\ o.numfiles = Wrap(r.numfiles + Cardinality(DOMAIN b)) /\ o.last \in Slots /\ o.last > r.last
  BY TakenGood
<1>2. DOMAIN b \in SUBSET Slots /\ DOMAIN D \in SUBSET Slots /\ Slots \subseteq Int
      /\ r.last \in Int /\ r.numfiles \in Int
  BY FilesFacts, ExpireAssumption DEF Slots, Record
<1>3. DOMAIN b \subseteq DOMAIN D
  BY <1>1, <1>2, BooksThere
<1> DEFINE A == {s \in DOMAIN D : s <= r.last}
           E == {s \in DOMAIN D : s <= o.last}
<1>4. E \in SUBSET Slots /\ A \cup DOMAIN b \in SUBSET E /\ DOMAIN b \in SUBSET (A \cup DOMAIN b)
      /\ (A \cup DOMAIN b) \ DOMAIN b = A
  <2>1. ASSUME NEW s \in A PROVE s \in E /\ s \notin DOMAIN b
    <3>1. s \in Int /\ o.last \in Int /\ s <= r.last /\ o.last > r.last
      BY <1>1, <1>2
    <3>2. s <= o.last /\ ~(s > r.last)
      BY <3>1, <1>2
    <3> QED
      BY <3>2, <1>1
  <2>2. \A s \in DOMAIN b : s \in E
    BY <1>1, <1>3
  <2>3. E \in SUBSET Slots
    BY <1>2
  <2> HIDE DEF A, E
  <2> QED
    BY <2>1, <2>2, <2>3
<1>5. 0 < r.numfiles /\ r.numfiles <= Cardinality(A) + 0
  BY <1>1 DEF Filled
<1> HIDE DEF A, E
<1>6. /\ Cardinality(E) = Cardinality(A \cup DOMAIN b) + Cardinality(E \ (A \cup DOMAIN b))
      /\ Cardinality(E) \in 0 .. MaxSlot /\ Cardinality(A \cup DOMAIN b) \in 0 .. MaxSlot
      /\ Cardinality(E \ (A \cup DOMAIN b)) \in 0 .. MaxSlot
  BY <1>4, CardSplit
<1>7. /\ Cardinality(A \cup DOMAIN b) = Cardinality(DOMAIN b) + Cardinality(A)
      /\ Cardinality(DOMAIN b) \in 0 .. MaxSlot /\ Cardinality(A) \in 0 .. MaxSlot
  <2>1. A \cup DOMAIN b \in SUBSET Slots
    BY <1>4
  <2> QED
    BY <2>1, <1>4, CardSplit
<1>8. /\ r.numfiles + Cardinality(DOMAIN b) \in 0 .. SizeModulus - 1
      /\ r.numfiles + Cardinality(DOMAIN b) <= Cardinality(E) + 0
  BY <1>2, <1>5, <1>6, <1>7, ExpireAssumption
<1>9. o.numfiles = r.numfiles + Cardinality(DOMAIN b)
  BY <1>1, <1>8, WrapSmall
<1>10. 0 < o.numfiles /\ o.numfiles <= Cardinality(E) + 0
  BY <1>2, <1>5, <1>7, <1>8, <1>9
<1> QED
  BY <1>3, <1>9, <1>10 DEF Filled, E

LEMMA TakenClaims ==
  ASSUME NEW r \in Record, NEW b \in FilesIn, b # NoFiles, NEW o, o = Taken(r, b), Good(o),
         NEW D \in FilesIn, \A s \in DOMAIN b \ DOMAIN D : \A t \in DOMAIN D : t > s,
         NEW M \in SUBSET Slots, M = {} \/ (\E c : M = {c}), M \cap DOMAIN b = {},
         NEW P, DOMAIN P = DOMAIN b \cup M, \A s \in DOMAIN b : P[s] = b[s], \A s \in M : P[s] = D[s],
         NEW Q, DOMAIN Q = M, \A s \in M : Q[s] = D[s],
         M \subseteq DOMAIN D => P \in FilesIn /\ Q \in FilesIn, NEW C,
         Claims(r, 0, D, P, M, C)
  PROVE  Claims(o, 0, D, Q, M, {})
<1>1. /\ Good(r) /\ \A s \in DOMAIN b : s > r.last /\ s <= o.last
      /\ o.filesize = Wrap(r.filesize + SumFunction(b)) /\ o.last \in Slots /\ o.last > r.last
  BY TakenGood
<1>2. /\ DOMAIN b \subseteq DOMAIN D /\ Filled(o, 0, D)
      /\ o.numfiles = r.numfiles + Cardinality(DOMAIN b)
  BY TakenFilled DEF Claims
<1>3. DOMAIN b \in SUBSET Slots /\ DOMAIN D \in SUBSET Slots /\ Slots \subseteq Int /\ r.last \in Int
      /\ r.numfiles \in Int /\ r.filesize \in Int
  BY FilesFacts, ExpireAssumption DEF Slots, Record
<1>4. ASSUME Fresh(o, D, Q, M) PROVE Balanced(o, 0, D, Q)
  <2>1. M \subseteq DOMAIN D /\ \A s \in M : s > o.last
    BY <1>4 DEF Fresh
  <2>2. \A s \in DOMAIN P : s > r.last
    <3>1. ASSUME NEW s \in M PROVE s > r.last
      <4>1. s \in Int /\ o.last \in Int /\ s > o.last /\ o.last > r.last
        BY <1>1, <1>3, <2>1
      <4> QED
        BY <4>1, <1>3
    <3> QED
      BY <3>1, <1>1
  <2>3. Balanced(r, 0, D, P)
    BY <1>1, <2>1, <2>2 DEF Claims, Fresh
  <2>4. Q \in FilesIn /\ P \in FilesIn /\ DOMAIN Q = M /\ DOMAIN P = DOMAIN b \cup M
    BY <2>1
  <2>5. /\ SumFunction(P) = SumFunction(b) + SumFunction(Q) /\ SumFunction(b) \in Int /\ SumFunction(Q) \in Int
        /\ Cardinality(DOMAIN P) = Cardinality(DOMAIN b) + Cardinality(DOMAIN Q)
        /\ Cardinality(DOMAIN b) \in Int /\ Cardinality(DOMAIN Q) \in Int
    <3>1. CASE M = {}
      <4>1. SumFunction(Q) = 0 /\ Cardinality(DOMAIN Q) = 0
        BY <3>1, <2>4, SumOfNone, FS_EmptySet
      <4>2. DOMAIN P = DOMAIN b /\ \A s \in DOMAIN b : P[s] = b[s]
        BY <3>1, <2>4
      <4>3. IsFiniteSet(DOMAIN b) /\ SumFunction(b) \in Int /\ Cardinality(DOMAIN b) \in Int
        BY FilesFacts
      <4>4. SumFunction(P) = SumFunction(b)
        BY <4>2, <4>3, SumAgrees
      <4> QED
        BY <4>1, <4>2, <4>3, <4>4
    <3>2. CASE M # {}
      <4>1. PICK c : M = {c}
        BY <3>2
      <4>2. c \notin DOMAIN b /\ DOMAIN P = DOMAIN b \cup {c} /\ \A s \in DOMAIN b : P[s] = b[s]
        BY <4>1, <2>4
      <4>3. /\ SumFunction(P) = P[c] + SumFunction(b) /\ SumFunction(b) \in Int
            /\ Cardinality(DOMAIN P) = Cardinality(DOMAIN b) + 1 /\ Cardinality(DOMAIN b) \in Int
        BY <4>2, <2>4, OneMore
      <4>4. /\ SumFunction(Q) = Q[c] + SumFunction(NoFiles)
            /\ Cardinality(DOMAIN Q) = Cardinality(DOMAIN NoFiles) + 1
        <5>1. c \notin DOMAIN NoFiles /\ DOMAIN Q = DOMAIN NoFiles \cup {c} /\ NoFiles \in FilesIn
              /\ \A s \in DOMAIN NoFiles : Q[s] = NoFiles[s]
          BY <4>1, <2>4, NoFilesFacts
        <5> QED
          BY ONLY <5>1, <2>4, OneMore
      <4>5. SumFunction(NoFiles) = 0 /\ Cardinality(DOMAIN NoFiles) = 0
        BY NoFilesFacts, SumOfNone, FS_EmptySet
      <4>6. Q[c] = P[c] /\ Q[c] \in Int
        BY <4>1, <2>4, FilesFacts
      <4> QED
        BY ONLY <4>3, <4>4, <4>5, <4>6
    <3> QED
      BY <3>1, <3>2
  <2>6. o.numfiles + Cardinality(DOMAIN Q) = Cardinality(DOMAIN D) + 0
    <3>1. r.numfiles + Cardinality(DOMAIN P) = Cardinality(DOMAIN D) + 0
      BY <2>3 DEF Balanced
    <3> QED
      BY <3>1, <2>5, <1>2, <1>3
  <2>7. Wrap(o.filesize + SumFunction(Q)) = Wrap(SumFunction(D))
    <3> DEFINE a == r.filesize + SumFunction(b)
    <3>1. a \in Int
      BY <1>3, <2>5
    <3>2. Wrap(a) \in 0 .. SizeModulus - 1 /\ Wrap(Wrap(a)) = Wrap(a) /\ o.filesize = Wrap(a)
      BY <3>1, <1>1, WrapWrap
    <3>3. r.filesize + SumFunction(P) = a + SumFunction(Q)
      BY <2>5, <1>3
    <3> HIDE DEF a
    <3>4. o.filesize \in Int /\ Wrap(o.filesize) = Wrap(a)
      BY <3>2, ExpireAssumption
    <3>5. Wrap(o.filesize + SumFunction(Q)) = Wrap(a + SumFunction(Q))
      BY ONLY <3>1, <3>4, <2>5, WrapAdd
    <3>6. Wrap(r.filesize + SumFunction(P)) = Wrap(SumFunction(D))
      BY <2>3 DEF Balanced
    <3> QED
      BY <3>3, <3>5, <3>6
  <2>8. ASSUME NEW s \in DOMAIN D \ DOMAIN Q PROVE s <= o.last
    <3>1. CASE s \in DOMAIN b
      BY <3>1, <1>1
    <3>2. CASE s \notin DOMAIN b
      <4>1. s <= r.last
        BY <3>2, <2>3, <2>4 DEF Balanced
      <4>2. s \in Int /\ o.last \in Int
        BY <1>1, <1>3
      <4> QED
        BY <4>1, <4>2, <1>1, <1>3
    <3> QED
      BY <3>1, <3>2
  <2> QED
    BY <2>6, <2>7, <2>8 DEF Balanced
<1> QED
  BY <1>2, <1>4 DEF Claims

-------------------------------------------------------------------------------
(* The steps of an expirer: what they share                                *)

LEMMA Frame ==
  ASSUME UNCHANGED <<dir, booked, phase, clock>>
  PROVE  Pending' = Pending /\ Moved' = Moved /\ Closed' = Closed /\ Awaited' = Awaited
<1>1. Moved' = Moved
  BY DEF Moved
<1>2. Awaited' = Awaited
  BY <1>1 DEF Awaited
<1> QED
  BY <1>1, <1>2 DEF Pending, Closed

LEMMA PendingFiles ==
  ASSUME dir \in FilesIn, booked \in FilesIn, clock \in Slots
  PROVE  /\ DOMAIN Pending = Awaited /\ Awaited \subseteq Slots /\ Moved \subseteq Slots
         /\ Moved \subseteq DOMAIN dir => Pending \in FilesIn
<1>1. DOMAIN Pending = Awaited /\ Awaited \in SUBSET Slots /\ Moved \subseteq Slots
  BY FilesFacts DEF Pending, Awaited, Moved
<1>2. ASSUME Moved \subseteq DOMAIN dir PROVE Pending \in [Awaited -> Nat]
  <2>1. \A s \in Awaited : s \in Moved \/ s \in DOMAIN booked
    BY DEF Awaited
  <2> QED
    BY <1>2, <2>1, FilesFacts DEF Pending
<1> QED
  BY <1>1, <1>2, FilesAre

LEMMA PendingFilesNext ==
  ASSUME dir' \in FilesIn, booked' \in FilesIn, clock' \in Slots
  PROVE  /\ DOMAIN Pending' = Awaited' /\ Awaited' \subseteq Slots /\ Moved' \subseteq Slots
         /\ Moved' \subseteq DOMAIN dir' => Pending' \in FilesIn
<1>1. DOMAIN Pending' = Awaited' /\ Awaited' \in SUBSET Slots /\ Moved' \subseteq Slots
  BY FilesFacts DEF Pending, Awaited, Moved
<1>2. ASSUME Moved' \subseteq DOMAIN dir' PROVE Pending' \in [Awaited' -> Nat]
  <2>1. \A s \in Awaited' : s \in Moved' \/ s \in DOMAIN booked'
    BY DEF Awaited
  <2> QED
    BY <1>2, <2>1, FilesFacts DEF Pending
<1> QED
  BY <1>1, <1>2, FilesAre

(* nofiles is set by a scan that finds nothing, and nothing is written then *)
LEMMA NoFilesSeen ==
  ASSUME Types, NEW p \in Expirers, Expirer(p)
  PROVE  /\ job'[p].nofiles => job[p].nofiles \/ (pc[p] = "scan" /\ dir = NoFiles)
         /\ pc'[p] = "quit" => job'[p].nofiles
         /\ pc'[p] = "reopen" => ~job'[p].nofiles
         /\ pc'[p] # "lock" /\ (pc'[p] = "relock" => pc[p] = "reopen" /\ job'[p] = job[p])
         /\ pc'[p] = "idle" => ~job'[p].nofiles
<1> USE DEF Types, RunTypes
<1>1. job[p] \in Jobs /\ p \in DOMAIN job /\ p \in DOMAIN pc /\ (p = "launcher" \/ p = "nfexpire")
  BY ExpirerNames
<1>2. CASE LockStat(p)
  <2>1. PICK r : /\ pc[p] = "lock"
                 /\ \E j : /\ j = [job[p] EXCEPT !.rescan = r.rebuild \/ job[p].mode = "rescan",
                                                 !.attached = IF segment THEN "yes" ELSE "no"]
                           /\ job' = [job EXCEPT ![p] = j]
                           /\ Go(p, AfterLock(p, j))
    BY <1>2 DEF LockStat
  <2>2. PICK j : /\ j = [job[p] EXCEPT !.rescan = r.rebuild \/ job[p].mode = "rescan",
                                       !.attached = IF segment THEN "yes" ELSE "no"]
                 /\ job' = [job EXCEPT ![p] = j]
                 /\ Go(p, AfterLock(p, j))
    BY <2>1
  <2>3. j.nofiles = job[p].nofiles /\ job'[p] = j /\ pc'[p] = AfterLock(p, j)
    BY <1>1, <2>2 DEF Go, Jobs
  <2> QED
    BY <2>3 DEF AfterLock, Act, Written
<1>3. CASE TakeBooks(p)
  <2>1. PICK r : \E j : /\ j = [job[p] EXCEPT !.rescan = @ \/ r.rebuild, !.dirty = TRUE]
                        /\ job' = [job EXCEPT ![p] = j]
                        /\ Go(p, IF p = "launcher" THEN IF Limited(r) THEN "expire" ELSE "truncate"
                                 ELSE IF j.rescan THEN "sequence" ELSE Act(j))
    BY <1>3 DEF TakeBooks
  <2>2. PICK j : /\ j = [job[p] EXCEPT !.rescan = @ \/ r.rebuild, !.dirty = TRUE]
                 /\ job' = [job EXCEPT ![p] = j]
                 /\ Go(p, IF p = "launcher" THEN IF Limited(r) THEN "expire" ELSE "truncate"
                          ELSE IF j.rescan THEN "sequence" ELSE Act(j))
    BY <2>1
  <2>3. j.nofiles = job[p].nofiles /\ job'[p] = j
        /\ pc'[p] \in {"expire", "truncate", "sequence", Act(j)}
    BY <1>1, <2>2 DEF Go, Jobs
  <2> QED
    BY <2>3 DEF Act, Written
<1>4. CASE KeepSequence(p) \/ CompareSequence(p)
  <2>1. pc'[p] \in {"scan", "again", "sequence"} /\ job'[p].nofiles = job[p].nofiles
    BY <1>1, <1>4 DEF KeepSequence, CompareSequence, Go, Jobs
  <2> QED
    BY <2>1
<1>5. CASE RescanDir(p)
  <2>1. /\ pc[p] = "scan" /\ pc'[p] \in {"clear", "compare"}
        /\ job'[p].nofiles = (job[p].nofiles \/ dir = NoFiles)
    BY <1>1, <1>5 DEF RescanDir, Go, Jobs
  <2> QED
    BY <2>1
<1>6. CASE CompareAgain(p)
  <2>1. pc'[p] \in {"clear", Written(job[p])} /\ job'[p].nofiles = job[p].nofiles
    BY <1>1, <1>6 DEF CompareAgain, Go, Jobs
  <2> QED
    BY <2>1 DEF Written
<1>7. CASE ClearBooks(p)
  <2>1. pc'[p] \in {"take", "expire", "truncate", Act(job[p])} /\ job'[p].nofiles = job[p].nofiles
    BY <1>1, <1>7 DEF ClearBooks, Go, Jobs
  <2> QED
    BY <2>1 DEF Act, Written
<1>8. CASE StartExpire(p)
  <2>1. pc'[p] = "unlink" /\ job'[p].nofiles = job[p].nofiles
    BY <1>1, <1>8 DEF StartExpire, Go, Jobs
  <2> QED
    BY <2>1
<1>9. CASE Unlink(p)
  <2>1. pc'[p] \in {"unlink", "tally"} /\ job'[p].nofiles = job[p].nofiles
    BY <1>1, <1>9 DEF Unlink, Go, Jobs
  <2> QED
    BY <2>1
<1>10. CASE KeepFile(p)
  <2>1. pc'[p] = "tally" /\ job'[p].nofiles = job[p].nofiles
    BY <1>1, <1>10 DEF KeepFile, Go
  <2> QED
    BY <2>1
<1>11. CASE Tally(p)
  <2>1. pc'[p] \in {"truncate", Written(job[p])} /\ job'[p].nofiles = job[p].nofiles
    BY <1>1, <1>11 DEF Tally, Go, Jobs
  <2> QED
    BY <2>1 DEF Written
<1>12. CASE SetLimits(p)
  BY <1>12, SetLimitsEffect
<1>13. CASE TruncateStat(p) \/ ReopenStat(p)
  BY <1>13, TornStatEffect
<1>14. CASE WriteStat(p)
  <2>1. \/ pc'[p] = "reopen" /\ job' = job /\ ~job[p].nofiles
        \/ Quit(p)
    BY <1>1, <1>14 DEF WriteStat, Go
  <2> QED
    BY <2>1, QuitTypes DEF NoJob
<1>15. CASE RelockStat(p)
  BY <1>15, RelockStatEffect
<1>16. CASE LeaveStat(p)
  <2>1. pc'[p] = "idle" /\ job'[p] = NoJob
    BY <1>16, LeaveStatEffect
  <2> QED
    BY <2>1 DEF NoJob
<1> QED
  BY <1>2, <1>3, <1>4, <1>5, <1>6, <1>7, <1>8, <1>9, <1>10, <1>11, <1>12, <1>13, <1>14, <1>15, <1>16
  DEF Expirer

(* what happens to the record on disk                                      *)
LEMMA ExpirerStat ==
  ASSUME Types, NEW p \in Expirers, Expirer(p)
  PROVE  \/ stat' = stat
         \/ stat'.rec = Torn(NoLimits)
         \/ pc[p] \in {"write", "overwrite"} /\ stat'.rec = rec[p] /\ pc'[p] \in {"idle", "reopen"}
<1>1. CASE TruncateStat(p) \/ ReopenStat(p)
  BY <1>1, TornStatEffect
<1>2. CASE WriteStat(p)
  BY <1>2, WriteStatEffect
<1>3. CASE ~(TruncateStat(p) \/ ReopenStat(p) \/ WriteStat(p))
  BY <1>3 DEF Expirer, LockStat, TakeBooks, KeepSequence, RescanDir, CompareSequence, CompareAgain,
    ClearBooks, StartExpire, Unlink, KeepFile, Tally, SetLimits, RelockStat, LeaveStat, disk
<1> QED
  BY <1>1, <1>2, <1>3

LEMMA TornBad == ~Good(Torn(NoLimits))
BY TornNone DEF Good

LEMMA NoFilesUnfilled ==
  ASSUME NEW r \in Record, NEW D \in FilesIn, D = NoFiles, Filled(r, 0, D)
  PROVE  ~Good(r)
<1>1. {s \in DOMAIN D : s <= r.last} = {}
  BY NoFilesFacts
<1>2. Good(r) => 0 < r.numfiles /\ r.numfiles <= 0 + 0
  BY <1>1, FS_EmptySet DEF Filled
<1> QED
  BY <1>2 DEF Record

LEMMA ExpirerLeft ==
  ASSUME Base, Kept, NEW p \in Expirers, Expirer(p)
  PROVE  StatLeft(p)'
<1>1. Types /\ LockHeld /\ StatLeft(p) /\ StatFilled
  BY DEF Base, Kept, Working
<1>2. /\ job'[p].nofiles => job[p].nofiles \/ (pc[p] = "scan" /\ dir = NoFiles)
      /\ pc'[p] = "quit" => job'[p].nofiles
      /\ pc'[p] = "reopen" => ~job'[p].nofiles
      /\ pc'[p] # "lock" /\ (pc'[p] = "relock" => pc[p] = "reopen" /\ job'[p] = job[p])
      /\ pc'[p] = "idle" => ~job'[p].nofiles
  BY <1>1, NoFilesSeen
<1>3. ASSUME job'[p].nofiles PROVE ~Good(stat.rec)
  <2>1. CASE job[p].nofiles
    BY <1>1, <2>1 DEF StatLeft
  <2>2. CASE pc[p] = "scan" /\ dir = NoFiles
    <3>1. lock = p
      BY <1>1, <2>2, Holder
    <3>2. Filled(stat.rec, 0, dir)
      BY <1>1, <2>2, <3>1 DEF StatFilled, Early
    <3> QED
      BY <1>1, <2>2, <3>2, NoFilesUnfilled DEF Types, DiskTypes
  <2> QED
    BY <1>2, <1>3, <2>1, <2>2
<1>4. ASSUME job'[p].nofiles PROVE ~Good(stat'.rec)
  <2>1. CASE stat' = stat
    BY <1>3, <1>4, <2>1
  <2>2. CASE stat'.rec = Torn(NoLimits)
    BY <2>2, TornBad
  <2>3. CASE pc'[p] \in {"idle", "reopen"}
    BY <1>2, <1>4, <2>3
  <2> QED
    BY <1>1, <2>1, <2>2, <2>3, ExpirerStat
<1>5. ASSUME job'[p].nofiles PROVE pc'[p] \notin {"idle", "lock", "reopen", "relock"}
  <2>1. pc[p] = "reopen" => ~job[p].nofiles
    BY <1>1 DEF StatLeft
  <2> QED
    BY <1>2, <1>5, <2>1
<1> QED
  BY <1>2, <1>4, <1>5 DEF StatLeft

(* What is kept of an expirer that holds no record it may still count on   *)
LEMMA AwayKept ==
  ASSUME NEW q \in Expirers, pc'[q] \in {"idle", "lock", "reopen", "relock"},
         pc'[q] \in {"reopen", "relock"} => ~Good(rec'[q]), ~job'[q].nofiles
  PROVE  Working(q)'
<1>1. StatLeft(q)' /\ ScanKept(q)' /\ OrphanKept(q)' /\ WalkKept(q)' /\ ClosedFor(q)'
  BY DEF StatLeft, ScanKept, OrphanKept, WalkKept, ClosedFor, Comparing
<1>2. RecKept(q)'
  BY BadRecord DEF RecKept, Counting, Accounts
<1> QED
  BY <1>1, <1>2 DEF Working

(* All steps but three are steps of who holds the lock.                    *)
LEMMA AtWork ==
  ASSUME Types, NEW p \in Expirers, Expirer(p), ~LockStat(p), ~ReopenStat(p), ~RelockStat(p)
  PROVE  pc[p] \notin {"idle", "lock", "reopen", "relock"} /\ Others(p)
<1>1. CASE TruncateStat(p)
  <2>1. Others(p)
    BY <1>1, TornStatEffect
  <2> QED
    BY <1>1, <2>1 DEF TruncateStat
<1>2. CASE ~TruncateStat(p)
  BY <1>2, TakeBooksEffect, KeepSequenceEffect, RescanDirEffect, CompareSequenceEffect,
     CompareAgainEffect, ClearBooksEffect, StartExpireEffect, UnlinkEffect, KeepFileEffect, TallyEffect,
     SetLimitsEffect, WriteStatEffect, LeaveStatEffect DEF Expirer
<1> QED
  BY <1>1, <1>2

LEMMA OtherKept ==
  ASSUME Base, Kept, NEW p \in Expirers, Expirer(p), NEW q \in Expirers, q # p
  PROVE  Working(q)'
<1>1. Types /\ LockHeld /\ Stages /\ Working(q) /\ q # "none" /\ p # "none" /\ q \in Procs
      /\ UNCHANGED <<phase, clock>> /\ rec \in [Procs -> Record]
  BY ExpirerPlace, Processes DEF Base, Kept, Place, Types, RunTypes
<1>2. CASE ReopenStat(p) \/ TruncateStat(p)
  <2>1. /\ UNCHANGED <<dir, booked, orphan, changed, rec>> /\ pc'[q] = pc[q] /\ job'[q] = job[q]
        /\ ~Good(stat'.rec)
    BY <1>1, <1>2, TornStatEffect, TornBad DEF Others
  <2>2. Pending' = Pending /\ Moved' = Moved /\ Closed' = Closed
    BY <1>1, <2>1, Frame
  <2> QED
    BY <1>1, <2>1, <2>2
    DEF Working, StatLeft, RecKept, ScanKept, Covered, OrphanKept, WalkKept, ClosedFor, Accounts
<1>3. CASE ~(ReopenStat(p) \/ TruncateStat(p))
  <2>1. /\ pc'[q] = pc[q] /\ job'[q] = job[q] /\ Doubted(rec'[q], rec[q])
        /\ lock \in {p, "none"} /\ (LockStat(p) => rec'[q] = Stale[q]) /\ (~LockStat(p) => rec'[q] = rec[q])
    <3>1. CASE LockStat(p)
      BY <1>1, <3>1, LockStatEffect, StaleDoubts
    <3>2. CASE RelockStat(p)
      BY <1>1, <3>2, RelockStatEffect DEF Doubted, LockStat, Others
    <3>3. CASE ~(LockStat(p) \/ RelockStat(p))
      <4>1. Others(p) /\ pc[p] \notin {"idle", "lock", "reopen", "relock"}
        BY <1>1, <1>3, <3>3, AtWork
      <4> QED
        BY <1>1, <3>3, <4>1, Holder DEF Others, Doubted
    <3> QED
      BY <3>1, <3>2, <3>3
  <2>2. pc[q] \in {"idle", "lock", "reopen", "relock"}
    BY <1>1, <2>1 DEF LockHeld
  <2>3. ~job[q].nofiles
    BY <1>1, <2>2 DEF Working, StatLeft
  <2>4. ASSUME pc[q] \in {"reopen", "relock"} PROVE ~Good(rec'[q])
    <3>1. q = "nfexpire"
      BY <1>1, <2>4, ExpirerNames DEF Stages
    <3>2. CASE LockStat(p)
      BY <1>1, <2>1, <2>4, <3>1, <3>2, StaleTypes DEF Good
    <3>3. CASE RelockStat(p)
      BY <1>1, <3>1, <3>3, ExpirerNames, RelockStatEffect DEF Stages
    <3>4. CASE ~(LockStat(p) \/ RelockStat(p))
      <4>1. lock = p
        <5>1. pc[p] \notin {"idle", "lock", "reopen", "relock"}
          BY <1>1, <1>3, <3>4, AtWork
        <5> QED
          BY <1>1, <5>1, Holder
      <4>2. ~rec["nfexpire"].exact
        BY <1>1, <2>4, <3>1, <4>1 DEF Stages
      <4> QED
        BY <2>1, <3>1, <3>4, <4>2 DEF Good
    <3> QED
      BY <3>2, <3>3, <3>4
  <2> QED
    BY <2>1, <2>2, <2>3, <2>4, AwayKept
<1> QED
  BY <1>2, <1>3

LEMMA LockStatClosed ==
  ASSUME Types, NEW p \in Expirers, LockStat(p), segment
  PROVE  job'[p].attached = "yes" /\ (p = "nfexpire" => pc'[p] \notin {"scan", "compare", "again"})
<1> USE DEF Types, RunTypes
<1>1. job[p] \in Jobs /\ p \in DOMAIN job /\ p \in DOMAIN pc
  OBVIOUS
<1>2. PICK r : \E j : /\ j = [job[p] EXCEPT !.rescan = r.rebuild \/ job[p].mode = "rescan",
                                            !.attached = IF segment THEN "yes" ELSE "no"]
                      /\ job' = [job EXCEPT ![p] = j]
                      /\ Go(p, AfterLock(p, j))
  BY DEF LockStat
<1>3. PICK j : /\ j = [job[p] EXCEPT !.rescan = r.rebuild \/ job[p].mode = "rescan",
                                     !.attached = IF segment THEN "yes" ELSE "no"]
               /\ job' = [job EXCEPT ![p] = j]
               /\ Go(p, AfterLock(p, j))
  BY <1>2
<1>4. j.attached = "yes" /\ job'[p] = j /\ pc'[p] = AfterLock(p, j)
  BY <1>1, <1>3 DEF Go, Jobs
<1> QED
  BY <1>4 DEF AfterLock, Act, Written

LEMMA ExpirerClosed ==
  ASSUME Base, Kept, NEW p \in Expirers, Expirer(p)
  PROVE  ClosedFor(p)'
<1>1. Types /\ Sessions /\ ClosedFor(p) /\ SegmentKept /\ UNCHANGED <<phase, segment>>
  BY ExpirerPlace DEF Base, Kept, Place, Working
<1> USE DEF ClosedFor
<1> SUFFICES ASSUME phase = "released",
                    pc'[p] \notin {"idle", "lock", "reopen", "relock", "overwrite"}
             PROVE  job'[p].attached = "yes" /\ (pc'[p] \in {"scan", "compare", "again"} => ~changed')
  BY <1>1
<1>2. CASE LockStat(p)
  <2>1. segment /\ p # "launcher"
    BY <1>1, <1>2 DEF SegmentKept, Sessions, LockStat
  <2> QED
    BY <1>1, <1>2, <2>1, ExpirerNames, LockStatClosed
<1>3. CASE TakeBooks(p)
  BY <1>1, <1>3, TakeBooksEffect DEF Locals
<1>4. CASE KeepSequence(p)
  <2>1. ~changed'
    BY <1>4 DEF KeepSequence
  <2> QED
    BY <1>1, <1>4, <2>1, KeepSequenceEffect
<1>5. CASE RescanDir(p)
  BY <1>1, <1>5, RescanDirEffect DEF Locals
<1>6. CASE CompareSequence(p)
  BY <1>1, <1>6, CompareSequenceEffect DEF Locals
<1>7. CASE CompareAgain(p)
  BY <1>1, <1>7, CompareAgainEffect
<1>8. CASE ClearBooks(p)
  BY <1>1, <1>8, ClearBooksEffect DEF Locals
<1>9. CASE StartExpire(p)
  BY <1>1, <1>9, StartExpireEffect
<1>10. CASE Unlink(p)
  BY <1>1, <1>10, UnlinkEffect
<1>11. CASE KeepFile(p)
  BY <1>1, <1>11, KeepFileEffect
<1>12. CASE Tally(p)
  BY <1>1, <1>12, TallyEffect
<1>13. CASE SetLimits(p)
  BY <1>1, <1>13, SetLimitsEffect
<1>14. CASE TruncateStat(p) \/ ReopenStat(p)
  BY <1>1, <1>14, TornStatEffect
<1>15. CASE WriteStat(p)
  BY <1>15, WriteStatEffect, <1>1
<1>16. CASE RelockStat(p)
  BY <1>16, RelockStatEffect, <1>1
<1>17. CASE LeaveStat(p)
  BY <1>17, LeaveStatEffect, <1>1
<1> QED
  BY <1>2, <1>3, <1>4, <1>5, <1>6, <1>7, <1>8, <1>9, <1>10, <1>11, <1>12, <1>13, <1>14, <1>15, <1>16,
     <1>17 DEF Expirer

LEMMA ExpirerFinal ==
  ASSUME Base, Kept, NEW p \in Expirers, Expirer(p)
  PROVE  FinalKept' /\ SegmentKept'
<1>1. Types /\ LockHeld /\ FinalKept /\ SegmentKept /\ UNCHANGED <<phase, segment>> /\ p # "collector"
  BY ExpirerPlace, Processes DEF Base, Kept, Place
<1>2. SegmentKept'
  BY <1>1 DEF SegmentKept
<1>3. ASSUME phase \in {"truncate", "write"}
      PROVE UNCHANGED <<dir, booked>> /\ rec'["collector"] = rec["collector"]
  <2>1. lock = "collector" /\ pc[p] \in {"idle", "lock", "reopen", "relock"}
    BY <1>1, <1>3 DEF LockHeld
  <2>2. ReopenStat(p)
    <3>1. ~LockStat(p) /\ ~RelockStat(p)
      BY <2>1 DEF LockStat, RelockStat
    <3> QED
      BY <1>1, <2>1, <3>1, AtWork
  <2> QED
    BY <1>1, <2>2, TornStatEffect
<1>4. FinalKept'
  <2>1. CASE phase \in {"truncate", "write"}
    BY <1>1, <1>3, <2>1 DEF FinalKept
  <2>2. CASE phase \notin {"truncate", "write"}
    BY <1>1, <2>2 DEF FinalKept
  <2> QED
    BY <2>1, <2>2
<1> QED
  BY <1>2, <1>4

-------------------------------------------------------------------------------
(* The record an expirer works on, and the one on disk, step by step       *)

OwnKept(p) == RecKept(p) /\ ScanKept(p) /\ OrphanKept(p) /\ WalkKept(p)

(* Claims of the next state                                                *)
Ahead(r, g) == Claims(r, g, dir', Pending', Moved', Closed')

LEMMA SameAhead ==
  ASSUME UNCHANGED <<dir, booked, phase, clock>>, NEW r, NEW o, NEW g, Follows(r, o), Accounts(o, g)
  PROVE  Ahead(r, g)
BY Frame, FollowsFacts DEF Accounts, Ahead

LEMMA OwnFacts ==
  ASSUME Base, Kept, NEW p \in Expirers, pc[p] \notin {"idle", "lock", "reopen", "relock"}
  PROVE  /\ Types /\ LockHeld /\ lock = p /\ rec[p] \in Record /\ StatKept /\ StatFilled
         /\ (pc[p] \notin {"unlink", "tally"} => job[p].expired = 0) /\ Sizes /\ Stages
         /\ RecKept(p) /\ ScanKept(p) /\ OrphanKept(p) /\ WalkKept(p) /\ ClosedFor(p)
BY Holder, Processes DEF Base, Kept, Types, RunTypes, Stages, Working

(* the record on disk, while it is not touched                             *)
LEMMA StatSame ==
  ASSUME StatKept, StatFilled, NEW p \in Expirers, lock = p, lock' = p, stat' = stat,
         UNCHANGED <<dir, booked, phase, clock>>, job'[p].dirty = job[p].dirty,
         pc[p] \in Early \/ pc'[p] \notin Early
  PROVE  StatKept' /\ StatFilled'
<1>1. ASSUME ~job[p].dirty PROVE Accounts(stat.rec, 0)
  BY <1>1 DEF StatKept
<1>2. ASSUME ~job[p].dirty \/ pc[p] \in Early PROVE Filled(stat.rec, 0, dir)
  BY <1>2 DEF StatFilled
<1>3. Pending' = Pending /\ Moved' = Moved /\ Closed' = Closed
  BY Frame
<1>4. StatKept'
  BY <1>1, <1>3 DEF StatKept, Accounts
<1>5. StatFilled'
  BY <1>2 DEF StatFilled
<1> QED
  BY <1>4, <1>5

(* ... and when who holds the lock has changed what it counts              *)
LEMMA StatDirty ==
  ASSUME NEW p \in Expirers, lock' = p, job'[p].dirty, pc'[p] \notin Early
  PROVE  StatKept' /\ StatFilled'
BY DEF StatKept, StatFilled

LEMMA KeepSequenceKept ==
  ASSUME Base, Kept, NEW p \in Expirers, KeepSequence(p)
  PROVE  OwnKept(p)' /\ StatKept' /\ StatFilled'
<1>1. pc[p] = "sequence"
  BY DEF KeepSequence
<1>2. Types /\ lock = p /\ StatKept /\ StatFilled
  BY <1>1, OwnFacts
<1>3. /\ UNCHANGED <<dir, stat, lock, booked, phase, clock>> /\ job'[p] = job[p] /\ pc'[p] = "scan"
  BY <1>2, KeepSequenceEffect DEF KeepSequence, owner
<1>4. OwnKept(p)'
  BY <1>3 DEF OwnKept, RecKept, ScanKept, OrphanKept, WalkKept, Counting, Comparing
<1> QED
  BY <1>1, <1>2, <1>3, <1>4, StatSame DEF Early

LEMMA RescanDirKept ==
  ASSUME Base, Kept, NEW p \in Expirers, RescanDir(p)
  PROVE  OwnKept(p)' /\ StatKept' /\ StatFilled'
<1>1. pc[p] = "scan"
  BY DEF RescanDir
<1>2. Types /\ lock = p /\ StatKept /\ StatFilled /\ Sizes /\ rec[p] \in Record
  BY <1>1, OwnFacts
<1>3. /\ UNCHANGED <<dir, stat, lock, booked, phase, clock>> /\ job'[p].dirty = job[p].dirty
      /\ rec'[p] = Scanned(rec[p]) /\ pc'[p] \in {"clear", "compare"}
  BY <1>2, RescanDirEffect DEF RescanDir, owner
<1>4. Pending' = Pending
  BY <1>3, Frame
<1> DEFINE o == Scanned(rec[p])
<1>5. Scan(o, dir, Pending) /\ (Good(o) => \A s \in DOMAIN booked : s <= o.last)
  <2>1. CASE dir = NoFiles
    <3>1. o = [rec[p] EXCEPT !.first = clock, !.last = clock, !.numfiles = 0, !.filesize = 0,
                             !.rebuild = TRUE, !.exact = FALSE]
      BY <2>1 DEF Scanned
    <3>2. ~o.exact
      BY <1>2, <3>1 DEF Record
    <3> HIDE DEF o
    <3> QED
      BY <3>2, BadRecord DEF Good
  <2>2. CASE dir # NoFiles
    <3>1. o = [rec[p] EXCEPT !.first = Min(DOMAIN dir), !.last = Max(DOMAIN dir),
                     !.numfiles = Cardinality(DOMAIN dir),
                     !.filesize = Wrap(SumFunction(dir)),
                     !.rebuild = FALSE, !.exact = TRUE]
      BY <2>2 DEF Scanned
    <3> HIDE DEF o
    <3>2. o.last = Max(DOMAIN dir) /\ o.numfiles = Cardinality(DOMAIN dir) /\ o.filesize = Wrap(SumFunction(dir))
      BY <1>2, <3>1 DEF Record
    <3>3. dir \in FilesIn /\ DOMAIN dir \in SUBSET Slots /\ DOMAIN dir # {} /\ Slots \subseteq Int
          /\ SumFunction(dir) \in Int /\ IsFiniteSet(DOMAIN dir) /\ Cardinality(DOMAIN dir) \in Nat
      <4>1. dir \in FilesIn /\ Slots \subseteq Int
        BY <1>2, ExpireAssumption DEF Types, DiskTypes, Slots
      <4>2. DOMAIN dir # {}
        BY <4>1, <2>2, FilesNone
      <4>3. /\ DOMAIN dir \in SUBSET Slots /\ SumFunction(dir) \in Int /\ IsFiniteSet(DOMAIN dir)
            /\ Cardinality(DOMAIN dir) \in 0 .. MaxSlot
        BY <4>1, FilesFacts
      <4> QED
        BY <4>1, <4>2, <4>3
    <3>4. o.last \in DOMAIN dir /\ \A s \in DOMAIN dir : s <= o.last
      BY <3>2, <3>3, MaxFacts
    <3>5. Cardinality(DOMAIN dir) > 0
      BY <3>3, FS_EmptySet
    <3>6. Newer(o, dir) = {}
      <4>1. ASSUME NEW s \in DOMAIN dir PROVE ~(s > o.last)
        <5>1. s \in Int /\ o.last \in Int /\ s <= o.last
          BY <3>3, <3>4
        <5> QED
          BY <5>1
      <4> QED
        BY <4>1 DEF Newer
    <3>7. ASSUME NEW s \in DOMAIN booked \cup Moved PROVE s <= o.last
      <4>1. CASE s \in DOMAIN dir
        BY <4>1, <3>4
      <4>2. CASE s \notin DOMAIN dir
        <5>1. o.last > s
          BY <1>2, <3>4, <4>2, <3>7 DEF Sizes
        <5>2. s \in Int /\ o.last \in Int
          <6>1. clock \in Slots /\ DOMAIN booked \subseteq Slots
            BY <1>2, FilesFacts DEF Types, DiskTypes, BookTypes
          <6> QED
            BY <6>1, <3>3, <3>4, <3>7 DEF Moved
        <5> QED
          BY <5>1, <5>2
      <4> QED
        BY <4>1, <4>2
    <3>8. {s \in DOMAIN Pending : s > o.last} = {}
      <4>1. ASSUME NEW s \in Awaited PROVE ~(s > o.last)
        <5>1. s <= o.last /\ s \in Int /\ o.last \in Int
          <6>1. clock \in Slots /\ DOMAIN booked \subseteq Slots
            BY <1>2, FilesFacts DEF Types, DiskTypes, BookTypes
          <6>2. s \in DOMAIN booked \cup Moved
            BY <4>1 DEF Awaited
          <6> QED
            BY <6>1, <6>2, <3>3, <3>4, <3>7 DEF Moved
        <5> QED
          BY <5>1
      <4>2. DOMAIN Pending = Awaited
        BY DEF Pending
      <4> QED
        BY <4>1, <4>2
    <3>9. Wrap(o.filesize + SumFunction(Restrict(dir, {}))) = Wrap(SumFunction(dir))
      <4>1. SumFunction(Restrict(dir, {})) = 0
        <5>1. DOMAIN Restrict(dir, {}) = {}
          BY DEF Restrict
        <5> QED
          BY <5>1, SumOfNone
      <4>2. Wrap(SumFunction(dir)) \in Int /\ Wrap(Wrap(SumFunction(dir))) = Wrap(SumFunction(dir))
        BY <3>3, WrapWrap
      <4> QED
        BY <4>1, <4>2, <3>2
    <3>10. Scan(o, dir, Pending)
      <4>1. o.numfiles + Cardinality({}) = Cardinality(DOMAIN dir)
        BY <3>2, <3>3, FS_EmptySet
      <4> QED
        BY <4>1, <3>2, <3>4, <3>5, <3>6, <3>8, <3>9 DEF Scan
    <3> QED
      BY <3>7, <3>10
  <2> QED
    BY <2>1, <2>2
<1> HIDE DEF o
<1>6. OwnKept(p)'
  <2>1. rec'[p] = o
    BY <1>3 DEF o
  <2>2. ScanKept(p)'
    BY <1>3, <1>4, <1>5, <2>1 DEF ScanKept, Covered
  <2> QED
    BY <1>3, <2>2 DEF OwnKept, RecKept, OrphanKept, WalkKept, Counting
<1> QED
  BY <1>1, <1>2, <1>3, <1>6, StatSame DEF Early

LEMMA CompareSequenceKept ==
  ASSUME Base, Kept, NEW p \in Expirers, CompareSequence(p)
  PROVE  OwnKept(p)' /\ StatKept' /\ StatFilled'
<1>1. pc[p] = "compare"
  BY DEF CompareSequence
<1>2. Types /\ lock = p /\ StatKept /\ StatFilled /\ ScanKept(p)
  BY <1>1, OwnFacts
<1>3. /\ UNCHANGED <<dir, stat, lock, booked, changed, phase, clock>> /\ job'[p].dirty = job[p].dirty
      /\ rec'[p] = rec[p] /\ pc'[p] \in {"again", "sequence"} /\ job'[p].attached = job[p].attached
  BY <1>2, CompareSequenceEffect DEF CompareSequence, owner, Locals
<1>4. Pending' = Pending
  BY <1>3, Frame
<1>5. OwnKept(p)'
  <2>1. ScanKept(p)'
    BY <1>1, <1>2, <1>3, <1>4 DEF ScanKept, Covered, Comparing
  <2> QED
    BY <1>3, <2>1 DEF OwnKept, RecKept, OrphanKept, WalkKept, Counting
<1> QED
  BY <1>1, <1>2, <1>3, <1>5, StatSame DEF Early

LEMMA CountedFacts ==
  ASSUME NEW r \in Record, NEW S
  PROVE  /\ Follows(Counted(r, S), r) /\ Counted(r, S) \in Record
         /\ Good(Counted(r, S)) => \A s \in S : s > Counted(r, S).last
<1> DEFINE e == r.exact /\ \A s \in S : s > r.last
           o == [r EXCEPT !.exact = e]
<1>1. Counted(r, S) = o
  BY DEF Counted
<1>2. e \in BOOLEAN /\ (e => r.exact /\ \A s \in S : s > r.last)
  BY DEF Record
<1> HIDE DEF e
<1>3. o \in Record
  BY <1>2, InexactRecord
<1>4. o.exact = e /\ o.numfiles = r.numfiles /\ o.filesize = r.filesize /\ o.last = r.last /\ o.rebuild = r.rebuild
  BY DEF Record
<1> HIDE DEF o
<1> QED
  BY <1>1, <1>2, <1>3, <1>4 DEF Follows, Good

(* A record from a scan, when all files behind it, and no others, are      *)
(* awaited from now on                                                     *)
LEMMA ScanClaims ==
  ASSUME NEW r \in Record, NEW o \in Record, Follows(o, r), NEW D \in FilesIn, NEW P, Scan(r, D, P),
         NEW Q, NEW M, NEW C,
         Good(o) => /\ DOMAIN Q = Newer(o, D) /\ (\A s \in Newer(o, D) : Q[s] = D[s])
                    /\ \A s \in C : s <= o.last
  PROVE  Claims(o, 0, D, Q, M, C)
<1>1. CASE Good(o)
  <2>1. Scan(o, D, P)
    BY FollowsFacts
  <2>2. Balanced(o, 0, D, Q) /\ Filled(o, 0, D)
    BY <1>1, <2>1, ScanBalance
  <2> QED
    BY <1>1, <2>2 DEF Claims
<1>2. CASE ~Good(o)
  BY <1>2, BadRecord
<1> QED
  BY <1>1, <1>2

LEMMA CompareAgainKept ==
  ASSUME Base, Kept, NEW p \in Expirers, CompareAgain(p)
  PROVE  OwnKept(p)' /\ StatKept' /\ StatFilled'
<1>1. pc[p] = "again"
  BY DEF CompareAgain
<1>2. /\ Types /\ lock = p /\ StatKept /\ StatFilled /\ ScanKept(p) /\ ClosedFor(p)
      /\ job[p].expired = 0 /\ rec[p] \in Record
  BY <1>1, OwnFacts
<1>3. /\ UNCHANGED <<dir, stat, lock, booked, changed, phase, clock>> /\ job'[p].dirty = job[p].dirty
      /\ job'[p].attached = job[p].attached /\ job'[p].expired = 0
      /\ \/ pc'[p] = "clear" /\ rec'[p] = rec[p] /\ (job[p].attached = "yes" => ~changed)
         \/ /\ pc'[p] \in {"quit", "truncate"} /\ job[p].attached = "yes" /\ changed
            /\ rec'[p] = Counted(rec[p], DOMAIN booked \cup Moved)
  BY <1>2, CompareAgainEffect DEF CompareAgain, owner
<1>4. Pending' = Pending /\ Moved' = Moved /\ Closed' = Closed
  BY <1>3, Frame
<1>5. Scan(rec[p], dir, Pending) /\ Covered(p)
  BY <1>1, <1>2 DEF ScanKept, Comparing
<1>6. CASE pc'[p] = "clear"
  <2>1. ScanKept(p)'
    BY <1>1, <1>3, <1>4, <1>5, <1>6 DEF ScanKept, Covered
  <2> QED
    BY <1>1, <1>2, <1>3, <1>6, <2>1, StatSame
    DEF OwnKept, RecKept, OrphanKept, WalkKept, Counting, Early
<1>7. CASE pc'[p] # "clear"
  <2> DEFINE S == DOMAIN booked \cup Moved
             o == Counted(rec[p], S)
  <2>1. rec'[p] = o /\ pc'[p] \in {"quit", "truncate"} /\ phase # "released"
    BY <1>1, <1>2, <1>3, <1>7 DEF ClosedFor
  <2>2. Follows(o, rec[p]) /\ o \in Record /\ (Good(o) => \A s \in S : s > o.last)
    BY <1>2, CountedFacts
  <2>3. Awaited = S /\ Closed = {} /\ DOMAIN Pending = Awaited
    BY <2>1 DEF Awaited, Closed, Pending
  <2> HIDE DEF S, o
  <2>4. ASSUME Good(o) PROVE DOMAIN Pending = Newer(o, dir) /\ \A s \in Newer(o, dir) : Pending[s] = dir[s]
    <3>1. Scan(o, dir, Pending)
      BY <1>5, <2>2, FollowsFacts
    <3> QED
      BY <3>1, <2>2, <2>3, <2>4 DEF Scan
  <2>5. Claims(o, 0, dir, Pending, Moved, Closed)
    <3>1. dir \in FilesIn
      BY <1>2 DEF Types, DiskTypes
    <3> QED
      BY <1>2, <1>5, <2>2, <2>3, <2>4, <3>1, ScanClaims
  <2>6. RecKept(p)'
    BY <1>3, <1>4, <2>1, <2>5 DEF RecKept, Accounts
  <2> QED
    BY <1>1, <1>2, <1>3, <2>1, <2>6, StatSame
    DEF OwnKept, ScanKept, OrphanKept, WalkKept, Comparing, Early
<1> QED
  BY <1>6, <1>7

LEMMA ClearBooksKept ==
  ASSUME Base, Kept, NEW p \in Expirers, ClearBooks(p)
  PROVE  OwnKept(p)' /\ StatKept' /\ StatFilled'
<1>1. pc[p] = "clear"
  BY DEF ClearBooks
<1>2. /\ Types /\ lock = p /\ StatKept /\ StatFilled /\ ScanKept(p) /\ ClosedFor(p) /\ LockHeld
      /\ job[p].expired = 0 /\ rec[p] \in Record /\ Stages
  BY <1>1, OwnFacts
<1>3. /\ UNCHANGED <<dir, stat, lock, phase, clock>> /\ job'[p].dirty
      /\ job'[p].attached = job[p].attached /\ job'[p].expired = 0
      /\ rec'[p] = Counted(rec[p], DOMAIN booked' \cup Moved)
      /\ booked' = IF job[p].attached = "yes" THEN NoFiles ELSE booked
      /\ pc'[p] \in {"expire", "truncate", "take", "param", "quit"}
      /\ p = "nfexpire" => pc'[p] # "take"
  BY <1>2, ClearBooksEffect DEF ClearBooks, owner, Locals, Emptied
<1>4. Moved' = Moved
  BY <1>3 DEF Moved
<1>5. Scan(rec[p], dir, Pending) /\ Covered(p)
  BY <1>1, <1>2 DEF ScanKept, Comparing
<1> DEFINE S == DOMAIN booked' \cup Moved
           o == Counted(rec[p], S)
<1>6. rec'[p] = o
  BY <1>3
<1>7. Follows(o, rec[p]) /\ o \in Record /\ (Good(o) => \A s \in S : s > o.last)
  BY <1>2, CountedFacts
<1>8. /\ Awaited = (IF phase = "released" THEN {} ELSE DOMAIN booked \cup Moved)
      /\ Awaited' = (IF phase = "released" THEN {} ELSE S)
      /\ DOMAIN Pending = Awaited /\ DOMAIN Pending' = Awaited'
      /\ \A s \in Awaited' : Pending'[s] = IF s \in Moved THEN dir[s] ELSE booked'[s]
      /\ \A s \in Awaited : Pending[s] = IF s \in Moved THEN dir[s] ELSE booked[s]
      /\ Closed' = IF phase = "released" THEN DOMAIN booked' ELSE {}
  BY <1>3, <1>4 DEF Awaited, Pending, Closed
<1> HIDE DEF S, o
<1>9. ASSUME Good(o)
      PROVE  /\ DOMAIN Pending' = Newer(o, dir) /\ (\A s \in Newer(o, dir) : Pending'[s] = dir[s])
             /\ \A s \in Closed' : s <= o.last
  <2>1. Scan(o, dir, Pending) /\ o.last = rec[p].last /\ Good(rec[p]) /\ \A s \in S : s > o.last
    BY <1>5, <1>7, <1>9, FollowsFacts DEF Follows
  <2>2. /\ Newer(o, dir) = {s \in Awaited : s > o.last}
        /\ \A s \in Newer(o, dir) : Pending[s] = dir[s]
    BY <1>8, <1>9, <2>1 DEF Scan
  <2>3. CASE phase = "released"
    <3>1. booked' = NoFiles
      BY <1>1, <1>2, <1>3, <2>3 DEF ClosedFor
    <3> QED
      BY <1>8, <2>2, <2>3, <3>1, NoFilesFacts
  <2>4. CASE phase # "released" /\ job[p].attached = "yes"
    <3>1. booked' = NoFiles /\ S = Moved
      BY <1>3, <2>4, NoFilesFacts DEF S
    <3>2. \A s \in DOMAIN booked : s <= o.last
      BY <1>1, <1>5, <2>1, <2>4 DEF Covered
    <3>3. ASSUME NEW s \in DOMAIN booked \cup Moved PROVE s > o.last <=> s \in Moved
      <4>1. s \in Int /\ o.last \in Int
        <5>1. clock \in Slots /\ DOMAIN booked \subseteq Slots
          BY <1>2, FilesFacts DEF Types, DiskTypes, BookTypes
        <5> QED
          BY <5>1, <1>2, <2>1, <3>3, ExpireAssumption DEF Moved, Record, Slots
      <4>2. s \in DOMAIN booked => s <= o.last
        BY <3>2
      <4>3. s \in Moved => s > o.last
        BY <2>1, <3>1
      <4> QED
        BY <4>1, <4>2, <4>3, <3>3
    <3>4. Newer(o, dir) = Moved
      BY <1>8, <2>2, <2>4, <3>3
    <3> QED
      BY <1>8, <2>2, <2>4, <3>1, <3>4
  <2>5. CASE phase # "released" /\ job[p].attached # "yes"
    <3>1. booked' = booked /\ S = Awaited
      BY <1>3, <1>8, <2>5 DEF S
    <3>2. Newer(o, dir) = Awaited
      BY <2>1, <2>2, <3>1
    <3> QED
      BY <1>8, <2>2, <2>5, <3>1, <3>2
  <2> QED
    BY <2>3, <2>4, <2>5
<1>10. Claims(o, 0, dir, Pending', Moved, Closed')
  <2>1. dir \in FilesIn
    BY <1>2 DEF Types, DiskTypes
  <2> QED
    BY <1>2, <1>5, <1>7, <1>9, <2>1, ScanClaims
<1>11. RecKept(p)'
  BY <1>3, <1>4, <1>6, <1>10 DEF RecKept, Accounts
<1>12. OwnKept(p)'
  <2>1. job[p].attached # "orphan" \/ p = "nfexpire"
    BY <1>2, ExpirerNames DEF Stages
  <2> QED
    BY <1>3, <1>11, <2>1 DEF OwnKept, ScanKept, OrphanKept, WalkKept, Comparing
<1>13. StatKept' /\ StatFilled'
  <2>1. lock' = p
    BY <1>2, <1>3
  <2>2. StatKept'
    BY <1>3, <2>1 DEF StatKept
  <2>3. StatFilled'
    <3>1. Filled(stat.rec, 0, dir)
      BY <1>1, <1>2 DEF StatFilled, Early
    <3> QED
      BY <1>3, <3>1 DEF StatFilled
  <2> QED
    BY <2>2, <2>3
<1> QED
  BY <1>12, <1>13

LEMMA TakeBooksKept ==
  ASSUME Base, Kept, NEW p \in Expirers, TakeBooks(p)
  PROVE  OwnKept(p)' /\ StatKept' /\ StatFilled'
<1>1. pc[p] = "take"
  BY DEF TakeBooks
<1>2. /\ Types /\ lock = p /\ StatKept /\ StatFilled /\ RecKept(p) /\ OrphanKept(p) /\ ClosedFor(p)
      /\ job[p].expired = 0 /\ rec[p] \in Record /\ Sizes
  BY <1>1, OwnFacts
<1>3. /\ UNCHANGED <<dir, stat, lock, phase, clock>> /\ job'[p].dirty
      /\ job'[p].attached = job[p].attached /\ job'[p].expired = 0
      /\ rec'[p] = Taken(rec[p], Books(p))
      /\ booked' = IF job[p].attached = "yes" THEN NoFiles ELSE booked
      /\ pc'[p] \in {"expire", "truncate", "sequence", "param", "quit"}
  BY <1>2, TakeBooksEffect DEF TakeBooks, disk, owner, Locals, Emptied
<1>4. Accounts(rec[p], 0)
  BY <1>1, <1>2 DEF RecKept, Counting
<1>5. dir \in FilesIn /\ booked \in FilesIn /\ orphan \in FilesIn /\ clock \in Slots
  BY <1>2 DEF Types, DiskTypes, BookTypes
<1>6. Ahead(rec'[p], 0)
  <2>1. CASE Books(p) = NoFiles
    <3>1. rec'[p] = rec[p]
      BY <1>3, <2>1 DEF Taken
    <3>2. booked' = booked
      BY <1>3, <2>1 DEF Books
    <3> QED
      BY <1>3, <1>4, <3>1, <3>2, SameAhead DEF Follows
  <2>2. CASE ~Good(rec'[p])
    BY <2>2, BadRecord DEF Ahead
  <2>3. CASE Books(p) # NoFiles /\ Good(rec'[p])
    <3>1. Books(p) \in FilesIn
      BY <1>5, NoFilesFacts DEF Books
    <3>2. Good(rec[p]) /\ \A s \in DOMAIN Books(p) : s > rec[p].last
      BY <1>2, <1>3, <2>3, <3>1, TakenGood
    <3>3. DOMAIN Books(p) # {} /\ DOMAIN Books(p) \subseteq Slots
      BY <2>3, <3>1, FilesNone, FilesFacts
    <3>4. ASSUME \A s \in DOMAIN Books(p) : s <= rec[p].last PROVE FALSE
      <4>1. PICK s : s \in DOMAIN Books(p)
        BY <3>3
      <4>2. s \in Int /\ rec[p].last \in Int /\ s > rec[p].last /\ s <= rec[p].last
        BY <1>2, <3>2, <3>3, <3>4, <4>1, ExpireAssumption DEF Slots, Record
      <4> QED
        BY <4>2
    <3>5. job[p].attached = "yes" /\ Books(p) = booked
      <4>1. job[p].attached # "orphan"
        BY <1>1, <1>2, <3>2, <3>4 DEF OrphanKept, Books
      <4> QED
        BY <2>3, <4>1 DEF Books
    <3>6. phase # "released"
      <4>1. \A s \in Closed : s <= rec[p].last
        BY <1>4, <3>2 DEF Accounts, Claims
      <4> QED
        BY <3>4, <3>5, <4>1 DEF Closed
    <3>7. Moved' = Moved /\ booked' = NoFiles
      BY <1>3, <3>5 DEF Moved
    <3>8. /\ DOMAIN Pending = DOMAIN booked \cup Moved /\ DOMAIN Pending' = Moved /\ Closed' = {}
          /\ \A s \in Moved : Pending[s] = dir[s] /\ Pending'[s] = dir[s]
          /\ \A s \in DOMAIN booked : s \notin Moved => Pending[s] = booked[s]
          /\ Moved \subseteq DOMAIN dir => Pending \in FilesIn /\ Pending' \in FilesIn
      <4>1. Awaited = DOMAIN booked \cup Moved /\ Awaited' = Moved
        BY <1>3, <3>6, <3>7, NoFilesFacts DEF Awaited
      <4>2. Moved \subseteq DOMAIN dir => Pending \in FilesIn /\ Pending' \in FilesIn
        BY <1>3, <1>5, <3>7, NoFilesFacts, PendingFiles, PendingFilesNext
      <4> QED
        BY <1>3, <3>6, <3>7, <4>1, <4>2 DEF Pending, Closed
    <3>9. Moved \in SUBSET Slots /\ (Moved = {} \/ \E c : Moved = {c}) /\ Moved \cap DOMAIN booked = {}
      BY <1>2, <1>5 DEF Moved, Sizes
    <3>10. \A s \in DOMAIN booked \ DOMAIN dir : \A t \in DOMAIN dir : t > s
      BY <1>2 DEF Sizes
    <3>11. Claims(rec[p], 0, dir, Pending, Moved, Closed)
      BY <1>4 DEF Accounts
    <3>14. \A s \in DOMAIN booked : Pending[s] = booked[s]
      BY <3>8, <3>9
    <3> DEFINE o == rec'[p]
    <3>12. o = Taken(rec[p], booked) /\ Good(o) /\ booked # NoFiles
      BY <1>3, <2>3, <3>5
    <3> HIDE DEF o
    <3>13. Claims(o, 0, dir, Pending', Moved, {})
      BY ONLY <1>2, <1>5, <3>8, <3>14, <3>9, <3>10, <3>11, <3>12, TakenClaims, Zenon
    <3> QED
      BY <1>3, <3>7, <3>8, <3>13 DEF Ahead, o
  <2> QED
    BY <2>1, <2>2, <2>3
<1>7. OwnKept(p)'
  BY <1>3, <1>6 DEF OwnKept, RecKept, ScanKept, OrphanKept, WalkKept, Comparing, Accounts, Ahead
<1>8. StatKept' /\ StatFilled'
  <2>1. Filled(stat.rec, 0, dir)
    BY <1>1, <1>2 DEF StatFilled, Early
  <2> QED
    BY <1>2, <1>3, <2>1 DEF StatKept, StatFilled
<1> QED
  BY <1>7, <1>8

LEMMA StartExpireKept ==
  ASSUME Base, Kept, NEW p \in Expirers, StartExpire(p)
  PROVE  OwnKept(p)' /\ StatKept' /\ StatFilled'
<1>1. pc[p] = "expire"
  BY DEF StartExpire
<1>2. /\ Types /\ lock = p /\ StatKept /\ StatFilled /\ RecKept(p) /\ job[p].expired = 0 /\ rec[p] \in Record
  BY <1>1, OwnFacts
<1>3. /\ UNCHANGED <<dir, stat, lock, booked, phase, clock>> /\ job'[p].dirty = job[p].dirty
      /\ job'[p].expired = 0 /\ job'[p].walk = dir /\ pc'[p] = "unlink"
      /\ \E l : rec'[p] = [rec[p] EXCEPT !.limits = l]
  BY <1>2, StartExpireEffect DEF StartExpire, owner
<1>4. Follows(rec'[p], rec[p])
  BY <1>2, <1>3 DEF Follows, Good, Record
<1>5. Ahead(rec'[p], 0)
  <2>1. Accounts(rec[p], 0)
    BY <1>1, <1>2 DEF RecKept, Counting
  <2> QED
    BY <1>3, <1>4, <2>1, SameAhead
<1>6. OwnKept(p)'
  BY <1>3, <1>5 DEF OwnKept, RecKept, ScanKept, OrphanKept, WalkKept, Comparing, Accounts, Ahead
<1> QED
  BY <1>1, <1>2, <1>3, <1>6, StatSame DEF Early

LEMMA KeepFileKept ==
  ASSUME Base, Kept, NEW p \in Expirers, KeepFile(p)
  PROVE  OwnKept(p)' /\ StatKept' /\ StatFilled'
<1>1. pc[p] = "unlink"
  BY DEF KeepFile, Walking
<1>2. /\ Types /\ lock = p /\ StatKept /\ StatFilled /\ RecKept(p) /\ rec[p] \in Record
  BY <1>1, OwnFacts
<1>3. /\ UNCHANGED <<dir, stat, lock, booked, phase, clock>> /\ job'[p] = job[p]
      /\ pc'[p] = "tally" /\ \E x : rec'[p] = [rec[p] EXCEPT !.first = x]
  BY <1>2, KeepFileEffect DEF KeepFile, owner
<1>4. Follows(rec'[p], rec[p])
  BY <1>2, <1>3 DEF Follows, Good, Record
<1>5. Ahead(rec'[p], job[p].expired)
  <2>1. Accounts(rec[p], job[p].expired)
    BY <1>1, <1>2 DEF RecKept, Counting
  <2> QED
    BY <1>3, <1>4, <2>1, SameAhead
<1>6. OwnKept(p)'
  BY <1>3, <1>5 DEF OwnKept, RecKept, ScanKept, OrphanKept, WalkKept, Comparing, Accounts, Ahead
<1> QED
  BY <1>1, <1>2, <1>3, <1>6, StatSame DEF Early

LEMMA SetLimitsKept ==
  ASSUME Base, Kept, NEW p \in Expirers, SetLimits(p)
  PROVE  OwnKept(p)' /\ StatKept' /\ StatFilled'
<1>1. pc[p] = "param"
  BY DEF SetLimits
<1>2. /\ Types /\ lock = p /\ StatKept /\ StatFilled /\ RecKept(p) /\ rec[p] \in Record
  BY <1>1, OwnFacts
<1>3. /\ UNCHANGED <<dir, stat, lock, booked, phase, clock>> /\ job'[p] = job[p]
      /\ pc'[p] = "truncate" /\ \E l : rec'[p] = [rec[p] EXCEPT !.limits = l]
  BY <1>2, SetLimitsEffect DEF SetLimits, owner
<1>4. Follows(rec'[p], rec[p])
  BY <1>2, <1>3 DEF Follows, Good, Record
<1>5. Ahead(rec'[p], job[p].expired)
  <2>1. Accounts(rec[p], job[p].expired)
    BY <1>1, <1>2 DEF RecKept, Counting
  <2> QED
    BY <1>3, <1>4, <2>1, SameAhead
<1>6. OwnKept(p)'
  BY <1>3, <1>5 DEF OwnKept, RecKept, ScanKept, OrphanKept, WalkKept, Comparing, Accounts, Ahead
<1> QED
  BY <1>1, <1>2, <1>3, <1>6, StatSame DEF Early

LEMMA UnlinkFilled ==
  ASSUME NEW r \in Record, NEW g \in Nat, NEW D \in FilesIn, NEW f \in DOMAIN D,
         NEW E \in FilesIn, DOMAIN E = DOMAIN D \ {f}, Filled(r, g, D),
         NEW o, o.numfiles = r.numfiles, o.last = r.last, Good(o) => Good(r)
  PROVE  Filled(o, g + 1, E)
<1> DEFINE A == {s \in DOMAIN D : s <= r.last}
           B == {s \in DOMAIN E : s <= r.last}
<1>1. /\ IsFiniteSet(A) /\ IsFiniteSet(B) /\ Cardinality(A) \in Int /\ Cardinality(B) \in Int
  <2>1. A \in SUBSET Slots /\ B \in SUBSET Slots
    BY FilesFacts
  <2> HIDE DEF A, B
  <2> QED
    BY <2>1, SlotsFinite
<1>2. Cardinality(A) <= Cardinality(B) + 1
  <2>1. CASE f \in A
    <3>1. B = A \ {f}
      BY <2>1
    <3> HIDE DEF A, B
    <3>2. Cardinality(B) = Cardinality(A) - 1
      BY <1>1, <2>1, <3>1, FS_RemoveElement
    <3> QED
      BY <1>1, <3>2
  <2>2. CASE f \notin A
    <3>1. B = A
      BY <2>2
    <3> HIDE DEF A, B
    <3> QED
      BY <1>1, <3>1
  <2> QED
    BY <2>1, <2>2
<1>3. ASSUME Good(o) PROVE 0 < o.numfiles /\ o.numfiles <= Cardinality(B) + (g + 1)
  <2>1. 0 < r.numfiles /\ r.numfiles <= Cardinality(A) + g /\ r.numfiles \in Int
    BY <1>3 DEF Filled, Record
  <2> HIDE DEF A, B
  <2> QED
    BY <1>1, <1>2, <2>1
<1> QED
  BY <1>3 DEF Filled

LEMMA UnlinkKept ==
  ASSUME Base, Kept, NEW p \in Expirers, Unlink(p)
  PROVE  OwnKept(p)' /\ StatKept' /\ StatFilled'
<1>1. pc[p] = "unlink"
  BY DEF Unlink, Walking
<1>2. /\ Types /\ lock = p /\ RecKept(p) /\ WalkKept(p) /\ rec[p] \in Record /\ Walks /\ job[p] \in Jobs
  BY <1>1, OwnFacts DEF Base, Types, RunTypes
<1> DEFINE f == Oldest(p)
           g == job[p].expired
           r == rec[p]
           o == rec'[p]
<1>3. /\ UNCHANGED <<stat, lock, booked, phase, clock>> /\ job'[p].dirty /\ job'[p].expired = g + 1
      /\ job[p].walk # NoFiles /\ dir' = Without(dir, f) /\ job'[p].walk = Without(job[p].walk, f)
      /\ o.filesize = Wrap(r.filesize + SizeModulus - job[p].walk[f])
      /\ o.numfiles = r.numfiles /\ o.last = r.last /\ (Good(o) => Good(r))
      /\ pc'[p] \in {"unlink", "tally"}
  BY <1>2, UnlinkEffect DEF Unlink, owner, Good
<1>4. dir \in FilesIn /\ booked \in FilesIn /\ clock \in Slots /\ g \in Nat /\ job[p].walk \in FilesIn
  BY <1>2 DEF Types, DiskTypes, BookTypes, Jobs
<1>5. f \in DOMAIN job[p].walk /\ f \in DOMAIN dir
  <2>1. DOMAIN job[p].walk # {} /\ DOMAIN job[p].walk \in SUBSET Slots
    BY <1>3, <1>4, FilesFacts, FilesNone
  <2> QED
    BY <1>1, <1>2, <2>1, MinFacts DEF Oldest, Walks
<1>6. dir' \in FilesIn /\ DOMAIN dir' = DOMAIN dir \ {f} /\ \A s \in DOMAIN dir' : dir'[s] = dir[s]
  <2> HIDE DEF f
  <2>1. dir' = Without(dir, f) /\ dir \in FilesIn
    BY <1>3, <1>4
  <2>2. Without(dir, f) \in FilesIn /\ DOMAIN Without(dir, f) = DOMAIN dir \ {f}
        /\ \A s \in DOMAIN dir \ {f} : Without(dir, f)[s] = dir[s]
    BY ONLY <2>1, FilesWithout
  <2> QED
    BY ONLY <2>1, <2>2
<1>7. DOMAIN job'[p].walk = DOMAIN job[p].walk \ {f}
      /\ \A s \in DOMAIN job'[p].walk : job'[p].walk[s] = job[p].walk[s]
  <2> HIDE DEF f
  <2>1. job'[p].walk = Without(job[p].walk, f)
    BY <1>3
  <2>2. DOMAIN Without(job[p].walk, f) = DOMAIN job[p].walk \ {f}
        /\ \A s \in DOMAIN job[p].walk \ {f} : Without(job[p].walk, f)[s] = job[p].walk[s]
    BY ONLY WithoutFacts
  <2> QED
    BY ONLY <2>1, <2>2
<1>8. Moved' = Moved /\ Closed' = Closed /\ Awaited' = Awaited
  BY <1>3 DEF Moved, Closed, Awaited
<1>9. o \in Record
  <2>1. rec' \in [Procs -> Record]
    BY ExpirerTypes, <1>2 DEF Types, RunTypes, Expirer, Base
  <2> QED
    BY <2>1, Processes
<1> HIDE DEF f, g, r, o
<1>10. Accounts(r, g)
  BY <1>1, <1>2 DEF RecKept, Counting, r, g
<1>11. ASSUME Fresh(o, dir', Pending', Moved')
       PROVE  /\ Fresh(r, dir, Pending, Moved) /\ dir[f] = job[p].walk[f]
              /\ \A s \in DOMAIN job[p].walk : dir[s] = job[p].walk[s]
  <2>1. Fresh(r, dir, Pending, Moved)
    <3>1. DOMAIN Pending' = DOMAIN Pending
      BY <1>8 DEF Pending
    <3> QED
      BY <1>3, <1>6, <1>8, <1>11, <3>1 DEF Fresh
  <2>2. \A s \in DOMAIN job[p].walk : dir[s] = job[p].walk[s]
    BY <1>1, <1>2, <2>1 DEF WalkKept, r
  <2> QED
    BY <1>5, <2>1, <2>2
<1>12. ASSUME Fresh(o, dir', Pending', Moved') PROVE Balanced(o, g + 1, dir', Pending')
  <2>1. Moved \subseteq DOMAIN dir' /\ Moved \subseteq DOMAIN dir
    BY <1>6, <1>8, <1>12 DEF Fresh
  <2>2. Balanced(r, g, dir, Pending)
    BY <1>10, <1>11, <1>12 DEF Accounts, Claims
  <2>3. Pending \in FilesIn /\ Pending' \in FilesIn
    BY <1>3, <1>4, <1>6, <1>8, <2>1, PendingFiles, PendingFilesNext
  <2>4. DOMAIN Pending' = DOMAIN Pending /\ \A s \in DOMAIN Pending : Pending'[s] = Pending[s]
    BY <1>3, <1>6, <1>8, <2>1 DEF Pending
  <2>5. o.filesize = Wrap(r.filesize + SizeModulus - dir[f]) /\ r \in Record /\ g \in Int
    BY <1>2, <1>3, <1>4, <1>11, <1>12 DEF r
  <2> QED
    BY ONLY <1>3, <1>4, <1>5, <1>6, <1>9, <2>2, <2>3, <2>4, <2>5, UnlinkBalance
<1>13. Ahead(o, g + 1)
  <2>1. Filled(o, g + 1, dir')
    <3>1. Filled(r, g, dir) /\ r \in Record
      BY <1>2, <1>10 DEF Accounts, Claims, r
    <3> QED
      BY ONLY <1>3, <1>4, <1>5, <1>6, <3>1, UnlinkFilled
  <2>2. Good(o) => \A s \in Closed' : s <= o.last
    BY <1>3, <1>8, <1>10 DEF Accounts, Claims
  <2> QED
    BY <1>12, <2>1, <2>2 DEF Ahead, Claims
<1>14. WalkKept(p)'
  <2>1. ASSUME Fresh(o, dir', Pending', Moved'), NEW s \in DOMAIN job'[p].walk
        PROVE  dir'[s] = job'[p].walk[s]
    <3>1. s \in DOMAIN dir'
      BY <1>1, <1>2, <1>6, <1>7, <2>1 DEF Walks
    <3> QED
      BY <1>6, <1>7, <1>11, <2>1, <3>1
  <2> QED
    BY <2>1 DEF WalkKept, o
<1>15. OwnKept(p)'
  BY <1>3, <1>13, <1>14 DEF OwnKept, RecKept, ScanKept, OrphanKept, Comparing, Accounts, Ahead, o
<1> QED
  BY <1>2, <1>3, <1>15, StatDirty DEF Early

LEMMA TallyKept ==
  ASSUME Base, Kept, NEW p \in Expirers, Tally(p)
  PROVE  OwnKept(p)' /\ StatKept' /\ StatFilled'
<1> DEFINE g == job[p].expired
           r == rec[p]
           o == rec'[p]
<1>1. pc[p] \in {"unlink", "tally"}
  BY DEF Tally
<1>2. /\ Types /\ lock = p /\ StatKept /\ StatFilled /\ RecKept(p) /\ r \in Record /\ g \in Nat
  BY <1>1, OwnFacts DEF Types, RunTypes, Jobs
<1>3. /\ UNCHANGED <<dir, stat, lock, booked, phase, clock>> /\ job'[p].dirty = job[p].dirty
      /\ job'[p].expired = 0 /\ pc'[p] \in {"quit", "truncate"}
      /\ o.numfiles = (IF g > r.numfiles THEN 0 ELSE r.numfiles - g) /\ o.filesize = r.filesize
      /\ (o.numfiles # 0 => o.last = r.last)
      /\ o.exact = r.exact /\ o.rebuild = (r.rebuild \/ o.numfiles = 0)
  <2>1. /\ UNCHANGED <<dir, stat, lock, booked>> /\ job'[p].dirty = job[p].dirty
        /\ job'[p].expired = 0 /\ pc'[p] \in {"quit", "truncate"}
        /\ o.numfiles = Left(p) /\ o.filesize = r.filesize
        /\ (Left(p) # 0 => o.last = r.last)
        /\ o.exact = r.exact /\ o.rebuild = (r.rebuild \/ Left(p) = 0)
    BY <1>2, TallyEffect
  <2>2. UNCHANGED <<phase, clock>>
    BY DEF Tally, owner
  <2>3. Left(p) = (IF g > r.numfiles THEN 0 ELSE r.numfiles - g)
    BY DEF Left
  <2> HIDE DEF g, r, o
  <2> QED
    BY ONLY <2>1, <2>2, <2>3
<1> HIDE DEF g, r, o
<1>4. Accounts(r, g)
  BY <1>1, <1>2 DEF RecKept, Counting, r, g
<1>5. Pending' = Pending /\ Moved' = Moved /\ Closed' = Closed
  BY <1>3, Frame
<1>6. ASSUME Good(o) PROVE Good(r) /\ o.last = r.last /\ o.numfiles = r.numfiles - g /\ o.numfiles # 0
                           /\ r.numfiles \in Int /\ o.numfiles > 0
  <2>1. r.numfiles \in Nat
    BY <1>2, ExpireAssumption DEF Record
  <2>2. o.numfiles # 0 /\ Good(r)
    BY <1>3, <1>6 DEF Good
  <2>3. ~(g > r.numfiles)
    BY <1>3, <2>2
  <2> QED
    BY <1>2, <1>3, <2>1, <2>2, <2>3
<1>7. Filled(o, 0, dir)
  <2>1. SUFFICES ASSUME Good(o)
                 PROVE  0 < o.numfiles /\ o.numfiles <= Cardinality({s \in DOMAIN dir : s <= o.last}) + 0
    BY DEF Filled
  <2> DEFINE A == {s \in DOMAIN dir : s <= r.last}
  <2>2. r.numfiles <= Cardinality(A) + g
    BY <1>4, <1>6, <2>1 DEF Accounts, Claims, Filled
  <2>3. Cardinality(A) \in Int
    <3>1. dir \in FilesIn
      BY <1>2 DEF Types, DiskTypes
    <3>2. A \in SUBSET Slots
      BY <3>1, FilesFacts
    <3> HIDE DEF A
    <3> QED
      BY <3>2, SlotsFinite
  <2>4. A = {s \in DOMAIN dir : s <= o.last}
    BY <1>6, <2>1
  <2> HIDE DEF A
  <2> QED
    BY <1>2, <1>6, <2>1, <2>2, <2>3, <2>4
<1>8. ASSUME Fresh(o, dir, Pending, Moved) PROVE Balanced(o, 0, dir, Pending)
  <2>1. Good(o)
    BY <1>8 DEF Fresh
  <2>2. Balanced(r, g, dir, Pending)
    <3>1. Fresh(r, dir, Pending, Moved)
      BY <1>6, <1>8, <2>1 DEF Fresh
    <3> QED
      BY <1>4, <3>1 DEF Accounts, Claims
  <2>3. o.numfiles + Cardinality(DOMAIN Pending) = Cardinality(DOMAIN dir) + 0
    <3>1. dir \in FilesIn /\ booked \in FilesIn /\ clock \in Slots
      BY <1>2 DEF Types, DiskTypes, BookTypes
    <3>2. Cardinality(DOMAIN dir) \in Int
      BY <3>1, FilesFacts
    <3>3. Cardinality(DOMAIN Pending) \in Int
      <4>1. DOMAIN Pending \in SUBSET Slots
        BY <3>1, PendingFiles
      <4> QED
        BY <4>1, SlotsFinite
    <3> QED
      BY <1>2, <1>6, <2>1, <2>2, <3>2, <3>3 DEF Balanced
  <2> QED
    BY <1>3, <1>6, <2>1, <2>2, <2>3 DEF Balanced
<1>9. Ahead(o, 0)
  <2>1. Good(o) => \A s \in Closed : s <= o.last
    BY <1>4, <1>6 DEF Accounts, Claims
  <2> QED
    BY <1>3, <1>5, <1>7, <1>8, <2>1 DEF Ahead, Claims
<1>10. OwnKept(p)'
  BY <1>3, <1>9 DEF OwnKept, RecKept, ScanKept, OrphanKept, WalkKept, Comparing, Accounts, Ahead, o
<1> QED
  BY <1>2, <1>3, <1>10, StatSame DEF Early

LEMMA TornStatKept ==
  ASSUME Base, Kept, NEW p \in Expirers, TruncateStat(p) \/ ReopenStat(p)
  PROVE  OwnKept(p)' /\ StatKept' /\ StatFilled'
<1>1. Types /\ RecKept(p) /\ rec[p] \in Record
  BY Processes DEF Base, Kept, Working, Types, RunTypes
<1>2. /\ pc[p] \in {"truncate", "reopen"} /\ pc'[p] \in {"write", "relock"}
      /\ UNCHANGED <<dir, booked, phase, clock, rec>> /\ job'[p] = job[p] /\ ~Good(stat'.rec)
  BY <1>1, TornStatEffect, TornBad DEF TruncateStat, ReopenStat, owner
<1>3. Ahead(rec'[p], job'[p].expired)
  <2>1. Accounts(rec[p], job[p].expired)
    BY <1>1, <1>2 DEF RecKept, Counting
  <2> QED
    BY <1>2, <2>1, SameAhead DEF Follows
<1>4. OwnKept(p)'
  BY <1>2, <1>3 DEF OwnKept, RecKept, ScanKept, OrphanKept, WalkKept, Comparing, Accounts, Ahead
<1> QED
  BY <1>2, <1>4, BadRecord DEF StatKept, StatFilled, Accounts

LEMMA WriteStatKept ==
  ASSUME Base, Kept, NEW p \in Expirers, WriteStat(p)
  PROVE  OwnKept(p)' /\ StatKept' /\ StatFilled'
<1>1. pc[p] \in {"write", "overwrite"}
  BY DEF WriteStat
<1>2. Types /\ RecKept(p) /\ rec[p] \in Record /\ job[p].expired = 0
  BY <1>1, OwnFacts
<1>3. /\ UNCHANGED <<dir, booked, phase, clock>> /\ stat'.rec = rec[p]
      /\ \/ pc'[p] = "reopen" /\ job'[p] = job[p] /\ rec'[p] = rec[p]
         \/ pc'[p] = "idle"
  BY <1>2, WriteStatEffect DEF WriteStat, owner
<1>4. Ahead(rec[p], 0)
  <2>1. Accounts(rec[p], 0)
    BY <1>1, <1>2 DEF RecKept, Counting
  <2> QED
    BY <1>3, <2>1, SameAhead DEF Follows
<1>5. OwnKept(p)'
  BY <1>2, <1>3, <1>4 DEF OwnKept, RecKept, ScanKept, OrphanKept, WalkKept, Counting, Comparing, Accounts, Ahead
<1> QED
  BY <1>3, <1>4, <1>5 DEF StatKept, StatFilled, Accounts, Ahead, Claims

LEMMA RelockStatKept ==
  ASSUME Base, Kept, NEW p \in Expirers, RelockStat(p)
  PROVE  OwnKept(p)' /\ StatKept' /\ StatFilled'
<1>1. Types /\ RecKept(p) /\ StatKept /\ "none" \notin Expirers
  BY Processes DEF Base, Kept, Working
<1>2. /\ pc[p] = "relock" /\ pc'[p] = "overwrite" /\ lock = "none"
      /\ UNCHANGED <<dir, stat, booked, phase, clock, rec>> /\ job'[p] = job[p]
  BY <1>1, RelockStatEffect DEF RelockStat, owner
<1>3. Ahead(rec'[p], job'[p].expired) /\ Ahead(stat'.rec, 0)
  <2>1. Accounts(rec[p], job[p].expired)
    BY <1>1, <1>2 DEF RecKept, Counting
  <2>2. Accounts(stat.rec, 0)
    BY <1>1, <1>2 DEF StatKept
  <2> QED
    BY <1>2, <2>1, <2>2, SameAhead DEF Follows
<1>4. OwnKept(p)'
  BY <1>2, <1>3 DEF OwnKept, RecKept, ScanKept, OrphanKept, WalkKept, Comparing, Accounts, Ahead
<1> QED
  BY <1>3, <1>4 DEF StatKept, StatFilled, Accounts, Ahead, Claims

LEMMA LeaveStatKept ==
  ASSUME Base, Kept, NEW p \in Expirers, LeaveStat(p)
  PROVE  OwnKept(p)' /\ StatKept' /\ StatFilled'
<1>1. Types /\ StatLeft(p)
  BY DEF Base, Kept, Working
<1>2. pc[p] = "quit" /\ pc'[p] = "idle" /\ stat' = stat
  BY <1>1, LeaveStatEffect
<1>3. ~Good(stat'.rec)
  BY <1>1, <1>2 DEF StatLeft
<1>4. OwnKept(p)'
  BY <1>2 DEF OwnKept, RecKept, ScanKept, OrphanKept, WalkKept, Comparing, Counting
<1> QED
  BY <1>3, <1>4, BadRecord DEF StatKept, StatFilled, Accounts

LEMMA LockStatKept ==
  ASSUME Base, Kept, NEW p \in Expirers, LockStat(p)
  PROVE  OwnKept(p)' /\ StatKept' /\ StatFilled'
<1>1. Types /\ StatKept /\ Stages /\ stat.rec \in Record /\ "none" \notin Expirers
  BY Processes DEF Base, Kept, Types, DiskTypes
<1>2. /\ pc[p] = "lock" /\ lock = "none" /\ UNCHANGED <<dir, stat, booked, phase, clock>>
      /\ rec'[p] = (IF job[p].fresh THEN Torn(NoLimits) ELSE Verify(stat.rec))
      /\ job'[p].expired = job[p].expired /\ job'[p].attached \in {"yes", "no"}
      /\ pc'[p] \in {"take", "scan", "sequence", "expire", "param", "quit", "truncate"}
  BY <1>1, LockStatEffect DEF LockStat, owner
<1>3. job[p].expired = 0
  BY <1>1, <1>2 DEF Stages
<1>4. Accounts(stat.rec, 0)
  BY <1>1, <1>2 DEF StatKept
<1>5. Ahead(stat'.rec, 0)
  BY <1>2, <1>4, SameAhead DEF Follows
<1>6. Ahead(rec'[p], 0)
  <2>1. CASE job[p].fresh
    BY <1>2, <2>1, TornBad, BadRecord DEF Ahead
  <2>2. CASE ~job[p].fresh
    <3>1. Follows(rec'[p], stat.rec)
      BY <1>1, <1>2, <2>2, VerifyRecord DEF Follows, Good
    <3> QED
      BY <1>2, <1>4, <3>1, SameAhead
  <2> QED
    BY <2>1, <2>2
<1>7. OwnKept(p)'
  BY <1>2, <1>3, <1>6 DEF OwnKept, RecKept, ScanKept, OrphanKept, WalkKept, Comparing, Accounts, Ahead
<1> QED
  BY <1>5, <1>7 DEF StatKept, StatFilled, Accounts, Ahead, Claims

LEMMA ExpirerKept ==
  ASSUME Base, Kept, NEW p \in Expirers, Expirer(p)
  PROVE  Kept'
<1>1. OwnKept(p)' /\ StatKept' /\ StatFilled'
  BY KeepSequenceKept, RescanDirKept, CompareSequenceKept, CompareAgainKept, ClearBooksKept,
     TakeBooksKept, StartExpireKept, KeepFileKept, SetLimitsKept, UnlinkKept, TallyKept, TornStatKept,
     WriteStatKept, RelockStatKept, LeaveStatKept, LockStatKept DEF Expirer
<1>2. Working(p)'
  BY <1>1, ExpirerLeft, ExpirerClosed DEF OwnKept, Working
<1>3. \A q \in Expirers : Working(q)'
  BY <1>2, OtherKept
<1> QED
  BY <1>1, <1>3, ExpirerFinal DEF Kept

-------------------------------------------------------------------------------
(* The steps of the collector                                              *)

LEMMA StillKept ==
  ASSUME Base, Kept, pc' = pc, stat' = stat \/ ~Good(stat'.rec),
         \A q \in Expirers : /\ job'[q].nofiles = job[q].nofiles /\ job'[q].dirty = job[q].dirty
                             /\ job'[q].expired = job[q].expired /\ Doubted(rec'[q], rec[q])
                             /\ (lock' = q <=> lock = q),
         \A r \in Record : \A g \in Nat : Accounts(r, g) => Ahead(r, g),
         \A r \in Record : Filled(r, 0, dir) => Filled(r, 0, dir'),
         \A q \in Expirers : ScanKept(q)' /\ OrphanKept(q)' /\ WalkKept(q)' /\ ClosedFor(q)',
         FinalKept', SegmentKept'
  PROVE  Kept'
<1>1. stat.rec \in Record /\ \A q \in Expirers : rec[q] \in Record /\ job[q].expired \in Nat
  BY Processes DEF Base, Types, DiskTypes, RunTypes, Jobs
<1>2. StatKept'
  <2>1. CASE stat' = stat
    BY <1>1, <2>1 DEF Kept, StatKept, Ahead, Accounts
  <2>2. CASE ~Good(stat'.rec)
    BY <2>2, BadRecord DEF StatKept, Accounts
  <2> QED
    BY <2>1, <2>2
<1>3. StatFilled'
  <2>1. CASE stat' = stat
    BY <1>1, <2>1 DEF Kept, StatFilled
  <2>2. CASE ~Good(stat'.rec)
    BY <2>2, BadRecord DEF StatFilled
  <2> QED
    BY <2>1, <2>2
<1>4. ASSUME NEW q \in Expirers PROVE StatLeft(q)' /\ RecKept(q)'
  <2>1. StatLeft(q)'
    BY DEF Kept, Working, StatLeft
  <2>2. ASSUME pc[q] \in Counting PROVE Ahead(rec'[q], job[q].expired)
    <3>1. Ahead(rec[q], job[q].expired)
      BY <1>1, <2>2 DEF Kept, Working, RecKept
    <3> QED
      BY <1>1, <3>1, DoubtedFollows, FollowsFacts DEF Ahead
  <2>3. RecKept(q)'
    BY <2>2 DEF RecKept, Ahead, Accounts
  <2> QED
    BY <2>1, <2>3
<1> QED
  BY <1>2, <1>3, <1>4 DEF Kept, Working

(* an event that makes all records miscount                                *)
LEMMA MiscountKept ==
  ASSUME Types, Kept, Miscount, pc' = pc, \A q \in Expirers : job'[q].nofiles = job[q].nofiles,
         phase' \notin {"truncate", "write", "released"}, SegmentKept'
  PROVE  Kept'
<1>1. ~Good(stat'.rec) /\ \A q \in Procs : ~Good(rec'[q])
  BY MiscountTypes DEF Good
<1>2. StatKept' /\ StatFilled'
  BY <1>1, BadRecord DEF StatKept, StatFilled, Accounts
<1>3. ASSUME NEW q \in Expirers PROVE Working(q)'
  <2>1. ~Good(rec'[q])
    BY <1>1, Processes
  <2>2. StatLeft(q)'
    BY <1>1 DEF Kept, Working, StatLeft
  <2>3. RecKept(q)' /\ ScanKept(q)' /\ WalkKept(q)'
    BY <2>1, BadRecord DEF RecKept, ScanKept, Covered, WalkKept, Accounts
  <2>4. OrphanKept(q)' /\ ClosedFor(q)'
    BY <2>1 DEF OrphanKept, ClosedFor
  <2> QED
    BY <2>2, <2>3, <2>4 DEF Working
<1>4. FinalKept'
  BY DEF FinalKept
<1> QED
  BY <1>2, <1>3, <1>4 DEF Kept

(* when the files and what is awaited stay                                 *)
LEMMA SameView ==
  ASSUME Kept, rec \in [Procs -> Record], pc' = pc, dir' = dir, Pending' = Pending, Moved' = Moved,
         NEW q \in Expirers, job'[q].walk = job[q].walk, Doubted(rec'[q], rec[q])
  PROVE  WalkKept(q)' /\ (pc'[q] \in Comparing => Scan(rec'[q], dir', Pending'))
<1>1. Follows(rec'[q], rec[q])
  BY DoubtedFollows, Processes
<1>2. WalkKept(q)'
  BY <1>1, FollowsFacts DEF Kept, Working, WalkKept
<1>3. pc'[q] \in Comparing => Scan(rec'[q], dir', Pending')
  BY <1>1, FollowsFacts DEF Kept, Working, ScanKept
<1> QED
  BY <1>2, <1>3

LEMMA SameCovered ==
  ASSUME NEW q \in Expirers, Covered(q), rec[q] \in Record, Doubted(rec'[q], rec[q]), pc' = pc,
         booked' = booked, changed' = changed, job'[q].attached = job[q].attached
  PROVE  Covered(q)'
BY DoubtedFollows DEF Covered, Follows

LEMMA StartCollectorKept == ASSUME Base, Kept, StartCollector PROVE Kept'
<1>1. /\ Types /\ pc' = pc /\ job' = job /\ phase = "down" /\ phase' = "run" /\ segment'
      /\ booked' = NoFiles /\ UNCHANGED <<dir, orphan, lock>> /\ rec \in [Procs -> Record]
  BY DEF StartCollector, Base, Types, RunTypes
<1>2. SegmentKept'
  BY <1>1 DEF SegmentKept
<1>3. CASE Miscount
  BY <1>1, <1>2, <1>3, MiscountKept
<1>4. CASE booked = NoFiles /\ UNCHANGED <<stat, rec>>
  <2>1. Awaited' = {} /\ Awaited = {} /\ Moved' = {} /\ Moved = {} /\ Closed' = {} /\ Closed = {}
    BY <1>1, <1>4, NoFilesFacts DEF Awaited, Moved, Closed
  <2>2. Pending' = Pending
    BY <2>1 DEF Pending
  <2>3. \A q \in Expirers : Doubted(rec'[q], rec[q])
    BY <1>4 DEF Doubted
  <2>4. ASSUME NEW q \in Expirers PROVE ScanKept(q)' /\ OrphanKept(q)' /\ WalkKept(q)' /\ ClosedFor(q)'
    <3>1. ScanKept(q)' /\ WalkKept(q)'
      BY <1>1, <2>1, <2>2, <2>3, SameView, NoFilesFacts DEF ScanKept, Covered
    <3>2. OrphanKept(q)' /\ ClosedFor(q)'
      BY <1>1, <1>4 DEF Kept, Working, OrphanKept, ClosedFor
    <3> QED
      BY <3>1, <3>2
  <2>5. \A r \in Record : \A g \in Nat : Accounts(r, g) => Ahead(r, g)
    BY <1>1, <2>1, <2>2 DEF Accounts, Ahead
  <2>6. FinalKept'
    BY <1>1 DEF FinalKept
  <2> QED
    BY <1>1, <1>2, <1>4, <2>3, <2>4, <2>5, <2>6, StillKept
<1> QED
  BY <1>3, <1>4 DEF StartCollector

LEMMA FilledMore ==
  ASSUME NEW r, NEW D \in FilesIn, NEW E \in FilesIn, DOMAIN D \subseteq DOMAIN E, NEW g \in Nat,
         Filled(r, g, D), r \in Record
  PROVE  Filled(r, g, E)
<1> DEFINE A == {s \in DOMAIN D : s <= r.last}
           B == {s \in DOMAIN E : s <= r.last}
<1>1. A \in SUBSET B /\ B \in SUBSET Slots
  BY FilesFacts
<1>2. ASSUME Good(r) PROVE 0 < r.numfiles /\ r.numfiles <= Cardinality(A) + g /\ r.numfiles \in Int
  BY <1>2 DEF Filled, Record
<1> HIDE DEF A, B
<1>3. /\ Cardinality(B) = Cardinality(A) + Cardinality(B \ A)
      /\ Cardinality(B) \in 0 .. MaxSlot /\ Cardinality(A) \in 0 .. MaxSlot /\ Cardinality(B \ A) \in 0 .. MaxSlot
  BY <1>1, CardSplit
<1>4. ASSUME Good(r) PROVE 0 < r.numfiles /\ r.numfiles <= Cardinality(B) + g
  BY <1>2, <1>3, <1>4
<1> QED
  BY <1>4 DEF Filled, B

LEMMA MoveFileAhead ==
  ASSUME Base, MoveFile
  PROVE  /\ dir' \in FilesIn /\ DOMAIN dir' = DOMAIN dir \cup {clock}
         /\ (\A s \in DOMAIN dir : s # clock => dir'[s] = dir[s])
         /\ Moved = {} /\ Closed = {} /\ Awaited = DOMAIN booked /\ clock \notin DOMAIN booked
         /\ Moved' = {clock} /\ Closed' = {} /\ Awaited' = DOMAIN booked \cup {clock}
         /\ DOMAIN Pending = Awaited /\ DOMAIN Pending' = Awaited'
         /\ (\A s \in DOMAIN booked : Pending'[s] = Pending[s]) /\ Pending'[clock] = dir'[clock]
         /\ Pending \in FilesIn /\ Pending' \in FilesIn /\ dir \in FilesIn /\ clock \in Slots
         /\ clock \notin DOMAIN dir => dir'[clock] \in Nat
<1>1. /\ dir \in FilesIn /\ booked \in FilesIn /\ clock \in Slots /\ phase = "run"
      /\ phase' \in {"moved", "lastmoved"} /\ booked' = booked /\ clock' = clock
      /\ dir' = With(dir, clock, IF clock \in DOMAIN dir THEN dir[clock] + 1 ELSE 1)
      /\ clock \notin DOMAIN booked
  BY DEF MoveFile, books, Base, Types, DiskTypes, BookTypes, Sizes
<1>2. /\ dir' \in FilesIn /\ DOMAIN dir' = DOMAIN dir \cup {clock}
      /\ \A s \in DOMAIN dir : s # clock => dir'[s] = dir[s]
  <2> DEFINE n == IF clock \in DOMAIN dir THEN dir[clock] + 1 ELSE 1
  <2>1. n \in Nat
    BY <1>1, FilesFacts
  <2>2. dir' = With(dir, clock, n)
    BY <1>1
  <2> HIDE DEF n
  <2>3. /\ With(dir, clock, n) \in FilesIn /\ DOMAIN With(dir, clock, n) = DOMAIN dir \cup {clock}
        /\ \A s \in DOMAIN dir : s # clock => With(dir, clock, n)[s] = dir[s]
    BY ONLY <1>1, <2>1, FilesWith, Zenon
  <2> QED
    BY ONLY <2>2, <2>3
<1>3. /\ Moved = {} /\ Closed = {} /\ Awaited = DOMAIN booked
      /\ Moved' = {clock} /\ Closed' = {} /\ Awaited' = DOMAIN booked \cup {clock}
  BY <1>1 DEF Moved, Closed, Awaited
<1>4. /\ DOMAIN Pending = Awaited /\ DOMAIN Pending' = Awaited'
      /\ (\A s \in DOMAIN booked : Pending'[s] = Pending[s]) /\ Pending'[clock] = dir'[clock]
  BY <1>1, <1>3 DEF Pending
<1>5. Pending \in FilesIn /\ Pending' \in FilesIn
  BY <1>1, <1>2, <1>3, PendingFiles, PendingFilesNext
<1>6. dir'[clock] \in Nat
  BY <1>2, FilesFacts
<1> QED
  BY <1>1, <1>2, <1>3, <1>4, <1>5, <1>6

LEMMA MoveFileFresh ==
  ASSUME Base, MoveFile, NEW r \in Record, NEW g \in Nat, Accounts(r, g),
         Fresh(r, dir', Pending', Moved')
  PROVE  /\ Fresh(r, dir, Pending, Moved) /\ Balanced(r, g, dir, Pending)
         /\ clock \notin DOMAIN dir
<1>1. Fresh(r, dir, Pending, Moved) /\ clock > r.last
  BY MoveFileAhead DEF Fresh
<1>2. Balanced(r, g, dir, Pending)
  BY <1>1 DEF Accounts, Claims
<1>3. ASSUME clock \in DOMAIN dir PROVE FALSE
  <2>1. clock <= r.last
    BY <1>2, <1>3, MoveFileAhead DEF Balanced
  <2>2. clock \in Int /\ r.last \in Int
    BY MoveFileAhead, ExpireAssumption DEF Slots, Record
  <2> QED
    BY <1>1, <2>1, <2>2
<1> QED
  BY <1>1, <1>2, <1>3

LEMMA MoveFileScan ==
  ASSUME Base, MoveFile, NEW r \in Record, Scan(r, dir, Pending), clock \notin DOMAIN dir
  PROVE  Scan(r, dir', Pending')
<1> SUFFICES ASSUME Good(r)
             PROVE  /\ r.last \in DOMAIN dir' /\ 0 < r.numfiles
                    /\ r.numfiles + Cardinality(Newer(r, dir')) = Cardinality(DOMAIN dir')
                    /\ Wrap(r.filesize + SumFunction(Restrict(dir', Newer(r, dir')))) = Wrap(SumFunction(dir'))
                    /\ Newer(r, dir') = {s \in DOMAIN Pending' : s > r.last}
                    /\ \A s \in Newer(r, dir') : Pending'[s] = dir'[s]
  BY DEF Scan
<1>1. /\ dir' \in FilesIn /\ DOMAIN dir' = DOMAIN dir \cup {clock} /\ dir \in FilesIn /\ clock \in Slots
      /\ \A s \in DOMAIN dir : dir'[s] = dir[s]
      /\ clock \notin DOMAIN booked /\ DOMAIN Pending = DOMAIN booked
      /\ DOMAIN Pending' = DOMAIN booked \cup {clock} /\ Pending'[clock] = dir'[clock]
      /\ \A s \in DOMAIN booked : Pending'[s] = Pending[s]
  BY MoveFileAhead
<1>2. /\ r.last \in DOMAIN dir /\ 0 < r.numfiles
      /\ r.numfiles + Cardinality(Newer(r, dir)) = Cardinality(DOMAIN dir)
      /\ Wrap(r.filesize + SumFunction(Restrict(dir, Newer(r, dir)))) = Wrap(SumFunction(dir))
      /\ Newer(r, dir) = {s \in DOMAIN Pending : s > r.last}
      /\ \A s \in Newer(r, dir) : Pending[s] = dir[s]
  BY DEF Scan
<1>3. clock > r.last
  <2>1. r.last <= clock /\ r.last # clock
    BY <1>1, <1>2 DEF Base, Sizes
  <2>2. r.last \in Int /\ clock \in Int
    BY <1>1, ExpireAssumption DEF Slots, Record
  <2> QED
    BY <2>1, <2>2
<1> DEFINE N == Newer(r, dir)
           X == Newer(r, dir')
<1>4. X = N \cup {clock} /\ clock \notin N /\ N \subseteq DOMAIN dir /\ N \subseteq DOMAIN booked
  BY <1>1, <1>2, <1>3 DEF Newer
<1>5. /\ X = {s \in DOMAIN Pending' : s > r.last}
      /\ \A s \in X : Pending'[s] = dir'[s]
  <2>1. X = {s \in DOMAIN Pending' : s > r.last}
    BY <1>1, <1>2, <1>3, <1>4
  <2>2. \A s \in X : Pending'[s] = dir'[s]
    <3> HIDE DEF N, X
    <3> QED
      BY <1>1, <1>2, <1>4 DEF N
  <2> QED
    BY <2>1, <2>2
<1> HIDE DEF N, X
<1>6. Cardinality(X) = Cardinality(N) + 1 /\ Cardinality(DOMAIN dir') = Cardinality(DOMAIN dir) + 1
      /\ Cardinality(N) \in Int /\ Cardinality(DOMAIN dir) \in Int
  <2>1. N \in SUBSET Slots /\ DOMAIN dir \in SUBSET Slots
    BY <1>1, <1>4, FilesFacts
  <2>2. IsFiniteSet(N) /\ IsFiniteSet(DOMAIN dir) /\ Cardinality(N) \in 0 .. MaxSlot
        /\ Cardinality(DOMAIN dir) \in 0 .. MaxSlot
    BY <2>1, SlotsFinite
  <2>3. Cardinality(X) = Cardinality(N) + 1
    BY <2>2, <1>4, FS_AddElement
  <2>4. clock \notin DOMAIN dir /\ Cardinality(DOMAIN dir \cup {clock}) = Cardinality(DOMAIN dir) + 1
    BY <2>2, FS_AddElement
  <2> QED
    BY <2>2, <2>3, <2>4, <1>1
<1>7. r.numfiles \in Int /\ r.filesize \in Int
  BY DEF Record
<1>8. r.numfiles + Cardinality(X) = Cardinality(DOMAIN dir')
  <2>1. r.numfiles + Cardinality(N) = Cardinality(DOMAIN dir)
    BY <1>2 DEF N
  <2> QED
    BY <1>6, <1>7, <2>1
<1>9. Wrap(r.filesize + SumFunction(Restrict(dir', X))) = Wrap(SumFunction(dir'))
  <2> DEFINE F == Restrict(dir, N)
             G == Restrict(dir', X)
  <2>1. F \in FilesIn /\ G \in FilesIn /\ DOMAIN F = N /\ DOMAIN G = N \cup {clock}
        /\ \A s \in N : G[s] = F[s]
    <3>1. F = [s \in N |-> dir[s]] /\ G = [s \in X |-> dir'[s]]
      BY DEF Restrict
    <3>2. F \in [N -> Nat] /\ G \in [X -> Nat] /\ N \in SUBSET Slots /\ X \in SUBSET Slots
      BY <1>1, <1>4, <3>1, FilesFacts
    <3>3. F \in FilesIn /\ G \in FilesIn
      <4> HIDE DEF F, G
      <4> QED
        BY <3>2, FilesAre
    <3> QED
      BY <1>1, <1>4, <3>1, <3>3
  <2>2. G[clock] = dir'[clock] /\ dir'[clock] \in Int
    BY <1>1, <1>4, FilesFacts DEF Restrict
  <2> HIDE DEF F, G
  <2>3. SumFunction(G) = G[clock] + SumFunction(F) /\ SumFunction(F) \in Int
    BY <1>4, <2>1, OneMore
  <2>4. SumFunction(dir') = dir'[clock] + SumFunction(dir) /\ SumFunction(dir) \in Int
    BY <1>1, OneMore
  <2>5. Wrap(r.filesize + SumFunction(F)) = Wrap(SumFunction(dir))
    BY <1>2 DEF F, N
  <2> DEFINE a == r.filesize + SumFunction(F)
             n == dir'[clock]
  <2>6. a \in Int /\ n \in Int /\ Wrap(a) = Wrap(SumFunction(dir)) /\ SumFunction(dir) \in Int
    BY <1>7, <2>2, <2>3, <2>4, <2>5
  <2>7. r.filesize + SumFunction(G) = a + n /\ SumFunction(dir') = SumFunction(dir) + n
    BY <1>7, <2>2, <2>3, <2>4
  <2> HIDE DEF a, n
  <2>8. Wrap(a + n) = Wrap(SumFunction(dir) + n)
    BY ONLY <2>6, WrapAdd
  <2> QED
    BY <2>7, <2>8 DEF G
<1> QED
  BY <1>1, <1>2, <1>5, <1>8, <1>9 DEF X

LEMMA MoveFileKept == ASSUME Base, Kept, MoveFile PROVE Kept'
<1>1. /\ Types /\ pc' = pc /\ job' = job /\ phase = "run" /\ phase' \in {"moved", "lastmoved"}
      /\ UNCHANGED <<stat, lock, orphan, booked, changed, segment>> /\ rec \in [Procs -> Record]
      /\ \A q \in Expirers : rec[q] \in Record /\ job[q].expired \in Nat
      /\ \A q \in Expirers : /\ Doubted(rec'[q], rec[q])
                             /\ clock \in DOMAIN dir /\ pc[q] \in Comparing => ~rec'[q].exact
  <2>1. \A q \in Expirers : Doubted(rec'[q], rec[q])
    BY CollectorDoubts DEF Base
  <2>2. ASSUME NEW q \in Expirers, clock \in DOMAIN dir, pc[q] \in Comparing PROVE ~rec'[q].exact
    <3>1. rec'[q] = [rec[q] EXCEPT !.exact = FALSE] /\ rec[q] \in Record
      BY <2>2, Processes DEF MoveFile, Scanning, Comparing, Base, Types, RunTypes
    <3> QED
      BY <3>1 DEF Record
  <2>3. /\ Types /\ pc' = pc /\ job' = job /\ phase = "run" /\ phase' \in {"moved", "lastmoved"}
        /\ UNCHANGED <<stat, lock, orphan, booked, changed, segment>> /\ rec \in [Procs -> Record]
    BY DEF MoveFile, books, Base, Types, RunTypes
  <2>4. \A q \in Expirers : rec[q] \in Record /\ job[q].expired \in Nat
    BY <2>3, Processes DEF Types, RunTypes, Jobs
  <2> QED
    BY <2>1, <2>2, <2>3, <2>4
<1>2. \A r \in Record : Filled(r, 0, dir) => Filled(r, 0, dir')
  BY MoveFileAhead, FilledMore
<1>3. ASSUME NEW r \in Record, NEW g \in Nat, Accounts(r, g) PROVE Ahead(r, g)
  <2>1. Filled(r, g, dir')
    BY <1>3, MoveFileAhead, FilledMore DEF Accounts, Claims
  <2>2. ASSUME Fresh(r, dir', Pending', Moved') PROVE Balanced(r, g, dir', Pending')
    <3>1. Balanced(r, g, dir, Pending) /\ clock \notin DOMAIN dir
      BY <1>3, <2>2, MoveFileFresh
    <3>2. /\ dir \in FilesIn /\ Pending \in FilesIn /\ clock \in Slots /\ clock \notin DOMAIN Pending
          /\ dir' \in FilesIn /\ DOMAIN dir' = DOMAIN dir \cup {clock} /\ dir'[clock] \in Nat
          /\ (\A s \in DOMAIN dir : dir'[s] = dir[s]) /\ Pending'[clock] = dir'[clock]
          /\ Pending' \in FilesIn /\ DOMAIN Pending' = DOMAIN Pending \cup {clock}
          /\ \A s \in DOMAIN Pending : Pending'[s] = Pending[s]
      BY <3>1, MoveFileAhead
    <3>3. r \in Record /\ g \in Int
      BY <1>3
    <3> QED
      BY ONLY <3>1, <3>2, <3>3, AddBalance
  <2> QED
    BY <2>1, <2>2, MoveFileAhead DEF Ahead, Claims
<1>4. ASSUME NEW q \in Expirers PROVE ScanKept(q)' /\ OrphanKept(q)' /\ WalkKept(q)' /\ ClosedFor(q)'
  <2>1. Follows(rec'[q], rec[q])
    BY <1>1, DoubtedFollows
  <2>2. WalkKept(q)'
    <3>1. ASSUME pc[q] = "unlink", Fresh(rec'[q], dir', Pending', Moved')
          PROVE  \A f \in DOMAIN job[q].walk : dir'[f] = job[q].walk[f]
      <4>1. Fresh(rec[q], dir', Pending', Moved')
        BY <2>1, <3>1, FollowsFacts
      <4>2. Accounts(rec[q], job[q].expired)
        BY <3>1 DEF Kept, Working, RecKept, Counting
      <4>3. Fresh(rec[q], dir, Pending, Moved) /\ clock \notin DOMAIN dir
        BY <1>1, <4>1, <4>2, MoveFileFresh
      <4>4. \A f \in DOMAIN job[q].walk : dir[f] = job[q].walk[f] /\ f \in DOMAIN dir
        BY <3>1, <4>3 DEF Kept, Working, WalkKept, Base, Walks
      <4> QED
        BY <4>3, <4>4, MoveFileAhead
    <3> QED
      BY <1>1, <3>1 DEF WalkKept
  <2>3. ScanKept(q)'
    <3>1. ASSUME pc[q] \in Comparing PROVE Scan(rec'[q], dir', Pending') /\ Covered(q)'
      <4>1. Scan(rec[q], dir, Pending) /\ Covered(q)
        BY <3>1 DEF Kept, Working, ScanKept
      <4>2. Covered(q)'
        BY <1>1, <4>1, SameCovered
      <4>3. CASE clock \in DOMAIN dir
        BY <1>1, <3>1, <4>2, <4>3, BadRecord DEF Good
      <4>4. CASE clock \notin DOMAIN dir
        BY <1>1, <2>1, <4>1, <4>2, <4>4, MoveFileScan, FollowsFacts
      <4> QED
        BY <4>3, <4>4
    <3> QED
      BY <1>1, <3>1 DEF ScanKept
  <2>4. OrphanKept(q)' /\ ClosedFor(q)'
    BY <1>1, <2>1 DEF Kept, Working, OrphanKept, ClosedFor, Follows
  <2> QED
    BY <2>2, <2>3, <2>4
<1>5. FinalKept' /\ SegmentKept'
  BY <1>1 DEF FinalKept, SegmentKept, Kept
<1> QED
  BY <1>1, <1>2, <1>3, <1>4, <1>5, StillKept

LEMMA UpdateBooksKept == ASSUME Base, Kept, UpdateBooks PROVE Kept'
<1>1. /\ Types /\ pc' = pc /\ job' = job /\ phase \in {"moved", "lastmoved"} /\ phase' \in {"run", "stop"}
      /\ UNCHANGED <<dir, lock, orphan, segment>> /\ rec \in [Procs -> Record]
      /\ changed' = TRUE
      /\ \A q \in Expirers : Doubted(rec'[q], rec[q]) /\ rec[q] \in Record
  <2>1. \A q \in Expirers : Doubted(rec'[q], rec[q]) /\ rec[q] \in Record
    BY CollectorDoubts, Processes DEF Base, Types, RunTypes
  <2> QED
    BY <2>1 DEF UpdateBooks, Base, Types, RunTypes
<1>2. FinalKept' /\ SegmentKept'
  BY <1>1 DEF FinalKept, SegmentKept, Kept
<1>3. CASE clock \notin DOMAIN dir
  <2>1. Miscount
    BY <1>3 DEF UpdateBooks
  <2> QED
    BY <1>1, <1>2, <2>1, MiscountKept
<1>4. CASE clock \in DOMAIN dir
  <2>1. /\ booked' = With(booked, clock, dir[clock]) /\ stat' = stat
        /\ \A q \in Expirers : pc[q] = "clear" => ~rec'[q].exact
    <3>1. /\ booked' = With(booked, clock, dir[clock]) /\ stat' = stat
          /\ rec' = [p \in Procs |-> IF p \in Expirers /\ pc[p] = "clear"
                                       THEN [rec[p] EXCEPT !.exact = FALSE] ELSE rec[p]]
      BY <1>4 DEF UpdateBooks
    <3>2. ASSUME NEW q \in Expirers, pc[q] = "clear" PROVE ~rec'[q].exact
      <4>1. rec'[q] = [rec[q] EXCEPT !.exact = FALSE] /\ rec[q] \in Record
        BY <1>1, <3>1, <3>2, Processes
      <4> QED
        BY <4>1 DEF Record
    <3> QED
      BY <3>1, <3>2
  <2>2. Moved = {clock} /\ Moved' = {} /\ Closed = {} /\ Closed' = {}
    BY <1>1 DEF Moved, Closed
  <2>3. DOMAIN booked' = DOMAIN booked \cup {clock} /\ booked'[clock] = dir[clock]
        /\ \A s \in DOMAIN booked : s # clock => booked'[s] = booked[s]
    BY <2>1 DEF With
  <2>4. Awaited = DOMAIN booked' /\ Awaited' = DOMAIN booked'
    BY <1>1, <2>2, <2>3 DEF Awaited
  <2>5. Pending' = Pending
    <3>1. \A s \in DOMAIN booked' : (IF s \in Moved THEN dir[s] ELSE booked[s])
                                      = (IF s \in Moved' THEN dir'[s] ELSE booked'[s])
      BY <1>1, <2>2, <2>3
    <3> QED
      BY <2>4, <3>1 DEF Pending
  <2>6. \A r : Fresh(r, dir', Pending', Moved') => Fresh(r, dir, Pending, Moved)
    BY <1>1, <1>4, <2>2, <2>5 DEF Fresh
  <2>7. \A r \in Record : \A g \in Nat : Accounts(r, g) => Ahead(r, g)
    BY <1>1, <2>2, <2>5, <2>6 DEF Accounts, Ahead, Claims
  <2>8. ASSUME NEW q \in Expirers PROVE ScanKept(q)' /\ OrphanKept(q)' /\ WalkKept(q)' /\ ClosedFor(q)'
    <3>1. Follows(rec'[q], rec[q])
      BY <1>1, DoubtedFollows
    <3>2. WalkKept(q)'
      <4>1. Fresh(rec'[q], dir', Pending', Moved') => Fresh(rec[q], dir, Pending, Moved)
        BY <2>6, <3>1, FollowsFacts
      <4> QED
        BY <1>1, <4>1 DEF Kept, Working, WalkKept
    <3>3. ScanKept(q)'
      <4>1. ASSUME pc[q] \in Comparing PROVE Scan(rec'[q], dir', Pending') /\ Covered(q)'
        <5>1. Scan(rec'[q], dir', Pending')
          BY <1>1, <2>5, <3>1, <4>1, FollowsFacts DEF Kept, Working, ScanKept
        <5>2. Covered(q)'
          BY <1>1, <2>1 DEF Covered, Good
        <5> QED
          BY <5>1, <5>2
      <4> QED
        BY <1>1, <4>1 DEF ScanKept
    <3>4. OrphanKept(q)' /\ ClosedFor(q)'
      BY <1>1, <3>1 DEF Kept, Working, OrphanKept, ClosedFor, Follows
    <3> QED
      BY <3>2, <3>3, <3>4
  <2> QED
    BY <1>1, <1>2, <2>1, <2>7, <2>8, StillKept
<1> QED
  BY <1>3, <1>4

LEMMA StopLauncherKept == ASSUME Base, Kept, StopLauncher PROVE Kept'
<1>1. /\ Types /\ pc' = pc /\ job' = job /\ phase = "stop" /\ phase' \in {"release", "stat"}
      /\ UNCHANGED <<dir, stat, rec, lock, orphan, segment, booked, changed>> /\ rec \in [Procs -> Record]
  BY DEF StopLauncher, disk, books, Base, Types, RunTypes
<1>2. Moved' = {} /\ Moved = {} /\ Closed' = {} /\ Closed = {} /\ Awaited' = Awaited
  BY <1>1 DEF Moved, Closed, Awaited
<1>3. Pending' = Pending
  BY <1>1, <1>2 DEF Pending
<1>4. \A q \in Expirers : Doubted(rec'[q], rec[q]) /\ rec[q] \in Record
  BY <1>1, Processes DEF Doubted
<1>5. ASSUME NEW q \in Expirers PROVE ScanKept(q)' /\ OrphanKept(q)' /\ WalkKept(q)' /\ ClosedFor(q)'
  <2>1. WalkKept(q)' /\ (pc'[q] \in Comparing => Scan(rec'[q], dir', Pending'))
    BY <1>1, <1>2, <1>3, <1>4, SameView
  <2>2. pc'[q] \in Comparing => Covered(q)'
    BY <1>1, <1>4, SameCovered DEF Kept, Working, ScanKept
  <2>3. OrphanKept(q)' /\ ClosedFor(q)'
    BY <1>1 DEF Kept, Working, OrphanKept, ClosedFor
  <2> QED
    BY <2>1, <2>2, <2>3 DEF ScanKept
<1>6. \A r \in Record : \A g \in Nat : Accounts(r, g) => Ahead(r, g)
  BY <1>1, <1>2, <1>3 DEF Accounts, Ahead
<1>7. FinalKept' /\ SegmentKept'
  BY <1>1 DEF FinalKept, SegmentKept, Kept
<1> QED
  BY <1>1, <1>4, <1>5, <1>6, <1>7, StillKept

(* Nothing is awaited when the collector has all files in the books and    *)
(* takes them in itself: its record counts every file.                     *)
LEMMA FinalRecord ==
  ASSUME NEW r \in Record, NEW D \in FilesIn, NEW b \in FilesIn, NEW P \in FilesIn, NEW o, o = Taken(r, b),
         Good(o), DOMAIN P = DOMAIN b, \A s \in DOMAIN b : P[s] = b[s],
         \A s \in DOMAIN b \ DOMAIN D : \A t \in DOMAIN D : t > s,
         NEW C, Claims(r, 0, D, P, {}, C), o \in Record
  PROVE  /\ 0 < o.numfiles /\ o.numfiles = Cardinality(DOMAIN D) /\ o.filesize = Wrap(SumFunction(D))
         /\ \A s \in DOMAIN D \cup DOMAIN b : s <= o.last
<1>1. Claims(o, 0, D, NoFiles, {}, {}) /\ \A s \in DOMAIN b : s <= o.last
  <2>1. CASE b = NoFiles
    <3>1. o = r /\ DOMAIN P = {} /\ DOMAIN b = {}
      BY <2>1, NoFilesFacts DEF Taken
    <3>2. P = NoFiles
      BY <3>1, FilesNone
    <3> QED
      BY <3>1, <3>2 DEF Claims
  <2>2. CASE b # NoFiles
    <3>1. \A s \in DOMAIN b : s <= o.last
      BY <2>2, TakenGood
    <3>2. NoFiles \in FilesIn /\ DOMAIN NoFiles = {}
      BY NoFilesFacts
    <3>3. Claims(o, 0, D, NoFiles, {}, {})
      <4> DEFINE M == {}
      <4>1. /\ M \in SUBSET Slots /\ (M = {} \/ \E c : M = {c}) /\ M \cap DOMAIN b = {}
            /\ DOMAIN P = DOMAIN b \cup M /\ (\A s \in DOMAIN b : P[s] = b[s])
            /\ (\A s \in M : P[s] = D[s]) /\ DOMAIN NoFiles = M /\ (\A s \in M : NoFiles[s] = D[s])
            /\ (M \subseteq DOMAIN D => P \in FilesIn /\ NoFiles \in FilesIn)
            /\ Claims(r, 0, D, P, M, C) /\ r \in Record /\ b \in FilesIn /\ D \in FilesIn
            /\ o = Taken(r, b) /\ Good(o) /\ b # NoFiles
            /\ \A s \in DOMAIN b \ DOMAIN D : \A t \in DOMAIN D : t > s
        BY <2>2, <3>2
      <4> HIDE DEF M
      <4>2. Claims(o, 0, D, NoFiles, M, {})
        BY ONLY <4>1, TakenClaims
      <4> QED
        BY <4>2 DEF M
    <3> QED
      BY <3>1, <3>3
  <2> QED
    BY <2>1, <2>2
<1>2. Fresh(o, D, NoFiles, {})
  BY NoFilesFacts DEF Fresh
<1>3. Balanced(o, 0, D, NoFiles) /\ 0 < o.numfiles
  BY <1>1, <1>2 DEF Claims, Filled
<1>4. o.numfiles \in 0 .. SizeModulus - 1 /\ o.filesize \in 0 .. SizeModulus - 1 /\ Cardinality(DOMAIN D) \in Int
      /\ SizeModulus \in Int
  BY FilesFacts, ExpireAssumption DEF Record
<1>5. o.numfiles = Cardinality(DOMAIN D)
  <2>1. Cardinality(DOMAIN NoFiles) = 0
    BY NoFilesFacts, FS_EmptySet
  <2> QED
    BY <1>3, <1>4, <2>1 DEF Balanced
<1>6. o.filesize = Wrap(SumFunction(D))
  <2>1. SumFunction(NoFiles) = 0
    BY NoFilesFacts, SumOfNone
  <2>2. o.filesize + 0 = o.filesize
    BY <1>4
  <2>3. Wrap(o.filesize) = Wrap(SumFunction(D))
    BY <1>3, <2>1, <2>2 DEF Balanced
  <2> QED
    BY <1>4, <2>3, WrapSmall
<1> QED
  BY <1>1, <1>3, <1>5, <1>6, NoFilesFacts DEF Balanced

LEMMA FinalStatKept == ASSUME Base, Kept, FinalStat PROVE Kept'
<1>1. /\ Types /\ pc' = pc /\ job' = job /\ phase = "stat" /\ phase' \in {"release", "truncate"}
      /\ UNCHANGED <<dir, stat, orphan, segment, booked, changed>> /\ rec \in [Procs -> Record]
      /\ \A q \in Expirers : (lock' = q <=> lock = q)
  BY Processes DEF FinalStat, books, Base, Types, RunTypes
<1>2. Moved' = {} /\ Moved = {} /\ Closed' = {} /\ Closed = {} /\ Awaited' = Awaited /\ Awaited = DOMAIN booked
  BY <1>1 DEF Moved, Closed, Awaited
<1>3. Pending' = Pending /\ DOMAIN Pending = DOMAIN booked /\ \A s \in DOMAIN booked : Pending[s] = booked[s]
  BY <1>1, <1>2 DEF Pending
<1>4. \A q \in Expirers : Doubted(rec'[q], rec[q]) /\ rec[q] \in Record
  BY <1>1, CollectorDoubts, Processes DEF Ending
<1>5. ASSUME NEW q \in Expirers PROVE ScanKept(q)' /\ OrphanKept(q)' /\ WalkKept(q)' /\ ClosedFor(q)'
  <2>1. WalkKept(q)' /\ (pc'[q] \in Comparing => Scan(rec'[q], dir', Pending'))
    BY <1>1, <1>2, <1>3, <1>4, SameView
  <2>2. pc'[q] \in Comparing => Covered(q)'
    BY <1>1, <1>4, SameCovered DEF Kept, Working, ScanKept
  <2>3. OrphanKept(q)' /\ ClosedFor(q)'
    BY <1>1, <1>4, DoubtedFollows DEF Kept, Working, OrphanKept, ClosedFor, Follows
  <2> QED
    BY <2>1, <2>2, <2>3 DEF ScanKept
<1>6. \A r \in Record : \A g \in Nat : Accounts(r, g) => Ahead(r, g)
  BY <1>1, <1>2, <1>3 DEF Accounts, Ahead
<1>7. FinalKept'
  <2>1. CASE phase' = "release"
    BY <2>1 DEF FinalKept
  <2>2. CASE phase' = "truncate"
    <3> DEFINE r == Verify(stat.rec)
               o == rec'["collector"]
    <3>1. lock = "none" /\ o = Taken(r, booked)
      <4>1. lock = "none" /\ rec' = [Stale EXCEPT !["collector"] = Taken(r, booked)]
        BY <2>2 DEF FinalStat
      <4>2. Stale \in [Procs -> Record]
        BY <1>1, StaleTypes
      <4> QED
        BY <4>1, <4>2, Processes
    <3>2. stat.rec \in Record /\ r \in Record /\ Follows(r, stat.rec)
      <4>1. stat.rec \in Record
        BY <1>1 DEF Types, DiskTypes
      <4> QED
        BY <4>1, VerifyRecord DEF Follows, Good
    <3>3. dir \in FilesIn /\ booked \in FilesIn /\ clock \in Slots
      BY <1>1 DEF Types, DiskTypes, BookTypes
    <3>4. Accounts(stat.rec, 0)
      BY <3>1, Processes DEF Kept, StatKept
    <3>5. Claims(r, 0, dir, Pending, {}, {})
      BY <1>2, <3>2, <3>4, FollowsFacts DEF Accounts
    <3>6. o \in Record
      <4>1. Taken(r, booked) \in Record
        BY <3>2, <3>3, TakenRecord
      <4> QED
        BY <3>1, <4>1
    <3>7. Pending \in FilesIn
      BY <1>2, <3>3, PendingFiles
    <3>8. \A s \in DOMAIN booked \ DOMAIN dir : \A t \in DOMAIN dir : t > s
      BY DEF Base, Sizes
    <3> HIDE DEF r, o
    <3>9. ASSUME Good(o)
          PROVE  /\ 0 < o.numfiles /\ o.numfiles = Cardinality(DOMAIN dir) /\ o.filesize = Wrap(SumFunction(dir))
                 /\ \A s \in DOMAIN dir \cup DOMAIN booked : s <= o.last
      BY ONLY <1>3, <3>1, <3>2, <3>3, <3>5, <3>6, <3>7, <3>8, <3>9, FinalRecord
    <3> QED
      BY <1>1, <3>9 DEF FinalKept, o
  <2> QED
    BY <1>1, <2>1, <2>2
<1>8. SegmentKept'
  BY <1>1 DEF SegmentKept, Kept
<1> QED
  BY <1>1, <1>4, <1>5, <1>6, <1>7, <1>8, StillKept

LEMMA FinalTruncateKept == ASSUME Base, Kept, FinalTruncate PROVE Kept'
<1>1. /\ Types /\ pc' = pc /\ job' = job /\ phase = "truncate" /\ phase' = "write" /\ ~Good(stat'.rec)
      /\ UNCHANGED <<dir, rec, lock, orphan, segment, booked, changed>> /\ rec \in [Procs -> Record]
  <2>1. stat'.rec = Torn(NoLimits)
    BY DEF FinalTruncate, Base, Types, DiskTypes
  <2> QED
    BY <2>1, TornBad DEF FinalTruncate, books, Base, Types, RunTypes
<1>2. Moved' = {} /\ Moved = {} /\ Closed' = {} /\ Closed = {} /\ Awaited' = Awaited
  BY <1>1 DEF Moved, Closed, Awaited
<1>3. Pending' = Pending
  BY <1>1, <1>2 DEF Pending
<1>4. \A q \in Expirers : Doubted(rec'[q], rec[q]) /\ rec[q] \in Record
  BY <1>1, Processes DEF Doubted
<1>5. ASSUME NEW q \in Expirers PROVE ScanKept(q)' /\ OrphanKept(q)' /\ WalkKept(q)' /\ ClosedFor(q)'
  <2>1. WalkKept(q)' /\ (pc'[q] \in Comparing => Scan(rec'[q], dir', Pending'))
    BY <1>1, <1>2, <1>3, <1>4, SameView
  <2>2. pc'[q] \in Comparing => Covered(q)'
    BY <1>1, <1>4, SameCovered DEF Kept, Working, ScanKept
  <2>3. OrphanKept(q)' /\ ClosedFor(q)'
    BY <1>1 DEF Kept, Working, OrphanKept, ClosedFor
  <2> QED
    BY <2>1, <2>2, <2>3 DEF ScanKept
<1>6. \A r \in Record : \A g \in Nat : Accounts(r, g) => Ahead(r, g)
  BY <1>1, <1>2, <1>3 DEF Accounts, Ahead
<1>7. FinalKept' /\ SegmentKept'
  BY <1>1 DEF FinalKept, SegmentKept, Kept
<1> QED
  BY <1>1, <1>4, <1>5, <1>6, <1>7, StillKept

LEMMA FinalWriteKept == ASSUME Base, Kept, FinalWrite PROVE Kept'
<1>1. /\ Types /\ pc' = pc /\ job' = job /\ phase = "write" /\ phase' = "released"
      /\ stat'.rec = rec["collector"]
      /\ UNCHANGED <<dir, orphan, segment, booked, changed>> /\ rec["collector"] \in Record
      /\ \A q \in Expirers : rec'[q] = rec[q]
  <2>1. \A q \in Expirers : q \in Procs /\ q # "collector"
    BY Processes
  <2>2. stat'.rec = rec["collector"]
    BY DEF FinalWrite, Base, Types, DiskTypes
  <2> QED
    BY <2>1, <2>2, Processes DEF FinalWrite, books, Base, Types, RunTypes
<1>2. lock = "collector" /\ \A q \in Expirers : pc[q] \in {"idle", "lock", "reopen", "relock"}
  BY <1>1, Processes DEF Base, LockHeld
<1>3. ASSUME NEW q \in Expirers PROVE Working(q)'
  <2>1. pc'[q] \in {"idle", "lock", "reopen", "relock"} /\ ~job'[q].nofiles
    BY <1>1, <1>2 DEF Kept, Working, StatLeft
  <2>2. pc'[q] \in {"reopen", "relock"} => ~Good(rec'[q])
    BY <1>1, <1>2, ExpirerNames DEF Base, Stages, Good
  <2> QED
    BY <2>1, <2>2, AwayKept
<1>4. Awaited' = {} /\ Moved' = {} /\ Closed' = DOMAIN booked /\ DOMAIN Pending' = {}
  BY <1>1 DEF Awaited, Moved, Closed, Pending
<1> DEFINE r == rec["collector"]
<1>5. Claims(r, 0, dir, Pending', {}, DOMAIN booked)
  <2>1. SUFFICES ASSUME Good(r)
                 PROVE  Claims(r, 0, dir, Pending', {}, DOMAIN booked)
    BY BadRecord
  <2>2. /\ 0 < r.numfiles /\ r.numfiles = Cardinality(DOMAIN dir) /\ r.filesize = Wrap(SumFunction(dir))
        /\ \A s \in DOMAIN dir \cup DOMAIN booked : s <= r.last
    BY <1>1, <2>1 DEF Kept, FinalKept
  <2>3. dir \in FilesIn
    BY <1>1 DEF Types, DiskTypes
  <2>4. Cardinality(DOMAIN dir) \in Int /\ SumFunction(dir) \in Int
    BY <2>3, FilesFacts
  <2> HIDE DEF r
  <2>5. Filled(r, 0, dir)
    <3>1. {s \in DOMAIN dir : s <= r.last} = DOMAIN dir
      BY <2>2
    <3> QED
      BY <2>2, <2>4, <3>1 DEF Filled
  <2>6. SumFunction(Pending') = 0 /\ Cardinality(DOMAIN Pending') = 0
    BY <1>4, SumOfNone, FS_EmptySet
  <2>7. Wrap(r.filesize + 0) = Wrap(SumFunction(dir))
    <3>1. Wrap(SumFunction(dir)) \in 0 .. SizeModulus - 1 /\ Wrap(Wrap(SumFunction(dir))) = Wrap(SumFunction(dir))
      BY <2>4, WrapWrap
    <3>2. r.filesize + 0 = Wrap(SumFunction(dir))
      BY <2>2, <3>1, ExpireAssumption
    <3> QED
      BY <3>1, <3>2
  <2>8. Balanced(r, 0, dir, Pending')
    BY <2>2, <2>4, <2>6, <2>7 DEF Balanced
  <2> QED
    BY <2>2, <2>5, <2>8 DEF Claims
<1>6. StatKept' /\ StatFilled'
  BY <1>1, <1>4, <1>5 DEF StatKept, StatFilled, Accounts, Claims
<1>7. FinalKept' /\ SegmentKept'
  BY <1>1 DEF FinalKept, SegmentKept, Kept
<1> QED
  BY <1>3, <1>6, <1>7 DEF Kept

LEMMA DestroyBooksKept == ASSUME Base, Kept, DestroyBooks PROVE Kept'
<1>1. /\ Types /\ pc' = pc /\ phase \in {"release", "released"} /\ phase' = "down"
      /\ UNCHANGED <<dir, changed>> /\ rec \in [Procs -> Record] /\ booked' = NoFiles
      /\ orphan' = (IF \E p \in Expirers : job[p].attached = "yes" THEN booked ELSE orphan)
      /\ \A q \in Expirers : (lock' = q <=> lock = q)
  BY Processes DEF DestroyBooks, Base, Types, RunTypes
<1>2. ASSUME NEW q \in Expirers
      PROVE  /\ job'[q].nofiles = job[q].nofiles /\ job'[q].dirty = job[q].dirty
             /\ job'[q].expired = job[q].expired /\ job'[q].walk = job[q].walk
             /\ job'[q].attached = IF job[q].attached = "yes" THEN "orphan" ELSE job[q].attached
  <2>1. job'[q] = IF job[q].attached = "yes" THEN [job[q] EXCEPT !.attached = "orphan"] ELSE job[q]
    BY DEF DestroyBooks
  <2>2. job[q] \in Jobs
    BY <1>1 DEF Types, RunTypes
  <2> QED
    BY <2>1, <2>2 DEF Jobs
<1>3. SegmentKept' /\ FinalKept'
  BY <1>1 DEF SegmentKept, FinalKept
<1>4. CASE Miscount
  BY <1>1, <1>2, <1>3, <1>4, MiscountKept
<1>5. CASE (phase = "release" => booked = NoFiles) /\ UNCHANGED <<stat, rec>>
  <2>1. /\ Awaited = {} /\ Awaited' = {} /\ Moved = {} /\ Moved' = {} /\ Closed' = {}
        /\ (phase = "released" => Closed = DOMAIN booked)
    BY <1>1, <1>5, NoFilesFacts DEF Awaited, Moved, Closed
  <2>2. Pending' = Pending
    BY <2>1 DEF Pending
  <2>3. \A q \in Expirers : Doubted(rec'[q], rec[q]) /\ rec[q] \in Record
    BY <1>1, <1>5, Processes DEF Doubted
  <2>4. \A r \in Record : \A g \in Nat : Accounts(r, g) => Ahead(r, g)
    BY <1>1, <2>1, <2>2 DEF Accounts, Ahead, Claims
  <2>5. ASSUME NEW q \in Expirers PROVE ScanKept(q)' /\ OrphanKept(q)' /\ WalkKept(q)' /\ ClosedFor(q)'
    <3>1. WalkKept(q)' /\ (pc'[q] \in Comparing => Scan(rec'[q], dir', Pending'))
      BY <1>1, <1>2, <2>1, <2>2, <2>3, SameView
    <3>2. Covered(q)'
      BY <1>1, NoFilesFacts DEF Covered
    <3>3. OrphanKept(q)'
      <4> SUFFICES ASSUME pc[q] = "take", job'[q].attached = "orphan", Good(rec[q])
                   PROVE  \A s \in DOMAIN orphan' : s <= rec[q].last
        BY <1>1, <1>5 DEF OrphanKept
      <4>1. pc["launcher"] = "idle" /\ job["launcher"].attached = "no" /\ q = "nfexpire"
        <5>1. pc["launcher"] = "idle"
          BY <1>1 DEF Base, Sessions
        <5>2. job["launcher"].attached = "no"
          BY <5>1, NoJobFacts, Processes DEF Base, Stages
        <5> QED
          BY <5>1, <5>2, ExpirerNames
      <4>2. CASE job["nfexpire"].attached = "yes"
        <5>1. orphan' = booked
          BY <1>1, <4>2, Processes
        <5>2. CASE phase = "release"
          BY <1>5, <5>1, <5>2, NoFilesFacts
        <5>3. CASE phase = "released"
          <6>1. Accounts(rec[q], job[q].expired)
            BY DEF Kept, Working, RecKept, Counting
          <6> QED
            BY <2>1, <5>1, <5>3, <6>1 DEF Accounts, Claims
        <5> QED
          BY <1>1, <5>2, <5>3
      <4>3. CASE job["nfexpire"].attached # "yes"
        <5>1. orphan' = orphan
          BY <1>1, <4>1, <4>3, ExpirerNames
        <5>2. job[q].attached = "orphan"
          BY <1>2, <4>1, <4>3
        <5> QED
          BY <5>1, <5>2 DEF Kept, Working, OrphanKept
      <4> QED
        BY <4>2, <4>3
    <3>4. ClosedFor(q)'
      BY <1>1 DEF ClosedFor
    <3> QED
      BY <3>1, <3>2, <3>3, <3>4 DEF ScanKept
  <2> QED
    BY <1>1, <1>2, <1>3, <1>5, <2>3, <2>4, <2>5, StillKept
<1> QED
  BY <1>4, <1>5 DEF DestroyBooks

LEMMA KillCollectorKept == ASSUME Base, Kept, KillCollector PROVE Kept'
<1>1. /\ Types /\ pc' = pc /\ job' = job /\ phase' = "down"
      /\ UNCHANGED <<dir, orphan, segment, booked, changed, clock>> /\ rec \in [Procs -> Record]
      /\ \A q \in Expirers : (lock' = q <=> lock = q)
  BY Processes DEF KillCollector, Base, Types, RunTypes
<1>2. SegmentKept' /\ FinalKept'
  BY <1>1 DEF SegmentKept, FinalKept
<1>3. CASE Miscount
  BY <1>1, <1>2, <1>3, MiscountKept
<1>4. CASE Moved = {} /\ UNCHANGED <<stat, rec>>
  <2>1. Moved = {} /\ Moved' = {} /\ Closed' = {} /\ Awaited' = DOMAIN booked
        /\ Awaited = (IF phase = "released" THEN {} ELSE DOMAIN booked)
        /\ (phase = "released" => Closed = DOMAIN booked)
    BY <1>1, <1>4 DEF Awaited, Moved, Closed
  <2>2. phase # "released" => Pending' = Pending
    BY <1>1, <2>1 DEF Pending
  <2>3. \A q \in Expirers : Doubted(rec'[q], rec[q]) /\ rec[q] \in Record
    BY <1>1, <1>4, Processes DEF Doubted
  <2>4. DOMAIN Pending = Awaited /\ DOMAIN Pending' = DOMAIN booked
    BY <2>1 DEF Pending
  <2>5. DOMAIN booked \subseteq Int /\ \A r \in Record : r.last \in Int
    <3>1. booked \in FilesIn
      BY <1>1 DEF Types, BookTypes
    <3> QED
      BY <3>1, FilesFacts, ExpireAssumption DEF Record
  <2>6. ASSUME NEW r \in Record, NEW g \in Nat, Accounts(r, g), phase = "released"
        PROVE  /\ Fresh(r, dir', Pending', Moved') => Pending' = Pending /\ Fresh(r, dir, Pending, Moved)
               /\ Ahead(r, g)
    <3>1. Good(r) => \A s \in DOMAIN booked : s <= r.last
      BY <2>1, <2>6 DEF Accounts, Claims
    <3>2. ASSUME Fresh(r, dir', Pending', Moved')
          PROVE  Pending' = Pending /\ Fresh(r, dir, Pending, Moved)
      <4>1. \A s \in DOMAIN booked : s > r.last /\ s <= r.last /\ s \in Int /\ r.last \in Int
        BY <2>4, <2>5, <3>1, <3>2 DEF Fresh
      <4>2. DOMAIN booked = {}
        <5>1. ASSUME NEW s \in DOMAIN booked PROVE FALSE
          BY <4>1
        <5> QED
          BY <5>1
      <4>3. Awaited' = Awaited
        BY <2>1, <4>2
      <4>4. Pending' = Pending
        BY <1>1, <2>1, <4>3 DEF Pending
      <4> QED
        BY <1>1, <2>1, <3>2, <4>4
    <3>3. Fresh(r, dir', Pending', Moved') => Balanced(r, g, dir', Pending')
      BY <1>1, <2>6, <3>2 DEF Accounts, Claims
    <3>4. Ahead(r, g)
      BY <1>1, <2>1, <2>6, <3>3 DEF Accounts, Ahead, Claims
    <3> QED
      BY <3>2, <3>4
  <2>7. ASSUME NEW r \in Record, NEW g \in Nat, Accounts(r, g) PROVE Ahead(r, g)
    <3>1. CASE phase = "released"
      BY <2>6, <2>7, <3>1
    <3>2. CASE phase # "released"
      BY <1>1, <2>1, <2>2, <2>7, <3>2 DEF Accounts, Ahead, Claims
    <3> QED
      BY <3>1, <3>2
  <2>8. ASSUME NEW q \in Expirers PROVE ScanKept(q)' /\ OrphanKept(q)' /\ WalkKept(q)' /\ ClosedFor(q)'
    <3>1. CASE phase # "released"
      <4>1. WalkKept(q)' /\ (pc'[q] \in Comparing => Scan(rec'[q], dir', Pending'))
        BY <1>1, <2>1, <2>2, <2>3, <3>1, SameView
      <4>2. pc'[q] \in Comparing => Covered(q)'
        BY <1>1, <2>3, SameCovered DEF Kept, Working, ScanKept
      <4> QED
        BY <1>1, <1>4, <4>1, <4>2 DEF Kept, Working, ScanKept, OrphanKept, ClosedFor
    <3>2. CASE phase = "released"
      <4>1. WalkKept(q)'
        <5>1. ASSUME pc[q] = "unlink", Fresh(rec[q], dir', Pending', Moved')
              PROVE  Fresh(rec[q], dir, Pending, Moved)
          <6>1. Accounts(rec[q], job[q].expired) /\ job[q].expired \in Nat
            BY <1>1, <5>1 DEF Kept, Working, RecKept, Counting, Types, RunTypes, Jobs
          <6> QED
            BY <2>3, <2>6, <3>2, <5>1, <6>1
        <5> QED
          BY <1>1, <1>4, <5>1 DEF Kept, Working, WalkKept
      <4>2. ScanKept(q)'
        <5>1. ASSUME pc[q] \in Comparing PROVE Scan(rec[q], dir, Pending') /\ Covered(q)'
          <6>1. Scan(rec[q], dir, Pending) /\ Covered(q)
            BY <5>1 DEF Kept, Working, ScanKept
          <6>2. job[q].attached = "yes" /\ (pc[q] # "clear" => ~changed)
            BY <3>2, <5>1 DEF Kept, Working, ClosedFor, Comparing
          <6>3. Covered(q)'
            BY <1>1, <1>4, <6>1 DEF Covered
          <6>4. Scan(rec[q], dir, Pending')
            <7>1. SUFFICES ASSUME Good(rec[q]) PROVE Scan(rec[q], dir, Pending')
              BY BadRecord
            <7>2. \A s \in DOMAIN booked : s <= rec[q].last /\ s \in Int /\ rec[q].last \in Int
              BY <2>3, <2>5, <6>1, <6>2, <7>1 DEF Covered
            <7>3. \A s \in DOMAIN booked : ~(s > rec[q].last)
              BY <7>2
            <7>4. {s \in DOMAIN Pending' : s > rec[q].last} = {}
              BY <2>4, <7>3
            <7>5. Newer(rec[q], dir) = {}
              BY <2>1, <2>4, <3>2, <6>1, <7>1 DEF Scan
            <7> QED
              BY <6>1, <7>1, <7>4, <7>5 DEF Scan
          <6> QED
            BY <6>3, <6>4
        <5> QED
          BY <1>1, <1>4, <5>1 DEF ScanKept
      <4> QED
        BY <1>1, <1>4, <4>1, <4>2 DEF Kept, Working, OrphanKept, ClosedFor
    <3> QED
      BY <3>1, <3>2
  <2> QED
    BY <1>1, <1>2, <1>4, <2>3, <2>7, <2>8, StillKept
<1> QED
  BY <1>3, <1>4 DEF KillCollector

-------------------------------------------------------------------------------
(* Runs of do_expire and nfexpire that start, and nfexpire killed          *)

LEMMA StartsKept == ASSUME Base, Kept, DoExpire \/ NfExpire PROVE Kept'
<1>1. PICK p \in Expirers : /\ pc[p] = "idle" /\ pc'[p] = "lock"
                            /\ \A q \in Expirers : q # p => pc'[q] = pc[q] /\ job'[q] = job[q]
                            /\ ~job'[p].nofiles
  <2>1. Types /\ \A q \in Expirers : pc[q] = "idle" => job[q] = NoJob
    BY DEF Base, Stages
  <2>2. CASE DoExpire
    <3>1. /\ pc["launcher"] = "idle" /\ pc' = [pc EXCEPT !["launcher"] = "lock"]
          /\ job' = [job EXCEPT !["launcher"].fresh = ~stat.exists] /\ job["launcher"] = NoJob
      BY <2>1, <2>2, Processes DEF DoExpire, Go
    <3>2. job["launcher"] \in Jobs /\ ~job["launcher"].nofiles
      BY <3>1, NoJobFacts DEF NoJob
    <3>3. ~job'["launcher"].nofiles
      BY <2>1, <3>1, <3>2, Processes DEF Jobs, Types, RunTypes
    <3> QED
      BY <2>1, <3>1, <3>3, Processes DEF Types, RunTypes
  <2>3. CASE NfExpire
    <3>1. PICK m \in Modes : \E l \in Limits \cup {NoLimits} :
            job' = [job EXCEPT !["nfexpire"] =
                          [job["nfexpire"] EXCEPT !.mode = m, !.limits = l, !.fresh = ~stat.exists]]
      BY <2>3 DEF NfExpire
    <3>2. PICK l \in Limits \cup {NoLimits} :
            job' = [job EXCEPT !["nfexpire"] =
                          [job["nfexpire"] EXCEPT !.mode = m, !.limits = l, !.fresh = ~stat.exists]]
      BY <3>1
    <3>3. /\ pc["nfexpire"] = "idle" /\ pc' = [pc EXCEPT !["nfexpire"] = "lock"]
          /\ job["nfexpire"] = NoJob
      BY <2>1, <2>3, Processes DEF NfExpire, Go
    <3>4. job["nfexpire"] \in Jobs /\ ~job["nfexpire"].nofiles
      BY <3>3, NoJobFacts DEF NoJob
    <3>5. ~job'["nfexpire"].nofiles
      BY <2>1, <3>2, <3>4, Processes DEF Jobs, Types, RunTypes
    <3>6. \A q \in Expirers : q # "nfexpire" => pc'[q] = pc[q] /\ job'[q] = job[q]
      BY <2>1, <3>2, <3>3 DEF Types, RunTypes
    <3> QED
      BY <2>1, <3>3, <3>5, <3>6, Processes DEF Types, RunTypes
  <2> QED
    BY <2>2, <2>3
<1>2. /\ UNCHANGED <<dir, lock, booked, orphan, changed, segment, phase, clock, rec>> /\ stat'.rec = stat.rec
      /\ lock # p
  <2>1. UNCHANGED <<dir, lock, booked, orphan, changed, segment, phase, clock, rec>>
    BY DEF DoExpire, NfExpire, books, owner
  <2>2. stat'.rec = stat.rec
    BY DEF DoExpire, NfExpire, Base, Types, DiskTypes
  <2> QED
    BY <1>1, <2>1, <2>2 DEF Base, LockHeld
<1>3. Pending' = Pending /\ Moved' = Moved /\ Closed' = Closed
  BY <1>2, Frame
<1>4. ASSUME NEW q \in Expirers PROVE Working(q)'
  <2>1. CASE q = p
    BY <1>1, <2>1, AwayKept
  <2>2. CASE q # p
    BY <1>1, <1>2, <1>3, <2>2
    DEF Kept, Working, StatLeft, RecKept, ScanKept, Covered, OrphanKept, WalkKept, ClosedFor, Accounts
  <2> QED
    BY <2>1, <2>2
<1>5. StatKept'
  BY <1>1, <1>2, <1>3 DEF Kept, StatKept, Accounts
<1>6. StatFilled'
  BY <1>1, <1>2, <1>3 DEF Kept, StatFilled
<1>7. FinalKept' /\ SegmentKept'
  BY <1>2 DEF Kept, FinalKept, SegmentKept
<1> QED
  BY <1>4, <1>5, <1>6, <1>7 DEF Kept

LEMMA KillNfExpireKept == ASSUME Base, Kept, KillNfExpire PROVE Kept'
<1> DEFINE p == "nfexpire"
<1>1. /\ Types /\ p \in Expirers /\ p # "none" /\ p # "collector" /\ p \in Procs
      /\ UNCHANGED <<dir, booked, orphan, changed, segment, phase, clock>> /\ Quit(p)
      /\ lock' = IF lock = p THEN "none" ELSE lock
  BY Processes DEF KillNfExpire, owner, Base
<1>2. /\ pc'[p] = "idle" /\ job'[p] = NoJob /\ \A q \in Expirers : q # p => pc'[q] = pc[q] /\ job'[q] = job[q]
      /\ \A q \in Procs : q # p => rec'[q] = rec[q]
  BY <1>1, QuitTypes DEF Types
<1>3. Pending' = Pending /\ Moved' = Moved /\ Closed' = Closed
  BY <1>1, Frame
<1>4. /\ Follows(stat'.rec, stat.rec)  \/ ~Good(stat'.rec)
      /\ Good(stat'.rec) => ~job[p].dirty
  <2>1. CASE pc[p] = "write"
    <3>1. \E l : stat' = [stat EXCEPT !.rec = Torn(l)]
      BY <2>1 DEF KillNfExpire
    <3>2. \E l : stat'.rec = Torn(l)
      BY <1>1, <3>1 DEF Types, DiskTypes
    <3> QED
      BY <3>2 DEF Good, Torn
  <2>2. CASE pc[p] # "write"
    <3>1. stat' = [stat EXCEPT !.rec.exact = @ /\ ~job[p].dirty /\ pc[p] # "overwrite"]
      BY <2>2 DEF KillNfExpire
    <3> DEFINE e == stat.rec.exact /\ ~job[p].dirty /\ pc[p] # "overwrite"
    <3>2. stat'.rec = [stat.rec EXCEPT !.exact = e] /\ stat.rec \in Record
      BY <1>1, <3>1 DEF Types, DiskTypes
    <3> HIDE DEF e
    <3>3. /\ stat'.rec.exact = e /\ stat'.rec.rebuild = stat.rec.rebuild /\ stat'.rec.last = stat.rec.last
          /\ stat'.rec.numfiles = stat.rec.numfiles /\ stat'.rec.filesize = stat.rec.filesize
      BY <3>2 DEF Record
    <3>4. e => stat.rec.exact /\ ~job[p].dirty
      BY DEF e
    <3> QED
      BY <3>3, <3>4 DEF Follows, Good
  <2> QED
    BY <2>1, <2>2
<1> HIDE DEF p
<1>5. ASSUME NEW q \in Expirers PROVE Working(q)'
  <2>1. CASE q = p
    <3>1. ~job'[p].nofiles
      BY <1>2 DEF NoJob
    <3> QED
      BY <1>2, <2>1, <3>1, AwayKept
  <2>2. CASE q # p
    <3>1. rec'[q] = rec[q] /\ pc'[q] = pc[q] /\ job'[q] = job[q] /\ (Good(stat'.rec) => Good(stat.rec))
      BY <1>2, <1>4, <2>2, Processes DEF Follows
    <3> QED
      BY <1>1, <1>3, <3>1
      DEF Kept, Working, StatLeft, RecKept, ScanKept, Covered, OrphanKept, WalkKept, ClosedFor, Accounts
  <2> QED
    BY <2>1, <2>2
<1>6. StatKept'
  <2>1. CASE ~Good(stat'.rec)
    BY <2>1, BadRecord DEF StatKept, Accounts
  <2>2. CASE Good(stat'.rec)
    <3>1. ASSUME \A q \in Expirers : lock' = q => ~job'[q].dirty PROVE Accounts(stat.rec, 0)
      <4>1. ASSUME NEW q \in Expirers, lock = q PROVE ~job[q].dirty
        BY <1>1, <1>2, <1>4, <2>2, <3>1, <4>1
      <4> QED
        BY <4>1 DEF Kept, StatKept
    <3> QED
      BY <1>1, <1>3, <1>4, <2>2, <3>1, FollowsFacts DEF StatKept, Accounts
  <2> QED
    BY <2>1, <2>2
<1>7. StatFilled'
  <2>1. CASE ~Good(stat'.rec)
    BY <2>1, BadRecord DEF StatFilled
  <2>2. CASE Good(stat'.rec)
    <3>1. ASSUME \A q \in Expirers : lock' = q => ~job'[q].dirty \/ pc'[q] \in Early
          PROVE  Filled(stat.rec, 0, dir)
      <4>1. ASSUME NEW q \in Expirers, lock = q PROVE ~job[q].dirty \/ pc[q] \in Early
        BY <1>1, <1>2, <1>4, <2>2, <3>1, <4>1
      <4> QED
        BY <4>1 DEF Kept, StatFilled
    <3> QED
      BY <1>1, <1>4, <2>2, <3>1, FollowsFacts DEF StatFilled
  <2> QED
    BY <2>1, <2>2
<1>8. FinalKept' /\ SegmentKept'
  <2>1. rec'["collector"] = rec["collector"]
    BY <1>1, <1>2, Processes
  <2> QED
    BY <1>1, <2>1 DEF Kept, FinalKept, SegmentKept
<1> QED
  BY <1>5, <1>6, <1>7, <1>8 DEF Kept

LEMMA KeptKept == ASSUME Base, Kept, [Next]_vars PROVE Kept'
<1>1. CASE UNCHANGED vars
  <2>1. UNCHANGED <<clock, dir, stat, lock, segment, booked, orphan, changed, phase, pc, job, rec>>
    BY <1>1 DEF vars, disk, books, owner, bounds
  <2>2. Pending' = Pending /\ Moved' = Moved /\ Closed' = Closed
    BY <2>1, Frame
  <2> QED
    BY <2>1, <2>2
    DEF Kept, StatKept, StatFilled, FinalKept, SegmentKept, Working, StatLeft, RecKept, ScanKept, Covered,
        OrphanKept, WalkKept, ClosedFor, Accounts
<1>2. CASE Next
  BY <1>2, StartCollectorKept, MoveFileKept, UpdateBooksKept, StopLauncherKept, FinalStatKept,
     FinalTruncateKept, FinalWriteKept, DestroyBooksKept, StartsKept, ExpirerKept, KillNfExpireKept,
     KillCollectorKept DEF Next, Ending
<1> QED
  BY <1>1, <1>2

LEMMA KeptInit == ASSUME Init PROVE Kept
<1>1. /\ stat.rec = Torn(NoLimits) /\ phase = "down"
      /\ \A p \in Expirers : pc[p] = "idle" /\ job[p] = NoJob
  BY DEF Init
<1>2. StatKept /\ StatFilled
  BY <1>1, TornBad, BadRecord DEF StatKept, StatFilled, Accounts
<1>3. FinalKept /\ SegmentKept
  BY <1>1 DEF FinalKept, SegmentKept
<1>4. ASSUME NEW p \in Expirers PROVE Working(p)
  <2>1. pc[p] = "idle" /\ ~job[p].nofiles
    BY <1>1 DEF NoJob
  <2> QED
    BY <2>1 DEF Working, StatLeft, RecKept, ScanKept, OrphanKept, WalkKept, ClosedFor, Counting, Comparing
<1> QED
  BY <1>2, <1>3, <1>4 DEF Kept

-------------------------------------------------------------------------------
(* What the runs check                                                     *)

(* A good record that ends before the books counts what is not in them.    *)
LEMMA AccountsCount ==
  ASSUME Types, Moved = {}, NEW r \in Record, NEW g, Good(r), Continues(r), Accounts(r, g)
  PROVE  Counts(r, g)
<1>1. dir \in FilesIn /\ booked \in FilesIn /\ r.last \in Nat
  BY DEF Types, DiskTypes, BookTypes, Record
<1>2. \A s \in DOMAIN booked : s \in Nat /\ s > r.last
  BY <1>1, FilesFacts DEF Continues
<1>3. Awaited = DOMAIN booked
  <2>1. CASE phase # "released"
    BY <2>1 DEF Awaited
  <2>2. CASE phase = "released"
    <3>1. \A s \in DOMAIN booked : s <= r.last
      BY <2>2 DEF Accounts, Claims, Closed
    <3>2. ASSUME NEW s \in DOMAIN booked PROVE FALSE
      <4>1. s \in Nat /\ s > r.last /\ s <= r.last
        BY <1>2, <3>1
      <4> QED
        BY <1>1, <4>1
    <3> QED
      BY <2>2, <3>2 DEF Awaited
  <2> QED
    BY <2>1, <2>2
<1>4. DOMAIN Pending = DOMAIN booked /\ \A s \in DOMAIN booked : Pending[s] = booked[s]
  BY <1>3 DEF Pending
<1>5. SumFunction(Pending) = SumFunction(booked)
  <2>1. IsFiniteSet(DOMAIN booked)
    BY <1>1, FilesFacts
  <2> QED
    BY ONLY <1>4, <2>1, SumAgrees
<1>6. Fresh(r, dir, Pending, Moved)
  BY <1>2, <1>4 DEF Fresh
<1>7. Balanced(r, g, dir, Pending)
  BY <1>6 DEF Accounts, Claims
<1> QED
  BY <1>4, <1>5, <1>7 DEF Balanced, Counts

LEMMA BaseTypes == ASSUME Base PROVE TypeOK
<1>1. /\ Types /\ Sessions /\ Sizes /\ clock \in Slots /\ clock \in 0 .. MaxSlot /\ MaxSlot \in Nat
      /\ events \in 0 .. MaxEvents /\ MaxEvents \in Nat
  BY ExpireAssumption, SlotNumbers DEF Base, Types, DiskTypes, RunTypes
<1>2. DOMAIN dir \subseteq Slots /\ DOMAIN booked \subseteq Slots /\ DOMAIN orphan \subseteq Slots
  BY <1>1, FilesFacts DEF Types, DiskTypes, BookTypes
<1>3. \A s \in DOMAIN dir : dir[s] \in 1 .. MaxEvents
  BY <1>1 DEF Sizes
<1>4. messages \in 0 .. MaxSlot
  BY <1>1 DEF Sessions, Types, RunTypes
<1>5. \A p \in Expirers : job[p].attached \in {"no", "yes", "orphan"} /\ job[p].loop \in 0 .. 2
  BY <1>1 DEF Types, RunTypes, Jobs
<1> QED
  BY <1>1, <1>2, <1>3, <1>4, <1>5 DEF TypeOK, Types, DiskTypes, BookTypes, RunTypes, Phases

LEMMA ExpiryCounts == ASSUME Base, Kept PROVE ExpiryAccounts
<1>1. SUFFICES ASSUME NEW p \in Expirers, pc[p] = "unlink", Moved = {}, rec[p].exact, ~rec[p].rebuild,
                      Continues(rec[p])
               PROVE  Counts(rec[p], job[p].expired)
  BY DEF ExpiryAccounts
<1>2. Accounts(rec[p], job[p].expired)
  BY <1>1 DEF Kept, Working, RecKept, Counting
<1>3. Types /\ rec[p] \in Record /\ Good(rec[p])
  BY <1>1, Processes DEF Base, Types, RunTypes, Good
<1> QED
  BY <1>1, <1>2, <1>3, AccountsCount

LEMMA StatCounts == ASSUME Base, Kept PROVE StatAccounts
<1>1. SUFFICES ASSUME lock = "none", Moved = {}, ~Verify(stat.rec).rebuild, stat.rec.exact,
                      Continues(stat.rec)
               PROVE  Counts(stat.rec, 0)
  BY DEF StatAccounts
<1>2. Types /\ stat.rec \in Record
  BY DEF Base, Types, DiskTypes
<1>3. Good(stat.rec)
  BY <1>1, <1>2, VerifyRecord DEF Good
<1>4. Accounts(stat.rec, 0)
  BY <1>1, Processes DEF Kept, StatKept
<1> QED
  BY <1>1, <1>2, <1>3, <1>4, AccountsCount

(* What the records count is kept by every step of the launcher's          *)
(* do_expire, of nfexpire and of the collector, and by their deaths.       *)
THEOREM ExpireInductive == Spec => [](Base /\ Kept)
<1>1. Init => Base /\ Kept
  BY BaseInit, KeptInit
<1>2. Base /\ Kept /\ [Next]_vars => (Base /\ Kept)'
  BY BaseKept, KeptKept
<1> QED
  BY <1>1, <1>2, PTL DEF Spec

(* Whoever has read .nfstat to write it holds its lock until it is written *)
(* and nobody takes books out of the segment without it; while ExpireDir   *)
(* unlinks, the record it works on and the books count exactly the files   *)
(* that are in the directory and those it has removed.                     *)
THEOREM ExpireConsistent == Spec => []IInv
<1>1. Base /\ Kept => IInv
  BY BaseTypes, ExpiryCounts DEF IInv, Base
<1> QED
  BY <1>1, ExpireInductive, PTL

(* The .nfstat that ReadStatInfo will believe, when nobody holds its lock, *)
(* counts exactly the files of the directory that the books do not have,   *)
(* in number and in size, whatever RotateFlowFiles, do_expire, nfexpire    *)
(* and the end of the collector have done to it and in what order, unless  *)
(* one of the events that are known to make it miscount has happened.      *)
THEOREM StatAccountsKept == Spec => []StatAccounts
<1>1. Base /\ Kept => StatAccounts
  BY StatCounts
<1> QED
  BY <1>1, ExpireInductive, PTL

===============================================================================
