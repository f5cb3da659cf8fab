---------------------------- MODULE WorkerProofs ----------------------------
(***************************************************************************)
(* Theorems about the two ends of a worker: the scheduler that admits its  *)
(* job, and the adapter that runs it.  The two share no state; each        *)
(* theorem is about the specification that it names.                       *)
(*                                                                         *)
(* Scheduler: for every number of jobs, every plan, every parallelism and  *)
(* every machine.                                                          *)
(*                                                                         *)
(* AdapterRun: for every set of adapters and any number of attempts.  The  *)
(* programs are data: what the proofs need of them is stated once (Shape,  *)
(* Roles, ToldOnce, ReadFirst, CommitsLast, Places) and proved for each of *)
(* the twenty-one.  The steps are sorted into those that move on, those    *)
(* that stop the run and the one that skips, and the invariant is proved   *)
(* from these three effects alone.                                         *)
(***************************************************************************)
EXTENDS Scheduler, AdapterRun, FiniteSetTheorems, WellFoundedInduction, TLAPS

-----------------------------------------------------------------------------
(* The scheduler: SchedulerSpec.                                           *)

\* The class of a request is one of the six: the maximum that Class takes
\* exists.
LEMMA ClassType == ASSUME NEW steps \in Seq(StepKind) PROVE Class(steps) \in WorkClass
<1> DEFINE classes == {"lightweight"} \cup {StepClass[steps[i]] : i \in DOMAIN steps}
           best(c) == c \in classes /\ \A d \in classes : Rank[d] <= Rank[c]
<1>1. classes \subseteq WorkClass
  <2>1. \A i \in DOMAIN steps : steps[i] \in StepKind
    OBVIOUS
  <2>2. \A k \in StepKind : StepClass[k] \in WorkClass
    BY DEF StepKind, StepClass, WorkClass
  <2> QED
    BY <2>1, <2>2 DEF WorkClass
<1>2. \E c \in classes : \A d \in classes : Rank[d] <= Rank[c]
  <2>1. \A d \in WorkClass : Rank[d] \in 0..5
    BY DEF Rank, WorkClass
  <2>2. /\ Rank["lightweight"] = 0 /\ Rank["io"] = 1 /\ Rank["cpu"] = 2
        /\ Rank["memory"] = 3 /\ Rank["gpu"] = 4 /\ Rank["serial"] = 5
    BY DEF Rank, WorkClass
  <2> HIDE DEF classes
  <2>3. "lightweight" \in classes
    BY DEF classes
  <2>4. \A d \in classes : d = "lightweight" \/ d = "io" \/ d = "cpu" \/ d = "memory"
                             \/ d = "gpu" \/ d = "serial"
    BY ONLY <1>1 DEF WorkClass
  <2>5. CASE "serial" \in classes
    BY ONLY <2>2, <2>4, <2>5
  <2>6. CASE "serial" \notin classes /\ "gpu" \in classes
    BY ONLY <2>2, <2>4, <2>6
  <2>7. CASE "serial" \notin classes /\ "gpu" \notin classes /\ "memory" \in classes
    BY ONLY <2>2, <2>4, <2>7
  <2>8. CASE /\ "serial" \notin classes /\ "gpu" \notin classes /\ "memory" \notin classes
             /\ "cpu" \in classes
    BY ONLY <2>2, <2>4, <2>8
  <2>9. CASE /\ "serial" \notin classes /\ "gpu" \notin classes /\ "memory" \notin classes
             /\ "cpu" \notin classes
    BY ONLY <2>2, <2>3, <2>4, <2>9
  <2> QED
    BY ONLY <2>5, <2>6, <2>7, <2>8, <2>9
<1> HIDE DEF classes
<1>3. (CHOOSE c \in classes : \A d \in classes : Rank[d] <= Rank[c]) \in classes
  BY <1>2
<1> QED
  BY <1>1, <1>3 DEF Class, classes

-----------------------------------------------------------------------------
(* Sums over finite sets.  What the fold of FiniteSetsExt computes is a      *)
(* function given by an equation on itself: that there is one, that it does *)
(* not depend on the set it is asked for, and that it may be taken apart at *)
(* any element is shown by looking at a smallest set where it would fail.   *)

\* Every set of numbers that is not empty has a least one.
LEMMA LeastNumber ==
    ASSUME NEW T, T \subseteq Nat, T # {}
    PROVE  \E x \in T : \A y \in T : ~(y < x)
<1> DEFINE Less == OpToRel(<, Nat)
<1>1. \A x, y \in Nat : y < x => <<y, x>> \in Less
  BY DEF OpToRel
<1>2. IsWellFoundedOn(Less, Nat)
  BY NatLessThanWellFounded
<1> HIDE DEF Less
<1>3. \E x \in T : \A y \in T : ~(<<y, x>> \in Less)
  BY <1>2, WFMin
<1> QED BY <1>1, <1>3

\* Among subsets of a finite set one has no other below it.
LEMMA SmallestSet ==
    ASSUME NEW S, IsFiniteSet(S), NEW B, B \subseteq SUBSET S, B # {}
    PROVE  \E s \in B : \A t \in B : ~(t \subseteq s /\ t # s)
<1> DEFINE Sizes == {Cardinality(s) : s \in B}
<1>1. \A s \in B : IsFiniteSet(s) /\ Cardinality(s) \in Nat
  BY FS_Subset, FS_CardinalityType
<1>2. Sizes \subseteq Nat /\ Sizes # {}
  BY <1>1
<1>3. PICK n \in Sizes : \A m \in Sizes : ~(m < n)
  <2> HIDE DEF Sizes
  <2> QED BY <1>2, LeastNumber
<1>4. PICK s \in B : n = Cardinality(s)
  BY <1>3
<1>5. ASSUME NEW t \in B, t \subseteq s, t # s PROVE FALSE
  <2>1. Cardinality(t) < Cardinality(s)
    BY <1>1, <1>5, FS_Subset, FS_CardinalityType
  <2> QED BY <1>3, <1>4, <2>1
<1> QED BY <1>5

Chosen(s) == CHOOSE x \in s : TRUE

\* g is the sum of w over every subset of S, as the fold of FiniteSetsExt forms it
IsSum(g, w, S) ==
    g = [s \in SUBSET S |-> IF s = {} THEN 0 ELSE w[Chosen(s)] + g[s \ {Chosen(s)}]]

LEMMA SumAt ==
    ASSUME NEW S, NEW w, NEW g, IsSum(g, w, S), NEW s \in SUBSET S
    PROVE  /\ s = {} => g[s] = 0
           /\ s # {} => /\ Chosen(s) \in s
                        /\ g[s] = w[Chosen(s)] + g[s \ {Chosen(s)}]
<1>1. g[s] = IF s = {} THEN 0 ELSE w[Chosen(s)] + g[s \ {Chosen(s)}]
  BY DEF IsSum
<1> QED BY <1>1 DEF Chosen

\* The sum over a subset is the same in both.
LEMMA SumUnique ==
    ASSUME NEW S, IsFiniteSet(S), NEW R \in SUBSET S, NEW w, NEW g, NEW h,
           IsSum(g, w, S), IsSum(h, w, R)
    PROVE  \A s \in SUBSET R : g[s] = h[s]
<1> DEFINE B == {s \in SUBSET R : g[s] # h[s]}
<1>1. SUFFICES ASSUME B # {} PROVE FALSE
  OBVIOUS
<1>2. B \subseteq SUBSET S
  OBVIOUS
<1>3. PICK s \in B : \A t \in B : ~(t \subseteq s /\ t # s)
  <2> HIDE DEF B
  <2> QED BY <1>1, <1>2, SmallestSet
<1>4. s \in SUBSET R /\ s \in SUBSET S /\ g[s] # h[s]
  OBVIOUS
<1>5. s # {} /\ Chosen(s) \in s
  BY <1>4, SumAt
<1>6. s \ {Chosen(s)} \in SUBSET R /\ s \ {Chosen(s)} # s
  BY <1>4, <1>5
<1>7. g[s \ {Chosen(s)}] = h[s \ {Chosen(s)}]
  BY <1>3, <1>6
<1> QED BY <1>4, <1>5, <1>7, SumAt

LEMMA SumType ==
    ASSUME NEW S, IsFiniteSet(S), NEW w, \A x \in S : w[x] \in Nat, NEW g, IsSum(g, w, S)
    PROVE  \A s \in SUBSET S : g[s] \in Nat
<1> DEFINE B == {s \in SUBSET S : g[s] \notin Nat}
<1>1. SUFFICES ASSUME B # {} PROVE FALSE
  OBVIOUS
<1>3. PICK s \in B : \A t \in B : ~(t \subseteq s /\ t # s)
  <2>1. B \subseteq SUBSET S
    OBVIOUS
  <2> HIDE DEF B
  <2> QED BY <1>1, <2>1, SmallestSet
<1>4. s \in SUBSET S /\ g[s] \notin Nat
  OBVIOUS
<1>5. s # {} /\ Chosen(s) \in s
  BY <1>4, SumAt
<1>6. g[s \ {Chosen(s)}] \in Nat
  BY <1>3, <1>4, <1>5
<1>7. g[s] = w[Chosen(s)] + g[s \ {Chosen(s)}]
  BY <1>4, <1>5, SumAt
<1> QED BY <1>4, <1>5, <1>6, <1>7

\* There is a sum over every finite set.
LEMMA SumExists ==
    ASSUME NEW S, IsFiniteSet(S), NEW w
    PROVE  \E g : IsSum(g, w, S)
<1> DEFINE B == {R \in SUBSET S : ~\E g : IsSum(g, w, R)}
<1>1. SUFFICES ASSUME B # {} PROVE FALSE
  OBVIOUS
<1>2. PICK R \in B : \A t \in B : ~(t \subseteq R /\ t # R)
  <2>1. B \subseteq SUBSET S
    OBVIOUS
  <2> HIDE DEF B
  <2> QED BY <1>1, <2>1, SmallestSet
<1>3. R \in SUBSET S /\ ~\E g : IsSum(g, w, R)
  OBVIOUS
<1> DEFINE Of(t) == CHOOSE g : IsSum(g, w, t)
           Part(s) == s \ {Chosen(s)}
           f == [s \in SUBSET R |-> IF s = {} THEN 0 ELSE w[Chosen(s)] + Of(Part(s))[Part(s)]]
<1>4. ASSUME NEW t \in SUBSET R, t # R PROVE IsSum(Of(t), w, t)
  <2>1. \E g : IsSum(g, w, t)
    BY <1>2, <1>3, <1>4
  <2> QED BY <2>1
<1>5. ASSUME NEW s \in SUBSET R, s # {} PROVE Part(s) \in SUBSET R /\ Part(s) # R /\ Part(s) # s
  BY <1>5 DEF Chosen
<1> HIDE DEF B, Of, Part
<1>6. ASSUME NEW t \in SUBSET R, t # R PROVE f[t] = Of(t)[t]
  <2>1. IsSum(Of(t), w, t) /\ t \in SUBSET t
    BY <1>4, <1>6
  <2>2. CASE t = {}
    BY <2>1, <2>2, SumAt
  <2>3. CASE t # {}
    <3>1. Of(t)[t] = w[Chosen(t)] + Of(t)[Part(t)]
      BY <2>1, <2>3, SumAt DEF Part
    <3>2. IsSum(Of(Part(t)), w, Part(t)) /\ Part(t) \in SUBSET t /\ IsFiniteSet(t)
      <4>1. Part(t) \in SUBSET t
        BY DEF Part
      <4>2. IsFiniteSet(t)
        BY <1>3, FS_Subset
      <4> QED BY <1>4, <1>5, <2>3, <4>1, <4>2
    <3>3. Of(t)[Part(t)] = Of(Part(t))[Part(t)]
      BY <2>1, <3>2, SumUnique
    <3> QED BY <2>3, <3>1, <3>3
  <2> QED BY <2>2, <2>3
<1>7. \A s \in SUBSET R : s # {} => f[Part(s)] = Of(Part(s))[Part(s)]
  <2> HIDE DEF f
  <2> QED BY <1>5, <1>6
<1>8. f = [s \in SUBSET R |-> IF s = {} THEN 0 ELSE w[Chosen(s)] + f[Part(s)]]
  <2> DEFINE F(s) == IF s = {} THEN 0 ELSE w[Chosen(s)] + f[Part(s)]
  <2>1. \A s \in SUBSET R : f[s] = F(s)
    BY <1>7
  <2> HIDE DEF F
  <2>2. f = [s \in SUBSET R |-> f[s]]
    OBVIOUS
  <2> HIDE DEF f
  <2>3. f = [s \in SUBSET R |-> F(s)]
    BY <2>1, <2>2
  <2> QED BY <2>3 DEF F
<1> HIDE DEF f
<1>9. IsSum(f, w, R)
  BY <1>8 DEF IsSum, Part
<1> QED BY <1>3, <1>9

\* Any element may be taken out of the sum, not just the chosen one.
LEMMA SumWithout ==
    ASSUME NEW S, IsFiniteSet(S), NEW w, \A x \in S : w[x] \in Nat, NEW g, IsSum(g, w, S)
    PROVE  \A s \in SUBSET S : \A x \in s : g[s] = w[x] + g[s \ {x}]
<1> DEFINE B == {s \in SUBSET S : ~\A x \in s : g[s] = w[x] + g[s \ {x}]}
<1>1. SUFFICES ASSUME B # {} PROVE FALSE
  OBVIOUS
<1>2. PICK s \in B : \A t \in B : ~(t \subseteq s /\ t # s)
  <2>1. B \subseteq SUBSET S
    OBVIOUS
  <2> HIDE DEF B
  <2> QED BY <1>1, <2>1, SmallestSet
<1>3. s \in SUBSET S /\ \A t \in SUBSET s : t # s => \A x \in t : g[t] = w[x] + g[t \ {x}]
  BY <1>2
<1>4. PICK x \in s : ~(g[s] = w[x] + g[s \ {x}])
  BY <1>2
<1> HIDE DEF B
<1>5. Chosen(s) \in s /\ g[s] = w[Chosen(s)] + g[s \ {Chosen(s)}]
  BY <1>3, <1>4, SumAt
<1>6. PICK c \in s : c = Chosen(s)
  BY <1>5
<1>7. x # c
  BY <1>4, <1>5, <1>6
<1> DEFINE rest == s \ {c, x}
<1>8. g[s \ {c}] = w[x] + g[rest]
  <2>1. s \ {c} \in SUBSET s /\ s \ {c} # s /\ x \in s \ {c} /\ (s \ {c}) \ {x} = rest
    BY <1>7
  <2> QED BY <1>3, <2>1
<1>9. g[s \ {x}] = w[c] + g[rest]
  <2>1. s \ {x} \in SUBSET s /\ s \ {x} # s /\ c \in s \ {x} /\ (s \ {x}) \ {c} = rest
    BY <1>7
  <2> QED BY <1>3, <2>1
<1>10. g[rest] \in Nat /\ w[c] \in Nat /\ w[x] \in Nat
  <2>1. rest \in SUBSET S
    BY <1>3
  <2> HIDE DEF rest
  <2> QED BY <1>3, <2>1, SumType
<1> HIDE DEF rest
<1> QED BY <1>4, <1>5, <1>6, <1>8, <1>9, <1>10

-----------------------------------------------------------------------------
(* The sum of what jobs reserve.                                           *)

TotalOf(p, js) == MapThenSumSet(LAMBDA j : Memory(p[j][1]), js)

LEMMA TotalIsSum ==
    ASSUME NEW p, NEW S, IsFiniteSet(S)
    PROVE  \E g : IsSum(g, [j \in S |-> Memory(p[j][1])], S) /\ TotalOf(p, S) = g[S]
<1> DEFINE w == [j \in S |-> Memory(p[j][1])]
           Fold(g) == g = [s \in SUBSET S |->
                        IF s = {} THEN 0
                        ELSE Memory(p[Chosen(s)][1]) + g[s \ {Chosen(s)}]]
           sum == CHOOSE g : Fold(g)
<1>1. TotalOf(p, S) = sum[S]
  BY DEF TotalOf, MapThenSumSet, MapThenFoldSet, Chosen
<1>2. ASSUME NEW s \in SUBSET S, s # {}
      PROVE  w[Chosen(s)] = Memory(p[Chosen(s)][1])
  BY <1>2 DEF Chosen
<1>3. ASSUME NEW g PROVE Fold(g) <=> IsSum(g, w, S)
  <2> DEFINE F(s) == IF s = {} THEN 0 ELSE Memory(p[Chosen(s)][1]) + g[s \ {Chosen(s)}]
             G(s) == IF s = {} THEN 0 ELSE w[Chosen(s)] + g[s \ {Chosen(s)}]
  <2> HIDE DEF w
  <2>1. \A s \in SUBSET S : F(s) = G(s)
    BY <1>2
  <2> HIDE DEF F, G
  <2>2. [s \in SUBSET S |-> F(s)] = [s \in SUBSET S |-> G(s)]
    BY <2>1
  <2> QED BY <2>2 DEF F, G, IsSum
<1>4. \E g : Fold(g)
  <2> HIDE DEF Fold, w
  <2> QED BY <1>3, SumExists
<1> HIDE DEF Fold, w
<1>5. Fold(sum)
  BY <1>4
<1>6. IsSum(sum, w, S) /\ TotalOf(p, S) = sum[S]
  BY <1>1, <1>3, <1>5
<1> QED BY <1>6 DEF w

\* An added job adds what it asks for.
LEMMA TotalWith ==
    ASSUME NEW p, NEW S, IsFiniteSet(S), \A j \in S : Memory(p[j][1]) \in Nat, NEW x \in S
    PROVE  /\ TotalOf(p, S) = Memory(p[x][1]) + TotalOf(p, S \ {x})
           /\ TotalOf(p, S) \in Nat /\ TotalOf(p, S \ {x}) \in Nat
<1> DEFINE w == [j \in S |-> Memory(p[j][1])]
           R == S \ {x}
           v == [j \in R |-> Memory(p[j][1])]
<1>1. IsFiniteSet(R) /\ R \in SUBSET S
  BY FS_Subset
<1>2. PICK g : IsSum(g, w, S) /\ TotalOf(p, S) = g[S]
  BY TotalIsSum
<1>3. PICK h : IsSum(h, v, R) /\ TotalOf(p, R) = h[R]
  <2> HIDE DEF R
  <2> QED BY <1>1, TotalIsSum
<1>4. IsSum(h, w, R)
  <2>1. \A s \in SUBSET R : s # {} => v[Chosen(s)] = w[Chosen(s)]
    BY DEF Chosen
  <2> DEFINE F(s) == IF s = {} THEN 0 ELSE v[Chosen(s)] + h[s \ {Chosen(s)}]
             G(s) == IF s = {} THEN 0 ELSE w[Chosen(s)] + h[s \ {Chosen(s)}]
  <2> HIDE DEF v, w
  <2>2. \A s \in SUBSET R : F(s) = G(s)
    BY <2>1
  <2> HIDE DEF F, G, R
  <2>3. [s \in SUBSET R |-> F(s)] = [s \in SUBSET R |-> G(s)]
    BY <2>2
  <2> QED BY <1>3, <2>3 DEF F, G, IsSum
<1>5. \A j \in S : w[j] \in Nat /\ w[j] = Memory(p[j][1])
  OBVIOUS
<1> HIDE DEF w, v
<1>6. g[S] = w[x] + g[R]
  BY <1>2, <1>5, SumWithout
<1>7. g[R] = h[R]
  <2> HIDE DEF R
  <2> QED BY <1>1, <1>2, <1>4, SumUnique
<1>8. g[S] \in Nat /\ g[R] \in Nat
  <2> HIDE DEF R
  <2> QED BY <1>1, <1>2, <1>5, SumType
<1> HIDE DEF R
<1>9. TotalOf(p, S) = Memory(p[x][1]) + TotalOf(p, R)
  BY <1>2, <1>3, <1>5, <1>6, <1>7
<1> QED BY <1>2, <1>3, <1>7, <1>8, <1>9 DEF R

LEMMA TotalOfNone == ASSUME NEW p PROVE TotalOf(p, {}) = 0
<1>1. PICK g : IsSum(g, [j \in {} |-> Memory(p[j][1])], {}) /\ TotalOf(p, {}) = g[{}]
  BY TotalIsSum, FS_EmptySet
<1> QED BY <1>1, SumAt
-----------------------------------------------------------------------------
InClass(js, c) == {j \in js : Class(Request(j)) = c}

\* the scheduler's own books
Books ==
    /\ active \subseteq Jobs
    /\ reserved \in 0..MemoryBudget
    /\ reserved = TotalOf(plan, active)
    /\ keys = {Key0(j) : j \in active} \ {NoKey}
    /\ ExclusiveKeys
    /\ Cardinality(active) <= MaxProcesses
    /\ \A c \in WorkClass : Cardinality(InClass(active, c)) <= ClassLimit[c]

LEMMA MaxProcessesType == MaxProcesses \in Nat \ {0}
BY MachineAssumption DEF MaxProcesses, Clamp

LEMMA ClassLimitType == \A c \in WorkClass : ClassLimit[c] \in Nat \ {0}
<1>1. MaxCpuHeavy \in Nat \ {0} /\ MaxIoHeavy \in Nat \ {0} /\ MaxGpu \in Nat \ {0}
  BY MachineAssumption, MaxProcessesType DEF MaxCpuHeavy, MaxIoHeavy, MaxGpu, Clamp
<1> QED
  BY <1>1, MaxProcessesType DEF ClassLimit, WorkClass

LEMMA RequestType == ASSUME plan \in [Jobs -> Plans], NEW j \in Jobs
                     PROVE  Request(j) \in Seq(StepKind) /\ Memory(Request(j)) \in Nat
<1>1. plan[j] \in Seq(Seq(StepKind)) /\ Len(plan[j]) > 0
  BY PlansAssumption
<1>2. Request(j) \in Seq(StepKind)
  BY <1>1 DEF Request, Steps
<1>3. \A c \in WorkClass : ClassMemory[c] \in Nat
  BY DEF ClassMemory, WorkClass
<1> QED
  BY <1>2, <1>3, ClassType DEF Memory

\* As the plan never changes, neither does what a job asks for.
LEMMA SameRequest == ASSUME plan' = plan, NEW j
                     PROVE  Key0(j)' = Key0(j) /\ Request(j)' = Request(j)
BY DEF Key0, Request, Steps

\* An admission keeps the books: this is what admission_blocker is for.
LEMMA TakeKeepsBooks ==
    ASSUME Books, plan \in [Jobs -> Plans], plan' = plan, NEW j \in Jobs,
           Admissible(j), TakeResources(j)
    PROVE  Books'
<1> USE SameRequest
<1>1. active' = active \cup {j} /\ j \notin active /\ active' \subseteq Jobs
  BY DEF Books, TakeResources, Admissible
<1>2. reserved' \in 0..MemoryBudget
  <2>1. PICK n \in Nat : n = Memory(Request(j))
    BY RequestType
  <2>2. reserved \in 0..MemoryBudget
    BY DEF Books
  <2>3. reserved' = reserved + n /\ reserved' <= MemoryBudget
    BY <2>1 DEF TakeResources, Admissible
  <2> QED
    BY <2>2, <2>3 DEF MemoryBudget
<1>8. reserved' = TotalOf(plan', active')
  <2>1. IsFiniteSet(active')
    BY <1>1, JobsAssumption, FS_Subset
  <2>2. \A i \in active' : Memory(plan[i][1]) \in Nat
    BY <1>1, RequestType DEF Request, Steps
  <2>3. active' \ {j} = active /\ j \in active'
    BY <1>1
  <2>4. TotalOf(plan, active') = Memory(plan[j][1]) + TotalOf(plan, active)
    BY <2>1, <2>2, <2>3, TotalWith
  <2>5. reserved' = reserved + Memory(plan[j][1]) /\ reserved = TotalOf(plan, active)
    BY DEF TakeResources, Request, Steps, Books
  <2>6. Memory(plan[j][1]) \in Nat /\ reserved \in Nat
    <3>1. reserved \in 0..2048
      BY DEF Books, MemoryBudget
    <3>2. reserved \in Nat
      BY ONLY <3>1
    <3> QED
      BY ONLY <2>2, <2>3, <3>2
  <2> HIDE DEF TotalOf
  <2> QED BY <2>4, <2>5, <2>6
<1>3. keys' = {Key0(i)' : i \in active'} \ {NoKey}
  BY <1>1 DEF Books, TakeResources
<1>4. ExclusiveKeys'
  <2> SUFFICES ASSUME NEW i \in active', NEW k \in active', i # k, Key0(i) # NoKey
               PROVE  Key0(i) # Key0(k)
    BY DEF ExclusiveKeys
  <2>1. \A h \in active : Key0(h) # NoKey => Key0(h) # Key0(j)
    BY DEF Books, Admissible
  <2>2. i \in active /\ k \in active => Key0(i) # Key0(k)
    BY DEF Books, ExclusiveKeys
  <2> QED
    BY <1>1, <2>1, <2>2
<1>5. IsFiniteSet(active)
  BY JobsAssumption, FS_Subset DEF Books
<1>6. Cardinality(active)' <= MaxProcesses
  <2>1. Cardinality(active') = Cardinality(active) + 1
    BY <1>1, <1>5, FS_AddElement
  <2> QED
    BY <2>1, <1>5, FS_CardinalityType, MaxProcessesType DEF Admissible
<1>7. ASSUME NEW c \in WorkClass PROVE Cardinality(InClass(active, c))' <= ClassLimit[c]
  <2>1. CASE Class(Request(j)) # c
    <3>1. InClass(active, c)' = InClass(active, c)
      BY <1>1, <2>1 DEF InClass
    <3> QED
      BY <3>1 DEF Books
  <2>2. CASE Class(Request(j)) = c
    <3>1. InClass(active, c)' = SameClass(j) \cup {j} /\ j \notin SameClass(j)
      BY <1>1, <2>2 DEF InClass, SameClass
    <3>2. IsFiniteSet(SameClass(j))
      BY <1>5, FS_Subset DEF SameClass
    <3>3. Cardinality(InClass(active, c)') = Cardinality(SameClass(j)) + 1
      BY <3>1, <3>2, FS_AddElement
    <3>4. Cardinality(SameClass(j)) < ClassLimit[c]
      BY <2>2 DEF Admissible
    <3> QED
      BY <3>2, <3>3, <3>4, FS_CardinalityType, ClassLimitType
  <2> QED
    BY <2>1, <2>2
<1> QED
  BY <1>1, <1>2, <1>3, <1>4, <1>6, <1>7, <1>8 DEF Books

\* A release keeps the books: the key that is removed was nobody else's.
LEMMA ReleaseKeepsBooks ==
    ASSUME Books, plan \in [Jobs -> Plans], plan' = plan, NEW j \in Jobs, Release(j)
    PROVE  Books'
<1> USE SameRequest
<1>1. CASE UNCHANGED ledger
  BY <1>1 DEF Books, ExclusiveKeys, InClass, ledger
<1>2. CASE j \in active /\ active' = active \ {j} /\ keys' = keys \ {Key0(j)}
           /\ reserved' = SaturatingSub(reserved, Memory(Request(j)))
  <2>1. active' \subseteq active /\ active' \subseteq Jobs
    BY <1>2 DEF Books
  <2>2. reserved' \in 0..MemoryBudget
    <3>1. PICK n \in Nat : n = Memory(Request(j))
      BY RequestType
    <3>2. reserved \in 0..MemoryBudget
      BY DEF Books
    <3>3. reserved' = SaturatingSub(reserved, n)
      BY <1>2, <3>1
    <3>4. CASE reserved > n
      <4>1. reserved' = reserved - n
        BY ONLY <3>3, <3>4 DEF SaturatingSub
      <4> QED
        BY ONLY n \in Nat, <3>2, <3>4, <4>1 DEF MemoryBudget
    <3>5. CASE ~(reserved > n)
      <4>1. reserved' = 0
        BY ONLY <3>3, <3>5 DEF SaturatingSub
      <4> QED
        BY ONLY <4>1 DEF MemoryBudget
    <3> QED
      BY ONLY <3>4, <3>5
  <2>8. reserved' = TotalOf(plan', active')
    <3>1. IsFiniteSet(active) /\ \A i \in active : Memory(plan[i][1]) \in Nat
      BY JobsAssumption, RequestType, FS_Subset DEF Books, Request, Steps
    <3>2. PICK n \in Nat : n = Memory(plan[j][1])
      BY RequestType DEF Request, Steps
    <3>3. /\ TotalOf(plan, active) = n + TotalOf(plan, active')
          /\ TotalOf(plan, active') \in Nat
      BY <1>2, <3>1, <3>2, TotalWith
    <3>4. reserved = TotalOf(plan, active) /\ reserved' = SaturatingSub(reserved, n)
      BY <1>2, <3>2 DEF Books, Request, Steps
    <3>5. PICK m \in Nat : m = TotalOf(plan, active')
      BY <3>3
    <3>6. reserved = n + m
      BY <3>3, <3>4, <3>5
    <3>7. reserved' = m
      <4>1. CASE m > 0
        BY ONLY n \in Nat, m \in Nat, <3>4, <3>6, <4>1 DEF SaturatingSub
      <4>2. CASE m = 0
        BY ONLY n \in Nat, <3>4, <3>6, <4>2 DEF SaturatingSub
      <4> QED
        BY <4>1, <4>2
    <3> QED
      BY <3>5, <3>7
  <2>3. ExclusiveKeys'
    BY <2>1 DEF Books, ExclusiveKeys
  <2>4. keys' = {Key0(i)' : i \in active'} \ {NoKey}
    <3>1. \A i \in active' : Key0(i) = NoKey \/ Key0(i) # Key0(j)
      BY <1>2 DEF Books, ExclusiveKeys
    <3> QED
      BY <1>2, <3>1 DEF Books
  <2>5. IsFiniteSet(active)
    BY JobsAssumption, FS_Subset DEF Books
  <2>6. Cardinality(active)' <= MaxProcesses
    <3>1. Cardinality(active') <= Cardinality(active)
      BY <2>1, <2>5, FS_Subset
    <3> QED
      BY <2>1, <2>5, <3>1, FS_Subset, FS_CardinalityType, MaxProcessesType DEF Books
  <2>7. ASSUME NEW c \in WorkClass PROVE Cardinality(InClass(active, c))' <= ClassLimit[c]
    <3>1. InClass(active, c)' \subseteq InClass(active, c)
      BY <2>1 DEF InClass
    <3>2. IsFiniteSet(InClass(active, c))
      BY <2>5, FS_Subset DEF InClass
    <3>3. /\ Cardinality(InClass(active, c)') <= Cardinality(InClass(active, c))
          /\ IsFiniteSet(InClass(active, c)')
      BY <3>1, <3>2, FS_Subset
    <3> QED
      BY <3>2, <3>3, FS_CardinalityType, ClassLimitType DEF Books
  <2> QED
    BY <2>1, <2>2, <2>3, <2>4, <2>6, <2>7, <2>8 DEF Books
<1> QED
  BY <1>1, <1>2 DEF Release

-----------------------------------------------------------------------------
\* who is in the books: the jobs with a worker and the one being prepared
Accounted ==
    /\ Busy \subseteq active
    /\ preparing \in Jobs => preparing \in active /\ worker[preparing] = "none"
    /\ phase = "abort" => preparing = NoJob
    /\ phase = "run" => active \subseteq Busy \cup {preparing}

LedgerInv == SchedulerTypeOK /\ Books /\ Accounted

LEMMA InitialLedger == SchedulerInit => LedgerInv
<1> SUFFICES ASSUME SchedulerInit PROVE LedgerInv
  OBVIOUS
<1>1. SchedulerTypeOK
  <2>1. \A j \in Jobs : 1 \in DOMAIN plan[j]
    <3> SUFFICES ASSUME NEW j \in Jobs PROVE 1 \in DOMAIN plan[j]
      OBVIOUS
    <3>1. plan[j] \in Seq(Seq(StepKind)) /\ Len(plan[j]) > 0
      BY PlansAssumption DEF SchedulerInit
    <3> QED
      BY <3>1
  <2> QED
    BY <2>1, JobsAssumption DEF SchedulerInit, SchedulerTypeOK
<1>2. Books
  <2>1. Cardinality(active) = 0
    BY FS_EmptySet DEF SchedulerInit
  <2>2. \A c \in WorkClass : Cardinality(InClass(active, c)) = 0
    <3>1. \A c \in WorkClass : InClass(active, c) = {}
      BY DEF SchedulerInit, InClass
    <3> QED
      BY <3>1, FS_EmptySet
  <2>3. reserved \in 0..MemoryBudget /\ reserved = TotalOf(plan, active)
    BY TotalOfNone DEF SchedulerInit, MemoryBudget
  <2>4. active \subseteq Jobs /\ keys = {Key0(j) : j \in active} \ {NoKey} /\ ExclusiveKeys
    BY DEF SchedulerInit, ExclusiveKeys
  <2>5. Cardinality(active) <= MaxProcesses
    BY <2>1, MaxProcessesType
  <2>6. \A c \in WorkClass : Cardinality(InClass(active, c)) <= ClassLimit[c]
    BY <2>2, ClassLimitType
  <2> QED
    BY <2>3, <2>4, <2>5, <2>6 DEF Books
<1>3. Accounted
  BY JobsAssumption DEF SchedulerInit, Accounted, Busy
<1> QED
  BY <1>1, <1>2, <1>3 DEF LedgerInv

\* A step admits a job, releases one, or leaves the books alone.
LEMMA StepKeepsBooks == LedgerInv /\ [SchedulerNext]_schedulerVars => Books' /\ plan' = plan
<1> SUFFICES ASSUME LedgerInv, [SchedulerNext]_schedulerVars PROVE Books' /\ plan' = plan
  OBVIOUS
<1>1. plan \in [Jobs -> Plans] /\ pending \in Seq(Jobs) /\ Books
  BY DEF LedgerInv, SchedulerTypeOK
<1>2. plan' = plan
  BY DEF schedulerVars, SchedulerNext, Loop,
         Admit, Finish, AbortReturns, Prepared, Drop, PrepareErrs, Join,
         JoinPanicked, AbortJoins, AbortReleases, Pause, NextHop, WorkerEnds, WorkerPanics
<1>3. \/ \E k \in DOMAIN pending : Admissible(pending[k]) /\ TakeResources(pending[k])
      \/ \E j \in Jobs : Release(j)
      \/ UNCHANGED ledger
  <2>1. CASE Admit
    BY <2>1 DEF Admit, FirstAdmissible
  <2>2. CASE Finish \/ AbortReturns \/ Pause \/ UNCHANGED schedulerVars
    BY <2>2 DEF Finish, AbortReturns, Pause, schedulerVars
  <2>3. ASSUME NEW j \in Jobs, Drop(j) \/ Join(j) \/ AbortJoins(j) \/ AbortReleases(j)
        PROVE  Release(j) \/ UNCHANGED ledger
    BY <2>3 DEF Drop, Join, AbortJoins, AbortReleases
  <2>4. ASSUME NEW j \in Jobs, \/ Prepared(j) \/ PrepareErrs(j) \/ JoinPanicked(j)
                              \/ NextHop(j) \/ WorkerEnds(j) \/ WorkerPanics(j)
        PROVE  UNCHANGED ledger
    BY <2>4 DEF Prepared, PrepareErrs, JoinPanicked, NextHop, WorkerEnds, WorkerPanics
  <2> QED
    BY <2>1, <2>2, <2>3, <2>4 DEF SchedulerNext, Loop
<1>4. CASE UNCHANGED ledger
  BY <1>1, <1>2, <1>4, SameRequest DEF Books, ExclusiveKeys, InClass, ledger
<1>5. ASSUME NEW k \in DOMAIN pending, Admissible(pending[k]), TakeResources(pending[k])
      PROVE  Books'
  <2>1. pending[k] \in Jobs
    BY <1>1
  <2> QED
    BY <1>1, <1>2, <1>5, <2>1, TakeKeepsBooks
<1>6. ASSUME NEW j \in Jobs, Release(j) PROVE Books'
  BY <1>1, <1>2, <1>6, ReleaseKeepsBooks
<1> QED
  BY <1>2, <1>3, <1>4, <1>5, <1>6

LEMMA StepKeepsAccounted == LedgerInv /\ [SchedulerNext]_schedulerVars => Accounted'
<1> SUFFICES ASSUME LedgerInv, [SchedulerNext]_schedulerVars PROVE Accounted'
  OBVIOUS
<1> USE JobsAssumption DEF Accounted, Busy, Go, workers
<1>1. /\ Accounted /\ pending \in Seq(Jobs) /\ preparing \in Jobs \cup {NoJob}
      /\ worker \in [Jobs -> {"none", "running", "done", "panicked"}]
  BY DEF LedgerInv, SchedulerTypeOK
<1>2. CASE Admit
  <2>1. PICK k \in DOMAIN pending :
            /\ Admissible(pending[k]) /\ active' = active \cup {pending[k]}
            /\ preparing' = pending[k]
    BY <1>2 DEF Admit, FirstAdmissible, TakeResources
  <2>2. pending[k] \in Jobs /\ pending[k] \notin active
    BY <1>1, <2>1 DEF Admissible
  <2>3. /\ worker' = worker /\ phase' = phase /\ phase = "run" /\ preparing = NoJob
        /\ Busy' = Busy
    BY <1>2 DEF Admit
  <2>4. active \subseteq Jobs
    BY DEF LedgerInv, Books
  <2>5. active' \subseteq Busy' \cup {preparing'}
    BY <1>1, <2>1, <2>3, <2>4
  <2> QED
    BY <1>1, <2>1, <2>2, <2>3, <2>5
<1>3. CASE Finish \/ AbortReturns \/ Pause \/ UNCHANGED schedulerVars
  BY <1>1, <1>3 DEF Finish, AbortReturns, Pause, schedulerVars, ledger
<1>4. ASSUME NEW j \in Jobs, \/ Prepared(j) \/ PrepareErrs(j) \/ JoinPanicked(j)
                              \/ NextHop(j) \/ WorkerEnds(j) \/ WorkerPanics(j)
      PROVE  Accounted'
  BY <1>1, <1>4 DEF Prepared, PrepareErrs, JoinPanicked, NextHop, WorkerEnds, WorkerPanics, ledger
<1>5. ASSUME NEW j \in Jobs, Drop(j) \/ Join(j) \/ AbortJoins(j) PROVE Accounted'
  <2>1. active \ {j} \subseteq active' /\ active' \subseteq active
    BY <1>5 DEF Drop, Join, AbortJoins, Release, ledger
  <2>2. Drop(j) \/ Join(j) => active' = active \ {j}
    BY DEF Drop, Join, Release, ledger
  <2>3. active \subseteq Jobs
    BY DEF LedgerInv, Books
  <2>4. CASE Drop(j)
    <3>1. /\ preparing = j /\ preparing' = NoJob /\ worker' = worker
          /\ phase = "run" /\ phase' = "run"
      BY <2>4 DEF Drop
    <3> QED
      BY <1>1, <2>1, <2>2, <2>3, <2>4, <3>1
  <2>5. CASE Join(j)
    <3>1. /\ preparing = NoJob /\ preparing' = NoJob
          /\ worker' = [worker EXCEPT ![j] = "none"] /\ phase = "run"
      BY <2>5 DEF Join
    <3>2. Busy' = Busy \ {j}
      BY <1>1, <3>1
    <3>3. active' \subseteq Busy'
      BY <1>1, <2>2, <2>3, <2>5, <3>1, <3>2
    <3>4. Busy' \subseteq active'
      BY <1>1, <2>1, <3>2
    <3> QED
      BY <1>1, <3>1, <3>3, <3>4
  <2>6. CASE AbortJoins(j)
    <3>1. /\ preparing = NoJob /\ preparing' = NoJob
          /\ worker' = [worker EXCEPT ![j] = "none"] /\ phase' = "abort"
      BY <1>1, <2>6 DEF AbortJoins
    <3> QED
      BY <1>1, <2>1, <3>1
  <2> QED
    BY <1>5, <2>4, <2>5, <2>6
<1>6. ASSUME NEW j \in Jobs, AbortReleases(j) PROVE Accounted'
  BY <1>1, <1>6 DEF AbortReleases, NoWorker
<1> QED
  BY <1>2, <1>3, <1>4, <1>5, <1>6 DEF SchedulerNext, Loop

LEMMA StepKeepsTypes == LedgerInv /\ [SchedulerNext]_schedulerVars => SchedulerTypeOK'
<1> SUFFICES ASSUME LedgerInv, [SchedulerNext]_schedulerVars PROVE SchedulerTypeOK'
  OBVIOUS
<1>1. Books' /\ plan' = plan /\ SchedulerTypeOK
  BY StepKeepsBooks DEF LedgerInv
<1>2. /\ active' \subseteq Jobs /\ reserved' \in Nat /\ plan' \in [Jobs -> Plans]
      /\ keys' \subseteq {Key0(j)' : j \in Jobs}
  <2>1. reserved' \in Nat
    BY <1>1 DEF Books, MemoryBudget
  <2> QED
    BY <1>1, <2>1 DEF Books, SchedulerTypeOK
<1>3. pending' \in Seq(Jobs) /\ preparing' \in Jobs \cup {NoJob} /\ listed' \subseteq Jobs
  <2>1. CASE Admit
    <3>1. PICK k \in DOMAIN pending :
              Scanned(k) /\ preparing' = pending[k] /\ listed' = listed \cup {pending[k]}
      BY <2>1 DEF Admit, FirstAdmissible
    <3>2. /\ SubSeq(pending, k + 1, Len(pending)) \in Seq(Jobs)
          /\ SubSeq(pending, 1, k - 1) \in Seq(Jobs)
      BY <1>1 DEF SchedulerTypeOK
    <3>3. preparing' \in Jobs /\ listed' \subseteq Jobs
      BY <1>1, <3>1 DEF SchedulerTypeOK
    <3>4. pending' \in Seq(Jobs)
      BY <3>1, <3>2 DEF Scanned
    <3> QED
      BY <3>3, <3>4
  <2>2. CASE Finish \/ AbortReturns \/ Pause \/ UNCHANGED schedulerVars
    BY <1>1, <2>2 DEF SchedulerTypeOK, Finish, AbortReturns, Pause, schedulerVars
  <2>3. ASSUME NEW j \in Jobs PROVE
            \/ Prepared(j) \/ PrepareErrs(j) \/ JoinPanicked(j) \/ NextHop(j) \/ WorkerEnds(j)
            \/ WorkerPanics(j) \/ Drop(j) \/ Join(j) \/ AbortJoins(j) \/ AbortReleases(j)
            => /\ pending' = pending /\ preparing' \in {preparing, NoJob}
               /\ listed' \subseteq listed
    BY DEF Prepared, PrepareErrs, JoinPanicked, NextHop, WorkerEnds, WorkerPanics, Drop, Join,
           AbortJoins, AbortReleases
  <2> QED
    BY <1>1, <2>1, <2>2, <2>3 DEF SchedulerNext, Loop, SchedulerTypeOK
<1>4. /\ worker' \in [Jobs -> {"none", "running", "done", "panicked"}]
      /\ paused' \in BOOLEAN /\ phase' \in {"run", "abort", "over"}
  <2> USE <1>1 DEF SchedulerTypeOK, Go, workers
  <2>1. CASE Admit \/ Finish \/ AbortReturns \/ Pause \/ UNCHANGED schedulerVars
    BY <2>1 DEF Admit, Finish, AbortReturns, Pause, schedulerVars
  <2>2. ASSUME NEW j \in Jobs,
            \/ Prepared(j) \/ PrepareErrs(j) \/ JoinPanicked(j) \/ NextHop(j) \/ WorkerEnds(j)
            \/ WorkerPanics(j) \/ Drop(j) \/ Join(j) \/ AbortJoins(j) \/ AbortReleases(j)
        PROVE
            /\ \/ worker' = worker
               \/ \E w \in {"none", "running", "done", "panicked"} : worker' = [worker EXCEPT ![j] = w]
            /\ paused' \in {paused, TRUE} /\ phase' \in {phase, "abort"}
    BY <2>2 DEF Prepared, PrepareErrs, JoinPanicked, NextHop, WorkerEnds, WorkerPanics, Drop,
                Join, AbortJoins, AbortReleases
  <2> QED
    BY <2>1, <2>2 DEF SchedulerNext, Loop
<1>5. hop' \in [Jobs -> Nat] /\ \A j \in Jobs : hop'[j] \in DOMAIN plan'[j]
  <2>1. \/ hop' = hop
        \/ \E j \in Jobs : hop[j] < Len(plan[j]) /\ hop' = [hop EXCEPT ![j] = @ + 1]
    BY DEF schedulerVars, SchedulerNext, Loop,
         Admit, Finish, AbortReturns, Prepared, Drop, PrepareErrs, Join,
           JoinPanicked, AbortJoins, AbortReleases, Pause, NextHop, WorkerEnds, WorkerPanics,
           workers
  <2>2. CASE hop' = hop
    BY <1>1, <2>2 DEF SchedulerTypeOK
  <2>3. ASSUME NEW j \in Jobs, hop[j] < Len(plan[j]), hop' = [hop EXCEPT ![j] = @ + 1]
        PROVE  hop' \in [Jobs -> Nat] /\ \A i \in Jobs : hop'[i] \in DOMAIN plan'[i]
    <3>1. plan[j] \in Seq(Seq(StepKind)) /\ hop[j] \in DOMAIN plan[j]
      BY <1>1, PlansAssumption DEF SchedulerTypeOK
    <3>2. hop[j] + 1 \in DOMAIN plan[j]
      BY <2>3, <3>1
    <3> QED
      BY <1>1, <2>3, <3>2 DEF SchedulerTypeOK
  <2> QED
    BY <2>1, <2>2, <2>3
<1> QED
  BY <1>2, <1>3, <1>4, <1>5 DEF SchedulerTypeOK

-----------------------------------------------------------------------------
\* The books of the scheduler, and who is in them, are an invariant of every
\* window: what the theorems below rest on.
THEOREM SchedulerInvariant == SchedulerSpec => []LedgerInv
<1>1. LedgerInv /\ [SchedulerNext]_schedulerVars => LedgerInv'
  BY StepKeepsBooks, StepKeepsAccounted, StepKeepsTypes DEF LedgerInv
<1> QED
  BY InitialLedger, <1>1, PTL DEF SchedulerSpec

\* The variables keep their types; no worker goes beyond the last hop of its
\* plan (run_chain_segments).
THEOREM TypeCorrectness == SchedulerSpec => []SchedulerTypeOK
<1>1. LedgerInv => SchedulerTypeOK
  BY DEF LedgerInv
<1> QED
  BY SchedulerInvariant, <1>1, PTL

\* No two active jobs hold the same exclusivity key, so a key that a release
\* removes was held by nobody else (ResourceScheduler::release).
THEOREM KeysAreExclusive == SchedulerSpec => []ExclusiveKeys
<1>1. LedgerInv => ExclusiveKeys
  BY DEF LedgerInv, Books
<1> QED
  BY SchedulerInvariant, <1>1, PTL

\* The jobs that have a worker are never more than the policy's processes, nor
\* more of a class than its limit, nor is more memory promised than there is
\* budget (admission_blocker).
THEOREM WorkersWithinPolicy == SchedulerSpec => []WithinPolicy
<1>1. LedgerInv => WithinPolicy
  <2> SUFFICES ASSUME LedgerInv PROVE WithinPolicy
    OBVIOUS
  <2>1. /\ Busy \subseteq active /\ active \subseteq Jobs /\ reserved <= MemoryBudget
        /\ Cardinality(active) <= MaxProcesses
        /\ \A c \in WorkClass : Cardinality(InClass(active, c)) <= ClassLimit[c]
    BY DEF LedgerInv, Books, Accounted, MemoryBudget
  <2>2. IsFiniteSet(active)
    BY <2>1, JobsAssumption, FS_Subset
  <2>3. Cardinality(Busy) <= MaxProcesses
    BY <2>1, <2>2, FS_Subset, FS_CardinalityType, MaxProcessesType
  <2>4. ASSUME NEW c \in WorkClass PROVE Cardinality(InClass(Busy, c)) <= ClassLimit[c]
    <3>1. InClass(Busy, c) \subseteq InClass(active, c) /\ IsFiniteSet(InClass(active, c))
      BY <2>1, <2>2, FS_Subset DEF InClass
    <3> QED
      BY <2>1, <3>1, FS_Subset, FS_CardinalityType, ClassLimitType
  <2> QED
    BY <2>1, <2>3, <2>4 DEF WithinPolicy, InClass
<1> QED
  BY SchedulerInvariant, <1>1, PTL

LEMMA SmallClasses == \A c \in WorkClass : ClassMemory[c] \in 0..1024
<1>1. ClassMemory["lightweight"] = 64 /\ ClassMemory["io"] = 192
  BY DEF ClassMemory
<1>2. ClassMemory["cpu"] = 1024 /\ ClassMemory["memory"] = 768
  BY DEF ClassMemory
<1>3. ClassMemory["gpu"] = 512 /\ ClassMemory["serial"] = 1024
  BY DEF ClassMemory
<1>4. 64 \in 0..1024 /\ 192 \in 0..1024 /\ 512 \in 0..1024
  BY ONLY TRUE
<1>5. 768 \in 0..1024 /\ 1024 \in 0..1024
  BY ONLY TRUE
<1> SUFFICES ASSUME NEW c \in WorkClass PROVE ClassMemory[c] \in 0..1024
  OBVIOUS
<1>6. CASE c \in {"lightweight", "io"}
  BY <1>1, <1>4, <1>6
<1>7. CASE c \in {"cpu", "memory"}
  BY <1>2, <1>5, <1>7
<1>8. CASE c \in {"gpu", "serial"}
  BY <1>3, <1>4, <1>5, <1>8
<1> QED
  BY <1>6, <1>7, <1>8 DEF WorkClass

\* The ledger is exact: a job that is released twice, or panicked, or dropped
\* gives back what it took and no more, so the reserved memory is always the sum of
\* what the active jobs ask for; and while nobody works and somebody waits, the
\* scheduler finds a job to start (ResourceScheduler::try_admit and release).
THEOREM LedgerIsExact == SchedulerSpec => []LedgerHolds
<1>1. LedgerInv => AccountingExact
  BY DEF LedgerInv, Books, Accounted, AccountingExact, Total, TotalOf, Request, Steps
<1>2. LedgerInv => NeverExhausted
  <2> SUFFICES ASSUME LedgerInv, phase = "run", preparing = NoJob, NoWorker, ~paused, pending # <<>>
               PROVE  AtAdmission
    BY DEF NeverExhausted
  <2>1. /\ pending \in Seq(Jobs) /\ plan \in [Jobs -> Plans] /\ active \subseteq Jobs
        /\ Books
    BY DEF LedgerInv, SchedulerTypeOK
  <2>2. active = {}
    BY <2>1, JobsAssumption DEF LedgerInv, Accounted, Busy, NoWorker
  <2>3. 1 \in DOMAIN pending /\ pending[1] \in Jobs
    BY <2>1
  <2>4. PICK j \in Jobs : j = pending[1]
    BY <2>3
  <2>5. reserved = 0 /\ keys = {}
    BY <2>1, <2>2, TotalOfNone DEF Books
  <2>6. Memory(Request(j)) \in 0..1024 /\ Class(Request(j)) \in WorkClass
    <3>1. Class(Request(j)) \in WorkClass
      BY <2>1, RequestType, ClassType
    <3> QED
      BY <3>1, SmallClasses DEF Memory
  <2>7. reserved + Memory(Request(j)) <= MemoryBudget
    <3> DEFINE n == Memory(Request(j))
    <3>1. n \in Nat /\ n <= 1024
      BY ONLY <2>6
    <3>2. 0 + n <= 2048
      BY ONLY <3>1
    <3>3. reserved + n = 0 + n
      BY ONLY <2>5
    <3> QED
      BY ONLY <3>2, <3>3 DEF MemoryBudget
  <2>8. SameClass(j) = {} /\ Cardinality(SameClass(j)) = 0 /\ Cardinality(active) = 0
    BY <2>2, FS_EmptySet DEF SameClass
  <2>9. 0 < MaxProcesses /\ 0 < ClassLimit[Class(Request(j))]
    <3>1. MaxProcesses \in Nat /\ MaxProcesses >= 1
      BY MaxProcessesType
    <3>2. ClassLimit[Class(Request(j))] \in Nat /\ ClassLimit[Class(Request(j))] >= 1
      BY <2>6, ClassLimitType
    <3>3. \A n \in Nat : n >= 1 => 0 < n
      BY ONLY TRUE
    <3> QED
      BY ONLY <3>1, <3>2, <3>3
  <2>10. Admissible(j)
    BY ONLY <2>2, <2>5, <2>7, <2>8, <2>9 DEF Admissible
  <2> QED
    BY <2>3, <2>4, <2>10 DEF AtAdmission
<1> QED
  BY SchedulerInvariant, <1>1, <1>2, PTL DEF LedgerHolds

-----------------------------------------------------------------------------
(* The adapters: Spec.                                                     *)

\* a step of S comes before the i-th one
Past(a, i, S) == \E j \in 1..(i - 1) : Program(a)[j] \in S

Telling == {"tell", "tellAfter"}

\* steps that read the input
Making == {"wait", "waitInner", "print", "recognize", "extract", "raster", "work",
           "workGuarded", "workHeeding", "publish", "publishWorker"}

\* steps after which something may be at the staging path
Staging == {"mkdir", "spawn", "wait", "waitInner", "print", "write", "merge", "work",
            "workGuarded", "workHeeding"}

\* Where the steps stand: a file is committed only when it was validated and the
\* destination looked at just before, and a rung of the ladder is three steps.
Shape(a) ==
    LET n == Len(Program(a)) IN
    /\ n \in Nat /\ n > 3 /\ DOMAIN Program(a) = 1..n
    /\ Program(a)[1] = "absent" /\ Program(a)[2] = "sameFirst" /\ Program(a)[3] = "vacant"
    /\ \A i \in 1..n :
        LET s == Program(a)[i] IN
        /\ s \notin {"recovered", "nowhere"}
        /\ s = "vacant" => i = 3
        /\ s = "clear" => i > 1 /\ Program(a)[i - 1] = "validate"
        /\ s = "commit" => i > 1 /\ Program(a)[i - 1] = "clear"
        /\ s = "fit" => /\ i + 4 <= n
                        /\ Program(a)[i + 1] = "spawn" /\ Program(a)[i + 2] = "wait"
                        /\ Program(a)[i + 3] = "present" /\ Program(a)[i + 4] = "heed"

\* Which adapters have the steps that write the destination or leave things behind.
Roles(a) ==
    \A i \in 1..Len(Program(a)) :
        LET s == Program(a)[i] IN
        /\ s \in {"publish", "publishWorker", "inspectOutput", "judgeOutput", "removeRejected"}
               => a \in DirectWriters
        /\ s = "tellAfter" => a \in Mail
        /\ s = "dropWork" => a \in Mailbox
        /\ s = "print" => a \in Mailbox \cup {"EdgePrint"}
        /\ s = "work" => a \in {"PdfMetadata", "Archive"}
        /\ s = "arguments" => a \in {"PdfRender", "Heif", "Magick", "PdfOps"}
        /\ s = "doctor" => a \in {"PdfOps", "PdfMetadata", "PdfOcr"}
        /\ s = "readdir" => a = "Heif"
        /\ s = "stem" => a \in {"OfficePdf", "OfficeExchange"}

\* The milestone is sent once, and before a commit.
ToldOnce(a) ==
    LET n == Len(Program(a)) IN
    \A i \in 1..n :
        LET s == Program(a)[i] IN
        /\ s \in Telling => ~Past(a, i, Telling)
        /\ s = "commit" /\ a \notin Mail => Past(a, i, Telling)
        /\ i = n => Past(a, i, Telling) \/ s \in Telling

\* The input is compared with the planned one after it was read.
ReadFirst(a) ==
    a \notin Mail =>
        LET n == Len(Program(a)) IN
        \A i \in 1..n :
            /\ Program(a)[i] \in Making => ~Past(a, i, {"same"})
            /\ i = n => Past(a, i, {"same"})

\* Every program delivers, and only tidies up afterwards.
CommitsLast(a) ==
    LET n == Len(Program(a)) IN
    \A i \in 1..n :
        LET s == Program(a)[i] IN
        /\ Past(a, i, {"commit"}) => s \in {"sweep", "dropWork", "tellAfter"}
        /\ a = "Eml" /\ Past(a, i, {"judgeOutput"}) => s = "tellAfter"
        /\ i = n => \/ Past(a, i, {"commit"}) \/ s \in {"commit", "removeRejected"}
                    \/ a = "Eml" /\ Past(a, i, {"judgeOutput"})

\* Where a program fails without cleaning up, it has nothing staged or a known leak.
Places(a) ==
    LET n == Len(Program(a)) IN
    \A i \in 1..n :
        LET s == Program(a)[i]
            Untouched == i > 3 /\ a \notin Mailbox /\ ~Past(a, i, Staging) IN
        /\ s \in {"recognize", "extract", "publish", "publishWorker", "inspectOutput",
                  "judgeOutput"} => a \in Mailbox \/ Untouched
        /\ s = "removeRejected" => Untouched \/ Past(a, i, {"dropWork"})
        /\ s = "arguments" /\ a = "PdfOps" => Untouched
        /\ s = "doctor" /\ a = "PdfOcr" => Untouched
        /\ s = "mkdir" => i > 3 /\ ~Past(a, i, Staging)
        /\ s \in {"commit", "fit"} => Past(a, i, Staging)
        /\ Past(a, i, {"dropWork"}) => s \notin Staging \cup {"commit"}
        /\ i = n => \/ s = "sweep"
                    \/ s = "commit" /\ (a = "PdfRender" \/ ~InDirectory(a))
                    \/ Past(a, i, {"dropWork"})
                    \/ Untouched /\ s \notin Staging \cup {"commit"}

\* How every program begins, and which step stands before which.
LEMMA EveryShape == \A a \in Adapters : Shape(a)
<1> USE DEF Program, Body, Begin, Deliver, Shape
<1>1. Shape("OfficePdf") BY DEF OfficePdf, OfficePdfMakes
<1>2. Shape("OfficeExchange") BY DEF OfficeExchange, OfficeExchangeMakes
<1>3. Shape("OfficeCsv") BY DEF OfficeCsv
<1>4. Shape("EdgePrint") BY DEF EdgePrint, EdgePrintMakes
<1>5. Shape("PdfRender") BY DEF PdfRender, PdfRenderMakes
<1>6. Shape("Heif") BY DEF Heif, HeifMakes
<1>7. Shape("Magick") BY DEF Magick, MagickMakes
<1>8. Shape("MarkupPdf") BY DEF MarkupPdf
<1>9. Shape("PdfOps") BY DEF PdfOps, PdfOpsMakes
<1>10. Shape("PdfMetadata") BY DEF PdfMetadata
<1>11. Shape("ImageOcr") BY DEF ImageOcr
<1>12. Shape("PdfOcr") BY DEF PdfOcr
<1>13. Shape("Archive") BY DEF Archive
<1>14. Shape("Pdftotext") BY DEF Pdftotext
<1>15. Shape("Pandoc") BY DEF Pandoc
<1>16. Shape("Structured") BY DEF Structured
<1>17. Shape("Ffmpeg") BY DEF Ffmpeg, FfmpegAttempt
<1>18. Shape("Eml") BY DEF Eml
<1>19. Shape("Msg") BY DEF Msg
<1>20. Shape("MboxText") BY DEF MboxText
<1>21. Shape("MboxPdf") BY DEF MboxPdf
<1> HIDE DEF Program, Shape
<1> QED BY AdaptersAssumption, <1>1, <1>2, <1>3, <1>4, <1>5, <1>6, <1>7, <1>8, <1>9, <1>10, 
       <1>11, <1>12, <1>13, <1>14, <1>15, <1>16, <1>17, <1>18, <1>19, <1>20, <1>21 DEF Body

\* Which adapters have the steps that not all have.
LEMMA EveryRoles == \A a \in Adapters : Roles(a)
<1> USE DEF Program, Body, Begin, Deliver, Roles, Mail, Mailbox, DirectWriters
<1>1. Roles("OfficePdf") BY DEF OfficePdf, OfficePdfMakes
<1>2. Roles("OfficeExchange") BY DEF OfficeExchange, OfficeExchangeMakes
<1>3. Roles("OfficeCsv") BY DEF OfficeCsv
<1>4. Roles("EdgePrint") BY DEF EdgePrint, EdgePrintMakes
<1>5. Roles("PdfRender") BY DEF PdfRender, PdfRenderMakes
<1>6. Roles("Heif") BY DEF Heif, HeifMakes
<1>7. Roles("Magick") BY DEF Magick, MagickMakes
<1>8. Roles("MarkupPdf") BY DEF MarkupPdf
<1>9. Roles("PdfOps") BY DEF PdfOps, PdfOpsMakes
<1>10. Roles("PdfMetadata") BY DEF PdfMetadata
<1>11. Roles("ImageOcr") BY DEF ImageOcr
<1>12. Roles("PdfOcr") BY DEF PdfOcr
<1>13. Roles("Archive") BY DEF Archive
<1>14. Roles("Pdftotext") BY DEF Pdftotext
<1>15. Roles("Pandoc") BY DEF Pandoc
<1>16. Roles("Structured") BY DEF Structured
<1>17. Roles("Ffmpeg") BY DEF Ffmpeg, FfmpegAttempt
<1>18. Roles("Eml") BY DEF Eml
<1>19. Roles("Msg") BY DEF Msg
<1>20. Roles("MboxText") BY DEF MboxText
<1>21. Roles("MboxPdf") BY DEF MboxPdf
<1> HIDE DEF Program, Roles
<1> QED BY AdaptersAssumption, <1>1, <1>2, <1>3, <1>4, <1>5, <1>6, <1>7, <1>8, <1>9, <1>10, 
       <1>11, <1>12, <1>13, <1>14, <1>15, <1>16, <1>17, <1>18, <1>19, <1>20, <1>21 DEF Body

\* One milestone in every program, before the commit.
LEMMA EveryToldOnce == \A a \in Adapters : ToldOnce(a)
<1> USE DEF Program, Body, Begin, Deliver, ToldOnce, Past, Telling, Mail
<1>1. ToldOnce("OfficePdf") BY DEF OfficePdf, OfficePdfMakes
<1>2. ToldOnce("OfficeExchange") BY DEF OfficeExchange, OfficeExchangeMakes
<1>3. ToldOnce("OfficeCsv") BY DEF OfficeCsv
<1>4. ToldOnce("EdgePrint") BY DEF EdgePrint, EdgePrintMakes
<1>5. ToldOnce("PdfRender") BY DEF PdfRender, PdfRenderMakes
<1>6. ToldOnce("Heif") BY DEF Heif, HeifMakes
<1>7. ToldOnce("Magick") BY DEF Magick, MagickMakes
<1>8. ToldOnce("MarkupPdf") BY DEF MarkupPdf
<1>9. ToldOnce("PdfOps") BY DEF PdfOps, PdfOpsMakes
<1>10. ToldOnce("PdfMetadata") BY DEF PdfMetadata
<1>11. ToldOnce("ImageOcr") BY DEF ImageOcr
<1>12. ToldOnce("PdfOcr") BY DEF PdfOcr
<1>13. ToldOnce("Archive") BY DEF Archive
<1>14. ToldOnce("Pdftotext") BY DEF Pdftotext
<1>15. ToldOnce("Pandoc") BY DEF Pandoc
<1>16. ToldOnce("Structured") BY DEF Structured
<1>17. ToldOnce("Ffmpeg") BY DEF Ffmpeg, FfmpegAttempt
<1>18. ToldOnce("Eml") BY DEF Eml
<1>19. ToldOnce("Msg") BY DEF Msg
<1>20. ToldOnce("MboxText") BY DEF MboxText
<1>21. ToldOnce("MboxPdf") BY DEF MboxPdf
<1> HIDE DEF Program, ToldOnce
<1> QED BY AdaptersAssumption, <1>1, <1>2, <1>3, <1>4, <1>5, <1>6, <1>7, <1>8, <1>9, <1>10, 
       <1>11, <1>12, <1>13, <1>14, <1>15, <1>16, <1>17, <1>18, <1>19, <1>20, <1>21 DEF Body

\* The input is compared after it is read for the last time.
LEMMA EveryReadFirst == \A a \in Adapters : ReadFirst(a)
<1> USE DEF Program, Body, Begin, Deliver, ReadFirst, Past, Making, Mail
<1>1. ReadFirst("OfficePdf") BY DEF OfficePdf, OfficePdfMakes
<1>2. ReadFirst("OfficeExchange") BY DEF OfficeExchange, OfficeExchangeMakes
<1>3. ReadFirst("OfficeCsv") BY DEF OfficeCsv
<1>4. ReadFirst("EdgePrint") BY DEF EdgePrint, EdgePrintMakes
<1>5. ReadFirst("PdfRender") BY DEF PdfRender, PdfRenderMakes
<1>6. ReadFirst("Heif") BY DEF Heif, HeifMakes
<1>7. ReadFirst("Magick") BY DEF Magick, MagickMakes
<1>8. ReadFirst("MarkupPdf") BY DEF MarkupPdf
<1>9. ReadFirst("PdfOps") BY DEF PdfOps, PdfOpsMakes
<1>10. ReadFirst("PdfMetadata") BY DEF PdfMetadata
<1>11. ReadFirst("ImageOcr") BY DEF ImageOcr
<1>12. ReadFirst("PdfOcr") BY DEF PdfOcr
<1>13. ReadFirst("Archive") BY DEF Archive
<1>14. ReadFirst("Pdftotext") BY DEF Pdftotext
<1>15. ReadFirst("Pandoc") BY DEF Pandoc
<1>16. ReadFirst("Structured") BY DEF Structured
<1>17. ReadFirst("Ffmpeg") BY DEF Ffmpeg, FfmpegAttempt
<1>18. ReadFirst("Eml") BY DEF Eml
<1>19. ReadFirst("Msg") BY DEF Msg
<1>20. ReadFirst("MboxText") BY DEF MboxText
<1>21. ReadFirst("MboxPdf") BY DEF MboxPdf
<1> HIDE DEF Program, ReadFirst
<1> QED BY AdaptersAssumption, <1>1, <1>2, <1>3, <1>4, <1>5, <1>6, <1>7, <1>8, <1>9, <1>10, 
       <1>11, <1>12, <1>13, <1>14, <1>15, <1>16, <1>17, <1>18, <1>19, <1>20, <1>21 DEF Body

\* Nothing but tidying up follows a commit, and every program delivers.
LEMMA EveryCommitsLast == \A a \in Adapters : CommitsLast(a)
<1> USE DEF Program, Body, Begin, Deliver, CommitsLast, Past
<1>1. CommitsLast("OfficePdf") BY DEF OfficePdf, OfficePdfMakes
<1>2. CommitsLast("OfficeExchange") BY DEF OfficeExchange, OfficeExchangeMakes
<1>3. CommitsLast("OfficeCsv") BY DEF OfficeCsv
<1>4. CommitsLast("EdgePrint") BY DEF EdgePrint, EdgePrintMakes
<1>5. CommitsLast("PdfRender") BY DEF PdfRender, PdfRenderMakes
<1>6. CommitsLast("Heif") BY DEF Heif, HeifMakes
<1>7. CommitsLast("Magick") BY DEF Magick, MagickMakes
<1>8. CommitsLast("MarkupPdf") BY DEF MarkupPdf
<1>9. CommitsLast("PdfOps") BY DEF PdfOps, PdfOpsMakes
<1>10. CommitsLast("PdfMetadata") BY DEF PdfMetadata
<1>11. CommitsLast("ImageOcr") BY DEF ImageOcr
<1>12. CommitsLast("PdfOcr") BY DEF PdfOcr
<1>13. CommitsLast("Archive") BY DEF Archive
<1>14. CommitsLast("Pdftotext") BY DEF Pdftotext
<1>15. CommitsLast("Pandoc") BY DEF Pandoc
<1>16. CommitsLast("Structured") BY DEF Structured
<1>17. CommitsLast("Ffmpeg") BY DEF Ffmpeg, FfmpegAttempt
<1>18. CommitsLast("Eml") BY DEF Eml
<1>19. CommitsLast("Msg") BY DEF Msg
<1>20. CommitsLast("MboxText") BY DEF MboxText
<1>21. CommitsLast("MboxPdf") BY DEF MboxPdf
<1> HIDE DEF Program, CommitsLast
<1> QED BY AdaptersAssumption, <1>1, <1>2, <1>3, <1>4, <1>5, <1>6, <1>7, <1>8, <1>9, <1>10, 
       <1>11, <1>12, <1>13, <1>14, <1>15, <1>16, <1>17, <1>18, <1>19, <1>20, <1>21 DEF Body

\* Where a program may fail without cleaning up.
LEMMA EveryPlaces == \A a \in Adapters : Places(a)
<1> USE DEF Program, Body, Begin, Deliver, Places, Past, Staging, Mailbox, InDirectory
<1>1. Places("OfficePdf") BY DEF OfficePdf, OfficePdfMakes
<1>2. Places("OfficeExchange") BY DEF OfficeExchange, OfficeExchangeMakes
<1>3. Places("OfficeCsv") BY DEF OfficeCsv
<1>4. Places("EdgePrint") BY DEF EdgePrint, EdgePrintMakes
<1>5. Places("PdfRender") BY DEF PdfRender, PdfRenderMakes
<1>6. Places("Heif") BY DEF Heif, HeifMakes
<1>7. Places("Magick") BY DEF Magick, MagickMakes
<1>8. Places("MarkupPdf") BY DEF MarkupPdf
<1>9. Places("PdfOps") BY DEF PdfOps, PdfOpsMakes
<1>10. Places("PdfMetadata") BY DEF PdfMetadata
<1>11. Places("ImageOcr") BY DEF ImageOcr
<1>12. Places("PdfOcr") BY DEF PdfOcr
<1>13. Places("Archive") BY DEF Archive
<1>14. Places("Pdftotext") BY DEF Pdftotext
<1>15. Places("Pandoc") BY DEF Pandoc
<1>16. Places("Structured") BY DEF Structured
<1>17. Places("Ffmpeg") BY DEF Ffmpeg, FfmpegAttempt
<1>18. Places("Eml") BY DEF Eml
<1>19. Places("Msg") BY DEF Msg
<1>20. Places("MboxText") BY DEF MboxText
<1>21. Places("MboxPdf") BY DEF MboxPdf
<1> HIDE DEF Program, Places
<1> QED BY AdaptersAssumption, <1>1, <1>2, <1>3, <1>4, <1>5, <1>6, <1>7, <1>8, <1>9, <1>10, 
       <1>11, <1>12, <1>13, <1>14, <1>15, <1>16, <1>17, <1>18, <1>19, <1>20, <1>21 DEF Body

-----------------------------------------------------------------------------
(* The inductive invariant.                                               *)

Passed(S) == Past(adapter, at, S)

Explained ==
    \/ stray
    \/ <<adapter, ended>> \in KnownLeaks
    \/ adapter \in Mailbox /\ ended = "recovered"
    \/ ended \in Early

\* the milestone has been sent when its step is behind
ToldAsPassed ==
    /\ Running => told = IF Passed(Telling) THEN 1 ELSE 0
    /\ result = "ok" => told = 1

\* the input is compared after the last step that read it
InputAsRead ==
    /\ Running /\ from = "changed" => input = "changed"
    /\ adapter \notin Mail /\ Running /\ Passed({"same"}) => from = "planned"
    /\ adapter \notin Mail /\ result = "ok" => from = "planned"

\* between validation and the commit only a loose engine touches the file
Validated ==
    /\ At("clear") \/ At("commit") => staged \in {"good", "bad"} /\ (staged = "good" \/ stray)
    /\ dest \in {"part", "bad"} => adapter \in DirectWriters \/ stray
    /\ Running /\ Passed({"commit"}) => dest = "good" \/ stray
    /\ Running /\ adapter = "Eml" /\ Passed({"judgeOutput"}) => dest = "good"
    /\ result = "ok" => dest = "good" \/ stray
    /\ loose = "writer" => result = "dropped" /\ adapter \in DirectWriters

\* nothing is staged before the first step that stages and after the last
Bare ==
    /\ Running /\ at > 3 /\ adapter \notin Mailbox /\ ~Passed(Staging) => staged = "none" \/ stray
    /\ Running /\ Passed({"dropWork"}) => staged = "none" \/ stray
    /\ result \in {"ok", "cancelled"} => staged = "none" \/ stray \/ ended \in Early

\* what an attempt left is explained until the next one stages
Leftover ==
    /\ result = "error" => ended # "recovered"
    /\ \/ result \in {"error", "recovered"}
       \/ Running /\ (at <= 3 \/ (adapter \in Mailbox /\ ~Passed(Staging)))
       => staged = "none" \/ Explained

IInv == TypeOK /\ ToldAsPassed /\ InputAsRead /\ Validated /\ Bare /\ Leftover

-----------------------------------------------------------------------------
(* What a step of the program does.                                       *)

\* a step is taken and the next one is due, or the run has succeeded
Moves ==
    /\ Running /\ Advance
    /\ UNCHANGED <<run, input, cancelled, loose, stray>>
    /\ engine' \in BOOLEAN
    /\ told' = IF Step \in Telling THEN told + 1 ELSE told
    /\ from' = from \/ (Step \in Making /\ from' \in {"planned", input})
    /\ Step = "same" => input = "planned"
    /\ Step = "vacant" => staged = "none" \/ adapter \in Mailbox
    /\ Step = "validate" => staged = "good"
    /\ staged' \in {"none", "dir", "part", "good", "bad"}
    /\ Step \notin Staging \cup {"commit", "sweep", "dropWork", "fit"} => staged' = staged
    /\ Step \in {"sweep", "dropWork", "fit"} => staged' = "none"
    /\ Step = "commit" /\ (adapter = "PdfRender" \/ ~InDirectory(adapter)) => staged' = "none"
    /\ \/ dest' = dest /\ Step \notin {"commit", "publish", "publishWorker"}
       \/ dest' = staged /\ Step = "commit" /\ dest = "free"
       \/ dest' \in {"good", "bad"} /\ Step \in {"publish", "publishWorker"}
       \/ dest' = "free" /\ Step = "judgeOutput" /\ adapter # "Eml"
    /\ Step = "judgeOutput" /\ adapter = "Eml" => dest = "good"
    /\ Step = "removeRejected" => dest = "good"

\* nothing is staged by this attempt, or no longer
NothingStaged ==
    \/ adapter \notin Mailbox /\ at > 3 /\ ~Passed(Staging)
    \/ Passed({"dropWork"})

\* the run is turned away, and cleans up unless it may leave things as they are
Stops ==
    /\ Running /\ result' \in {"error", "cancelled"} /\ ended' = Step
    /\ UNCHANGED <<run, at, from, input, cancelled, loose, stray>>
    /\ engine' \in BOOLEAN
    /\ told' = told \/ (Step = "tell" /\ told' = told + 1)
    /\ \/ dest' = dest
       \/ dest' = "part" /\ Step \in {"publish", "publishWorker"}
       \/ dest' = "free" /\ Step \in {"inspectOutput", "judgeOutput", "removeRejected"}
    /\ staged' \in {"none", "dir", "part", "good", "bad"}
    /\ \/ staged' = "none"
       \/ result' = "error" /\ (Step \in Early \/ <<adapter, Step>> \in KnownLeaks)
       \/ result' = "error" /\ NothingStaged /\ staged' = staged

\* the rung of the ladder was small enough
Jumps ==
    /\ At("fit") /\ at' = at + 4
    /\ UNCHANGED <<run, result, ended, staged, surroundings, engine, told, from>>

-----------------------------------------------------------------------------
(* Where a run is.                                                         *)

\* One more step is behind.
LEMMA PastNext ==
    ASSUME NEW a, NEW i \in Nat \ {0}, NEW S
    PROVE  Past(a, i + 1, S) <=> Past(a, i, S) \/ Program(a)[i] \in S
BY DEF Past

\* No step is behind at the first.
LEMMA PastNone == ASSUME NEW a, NEW S PROVE ~Past(a, 1, S)
BY DEF Past

\* The program's facts, at the step a run is at.
LEMMA Here ==
    ASSUME TypeOK
    PROVE  /\ adapter \in Adapters /\ at \in Nat \ {0} /\ at <= Len(Program(adapter))
           /\ Len(Program(adapter)) \in Nat /\ Len(Program(adapter)) > 3
           /\ Step \notin {"recovered", "nowhere"}
           /\ Step = "vacant" => at = 3
           /\ at = 1 => Step = "absent"
           /\ at = 2 => Step = "sameFirst"
           /\ at = 3 => Step = "vacant"
<1>1. adapter \in Adapters /\ at \in 1..Len(Program(adapter))
  BY DEF TypeOK
<1>2. Shape(adapter)
  BY <1>1, EveryShape
<1> QED
  BY <1>1, <1>2 DEF Shape, Step

LEMMA HereRoles ==
    ASSUME TypeOK
    PROVE  /\ Step \in {"publish", "publishWorker", "inspectOutput", "judgeOutput",
                        "removeRejected"} => adapter \in DirectWriters
           /\ Step = "tellAfter" => adapter \in Mail
           /\ Step = "dropWork" => adapter \in Mailbox
           /\ Step = "print" => adapter \in Mailbox \cup {"EdgePrint"}
           /\ Step = "work" => adapter \in {"PdfMetadata", "Archive"}
           /\ Step = "arguments" => adapter \in {"PdfRender", "Heif", "Magick", "PdfOps"}
           /\ Step = "doctor" => adapter \in {"PdfOps", "PdfMetadata", "PdfOcr"}
           /\ Step = "readdir" => adapter = "Heif"
           /\ Step = "stem" => adapter \in {"OfficePdf", "OfficeExchange"}
<1>1. adapter \in Adapters /\ at \in 1..Len(Program(adapter))
  BY DEF TypeOK
<1> QED
  BY <1>1, EveryRoles DEF Roles, Step

LEMMA HerePlaces ==
    ASSUME TypeOK
    PROVE  /\ Step \in {"recognize", "extract", "publish", "publishWorker", "inspectOutput",
                        "judgeOutput"} => adapter \in Mailbox \/ NothingStaged
           /\ Step = "removeRejected" => NothingStaged
           /\ Step = "arguments" /\ adapter = "PdfOps" => NothingStaged
           /\ Step = "doctor" /\ adapter = "PdfOcr" => NothingStaged
           /\ Step = "mkdir" => at > 3 /\ ~Passed(Staging)
           /\ Step \in {"commit", "fit"} => Passed(Staging)
           /\ Passed({"dropWork"}) => Step \notin Staging \cup {"commit"}
           /\ at = Len(Program(adapter)) =>
                \/ Step = "sweep"
                \/ Step = "commit" /\ (adapter = "PdfRender" \/ ~InDirectory(adapter))
                \/ NothingStaged /\ Step \notin Staging \cup {"commit"}
<1>1. adapter \in Adapters /\ at \in 1..Len(Program(adapter))
  BY DEF TypeOK
<1>2. Places(adapter)
  BY <1>1, EveryPlaces
<1> QED
  BY <1>1, <1>2 DEF Places, Step, Passed, NothingStaged

-----------------------------------------------------------------------------
(* Every step of the program moves on, stops the run or jumps.             *)

Tidying == {"commit", "sweep", "dropWork", "fit"}
Publishing == {"commit", "publish", "publishWorker"}

LEMMA GoesOn ==
    ASSUME TypeOK, Running, Advance, UNCHANGED <<run, surroundings, staged, engine, told, from>>,
           Step \notin Telling \cup Tidying \cup Publishing,
           Step = "same" => input = "planned",
           Step = "vacant" => staged = "none" \/ adapter \in Mailbox,
           Step = "validate" => staged = "good",
           Step = "judgeOutput" /\ adapter = "Eml" => dest = "good",
           Step = "removeRejected" => dest = "good"
    PROVE  Moves
BY DEF Moves, TypeOK, surroundings, Tidying, Publishing

LEMMA CleansUp ==
    ASSUME TypeOK, Running, NEW r \in {"error", "cancelled"}, ReturnsClean(r),
           UNCHANGED <<run, surroundings>>
    PROVE  Stops
BY DEF Stops, TypeOK, surroundings, ReturnsClean, Returns

LEMMA LeavesThings ==
    ASSUME TypeOK, Running, Fails("error"), UNCHANGED <<run, input, cancelled, loose, stray>>,
           \/ dest' = dest
           \/ dest' = "part" /\ Step \in {"publish", "publishWorker"}
           \/ dest' = "free" /\ Step \in {"inspectOutput", "judgeOutput", "removeRejected"},
           \/ adapter \in Mailbox \/ Step \in Early
           \/ <<adapter, Step>> \in KnownLeaks \/ NothingStaged
    PROVE  Stops
<1>1. result' = "error" /\ ended' = Step /\ at' = at /\ told' = told /\ from' = from
      /\ engine' = FALSE
  BY DEF Fails, ReturnsClean, Returns
<1>2. staged' = "none" \/ (staged' = staged /\ (Step \in Early \/ adapter \notin Mailbox))
  BY DEF Fails, ReturnsClean, Returns
<1>3. staged' \in {"none", "dir", "part", "good", "bad"}
  BY <1>2 DEF TypeOK
<1> QED BY <1>1, <1>2, <1>3 DEF Stops

LEMMA BeforeWork ==
    ASSUME TypeOK, Absent \/ Vacant \/ MakesDirectory \/ SameInput \/ SameInputFirst
    PROVE  Moves \/ Stops
<1> USE DEF At, Tidying, Publishing, Telling
<1>1. CASE Absent
  <2>1. UNCHANGED <<run, surroundings>> /\ Running /\ Step = "absent"
    BY <1>1 DEF Absent
  <2>2. CASE dest = "free"
    BY <1>1, <2>1, <2>2, GoesOn DEF Absent
  <2>3. CASE dest # "free"
    BY <1>1, <2>1, <2>3, LeavesThings DEF Absent, Early, surroundings
  <2> QED BY <2>2, <2>3
<1>2. CASE Vacant
  <2>1. UNCHANGED <<run, surroundings>> /\ Running /\ Step = "vacant"
    BY <1>2 DEF Vacant
  <2>2. CASE staged = "none" \/ adapter \in Mailbox
    BY <1>2, <2>1, <2>2, GoesOn DEF Vacant
  <2>3. CASE ~(staged = "none" \/ adapter \in Mailbox)
    BY <1>2, <2>1, <2>3 DEF Vacant, Stops, Returns, Early, TypeOK, surroundings
  <2> QED BY <2>2, <2>3
<1>3. CASE MakesDirectory
  <2>1. UNCHANGED <<run, surroundings>> /\ Running /\ Step = "mkdir"
    BY <1>3 DEF MakesDirectory
  <2>2. \/ Advance /\ staged' = "dir" /\ UNCHANGED <<engine, told, from>>
        \/ Returns("error") /\ UNCHANGED staged
    BY <1>3 DEF MakesDirectory
  <2> QED
    BY <2>1, <2>2 DEF Moves, Stops, Returns, Early, TypeOK, surroundings, Staging
<1>4. CASE SameInput
  <2>1. UNCHANGED <<run, surroundings>> /\ Running /\ Step = "same"
    BY <1>4 DEF SameInput
  <2> QED BY <1>4, <2>1, GoesOn, CleansUp DEF SameInput
<1>5. CASE SameInputFirst
  <2>1. UNCHANGED <<run, surroundings>> /\ Running /\ Step = "sameFirst"
    BY <1>5 DEF SameInputFirst
  <2> QED BY <1>5, <2>1, GoesOn DEF SameInputFirst
<1> QED BY <1>1, <1>2, <1>3, <1>4, <1>5

LEMMA CallsAndAsks ==
    ASSUME TypeOK, CallSucceeds \/ CallFails \/ AskFails
    PROVE  Moves \/ Stops
<1>1. CASE CallSucceeds
  <2>1. /\ Running /\ Advance /\ UNCHANGED <<run, surroundings, staged, engine, told, from>>
        /\ Step \in {"arguments", "doctor", "readdir", "parse", "stem", "prepare", "pages",
                     "inspect", "evidence"}
    BY <1>1 DEF CallSucceeds, Asks, Calls
  <2> QED BY <2>1, GoesOn DEF Tidying, Publishing, Telling
<1>2. CASE CallFails
  BY <1>2, CleansUp DEF CallFails
<1>3. CASE AskFails
  <2>1. /\ Running /\ Fails("error") /\ UNCHANGED <<run, surroundings>>
        /\ Step \in {"sameFirst", "arguments", "doctor", "readdir", "parse", "stem"}
    BY <1>3 DEF AskFails, Asks
  <2>2. \/ adapter \in Mailbox \/ Step \in Early
        \/ <<adapter, Step>> \in KnownLeaks \/ NothingStaged
    <3>1. CASE Step \in {"sameFirst", "parse"}
      BY <3>1 DEF Early
    <3>2. CASE Step = "arguments"
      BY <3>2, HereRoles, HerePlaces DEF KnownLeaks
    <3>3. CASE Step = "doctor"
      BY <3>3, HereRoles, HerePlaces DEF KnownLeaks
    <3>4. CASE Step = "readdir"
      BY <3>4, HereRoles DEF KnownLeaks
    <3>5. CASE Step = "stem"
      BY <3>5, HereRoles DEF KnownLeaks
    <3> QED BY <2>1, <3>1, <3>2, <3>3, <3>4, <3>5
  <2> QED BY <2>1, <2>2, LeavesThings DEF surroundings
<1> QED BY <1>1, <1>2, <1>3

LEMMA EngineSteps ==
    ASSUME TypeOK, Spawns \/ EngineExits \/ WaitFails \/ Kills \/ TimesOut \/ Renders
    PROVE  Moves \/ Stops
<1>1. CASE Spawns
  <2>1. UNCHANGED <<run, surroundings>> /\ Running /\ Step = "spawn"
    BY <1>1 DEF Spawns, At
  <2>2. \/ engine' = TRUE /\ staged' = "part" /\ Advance /\ UNCHANGED <<told, from>>
        \/ ReturnsClean("error")
    BY <1>1 DEF Spawns
  <2> QED BY <2>1, <2>2, CleansUp DEF Moves, Staging, Telling, surroundings
<1>2. CASE EngineExits
  <2>1. UNCHANGED <<run, surroundings>> /\ Running /\ Step \in {"wait", "waitInner", "print"}
    BY <1>2 DEF EngineExits, Waits
  <2>2. \/ Makes /\ engine' = FALSE /\ Advance /\ UNCHANGED told
        \/ ReturnsClean("error")
    BY <1>2 DEF EngineExits
  <2> QED
    BY <2>1, <2>2, CleansUp DEF Moves, Makes, Making, Staging, Telling, surroundings, TypeOK
<1>3. CASE WaitFails
  <2>1. /\ UNCHANGED <<run, surroundings>> /\ Running /\ Step \in {"wait", "waitInner", "print"}
        /\ IF Step = "waitInner" THEN ReturnsClean("error") ELSE Fails("error")
    BY <1>3 DEF WaitFails, Waits
  <2>2. Step = "wait" => <<adapter, Step>> \in KnownLeaks
    BY DEF KnownLeaks, TypeOK
  <2>3. Step = "print" => adapter \in Mailbox \/ <<adapter, Step>> \in KnownLeaks
    BY HereRoles DEF KnownLeaks
  <2> QED BY <2>1, <2>2, <2>3, CleansUp, LeavesThings DEF surroundings
<1>4. CASE Kills
  BY <1>4, CleansUp DEF Kills
<1>5. CASE TimesOut
  BY <1>5, CleansUp DEF TimesOut, At
<1>6. CASE Renders
  <2>1. UNCHANGED <<run, surroundings>> /\ Running /\ Step = "render"
    BY <1>6 DEF Renders, At
  <2> QED BY <1>6, <2>1, GoesOn, CleansUp DEF Renders, Tidying, Publishing, Telling
<1> QED BY <1>1, <1>2, <1>3, <1>4, <1>5, <1>6

LEMMA WorkSteps ==
    ASSUME TypeOK, Present \/ Fit \/ Reads \/ Writes \/ Merges \/ WorkEnds \/ Heeds
    PROVE  Moves \/ Stops \/ Jumps
<1> USE DEF Tidying, Publishing, Telling
<1>1. CASE Present
  <2>1. UNCHANGED <<run, surroundings>> /\ Running /\ Step \in {"present", "appear"}
    BY <1>1 DEF Present
  <2>2. \/ Advance /\ UNCHANGED <<staged, engine, told, from>>
        \/ ReturnsClean("cancelled") \/ ReturnsClean("error")
    BY <1>1 DEF Present
  <2> QED BY <2>1, <2>2, GoesOn, CleansUp
<1>2. CASE Fit
  <2>1. /\ UNCHANGED <<run, surroundings, engine, told, from>> /\ Running /\ Step = "fit"
        /\ \/ at' = at + 4 /\ UNCHANGED <<staged, result, ended>>
           \/ staged' = "none" /\ Advance
    <3>1. Len(FfmpegAttempt) = 3
      BY DEF FfmpegAttempt
    <3>2. at + Len(FfmpegAttempt) + 1 = at + 4
      BY <3>1, Here
    <3> QED BY <1>2, <3>2 DEF Fit, At
  <2> QED BY <2>1 DEF Jumps, At, Moves, Staging, Making, surroundings, TypeOK
<1>3. CASE Reads
  <2>1. /\ UNCHANGED <<run, surroundings>> /\ Running
        /\ Step \in {"recognize", "extract", "raster"}
    BY <1>3 DEF Reads
  <2>2. CASE /\ from' \in (IF from = "planned" THEN {"planned", input} ELSE {from})
             /\ Advance /\ UNCHANGED <<staged, engine, told>>
    BY <2>1, <2>2 DEF Moves, Making, Staging, surroundings, TypeOK
  <2>3. CASE Step # "raster" /\ Fails("error")
    BY <2>1, <2>3, HerePlaces, LeavesThings DEF surroundings
  <2>4. CASE Step = "raster" /\ ReturnsClean("error")
    BY <2>1, <2>4, CleansUp
  <2> QED BY <1>3, <2>2, <2>3, <2>4 DEF Reads
<1>4. CASE Writes \/ Merges
  <2>1. UNCHANGED <<run, surroundings>> /\ Running /\ Step \in {"write", "merge"}
    BY <1>4 DEF Writes, Merges, At
  <2>2. \/ staged' \in {"good", "bad"} /\ Advance /\ UNCHANGED <<engine, told, from>>
        \/ ReturnsClean("error")
    BY <1>4 DEF Writes, Merges
  <2> QED BY <2>1, <2>2, CleansUp DEF Moves, Staging, surroundings, TypeOK
<1>5. CASE WorkEnds
  <2>1. /\ UNCHANGED <<run, surroundings>> /\ Running
        /\ Step \in {"work", "workGuarded", "workHeeding"}
    BY <1>5 DEF WorkEnds, Workers
  <2>2. \/ ReturnsClean("cancelled") \/ ReturnsClean("error")
        \/ Makes /\ Advance /\ UNCHANGED <<engine, told>>
        \/ Step = "work" /\ staged' \in {staged, "part"} /\ Returns("error")
    BY <1>5 DEF WorkEnds
  <2>3. CASE Makes /\ Advance /\ UNCHANGED <<engine, told>>
    BY <2>1, <2>3 DEF Moves, Makes, Making, Staging, surroundings, TypeOK
  <2>4. CASE Step = "work" /\ staged' \in {staged, "part"} /\ Returns("error")
    <3>1. <<adapter, Step>> \in KnownLeaks
      BY <2>4, HereRoles DEF KnownLeaks
    <3> QED BY <2>1, <2>4, <3>1 DEF Stops, Returns, surroundings, TypeOK
  <2> QED BY <2>1, <2>2, <2>3, <2>4, CleansUp
<1>6. CASE Heeds
  <2>1. UNCHANGED <<run, surroundings>> /\ Running /\ Step = "heed"
    BY <1>6 DEF Heeds, At
  <2> QED BY <1>6, <2>1, GoesOn, CleansUp DEF Heeds
<1> QED BY <1>1, <1>2, <1>3, <1>4, <1>5, <1>6

LEMMA DeliverySteps ==
    ASSUME TypeOK, Tells \/ Validates \/ Clear \/ Commits \/ Sweeps
    PROVE  Moves \/ Stops
<1> USE DEF Tidying, Publishing, Telling
<1>1. CASE Tells
  <2>1. UNCHANGED <<run, surroundings>> /\ Running /\ Step = "tell" /\ told' = told + 1
    BY <1>1 DEF Tells, At
  <2>2. \/ Advance /\ UNCHANGED <<staged, engine, from>>
        \/ /\ result' = "error" /\ ended' = Step /\ staged' = "none"
           /\ UNCHANGED <<at, engine, from>>
    BY <1>1 DEF Tells
  <2> QED BY <2>1, <2>2 DEF Moves, Stops, Staging, surroundings, TypeOK
<1>2. CASE Validates
  <2>1. UNCHANGED <<run, surroundings>> /\ Running /\ Step = "validate"
    BY <1>2 DEF Validates, At
  <2> QED BY <1>2, <2>1, GoesOn, CleansUp DEF Validates
<1>3. CASE Clear
  <2>1. UNCHANGED <<run, surroundings>> /\ Running /\ Step = "clear"
    BY <1>3 DEF Clear, At
  <2> QED BY <1>3, <2>1, GoesOn, CleansUp DEF Clear
<1>4. CASE Commits
  <2>1. UNCHANGED <<run, input, cancelled, loose, stray>> /\ Running /\ Step = "commit"
    BY <1>4 DEF Commits, At
  <2>2. \/ /\ dest = "free" /\ dest' = staged
           /\ staged' = IF InDirectory(adapter) /\ adapter # "PdfRender" THEN "dir" ELSE "none"
           /\ Advance /\ UNCHANGED <<engine, told, from>>
        \/ ReturnsClean("error") /\ UNCHANGED dest
    BY <1>4 DEF Commits
  <2> QED BY <2>1, <2>2, CleansUp DEF Moves, Staging, surroundings, TypeOK
<1>5. CASE Sweeps
  <2>1. /\ UNCHANGED <<run, surroundings, engine, told, from>> /\ Running /\ Step = "sweep"
        /\ staged' = "none" /\ Advance
    BY <1>5 DEF Sweeps, At
  <2> QED BY <2>1 DEF Moves, Staging, surroundings, TypeOK
<1> QED BY <1>1, <1>2, <1>3, <1>4, <1>5

LEMMA MailSteps ==
    ASSUME TypeOK, Publishes \/ InspectsOutput \/ JudgesOutput \/ DropsWork \/ TellsAfter
                   \/ RemovesRejected
    PROVE  Moves \/ Stops
<1> USE DEF Tidying, Publishing, Telling
<1>1. CASE Publishes
  <2>1. /\ UNCHANGED <<run, input, cancelled, loose, stray>> /\ Running
        /\ Step \in {"publish", "publishWorker"}
    BY <1>1 DEF Publishes
  <2>2. CASE /\ dest' \in {"good", "bad"} /\ from' \in {"planned", input} /\ Advance
             /\ UNCHANGED <<staged, engine, told>>
    BY <2>1, <2>2 DEF Moves, Making, Staging, TypeOK
  <2>3. CASE dest' = "part" /\ Fails("error")
    BY <2>1, <2>3, HerePlaces, LeavesThings
  <2> QED BY <1>1, <2>2, <2>3 DEF Publishes
<1>2. CASE InspectsOutput
  <2>1. UNCHANGED <<run, input, cancelled, loose, stray>> /\ Running /\ Step = "inspectOutput"
    BY <1>2 DEF InspectsOutput, At
  <2>2. CASE Advance /\ UNCHANGED <<staged, dest, engine, told, from>>
    BY <2>1, <2>2, GoesOn DEF surroundings
  <2>3. CASE dest' = "free" /\ Fails("error")
    BY <2>1, <2>3, HerePlaces, LeavesThings
  <2> QED BY <1>2, <2>2, <2>3 DEF InspectsOutput
<1>3. CASE JudgesOutput
  <2>1. UNCHANGED <<run, input, cancelled, loose, stray>> /\ Running /\ Step = "judgeOutput"
    BY <1>3 DEF JudgesOutput, At
  <2>2. CASE dest = "good" /\ Advance /\ UNCHANGED <<staged, dest, engine, told, from>>
    BY <2>1, <2>2, GoesOn DEF surroundings
  <2>3. CASE dest' = "free" /\ adapter = "Eml" /\ Fails("error")
    BY <2>1, <2>3, HerePlaces, LeavesThings
  <2>4. CASE /\ dest' = "free" /\ adapter # "Eml" /\ Advance
             /\ UNCHANGED <<staged, engine, told, from>>
    BY <2>1, <2>4 DEF Moves, Staging, TypeOK
  <2> QED BY <1>3, <2>2, <2>3, <2>4 DEF JudgesOutput
<1>4. CASE DropsWork
  <2>1. UNCHANGED <<run, surroundings>> /\ Running /\ Step = "dropWork"
    BY <1>4 DEF DropsWork, At
  <2>2. CASE staged' = "none" /\ Advance /\ UNCHANGED <<engine, told, from>>
    BY <2>1, <2>2 DEF Moves, Staging, surroundings, TypeOK
  <2>3. CASE Returns("error") /\ UNCHANGED staged
    <3>1. <<adapter, Step>> \in KnownLeaks
      BY <2>1, HereRoles DEF KnownLeaks
    <3> QED BY <2>1, <2>3, <3>1 DEF Stops, Returns, surroundings, TypeOK
  <2> QED BY <1>4, <2>2, <2>3 DEF DropsWork
<1>5. CASE TellsAfter
  <2>1. /\ UNCHANGED <<run, surroundings, staged, engine, from>> /\ Running
        /\ Step = "tellAfter" /\ told' = told + 1 /\ Advance
    BY <1>5 DEF TellsAfter, At
  <2> QED BY <2>1 DEF Moves, Staging, surroundings, TypeOK
<1>6. CASE RemovesRejected
  <2>1. /\ UNCHANGED <<run, input, cancelled, loose, stray>> /\ Running
        /\ Step = "removeRejected"
    BY <1>6 DEF RemovesRejected, At
  <2>2. CASE dest = "good" /\ Advance /\ UNCHANGED <<staged, dest, engine, told, from>>
    BY <2>1, <2>2, GoesOn DEF surroundings
  <2>3. CASE dest' = "free" /\ Returns("error") /\ UNCHANGED staged
    BY <2>1, <2>3, HerePlaces DEF Stops, Returns, TypeOK
  <2> QED BY <1>6, <2>2, <2>3 DEF RemovesRejected
<1> QED BY <1>1, <1>2, <1>3, <1>4, <1>5, <1>6

LEMMA ProgramStep ==
    ASSUME TypeOK, Own \/ Engines
    PROVE  Moves \/ Stops \/ Jumps
BY BeforeWork, CallsAndAsks, EngineSteps, WorkSteps, DeliverySteps, MailSteps DEF Own, Engines

-----------------------------------------------------------------------------
(* A step that moves on keeps the invariant.                               *)

LEMMA HereOrder ==
    ASSUME TypeOK
    PROVE  /\ Step \in Telling => ~Passed(Telling)
           /\ Step = "commit" /\ adapter \notin Mail => Passed(Telling)
           /\ Step \in Making /\ adapter \notin Mail => ~Passed({"same"})
           /\ Passed({"commit"}) => Step \in {"sweep", "dropWork", "tellAfter"}
           /\ adapter = "Eml" /\ Passed({"judgeOutput"}) => Step = "tellAfter"
           /\ at = Len(Program(adapter)) =>
                  /\ Passed(Telling) \/ Step \in Telling
                  /\ adapter \notin Mail => Passed({"same"})
                  /\ \/ Passed({"commit"}) \/ Step \in {"commit", "removeRejected"}
                     \/ adapter = "Eml" /\ Passed({"judgeOutput"})
<1>1. adapter \in Adapters /\ at \in 1..Len(Program(adapter))
  BY DEF TypeOK
<1>2. ToldOnce(adapter) /\ CommitsLast(adapter) /\ ReadFirst(adapter)
  BY <1>1, EveryToldOnce, EveryCommitsLast, EveryReadFirst
<1>3. /\ Step \in Telling => ~Passed(Telling)
      /\ Step = "commit" /\ adapter \notin Mail => Passed(Telling)
      /\ at = Len(Program(adapter)) => Passed(Telling) \/ Step \in Telling
  BY <1>1, <1>2 DEF ToldOnce, Step, Passed
<1>4. adapter \notin Mail =>
          /\ Step \in Making => ~Passed({"same"})
          /\ at = Len(Program(adapter)) => Passed({"same"})
  BY <1>1, <1>2 DEF ReadFirst, Step, Passed
<1>5. /\ Passed({"commit"}) => Step \in {"sweep", "dropWork", "tellAfter"}
      /\ adapter = "Eml" /\ Passed({"judgeOutput"}) => Step = "tellAfter"
      /\ at = Len(Program(adapter)) =>
             \/ Passed({"commit"}) \/ Step \in {"commit", "removeRejected"}
             \/ adapter = "Eml" /\ Passed({"judgeOutput"})
  BY <1>1, <1>2 DEF CommitsLast, Step, Passed
<1> QED BY <1>3, <1>4, <1>5

LEMMA OneOn ==
    ASSUME TypeOK, Moves, at # Len(Program(adapter))
    PROVE  /\ at' = at + 1 /\ adapter' = adapter /\ Running' /\ result' = result
           /\ ended' = ended /\ attempt' = attempt
           /\ at' \in 1..Len(Program(adapter))
           /\ Step' = Program(adapter)[at + 1]
           /\ Step' = "clear" => Step = "validate"
           /\ Step' = "commit" => Step = "clear"
           /\ at' > 3 => at > 3 \/ Step = "vacant"
           /\ Passed(Telling)' <=> Passed(Telling) \/ Step \in Telling
           /\ Passed(Staging)' <=> Passed(Staging) \/ Step \in Staging
           /\ Passed({"same"})' <=> Passed({"same"}) \/ Step = "same"
           /\ Passed({"commit"})' <=> Passed({"commit"}) \/ Step = "commit"
           /\ Passed({"dropWork"})' <=> Passed({"dropWork"}) \/ Step = "dropWork"
           /\ Passed({"judgeOutput"})' <=> Passed({"judgeOutput"}) \/ Step = "judgeOutput"
<1>1. /\ at' = at + 1 /\ adapter' = adapter /\ Running' /\ result' = result
      /\ ended' = ended /\ attempt' = attempt
  BY DEF Moves, Advance, Running, run
<1>2. /\ at \in Nat \ {0} /\ at + 1 \in 1..Len(Program(adapter)) /\ adapter \in Adapters
      /\ at = 3 => Step = "vacant"
  BY Here
<1>3. /\ Program(adapter)[at + 1] = "clear" => Program(adapter)[at] = "validate"
      /\ Program(adapter)[at + 1] = "commit" => Program(adapter)[at] = "clear"
  <2>1. (at + 1) - 1 = at
    BY <1>2
  <2>2. Shape(adapter)
    BY <1>2, EveryShape
  <2> QED BY <1>2, <2>1, <2>2 DEF Shape
<1>4. Step' = Program(adapter)[at + 1]
  BY <1>1 DEF Step
<1>5. at' > 3 => at > 3 \/ Step = "vacant"
  BY <1>1, <1>2
<1>6. ASSUME NEW S PROVE Past(adapter', at', S) <=> Past(adapter, at, S) \/ Step \in S
  BY <1>1, <1>2, PastNext DEF Step
<1>7. /\ Passed(Telling)' <=> Passed(Telling) \/ Step \in Telling
      /\ Passed(Staging)' <=> Passed(Staging) \/ Step \in Staging
      /\ Passed({"same"})' <=> Passed({"same"}) \/ Step = "same"
      /\ Passed({"commit"})' <=> Passed({"commit"}) \/ Step = "commit"
      /\ Passed({"dropWork"})' <=> Passed({"dropWork"}) \/ Step = "dropWork"
      /\ Passed({"judgeOutput"})' <=> Passed({"judgeOutput"}) \/ Step = "judgeOutput"
  BY <1>6 DEF Passed
<1> QED BY <1>1, <1>2, <1>3, <1>4, <1>5, <1>7 DEF Step

LEMMA LastOne ==
    ASSUME TypeOK, Moves, at = Len(Program(adapter))
    PROVE  /\ at' = at /\ adapter' = adapter /\ ~Running' /\ result' = "ok"
           /\ ended' = Step /\ attempt' = attempt
BY DEF Moves, Advance, Running, run

LEMMA MovesTypes ==
    ASSUME IInv, Moves
    PROVE  TypeOK'
<1>1. TypeOK /\ Running /\ told \in {0, 1} /\ (Running => told = IF Passed(Telling) THEN 1 ELSE 0)
  BY DEF IInv, TypeOK, ToldAsPassed, Moves
<1>2. told' \in 0..1
  BY <1>1, HereOrder DEF Moves
<1>3. dest' \in {"free", "foreign"} \cup Ours
  BY <1>1 DEF IInv, Moves, Validated, At, TypeOK, Ours
<1>4. /\ from' \in {"planned", "changed"} /\ staged' \in {"none", "dir", "part", "good", "bad"}
      /\ input' = input /\ cancelled' = cancelled /\ loose' = loose /\ stray' = stray
      /\ engine' \in BOOLEAN
  BY <1>1 DEF Moves, TypeOK
<1>5. /\ adapter' = adapter /\ at' \in 1..Len(Program(adapter)) /\ attempt' = attempt
      /\ result' \in Results
      /\ ended' \in Ends(adapter)
  <2>1. CASE at # Len(Program(adapter))
    BY <1>1, <2>1, OneOn DEF TypeOK
  <2>2. CASE at = Len(Program(adapter))
    <3>1. at \in DOMAIN Program(adapter)
      BY <1>1, Here, EveryShape DEF Shape
    <3> QED BY <1>1, <2>2, <3>1, LastOne DEF TypeOK, Results, Step, Ends
  <2> QED BY <2>1, <2>2
<1> QED BY <1>1, <1>2, <1>3, <1>4, <1>5 DEF TypeOK

LEMMA MovesKept ==
    ASSUME IInv, Moves
    PROVE  (ToldAsPassed /\ InputAsRead /\ Validated /\ Bare /\ Leftover)'
<1>1. /\ TypeOK /\ Running /\ loose' = loose /\ stray' = stray /\ input' = input
      /\ dest \in {"free", "foreign"} \cup Ours /\ told \in 0..1
  BY DEF IInv, Moves, TypeOK
<1>2. CASE at # Len(Program(adapter))
  <2>1. ToldAsPassed'
    BY <1>1, <1>2, OneOn, HereOrder DEF IInv, ToldAsPassed, Moves, Running
  <2>2. InputAsRead'
    <3>1. from' = "changed" => input' = "changed"
      BY <1>1 DEF IInv, InputAsRead, Moves
    <3>2. ASSUME adapter \notin Mail, Passed({"same"})' PROVE from' = "planned"
      <4>1. Step \notin Making
        BY <1>1, <1>2, <3>2, OneOn, HereOrder DEF Making
      <4>2. from' = from
        BY <4>1 DEF Moves
      <4>3. from = "planned"
        <5>1. Passed({"same"}) \/ Step = "same"
          BY <1>1, <1>2, <3>2, OneOn
        <5>2. (from \in {"planned", "changed"} /\ input = "planned") \/ from = "planned"
          BY <1>1, <3>2, <5>1 DEF IInv, InputAsRead, Moves, TypeOK
        <5> QED BY <1>1, <5>2 DEF IInv, InputAsRead
      <4> QED BY <4>2, <4>3
    <3> QED BY <1>1, <1>2, <3>1, <3>2, OneOn DEF InputAsRead, Running
  <2>3. Validated'
    <3>1. At("clear")' \/ At("commit")' =>
              staged' \in {"good", "bad"} /\ (staged' = "good" \/ stray')
      BY <1>1, <1>2, OneOn DEF IInv, Validated, Moves, At, Staging
    <3>2. dest' \in {"part", "bad"} => adapter \in DirectWriters \/ stray
      BY <1>1, HereRoles DEF IInv, Validated, Moves, At
    <3>3. Passed({"commit"})' => dest' = "good" \/ stray
      BY <1>1, <1>2, OneOn, HereOrder DEF IInv, Validated, Moves, At
    <3>4. adapter = "Eml" /\ Passed({"judgeOutput"})' => dest' = "good"
      BY <1>1, <1>2, OneOn, HereOrder DEF IInv, Validated, Moves
    <3> QED
      BY <1>1, <1>2, <3>1, <3>2, <3>3, <3>4, OneOn DEF IInv, Validated, Running
  <2>4. Bare'
    <3>1. at' > 3 /\ adapter \notin Mailbox /\ ~Passed(Staging)' => staged' = "none" \/ stray
      BY <1>1, <1>2, OneOn, HerePlaces DEF IInv, Bare, Moves
    <3>2. Passed({"dropWork"})' => staged' = "none" \/ stray
      BY <1>1, <1>2, OneOn, HerePlaces DEF IInv, Bare, Moves
    <3> QED BY <1>1, <1>2, <3>1, <3>2, OneOn DEF Bare, Running
  <2>5. Leftover'
    <3>1. at' <= 3 \/ (adapter \in Mailbox /\ ~Passed(Staging)')
             => at <= 3 \/ (adapter \in Mailbox /\ ~Passed(Staging))
      BY <1>1, <1>2, OneOn, Here
    <3>2. at <= 3 => Step \in {"absent", "sameFirst", "vacant"}
      BY <1>1, Here
    <3>3. at' <= 3 \/ (adapter \in Mailbox /\ ~Passed(Staging)')
             => staged' = staged \/ staged' = "none"
      BY <1>1, <1>2, <3>1, <3>2, OneOn, HerePlaces, Here DEF Moves, Staging
    <3> QED BY <1>1, <1>2, <3>1, <3>3, OneOn DEF IInv, Leftover, Explained, Running
  <2> QED BY <2>1, <2>2, <2>3, <2>4, <2>5
<1>3. CASE at = Len(Program(adapter))
  <2>1. ToldAsPassed'
    BY <1>1, <1>3, LastOne, HereOrder DEF IInv, ToldAsPassed, Moves
  <2>2. InputAsRead'
    BY <1>1, <1>3, LastOne, HereOrder DEF IInv, InputAsRead, Moves
  <2>3. Validated'
    <3>1. dest' \in {"part", "bad"} => adapter \in DirectWriters \/ stray
      BY <1>1, HereRoles DEF IInv, Validated, Moves, At
    <3>2. dest' = "good" \/ stray
      BY <1>1, <1>3, HereOrder DEF IInv, Validated, Moves, At
    <3>3. loose' # "writer"
      BY <1>1 DEF IInv, Validated, Running
    <3> QED BY <1>1, <1>3, <3>1, <3>2, <3>3, LastOne DEF Validated, At
  <2>4. Bare'
    BY <1>1, <1>3, LastOne, HerePlaces DEF IInv, Bare, Moves, NothingStaged
  <2>5. Leftover'
    BY <1>1, <1>3, LastOne DEF Leftover
  <2> QED BY <2>1, <2>2, <2>3, <2>4, <2>5
<1> QED BY <1>2, <1>3

-----------------------------------------------------------------------------
(* A step that stops the run, and one that skips a rung.                   *)

LEMMA StopsTypes ==
    ASSUME IInv, Stops
    PROVE  TypeOK'
<1>1. TypeOK /\ Running /\ told \in {0, 1} /\ (Running => told = IF Passed(Telling) THEN 1 ELSE 0)
  BY DEF IInv, TypeOK, ToldAsPassed, Stops
<1>2. told' \in 0..1
  BY <1>1, HereOrder DEF Stops, Telling
<1>3. /\ adapter' = adapter /\ at' = at /\ attempt' = attempt /\ result' \in Results
      /\ ended' \in Ends(adapter)
  <2>1. at \in DOMAIN Program(adapter)
    BY <1>1, Here, EveryShape DEF Shape
  <2> QED BY <2>1 DEF Stops, run, Step, Results, Ends
<1>4. /\ dest' \in {"free", "foreign"} \cup Ours /\ engine' \in BOOLEAN
      /\ staged' \in {"none", "dir", "part", "good", "bad"}
      /\ from' = from /\ input' = input /\ cancelled' = cancelled /\ loose' = loose
      /\ stray' = stray
  BY <1>1 DEF Stops, TypeOK, Ours
<1> QED BY <1>1, <1>2, <1>3, <1>4 DEF TypeOK

LEMMA StopsKept ==
    ASSUME IInv, Stops
    PROVE  (ToldAsPassed /\ InputAsRead /\ Validated /\ Bare /\ Leftover)'
<1>1. /\ TypeOK /\ Running /\ loose' = loose /\ stray' = stray /\ adapter' = adapter
      /\ result' \in {"error", "cancelled"} /\ ended' = Step /\ ~Running'
  BY DEF IInv, Stops, Running, run
<1>2. ToldAsPassed' /\ InputAsRead'
  BY <1>1 DEF ToldAsPassed, InputAsRead
<1>3. Validated'
  <2>1. dest' \in {"part", "bad"} => adapter \in DirectWriters \/ stray
    BY <1>1, HereRoles DEF IInv, Validated, Stops
  <2>2. loose' # "writer"
    BY <1>1 DEF IInv, Validated, Running
  <2> QED BY <1>1, <2>1, <2>2 DEF Validated, At
<1>4. NothingStaged => staged = "none" \/ stray
  BY <1>1 DEF IInv, Bare, NothingStaged
<1>5. Bare'
  BY <1>1 DEF Bare, Stops
<1>6. Leftover'
  <2>1. ended' # "recovered"
    BY <1>1, Here
  <2>2. \/ staged' = "none" \/ stray' \/ ended' \in Early
        \/ <<adapter', ended'>> \in KnownLeaks
    BY <1>1, <1>4 DEF Stops
  <2> QED BY <1>1, <2>1, <2>2 DEF Leftover, Explained
<1> QED BY <1>2, <1>3, <1>5, <1>6

\* A rung is left behind whole: spawn, wait and present.
LEMMA FourOn ==
    ASSUME TypeOK, Jumps
    PROVE  /\ at' = at + 4 /\ at' \in 1..Len(Program(adapter)) /\ Running' /\ adapter' = adapter
           /\ Step' = "heed" /\ Passed(Staging) /\ Passed(Staging)'
           /\ Passed(Telling)' <=> Passed(Telling)
           /\ Passed({"same"})' <=> Passed({"same"})
           /\ Passed({"commit"})' <=> Passed({"commit"})
           /\ Passed({"dropWork"})' <=> Passed({"dropWork"})
           /\ Passed({"judgeOutput"})' <=> Passed({"judgeOutput"})
<1>1. /\ at' = at + 4 /\ adapter' = adapter /\ Running' /\ Step = "fit" /\ at \in Nat \ {0}
      /\ adapter \in Adapters /\ at <= Len(Program(adapter))
  BY Here DEF Jumps, At, Running, run
<1>2. /\ at + 4 <= Len(Program(adapter)) /\ Len(Program(adapter)) \in Nat
      /\ Program(adapter)[at] = "fit" /\ Program(adapter)[at + 1] = "spawn"
      /\ Program(adapter)[at + 2] = "wait" /\ Program(adapter)[at + 3] = "present"
      /\ Program(adapter)[at + 4] = "heed"
  <2>1. Shape(adapter)
    BY <1>1, EveryShape
  <2> QED BY <1>1, <2>1 DEF Shape, Step
<1>3. ASSUME NEW S PROVE Past(adapter, at + 4, S) <=>
          Past(adapter, at, S) \/ "fit" \in S \/ "spawn" \in S \/ "wait" \in S \/ "present" \in S
  <2>1. /\ at + 1 \in Nat \ {0} /\ at + 2 \in Nat \ {0} /\ at + 3 \in Nat \ {0}
        /\ (at + 1) + 1 = at + 2 /\ (at + 2) + 1 = at + 3 /\ (at + 3) + 1 = at + 4
    BY <1>1
  <2>2. Past(adapter, at + 1, S) <=> Past(adapter, at, S) \/ "fit" \in S
    BY <1>1, <1>2, PastNext
  <2>3. Past(adapter, at + 2, S) <=> Past(adapter, at + 1, S) \/ "spawn" \in S
    BY <2>1, <1>2, PastNext
  <2>4. Past(adapter, at + 3, S) <=> Past(adapter, at + 2, S) \/ "wait" \in S
    BY <2>1, <1>2, PastNext
  <2>5. Past(adapter, at + 4, S) <=> Past(adapter, at + 3, S) \/ "present" \in S
    BY <2>1, <1>2, PastNext
  <2> QED BY <2>2, <2>3, <2>4, <2>5
<1>4. Passed(Staging)
  BY <1>1, HerePlaces
<1>5. Past(adapter, at + 4, Staging) /\ (Past(adapter, at + 4, Telling) <=> Passed(Telling))
  BY <1>3, <1>4 DEF Passed, Staging, Telling
<1>6. /\ Past(adapter, at + 4, {"same"}) <=> Passed({"same"})
      /\ Past(adapter, at + 4, {"commit"}) <=> Passed({"commit"})
      /\ Past(adapter, at + 4, {"dropWork"}) <=> Passed({"dropWork"})
      /\ Past(adapter, at + 4, {"judgeOutput"}) <=> Passed({"judgeOutput"})
  BY <1>3 DEF Passed
<1> QED BY <1>1, <1>2, <1>4, <1>5, <1>6 DEF Passed, Step

LEMMA JumpsKept ==
    ASSUME IInv, Jumps
    PROVE  IInv'
<1>1. /\ TypeOK /\ Running /\ at \in Nat \ {0}
      /\ UNCHANGED <<adapter, attempt, result, ended, staged, dest, input, cancelled, loose,
                     stray, engine, told, from>>
  BY Here DEF IInv, Jumps, At, run, surroundings
<1>2. TypeOK'
  BY <1>1, FourOn DEF TypeOK
<1>3. ToldAsPassed' /\ InputAsRead'
  BY <1>1, FourOn DEF IInv, ToldAsPassed, InputAsRead, Running
<1>4. Validated'
  BY <1>1, FourOn DEF IInv, Validated, At, Running
<1>5. Bare'
  BY <1>1, FourOn DEF IInv, Bare, Running
<1>6. Leftover'
  <2>1. at' > 3 /\ ~(at' <= 3)
    BY <1>1, FourOn
  <2> QED BY <1>1, <2>1, FourOn DEF IInv, Leftover, Running
<1> QED BY <1>2, <1>3, <1>4, <1>5, <1>6 DEF IInv

-----------------------------------------------------------------------------
(* What happens around the run.                                            *)

LEMMA SamePlace ==
    ASSUME UNCHANGED <<adapter, at>>
    PROVE  /\ Step' = Step
           /\ Passed(Telling)' = Passed(Telling) /\ Passed(Staging)' = Passed(Staging)
           /\ Passed({"same"})' = Passed({"same"}) /\ Passed({"commit"})' = Passed({"commit"})
           /\ Passed({"dropWork"})' = Passed({"dropWork"})
           /\ Passed({"judgeOutput"})' = Passed({"judgeOutput"})
BY DEF Step, Passed

LEMMA SurroundingsKept ==
    ASSUME IInv, Cancel \/ InputChanges \/ ForeignAppears
    PROVE  IInv'
<1>1. /\ TypeOK /\ Running
      /\ UNCHANGED <<adapter, attempt, at, result, ended, staged, loose, stray, engine, told, from>>
      /\ input' = input \/ input' = "changed"
      /\ dest' = dest \/ (dest = "free" /\ dest' = "foreign")
      /\ cancelled' \in BOOLEAN
  BY DEF IInv, TypeOK, Cancel, InputChanges, ForeignAppears, run
<1>2. TypeOK'
  BY <1>1 DEF TypeOK
<1>3. ToldAsPassed' /\ InputAsRead'
  BY <1>1, SamePlace DEF IInv, ToldAsPassed, InputAsRead, Running
<1>4. Validated'
  BY <1>1, SamePlace DEF IInv, Validated, At, Running
<1>5. Bare'
  BY <1>1, SamePlace DEF IInv, Bare, Running
<1>6. Leftover'
  BY <1>1, SamePlace DEF IInv, Leftover, Explained, Running
<1> QED BY <1>2, <1>3, <1>4, <1>5, <1>6 DEF IInv

LEMMA CutShortKept ==
    ASSUME IInv, Dropped \/ Crash
    PROVE  IInv'
<1>1. /\ TypeOK /\ Running /\ ~Running' /\ result' \in {"dropped", "crashed"} /\ ended' = Step
      /\ UNCHANGED <<adapter, attempt, at, staged, stray, input, from, cancelled, told>>
      /\ engine' = FALSE
      /\ dest' = dest \/ (dest' = "part" /\ Step \in {"publish", "publishWorker"})
      /\ loose' \in {"none", "engine", loose}
         \/ (loose' = "writer" /\ result' = "dropped" /\ Step = "publishWorker")
  BY DEF IInv, Dropped, Crash, run, Running
<1>2. loose # "writer"
  BY <1>1 DEF IInv, Validated, Running
<1>3. TypeOK'
  <2>1. at \in DOMAIN Program(adapter)
    BY <1>1, Here, EveryShape DEF Shape
  <2>2. ended' \in Ends(adapter)
    BY <1>1, <2>1 DEF Step, Ends
  <2>3. /\ result' \in Results /\ dest' \in {"free", "foreign"} \cup Ours
        /\ loose' \in {"none", "engine", "writer"} /\ engine' \in BOOLEAN
    BY <1>1 DEF TypeOK, Results, Ours
  <2> QED BY <1>1, <2>2, <2>3 DEF TypeOK
<1>4. ToldAsPassed' /\ InputAsRead' /\ Bare' /\ Leftover'
  BY <1>1 DEF ToldAsPassed, InputAsRead, Bare, Leftover
<1>5. Validated'
  BY <1>1, <1>2, HereRoles DEF IInv, Validated, At
<1> QED BY <1>3, <1>4, <1>5 DEF IInv

LEMMA LooseKept ==
    ASSUME IInv, LooseWrites \/ LooseEnds
    PROVE  IInv'
<1>1. /\ TypeOK /\ loose' = "none"
      /\ UNCHANGED <<adapter, attempt, at, result, ended, engine, input, from, cancelled, told>>
      /\ \/ UNCHANGED <<staged, stray, dest>>
         \/ staged' \in {"good", "bad"} /\ stray' = TRUE /\ dest' = dest
         \/ loose = "writer" /\ dest' \in {"good", "bad"} /\ UNCHANGED <<staged, stray>>
  BY DEF IInv, LooseWrites, LooseEnds, run
<1>2. loose = "writer" => ~Running /\ result # "ok" /\ adapter \in DirectWriters
  BY DEF IInv, Validated, Running
<1>3. TypeOK'
  <2>1. staged' \in {"none", "dir", "part", "good", "bad"} /\ stray' \in BOOLEAN
    BY <1>1 DEF TypeOK
  <2>2. dest' \in {"free", "foreign"} \cup Ours
    BY <1>1 DEF TypeOK, Ours
  <2> QED BY <1>1, <2>1, <2>2 DEF TypeOK
<1>4. ToldAsPassed' /\ InputAsRead'
  BY <1>1, SamePlace DEF IInv, ToldAsPassed, InputAsRead, Running
<1>5. Validated'
  <2>1. CASE UNCHANGED <<staged, stray, dest>>
    BY <1>1, <2>1, SamePlace DEF IInv, Validated, At, Running
  <2>2. CASE staged' \in {"good", "bad"} /\ stray' = TRUE /\ dest' = dest
    BY <1>1, <2>2, SamePlace DEF IInv, Validated, At, Running
  <2>3. CASE loose = "writer" /\ dest' \in {"good", "bad"} /\ UNCHANGED <<staged, stray>>
    BY <1>1, <1>2, <2>3 DEF Validated, At, Running
  <2> QED BY <1>1, <2>1, <2>2, <2>3
<1>6. Bare'
  BY <1>1, SamePlace DEF IInv, Bare, Running
<1>7. Leftover'
  BY <1>1, SamePlace DEF IInv, Leftover, Explained, Running
<1> QED BY <1>3, <1>4, <1>5, <1>6, <1>7 DEF IInv

LEMMA RecoversKept ==
    ASSUME IInv, Recovers
    PROVE  IInv'
<1>1. /\ TypeOK /\ result = "crashed" /\ result' = "recovered" /\ ended' = "recovered" /\ ~Running'
      /\ UNCHANGED <<adapter, attempt, at, dest, engine, loose, input, from, cancelled, told>>
      /\ staged' = (IF adapter \in Candidates THEN "none" ELSE staged)
      /\ stray' = (stray /\ dest \in Ours)
  BY DEF IInv, Recovers, run, Running
<1>2. TypeOK'
  <2>1. ended' \in Ends(adapter) /\ result' \in Results
    BY <1>1 DEF Ends, Results
  <2>2. staged' \in {"none", staged} /\ stray' \in BOOLEAN
    BY <1>1 DEF TypeOK
  <2> QED BY <1>1, <2>1, <2>2 DEF TypeOK
<1>3. ToldAsPassed' /\ InputAsRead' /\ Bare'
  BY <1>1 DEF ToldAsPassed, InputAsRead, Bare
<1>4. Validated'
  BY <1>1 DEF IInv, Validated, At, Ours
<1>5. Leftover'
  <2>1. adapter \in Adapters
    BY <1>1 DEF TypeOK
  <2> QED BY <1>1, <2>1 DEF Leftover, Explained, Candidates
<1> QED BY <1>2, <1>3, <1>4, <1>5 DEF IInv

LEMMA AgainKept ==
    ASSUME IInv, Again
    PROVE  IInv'
<1>1. /\ TypeOK /\ result \in {"error", "cancelled", "recovered"} /\ attempt < Attempts
      /\ attempt' = attempt + 1 /\ at' = 1 /\ result' = "running" /\ Running'
      /\ cancelled' = FALSE /\ told' = 0 /\ input' = "planned" /\ from' = "planned"
      /\ UNCHANGED <<adapter, ended, staged, dest, engine, loose, stray>>
  BY DEF IInv, Again, Running
<1>2. /\ 1 \in 1..Len(Program(adapter)) /\ Program(adapter)[1] = "absent"
  BY <1>1, Here, EveryShape DEF Shape
<1>3. TypeOK'
  <2>1. attempt' \in 1..Attempts
    BY <1>1, AttemptsAssumption DEF TypeOK
  <2>2. result' \in Results /\ told' \in 0..1
    BY <1>1 DEF Results
  <2>3. at' \in 1..Len(Program(adapter'))
    BY <1>1, <1>2
  <2> QED BY <1>1, <2>1, <2>2, <2>3 DEF TypeOK
<1>4. /\ ~Passed(Telling)' /\ ~Passed({"same"})' /\ ~Passed({"commit"})'
      /\ ~Passed({"judgeOutput"})' /\ ~Passed({"dropWork"})'
  BY <1>1, PastNone DEF Passed
<1>5. ToldAsPassed' /\ InputAsRead'
  BY <1>1, <1>4 DEF ToldAsPassed, InputAsRead
<1>6. Validated'
  BY <1>1, <1>2, <1>4 DEF IInv, Validated, At, Step
<1>7. Bare'
  BY <1>1, <1>4 DEF Bare
<1>8. Leftover'
  BY <1>1 DEF IInv, Bare, Leftover, Explained
<1> QED BY <1>3, <1>5, <1>6, <1>7, <1>8 DEF IInv

-----------------------------------------------------------------------------
(* The invariant, and what follows from it.                                *)

LEMMA InitInv == Init => IInv
<1> SUFFICES ASSUME Init PROVE IInv
  OBVIOUS
<1>1. /\ adapter \in Adapters /\ at = 1 /\ result = "running" /\ ended = "nowhere" /\ attempt = 1
      /\ staged = "none" /\ dest = "free" /\ engine = FALSE /\ loose = "none" /\ stray = FALSE
      /\ input = "planned" /\ from = "planned" /\ cancelled = FALSE /\ told = 0
  BY DEF Init
<1>2. 1 \in 1..Len(Program(adapter)) /\ Program(adapter)[1] = "absent"
  BY <1>1, EveryShape DEF Shape
<1>3. TypeOK
  <2>1. attempt \in 1..Attempts
    BY <1>1, AttemptsAssumption
  <2>2. result \in Results /\ dest \in {"free", "foreign"} \cup Ours /\ told \in 0..1
    BY <1>1 DEF Results
  <2>3. at \in 1..Len(Program(adapter)) /\ ended \in Ends(adapter)
    BY <1>1, <1>2 DEF Ends
  <2> QED BY <1>1, <2>1, <2>2, <2>3 DEF TypeOK
<1>4. /\ ~Passed(Telling) /\ ~Passed({"same"}) /\ ~Passed({"commit"})
      /\ ~Passed({"judgeOutput"}) /\ ~Passed({"dropWork"})
  BY <1>1, PastNone DEF Passed
<1>5. ToldAsPassed /\ InputAsRead /\ Validated /\ Bare /\ Leftover
  BY <1>1, <1>2, <1>4 DEF ToldAsPassed, InputAsRead, Validated, Bare, Leftover, At, Step
<1> QED BY <1>3, <1>5 DEF IInv

LEMMA StepInv == IInv /\ [Next]_vars => IInv'
<1> SUFFICES ASSUME IInv, [Next]_vars PROVE IInv'
  OBVIOUS
<1>1. CASE Own \/ Engines
  <2>1. Moves \/ Stops \/ Jumps
    BY <1>1, ProgramStep DEF IInv
  <2> QED BY <2>1, MovesTypes, MovesKept, StopsTypes, StopsKept, JumpsKept DEF IInv
<1>2. CASE Around
  BY <1>2, SurroundingsKept, CutShortKept, LooseKept, RecoversKept, AgainKept DEF Around
<1>3. CASE UNCHANGED vars
  <2>1. /\ TypeOK'
        /\ UNCHANGED <<adapter, at, result, ended, staged, dest, loose, stray, input, from, told>>
    BY <1>3 DEF IInv, TypeOK, vars
  <2>2. ToldAsPassed' /\ InputAsRead'
    BY <2>1, SamePlace DEF IInv, ToldAsPassed, InputAsRead, Running
  <2>3. Validated'
    BY <2>1, SamePlace DEF IInv, Validated, At, Running
  <2>4. Bare'
    BY <2>1, SamePlace DEF IInv, Bare, Running
  <2>5. Leftover'
    BY <2>1, SamePlace DEF IInv, Leftover, Explained, Running
  <2> QED BY <2>1, <2>2, <2>3, <2>4, <2>5 DEF IInv
<1> QED BY <1>1, <1>2, <1>3 DEF Next

\* The invariant the other theorems rest on: at every step of every adapter, what is staged,
\* what was read, what was told and what is published fit the steps that are behind.
THEOREM InductiveInvariant == Spec => []IInv
BY InitInv, StepInv, PTL DEF Spec

\* A run of an adapter stays within its program, and every attempt within the bound.
THEOREM TypeCorrect == Spec => []TypeOK
<1>1. IInv => TypeOK
  BY DEF IInv
<1> QED BY <1>1, InductiveInvariant, PTL

\* What is at the staging path after a run, and when the next attempt looks, comes from one of
\* the known ways out that skip cleanup_partial, or from an engine that outlived its run.
THEOREM LeftoversAreExplained == Spec => []StagingAccounted
<1>1. IInv => NothingLeftBehind
  BY DEF IInv, Bare, Leftover, Explained, NothingLeftBehind
<1>2. IInv => AttemptsBeginClean
  <2> SUFFICES ASSUME IInv, At("vacant") \/ At("mkdir"), staged # "none"
               PROVE  Explained
    BY DEF AttemptsBeginClean, Explained
  <2>1. TypeOK /\ Running /\ Step \in {"vacant", "mkdir"}
    BY DEF IInv, At
  <2>2. CASE Step = "vacant"
    <3>1. at <= 3
      BY <2>1, <2>2, Here
    <3> QED BY <2>1, <3>1 DEF IInv, Leftover
  <2>3. CASE Step = "mkdir"
    BY <2>1, <2>3, HerePlaces DEF IInv, Leftover, Bare, Explained
  <2> QED BY <2>1, <2>2, <2>3
<1> QED BY <1>1, <1>2, InductiveInvariant, PTL DEF StagingAccounted

\* What the rename from the staging path delivers passed validation and was made from the input
\* the plan was made for (ensure_same_input), unless an engine outlived its run.
THEOREM OnlyValidatedIsPublished == Spec => []PublishesOnlyValidated
<1>1. IInv => PublishesOnlyValidated
  BY DEF IInv, Validated, InputAsRead, PublishesOnlyValidated
<1> QED BY <1>1, InductiveInvariant, PTL

\* ExecutionMilestone::EngineFinished is sent before the output can be seen at the destination,
\* and a run that succeeds has sent it once; the mail adapters write first.
THEOREM MilestoneComesFirst == Spec => ToldBeforePublished
<1>1. ASSUME IInv, IInv', [Next]_vars, result' = "ok" PROVE told' = 1
  BY <1>1 DEF IInv, ToldAsPassed
<1>2. ASSUME IInv, [Next]_vars, dest' \in Ours, dest \notin Ours
      PROVE  told = 1 \/ adapter \in Mail
  <2>1. TypeOK /\ DirectWriters \subseteq Mail
    BY <1>2 DEF IInv, DirectWriters, Mail
  <2>2. CASE Own \/ Engines
    <3>1. Running /\ Step \in {"commit", "publish", "publishWorker"}
      BY <1>2, <2>1, <2>2, ProgramStep DEF Moves, Stops, Jumps, surroundings, Ours, At
    <3> QED BY <1>2, <2>1, <3>1, HereOrder, HereRoles DEF IInv, ToldAsPassed
  <2>3. CASE Dropped \/ Crash
    BY <1>2, <2>1, <2>3, HereRoles DEF Dropped, Crash
  <2>4. CASE LooseWrites
    BY <1>2, <2>1, <2>4 DEF LooseWrites, IInv, Validated
  <2>5. CASE Cancel \/ InputChanges \/ ForeignAppears \/ LooseEnds \/ Recovers \/ Again
    BY <1>2, <2>5 DEF Cancel, InputChanges, ForeignAppears, LooseEnds, Recovers, Again, Ours
  <2>6. CASE UNCHANGED vars
    BY <1>2, <2>6 DEF vars
  <2> QED BY <1>2, <2>2, <2>3, <2>4, <2>5, <2>6 DEF Next, Around
<1>3. IInv /\ IInv' /\ [Next]_vars =>
          [/\ result' = "ok" => told' = 1
           /\ (dest' \in Ours /\ dest \notin Ours) => told = 1 \/ adapter \in Mail]_vars
  BY <1>1, <1>2
<1> QED BY <1>3, InductiveInvariant, PTL DEF Spec, ToldBeforePublished

\* commit_path_no_replace and the cleanups never touch a file that someone else put at the
\* destination; only the adapters that write the destination in place may.
THEOREM ForeignFilesAreKept == Spec => ForeignKept
<1>1. ASSUME IInv, [Next]_vars, dest = "foreign"
      PROVE  dest' = "foreign" \/ adapter \in DirectWriters
  <2>1. TypeOK
    BY <1>1 DEF IInv
  <2>2. CASE Own \/ Engines
    BY <1>1, <2>1, <2>2, ProgramStep, HereRoles DEF Moves, Stops, Jumps, surroundings
  <2>3. CASE Dropped \/ Crash
    BY <1>1, <2>1, <2>3, HereRoles DEF Dropped, Crash
  <2>4. CASE LooseWrites
    BY <1>1, <2>1, <2>4 DEF LooseWrites, IInv, Validated
  <2>5. CASE Cancel \/ InputChanges \/ ForeignAppears \/ LooseEnds \/ Recovers \/ Again
    BY <1>1, <2>5 DEF Cancel, InputChanges, ForeignAppears, LooseEnds, Recovers, Again
  <2>6. CASE UNCHANGED vars
    BY <1>1, <2>6 DEF vars
  <2> QED BY <1>1, <2>2, <2>3, <2>4, <2>5, <2>6 DEF Next, Around
<1>2. IInv /\ [Next]_vars =>
          [dest = "foreign" => dest' = "foreign" \/ adapter \in DirectWriters]_vars
  BY <1>1
<1> QED BY <1>2, InductiveInvariant, PTL DEF Spec, ForeignKept
=============================================================================
