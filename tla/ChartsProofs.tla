----------------------------- MODULE ChartsProofs -----------------------------
(***************************************************************************)
(* What ReplayCharts promises of every recording, proved for every value   *)
(* of its constants.                                                       *)
(*                                                                         *)
(* The passes and the charts are folds.  A fold is a run: a sequence of    *)
(* results, each from the one before and the next element (FoldRun); what  *)
(* holds of the first and from each to the next holds of all (UpTo).  A    *)
(* pass that leaves events out picks indexes (Picks, IsPart); a chart is a *)
(* sum of weights of events (Weight), and weights add up over a worker run *)
(* (JoinsUp).  The invariant of the recording is that it is in the order   *)
(* of its frames (RecordingInv).                                           *)
(*                                                                         *)
(* StatisticsProofs is extended for its lemmas on finite sets.             *)
(***************************************************************************)
EXTENDS ReplayCharts, StatisticsProofs, SequenceTheorems

-----------------------------------------------------------------------------
(* FoldLeft is a run over the elements of a sequence. *)

\* The recursion of FoldLeft over the sets of indexes, with a step for its operator.
FoldValues(iter, step, base, s) ==
  iter = [t \in SUBSET DOMAIN s |->
            IF t = {} THEN base ELSE step[iter[t \ {Max(t)}], s[Max(t)]]]

LEMMA MaxOfPrefix ==
  ASSUME NEW k \in Nat, NEW t \in SUBSET (1 .. k + 1), k + 1 \in t
  PROVE  Max(t) = k + 1
<1>1. \A x \in t : (\A y \in t : x >= y) <=> x = k + 1
  OBVIOUS
<1>2. Max(t) = CHOOSE x \in t : \A y \in t : x >= y
  BY DEF Max
<1> QED BY <1>1, <1>2

LEMMA FoldExists ==
  ASSUME NEW Out, NEW E, NEW base \in Out, NEW step \in [Out \X E -> Out], NEW s \in Seq(E)
  PROVE  \E iter : FoldValues(iter, step, base, s)
                    /\ \A t \in SUBSET DOMAIN s : iter[t] \in Out
<1> DEFINE Run(iter, k) ==
             /\ iter \in [SUBSET (1 .. k) -> Out]
             /\ \A t \in SUBSET (1 .. k) :
                  iter[t] = IF t = {} THEN base ELSE step[iter[t \ {Max(t)}], s[Max(t)]]
           Known == {k \in 0 .. Len(s) : ~\E iter : Run(iter, k)}
<1>0. Len(s) \in Nat /\ DOMAIN s = 1 .. Len(s)
  OBVIOUS
<1>1. \E iter : Run(iter, 0)
  <2>1. SUBSET (1 .. 0) = {{}}
    OBVIOUS
  <2>2. Run([t \in {{}} |-> base], 0)
    BY <2>1
  <2> QED BY <2>2
<1>2. ASSUME NEW k \in Nat, k + 1 <= Len(s), NEW iter, Run(iter, k)
      PROVE  \E longer : Run(longer, k + 1)
  <2> DEFINE longer == [t \in SUBSET (1 .. k + 1) |->
                         IF k + 1 \in t THEN step[iter[t \ {k + 1}], s[k + 1]] ELSE iter[t]]
  <2>1. \A t \in SUBSET (1 .. k + 1) :
          t \ {k + 1} \in SUBSET (1 .. k) /\ (k + 1 \notin t => t \in SUBSET (1 .. k))
    OBVIOUS
  <2>2. s[k + 1] \in E
    <3> HIDE DEF Run, longer, Known
    <3>1. k + 1 \in 1 .. Len(s)
      BY <1>0, <1>2
    <3> QED BY <3>1, ElementOfSeq
  <2>3. longer \in [SUBSET (1 .. k + 1) -> Out]
    <3>1. ASSUME NEW t \in SUBSET (1 .. k + 1)
          PROVE  (IF k + 1 \in t THEN step[iter[t \ {k + 1}], s[k + 1]] ELSE iter[t]) \in Out
      <4>1. iter \in [SUBSET (1 .. k) -> Out]
        BY <1>2
      <4>2. CASE k + 1 \in t
        <5>1. iter[t \ {k + 1}] \in Out
          BY <2>1, <4>1
        <5>2. step[iter[t \ {k + 1}], s[k + 1]] \in Out
          BY <2>2, <5>1
        <5> QED BY <4>2, <5>2
      <4>3. CASE k + 1 \notin t
        BY <2>1, <4>1, <4>3
      <4> QED BY <4>2, <4>3
    <3> QED BY <3>1
  <2>4. \A t \in SUBSET (1 .. k) : t \in SUBSET (1 .. k + 1) /\ k + 1 \notin t
    OBVIOUS
  <2>5. \A t \in SUBSET (1 .. k) : longer[t] = iter[t]
    BY <2>4
  <2>6. ASSUME NEW t \in SUBSET (1 .. k + 1)
        PROVE  longer[t] = IF t = {} THEN base ELSE step[longer[t \ {Max(t)}], s[Max(t)]]
    <3>1. CASE k + 1 \in t
      <4>1. Max(t) = k + 1
        BY <1>2, <3>1, MaxOfPrefix
      <4>2. longer[t] = step[iter[t \ {k + 1}], s[k + 1]]
        BY <3>1
      <4>3. longer[t \ {k + 1}] = iter[t \ {k + 1}]
        BY <2>1, <2>5
      <4> HIDE DEF longer
      <4> QED BY <3>1, <4>1, <4>2, <4>3
    <3>2. CASE k + 1 \notin t
      <4>1. t \in SUBSET (1 .. k)
        BY <2>1, <3>2
      <4>2. longer[t] = iter[t] /\ longer[t \ {Max(t)}] = iter[t \ {Max(t)}]
        BY <4>1, <2>5
      <4> HIDE DEF longer
      <4> QED BY <1>2, <4>1, <4>2
    <3> QED BY <3>1, <3>2
  <2> HIDE DEF longer
  <2>7. Run(longer, k + 1)
    BY <2>3, <2>6
  <2> HIDE DEF Run
  <2> QED BY <2>7
<1>4. Known = {}
  <2> SUFFICES ASSUME Known # {} PROVE FALSE
    OBVIOUS
  <2> HIDE DEF Run
  <2>1. Known \in SUBSET Nat
    BY <1>0
  <2>2. PICK n \in Known : \A m \in Known : n <= m
    <3> HIDE DEF Known
    <3> QED BY <2>1, LeastNumber
  <2>3. n # 0 /\ n \in 0 .. Len(s)
    BY <1>1
  <2>4. n - 1 \in Nat /\ n - 1 \in 0 .. Len(s) /\ n - 1 \notin Known /\ (n - 1) + 1 = n
    BY <1>0, <2>2, <2>3
  <2>5. \E iter : Run(iter, n - 1)
    BY <2>4
  <2>6. \E iter : Run(iter, n)
    BY <1>2, <1>0, <2>3, <2>4, <2>5
  <2> QED BY <2>6
<1>5. PICK iter : Run(iter, Len(s))
  <2> HIDE DEF Run
  <2> QED BY <1>0, <1>4
<1>6. FoldValues(iter, step, base, s)
  BY <1>0, <1>5 DEF FoldValues
<1>7. \A t \in SUBSET DOMAIN s : iter[t] \in Out
  BY <1>0, <1>5
<1> QED BY <1>6, <1>7

\* The iterates of a fold over the sets of indexes 1 .. i: what it has after i elements.
LEMMA PrefixSets ==
  ASSUME NEW E, NEW s \in Seq(E), NEW i \in 1 .. Len(s)
  PROVE  /\ 1 .. i \in SUBSET DOMAIN s /\ 1 .. i # {} /\ Max(1 .. i) = i
         /\ (1 .. i) \ {i} = 1 .. i - 1
<1>1. i - 1 \in Nat /\ 1 .. i \in SUBSET (1 .. (i - 1) + 1) /\ (i - 1) + 1 \in 1 .. i /\ (i - 1) + 1 = i
  OBVIOUS
<1>2. Max(1 .. i) = i
  BY <1>1, MaxOfPrefix
<1>3. DOMAIN s = 1 .. Len(s) /\ Len(s) \in Nat
  OBVIOUS
<1> QED BY <1>1, <1>2, <1>3

\* From the iterates over sets to the results after 0, 1, ... elements.
LEMMA Iterates ==
  ASSUME NEW E, NEW s \in Seq(E), NEW iter
  PROVE  \E after : /\ after[0] = iter[{}] /\ after[Len(s)] = iter[DOMAIN s]
                    /\ \A i \in 1 .. Len(s) : after[i] = iter[1 .. i] /\ after[i - 1] = iter[1 .. i - 1]
<1> DEFINE after == [j \in 0 .. Len(s) |-> iter[1 .. j]]
<1>1. DOMAIN s = 1 .. Len(s) /\ Len(s) \in Nat
  OBVIOUS
<1>2. \A i \in 0 .. Len(s) : after[i] = iter[1 .. i]
  OBVIOUS
<1>3. 1 .. 0 = {}
  OBVIOUS
<1>4. 0 \in 0 .. Len(s) /\ Len(s) \in 0 .. Len(s) /\ \A i \in 1 .. Len(s) : i \in 0 .. Len(s) /\ i - 1 \in 0 .. Len(s)
  BY <1>1
<1> HIDE DEF after
<1> QED BY <1>1, <1>2, <1>3, <1>4

LEMMA MaxOfIndexes ==
  ASSUME NEW E, NEW s \in Seq(E), NEW t \in SUBSET DOMAIN s, t # {}
  PROVE  Max(t) \in t
<1> DEFINE Bounds == {n \in Nat : t \subseteq 1 .. n}
<1>1. Len(s) \in Bounds /\ Bounds \in SUBSET Nat
  OBVIOUS
<1>2. PICK n \in Bounds : \A m \in Bounds : n <= m
  <2> HIDE DEF Bounds
  <2> QED BY <1>1, LeastNumber
<1>3. n # 0
  <2>1. t \subseteq 1 .. n
    BY <1>2
  <2> QED BY <2>1
<1>4. n \in t
  <2>1. n - 1 \in Nat /\ n - 1 \notin Bounds
    BY <1>1, <1>2, <1>3
  <2> QED BY <2>1, <1>2
<1>5. (n - 1) + 1 = n /\ t \in SUBSET (1 .. (n - 1) + 1) /\ n - 1 \in Nat
  BY <1>1, <1>2, <1>3
<1> QED BY <1>4, <1>5, MaxOfPrefix

\* A run over s by a step: what it has for each set of indexes.
IsRun(run, base, step, s, Out, E) ==
  /\ run = [t \in SUBSET DOMAIN s |-> run[t]] /\ run[{}] = base
  /\ \A t \in SUBSET DOMAIN s : t # {} =>
        /\ run[t \ {Max(t)}] \in Out /\ s[Max(t)] \in E
        /\ run[t] = step[run[t \ {Max(t)}], s[Max(t)]]

LEMMA FoldRun ==
  ASSUME NEW Out, NEW E, NEW base \in Out, NEW step \in [Out \X E -> Out], NEW s \in Seq(E)
  PROVE  \E run : IsRun(run, base, step, s, Out, E)
<1>1. PICK run : FoldValues(run, step, base, s) /\ \A t \in SUBSET DOMAIN s : run[t] \in Out
  BY FoldExists
<1>2. ASSUME NEW t \in SUBSET DOMAIN s, t # {}
      PROVE  /\ run[t \ {Max(t)}] \in Out /\ s[Max(t)] \in E
             /\ run[t] = step[run[t \ {Max(t)}], s[Max(t)]]
  <2>1. Max(t) \in t
    BY <1>2, MaxOfIndexes
  <2>2. Max(t) \in 1 .. Len(s) /\ t \ {Max(t)} \in SUBSET DOMAIN s
    BY <2>1
  <2>3. s[Max(t)] \in E
    BY <2>2, ElementOfSeq
  <2> QED BY <1>1, <1>2, <2>2, <2>3 DEF FoldValues
<1>3. run = [t \in SUBSET DOMAIN s |-> run[t]] /\ run[{}] = base
  BY <1>1 DEF FoldValues
<1> QED BY <1>2, <1>3 DEF IsRun

-----------------------------------------------------------------------------
(* Sums of numbers. *)

\* A function that adds up f over the subsets of S.
AddsUp(h, f, S) ==
  /\ h \in [SUBSET S -> Int] /\ h[{}] = 0
  /\ \A U \in SUBSET S : \A x \in U : h[U] = f[x] + h[U \ {x}]

LEMMA AdditiveExists ==
  ASSUME NEW S, IsFiniteSet(S), NEW f, \A x \in S : f[x] \in Int
  PROVE  \E h : AddsUp(h, f, S)
<1> DEFINE Missing == {T \in SUBSET S : ~\E h : AddsUp(h, f, T)}
<1>1. \E h : AddsUp(h, f, {})
  <2>1. SUBSET {} = {{}}
    OBVIOUS
  <2>2. AddsUp([U \in {{}} |-> 0], f, {})
    BY <2>1 DEF AddsUp
  <2> QED BY <2>2
<1>2. ASSUME NEW T \in SUBSET S, NEW x \in T, NEW g, AddsUp(g, f, T \ {x})
      PROVE  \E h : AddsUp(h, f, T)
  <2> DEFINE h == [U \in SUBSET T |-> IF x \in U THEN f[x] + g[U \ {x}] ELSE g[U]]
  <2>0. g \in [SUBSET (T \ {x}) -> Int] /\ g[{}] = 0 /\ f[x] \in Int
    BY <1>2 DEF AddsUp
  <2>1. \A U \in SUBSET T : U \ {x} \in SUBSET (T \ {x}) /\ (x \notin U => U \in SUBSET (T \ {x}))
    OBVIOUS
  <2>2. h \in [SUBSET T -> Int] /\ h[{}] = 0
    BY <2>0, <2>1
  <2>3. ASSUME NEW U \in SUBSET T, NEW y \in U PROVE h[U] = f[y] + h[U \ {y}]
    <3>0. U \ {y} \in SUBSET T /\ y \in S /\ f[y] \in Int /\ U \ {x} \in SUBSET (T \ {x})
      OBVIOUS
    <3>1. CASE y = x
      <4>1. h[U] = f[x] + g[U \ {x}] /\ h[U \ {x}] = g[U \ {x}]
        BY <3>0, <3>1
      <4> HIDE DEF h
      <4> QED BY <3>1, <4>1
    <3>2. CASE y # x /\ x \in U
      <4>1. h[U] = f[x] + g[U \ {x}] /\ h[U \ {y}] = f[x] + g[(U \ {y}) \ {x}]
        BY <3>0, <3>2
      <4>2. y \in U \ {x} /\ (U \ {x}) \ {y} = (U \ {y}) \ {x}
        BY <3>2
      <4>3. g[U \ {x}] = f[y] + g[(U \ {x}) \ {y}]
        BY <1>2, <3>0, <4>2 DEF AddsUp
      <4>4. (U \ {y}) \ {x} \in SUBSET (T \ {x})
        OBVIOUS
      <4>5. g[(U \ {y}) \ {x}] \in Int
        BY <2>0, <4>4
      <4>6. h[U] = f[x] + (f[y] + g[(U \ {y}) \ {x}])
        <5> HIDE DEF h
        <5> QED BY <4>1, <4>2, <4>3
      <4>7. \A a, b, c \in Int : a + (b + c) = b + (a + c)
        OBVIOUS
      <4> HIDE DEF h
      <4> QED BY <2>0, <3>0, <4>1, <4>5, <4>6, <4>7
    <3>3. CASE x \notin U
      <4>1. h[U] = g[U] /\ h[U \ {y}] = g[U \ {y}] /\ U \in SUBSET (T \ {x})
        BY <3>0, <3>3, <2>1
      <4>2. g[U] = f[y] + g[U \ {y}]
        BY <1>2, <4>1 DEF AddsUp
      <4> HIDE DEF h
      <4> QED BY <4>1, <4>2
    <3> QED BY <3>1, <3>2, <3>3
  <2> HIDE DEF h
  <2> QED BY <2>2, <2>3 DEF AddsUp
<1>3. Missing = {}
  <2> SUFFICES ASSUME Missing # {} PROVE FALSE
    OBVIOUS
  <2>1. PICK T \in Missing : \A V \in Missing : V \subseteq T => V = T
    <3>1. Missing \in SUBSET SUBSET S
      OBVIOUS
    <3> HIDE DEF Missing
    <3> QED BY <3>1, SmallestSet
  <2>2. PICK x : x \in T
    BY <1>1
  <2>3. \E g : AddsUp(g, f, T \ {x})
    <3>1. T \ {x} \in SUBSET S /\ T \ {x} # T /\ T \ {x} \subseteq T
      BY <2>2
    <3>2. T \ {x} \notin Missing
      BY <2>1, <3>1
    <3> QED BY <3>1, <3>2
  <2> QED BY <1>2, <2>2, <2>3
<1> QED BY <1>3

LEMMA SumIsAdditive ==
  ASSUME NEW S, IsFiniteSet(S), NEW f, \A x \in S : f[x] \in Int
  PROVE  \E h : AddsUp(h, f, S) /\ \A U \in SUBSET S : SumFunctionOnSet(f, U) = h[U]
<1>1. PICK h : AddsUp(h, f, S)
  BY AdditiveExists
<1>2. ASSUME NEW U \in SUBSET S PROVE SumFunctionOnSet(f, U) = h[U]
  <2> DEFINE chosen == CHOOSE sum : SumsValues(sum, U, f)
             Other == {T \in SUBSET U : chosen[T] # h[T]}
  <2>1. ASSUME NEW T \in SUBSET U
        PROVE  h[T] = IF T = {} THEN 0 ELSE f[CHOOSE x \in T : TRUE] + h[T \ {CHOOSE x \in T : TRUE}]
    <3>1. T # {} => (CHOOSE x \in T : TRUE) \in T
      OBVIOUS
    <3>2. T \in SUBSET S
      OBVIOUS
    <3> QED BY <1>1, <3>1, <3>2 DEF AddsUp
  <2>2. SumsValues([T \in SUBSET U |-> h[T]], U, f)
    <3> DEFINE k == [T \in SUBSET U |-> h[T]]
    <3>1. \A T \in SUBSET U : k[T] = h[T] /\ \A x : k[T \ {x}] = h[T \ {x}]
      OBVIOUS
    <3>2. k = [T \in SUBSET U |-> k[T]]
      OBVIOUS
    <3>3. \A T \in SUBSET U : k[T] = IF T = {} THEN 0
                                     ELSE f[CHOOSE x \in T : TRUE] + k[T \ {CHOOSE x \in T : TRUE}]
      BY <2>1, <3>1
    <3> HIDE DEF k
    <3>4. SumsValues(k, U, f)
      BY Zenon, <3>2, <3>3 DEF SumsValues
    <3> QED BY <3>4 DEF k
  <2>3. SumsValues(chosen, U, f)
    BY <2>2
  <2> HIDE DEF chosen
  <2>4. Other = {}
    <3> SUFFICES ASSUME Other # {} PROVE FALSE
      OBVIOUS
    <3>1. Other \in SUBSET SUBSET U /\ IsFiniteSet(U)
      BY FS_Subset
    <3>2. PICK T \in Other : \A V \in Other : V \subseteq T => V = T
      <4> HIDE DEF Other
      <4> QED BY <3>1, SmallestSet
    <3>3. chosen[T] = IF T = {} THEN 0
                      ELSE f[CHOOSE x \in T : TRUE] + chosen[T \ {CHOOSE x \in T : TRUE}]
      BY <2>3 DEF SumsValues
    <3>4. T # {}
      BY <2>1, <3>3
    <3> DEFINE x == CHOOSE x \in T : TRUE
    <3>5. x \in T
      BY <3>4
    <3> HIDE DEF x
    <3>6. T \ {x} \notin Other /\ T \ {x} \in SUBSET U
      BY <3>2, <3>5
    <3> QED BY <2>1, <3>3, <3>4, <3>6 DEF x
  <2>5. SumFunctionOnSet(f, U) = chosen[U]
    BY Zenon DEF SumFunctionOnSet, FoldFunctionOnSet, MapThenFoldSet, SumsValues, chosen
  <2> QED BY <2>4, <2>5
<1> QED BY <1>1, <1>2

\* What the sum over a set is made of.
LEMMA SumOfSet ==
  ASSUME NEW S, IsFiniteSet(S), NEW f, \A x \in S : f[x] \in Int
  PROVE  /\ SumFunctionOnSet(f, S) \in Int
         /\ S = {} => SumFunctionOnSet(f, S) = 0
         /\ \A x \in S : /\ SumFunctionOnSet(f, S) = f[x] + SumFunctionOnSet(f, S \ {x})
                         /\ SumFunctionOnSet(f, S \ {x}) \in Int
<1>1. PICK h : AddsUp(h, f, S) /\ \A U \in SUBSET S : SumFunctionOnSet(f, U) = h[U]
  BY SumIsAdditive
<1>2. S \in SUBSET S /\ {} \in SUBSET S /\ \A x \in S : S \ {x} \in SUBSET S
  OBVIOUS
<1>3. SumFunctionOnSet(f, S) = h[S] /\ h[S] \in Int /\ h[{}] = 0
  BY <1>1, <1>2 DEF AddsUp
<1>4. ASSUME NEW x \in S
      PROVE  /\ SumFunctionOnSet(f, S \ {x}) = h[S \ {x}] /\ h[S \ {x}] \in Int
             /\ h[S] = f[x] + h[S \ {x}]
  BY <1>1, <1>2 DEF AddsUp
<1> QED BY <1>3, <1>4

LEMMA SumAtMost ==
  ASSUME NEW S, IsFiniteSet(S), NEW f, NEW g,
         \A x \in S : f[x] \in Int /\ g[x] \in Int /\ f[x] <= g[x]
  PROVE  SumFunctionOnSet(f, S) <= SumFunctionOnSet(g, S)
<1> DEFINE Above == {U \in SUBSET S : ~(SumFunctionOnSet(f, U) <= SumFunctionOnSet(g, U))}
<1>1. SUFFICES ASSUME Above # {} PROVE FALSE
  OBVIOUS
<1>2. PICK U \in Above : \A V \in Above : V \subseteq U => V = U
  <2>1. Above \in SUBSET SUBSET S
    OBVIOUS
  <2> HIDE DEF Above
  <2> QED BY <1>1, <2>1, SmallestSet
<1>3. IsFiniteSet(U) /\ \A x \in U : f[x] \in Int /\ g[x] \in Int /\ f[x] <= g[x]
  BY FS_Subset
<1>4. PICK x : x \in U
  BY <1>3, SumOfSet
<1>5. U \ {x} \notin Above
  BY <1>2, <1>4
<1>6. SumFunctionOnSet(f, U \ {x}) <= SumFunctionOnSet(g, U \ {x})
  BY <1>5
<1>7. /\ SumFunctionOnSet(f, U) = f[x] + SumFunctionOnSet(f, U \ {x}) /\ SumFunctionOnSet(f, U \ {x}) \in Int
      /\ SumFunctionOnSet(g, U) = g[x] + SumFunctionOnSet(g, U \ {x}) /\ SumFunctionOnSet(g, U \ {x}) \in Int
  BY <1>3, <1>4, SumOfSet
<1>8. SumFunctionOnSet(f, U) <= SumFunctionOnSet(g, U)
  BY <1>3, <1>4, <1>6, <1>7
<1> QED BY <1>8

LEMMA SumsAgree ==
  ASSUME NEW S, IsFiniteSet(S), NEW f, NEW g, \A x \in S : f[x] \in Int /\ f[x] = g[x]
  PROVE  SumFunctionOnSet(f, S) = SumFunctionOnSet(g, S)
<1>1. SumFunctionOnSet(f, S) <= SumFunctionOnSet(g, S) /\ SumFunctionOnSet(g, S) <= SumFunctionOnSet(f, S)
  BY SumAtMost
<1>2. SumFunctionOnSet(f, S) \in Int /\ SumFunctionOnSet(g, S) \in Int
  BY SumOfSet
<1> QED BY <1>1, <1>2

\* What is outside of T does not count when it is zero, and adds when it is not negative.
LEMMA SumOfSubset ==
  ASSUME NEW S, IsFiniteSet(S), NEW T \in SUBSET S, NEW f, \A x \in S : f[x] \in Int,
         \A x \in S \ T : f[x] >= 0
  PROVE  /\ SumFunctionOnSet(f, T) <= SumFunctionOnSet(f, S)
         /\ (\A x \in S \ T : f[x] = 0) => SumFunctionOnSet(f, T) = SumFunctionOnSet(f, S)
<1> DEFINE Good(U) == /\ SumFunctionOnSet(f, T) <= SumFunctionOnSet(f, U)
                      /\ (\A x \in S \ T : f[x] = 0) => SumFunctionOnSet(f, T) = SumFunctionOnSet(f, U)
           Bad == {U \in SUBSET S : T \subseteq U /\ ~Good(U)}
<1>1. SUFFICES ASSUME Bad # {} PROVE FALSE
  <2> HIDE DEF Good
  <2>1. Good(S)
    OBVIOUS
  <2> QED BY <2>1 DEF Good
<1>2. PICK U \in Bad : \A V \in Bad : V \subseteq U => V = U
  <2>1. Bad \in SUBSET SUBSET S
    OBVIOUS
  <2> HIDE DEF Bad
  <2> QED BY <1>1, <2>1, SmallestSet
<1>3. /\ IsFiniteSet(U) /\ \A x \in U : f[x] \in Int
      /\ IsFiniteSet(T) /\ \A x \in T : f[x] \in Int
  BY FS_Subset
<1>4. SumFunctionOnSet(f, T) \in Int
  BY <1>3, SumOfSet
<1>5. U # T
  BY <1>4
<1>6. PICK x : x \in U /\ x \notin T
  BY <1>5
<1>7. Good(U \ {x})
  <2> HIDE DEF Good
  <2> QED BY <1>2, <1>6
<1>8. SumFunctionOnSet(f, U) = f[x] + SumFunctionOnSet(f, U \ {x}) /\ SumFunctionOnSet(f, U \ {x}) \in Int
  BY <1>3, <1>6, SumOfSet
<1>9. f[x] \in Int /\ f[x] >= 0 /\ x \in S \ T
  BY <1>6
<1>10. Good(U)
  BY <1>4, <1>7, <1>8, <1>9
<1> QED BY <1>10

\* A sum does not depend on how its terms are numbered.
Renumbers(b, f, S, g, T) ==
  /\ \A x, y \in S : b[x] = b[y] => x = y
  /\ \A x \in S : f[x] \in Int /\ g[b[x]] = f[x]
  /\ \A x \in S : b[x] \in T
  /\ \A y \in T : \E x \in S : b[x] = y

LEMMA SumReindexed ==
  ASSUME NEW S, IsFiniteSet(S), NEW b, NEW f, NEW g, NEW T, Renumbers(b, f, S, g, T)
  PROVE  SumFunctionOnSet(g, T) = SumFunctionOnSet(f, S)
<1> DEFINE Image(U) == {b[x] : x \in U}
           Good(U) == SumFunctionOnSet(g, Image(U)) = SumFunctionOnSet(f, U)
           Bad == {U \in SUBSET S : ~Good(U)}
<1>0. /\ \A x, y \in S : b[x] = b[y] => x = y
      /\ \A x \in S : f[x] \in Int /\ g[b[x]] = f[x]
  BY DEF Renumbers
<1>1. SUFFICES ASSUME Bad # {} PROVE FALSE
  <2> HIDE DEF Good
  <2>1. Good(S)
    OBVIOUS
  <2>2. T = Image(S)
    BY DEF Renumbers
  <2> QED BY <2>1, <2>2 DEF Good
<1>2. PICK U \in Bad : \A V \in Bad : V \subseteq U => V = U
  <2>1. Bad \in SUBSET SUBSET S
    OBVIOUS
  <2> HIDE DEF Bad
  <2> QED BY <1>1, <2>1, SmallestSet
<1>3. IsFiniteSet(U) /\ \A x \in U : f[x] \in Int
  BY <1>0, FS_Subset
<1>4. IsFiniteSet(Image(U)) /\ \A y \in Image(U) : g[y] \in Int
  BY <1>0, <1>3, ImageIsFinite
<1>5. PICK x : x \in U
  <2>1. U = {} => Image(U) = {}
    OBVIOUS
  <2>2. IsFiniteSet({}) /\ \A y \in {} : FALSE
    BY FS_EmptySet
  <2>3. SumFunctionOnSet(f, {}) = 0 /\ SumFunctionOnSet(g, {}) = 0
    BY <2>2, SumOfSet
  <2> QED BY <2>1, <2>3
<1>6. Good(U \ {x})
  <2> HIDE DEF Good
  <2> QED BY <1>2, <1>5
<1>7. Image(U \ {x}) = Image(U) \ {b[x]} /\ b[x] \in Image(U)
  BY <1>0, <1>5
<1>8. SumFunctionOnSet(f, U) = f[x] + SumFunctionOnSet(f, U \ {x})
  BY <1>3, <1>5, SumOfSet
<1>9. SumFunctionOnSet(g, Image(U)) = g[b[x]] + SumFunctionOnSet(g, Image(U) \ {b[x]})
  <2> HIDE DEF Image
  <2> QED BY <1>4, <1>7, SumOfSet
<1>10. Good(U)
  <2> HIDE DEF Image
  <2> QED BY <1>0, <1>5, <1>6, <1>7, <1>8, <1>9
<1> QED BY <1>10

-----------------------------------------------------------------------------
(* The counters of a chart. *)

IsCounter(f) == /\ f = [x \in DOMAIN f |-> f[x]] /\ IsFiniteSet(DOMAIN f)
                /\ \A x \in DOMAIN f : f[x] \in Int

LEMMA NothingIsCounter == IsCounter(Nothing) /\ SumFunction(Nothing) = 0 /\ DOMAIN Nothing = {}
<1>1. DOMAIN Nothing = {}
  BY DEF Nothing
<1>2. IsCounter(Nothing)
  BY <1>1, FS_EmptySet DEF IsCounter, Nothing
<1>3. SumFunctionOnSet(Nothing, {}) = 0
  BY SumOfSet, FS_EmptySet
<1> QED BY <1>1, <1>2, <1>3 DEF SumFunction

AddFacts(f, k, n) ==
  /\ IsCounter(Add(f, k, n)) /\ DOMAIN Add(f, k, n) = DOMAIN f \cup {k}
  /\ SumFunction(Add(f, k, n)) = SumFunction(f) + n /\ SumFunction(f) \in Int
  /\ \A x \in DOMAIN f \cup {k} :
       Add(f, k, n)[x] = (IF x \in DOMAIN f THEN f[x] ELSE 0) + (IF x = k THEN n ELSE 0)

LEMMA SumOfAdd ==
  ASSUME NEW f, NEW k, NEW n, IsCounter(f), n \in Int
  PROVE  AddFacts(f, k, n)
<1> DEFINE g == Add(f, k, n)
           D == DOMAIN f
           R == D \ {k}
<1>1. /\ DOMAIN g = D \cup {k} /\ g = [x \in DOMAIN g |-> g[x]]
      /\ \A x \in D \cup {k} : g[x] = (IF x \in D THEN f[x] ELSE 0) + (IF x = k THEN n ELSE 0)
  BY DEF Add
<1> HIDE DEF g
<1>2. IsFiniteSet(D) /\ \A x \in D : f[x] \in Int
  BY DEF IsCounter
<1>3. IsFiniteSet(D \cup {k}) /\ IsFiniteSet(R)
  BY <1>2, FS_AddElement, FS_Subset
<1>4. \A x \in D \cup {k} : g[x] \in Int
  BY <1>1, <1>2
<1>5. IsCounter(g)
  BY <1>1, <1>3, <1>4 DEF IsCounter
<1>6. SumFunctionOnSet(g, R) = SumFunctionOnSet(f, R)
  <2>1. \A x \in R : g[x] \in Int /\ g[x] = f[x]
    BY <1>1, <1>2
  <2> QED BY <1>3, <2>1, SumsAgree
<1>7. SumFunctionOnSet(g, D \cup {k}) = g[k] + SumFunctionOnSet(g, R)
  <2>1. (D \cup {k}) \ {k} = R
    OBVIOUS
  <2> QED BY <1>3, <1>4, <2>1, SumOfSet
<1>8. SumFunctionOnSet(f, D) = (IF k \in D THEN f[k] ELSE 0) + SumFunctionOnSet(f, R)
      /\ SumFunctionOnSet(f, R) \in Int
  <2>1. CASE k \in D
    BY <1>2, <2>1, SumOfSet
  <2>2. CASE k \notin D
    <3>1. R = D
      BY <2>2
    <3>2. SumFunctionOnSet(f, D) \in Int
      BY <1>2, SumOfSet
    <3> QED BY <2>2, <3>1, <3>2
  <2> QED BY <2>1, <2>2
<1>9. g[k] = (IF k \in D THEN f[k] ELSE 0) + n /\ (IF k \in D THEN f[k] ELSE 0) \in Int
  BY <1>1, <1>2
<1>10. SumFunctionOnSet(g, D \cup {k}) = SumFunctionOnSet(f, D) + n
  BY <1>6, <1>7, <1>8, <1>9
<1>11. SumFunctionOnSet(f, D) \in Int
  BY <1>2, SumOfSet
<1> QED BY <1>1, <1>5, <1>10, <1>11 DEF SumFunction, AddFacts, g

LEMMA GreatestOfFinite ==
  ASSUME NEW S \in SUBSET Nat, IsFiniteSet(S), S # {}
  PROVE  \E n \in S : \A m \in S : m <= n
<1> DEFINE value == [x \in S |-> 0 - x]
<1>1. \A x \in S : value[x] \in Int
  OBVIOUS
<1>2. \E n \in S : \A m \in S : value[n] <= value[m]
  <2> HIDE DEF value
  <2> QED BY <1>1, LeastOfFinite
<1>3. \A n, m \in S : value[n] <= value[m] => m <= n
  OBVIOUS
<1> QED BY <1>2, <1>3

\* The windows without a unit between the first and the last add nothing.
LEMMA SumOfPoints ==
  ASSUME NEW timeline, IsCounter(timeline), DOMAIN timeline \subseteq Nat
  PROVE  SumFunction(Points(timeline)) = SumFunction(timeline)
<1>1. CASE timeline = Nothing
  <2>1. Points(timeline) = <<>>
    BY <1>1 DEF Points
  <2>2. DOMAIN <<>> = {}
    OBVIOUS
  <2>3. SumFunctionOnSet(<<>>, {}) = 0
    BY SumOfSet, FS_EmptySet
  <2> QED BY <1>1, <2>1, <2>2, <2>3, NothingIsCounter DEF SumFunction
<1>2. CASE timeline # Nothing
  <2> DEFINE D == DOMAIN timeline
             last == CHOOSE w \in D : \A v \in D : v <= w
             points == [w \in 0 .. last |-> IF w \in D THEN timeline[w] ELSE 0]
  <2>1. D # {}
    BY <1>2, Zenon DEF IsCounter, Nothing
  <2>2. last \in D /\ \A v \in D : v <= last
    <3>1. \E n \in D : \A m \in D : m <= n
      BY <2>1, GreatestOfFinite DEF IsCounter
    <3> QED BY <3>1
  <2>3. Points(timeline) = points
    BY <1>2 DEF Points
  <2> HIDE DEF last
  <2>4. IsFiniteSet(0 .. last) /\ D \in SUBSET (0 .. last) /\ last \in Nat
    BY <2>2, FS_Interval
  <2>5. /\ \A w \in 0 .. last : points[w] \in Int
        /\ \A w \in (0 .. last) \ D : points[w] = 0
        /\ \A w \in D : points[w] = timeline[w] /\ timeline[w] \in Int
        /\ DOMAIN points = 0 .. last
    BY <2>4 DEF IsCounter
  <2> HIDE DEF points
  <2>6. \A w \in (0 .. last) \ D : points[w] >= 0
    BY <2>5
  <2>7. SumFunctionOnSet(points, D) = SumFunctionOnSet(points, 0 .. last)
    BY <2>4, <2>5, <2>6, SumOfSubset
  <2>8. SumFunctionOnSet(points, D) = SumFunctionOnSet(timeline, D)
    <3>1. IsFiniteSet(D) /\ \A w \in D : points[w] \in Int /\ points[w] = timeline[w]
      BY <2>5 DEF IsCounter
    <3> HIDE DEF D
    <3> QED BY <3>1, SumsAgree
  <2> QED BY <2>3, <2>5, <2>7, <2>8 DEF SumFunction
<1> QED BY <1>1, <1>2

-----------------------------------------------------------------------------
(* The weight of a sequence: a number for each of its elements, added up. *)

Weight(s, w) == SumFunctionOnSet([i \in 1 .. Len(s) |-> w[s[i]]], 1 .. Len(s))

LEMMA WeightIsNumber ==
  ASSUME NEW E, NEW s \in Seq(E), NEW w \in [E -> Int]
  PROVE  Weight(s, w) \in Int /\ Weight(<<>>, w) = 0
<1> DEFINE f == [i \in 1 .. Len(s) |-> w[s[i]]]
<1>1. IsFiniteSet(1 .. Len(s)) /\ \A i \in 1 .. Len(s) : f[i] \in Int
  BY FS_Interval
<1>2. Weight(s, w) \in Int
  <2> HIDE DEF f
  <2> QED BY <1>1, SumOfSet DEF Weight, f
<1>3. 1 .. Len(<<>>) = {}
  OBVIOUS
<1>4. Weight(<<>>, w) = 0
  <2> DEFINE g == [i \in 1 .. Len(<<>>) |-> w[<<>>[i]]]
  <2> HIDE DEF g
  <2>1. SumFunctionOnSet(g, {}) = 0
    BY SumOfSet, FS_EmptySet
  <2> QED BY <1>3, <2>1 DEF Weight, g
<1> QED BY <1>2, <1>4

LEMMA WeightOfAppend ==
  ASSUME NEW E, NEW s \in Seq(E), NEW e \in E, NEW w \in [E -> Int]
  PROVE  Weight(Append(s, e), w) = Weight(s, w) + w[e]
<1> DEFINE n == Len(s)
           f == [i \in 1 .. n |-> w[s[i]]]
           g == [i \in 1 .. n + 1 |-> w[Append(s, e)[i]]]
<1>1. Len(Append(s, e)) = n + 1 /\ n \in Nat
  OBVIOUS
<1>2. /\ \A i \in 1 .. n : f[i] \in Int /\ g[i] = f[i]
      /\ g[n + 1] = w[e] /\ \A i \in 1 .. n + 1 : g[i] \in Int
  <2>1. \A i \in 1 .. n : Append(s, e)[i] = s[i] /\ s[i] \in E
    BY AppendProperties, ElementOfSeq
  <2>2. Append(s, e)[n + 1] = e
    BY AppendProperties
  <2>3. \A i \in 1 .. n + 1 : i \in 1 .. n \/ i = n + 1
    BY <1>1
  <2> QED BY <1>1, <2>1, <2>2, <2>3
<1>3. IsFiniteSet(1 .. n) /\ IsFiniteSet(1 .. n + 1) /\ (1 .. n + 1) \ {n + 1} = 1 .. n /\ n + 1 \in 1 .. n + 1
  <2> HIDE DEF n
  <2>1. IsFiniteSet(1 .. n) /\ IsFiniteSet(1 .. n + 1)
    BY <1>1, FS_Interval
  <2>2. (1 .. n + 1) \ {n + 1} = 1 .. n /\ n + 1 \in 1 .. n + 1
    BY <1>1
  <2> QED BY <2>1, <2>2
<1> HIDE DEF f, g
<1>4. SumFunctionOnSet(g, 1 .. n + 1) = g[n + 1] + SumFunctionOnSet(g, 1 .. n)
  <2> DEFINE T == 1 .. n + 1
  <2>1. IsFiniteSet(T) /\ (\A i \in T : g[i] \in Int) /\ n + 1 \in T /\ T \ {n + 1} = 1 .. n
    BY <1>2, <1>3
  <2> HIDE DEF T
  <2>2. SumFunctionOnSet(g, T) = g[n + 1] + SumFunctionOnSet(g, T \ {n + 1})
    BY <2>1, SumOfSet
  <2> QED BY <2>1, <2>2 DEF T
<1>5. SumFunctionOnSet(f, 1 .. n) = SumFunctionOnSet(g, 1 .. n)
  BY <1>2, <1>3, SumsAgree
<1>6. SumFunctionOnSet(f, 1 .. n) \in Int /\ w[e] \in Int
  BY <1>2, <1>3, SumOfSet
<1>7. Weight(s, w) = SumFunctionOnSet(f, 1 .. n) /\ Weight(Append(s, e), w) = SumFunctionOnSet(g, 1 .. n + 1)
  BY <1>1 DEF Weight, f, g
<1> QED BY <1>2, <1>4, <1>5, <1>6, <1>7

-----------------------------------------------------------------------------
(* Sequences with some elements left out. *)

\* out has the elements of s at the indexes in P, in their order; pos says where each
\* of them was.
Picks(pos, out, s, P) ==
  /\ pos \in Seq(Nat) /\ Len(pos) = Len(out)
  /\ \A k \in 1 .. Len(out) : pos[k] \in P /\ out[k] = s[pos[k]]
  /\ \A j, k \in 1 .. Len(out) : j < k => pos[j] < pos[k]
  /\ \A i \in P : \E k \in 1 .. Len(out) : pos[k] = i

LEMMA NothingPicked == ASSUME NEW s PROVE Picks(<<>>, <<>>, s, {})
BY DEF Picks

LEMMA PickNext ==
  ASSUME NEW E, NEW s \in Seq(E), NEW out \in Seq(E), NEW pos, NEW i \in 1 .. Len(s),
         NEW P \in SUBSET (1 .. i - 1), Picks(pos, out, s, P)
  PROVE  Picks(Append(pos, i), Append(out, s[i]), s, P \cup {i})
<1> DEFINE pos1 == Append(pos, i)
           out1 == Append(out, s[i])
           n == Len(out)
<1>1. pos \in Seq(Nat) /\ Len(pos) = n /\ i \in Nat /\ s[i] \in E /\ n \in Nat
  BY ElementOfSeq DEF Picks
<1>2. /\ pos1 \in Seq(Nat) /\ Len(pos1) = n + 1 /\ pos1[n + 1] = i
      /\ \A k \in 1 .. n : pos1[k] = pos[k]
  BY <1>1, AppendProperties
<1>3. /\ Len(out1) = n + 1 /\ out1[n + 1] = s[i]
      /\ \A k \in 1 .. n : out1[k] = out[k]
  BY <1>1, AppendProperties
<1>4. \A k \in 1 .. n + 1 : k \in 1 .. n \/ k = n + 1
  BY <1>1
<1> HIDE DEF pos1, out1
<1>5. \A k \in 1 .. n : pos[k] \in P /\ out[k] = s[pos[k]] /\ pos[k] < i
  BY <1>1 DEF Picks
<1>6. \A k \in 1 .. n + 1 : pos1[k] \in P \cup {i} /\ out1[k] = s[pos1[k]]
  BY <1>2, <1>3, <1>4, <1>5
<1>7. ASSUME NEW j \in 1 .. n + 1, NEW k \in 1 .. n + 1, j < k PROVE pos1[j] < pos1[k]
  <2>1. j \in 1 .. n
    BY <1>1, <1>7
  <2>2. CASE k \in 1 .. n
    BY <1>2, <1>7, <2>1, <2>2 DEF Picks
  <2>3. CASE k = n + 1
    BY <1>2, <1>5, <2>1, <2>3
  <2> QED BY <1>4, <2>2, <2>3
<1>8. ASSUME NEW x \in P \cup {i} PROVE \E k \in 1 .. n + 1 : pos1[k] = x
  <2>1. CASE x = i
    BY <1>1, <1>2, <2>1
  <2>2. CASE x \in P
    <3>1. PICK k \in 1 .. n : pos[k] = x
      BY <2>2 DEF Picks
    <3>2. k \in 1 .. n + 1
      BY <1>1
    <3> QED BY <1>2, <3>1, <3>2
  <2> QED BY <2>1, <2>2
<1>9. Picks(pos1, out1, s, P \cup {i})
  BY <1>2, <1>3, <1>6, <1>7, <1>8 DEF Picks
<1> QED BY <1>9 DEF pos1, out1

LEMMA RemovedFacts ==
  ASSUME NEW E, NEW s \in Seq(E), NEW i \in 1 .. Len(s)
  PROVE  /\ RemoveAt(s, i) \in Seq(E) /\ Len(RemoveAt(s, i)) = Len(s) - 1
         /\ \A k \in 1 .. Len(s) - 1 : RemoveAt(s, i)[k] = IF k < i THEN s[k] ELSE s[k + 1]
<1> DEFINE a == SubSeq(s, 1, i - 1)
           b == SubSeq(s, i + 1, Len(s))
<1>1. /\ a \in Seq(E) /\ Len(a) = i - 1 /\ \A k \in 1 .. i - 1 : a[k] = s[k]
  <2>1. \A k \in 1 .. i - 1 : s[k] \in E
    OBVIOUS
  <2>2. /\ a \in Seq(E) /\ Len(a) = IF 1 <= i - 1 THEN (i - 1) - 1 + 1 ELSE 0
        /\ \A k \in 1 .. (i - 1) - 1 + 1 : a[k] = s[1 + k - 1]
    <3>1. 1 \in Int /\ i - 1 \in Int
      OBVIOUS
    <3> HIDE DEF a
    <3> QED BY <2>1, <3>1, SubSeqProperties DEF a
  <2> HIDE DEF a
  <2> QED BY <2>2
<1>2. /\ b \in Seq(E) /\ Len(b) = Len(s) - i /\ \A k \in 1 .. Len(s) - i : b[k] = s[i + k]
  <2>1. \A k \in i + 1 .. Len(s) : s[k] \in E
    OBVIOUS
  <2>2. /\ b \in Seq(E) /\ Len(b) = IF i + 1 <= Len(s) THEN Len(s) - (i + 1) + 1 ELSE 0
        /\ \A k \in 1 .. Len(s) - (i + 1) + 1 : b[k] = s[(i + 1) + k - 1]
    <3>1. i + 1 \in Int /\ Len(s) \in Int
      OBVIOUS
    <3> HIDE DEF b
    <3> QED BY <2>1, <3>1, SubSeqProperties DEF b
  <2> HIDE DEF b
  <2> QED BY <2>2
<1> HIDE DEF a, b
<1>3. /\ a \o b \in Seq(E) /\ Len(a \o b) = Len(a) + Len(b)
      /\ \A k \in 1 .. Len(a) + Len(b) : (a \o b)[k] = IF k <= Len(a) THEN a[k] ELSE b[k - Len(a)]
  BY <1>1, <1>2, ConcatProperties
<1>4. RemoveAt(s, i) = a \o b
  BY DEF RemoveAt, a, b
<1>5. Len(a) + Len(b) = Len(s) - 1
  BY <1>1, <1>2
<1>6. ASSUME NEW k \in 1 .. Len(s) - 1
      PROVE  (a \o b)[k] = IF k < i THEN s[k] ELSE s[k + 1]
  <2>1. CASE k < i
    BY <1>1, <1>3, <1>5, <2>1
  <2>2. CASE ~(k < i)
    <3>1. k - (i - 1) \in 1 .. Len(s) - i /\ i + (k - (i - 1)) = k + 1 /\ ~(k <= i - 1)
      BY <2>2
    <3>2. (a \o b)[k] = b[k - (i - 1)]
      BY <1>1, <1>3, <1>5, <3>1
    <3> QED BY <1>2, <2>2, <3>1, <3>2
  <2> QED BY <2>1, <2>2
<1> QED BY <1>3, <1>4, <1>5, <1>6

LEMMA PickWithout ==
  ASSUME NEW E, NEW s \in Seq(E), NEW out \in Seq(E), NEW pos, NEW P, Picks(pos, out, s, P),
         NEW i \in 1 .. Len(out)
  PROVE  Picks(RemoveAt(pos, i), RemoveAt(out, i), s, P \ {pos[i]})
<1> DEFINE pos1 == RemoveAt(pos, i)
           out1 == RemoveAt(out, i)
           n == Len(out)
<1>1. pos \in Seq(Nat) /\ Len(pos) = n /\ n \in Nat /\ i \in 1 .. Len(pos) /\ i \in 1 .. n
  BY DEF Picks
<1>2. /\ pos1 \in Seq(Nat) /\ Len(pos1) = n - 1
      /\ \A k \in 1 .. n - 1 : pos1[k] = IF k < i THEN pos[k] ELSE pos[k + 1]
  BY <1>1, RemovedFacts
<1>3. /\ Len(out1) = n - 1
      /\ \A k \in 1 .. n - 1 : out1[k] = IF k < i THEN out[k] ELSE out[k + 1]
  BY <1>1, RemovedFacts
<1>4. \A k \in 1 .. n - 1 : k \in 1 .. n /\ k + 1 \in 1 .. n
  BY <1>1
<1> HIDE DEF pos1, out1
<1>5. /\ \A k \in 1 .. n : pos[k] \in P /\ out[k] = s[pos[k]] /\ pos[k] \in Nat
      /\ \A j, k \in 1 .. n : j < k => pos[j] < pos[k]
      /\ \A x \in P : \E k \in 1 .. n : pos[k] = x
  BY <1>1 DEF Picks
<1> HIDE DEF n
<1>6. \A k \in 1 .. n : k # i => pos[k] # pos[i]
  BY <1>1, <1>5
<1>7. ASSUME NEW k \in 1 .. n - 1 PROVE pos1[k] \in P \ {pos[i]} /\ out1[k] = s[pos1[k]]
  <2>1. CASE k < i
    <3>1. pos1[k] = pos[k] /\ out1[k] = out[k] /\ k \in 1 .. n /\ k # i
      BY <1>1, <1>2, <1>3, <1>4, <2>1
    <3> QED BY <1>5, <1>6, <3>1
  <2>2. CASE ~(k < i)
    <3>1. pos1[k] = pos[k + 1] /\ out1[k] = out[k + 1] /\ k + 1 \in 1 .. n /\ k + 1 # i
      BY <1>1, <1>2, <1>3, <1>4, <2>2
    <3> QED BY <1>5, <1>6, <3>1
  <2> QED BY <2>1, <2>2
<1>8. ASSUME NEW j \in 1 .. n - 1, NEW k \in 1 .. n - 1, j < k PROVE pos1[j] < pos1[k]
  <2>1. /\ j \in 1 .. n /\ k \in 1 .. n /\ j + 1 \in 1 .. n /\ k + 1 \in 1 .. n
        /\ j < k + 1 /\ j + 1 < k + 1 /\ (j < i => j \in 1 .. n) /\ (k < i => j < i)
    BY <1>1, <1>4, <1>8
  <2>2. /\ pos1[j] = IF j < i THEN pos[j] ELSE pos[j + 1]
        /\ pos1[k] = IF k < i THEN pos[k] ELSE pos[k + 1]
    BY <1>2
  <2>3. pos[j] < pos[k] /\ pos[j] < pos[k + 1] /\ pos[j + 1] < pos[k + 1]
    BY <1>5, <1>8, <2>1
  <2> QED BY <2>1, <2>2, <2>3
<1>9. ASSUME NEW x \in P \ {pos[i]} PROVE \E k \in 1 .. n - 1 : pos1[k] = x
  <2>1. PICK k \in 1 .. n : pos[k] = x
    BY <1>5
  <2>2. CASE k < i
    <3>1. k \in 1 .. n - 1
      BY <1>1, <2>2
    <3> QED BY <1>2, <2>1, <2>2, <3>1
  <2>3. CASE k > i
    <3>1. k - 1 \in 1 .. n - 1 /\ ~(k - 1 < i) /\ (k - 1) + 1 = k
      BY <1>1, <2>3
    <3> QED BY <1>2, <2>1, <3>1
  <2>4. k # i
    BY <2>1
  <2> QED BY <2>2, <2>3, <2>4
<1>10. Picks(pos1, out1, s, P \ {pos[i]})
  BY <1>2, <1>3, <1>7, <1>8, <1>9 DEF Picks, n
<1> QED BY <1>10 DEF pos1, out1

LEMMA SubsetOfInterval ==
  ASSUME NEW E, NEW s \in Seq(E), NEW P \in SUBSET (1 .. Len(s)) PROVE IsFiniteSet(P)
<1>1. Len(s) \in Nat
  OBVIOUS
<1>2. IsFiniteSet(1 .. Len(s))
  BY <1>1, FS_Interval
<1> QED BY <1>2, FS_Subset

\* The elements at the indexes in P, in their order, are one sequence only.
LEMMA PickIsOnly ==
  ASSUME NEW E, NEW s \in Seq(E), NEW out \in Seq(E), NEW pos, NEW P, Picks(pos, out, s, P)
  PROVE  out = Only(s, P)
<1> DEFINE n == Len(out)
           Upto(k) == {j \in P : j <= pos[k]}
           at == [k \in 1 .. Cardinality(P) |-> CHOOSE i \in P : Cardinality({j \in P : j <= i}) = k]
<1>1. /\ n \in Nat /\ \A k \in 1 .. n : pos[k] \in P /\ out[k] = s[pos[k]] /\ pos[k] \in Nat
      /\ \A j, k \in 1 .. n : j < k => pos[j] < pos[k]
      /\ \A x \in P : \E k \in 1 .. n : pos[k] = x
  BY DEF Picks
<1> HIDE DEF n
<1>2. \A j, k \in 1 .. n : pos[j] = pos[k] => j = k
  <2>1. ASSUME NEW j \in 1 .. n, NEW k \in 1 .. n, pos[j] = pos[k], j # k PROVE FALSE
    <3>1. j < k \/ k < j
      BY <1>1, <2>1
    <3> QED BY <1>1, <2>1, <3>1
  <2> QED BY <2>1
<1>3. \A j, k \in 1 .. n : pos[j] <= pos[k] => j <= k
  <2>1. ASSUME NEW j \in 1 .. n, NEW k \in 1 .. n, pos[j] <= pos[k], ~(j <= k) PROVE FALSE
    <3>1. k < j
      BY <1>1, <2>1
    <3>2. pos[k] < pos[j]
      BY <1>1, <3>1
    <3> QED BY <1>1, <2>1, <3>2
  <2> QED BY <2>1
<1>4. \A j, k \in 1 .. n : j <= k => pos[j] <= pos[k]
  <2>1. ASSUME NEW j \in 1 .. n, NEW k \in 1 .. n, j <= k PROVE pos[j] <= pos[k]
    <3>1. j < k \/ j = k
      BY <1>1, <2>1
    <3> QED BY <1>1, <3>1
  <2> QED BY <2>1
<1>5. \A k \in 1 .. n : Cardinality(1 .. k) = k /\ IsFiniteSet(1 .. k)
  BY <1>1, FS_Interval
<1>6. ASSUME NEW k \in 1 .. n PROVE Cardinality(Upto(k)) = k
  <2> DEFINE Image == {pos[m] : m \in 1 .. k}
  <2>1. \A m \in 1 .. k : m \in 1 .. n
    BY <1>1
  <2>2. \A x, y \in 1 .. k : pos[x] = pos[y] => x = y
    BY <1>2, <2>1
  <2>3. Cardinality(Image) = k
    <3> DEFINE K == 1 .. k
    <3>1. IsFiniteSet(K) /\ Cardinality(K) = k /\ \A x, y \in K : pos[x] = pos[y] => x = y
      BY <1>5, <2>2
    <3> HIDE DEF K
    <3>2. Cardinality({pos[m] : m \in K}) = Cardinality(K)
      BY <3>1, SameSize
    <3> QED BY <3>1, <3>2 DEF K
  <2>4. ASSUME NEW x \in Image PROVE x \in Upto(k)
    BY <1>1, <1>4, <2>1
  <2>5. ASSUME NEW x \in Upto(k) PROVE x \in Image
    <3>1. PICK m \in 1 .. n : pos[m] = x
      BY <1>1
    <3>2. m <= k
      BY <1>3, <3>1
    <3>3. m \in 1 .. k
      BY <1>1, <3>2
    <3> QED BY <3>1, <3>3
  <2>6. Upto(k) = Image
    <3> HIDE DEF Upto, Image
    <3> QED BY <2>4, <2>5
  <2> QED BY <2>3, <2>6
<1>7. Cardinality(P) = n
  <2>1. P = {pos[m] : m \in 1 .. n}
    BY <1>1
  <2>2. IsFiniteSet(1 .. n) /\ Cardinality(1 .. n) = n
    BY <1>1, FS_Interval
  <2> DEFINE K == 1 .. n
  <2>3. IsFiniteSet(K) /\ \A x, y \in K : pos[x] = pos[y] => x = y
    BY <1>2, <2>2
  <2> HIDE DEF K
  <2>4. Cardinality({pos[m] : m \in K}) = Cardinality(K)
    BY <2>3, SameSize
  <2> QED BY <2>1, <2>2, <2>4 DEF K
<1>8. ASSUME NEW k \in 1 .. n
      PROVE  (CHOOSE i \in P : Cardinality({j \in P : j <= i}) = k) = pos[k]
  <2>1. pos[k] \in P /\ Cardinality({j \in P : j <= pos[k]}) = k
    BY <1>1, <1>6
  <2>2. ASSUME NEW i \in P, Cardinality({j \in P : j <= i}) = k PROVE i = pos[k]
    <3>1. PICK m \in 1 .. n : pos[m] = i
      BY <1>1
    <3>2. Cardinality({j \in P : j <= i}) = m
      BY <1>6, <3>1
    <3> QED BY <2>2, <3>1, <3>2
  <2> HIDE DEF at, Upto
  <2> QED BY <2>1, <2>2
<1>9. DOMAIN at = 1 .. n /\ \A k \in 1 .. n : at[k] = pos[k]
  BY <1>7, <1>8
<1>10. Only(s, P) = [k \in DOMAIN at |-> s[at[k]]]
  BY DEF Only
<1> HIDE DEF at
<1>11. out = [k \in 1 .. n |-> out[k]]
  BY DEF n
<1>12. [k \in 1 .. n |-> out[k]] = [k \in 1 .. n |-> s[at[k]]]
  BY <1>1, <1>9
<1> QED BY <1>9, <1>10, <1>11, <1>12

\* out is s without some of its elements.
IsPart(out, s) == \E P, pos : P \subseteq 1 .. Len(s) /\ Picks(pos, out, s, P)

LEMMA PartKeepsOrder ==
  ASSUME NEW E, NEW s \in Seq(E), NEW out \in Seq(E), IsPart(out, s)
  PROVE  /\ \A k \in 1 .. Len(out) : \E l \in 1 .. Len(s) : out[k] = s[l]
         /\ \A j, k \in 1 .. Len(out) : j < k =>
              \E i, l \in 1 .. Len(s) : i < l /\ out[j] = s[i] /\ out[k] = s[l]
<1>1. PICK P, pos : P \subseteq 1 .. Len(s) /\ Picks(pos, out, s, P)
  BY DEF IsPart
<1> QED BY <1>1 DEF Picks

LEMMA PartWeighsLess ==
  ASSUME NEW E, NEW s \in Seq(E), NEW out \in Seq(E), IsPart(out, s), NEW w \in [E -> Nat]
  PROVE  Weight(out, w) <= Weight(s, w)
<1>0. PICK f, g : f = [k \in 1 .. Len(out) |-> w[out[k]]] /\ g = [i \in 1 .. Len(s) |-> w[s[i]]]
  OBVIOUS
<1>1. PICK P, pos : P \subseteq 1 .. Len(s) /\ Picks(pos, out, s, P)
  BY DEF IsPart
<1> DEFINE n == Len(out)
<1>2. /\ n \in Nat /\ \A k \in 1 .. n : pos[k] \in P /\ out[k] = s[pos[k]] /\ pos[k] \in Nat
      /\ \A j, k \in 1 .. n : j < k => pos[j] < pos[k]
      /\ \A x \in P : \E k \in 1 .. n : pos[k] = x
  BY <1>1 DEF Picks
<1>3. /\ \A k \in 1 .. n : f[k] \in Int /\ g[pos[k]] = f[k]
      /\ \A i \in 1 .. Len(s) : g[i] \in Int /\ g[i] >= 0
  <2>1. \A k \in 1 .. n : f[k] = w[out[k]] /\ out[k] \in E
    BY <1>0, ElementOfSeq
  <2>2. \A i \in 1 .. Len(s) : g[i] = w[s[i]] /\ s[i] \in E
    BY <1>0, ElementOfSeq
  <2>3. \A e \in E : w[e] \in Nat
    OBVIOUS
  <2> HIDE DEF n
  <2>4. \A k \in 1 .. n : f[k] \in Int
    BY <2>1, <2>3
  <2>5. \A i \in 1 .. Len(s) : g[i] \in Int /\ g[i] >= 0
    BY <2>2, <2>3
  <2>6. ASSUME NEW k \in 1 .. n PROVE g[pos[k]] = f[k]
    <3>1. pos[k] \in 1 .. Len(s)
      BY <1>1, <1>2
    <3> QED BY <1>2, <2>1, <2>2, <3>1
  <2> QED BY <2>4, <2>5, <2>6
<1> HIDE DEF n
<1>4. \A j, k \in 1 .. n : pos[j] = pos[k] => j = k
  <2>1. ASSUME NEW j \in 1 .. n, NEW k \in 1 .. n, pos[j] = pos[k], j # k PROVE FALSE
    <3>1. j < k \/ k < j
      BY <1>2, <2>1
    <3> QED BY <1>2, <2>1, <3>1
  <2> QED BY <2>1
<1>6. IsFiniteSet(1 .. n) /\ IsFiniteSet(1 .. Len(s))
  <2>1. Len(s) \in Nat
    OBVIOUS
  <2> QED BY <1>2, <2>1, FS_Interval
<1>7. SumFunctionOnSet(g, P) = SumFunctionOnSet(f, 1 .. n)
  <2>1. Renumbers(pos, f, 1 .. n, g, P)
    BY <1>2, <1>3, <1>4 DEF Renumbers
  <2> QED BY <1>6, <2>1, SumReindexed
<1>8. SumFunctionOnSet(g, P) <= SumFunctionOnSet(g, 1 .. Len(s))
  <2> DEFINE D == 1 .. Len(s)
  <2>1. IsFiniteSet(D) /\ P \in SUBSET D /\ (\A x \in D : g[x] \in Int) /\ (\A x \in D \ P : g[x] >= 0)
    BY <1>1, <1>3, <1>6
  <2> HIDE DEF D
  <2>2. SumFunctionOnSet(g, P) <= SumFunctionOnSet(g, D)
    BY <2>1, SumOfSubset
  <2> QED BY <2>2 DEF D
<1> QED BY <1>0, <1>7, <1>8 DEF Weight, n

-----------------------------------------------------------------------------
(* The loops of the passes and of the charts, as runs. *)

Items == {c.item : c \in Commands}

Events == [frame : Nat, type : EventTypes, item : Items, effective : BOOLEAN, count : Nat, end : Nat]

\* An event before the workers are joined.
Single == {e \in Events : e.count = 0}

Recorded == [pid : {c.pid : c \in Commands}, frame : Nat, type : {c.type : c \in Commands},
             item : Items, effective : BOOLEAN]

\* The greatest index that a search from the end stops at.
LastIn(I) == IF I # {} THEN Max(I) ELSE 0

LEMMA LastInFacts ==
  ASSUME NEW n \in Nat, NEW I \in SUBSET (1 .. n)
  PROVE  /\ LastIn(I) \in 0 .. n /\ (LastIn(I) = 0 <=> I = {})
         /\ \A i \in I : i <= LastIn(I)
         /\ I # {} => LastIn(I) \in I
<1>1. CASE I = {}
  BY <1>1 DEF LastIn
<1>2. CASE I # {}
  <2>1. IsFiniteSet(I) /\ I \in SUBSET Nat
    <3>1. IsFiniteSet(1 .. n)
      BY FS_Interval
    <3>2. IsFiniteSet(I)
      BY <3>1, FS_Subset
    <3> QED BY <3>2
  <2>2. \E m \in I : \A i \in I : i <= m
    BY <1>2, <2>1, GreatestOfFinite
  <2>3. \A m, i \in I : i <= m <=> m >= i
    BY <2>1
  <2>4. \E m \in I : \A i \in I : m >= i
    BY <2>2, <2>3
  <2>5. Max(I) \in I /\ \A i \in I : Max(I) >= i
    BY <2>4 DEF Max
  <2>6. LastIn(I) = Max(I)
    BY <1>2 DEF LastIn
  <2>7. \A i \in I : i <= Max(I)
    BY <2>3, <2>5
  <2>8. Max(I) \in 1 .. n
    BY <2>5
  <2> QED BY <1>2, <2>5, <2>6, <2>7, <2>8
<1> QED BY <1>1, <1>2

LEMMA RepeatsLastFacts ==
  ASSUME NEW out, NEW e
  PROVE  RepeatsLast(out, e) <=>
           LET i == LastIn({j \in 1 .. Len(out) : SameCommand(out[j], e)})
           IN  i > 0 /\ e.frame - out[i].frame <= dedupWindow(e.type)
BY Zenon DEF RepeatsLast, SelectLastInSeq, LastIn

TooOld(out, c) == {j \in 1 .. Len(out) : c.frame - out[j].frame > matchWindow}
Cancelable(out, c) == {j \in 1 .. Len(out) : out[j].type \in Cancels[c.type]}

LEMMA FindCancelableFacts ==
  ASSUME NEW out, NEW c
  PROVE  findCancelableEvent(out, c) = IF LastIn(Cancelable(out, c)) > LastIn(TooOld(out, c))
                                       THEN LastIn(Cancelable(out, c)) ELSE 0
BY Zenon DEF findCancelableEvent, SelectLastInSeq, LastIn, TooOld, Cancelable

OrderOf(p, cmds) ==
  LET Take(out, c) == IF c.pid = p /\ IsBuildEvent(c) THEN Append(out, commandToBuildEvent(c)) ELSE out
  IN  FoldLeft(Take, <<>>, cmds)

TakeEvent(p, out, c) == IF c.pid = p /\ IsBuildEvent(c) THEN Append(out, commandToBuildEvent(c)) ELSE out

KeepEffective(out, e) == IF isCancelEventType(e.type) \/ e.effective THEN Append(out, e) ELSE out

KeepFirst(out, e) == IF ~isCancelEventType(e.type) /\ RepeatsLast(out, e) THEN out ELSE Append(out, e)

TakeBack(out, e) ==
  IF ~isCancelEventType(e.type) THEN Append(out, e)
  ELSE LET i == findCancelableEvent(out, e) IN IF i = 0 THEN out ELSE RemoveAt(out, i)

JoinWorker(out, e) ==
  IF ContinuesRun(out, e) THEN Append(Front(out), Joined(Last(out), e))
  ELSE Append(out, [e EXCEPT !.count = IF @ = 0 THEN 1 ELSE @])

LEMMA EventOfCommand ==
  ASSUME NEW c \in Recorded, IsBuildEvent(c)
  PROVE  commandToBuildEvent(c) \in Single
BY DEF Recorded, Single, Events, commandToBuildEvent, IsBuildEvent

LEMMA TakeEventTypes ==
  ASSUME NEW p
  PROVE  <<>> \in Seq(Single) /\ \A out \in Seq(Single), c \in Recorded : TakeEvent(p, out, c) \in Seq(Single)
BY EventOfCommand DEF TakeEvent

LEMMA KeepTypes ==
  ASSUME NEW E
  PROVE  /\ <<>> \in Seq(E)
         /\ \A out \in Seq(E), e \in E : KeepEffective(out, e) \in Seq(E) /\ KeepFirst(out, e) \in Seq(E)
BY DEF KeepEffective, KeepFirst

LEMMA FoundIsThere ==
  ASSUME NEW E, NEW out \in Seq(E), NEW c
  PROVE  findCancelableEvent(out, c) \in 0 .. Len(out)
<1>1. Len(out) \in Nat
  OBVIOUS
<1>2. LastIn(Cancelable(out, c)) \in 0 .. Len(out)
  BY <1>1, LastInFacts DEF Cancelable
<1> QED BY <1>2, FindCancelableFacts

LEMMA TakeBackTypes ==
  ASSUME NEW E
  PROVE  <<>> \in Seq(E) /\ \A out \in Seq(E), e \in E : TakeBack(out, e) \in Seq(E)
<1>1. ASSUME NEW out \in Seq(E), NEW e \in E PROVE TakeBack(out, e) \in Seq(E)
  <2> DEFINE i == findCancelableEvent(out, e)
  <2>1. i \in 0 .. Len(out)
    BY FoundIsThere
  <2> HIDE DEF i
  <2>2. i # 0 => i \in 1 .. Len(out)
    BY <2>1
  <2>3. i # 0 => RemoveAt(out, i) \in Seq(E)
    BY <2>2, RemovedFacts
  <2> QED BY <2>3 DEF TakeBack, i
<1> QED BY <1>1

LEMMA FrontFacts ==
  ASSUME NEW E, NEW s \in Seq(E), s # <<>>
  PROVE  /\ Front(s) \in Seq(E) /\ Len(Front(s)) = Len(s) - 1 /\ Len(s) \in Nat \ {0}
         /\ \A k \in 1 .. Len(s) - 1 : Front(s)[k] = s[k]
         /\ Last(s) \in E /\ Last(s) = s[Len(s)]
<1>1. Len(s) \in Nat \ {0}
  BY EmptySeq
<1>2. \A k \in 1 .. Len(s) - 1 : s[k] \in E
  OBVIOUS
<1> DEFINE a == SubSeq(s, 1, Len(s) - 1)
<1>3. /\ a \in Seq(E) /\ Len(a) = IF 1 <= Len(s) - 1 THEN (Len(s) - 1) - 1 + 1 ELSE 0
      /\ \A k \in 1 .. (Len(s) - 1) - 1 + 1 : a[k] = s[1 + k - 1]
  <2>1. 1 \in Int /\ Len(s) - 1 \in Int
    BY <1>1
  <2> HIDE DEF a
  <2> QED BY <1>2, <2>1, SubSeqProperties DEF a
<1> HIDE DEF a
<1>4. /\ Len(a) = Len(s) - 1 /\ \A k \in 1 .. Len(s) - 1 : a[k] = s[k]
  <2>1. CASE 1 <= Len(s) - 1
    <3>1. (Len(s) - 1) - 1 + 1 = Len(s) - 1 /\ \A k \in 1 .. Len(s) - 1 : 1 + k - 1 = k
      BY <1>1
    <3> QED BY <1>3, <2>1, <3>1
  <2>2. CASE ~(1 <= Len(s) - 1)
    <3>1. \A n \in Nat : n # 0 /\ ~(1 <= n - 1) => n - 1 = 0
      OBVIOUS
    <3>2. Len(s) - 1 = 0
      BY <1>1, <2>2, <3>1
    <3> QED BY <1>3, <2>2, <3>2
  <2> QED BY <2>1, <2>2
<1>5. s[Len(s)] \in E
  BY <1>1
<1> QED BY <1>1, <1>3, <1>4, <1>5 DEF Front, Last, a

LEMMA JoinedIsEvent ==
  ASSUME NEW e \in Events, NEW last \in Events
  PROVE  Joined(last, e) \in Events
<1>1. last.count + 1 \in Nat /\ e.frame \in Nat
  BY DEF Events
<1> QED BY <1>1 DEF Joined, Events

LEMMA JoinTypes ==
  <<>> \in Seq(Events) /\ \A out \in Seq(Events), e \in Single : JoinWorker(out, e) \in Seq(Events)
<1>1. ASSUME NEW out \in Seq(Events), NEW e \in Single PROVE JoinWorker(out, e) \in Seq(Events)
  <2>0. e \in Events
    BY DEF Single
  <2>1. CASE ContinuesRun(out, e)
    <3>1. out # <<>>
      BY <2>1 DEF ContinuesRun
    <3>2. Front(out) \in Seq(Events) /\ Last(out) \in Events
      BY <3>1, FrontFacts
    <3>3. Joined(Last(out), e) \in Events
      BY <2>0, <3>2, JoinedIsEvent
    <3> QED BY <2>1, <3>2, <3>3 DEF JoinWorker
  <2>2. CASE ~ContinuesRun(out, e)
    <3>1. [e EXCEPT !.count = IF @ = 0 THEN 1 ELSE @] \in Events
      BY <2>0 DEF Events
    <3> QED BY <2>2, <3>1 DEF JoinWorker
  <2> QED BY <2>1, <2>2
<1> QED BY <1>1

TakeValues(p, iter, s) ==
  iter = [t \in SUBSET DOMAIN s |->
            IF t = {} THEN <<>> ELSE TakeEvent(p, iter[t \ {Max(t)}], s[Max(t)])]

LEMMA TakeRun ==
  ASSUME NEW p, NEW s \in Seq(Recorded)
  PROVE  \E after : /\ after[0] = <<>> /\ OrderOf(p, s) = after[Len(s)]
                    /\ \A i \in 1 .. Len(s) : after[i] = TakeEvent(p, after[i - 1], s[i])
<1> DEFINE step == [pair \in Seq(Single) \X Recorded |-> TakeEvent(p, pair[1], pair[2])]
           iter == CHOOSE iter : TakeValues(p, iter, s)
<1>1. /\ step \in [Seq(Single) \X Recorded -> Seq(Single)]
      /\ \A out \in Seq(Single), e \in Recorded : step[out, e] = TakeEvent(p, out, e)
  BY TakeEventTypes
<1>2. TakeValues(p, iter, s)
  <2> HIDE DEF step
  <2>1. <<>> \in Seq(Single)
    BY TakeEventTypes
  <2>2. PICK run : IsRun(run, <<>>, step, s, Seq(Single), Recorded)
    BY <1>1, <2>1, FoldRun
  <2>3. \A t \in SUBSET DOMAIN s :
          run[t] = IF t = {} THEN <<>> ELSE TakeEvent(p, run[t \ {Max(t)}], s[Max(t)])
    BY <1>1, <2>2 DEF IsRun
  <2>4. TakeValues(p, run, s)
    BY Zenon, <2>2, <2>3 DEF TakeValues, IsRun
  <2> QED BY <2>4
<1>3. OrderOf(p, s) = iter[DOMAIN s]
  BY Zenon DEF OrderOf, FoldLeft, MapThenFoldSet, TakeValues, TakeEvent
<1> HIDE DEF iter, step
<1>4. \A t \in SUBSET DOMAIN s :
        iter[t] = IF t = {} THEN <<>> ELSE TakeEvent(p, iter[t \ {Max(t)}], s[Max(t)])
  BY <1>2 DEF TakeValues
<1>5. iter[{}] = <<>> /\ \A i \in 1 .. Len(s) : iter[1 .. i] = TakeEvent(p, iter[1 .. i - 1], s[i])
  BY <1>4, PrefixSets
<1> QED BY <1>3, <1>5, Iterates

FilterValues(iter, s) ==
  iter = [t \in SUBSET DOMAIN s |->
            IF t = {} THEN <<>> ELSE KeepEffective(iter[t \ {Max(t)}], s[Max(t)])]

LEMMA FilterRun ==
  ASSUME NEW E, NEW s \in Seq(E)
  PROVE  \E after : /\ after[0] = <<>> /\ filterEffectiveEvents(s) = after[Len(s)]
                    /\ \A i \in 1 .. Len(s) : after[i] = KeepEffective(after[i - 1], s[i])
<1> DEFINE step == [pair \in Seq(E) \X E |-> KeepEffective(pair[1], pair[2])]
           iter == CHOOSE iter : FilterValues(iter, s)
<1>1. step \in [Seq(E) \X E -> Seq(E)] /\ \A out \in Seq(E), e \in E : step[out, e] = KeepEffective(out, e)
  BY KeepTypes
<1>2. FilterValues(iter, s)
  <2> HIDE DEF step
  <2>1. <<>> \in Seq(E)
    BY KeepTypes
  <2>2. PICK run : IsRun(run, <<>>, step, s, Seq(E), E)
    BY <1>1, <2>1, FoldRun
  <2>3. \A t \in SUBSET DOMAIN s :
          run[t] = IF t = {} THEN <<>> ELSE KeepEffective(run[t \ {Max(t)}], s[Max(t)])
    BY <1>1, <2>2 DEF IsRun
  <2>4. FilterValues(run, s)
    BY Zenon, <2>2, <2>3 DEF FilterValues, IsRun
  <2> QED BY <2>4
<1>3. filterEffectiveEvents(s) = iter[DOMAIN s]
  BY Zenon DEF filterEffectiveEvents, FoldLeft, MapThenFoldSet, FilterValues, KeepEffective
<1> HIDE DEF iter, step
<1>4. \A t \in SUBSET DOMAIN s :
        iter[t] = IF t = {} THEN <<>> ELSE KeepEffective(iter[t \ {Max(t)}], s[Max(t)])
  BY <1>2 DEF FilterValues
<1>5. iter[{}] = <<>> /\ \A i \in 1 .. Len(s) : iter[1 .. i] = KeepEffective(iter[1 .. i - 1], s[i])
  BY <1>4, PrefixSets
<1> QED BY <1>3, <1>5, Iterates

DedupValues(iter, s) ==
  iter = [t \in SUBSET DOMAIN s |->
            IF t = {} THEN <<>> ELSE KeepFirst(iter[t \ {Max(t)}], s[Max(t)])]

LEMMA DedupRun ==
  ASSUME NEW E, NEW s \in Seq(E)
  PROVE  \E after : /\ after[0] = <<>> /\ dedupShortBurstEvents(s) = after[Len(s)]
                    /\ \A i \in 1 .. Len(s) : after[i] = KeepFirst(after[i - 1], s[i])
<1> DEFINE step == [pair \in Seq(E) \X E |-> KeepFirst(pair[1], pair[2])]
           iter == CHOOSE iter : DedupValues(iter, s)
<1>1. step \in [Seq(E) \X E -> Seq(E)] /\ \A out \in Seq(E), e \in E : step[out, e] = KeepFirst(out, e)
  BY KeepTypes
<1>2. DedupValues(iter, s)
  <2> HIDE DEF step
  <2>1. <<>> \in Seq(E)
    BY KeepTypes
  <2>2. PICK run : IsRun(run, <<>>, step, s, Seq(E), E)
    BY <1>1, <2>1, FoldRun
  <2>3. \A t \in SUBSET DOMAIN s :
          run[t] = IF t = {} THEN <<>> ELSE KeepFirst(run[t \ {Max(t)}], s[Max(t)])
    BY <1>1, <2>2 DEF IsRun
  <2>4. DedupValues(run, s)
    BY Zenon, <2>2, <2>3 DEF DedupValues, IsRun
  <2> QED BY <2>4
<1>3. dedupShortBurstEvents(s) = iter[DOMAIN s]
  BY Zenon DEF dedupShortBurstEvents, FoldLeft, MapThenFoldSet, DedupValues, KeepFirst
<1> HIDE DEF iter, step
<1>4. \A t \in SUBSET DOMAIN s :
        iter[t] = IF t = {} THEN <<>> ELSE KeepFirst(iter[t \ {Max(t)}], s[Max(t)])
  BY <1>2 DEF DedupValues
<1>5. iter[{}] = <<>> /\ \A i \in 1 .. Len(s) : iter[1 .. i] = KeepFirst(iter[1 .. i - 1], s[i])
  BY <1>4, PrefixSets
<1> QED BY <1>3, <1>5, Iterates

ReconcileValues(iter, s) ==
  iter = [t \in SUBSET DOMAIN s |->
            IF t = {} THEN <<>> ELSE TakeBack(iter[t \ {Max(t)}], s[Max(t)])]

LEMMA ReconcileRun ==
  ASSUME NEW E, NEW s \in Seq(E)
  PROVE  \E after : /\ after[0] = <<>> /\ reconcileCancelPairs(s) = after[Len(s)]
                    /\ \A i \in 1 .. Len(s) : after[i] = TakeBack(after[i - 1], s[i])
<1> DEFINE step == [pair \in Seq(E) \X E |-> TakeBack(pair[1], pair[2])]
           iter == CHOOSE iter : ReconcileValues(iter, s)
<1>1. step \in [Seq(E) \X E -> Seq(E)] /\ \A out \in Seq(E), e \in E : step[out, e] = TakeBack(out, e)
  BY TakeBackTypes
<1>2. ReconcileValues(iter, s)
  <2> HIDE DEF step
  <2>1. <<>> \in Seq(E)
    BY TakeBackTypes
  <2>2. PICK run : IsRun(run, <<>>, step, s, Seq(E), E)
    BY <1>1, <2>1, FoldRun
  <2>3. \A t \in SUBSET DOMAIN s :
          run[t] = IF t = {} THEN <<>> ELSE TakeBack(run[t \ {Max(t)}], s[Max(t)])
    BY <1>1, <2>2 DEF IsRun
  <2>4. ReconcileValues(run, s)
    BY Zenon, <2>2, <2>3 DEF ReconcileValues, IsRun
  <2> QED BY <2>4
<1>3. reconcileCancelPairs(s) = iter[DOMAIN s]
  BY Zenon DEF reconcileCancelPairs, FoldLeft, MapThenFoldSet, ReconcileValues, TakeBack
<1> HIDE DEF iter, step
<1>4. \A t \in SUBSET DOMAIN s :
        iter[t] = IF t = {} THEN <<>> ELSE TakeBack(iter[t \ {Max(t)}], s[Max(t)])
  BY <1>2 DEF ReconcileValues
<1>5. iter[{}] = <<>> /\ \A i \in 1 .. Len(s) : iter[1 .. i] = TakeBack(iter[1 .. i - 1], s[i])
  BY <1>4, PrefixSets
<1> QED BY <1>3, <1>5, Iterates

JoinValues(iter, s) ==
  iter = [t \in SUBSET DOMAIN s |->
            IF t = {} THEN <<>> ELSE JoinWorker(iter[t \ {Max(t)}], s[Max(t)])]

LEMMA JoinRun ==
  ASSUME NEW s \in Seq(Single)
  PROVE  \E after : /\ after[0] = <<>> /\ aggregateWorkerTrainRuns(s) = after[Len(s)]
                    /\ \A i \in 1 .. Len(s) : after[i] = JoinWorker(after[i - 1], s[i])
<1> DEFINE step == [pair \in Seq(Events) \X Single |-> JoinWorker(pair[1], pair[2])]
           iter == CHOOSE iter : JoinValues(iter, s)
<1>1. /\ step \in [Seq(Events) \X Single -> Seq(Events)]
      /\ \A out \in Seq(Events), e \in Single : step[out, e] = JoinWorker(out, e)
  BY JoinTypes
<1>2. JoinValues(iter, s)
  <2> HIDE DEF step
  <2>1. <<>> \in Seq(Events)
    BY JoinTypes
  <2>2. PICK run : IsRun(run, <<>>, step, s, Seq(Events), Single)
    BY <1>1, <2>1, FoldRun
  <2>3. \A t \in SUBSET DOMAIN s :
          run[t] = IF t = {} THEN <<>> ELSE JoinWorker(run[t \ {Max(t)}], s[Max(t)])
    BY <1>1, <2>2 DEF IsRun
  <2>4. JoinValues(run, s)
    BY Zenon, <2>2, <2>3 DEF JoinValues, IsRun
  <2> QED BY <2>4
<1>3. aggregateWorkerTrainRuns(s) = iter[DOMAIN s]
  BY Zenon DEF aggregateWorkerTrainRuns, FoldLeft, MapThenFoldSet, JoinValues, JoinWorker
<1> HIDE DEF iter, step
<1>4. \A t \in SUBSET DOMAIN s :
        iter[t] = IF t = {} THEN <<>> ELSE JoinWorker(iter[t \ {Max(t)}], s[Max(t)])
  BY <1>2 DEF JoinValues
<1>5. iter[{}] = <<>> /\ \A i \in 1 .. Len(s) : iter[1 .. i] = JoinWorker(iter[1 .. i - 1], s[i])
  BY <1>4, PrefixSets
<1> QED BY <1>3, <1>5, Iterates

\* A property of every number up to n, from each to the next.
LEMMA UpTo ==
  ASSUME NEW n \in Nat, NEW Bad \in SUBSET (0 .. n), 0 \notin Bad,
         \A i \in 1 .. n : i - 1 \notin Bad => i \notin Bad
  PROVE  Bad = {}
<1> SUFFICES ASSUME Bad # {} PROVE FALSE
  OBVIOUS
<1>1. PICK m \in Bad : \A k \in Bad : m <= k
  BY LeastNumber
<1>2. m \in 1 .. n /\ ~(m <= m - 1)
  OBVIOUS
<1> QED BY <1>1, <1>2

-----------------------------------------------------------------------------
(* The loops of the charts. *)

Counters(S) == UNION {[D -> Int] : D \in SUBSET S}

UnitSums == [total : Int, worker : Int, tech : Int, army : Int,
             byUnit : Counters(Items), timeline : Counters(Nat)]

NoUnits == [total |-> 0, worker |-> 0, tech |-> 0, army |-> 0, byUnit |-> Nothing, timeline |-> Nothing]

CountUnit(mode, sum, e) ==
  IF ~classifyProductionEvent(e, mode) THEN sum
  ELSE [total    |-> sum.total + CountOf(e),
        worker   |-> sum.worker + (IF isWorkerUnit(e.item) THEN CountOf(e) ELSE 0),
        tech     |-> sum.tech + (IF ~isWorkerUnit(e.item) /\ isTechUnit(e.item) THEN CountOf(e) ELSE 0),
        army     |-> sum.army + (IF isWorkerUnit(e.item) \/ isTechUnit(e.item) THEN 0 ELSE CountOf(e)),
        byUnit   |-> Add(sum.byUnit, e.item, CountOf(e)),
        timeline |-> Add(sum.timeline, Window(e), WindowGain(e))]

SpendSums == [mineral : Int, gas : Int, unknown : Int,
              byCategory : Counters(Categories), timeline : Counters(Nat)]

NoSpend == [mineral |-> 0, gas |-> 0, unknown |-> 0,
            byCategory |-> [c \in Categories |-> 0], timeline |-> Nothing]

SpendOn(sum, e) ==
  IF classifySpendEvent(e) = "" THEN sum
  ELSE [mineral    |-> sum.mineral + costOf(e.item)[1] * Charge(e),
        gas        |-> sum.gas + costOf(e.item)[2] * Charge(e),
        unknown    |-> sum.unknown + (IF costOf(e.item) = <<0, 0>> THEN 1 ELSE 0),
        byCategory |-> Add(sum.byCategory, classifySpendEvent(e), Spent(e)),
        timeline   |-> Add(sum.timeline, Window(e), Spent(e))]

TechKinds == {"tech", "upgrade", "prereq_building", "cancel"}

TechSums == [counts : [TechKinds -> Int], ineff : Int]

NoTech == [counts |-> [k \in TechKinds |-> 0], ineff |-> 0]

NoteTech(sum, e) ==
  LET kind == classifyTechTreeEvent(e) IN
  IF kind = "" THEN sum
  ELSE [counts |-> [sum.counts EXCEPT ![kind] = @ + CountOf(e)],
        ineff  |-> sum.ineff + (IF TechStatus(e) = "inefficient" THEN CountOf(e) ELSE 0)]

LEMMA CounterTypes ==
  ASSUME NEW S
  PROVE  /\ Nothing \in Counters(S)
         /\ \A f \in Counters(S), k \in S, n \in Int : Add(f, k, n) \in Counters(S)
<1>1. Nothing \in [{} -> Int] /\ {} \in SUBSET S
  BY DEF Nothing
<1>2. ASSUME NEW D \in SUBSET S, NEW f \in [D -> Int], NEW k \in S, NEW n \in Int
      PROVE  Add(f, k, n) \in [D \cup {k} -> Int] /\ D \cup {k} \in SUBSET S
  BY DEF Add
<1>3. ASSUME NEW f \in Counters(S), NEW k \in S, NEW n \in Int
      PROVE  Add(f, k, n) \in Counters(S)
  <2>1. PICK D \in SUBSET S : f \in [D -> Int]
    BY DEF Counters
  <2>2. Add(f, k, n) \in [D \cup {k} -> Int] /\ D \cup {k} \in SUBSET S
    BY <1>2, <2>1
  <2> QED BY <2>2 DEF Counters
<1> QED BY <1>1, <1>3 DEF Counters

LEMMA EventNumbers ==
  ASSUME NEW e \in Events
  PROVE  /\ CountOf(e) \in Nat \ {0} /\ Window(e) \in Nat /\ WindowGain(e) = CountOf(e)
         /\ Charge(e) = CountOf(e) /\ costOf(e.item)[1] \in Nat /\ costOf(e.item)[2] \in Nat
         /\ costOf(e.item)[1] * Charge(e) \in Nat /\ costOf(e.item)[2] * Charge(e) \in Nat
         /\ Spent(e) = costOf(e.item)[1] * Charge(e) + costOf(e.item)[2] * Charge(e)
         /\ Spent(e) \in Nat
<1>1. CountOf(e) \in Nat \ {0} /\ e.frame \in Nat
  BY DEF CountOf, Events
<1>2. Window(e) \in Nat
  BY <1>1 DEF Window, windowFrames
<1>3. WindowGain(e) = CountOf(e) /\ Charge(e) = CountOf(e)
  BY DEF WindowGain, Charge
<1>4. costOf(e.item)[1] \in Nat /\ costOf(e.item)[2] \in Nat
  BY PriceAssumption DEF costOf
<1>5. \A a, b, n \in Nat : a * n \in Nat /\ b * n \in Nat /\ (a + b) * n = a * n + b * n /\ (a + b) * n \in Nat
  OBVIOUS
<1> QED BY <1>1, <1>2, <1>3, <1>4, <1>5 DEF Spent

LEMMA UnitTypes ==
  ASSUME NEW mode
  PROVE  /\ NoUnits \in UnitSums
         /\ \A sum \in UnitSums, e \in Events : CountUnit(mode, sum, e) \in UnitSums
<1>1. NoUnits \in UnitSums
  BY CounterTypes DEF NoUnits, UnitSums
<1>2. ASSUME NEW sum \in UnitSums, NEW e \in Events PROVE CountUnit(mode, sum, e) \in UnitSums
  <2>1. /\ CountOf(e) \in Int /\ WindowGain(e) \in Int /\ Window(e) \in Nat /\ e.item \in Items
        /\ sum.byUnit \in Counters(Items) /\ sum.timeline \in Counters(Nat)
    BY EventNumbers DEF Events, UnitSums
  <2>2. /\ Add(sum.byUnit, e.item, CountOf(e)) \in Counters(Items)
        /\ Add(sum.timeline, Window(e), WindowGain(e)) \in Counters(Nat)
    BY <2>1, CounterTypes
  <2> QED BY <2>1, <2>2 DEF CountUnit, UnitSums
<1> QED BY <1>1, <1>2

LEMMA SpendClass ==
  ASSUME NEW e \in Events PROVE classifySpendEvent(e) # "" => classifySpendEvent(e) \in Categories
BY DEF classifySpendEvent, Categories

LEMMA SpendTypes ==
  /\ NoSpend \in SpendSums
  /\ \A sum \in SpendSums, e \in Events : SpendOn(sum, e) \in SpendSums
<1>1. NoSpend \in SpendSums
  <2>1. [c \in Categories |-> 0] \in Counters(Categories)
    BY DEF Counters
  <2> QED BY <2>1, CounterTypes DEF NoSpend, SpendSums
<1>2. ASSUME NEW sum \in SpendSums, NEW e \in Events PROVE SpendOn(sum, e) \in SpendSums
  <2>1. CASE classifySpendEvent(e) # ""
    <3>1. /\ Spent(e) \in Int /\ Window(e) \in Nat
          /\ costOf(e.item)[1] * Charge(e) \in Int /\ costOf(e.item)[2] * Charge(e) \in Int
          /\ sum.byCategory \in Counters(Categories) /\ sum.timeline \in Counters(Nat)
      BY EventNumbers DEF SpendSums
    <3>2. /\ Add(sum.byCategory, classifySpendEvent(e), Spent(e)) \in Counters(Categories)
          /\ Add(sum.timeline, Window(e), Spent(e)) \in Counters(Nat)
      BY <2>1, <3>1, SpendClass, CounterTypes
    <3>3. /\ sum.mineral + costOf(e.item)[1] * Charge(e) \in Int
          /\ sum.gas + costOf(e.item)[2] * Charge(e) \in Int
          /\ sum.unknown + (IF costOf(e.item) = <<0, 0>> THEN 1 ELSE 0) \in Int
      BY <3>1 DEF SpendSums
    <3> QED BY <2>1, <3>2, <3>3, Zenon DEF SpendOn, SpendSums
  <2>2. CASE classifySpendEvent(e) = ""
    BY <2>2 DEF SpendOn
  <2> QED BY <2>1, <2>2
<1> QED BY <1>1, <1>2

LEMMA TechClass ==
  ASSUME NEW e \in Events PROVE classifyTechTreeEvent(e) # "" => classifyTechTreeEvent(e) \in TechKinds
BY DEF classifyTechTreeEvent, TechKinds

LEMMA TechTypes ==
  /\ NoTech \in TechSums
  /\ \A sum \in TechSums, e \in Events : NoteTech(sum, e) \in TechSums
<1>1. NoTech \in TechSums
  BY DEF NoTech, TechSums
<1>2. ASSUME NEW sum \in TechSums, NEW e \in Events PROVE NoteTech(sum, e) \in TechSums
  <2>1. CountOf(e) \in Nat \ {0}
    BY EventNumbers
  <2>2. classifyTechTreeEvent(e) # "" => classifyTechTreeEvent(e) \in TechKinds
    BY TechClass
  <2>3. sum.counts \in [TechKinds -> Int] /\ sum.ineff \in Int /\ sum \in TechSums
    BY DEF TechSums
  <2>4. /\ sum.ineff + (IF TechStatus(e) = "inefficient" THEN CountOf(e) ELSE 0) \in Int
        /\ \A k \in TechKinds : [sum.counts EXCEPT ![k] = @ + CountOf(e)] \in [TechKinds -> Int]
    BY <2>1, <2>3
  <2> QED BY <2>2, <2>3, <2>4 DEF NoteTech, TechSums
<1> QED BY <1>1, <1>2

UnitValues(mode, iter, s) ==
  iter = [t \in SUBSET DOMAIN s |->
            IF t = {} THEN NoUnits ELSE CountUnit(mode, iter[t \ {Max(t)}], s[Max(t)])]

LEMMA UnitRun ==
  ASSUME NEW mode, NEW s \in Seq(Events)
  PROVE  \E after : /\ after[0] = NoUnits /\ buildUnitProduction(s, mode) = after[Len(s)]
                    /\ \A i \in 1 .. Len(s) : after[i] = CountUnit(mode, after[i - 1], s[i])
<1> DEFINE step == [pair \in UnitSums \X Events |-> CountUnit(mode, pair[1], pair[2])]
           iter == CHOOSE iter : UnitValues(mode, iter, s)
<1>1. /\ step \in [UnitSums \X Events -> UnitSums]
      /\ \A out \in UnitSums, e \in Events : step[out, e] = CountUnit(mode, out, e)
  BY UnitTypes
<1>2. UnitValues(mode, iter, s)
  <2> HIDE DEF step
  <2>1. NoUnits \in UnitSums
    BY UnitTypes
  <2>2. PICK run : IsRun(run, NoUnits, step, s, UnitSums, Events)
    BY <1>1, <2>1, FoldRun
  <2>3. \A t \in SUBSET DOMAIN s :
          run[t] = IF t = {} THEN NoUnits ELSE CountUnit(mode, run[t \ {Max(t)}], s[Max(t)])
    BY <1>1, <2>2 DEF IsRun
  <2>4. UnitValues(mode, run, s)
    BY Zenon, <2>2, <2>3 DEF UnitValues, IsRun
  <2> QED BY <2>4
<1>3. buildUnitProduction(s, mode) = iter[DOMAIN s]
  BY Zenon DEF buildUnitProduction, NoUnits, FoldLeft, MapThenFoldSet, UnitValues, CountUnit
<1> HIDE DEF iter, step
<1>4. \A t \in SUBSET DOMAIN s :
        iter[t] = IF t = {} THEN NoUnits ELSE CountUnit(mode, iter[t \ {Max(t)}], s[Max(t)])
  BY <1>2 DEF UnitValues
<1>5. iter[{}] = NoUnits /\ \A i \in 1 .. Len(s) : iter[1 .. i] = CountUnit(mode, iter[1 .. i - 1], s[i])
  BY <1>4, PrefixSets
<1> QED BY <1>3, <1>5, Iterates

SpendValues(iter, s) ==
  iter = [t \in SUBSET DOMAIN s |->
            IF t = {} THEN NoSpend ELSE SpendOn(iter[t \ {Max(t)}], s[Max(t)])]

LEMMA SpendRun ==
  ASSUME NEW s \in Seq(Events)
  PROVE  \E after : /\ after[0] = NoSpend /\ buildResourceSpend(s) = after[Len(s)]
                    /\ \A i \in 1 .. Len(s) : after[i] = SpendOn(after[i - 1], s[i])
<1> DEFINE step == [pair \in SpendSums \X Events |-> SpendOn(pair[1], pair[2])]
           iter == CHOOSE iter : SpendValues(iter, s)
<1>1. /\ step \in [SpendSums \X Events -> SpendSums]
      /\ \A out \in SpendSums, e \in Events : step[out, e] = SpendOn(out, e)
  BY SpendTypes
<1>2. SpendValues(iter, s)
  <2> HIDE DEF step
  <2>1. NoSpend \in SpendSums
    BY SpendTypes
  <2>2. PICK run : IsRun(run, NoSpend, step, s, SpendSums, Events)
    BY <1>1, <2>1, FoldRun
  <2>3. \A t \in SUBSET DOMAIN s :
          run[t] = IF t = {} THEN NoSpend ELSE SpendOn(run[t \ {Max(t)}], s[Max(t)])
    BY <1>1, <2>2 DEF IsRun
  <2>4. SpendValues(run, s)
    BY Zenon, <2>2, <2>3 DEF SpendValues, IsRun
  <2> QED BY <2>4
<1>3. buildResourceSpend(s) = iter[DOMAIN s]
  BY Zenon DEF buildResourceSpend, NoSpend, FoldLeft, MapThenFoldSet, SpendValues, SpendOn
<1> HIDE DEF iter, step
<1>4. \A t \in SUBSET DOMAIN s :
        iter[t] = IF t = {} THEN NoSpend ELSE SpendOn(iter[t \ {Max(t)}], s[Max(t)])
  BY <1>2 DEF SpendValues
<1>5. iter[{}] = NoSpend /\ \A i \in 1 .. Len(s) : iter[1 .. i] = SpendOn(iter[1 .. i - 1], s[i])
  BY <1>4, PrefixSets
<1> QED BY <1>3, <1>5, Iterates

TechValues(iter, s) ==
  iter = [t \in SUBSET DOMAIN s |->
            IF t = {} THEN NoTech ELSE NoteTech(iter[t \ {Max(t)}], s[Max(t)])]

LEMMA TechRun ==
  ASSUME NEW s \in Seq(Events)
  PROVE  \E after : /\ after[0] = NoTech /\ buildTechTree(s) = after[Len(s)]
                    /\ \A i \in 1 .. Len(s) : after[i] = NoteTech(after[i - 1], s[i])
<1> DEFINE step == [pair \in TechSums \X Events |-> NoteTech(pair[1], pair[2])]
           iter == CHOOSE iter : TechValues(iter, s)
<1>1. /\ step \in [TechSums \X Events -> TechSums]
      /\ \A out \in TechSums, e \in Events : step[out, e] = NoteTech(out, e)
  BY TechTypes
<1>2. TechValues(iter, s)
  <2> HIDE DEF step
  <2>1. NoTech \in TechSums
    BY TechTypes
  <2>2. PICK run : IsRun(run, NoTech, step, s, TechSums, Events)
    BY <1>1, <2>1, FoldRun
  <2>3. \A t \in SUBSET DOMAIN s :
          run[t] = IF t = {} THEN NoTech ELSE NoteTech(run[t \ {Max(t)}], s[Max(t)])
    BY <1>1, <2>2 DEF IsRun
  <2>4. TechValues(run, s)
    BY Zenon, <2>2, <2>3 DEF TechValues, IsRun
  <2> QED BY <2>4
<1>3. buildTechTree(s) = iter[DOMAIN s]
  BY Zenon DEF buildTechTree, NoTech, TechKinds, FoldLeft, MapThenFoldSet, TechValues, NoteTech
<1> HIDE DEF iter, step
<1>4. \A t \in SUBSET DOMAIN s :
        iter[t] = IF t = {} THEN NoTech ELSE NoteTech(iter[t \ {Max(t)}], s[Max(t)])
  BY <1>2 DEF TechValues
<1>5. iter[{}] = NoTech /\ \A i \in 1 .. Len(s) : iter[1 .. i] = NoteTech(iter[1 .. i - 1], s[i])
  BY <1>4, PrefixSets
<1> QED BY <1>3, <1>5, Iterates

LEMMA FewAreFinite == IsFiniteSet(Categories) /\ IsFiniteSet(TechKinds)
<1>1. \A a, b, c, d : IsFiniteSet({a, b, c, d})
  <2> TAKE a, b, c, d
  <2>1. IsFiniteSet({a})
    BY FS_Singleton
  <2>2. IsFiniteSet({a} \cup {b})
    BY <2>1, FS_AddElement
  <2>3. IsFiniteSet({a} \cup {b} \cup {c})
    BY <2>2, FS_AddElement
  <2>4. IsFiniteSet({a} \cup {b} \cup {c} \cup {d})
    BY <2>3, FS_AddElement
  <2>5. {a} \cup {b} \cup {c} \cup {d} = {a, b, c, d}
    OBVIOUS
  <2> QED BY <2>4, <2>5
<1> QED BY <1>1 DEF Categories, TechKinds

\* What the numbers of a chart of units have in common after every event.
UnitsAddUp(sum) ==
  /\ sum.total \in Int /\ sum.worker \in Int /\ sum.tech \in Int /\ sum.army \in Int
  /\ sum.worker + sum.tech + sum.army = sum.total
  /\ IsCounter(sum.byUnit) /\ SumFunction(sum.byUnit) = sum.total
  /\ IsCounter(sum.timeline) /\ SumFunction(sum.timeline) = sum.total /\ DOMAIN sum.timeline \subseteq Nat

LEMMA UnitsStillAddUp ==
  ASSUME NEW sum, UnitsAddUp(sum), NEW mode, NEW e \in Events
  PROVE  UnitsAddUp(CountUnit(mode, sum, e))
<1>1. CASE ~classifyProductionEvent(e, mode)
  BY <1>1 DEF CountUnit
<1>2. CASE classifyProductionEvent(e, mode)
  <2> DEFINE next == CountUnit(mode, sum, e)
             worker == isWorkerUnit(e.item)
             tech == ~isWorkerUnit(e.item) /\ isTechUnit(e.item)
             n == CountOf(e)
  <2>1. n \in Int /\ WindowGain(e) = n /\ Window(e) \in Nat
    BY EventNumbers
  <2>2. /\ next.total = sum.total + n
        /\ next.worker = sum.worker + (IF worker THEN n ELSE 0)
        /\ next.tech = sum.tech + (IF tech THEN n ELSE 0)
        /\ next.army = sum.army + (IF worker \/ isTechUnit(e.item) THEN 0 ELSE n)
        /\ next.byUnit = Add(sum.byUnit, e.item, n)
        /\ next.timeline = Add(sum.timeline, Window(e), n)
    BY <1>2, <2>1 DEF CountUnit
  <2> HIDE DEF next, n
  <2>3. /\ next.total \in Int /\ next.worker \in Int /\ next.tech \in Int /\ next.army \in Int
        /\ next.worker + next.tech + next.army = next.total
    <3>1. /\ sum.total \in Int /\ sum.worker \in Int /\ sum.tech \in Int /\ sum.army \in Int
          /\ sum.worker + sum.tech + sum.army = sum.total
      BY DEF UnitsAddUp
    <3>2. CASE worker
      BY <2>1, <2>2, <3>1, <3>2
    <3>3. CASE tech
      BY <2>1, <2>2, <3>1, <3>3
    <3>4. CASE ~worker /\ ~isTechUnit(e.item)
      BY <2>1, <2>2, <3>1, <3>4
    <3> QED BY <3>2, <3>3, <3>4
  <2>4. IsCounter(next.byUnit) /\ SumFunction(next.byUnit) = next.total
    <3>1. IsCounter(sum.byUnit) /\ SumFunction(sum.byUnit) = sum.total
      BY DEF UnitsAddUp
    <3>2. AddFacts(sum.byUnit, e.item, n)
      BY <2>1, <3>1, SumOfAdd
    <3> QED BY <2>2, <3>1, <3>2 DEF AddFacts
  <2>5. IsCounter(next.timeline) /\ SumFunction(next.timeline) = next.total /\ DOMAIN next.timeline \subseteq Nat
    <3>1. IsCounter(sum.timeline) /\ SumFunction(sum.timeline) = sum.total /\ DOMAIN sum.timeline \subseteq Nat
      BY DEF UnitsAddUp
    <3>2. /\ IsCounter(next.timeline) /\ SumFunction(next.timeline) = next.total
          /\ DOMAIN next.timeline = DOMAIN sum.timeline \cup {Window(e)}
      <4>1. AddFacts(sum.timeline, Window(e), n)
        BY <2>1, <3>1, SumOfAdd
      <4> QED BY <2>2, <3>1, <4>1 DEF AddFacts
    <3> QED BY <2>1, <3>1, <3>2
  <2>6. UnitsAddUp(next)
    BY <2>3, <2>4, <2>5 DEF UnitsAddUp
  <2> QED BY <2>6 DEF next
<1> QED BY <1>1, <1>2

LEMMA ChartOfUnitsAddsUp ==
  ASSUME NEW s \in Seq(Events), NEW mode
  PROVE  UnitsAddUp(buildUnitProduction(s, mode))
<1>1. PICK after : /\ after[0] = NoUnits /\ buildUnitProduction(s, mode) = after[Len(s)]
                   /\ \A i \in 1 .. Len(s) : after[i] = CountUnit(mode, after[i - 1], s[i])
  BY UnitRun
<1> DEFINE Bad == {i \in 0 .. Len(s) : ~UnitsAddUp(after[i])}
<1>2. Len(s) \in Nat /\ Bad \in SUBSET (0 .. Len(s))
  OBVIOUS
<1>3. 0 \notin Bad
  <2>1. /\ IsCounter(Nothing) /\ SumFunction(Nothing) = 0 /\ DOMAIN Nothing = {}
    BY NothingIsCounter
  <2>2. UnitsAddUp(NoUnits)
    BY <2>1 DEF UnitsAddUp, NoUnits
  <2> QED BY <1>1, <2>2
<1>4. ASSUME NEW i \in 1 .. Len(s), i - 1 \notin Bad PROVE i \notin Bad
  <2>1. UnitsAddUp(after[i - 1]) /\ s[i] \in Events
    BY <1>4, ElementOfSeq
  <2> QED BY <1>1, <2>1, UnitsStillAddUp
<1>5. Bad = {}
  <2> HIDE DEF Bad
  <2> QED BY <1>2, <1>3, <1>4, UpTo
<1> QED BY <1>1, <1>2, <1>5

SpendAddsUp(sum) ==
  /\ sum.mineral \in Int /\ sum.gas \in Int
  /\ IsCounter(sum.byCategory) /\ SumFunction(sum.byCategory) = sum.mineral + sum.gas
  /\ IsCounter(sum.timeline) /\ SumFunction(sum.timeline) = sum.mineral + sum.gas
  /\ DOMAIN sum.timeline \subseteq Nat

LEMMA SpendStillAddsUp ==
  ASSUME NEW sum, SpendAddsUp(sum), NEW e \in Events
  PROVE  SpendAddsUp(SpendOn(sum, e))
<1>1. CASE classifySpendEvent(e) = ""
  BY <1>1 DEF SpendOn
<1>2. CASE classifySpendEvent(e) # ""
  <2> DEFINE next == SpendOn(sum, e)
             m == costOf(e.item)[1] * Charge(e)
             g == costOf(e.item)[2] * Charge(e)
  <2>1. m \in Int /\ g \in Int /\ Spent(e) = m + g /\ Spent(e) \in Int /\ Window(e) \in Nat
    BY EventNumbers
  <2>2. /\ next.mineral = sum.mineral + m /\ next.gas = sum.gas + g
        /\ next.byCategory = Add(sum.byCategory, classifySpendEvent(e), Spent(e))
        /\ next.timeline = Add(sum.timeline, Window(e), Spent(e))
    BY <1>2 DEF SpendOn
  <2> HIDE DEF next, m, g
  <2>3. /\ sum.mineral \in Int /\ sum.gas \in Int
        /\ IsCounter(sum.byCategory) /\ SumFunction(sum.byCategory) = sum.mineral + sum.gas
        /\ IsCounter(sum.timeline) /\ SumFunction(sum.timeline) = sum.mineral + sum.gas
        /\ DOMAIN sum.timeline \subseteq Nat
    BY DEF SpendAddsUp
  <2>4. next.mineral \in Int /\ next.gas \in Int
        /\ next.mineral + next.gas = sum.mineral + sum.gas + Spent(e)
    BY <2>1, <2>2, <2>3
  <2>5. IsCounter(next.byCategory) /\ SumFunction(next.byCategory) = next.mineral + next.gas
    <3>1. AddFacts(sum.byCategory, classifySpendEvent(e), Spent(e))
      BY <2>1, <2>3, SumOfAdd
    <3> QED BY <2>2, <2>3, <2>4, <3>1 DEF AddFacts
  <2>6. /\ IsCounter(next.timeline) /\ SumFunction(next.timeline) = next.mineral + next.gas
        /\ DOMAIN next.timeline = DOMAIN sum.timeline \cup {Window(e)}
    <3>1. AddFacts(sum.timeline, Window(e), Spent(e))
      BY <2>1, <2>3, SumOfAdd
    <3> QED BY <2>2, <2>3, <2>4, <3>1 DEF AddFacts
  <2>7. SpendAddsUp(next)
    BY <2>1, <2>3, <2>4, <2>5, <2>6 DEF SpendAddsUp
  <2> QED BY <2>7 DEF next
<1> QED BY <1>1, <1>2

LEMMA ChartOfSpendAddsUp ==
  ASSUME NEW s \in Seq(Events)
  PROVE  SpendAddsUp(buildResourceSpend(s))
<1>1. PICK after : /\ after[0] = NoSpend /\ buildResourceSpend(s) = after[Len(s)]
                   /\ \A i \in 1 .. Len(s) : after[i] = SpendOn(after[i - 1], s[i])
  BY SpendRun
<1> DEFINE Bad == {i \in 0 .. Len(s) : ~SpendAddsUp(after[i])}
<1>2. Len(s) \in Nat /\ Bad \in SUBSET (0 .. Len(s))
  OBVIOUS
<1>3. 0 \notin Bad
  <2>1. /\ IsCounter(Nothing) /\ SumFunction(Nothing) = 0 /\ DOMAIN Nothing = {}
    BY NothingIsCounter
  <2> DEFINE zero == [c \in Categories |-> 0]
  <2>2. IsFiniteSet(Categories) /\ \A c \in Categories : zero[c] = 0
    BY FewAreFinite
  <2>3. IsCounter(zero) /\ SumFunction(zero) = 0
    <3>1. IsCounter(zero)
      BY <2>2 DEF IsCounter
    <3>2. SumFunctionOnSet(zero, Categories) = 0
      <4>1. \A c \in Categories \ {} : zero[c] >= 0 /\ zero[c] \in Int
        BY <2>2
      <4> HIDE DEF zero
      <4>2. SumFunctionOnSet(zero, {}) = SumFunctionOnSet(zero, Categories)
        BY <2>2, <4>1, SumOfSubset
      <4>3. SumFunctionOnSet(zero, {}) = 0
        BY SumOfSet, FS_EmptySet
      <4> QED BY <4>2, <4>3
    <3> QED BY <3>1, <3>2 DEF SumFunction
  <2>4. SpendAddsUp(NoSpend)
    <3> HIDE DEF zero
    <3>1. NoSpend.byCategory = zero /\ NoSpend.mineral = 0 /\ NoSpend.gas = 0 /\ NoSpend.timeline = Nothing
      BY DEF NoSpend, zero
    <3> QED BY <2>1, <2>3, <3>1 DEF SpendAddsUp
  <2> QED BY <1>1, <2>4
<1>4. ASSUME NEW i \in 1 .. Len(s), i - 1 \notin Bad PROVE i \notin Bad
  <2>1. SpendAddsUp(after[i - 1]) /\ s[i] \in Events
    BY <1>4, ElementOfSeq
  <2> QED BY <1>1, <2>1, SpendStillAddsUp
<1>5. Bad = {}
  <2> HIDE DEF Bad
  <2> QED BY <1>2, <1>3, <1>4, UpTo
<1> QED BY <1>1, <1>2, <1>5

\* No more commands of a technology were ineffective than there were.
TechAddsUp(sum) ==
  /\ IsCounter(sum.counts) /\ DOMAIN sum.counts = TechKinds /\ sum.ineff \in Int
  /\ sum.ineff <= SumFunction(sum.counts) /\ SumFunction(sum.counts) \in Int

LEMMA TechStillAddsUp ==
  ASSUME NEW sum, TechAddsUp(sum), NEW e \in Events
  PROVE  TechAddsUp(NoteTech(sum, e))
<1> DEFINE kind == classifyTechTreeEvent(e)
           next == NoteTech(sum, e)
           n == CountOf(e)
<1>1. CASE kind = ""
  BY <1>1 DEF NoteTech
<1>2. CASE kind # ""
  <2>1. kind \in TechKinds /\ n \in Nat
    BY <1>2, TechClass, EventNumbers
  <2>2. /\ next.counts = [sum.counts EXCEPT ![kind] = @ + n]
        /\ next.ineff = sum.ineff + (IF TechStatus(e) = "inefficient" THEN n ELSE 0)
    BY <1>2 DEF NoteTech
  <2>3. /\ IsCounter(sum.counts) /\ DOMAIN sum.counts = TechKinds /\ sum.ineff \in Int
        /\ sum.ineff <= SumFunction(sum.counts) /\ SumFunction(sum.counts) \in Int
    BY DEF TechAddsUp
  <2> HIDE DEF kind, next, n
  <2>4. next.counts = Add(sum.counts, kind, n)
    <3>1. DOMAIN sum.counts \cup {kind} = TechKinds
      BY <2>1, <2>3
    <3>2. sum.counts = [x \in TechKinds |-> sum.counts[x]] /\ \A x \in TechKinds : sum.counts[x] \in Int
      BY <2>3 DEF IsCounter
    <3>3. [sum.counts EXCEPT ![kind] = @ + n]
            = [x \in TechKinds |-> IF x = kind THEN sum.counts[x] + n ELSE sum.counts[x]]
      BY <2>1, <3>2
    <3>4. Add(sum.counts, kind, n) = [x \in TechKinds |-> sum.counts[x] + (IF x = kind THEN n ELSE 0)]
      BY <2>3, <3>1 DEF Add
    <3>5. \A x \in TechKinds : (IF x = kind THEN sum.counts[x] + n ELSE sum.counts[x])
                                 = sum.counts[x] + (IF x = kind THEN n ELSE 0)
      BY <2>1, <3>2
    <3> QED BY <2>2, <3>3, <3>4, <3>5
  <2>5. /\ IsCounter(next.counts) /\ DOMAIN next.counts = TechKinds
        /\ SumFunction(next.counts) = SumFunction(sum.counts) + n
    <3>1. AddFacts(sum.counts, kind, n)
      BY <2>1, <2>3, SumOfAdd
    <3>2. TechKinds \cup {kind} = TechKinds
      BY <2>1
    <3> QED BY <2>3, <2>4, <3>1, <3>2 DEF AddFacts
  <2>6. TechAddsUp(next)
    BY <2>1, <2>2, <2>3, <2>5 DEF TechAddsUp
  <2> QED BY <2>6 DEF next
<1> QED BY <1>1, <1>2

LEMMA ChartOfTechAddsUp ==
  ASSUME NEW s \in Seq(Events)
  PROVE  TechAddsUp(buildTechTree(s))
<1>1. PICK after : /\ after[0] = NoTech /\ buildTechTree(s) = after[Len(s)]
                   /\ \A i \in 1 .. Len(s) : after[i] = NoteTech(after[i - 1], s[i])
  BY TechRun
<1> DEFINE Bad == {i \in 0 .. Len(s) : ~TechAddsUp(after[i])}
<1>2. Len(s) \in Nat /\ Bad \in SUBSET (0 .. Len(s))
  OBVIOUS
<1>3. 0 \notin Bad
  <2> DEFINE zero == [k \in TechKinds |-> 0]
  <2>2. IsFiniteSet(TechKinds) /\ \A c \in TechKinds : zero[c] = 0
    BY FewAreFinite
  <2>3. IsCounter(zero) /\ SumFunction(zero) = 0 /\ DOMAIN zero = TechKinds
    <3>1. IsCounter(zero)
      BY <2>2 DEF IsCounter
    <3>2. SumFunctionOnSet(zero, TechKinds) = 0
      <4>1. \A c \in TechKinds \ {} : zero[c] >= 0 /\ zero[c] \in Int
        BY <2>2
      <4> HIDE DEF zero
      <4>2. SumFunctionOnSet(zero, {}) = SumFunctionOnSet(zero, TechKinds)
        BY <2>2, <4>1, SumOfSubset
      <4>3. SumFunctionOnSet(zero, {}) = 0
        BY SumOfSet, FS_EmptySet
      <4> QED BY <4>2, <4>3
    <3> QED BY <3>1, <3>2 DEF SumFunction
  <2>4. TechAddsUp(NoTech)
    <3> HIDE DEF zero
    <3>1. NoTech.counts = zero /\ NoTech.ineff = 0
      BY DEF NoTech, zero
    <3> QED BY <2>3, <3>1 DEF TechAddsUp
  <2> QED BY <1>1, <2>4
<1>4. ASSUME NEW i \in 1 .. Len(s), i - 1 \notin Bad PROVE i \notin Bad
  <2>1. TechAddsUp(after[i - 1]) /\ s[i] \in Events
    BY <1>4, ElementOfSeq
  <2> QED BY <1>1, <2>1, TechStillAddsUp
<1>5. Bad = {}
  <2> HIDE DEF Bad
  <2> QED BY <1>2, <1>3, <1>4, UpTo
<1> QED BY <1>1, <1>2, <1>5

-----------------------------------------------------------------------------
(* The recording. *)

\* Commands are recorded in the order of their frames.
InFrameOrder(s) == \A i, j \in 1 .. Len(s) : i < j => s[i].frame <= s[j].frame

RecordingInv == commands \in Seq(Recorded) /\ InFrameOrder(commands)

LEMMA RecordingStarts == ChartsInit => RecordingInv
BY DEF ChartsInit, RecordingInv, InFrameOrder

LEMMA LastFrameFacts ==
  ASSUME RecordingInv
  PROVE  LastFrame \in Nat /\ \A i \in 1 .. Len(commands) : commands[i].frame \in 0 .. LastFrame
<1>1. \A i \in 1 .. Len(commands) : commands[i].frame \in Nat
  <2>1. \A i \in 1 .. Len(commands) : commands[i] \in Recorded
    BY ElementOfSeq DEF RecordingInv
  <2> QED BY <2>1 DEF Recorded
<1>2. CASE commands = <<>>
  BY <1>2 DEF LastFrame
<1>3. CASE commands # <<>>
  <2>1. Last(commands) = commands[Len(commands)] /\ Len(commands) \in Nat \ {0}
    BY <1>3, FrontFacts DEF RecordingInv
  <2>2. Len(commands) \in 1 .. Len(commands) /\ LastFrame = commands[Len(commands)].frame
    BY <1>3, <2>1 DEF LastFrame
  <2>3. ASSUME NEW i \in 1 .. Len(commands) PROVE commands[i].frame <= commands[Len(commands)].frame
    <3>1. i = Len(commands) \/ i < Len(commands)
      BY <2>1
    <3> QED BY <1>1, <2>2, <3>1 DEF RecordingInv, InFrameOrder
  <2> QED BY <1>1, <2>2, <2>3
<1> QED BY <1>2, <1>3

LEMMA AppendInOrder ==
  ASSUME NEW E, NEW s \in Seq(E), NEW e \in E, InFrameOrder(s),
         \A i \in 1 .. Len(s) : s[i].frame <= e.frame
  PROVE  InFrameOrder(Append(s, e))
<1> DEFINE n == Len(s)
           t == Append(s, e)
<1>1. /\ n \in Nat /\ Len(t) = n + 1 /\ t[n + 1] = e
      /\ \A k \in 1 .. n : t[k] = s[k]
  BY AppendProperties
<1> HIDE DEF n, t
<1>2. ASSUME NEW i \in 1 .. n + 1, NEW j \in 1 .. n + 1, i < j PROVE t[i].frame <= t[j].frame
  <2>1. i \in 1 .. n /\ (j \in 1 .. n \/ j = n + 1)
    BY <1>1, <1>2
  <2> QED BY <1>1, <1>2, <2>1 DEF InFrameOrder, n
<1>3. InFrameOrder(t)
  BY <1>1, <1>2 DEF InFrameOrder
<1> QED BY <1>3 DEF t

LEMMA RecordingGrows == RecordingInv /\ [ChartsNext]_commands => RecordingInv'
<1> SUFFICES ASSUME RecordingInv, [ChartsNext]_commands PROVE RecordingInv'
  OBVIOUS
<1>1. CASE UNCHANGED commands
  BY <1>1 DEF RecordingInv
<1>2. CASE ChartsNext
  <2>1. PICK c \in Commands, g \in Gaps :
          commands' = Append(commands, [pid |-> c.pid, frame |-> LastFrame + g, type |-> c.type,
                                        item |-> c.item, effective |-> c.effective])
    BY <1>2 DEF ChartsNext, RecordCommand
  <2> DEFINE e == [pid |-> c.pid, frame |-> LastFrame + g, type |-> c.type,
                   item |-> c.item, effective |-> c.effective]
  <2>2. g \in Nat /\ c.effective \in BOOLEAN
    BY CommandsAssumption
  <2>3. LastFrame + g \in Nat /\ LastFrame \in Nat
    BY <2>2, LastFrameFacts
  <2>4. e \in Recorded
    BY <2>2, <2>3 DEF Recorded, Items
  <2>5. \A i \in 1 .. Len(commands) : commands[i].frame <= e.frame
    BY <2>2, <2>3, LastFrameFacts
  <2>6. InFrameOrder(Append(commands, e)) /\ Append(commands, e) \in Seq(Recorded)
    <3> HIDE DEF e
    <3> QED BY <2>4, <2>5, AppendInOrder DEF RecordingInv
  <2> QED BY <2>1, <2>6 DEF RecordingInv
<1> QED BY <1>1, <1>2

-----------------------------------------------------------------------------
(* The windows of the APM timeline cut the commands of a player. *)

LEMMA SumOfSizes ==
  ASSUME NEW S, NEW part, NEW f, IsCut(S, part), \A x \in S : f[x] = Cardinality(part[x])
  PROVE  SumFunctionOnSet(f, S) = Cardinality(Pieces(part, S))
<1> DEFINE Wrong == {U \in SUBSET S : SumFunctionOnSet(f, U) # Cardinality(Pieces(part, U))}
<1>0. IsFiniteSet(S) /\ \A x \in S : f[x] \in Int
  <2>1. \A x \in S : Cardinality(part[x]) \in Int
    BY FS_CardinalityType DEF IsCut
  <2> QED BY <2>1 DEF IsCut
<1>1. SUFFICES ASSUME Wrong # {} PROVE FALSE
  OBVIOUS
<1>2. PICK U \in Wrong : \A V \in Wrong : V \subseteq U => V = U
  <2>1. Wrong \in SUBSET SUBSET S
    OBVIOUS
  <2> HIDE DEF Wrong
  <2> QED BY <1>0, <1>1, <2>1, SmallestSet
<1>3. IsFiniteSet(U) /\ \A x \in U : f[x] \in Int
  BY <1>0, FS_Subset
<1>4. PICK x : x \in U
  BY <1>3, SumOfSet, NoPieces
<1>5. U \ {x} \notin Wrong
  BY <1>2, <1>4
<1>6. SumFunctionOnSet(f, U) = f[x] + SumFunctionOnSet(f, U \ {x})
  BY <1>3, <1>4, SumOfSet
<1>7. Cardinality(Pieces(part, U)) = Cardinality(part[x]) + Cardinality(Pieces(part, U \ {x}))
  BY <1>4, OnePieceMore
<1> QED BY <1>4, <1>5, <1>6, <1>7

LEMMA WindowOfFrame ==
  ASSUME NEW total \in Nat, NEW frame \in 0 .. total
  PROVE  frame \div windowFrames \in 0 .. numWindows(total) - 1
<1>1. \A a, b \in Nat : a <= b => a \div 238 \in Nat /\ a \div 238 <= b \div 238 /\ b \div 238 \in Nat
  OBVIOUS
<1>2. frame \div 238 \in Nat /\ frame \div 238 <= total \div 238 /\ total \div 238 \in Nat
  BY <1>1
<1> QED BY <1>2 DEF windowFrames, numWindows

LEMMA RecordingGivesApm == ASSUME RecordingInv PROVE ApmCountsEveryCommand
<1> DEFINE timeline == buildAPMTimeline(commands, LastFrame)
           W == 0 .. numWindows(LastFrame) - 1
<1>1. SUFFICES ASSUME NEW p \in DOMAIN timeline
      PROVE  SumFunction(timeline[p]) = Cardinality({i \in DOMAIN commands : commands[i].pid = p})
  BY DEF ApmCountsEveryCommand
<1> DEFINE In == [w \in W |-> {i \in DOMAIN commands : commands[i].pid = p
                                                        /\ commands[i].frame \div windowFrames = w}]
<1>2. /\ timeline[p] = [w \in W |-> Cardinality(In[w])]
  <2>1. LastFrame # 0
    BY DEF buildAPMTimeline
  <2>2. p \in {q \in Pids : \E i \in DOMAIN commands : commands[i].pid = q}
    BY <2>1 DEF buildAPMTimeline
  <2> QED BY <2>1, <2>2 DEF buildAPMTimeline
<1>3. IsFiniteSet(DOMAIN commands) /\ IsFiniteSet(W) /\ DOMAIN commands = 1 .. Len(commands)
  <2>1. Len(commands) \in Nat /\ DOMAIN commands = 1 .. Len(commands)
    BY DEF RecordingInv
  <2>2. numWindows(LastFrame) - 1 \in Int
    BY LastFrameFacts DEF numWindows, windowFrames
  <2> QED BY <2>1, <2>2, FS_Interval
<1>4. IsCut(W, In)
  <2>1. ASSUME NEW w \in W PROVE IsFiniteSet(In[w])
    <3>1. In[w] \in SUBSET DOMAIN commands
      OBVIOUS
    <3> HIDE DEF In
    <3> QED BY <1>3, <3>1, FS_Subset
  <2>2. \A x, y \in W : x # y => In[x] \cap In[y] = {}
    OBVIOUS
  <2> HIDE DEF W, In
  <2> QED BY <1>3, <2>1, <2>2 DEF IsCut
<1>5. Pieces(In, W) = {i \in DOMAIN commands : commands[i].pid = p}
  <2>1. ASSUME NEW i \in DOMAIN commands PROVE commands[i].frame \div windowFrames \in W
    <3>1. commands[i].frame \in 0 .. LastFrame /\ LastFrame \in Nat
      BY <1>3, LastFrameFacts
    <3> QED BY <3>1, WindowOfFrame
  <2> HIDE DEF W
  <2> QED BY <2>1 DEF Pieces
<1> HIDE DEF In, W, timeline
<1>6. SumFunctionOnSet(timeline[p], W) = Cardinality(Pieces(In, W))
  BY <1>2, <1>4, SumOfSizes
<1>7. DOMAIN timeline[p] = W
  BY <1>2
<1> QED BY <1>5, <1>6, <1>7 DEF SumFunction

-----------------------------------------------------------------------------
(* The raw build orders. *)

LEMMA ByFrameOfSorted ==
  ASSUME NEW E, NEW s \in Seq(E), InFrameOrder(s), \A i \in 1 .. Len(s) : s[i].frame \in Nat
  PROVE  ByFrame(s) = s
<1> DEFINE Earlier(i) == {j \in DOMAIN s : s[j].frame < s[i].frame \/ (s[j].frame = s[i].frame /\ j <= i)}
<1>1. DOMAIN s = 1 .. Len(s) /\ Len(s) \in Nat
  OBVIOUS
<1>2. ASSUME NEW i \in 1 .. Len(s) PROVE Earlier(i) = 1 .. i
  <2>1. ASSUME NEW j \in 1 .. Len(s)
        PROVE  (s[j].frame < s[i].frame \/ (s[j].frame = s[i].frame /\ j <= i)) <=> j <= i
    <3>1. s[i].frame \in Nat /\ s[j].frame \in Nat
      OBVIOUS
    <3>2. CASE j < i
      <4>1. s[j].frame <= s[i].frame
        BY <3>2 DEF InFrameOrder
      <4> QED BY <3>1, <3>2, <4>1
    <3>3. CASE i < j
      <4>1. s[i].frame <= s[j].frame
        BY <3>3 DEF InFrameOrder
      <4> QED BY <3>1, <3>3, <4>1
    <3>4. CASE i = j
      BY <3>4
    <3> QED BY <3>2, <3>3, <3>4
  <2>2. Earlier(i) = {j \in 1 .. Len(s) : j <= i}
    BY <1>1, <2>1
  <2>3. {j \in 1 .. Len(s) : j <= i} = 1 .. i
    BY <1>1
  <2> QED BY <2>2, <2>3
<1>3. \A i \in 1 .. Len(s) : Cardinality(Earlier(i)) = i
  <2>1. \A i \in 1 .. Len(s) : Cardinality(1 .. i) = i
    BY FS_Interval
  <2> HIDE DEF Earlier
  <2> QED BY <1>2, <2>1
<1> HIDE DEF Earlier
<1>4. \A k \in 1 .. Len(s) : (CHOOSE i \in DOMAIN s : Cardinality(Earlier(i)) = k) = k
  BY <1>1, <1>3
<1>5. ByFrame(s) = [k \in DOMAIN s |-> s[CHOOSE i \in DOMAIN s : Cardinality(Earlier(i)) = k]]
  BY Zenon DEF ByFrame, Earlier
<1>6. ByFrame(s) = [k \in DOMAIN s |-> s[k]]
  BY <1>1, <1>4, <1>5
<1> QED BY <1>6

LEMMA OrderFacts ==
  ASSUME RecordingInv, NEW p
  PROVE  OrderOf(p, commands) \in Seq(Single) /\ InFrameOrder(OrderOf(p, commands))
<1> DEFINE n == Len(commands)
<1>1. commands \in Seq(Recorded) /\ n \in Nat /\ \A i \in 1 .. n : commands[i] \in Recorded
  BY ElementOfSeq DEF RecordingInv
<1>2. PICK after : /\ after[0] = <<>> /\ OrderOf(p, commands) = after[n]
                   /\ \A i \in 1 .. n : after[i] = TakeEvent(p, after[i - 1], commands[i])
  BY <1>1, TakeRun
<1> DEFINE Good(i) == /\ after[i] \in Seq(Single) /\ InFrameOrder(after[i])
                      /\ \A j \in i + 1 .. n, k \in 1 .. Len(after[i]) : after[i][k].frame <= commands[j].frame
           Bad == {i \in 0 .. n : ~Good(i)}
<1>3. Good(0)
  BY <1>2 DEF InFrameOrder
<1>4. ASSUME NEW i \in 1 .. n, Good(i - 1) PROVE Good(i)
  <2> DEFINE c == commands[i]
             e == commandToBuildEvent(c)
             out == after[i - 1]
  <2>1. CASE after[i] = out
    <3>1. \A j \in i + 1 .. n : j \in (i - 1) + 1 .. n
      BY <1>1
    <3> QED BY <1>4, <2>1, <3>1
  <2>2. CASE IsBuildEvent(c) /\ after[i] = Append(out, e)
    <3>1. e \in Single /\ e.frame = c.frame /\ c.frame \in Nat /\ out \in Seq(Single)
      BY <1>1, <1>4, <2>2, EventOfCommand DEF commandToBuildEvent, Recorded
    <3>2. i \in (i - 1) + 1 .. n
      BY <1>1
    <3>3. \A k \in 1 .. Len(out) : out[k].frame <= e.frame
      BY <1>4, <3>1, <3>2
    <3> HIDE DEF e
    <3>4. InFrameOrder(Append(out, e))
      BY <1>4, <3>1, <3>3, AppendInOrder
    <3>5. ASSUME NEW j \in i + 1 .. n, NEW k \in 1 .. Len(Append(out, e))
          PROVE  Append(out, e)[k].frame <= commands[j].frame
      <4>1. k \in 1 .. Len(out) \/ k = Len(out) + 1
        BY <3>1, AppendProperties
      <4>2. j \in (i - 1) + 1 .. n /\ j \in 1 .. n /\ i < j
        BY <1>1
      <4>3. CASE k \in 1 .. Len(out)
        <5>1. Append(out, e)[k] = out[k]
          BY <3>1, <4>3, AppendProperties
        <5> QED BY <1>4, <4>2, <4>3, <5>1
      <4>4. CASE k = Len(out) + 1
        <5>1. Append(out, e)[k] = e
          BY <3>1, <4>4, AppendProperties
        <5>2. commands[i].frame <= commands[j].frame
          BY <4>2 DEF RecordingInv, InFrameOrder
        <5> QED BY <3>1, <5>1, <5>2
      <4> QED BY <4>1, <4>3, <4>4
    <3>6. Append(out, e) \in Seq(Single)
      BY <3>1
    <3> QED BY <2>2, <3>4, <3>5, <3>6
  <2> QED BY <1>2, <2>1, <2>2 DEF TakeEvent
<1>5. Bad = {}
  <2>1. Bad \in SUBSET (0 .. n) /\ 0 \notin Bad /\ \A i \in 1 .. n : i - 1 \notin Bad => i \notin Bad
    <3> HIDE DEF Good
    <3>1. \A i \in 1 .. n : i - 1 \in 0 .. n
      BY <1>1
    <3> QED BY <1>3, <1>4, <3>1
  <2> HIDE DEF Bad
  <2> QED BY <1>1, <2>1, UpTo
<1>6. Good(n)
  <2> HIDE DEF Good
  <2> QED BY <1>1, <1>5
<1> QED BY <1>2, <1>6

LEMMA RawFacts ==
  ASSUME RecordingInv, NEW p \in DOMAIN RawOrders
  PROVE  /\ RawOrders[p] \in Seq(Single) /\ InFrameOrder(RawOrders[p])
         /\ RawOrders = [q \in DOMAIN RawOrders |-> RawOrders[q]]
<1>1. RawOrders = [q \in {r \in Pids : OrderOf(r, commands) # <<>>} |-> ByFrame(OrderOf(q, commands))]
  BY Zenon DEF RawOrders, extractBuildOrders, OrderOf
<1>2. RawOrders[p] = ByFrame(OrderOf(p, commands))
  BY <1>1
<1>3. OrderOf(p, commands) \in Seq(Single) /\ InFrameOrder(OrderOf(p, commands))
  BY OrderFacts
<1>4. \A i \in 1 .. Len(OrderOf(p, commands)) : OrderOf(p, commands)[i].frame \in Nat
  <2>1. \A i \in 1 .. Len(OrderOf(p, commands)) : OrderOf(p, commands)[i] \in Single
    BY <1>3, ElementOfSeq
  <2> QED BY <2>1 DEF Single, Events
<1>5. ByFrame(OrderOf(p, commands)) = OrderOf(p, commands)
  BY <1>3, <1>4, ByFrameOfSorted
<1> QED BY <1>1, <1>2, <1>3, <1>5

-----------------------------------------------------------------------------
(* The passes before the last leave events out, and only that. *)

LEMMA PassLeavesPart ==
  ASSUME NEW E, NEW s \in Seq(E), NEW after, after[0] = <<>>,
         \A i \in 1 .. Len(s) : \/ after[i] = after[i - 1] \/ after[i] = Append(after[i - 1], s[i])
                                \/ \E k \in 1 .. Len(after[i - 1]) : after[i] = RemoveAt(after[i - 1], k)
  PROVE  after[Len(s)] \in Seq(E) /\ IsPart(after[Len(s)], s)
<1> DEFINE n == Len(s)
           Good(i) == after[i] \in Seq(E) /\ \E P, pos : P \in SUBSET (1 .. i) /\ Picks(pos, after[i], s, P)
           Bad == {i \in 0 .. n : ~Good(i)}
<1>1. n \in Nat
  OBVIOUS
<1>2. Good(0)
  <2>1. <<>> \in Seq(E) /\ {} \in SUBSET (1 .. 0)
    OBVIOUS
  <2>2. Picks(<<>>, <<>>, s, {})
    BY NothingPicked
  <2>3. after[0] = <<>>
    OBVIOUS
  <2> QED BY <2>1, <2>2, <2>3, Zenon
<1>3. ASSUME NEW i \in 1 .. n, Good(i - 1) PROVE Good(i)
  <2> DEFINE out == after[i - 1]
  <2>1. PICK P, pos : P \in SUBSET (1 .. i - 1) /\ Picks(pos, out, s, P)
    BY <1>3
  <2>2. out \in Seq(E) /\ s[i] \in E /\ P \in SUBSET (1 .. i)
    BY <1>3, <2>1, ElementOfSeq
  <2> HIDE DEF out
  <2>3. CASE after[i] = out
    BY <2>1, <2>2, <2>3
  <2>4. CASE after[i] = Append(out, s[i])
    <3>1. Picks(Append(pos, i), Append(out, s[i]), s, P \cup {i})
      BY <2>1, <2>2, PickNext
    <3>2. Append(out, s[i]) \in Seq(E) /\ P \cup {i} \in SUBSET (1 .. i)
      BY <2>2
    <3> QED BY <2>4, <3>1, <3>2
  <2>5. ASSUME NEW k \in 1 .. Len(out), after[i] = RemoveAt(out, k) PROVE Good(i)
    <3>1. Picks(RemoveAt(pos, k), RemoveAt(out, k), s, P \ {pos[k]})
      BY <2>1, <2>2, PickWithout
    <3>2. RemoveAt(out, k) \in Seq(E) /\ P \ {pos[k]} \in SUBSET (1 .. i)
      BY <2>2, RemovedFacts
    <3> QED BY <2>5, <3>1, <3>2
  <2> QED BY <2>3, <2>4, <2>5 DEF out
<1>4. Bad = {}
  <2>1. Bad \in SUBSET (0 .. n) /\ 0 \notin Bad /\ \A i \in 1 .. n : i - 1 \notin Bad => i \notin Bad
    <3> HIDE DEF Good
    <3>1. \A i \in 1 .. n : i - 1 \in 0 .. n
      BY <1>1
    <3> QED BY <1>2, <1>3, <3>1
  <2> HIDE DEF Bad
  <2> QED BY <1>1, <2>1, UpTo
<1>5. Good(n)
  <2> HIDE DEF Good
  <2> QED BY <1>1, <1>4
<1> QED BY <1>5 DEF IsPart

LEMMA FilterLeavesPart ==
  ASSUME NEW E, NEW s \in Seq(E)
  PROVE  filterEffectiveEvents(s) \in Seq(E) /\ IsPart(filterEffectiveEvents(s), s)
<1>1. PICK after : /\ after[0] = <<>> /\ filterEffectiveEvents(s) = after[Len(s)]
                   /\ \A i \in 1 .. Len(s) : after[i] = KeepEffective(after[i - 1], s[i])
  BY FilterRun
<1>2. \A i \in 1 .. Len(s) : after[i] = after[i - 1] \/ after[i] = Append(after[i - 1], s[i])
  BY <1>1 DEF KeepEffective
<1> QED BY <1>1, <1>2, PassLeavesPart

LEMMA DedupLeavesPart ==
  ASSUME NEW E, NEW s \in Seq(E)
  PROVE  dedupShortBurstEvents(s) \in Seq(E) /\ IsPart(dedupShortBurstEvents(s), s)
<1>1. PICK after : /\ after[0] = <<>> /\ dedupShortBurstEvents(s) = after[Len(s)]
                   /\ \A i \in 1 .. Len(s) : after[i] = KeepFirst(after[i - 1], s[i])
  BY DedupRun
<1>2. \A i \in 1 .. Len(s) : after[i] = after[i - 1] \/ after[i] = Append(after[i - 1], s[i])
  BY <1>1 DEF KeepFirst
<1> QED BY <1>1, <1>2, PassLeavesPart

\* What the run of reconcileCancelPairs does with an event.
LEMMA TakeBackSteps ==
  ASSUME NEW E, NEW s \in Seq(E), NEW after, after[0] = <<>>,
         \A i \in 1 .. Len(s) : after[i] = TakeBack(after[i - 1], s[i])
  PROVE  \A i \in 0 .. Len(s) : after[i] \in Seq(E)
<1> DEFINE Bad == {i \in 0 .. Len(s) : after[i] \notin Seq(E)}
<1>1. Len(s) \in Nat /\ Bad \in SUBSET (0 .. Len(s)) /\ 0 \notin Bad
  <2>1. after[0] \in Seq(E)
    <3>1. <<>> \in Seq(E)
      OBVIOUS
    <3> QED BY <3>1
  <2>2. Len(s) \in Nat
    OBVIOUS
  <2>3. Bad \in SUBSET (0 .. Len(s))
    OBVIOUS
  <2> QED BY <2>1, <2>2, <2>3
<1>2. ASSUME NEW i \in 1 .. Len(s), i - 1 \notin Bad PROVE i \notin Bad
  <2>1. after[i - 1] \in Seq(E) /\ s[i] \in E
    BY <1>2, ElementOfSeq
  <2> QED BY <2>1, TakeBackTypes
<1>3. Bad = {}
  <2> HIDE DEF Bad
  <2> QED BY <1>1, <1>2, UpTo
<1> QED BY <1>3

LEMMA ReconcileLeavesPart ==
  ASSUME NEW E, NEW s \in Seq(E)
  PROVE  reconcileCancelPairs(s) \in Seq(E) /\ IsPart(reconcileCancelPairs(s), s)
<1>1. PICK after : /\ after[0] = <<>> /\ reconcileCancelPairs(s) = after[Len(s)]
                   /\ \A i \in 1 .. Len(s) : after[i] = TakeBack(after[i - 1], s[i])
  BY ReconcileRun
<1>2. ASSUME NEW i \in 1 .. Len(s)
      PROVE  \/ after[i] = after[i - 1] \/ after[i] = Append(after[i - 1], s[i])
             \/ \E k \in 1 .. Len(after[i - 1]) : after[i] = RemoveAt(after[i - 1], k)
  <2> DEFINE k == findCancelableEvent(after[i - 1], s[i])
  <2>1. i - 1 \in 0 .. Len(s)
    OBVIOUS
  <2>2. after[i - 1] \in Seq(E)
    BY <1>1, <2>1, TakeBackSteps
  <2>3. k \in 0 .. Len(after[i - 1])
    BY <2>2, FoundIsThere
  <2>4. after[i] = TakeBack(after[i - 1], s[i])
    BY <1>1
  <2>5. \/ after[i] = after[i - 1] \/ after[i] = Append(after[i - 1], s[i])
        \/ k # 0 /\ after[i] = RemoveAt(after[i - 1], k)
    BY <2>4 DEF TakeBack
  <2> HIDE DEF k
  <2>6. k # 0 => k \in 1 .. Len(after[i - 1])
    BY <2>3
  <2> QED BY <2>5, <2>6
<1> QED BY <1>1, <1>2, PassLeavesPart

LEMMA PartInOrder ==
  ASSUME NEW E, NEW s \in Seq(E), NEW out \in Seq(E), IsPart(out, s), InFrameOrder(s)
  PROVE  InFrameOrder(out)
BY PartKeepsOrder DEF InFrameOrder

LEMMA JoinSteps ==
  ASSUME NEW s \in Seq(Single), NEW after, after[0] = <<>>,
         \A i \in 1 .. Len(s) : after[i] = JoinWorker(after[i - 1], s[i])
  PROVE  \A i \in 0 .. Len(s) : after[i] \in Seq(Events)
<1> DEFINE Bad == {i \in 0 .. Len(s) : after[i] \notin Seq(Events)}
<1>1. Len(s) \in Nat /\ Bad \in SUBSET (0 .. Len(s)) /\ 0 \notin Bad
  <2>1. after[0] \in Seq(Events)
    <3>1. <<>> \in Seq(Events)
      OBVIOUS
    <3> QED BY <3>1
  <2>2. Len(s) \in Nat
    OBVIOUS
  <2>3. Bad \in SUBSET (0 .. Len(s))
    OBVIOUS
  <2> QED BY <2>1, <2>2, <2>3
<1>2. ASSUME NEW i \in 1 .. Len(s), i - 1 \notin Bad PROVE i \notin Bad
  <2>1. after[i - 1] \in Seq(Events) /\ s[i] \in Single
    BY <1>2, ElementOfSeq
  <2> QED BY <2>1, JoinTypes
<1>3. Bad = {}
  <2> HIDE DEF Bad
  <2> QED BY <1>1, <1>2, UpTo
<1> QED BY <1>3

LEMMA PassesFacts ==
  ASSUME NEW s \in Seq(Single)
  PROVE  /\ filterEffectiveEvents(s) \in Seq(Single) /\ IsPart(filterEffectiveEvents(s), s)
         /\ Deduped(s) \in Seq(Single) /\ IsPart(Deduped(s), filterEffectiveEvents(s))
         /\ Reconciled(s) \in Seq(Single) /\ IsPart(Reconciled(s), Deduped(s))
         /\ aggregateWorkerTrainRuns(Reconciled(s)) \in Seq(Events)
<1>1. filterEffectiveEvents(s) \in Seq(Single) /\ IsPart(filterEffectiveEvents(s), s)
  BY FilterLeavesPart
<1>2. Deduped(s) \in Seq(Single) /\ IsPart(Deduped(s), filterEffectiveEvents(s))
  BY <1>1, DedupLeavesPart DEF Deduped
<1>3. Reconciled(s) \in Seq(Single) /\ IsPart(Reconciled(s), Deduped(s))
  BY <1>2, ReconcileLeavesPart DEF Reconciled
<1>4. ASSUME NEW r \in Seq(Single) PROVE aggregateWorkerTrainRuns(r) \in Seq(Events)
  <2>1. PICK after : /\ after[0] = <<>> /\ aggregateWorkerTrainRuns(r) = after[Len(r)]
                     /\ \A i \in 1 .. Len(r) : after[i] = JoinWorker(after[i - 1], r[i])
    BY JoinRun
  <2>2. Len(r) \in 0 .. Len(r)
    OBVIOUS
  <2> QED BY <2>1, <2>2, JoinSteps
<1> QED BY <1>1, <1>2, <1>3, <1>4

-----------------------------------------------------------------------------
(* The numbers of every chart agree. *)

LEMMA SingleIsEvent == Seq(Single) \in SUBSET Seq(Events)
<1>1. Single \in SUBSET Events
  BY DEF Single
<1> QED BY <1>1

LEMMA ChartsOfOrderAddUp ==
  ASSUME NEW s \in Seq(Events)
  PROVE  LET spend == buildResourceSpend(s)
             tech == buildTechTree(s)
         IN  /\ \A mode \in {"v1_command_based", "v2_effective_only"} :
                  LET units == buildUnitProduction(s, mode) IN
                  /\ units.worker + units.tech + units.army = units.total
                  /\ SumFunction(units.byUnit) = units.total
                  /\ SumFunction(Points(units.timeline)) = units.total
             /\ SumFunction(spend.byCategory) = spend.mineral + spend.gas
             /\ SumFunction(Points(spend.timeline)) = spend.mineral + spend.gas
             /\ tech.ineff <= SumFunction(tech.counts)
<1>1. ASSUME NEW mode
      PROVE  LET units == buildUnitProduction(s, mode) IN
             /\ units.worker + units.tech + units.army = units.total
             /\ SumFunction(units.byUnit) = units.total
             /\ SumFunction(Points(units.timeline)) = units.total
  <2> DEFINE units == buildUnitProduction(s, mode)
  <2>1. UnitsAddUp(units)
    BY ChartOfUnitsAddsUp
  <2> HIDE DEF units
  <2>2. SumFunction(Points(units.timeline)) = SumFunction(units.timeline)
    BY <2>1, SumOfPoints DEF UnitsAddUp
  <2> QED BY <2>1, <2>2 DEF UnitsAddUp, units
<1>2. LET spend == buildResourceSpend(s) IN
      /\ SumFunction(spend.byCategory) = spend.mineral + spend.gas
      /\ SumFunction(Points(spend.timeline)) = spend.mineral + spend.gas
  <2> DEFINE spend == buildResourceSpend(s)
  <2>1. SpendAddsUp(spend)
    BY ChartOfSpendAddsUp
  <2> HIDE DEF spend
  <2>2. SumFunction(Points(spend.timeline)) = SumFunction(spend.timeline)
    BY <2>1, SumOfPoints DEF SpendAddsUp
  <2> QED BY <2>1, <2>2 DEF SpendAddsUp, spend
<1>3. LET tech == buildTechTree(s) IN tech.ineff <= SumFunction(tech.counts)
  BY ChartOfTechAddsUp DEF TechAddsUp
<1> QED BY <1>1, <1>2, <1>3

LEMMA CompressedFacts ==
  ASSUME RecordingInv
  PROVE  /\ DOMAIN compressBuildOrders(RawOrders) = DOMAIN RawOrders
         /\ \A p \in DOMAIN RawOrders :
              /\ compressBuildOrders(RawOrders)[p] = aggregateWorkerTrainRuns(Reconciled(RawOrders[p]))
              /\ compressBuildOrders(RawOrders)[p] \in Seq(Events)
              /\ RawOrders[p] \in Seq(Single) /\ InFrameOrder(RawOrders[p])
<1>1. ASSUME NEW p \in DOMAIN RawOrders
      PROVE  /\ RawOrders[p] \in Seq(Single) /\ InFrameOrder(RawOrders[p])
             /\ aggregateWorkerTrainRuns(Reconciled(RawOrders[p])) \in Seq(Events)
  BY RawFacts, PassesFacts
<1> QED BY <1>1 DEF compressBuildOrders

LEMMA RecordingAddsUp == ASSUME RecordingInv PROVE ChartsAddUp
<1>1. ApmCountsEveryCommand
  BY RecordingGivesApm
<1>2. ASSUME NEW orders \in {RawOrders, compressBuildOrders(RawOrders)}, NEW p \in DOMAIN orders
      PROVE  orders[p] \in Seq(Events)
  BY CompressedFacts, SingleIsEvent
<1> QED BY <1>1, <1>2, ChartsOfOrderAddUp DEF ChartsAddUp

\* Whatever commands were recorded, the numbers of every chart that GetGameDetail answers
\* agree with each other (buildUnitProduction, buildResourceSpend, buildTechTree and the
\* APM timeline), for the raw build orders and for the compressed ones.
THEOREM ChartsAlwaysAddUp == ChartsSpec => []ChartsAddUp
<1>1. RecordingInv => ChartsAddUp
  BY RecordingAddsUp
<1> QED BY <1>1, RecordingStarts, RecordingGrows, PTL DEF ChartsSpec

-----------------------------------------------------------------------------
(* The charts as weights of the events they are made of. *)

\* The weight of the first i elements.
WeightTo(s, i, w) == SumFunctionOnSet([j \in 1 .. Len(s) |-> w[s[j]]], 1 .. i)

LEMMA WeightToFacts ==
  ASSUME NEW E, NEW s \in Seq(E), NEW w, w \in [E -> Nat]
  PROVE  /\ WeightTo(s, 0, w) = 0 /\ Weight(s, w) = WeightTo(s, Len(s), w)
         /\ \A i \in 0 .. Len(s) : WeightTo(s, i, w) \in Int
         /\ \A i \in 1 .. Len(s) : WeightTo(s, i, w) = WeightTo(s, i - 1, w) + w[s[i]]
<1> DEFINE n == Len(s)
           f == [j \in 1 .. n |-> w[s[j]]]
<1>1. n \in Nat /\ \A j \in 1 .. n : f[j] = w[s[j]] /\ f[j] \in Int
  <2>1. \A j \in 1 .. n : s[j] \in E
    BY ElementOfSeq
  <2> QED BY <2>1
<1> HIDE DEF n, f
<1>2. \A i \in 0 .. n : IsFiniteSet(1 .. i) /\ \A j \in 1 .. i : f[j] \in Int
  <2> TAKE i \in 0 .. n
  <2>1. IsFiniteSet(1 .. i)
    BY <1>1, FS_Interval
  <2> QED BY <1>1, <2>1
<1>3. ASSUME NEW i \in 0 .. n PROVE SumFunctionOnSet(f, 1 .. i) \in Int
  <2> DEFINE T == 1 .. i
  <2>1. IsFiniteSet(T) /\ \A j \in T : f[j] \in Int
    BY <1>2
  <2> HIDE DEF T
  <2>2. SumFunctionOnSet(f, T) \in Int
    BY <2>1, SumOfSet
  <2> QED BY <2>2 DEF T
<1>4. SumFunctionOnSet(f, 1 .. 0) = 0
  <2>1. 1 .. 0 = {}
    OBVIOUS
  <2> QED BY <2>1, SumOfSet, FS_EmptySet
<1>5. ASSUME NEW i \in 1 .. n
      PROVE  SumFunctionOnSet(f, 1 .. i) = SumFunctionOnSet(f, 1 .. i - 1) + w[s[i]]
  <2> DEFINE T == 1 .. i
  <2>1. /\ IsFiniteSet(T) /\ (\A j \in T : f[j] \in Int) /\ i \in T /\ T \ {i} = 1 .. i - 1
    <3>1. i \in 0 .. n
      OBVIOUS
    <3> QED BY <1>2, <3>1
  <2> HIDE DEF T
  <2>2. SumFunctionOnSet(f, T) = f[i] + SumFunctionOnSet(f, T \ {i}) /\ SumFunctionOnSet(f, T \ {i}) \in Int
    BY <2>1, SumOfSet
  <2>3. f[i] = w[s[i]] /\ f[i] \in Int
    BY <1>1
  <2>4. \A a, b \in Int : a + b = b + a
    OBVIOUS
  <2>5. SumFunctionOnSet(f, T) = SumFunctionOnSet(f, T \ {i}) + w[s[i]]
    BY <2>2, <2>3, <2>4
  <2> QED BY <2>1, <2>5 DEF T
<1> QED BY <1>3, <1>4, <1>5 DEF WeightTo, Weight, f, n

LEMMA WeightAtMost ==
  ASSUME NEW E, NEW s \in Seq(E), NEW v, NEW w, v \in [E -> Nat], w \in [E -> Nat], \A e \in E : v[e] <= w[e]
  PROVE  Weight(s, v) <= Weight(s, w) /\ Weight(s, v) \in Int /\ Weight(s, w) \in Int
<1> DEFINE f == [i \in 1 .. Len(s) |-> v[s[i]]]
           g == [i \in 1 .. Len(s) |-> w[s[i]]]
<1>1. \A i \in 1 .. Len(s) : s[i] \in E
  BY ElementOfSeq
<1>2. \A i \in 1 .. Len(s) : f[i] \in Int /\ g[i] \in Int /\ f[i] <= g[i]
  BY <1>1
<1>3. IsFiniteSet(1 .. Len(s))
  BY FS_Interval
<1> HIDE DEF f, g
<1>4. SumFunctionOnSet(f, 1 .. Len(s)) <= SumFunctionOnSet(g, 1 .. Len(s))
  <2> DEFINE T == 1 .. Len(s)
  <2>1. IsFiniteSet(T) /\ \A i \in T : f[i] \in Int /\ g[i] \in Int /\ f[i] <= g[i]
    BY <1>2, <1>3
  <2> HIDE DEF T
  <2> QED BY <2>1, SumAtMost DEF T
<1>5. Weight(s, v) \in Int /\ Weight(s, w) \in Int
  <2>1. v \in [E -> Int] /\ w \in [E -> Int]
    OBVIOUS
  <2> QED BY <2>1, WeightIsNumber
<1> QED BY <1>4, <1>5 DEF Weight, f, g

UnitWeight(mode, u) ==
  [e \in Events |-> IF classifyProductionEvent(e, mode) /\ e.item = u THEN CountOf(e) ELSE 0]

MineralWeight == [e \in Events |-> IF classifySpendEvent(e) = "" THEN 0 ELSE costOf(e.item)[1] * Charge(e)]

GasWeight == [e \in Events |-> IF classifySpendEvent(e) = "" THEN 0 ELSE costOf(e.item)[2] * Charge(e)]

LEMMA WeightTypes ==
  /\ \A mode, u : UnitWeight(mode, u) \in [Events -> Nat]
  /\ MineralWeight \in [Events -> Nat] /\ GasWeight \in [Events -> Nat]
<1>1. \A e \in Events : /\ CountOf(e) \in Nat
                        /\ costOf(e.item)[1] * Charge(e) \in Nat /\ costOf(e.item)[2] * Charge(e) \in Nat
  BY EventNumbers
<1> QED BY <1>1 DEF UnitWeight, MineralWeight, GasWeight

Got(f, u) == IF u \in DOMAIN f THEN f[u] ELSE 0

LEMMA UnitsAreWeights ==
  ASSUME NEW s \in Seq(Events), NEW mode, NEW u
  PROVE  LET f == buildUnitProduction(s, mode).byUnit
         IN  /\ Got(f, u) = Weight(s, UnitWeight(mode, u))
             /\ u \in DOMAIN f => f[u] \in Nat \ {0}
<1> DEFINE w == UnitWeight(mode, u)
           n == Len(s)
<1>1. PICK after : /\ after[0] = NoUnits /\ buildUnitProduction(s, mode) = after[n]
                   /\ \A i \in 1 .. n : after[i] = CountUnit(mode, after[i - 1], s[i])
  BY UnitRun
<1> DEFINE Good(i) == /\ IsCounter(after[i].byUnit) /\ Got(after[i].byUnit, u) = WeightTo(s, i, w)
                      /\ u \in DOMAIN after[i].byUnit => after[i].byUnit[u] \in Nat \ {0}
           Bad == {i \in 0 .. n : ~Good(i)}
<1>0. /\ w \in [Events -> Nat]
      /\ \A e \in Events : w[e] = IF classifyProductionEvent(e, mode) /\ e.item = u THEN CountOf(e) ELSE 0
  BY WeightTypes DEF UnitWeight
<1> HIDE DEF w
<1>2. /\ n \in Nat /\ WeightTo(s, 0, w) = 0 /\ Weight(s, w) = WeightTo(s, n, w)
      /\ \A i \in 0 .. n : WeightTo(s, i, w) \in Int
      /\ \A i \in 1 .. n : WeightTo(s, i, w) = WeightTo(s, i - 1, w) + w[s[i]]
  BY <1>0, WeightToFacts
<1>3. Good(0)
  BY <1>1, <1>2, NothingIsCounter DEF NoUnits, Got
<1>4. ASSUME NEW i \in 1 .. n, Good(i - 1) PROVE Good(i)
  <2> DEFINE f == after[i - 1].byUnit
             e == s[i]
  <2>1. e \in Events /\ CountOf(e) \in Nat \ {0} /\ CountOf(e) \in Int
    BY ElementOfSeq, EventNumbers
  <2>2. CASE ~classifyProductionEvent(e, mode)
    <3>1. after[i] = after[i - 1]
      BY <1>1, <2>2 DEF CountUnit
    <3>2. w[e] = 0 /\ WeightTo(s, i - 1, w) \in Int
      BY <1>0, <1>2, <2>1, <2>2
    <3>3. WeightTo(s, i, w) = WeightTo(s, i - 1, w)
      BY <1>2, <3>2
    <3> QED BY <1>4, <3>1, <3>3
  <2>3. CASE classifyProductionEvent(e, mode)
    <3>1. after[i].byUnit = Add(f, e.item, CountOf(e))
      <4>1. after[i] = CountUnit(mode, after[i - 1], e)
        BY <1>1
      <4> HIDE DEF e
      <4>2. CountUnit(mode, after[i - 1], e).byUnit = Add(f, e.item, CountOf(e))
        BY <2>3 DEF CountUnit
      <4> QED BY <4>1, <4>2
    <3>2. AddFacts(f, e.item, CountOf(e))
      BY <1>4, <2>1, SumOfAdd
    <3> DEFINE g == Add(f, e.item, CountOf(e))
    <3>3. /\ IsCounter(g) /\ DOMAIN g = DOMAIN f \cup {e.item}
          /\ \A x \in DOMAIN f \cup {e.item} :
               g[x] = (IF x \in DOMAIN f THEN f[x] ELSE 0) + (IF x = e.item THEN CountOf(e) ELSE 0)
      BY <3>2 DEF AddFacts
    <3>4. Got(f, u) = WeightTo(s, i - 1, w) /\ (u \in DOMAIN f => f[u] \in Nat \ {0})
      BY <1>4
    <3>5. w[e] = IF e.item = u THEN CountOf(e) ELSE 0
      BY <1>0, <2>1, <2>3
    <3> HIDE DEF g, f, e
    <3>6. Got(g, u) = Got(f, u) + w[e] /\ (u \in DOMAIN g => g[u] \in Nat \ {0})
      <4> DEFINE m == CountOf(e)
      <4>1. m \in Nat \ {0}
        BY <2>1
      <4> HIDE DEF m
      <4>2. CASE u \in DOMAIN f /\ u = e.item
        <5>1. g[u] = f[u] + m /\ w[e] = m /\ u \in DOMAIN g /\ f[u] \in Nat
          BY <3>3, <3>4, <3>5, <4>2 DEF m
        <5> QED BY <4>1, <4>2, <5>1 DEF Got
      <4>3. CASE u \in DOMAIN f /\ u # e.item
        <5>1. g[u] = f[u] + 0 /\ w[e] = 0 /\ u \in DOMAIN g /\ f[u] \in Nat \ {0}
          BY <3>3, <3>4, <3>5, <4>3
        <5> QED BY <4>3, <5>1 DEF Got
      <4>4. CASE u \notin DOMAIN f /\ u = e.item
        <5>1. g[u] = 0 + m /\ w[e] = m /\ u \in DOMAIN g
          BY <3>3, <3>5, <4>4 DEF m
        <5> QED BY <4>1, <4>4, <5>1 DEF Got
      <4>5. CASE u \notin DOMAIN f /\ u # e.item
        <5>1. u \notin DOMAIN g /\ w[e] = 0
          BY <3>3, <3>5, <4>5
        <5> QED BY <4>5, <5>1 DEF Got
      <4> QED BY <4>2, <4>3, <4>4, <4>5
    <3>7. WeightTo(s, i, w) = WeightTo(s, i - 1, w) + w[e]
      BY <1>2 DEF e
    <3> QED BY <3>1, <3>3, <3>4, <3>6, <3>7 DEF g, f, e
  <2> QED BY <2>2, <2>3
<1>5. Bad = {}
  <2>1. Bad \in SUBSET (0 .. n) /\ 0 \notin Bad /\ \A i \in 1 .. n : i - 1 \notin Bad => i \notin Bad
    <3> HIDE DEF Good
    <3>1. \A i \in 1 .. n : i - 1 \in 0 .. n
      BY <1>2
    <3> QED BY <1>3, <1>4, <3>1
  <2> HIDE DEF Bad
  <2> QED BY <1>2, <2>1, UpTo
<1>6. Good(n)
  <2> HIDE DEF Good
  <2> QED BY <1>2, <1>5
<1> QED BY <1>1, <1>2, <1>6 DEF w

LEMMA SpendIsWeight ==
  ASSUME NEW s \in Seq(Events)
  PROVE  /\ buildResourceSpend(s).mineral = Weight(s, MineralWeight)
         /\ buildResourceSpend(s).gas = Weight(s, GasWeight)
<1> DEFINE n == Len(s)
<1>1. PICK after : /\ after[0] = NoSpend /\ buildResourceSpend(s) = after[n]
                   /\ \A i \in 1 .. n : after[i] = SpendOn(after[i - 1], s[i])
  BY SpendRun
<1> DEFINE Good(i) == /\ after[i].mineral = WeightTo(s, i, MineralWeight)
                      /\ after[i].gas = WeightTo(s, i, GasWeight)
           Bad == {i \in 0 .. n : ~Good(i)}
<1>2. ASSUME NEW w \in {MineralWeight, GasWeight}
      PROVE  /\ n \in Nat /\ WeightTo(s, 0, w) = 0 /\ Weight(s, w) = WeightTo(s, n, w)
             /\ \A i \in 0 .. n : WeightTo(s, i, w) \in Int
             /\ \A i \in 1 .. n : WeightTo(s, i, w) = WeightTo(s, i - 1, w) + w[s[i]]
  <2>1. w \in [Events -> Nat]
    BY WeightTypes
  <2> QED BY <2>1, WeightToFacts
<1>3. Good(0)
  BY <1>1, <1>2 DEF NoSpend
<1>4. ASSUME NEW i \in 1 .. n, Good(i - 1) PROVE Good(i)
  <2> DEFINE e == s[i]
  <2>1. e \in Events
    BY ElementOfSeq
  <2>2. /\ MineralWeight[e] = (IF classifySpendEvent(e) = "" THEN 0 ELSE costOf(e.item)[1] * Charge(e))
        /\ GasWeight[e] = (IF classifySpendEvent(e) = "" THEN 0 ELSE costOf(e.item)[2] * Charge(e))
    BY <2>1 DEF MineralWeight, GasWeight
  <2>3. WeightTo(s, i - 1, MineralWeight) \in Int /\ WeightTo(s, i - 1, GasWeight) \in Int
    <3>1. i - 1 \in 0 .. n
      BY <1>2
    <3> QED BY <1>2, <3>1
  <2>4. /\ WeightTo(s, i, MineralWeight) = WeightTo(s, i - 1, MineralWeight) + MineralWeight[e]
        /\ WeightTo(s, i, GasWeight) = WeightTo(s, i - 1, GasWeight) + GasWeight[e]
    BY <1>2
  <2>5. after[i] = SpendOn(after[i - 1], e)
    BY <1>1
  <2> HIDE DEF e
  <2>6. CASE classifySpendEvent(e) = ""
    <3>1. after[i] = after[i - 1]
      BY <2>5, <2>6 DEF SpendOn
    <3>2. MineralWeight[e] = 0 /\ GasWeight[e] = 0
      BY <2>2, <2>6
    <3>3. /\ WeightTo(s, i, MineralWeight) = WeightTo(s, i - 1, MineralWeight)
          /\ WeightTo(s, i, GasWeight) = WeightTo(s, i - 1, GasWeight)
      BY <2>3, <2>4, <3>2
    <3> QED BY Zenon, <1>4, <3>1, <3>3
  <2>7. CASE classifySpendEvent(e) # ""
    <3> DEFINE m == costOf(e.item)[1] * Charge(e)
               g == costOf(e.item)[2] * Charge(e)
    <3>1. after[i].mineral = after[i - 1].mineral + m /\ after[i].gas = after[i - 1].gas + g
      <4>1. /\ SpendOn(after[i - 1], e).mineral = after[i - 1].mineral + m
            /\ SpendOn(after[i - 1], e).gas = after[i - 1].gas + g
        BY <2>7 DEF SpendOn
      <4> QED BY <2>5, <4>1
    <3>2. MineralWeight[e] = m /\ GasWeight[e] = g
      BY <2>2, <2>7
    <3> HIDE DEF m, g
    <3>3. /\ after[i - 1].mineral = WeightTo(s, i - 1, MineralWeight)
          /\ after[i - 1].gas = WeightTo(s, i - 1, GasWeight)
      BY <1>4
    <3>4. /\ WeightTo(s, i, MineralWeight) = WeightTo(s, i - 1, MineralWeight) + m
          /\ WeightTo(s, i, GasWeight) = WeightTo(s, i - 1, GasWeight) + g
      BY <2>4, <3>2
    <3>5. after[i].mineral = WeightTo(s, i, MineralWeight) /\ after[i].gas = WeightTo(s, i, GasWeight)
      BY Zenon, <3>1, <3>3, <3>4
    <3> QED BY <3>5
  <2> QED BY <2>6, <2>7
<1>5. Bad = {}
  <2>1. Bad \in SUBSET (0 .. n) /\ 0 \notin Bad /\ \A i \in 1 .. n : i - 1 \notin Bad => i \notin Bad
    <3> HIDE DEF Good
    <3>1. \A i \in 1 .. n : i - 1 \in 0 .. n
      BY <1>2
    <3> QED BY <1>3, <1>4, <3>1
  <2> HIDE DEF Bad
  <2> QED BY <1>2, <2>1, UpTo
<1>6. Good(n)
  <2> HIDE DEF Good
  <2> QED BY <1>2, <1>5
<1> QED BY <1>1, <1>2, <1>6

-----------------------------------------------------------------------------
(* Joining workers keeps every weight that adds up over a run. *)

JoinsUp(w) ==
  /\ w \in [Events -> Nat]
  /\ \A e \in Single : w[[e EXCEPT !.count = 1]] = w[e]
  /\ \A last \in Events, e \in Single :
        SameCommand(last, e) /\ last.count > 0 => w[Joined(last, e)] = w[last] + w[e]

LEMMA JoinKeepsWeight ==
  ASSUME NEW s \in Seq(Single), NEW w, JoinsUp(w)
  PROVE  Weight(aggregateWorkerTrainRuns(s), w) = Weight(s, w)
<1> DEFINE n == Len(s)
<1>1. PICK after : /\ after[0] = <<>> /\ aggregateWorkerTrainRuns(s) = after[n]
                   /\ \A i \in 1 .. n : after[i] = JoinWorker(after[i - 1], s[i])
  BY JoinRun
<1>2. \A i \in 0 .. n : after[i] \in Seq(Events)
  BY <1>1, JoinSteps
<1>3. w \in [Events -> Nat] /\ w \in [Events -> Int] /\ s \in Seq(Events)
  BY SingleIsEvent DEF JoinsUp
<1>4. /\ n \in Nat /\ WeightTo(s, 0, w) = 0 /\ Weight(s, w) = WeightTo(s, n, w)
      /\ \A i \in 0 .. n : WeightTo(s, i, w) \in Int
      /\ \A i \in 1 .. n : WeightTo(s, i, w) = WeightTo(s, i - 1, w) + w[s[i]]
  BY <1>3, WeightToFacts
<1> DEFINE Good(i) == /\ \A k \in 1 .. Len(after[i]) : after[i][k].count > 0
                      /\ Weight(after[i], w) = WeightTo(s, i, w)
           Bad == {i \in 0 .. n : ~Good(i)}
<1>5. Good(0)
  <2>1. Weight(<<>>, w) = 0
    BY <1>3, WeightIsNumber
  <2> QED BY <1>1, <1>4, <2>1
<1>6. ASSUME NEW i \in 1 .. n, Good(i - 1) PROVE Good(i)
  <2> DEFINE out == after[i - 1]
             e == s[i]
  <2>1. /\ out \in Seq(Events) /\ e \in Single /\ e \in Events /\ after[i] = JoinWorker(out, e)
        /\ WeightTo(s, i, w) = WeightTo(s, i - 1, w) + w[e]
    <3>1. i - 1 \in 0 .. n
      BY <1>4
    <3> QED BY <1>1, <1>2, <1>3, <1>4, <3>1, ElementOfSeq
  <2>2. (\A k \in 1 .. Len(out) : out[k].count > 0) /\ Weight(out, w) = WeightTo(s, i - 1, w)
    BY <1>6
  <2> HIDE DEF out, e
  <2>3. CASE ~ContinuesRun(out, e)
    <3> DEFINE one == [e EXCEPT !.count = 1]
    <3>1. after[i] = Append(out, one) /\ one \in Events /\ one.count = 1
      <4>1. e.count = 0
        BY <2>1 DEF Single
      <4> QED BY <2>1, <2>3, <4>1 DEF JoinWorker, Events
    <3>2. w[one] = w[e]
      BY <2>1 DEF JoinsUp
    <3> HIDE DEF one
    <3>3. Weight(Append(out, one), w) = Weight(out, w) + w[one]
      BY <1>3, <2>1, <3>1, WeightOfAppend
    <3>4. ASSUME NEW k \in 1 .. Len(Append(out, one)) PROVE Append(out, one)[k].count > 0
      <4>1. k \in 1 .. Len(out) \/ k = Len(out) + 1
        BY <2>1, <3>1, AppendProperties
      <4>2. k \in 1 .. Len(out) => Append(out, one)[k] = out[k]
        BY <2>1, <3>1, AppendProperties
      <4>3. k = Len(out) + 1 => Append(out, one)[k] = one
        BY <2>1, <3>1, AppendProperties
      <4> QED BY <2>2, <3>1, <4>1, <4>2, <4>3
    <3> QED BY <2>1, <2>2, <3>1, <3>2, <3>3, <3>4
  <2>4. CASE ContinuesRun(out, e)
    <3> DEFINE front == Front(out)
               last == Last(out)
               joined == Joined(last, e)
    <3>1. /\ after[i] = Append(front, joined) /\ out # <<>> /\ SameCommand(last, e)
      BY <2>1, <2>4 DEF JoinWorker, ContinuesRun
    <3>2. /\ front \in Seq(Events) /\ Len(front) = Len(out) - 1 /\ Len(out) \in Nat \ {0}
          /\ \A k \in 1 .. Len(out) - 1 : front[k] = out[k]
          /\ last \in Events /\ last = out[Len(out)]
      BY <2>1, <3>1, FrontFacts
    <3>3. last.count > 0 /\ last.count \in Nat
      <4>1. Len(out) \in 1 .. Len(out)
        BY <3>2
      <4>2. last.count \in Nat
        BY <3>2 DEF Events
      <4> QED BY <2>2, <3>2, <4>1, <4>2
    <3>4. joined \in Events /\ joined.count = last.count + 1
      <4>1. joined \in Events
        BY <2>1, <3>2, JoinedIsEvent
      <4>2. joined.count = last.count + 1
        BY <3>2 DEF Joined, Events
      <4> QED BY <4>1, <4>2
    <3>5. w[joined] = w[last] + w[e]
      BY <2>1, <3>1, <3>2, <3>3 DEF JoinsUp
    <3>6. out = Append(front, last)
      <4> HIDE DEF front, last
      <4>1. /\ Append(front, last) \in Seq(Events) /\ Len(Append(front, last)) = Len(front) + 1
            /\ \A k \in 1 .. Len(front) : Append(front, last)[k] = front[k]
            /\ Append(front, last)[Len(front) + 1] = last
        BY <3>2, AppendProperties
      <4>2. Len(front) + 1 = Len(out) /\ \A k \in 1 .. Len(out) : k \in 1 .. Len(front) \/ k = Len(out)
        BY <3>2
      <4>3. \A k \in 1 .. Len(out) : Append(front, last)[k] = out[k]
        BY <3>2, <4>1, <4>2
      <4> QED BY <2>1, <4>1, <4>2, <4>3, SeqEqual
    <3> HIDE DEF front, last, joined
    <3>7. Weight(out, w) = Weight(front, w) + w[last] /\ Weight(Append(front, joined), w) = Weight(front, w) + w[joined]
      BY <1>3, <3>2, <3>4, <3>6, WeightOfAppend
    <3>8. Weight(front, w) \in Int /\ w[last] \in Int /\ w[e] \in Int
      BY <1>3, <2>1, <3>2, WeightIsNumber
    <3>9. Weight(after[i], w) = WeightTo(s, i, w)
      BY <2>1, <2>2, <3>1, <3>5, <3>7, <3>8
    <3>10. ASSUME NEW k \in 1 .. Len(Append(front, joined)) PROVE Append(front, joined)[k].count > 0
      <4>1. k \in 1 .. Len(front) \/ k = Len(front) + 1
        BY <3>2, <3>4, AppendProperties
      <4>2. k \in 1 .. Len(front) => Append(front, joined)[k] = front[k]
        BY <3>2, <3>4, AppendProperties
      <4>3. k = Len(front) + 1 => Append(front, joined)[k] = joined
        BY <3>2, <3>4, AppendProperties
      <4>4. k \in 1 .. Len(front) => k \in 1 .. Len(out) /\ k \in 1 .. Len(out) - 1
        BY <3>2
      <4>5. joined.count > 0
        BY <3>3, <3>4
      <4> QED BY <2>2, <3>2, <4>1, <4>2, <4>3, <4>4, <4>5
    <3> QED BY <3>1, <3>9, <3>10
  <2> QED BY <2>3, <2>4
<1>7. Bad = {}
  <2>1. Bad \in SUBSET (0 .. n) /\ 0 \notin Bad /\ \A i \in 1 .. n : i - 1 \notin Bad => i \notin Bad
    <3> HIDE DEF Good
    <3>1. \A i \in 1 .. n : i - 1 \in 0 .. n
      BY <1>4
    <3> QED BY <1>5, <1>6, <3>1
  <2> HIDE DEF Bad
  <2> QED BY <1>4, <2>1, UpTo
<1>8. Good(n)
  <2> HIDE DEF Good
  <2> QED BY <1>4, <1>7
<1> QED BY <1>1, <1>4, <1>8

LEMMA WeightsJoinUp ==
  /\ \A u : JoinsUp(UnitWeight("v1_command_based", u))
  /\ JoinsUp(MineralWeight) /\ JoinsUp(GasWeight)
<1>1. ASSUME NEW e \in Single
      PROVE  LET one == [e EXCEPT !.count = 1] IN
             /\ one \in Events /\ CountOf(one) = 1 /\ CountOf(e) = 1
             /\ one.item = e.item /\ one.type = e.type /\ one.effective = e.effective
  BY DEF Single, Events, CountOf
<1>2. ASSUME NEW last \in Events, NEW e \in Single, SameCommand(last, e), last.count > 0
      PROVE  LET j == Joined(last, e) IN
             /\ j \in Events /\ e \in Events /\ CountOf(j) = CountOf(last) + 1 /\ CountOf(e) = 1
             /\ CountOf(last) \in Nat
             /\ j.item = last.item /\ j.type = last.type /\ e.item = last.item /\ e.type = last.type
  <2>1. e \in Events /\ CountOf(e) = 1 /\ e.item = last.item /\ e.type = last.type
    BY <1>2 DEF Single, CountOf, SameCommand
  <2>2. Joined(last, e) \in Events
    BY <2>1, JoinedIsEvent
  <2>3. Joined(last, e).count = last.count + 1 /\ Joined(last, e).item = last.item /\ Joined(last, e).type = last.type
    BY DEF Joined, Events
  <2>4. last.count \in Nat
    BY DEF Events
  <2>5. CountOf(Joined(last, e)) = CountOf(last) + 1 /\ CountOf(last) \in Nat
    BY <1>2, <2>3, <2>4 DEF CountOf
  <2> QED BY <2>1, <2>2, <2>3, <2>5
<1>3. ASSUME NEW u PROVE JoinsUp(UnitWeight("v1_command_based", u))
  <2> DEFINE w == UnitWeight("v1_command_based", u)
             Counts(e) == e.type \in {"train", "unit_morph", "building_morph"} /\ ~isLikelyBuildingName(e.item) /\ e.item = u
  <2>1. w \in [Events -> Nat] /\ \A e \in Events : w[e] = IF Counts(e) THEN CountOf(e) ELSE 0
    <3>1. \A e : classifyProductionEvent(e, "v1_command_based")
                   <=> e.type \in {"train", "unit_morph", "building_morph"} /\ ~isLikelyBuildingName(e.item)
      BY DEF classifyProductionEvent
    <3> QED BY <3>1, WeightTypes DEF UnitWeight
  <2> HIDE DEF w
  <2>2. ASSUME NEW e \in Single PROVE w[[e EXCEPT !.count = 1]] = w[e]
    <3>1. e \in Events
      BY DEF Single
    <3> QED BY <1>1, <2>1, <3>1
  <2>3. ASSUME NEW last \in Events, NEW e \in Single, SameCommand(last, e), last.count > 0
        PROVE  w[Joined(last, e)] = w[last] + w[e]
    <3>1. /\ w[last] = IF Counts(last) THEN CountOf(last) ELSE 0
          /\ w[e] = IF Counts(last) THEN 1 ELSE 0
          /\ w[Joined(last, e)] = IF Counts(last) THEN CountOf(last) + 1 ELSE 0
      BY <1>2, <2>1, <2>3
    <3> QED BY <3>1
  <2> QED BY <2>1, <2>2, <2>3 DEF JoinsUp, w
<1>4. ASSUME NEW x \in {1, 2}, NEW w, w \in [Events -> Nat],
             \A e \in Events : w[e] = IF classifySpendEvent(e) = "" THEN 0 ELSE costOf(e.item)[x] * Charge(e)
      PROVE  JoinsUp(w)
  <2>1. \A e \in Events : Charge(e) = CountOf(e) /\ costOf(e.item)[x] \in Nat
    BY EventNumbers
  <2>2. \A a, b \in Events : a.type = b.type => classifySpendEvent(a) = classifySpendEvent(b)
    BY DEF classifySpendEvent
  <2>3. ASSUME NEW e \in Single PROVE w[[e EXCEPT !.count = 1]] = w[e]
    <3> DEFINE one == [e EXCEPT !.count = 1]
    <3>1. e \in Events
      BY DEF Single
    <3>2. one \in Events /\ CountOf(one) = 1 /\ CountOf(e) = 1 /\ one.item = e.item /\ one.type = e.type
      BY <1>1
    <3> HIDE DEF one
    <3>3. classifySpendEvent(one) = classifySpendEvent(e) /\ Charge(one) = 1 /\ Charge(e) = 1
      BY <2>1, <2>2, <3>1, <3>2
    <3>4. w[one] = w[e]
      BY <1>4, <3>1, <3>2, <3>3
    <3> QED BY <3>4 DEF one
  <2>4. ASSUME NEW last \in Events, NEW e \in Single, SameCommand(last, e), last.count > 0
        PROVE  w[Joined(last, e)] = w[last] + w[e]
    <3> DEFINE c == costOf(last.item)[x]
               m == CountOf(last)
    <3>1. c \in Nat /\ m \in Nat
      BY <1>2, <2>1, <2>4
    <3> DEFINE j == Joined(last, e)
    <3>4. /\ j \in Events /\ e \in Events /\ CountOf(j) = m + 1 /\ CountOf(e) = 1
          /\ j.item = last.item /\ j.type = last.type /\ e.item = last.item /\ e.type = last.type
      BY <1>2, <2>4
    <3>5. /\ classifySpendEvent(j) = classifySpendEvent(last) /\ classifySpendEvent(e) = classifySpendEvent(last)
          /\ Charge(j) = m + 1 /\ Charge(e) = 1 /\ Charge(last) = m
      <4> HIDE DEF j
      <4> QED BY <2>1, <2>2, <3>4
    <3>2. /\ w[last] = IF classifySpendEvent(last) = "" THEN 0 ELSE c * m
          /\ w[e] = IF classifySpendEvent(last) = "" THEN 0 ELSE c * 1
          /\ w[j] = IF classifySpendEvent(last) = "" THEN 0 ELSE c * (m + 1)
      <4>1. /\ w[last] = IF classifySpendEvent(last) = "" THEN 0 ELSE costOf(last.item)[x] * Charge(last)
            /\ w[e] = IF classifySpendEvent(e) = "" THEN 0 ELSE costOf(e.item)[x] * Charge(e)
            /\ w[j] = IF classifySpendEvent(j) = "" THEN 0 ELSE costOf(j.item)[x] * Charge(j)
        BY <1>4, <3>4
      <4> HIDE DEF j
      <4>2. /\ w[last] = IF classifySpendEvent(last) = "" THEN 0 ELSE c * m
            /\ w[e] = IF classifySpendEvent(last) = "" THEN 0 ELSE c * 1
            /\ w[j] = IF classifySpendEvent(last) = "" THEN 0 ELSE c * (m + 1)
        BY Zenon, <3>4, <3>5, <4>1
      <4> QED BY <4>2 DEF j
    <3> HIDE DEF c, m, j
    <3>3. c * (m + 1) = c * m + c * 1
      BY <3>1
    <3>6. w[j] = w[last] + w[e]
      <4>1. CASE classifySpendEvent(last) = ""
        <5>1. w[j] = 0 /\ w[last] = 0 /\ w[e] = 0
          BY Zenon, <3>2, <4>1
        <5> QED BY <5>1
      <4>2. CASE classifySpendEvent(last) # ""
        BY Zenon, <3>2, <3>3, <4>2
      <4> QED BY <4>1, <4>2
    <3> QED BY <3>6 DEF j
  <2> QED BY <1>4, <2>3, <2>4 DEF JoinsUp
<1>5. JoinsUp(MineralWeight)
  BY <1>4, WeightTypes DEF MineralWeight
<1>6. JoinsUp(GasWeight)
  BY <1>4, WeightTypes DEF GasWeight
<1> QED BY <1>3, <1>5, <1>6

LEMMA CompressionWeighsLess ==
  ASSUME NEW s \in Seq(Single), NEW w, JoinsUp(w)
  PROVE  /\ Weight(aggregateWorkerTrainRuns(Reconciled(s)), w) <= Weight(s, w)
         /\ Weight(aggregateWorkerTrainRuns(Reconciled(s)), w) \in Int /\ Weight(s, w) \in Int
<1> DEFINE f == filterEffectiveEvents(s)
           d == Deduped(s)
           r == Reconciled(s)
<1>1. /\ f \in Seq(Single) /\ IsPart(f, s) /\ d \in Seq(Single) /\ IsPart(d, f)
      /\ r \in Seq(Single) /\ IsPart(r, d)
  BY PassesFacts
<1>2. w \in [Events -> Nat] /\ w \in [Events -> Int]
  BY DEF JoinsUp
<1> HIDE DEF f, d, r
<1>3. s \in Seq(Events) /\ f \in Seq(Events) /\ d \in Seq(Events) /\ r \in Seq(Events)
  BY <1>1, SingleIsEvent
<1>4. Weight(f, w) <= Weight(s, w) /\ Weight(d, w) <= Weight(f, w) /\ Weight(r, w) <= Weight(d, w)
  BY <1>1, <1>2, <1>3, PartWeighsLess
<1>5. Weight(f, w) \in Int /\ Weight(s, w) \in Int /\ Weight(d, w) \in Int /\ Weight(r, w) \in Int
  BY <1>2, <1>3, WeightIsNumber
<1>6. Weight(aggregateWorkerTrainRuns(r), w) = Weight(r, w)
  BY <1>1, JoinKeepsWeight
<1>7. Weight(r, w) <= Weight(s, w)
  BY <1>4, <1>5
<1> QED BY <1>5, <1>6, <1>7 DEF r

LEMMA OrderNeverAbove ==
  ASSUME NEW raw \in Seq(Single)
  PROVE  LET compressed == aggregateWorkerTrainRuns(Reconciled(raw))
             v1 == buildUnitProduction(raw, "v1_command_based")
             v2 == buildUnitProduction(compressed, "v2_effective_only")
             gross == buildResourceSpend(raw)
             net == buildResourceSpend(compressed)
         IN  /\ \A u \in DOMAIN v2.byUnit : u \in DOMAIN v1.byUnit /\ v2.byUnit[u] <= v1.byUnit[u]
             /\ net.mineral <= gross.mineral /\ net.gas <= gross.gas
<1> DEFINE compressed == aggregateWorkerTrainRuns(Reconciled(raw))
           f1 == buildUnitProduction(raw, "v1_command_based").byUnit
           f2 == buildUnitProduction(compressed, "v2_effective_only").byUnit
<1>1. compressed \in Seq(Events) /\ raw \in Seq(Events)
  BY PassesFacts, SingleIsEvent
<1>2. ASSUME NEW u \in DOMAIN f2 PROVE u \in DOMAIN f1 /\ f2[u] <= f1[u]
  <2> DEFINE w1 == UnitWeight("v1_command_based", u)
             w2 == UnitWeight("v2_effective_only", u)
  <2>1. /\ Got(f1, u) = Weight(raw, w1) /\ Got(f2, u) = Weight(compressed, w2)
        /\ (u \in DOMAIN f1 => f1[u] \in Nat \ {0}) /\ f2[u] \in Nat \ {0}
    <3> HIDE DEF compressed
    <3> QED BY <1>1, <1>2, UnitsAreWeights
  <2>2. w1 \in [Events -> Nat] /\ w2 \in [Events -> Nat] /\ JoinsUp(w1) /\ \A e \in Events : w2[e] <= w1[e]
    <3>1. w1 \in [Events -> Nat] /\ w2 \in [Events -> Nat] /\ JoinsUp(w1)
      BY WeightTypes, WeightsJoinUp
    <3>2. ASSUME NEW e \in Events PROVE w2[e] <= w1[e]
      <4>1. CountOf(e) \in Nat
        BY EventNumbers
      <4>2. classifyProductionEvent(e, "v2_effective_only") => classifyProductionEvent(e, "v1_command_based")
        BY DEF classifyProductionEvent
      <4> QED BY <4>1, <4>2 DEF UnitWeight
    <3> QED BY <3>1, <3>2
  <2> HIDE DEF w1, w2, compressed, f1, f2
  <2>3. /\ Weight(compressed, w2) <= Weight(compressed, w1)
        /\ Weight(compressed, w2) \in Int /\ Weight(compressed, w1) \in Int
    BY <1>1, <2>2, WeightAtMost
  <2>4. Weight(compressed, w1) <= Weight(raw, w1) /\ Weight(raw, w1) \in Int
    BY <2>2, CompressionWeighsLess DEF compressed
  <2>5. f2[u] = Weight(compressed, w2)
    BY <1>2, <2>1 DEF Got
  <2>6. f2[u] <= Got(f1, u)
    BY <2>1, <2>3, <2>4, <2>5
  <2>7. u \in DOMAIN f1
    BY <2>1, <2>6 DEF Got
  <2> QED BY <2>6, <2>7 DEF Got
<1>3. /\ buildResourceSpend(compressed).mineral <= buildResourceSpend(raw).mineral
      /\ buildResourceSpend(compressed).gas <= buildResourceSpend(raw).gas
  <2>1. /\ Weight(compressed, MineralWeight) <= Weight(raw, MineralWeight)
        /\ Weight(compressed, GasWeight) <= Weight(raw, GasWeight)
    BY WeightsJoinUp, CompressionWeighsLess
  <2> HIDE DEF compressed
  <2> QED BY <1>1, <2>1, SpendIsWeight
<1> QED BY <1>2, <1>3

LEMMA RecordingNeverAbove == ASSUME RecordingInv PROVE EffectiveNeverAboveCommands
<1>1. ASSUME NEW p \in DOMAIN RawOrders
      PROVE  /\ RawOrders[p] \in Seq(Single)
             /\ compressBuildOrders(RawOrders)[p] = aggregateWorkerTrainRuns(Reconciled(RawOrders[p]))
  BY CompressedFacts
<1> QED BY <1>1, OrderNeverAbove DEF EffectiveNeverAboveCommands

\* compressBuildOrders invents nothing: the effective chart never shows more of a unit than
\* was commanded, and never spends more.
THEOREM EffectiveAlwaysBelowCommands == ChartsSpec => []EffectiveNeverAboveCommands
<1>1. RecordingInv => EffectiveNeverAboveCommands
  BY RecordingNeverAbove
<1> QED BY <1>1, RecordingStarts, RecordingGrows, PTL DEF ChartsSpec

-----------------------------------------------------------------------------
(* Burst removal keeps what its reference keeps. *)

LEMMA TypesOfEvents ==
  /\ \A t : isCancelEventType(t) <=>
            t \in {"cancel_train", "cancel_build", "cancel_morph", "cancel_tech", "cancel_upgrade"}
  /\ \A t : isCancelEventType(t) =>
       /\ \A u \in Cancels[t] : ~isCancelEventType(u)
       /\ Cancels[t] \in SUBSET {"train", "unit_morph", "build", "land", "building_morph", "tech", "upgrade"}
  /\ \A t \in EventTypes : ~isCancelEventType(t) => dedupWindow(t) \in Nat
<1>1. DOMAIN Cancels = {"cancel_train", "cancel_build", "cancel_morph", "cancel_tech", "cancel_upgrade"}
  BY DEF Cancels
<1>2. \A t \in DOMAIN Cancels :
        Cancels[t] \in SUBSET {"train", "unit_morph", "build", "land", "building_morph", "tech", "upgrade"}
  BY DEF Cancels
<1>3. \A u \in {"train", "unit_morph", "build", "land", "building_morph", "tech", "upgrade"} :
        u \notin DOMAIN Cancels /\ dedupWindow(u) \in Nat
  BY <1>1 DEF dedupWindow
<1>4. \A t \in EventTypes : t \notin DOMAIN Cancels =>
        t \in {"train", "unit_morph", "build", "land", "building_morph", "tech", "upgrade"}
  <2>1. \A t \in EventTypes : t \notin DOMAIN Cancels => \E c \in DOMAIN Cancels : t \in Cancels[c]
    <3> SUFFICES ASSUME NEW t \in EventTypes, t \notin DOMAIN Cancels
                 PROVE  \E c \in DOMAIN Cancels : t \in Cancels[c]
      OBVIOUS
    <3>1. t \in UNION {Cancels[c] : c \in DOMAIN Cancels}
      BY DEF EventTypes
    <3> QED BY <3>1
  <2> QED BY <1>2, <2>1
<1> QED BY <1>1, <1>2, <1>3, <1>4 DEF isCancelEventType

\* The earlier events of its kind at most a window before event i.
Nearby(s, i) == {j \in 1 .. i - 1 : SameCommand(s[j], s[i]) /\ s[i].frame - s[j].frame <= dedupWindow(s[i].type)}

Keeps(s, P, i) == isCancelEventType(s[i].type) \/ \A j \in Nearby(s, i) : j \notin P

LEMMA RepeatsLastOfKept ==
  ASSUME NEW s \in Seq(Single), InFrameOrder(s), NEW i \in 1 .. Len(s), NEW out \in Seq(Single),
         NEW pos, NEW P \in SUBSET (1 .. i - 1), Picks(pos, out, s, P), ~isCancelEventType(s[i].type)
  PROVE  RepeatsLast(out, s[i]) <=> \E j \in Nearby(s, i) : j \in P
<1> DEFINE e == s[i]
           I == {k \in 1 .. Len(out) : SameCommand(out[k], e)}
           m == LastIn(I)
           W == dedupWindow(e.type)
<1>1. e \in Single /\ \A j \in 1 .. Len(s) : s[j] \in Single /\ s[j].frame \in Nat
  <2>1. \A j \in 1 .. Len(s) : s[j] \in Single
    BY ElementOfSeq
  <2>2. \A x \in Single : x.frame \in Nat
    BY DEF Single, Events
  <2> QED BY <2>1, <2>2
<1>2. W \in Nat
  BY <1>1, TypesOfEvents DEF Single, Events
<1>3. Len(out) \in Nat /\ I \in SUBSET (1 .. Len(out))
  OBVIOUS
<1>4. /\ m \in 0 .. Len(out) /\ (m = 0 <=> I = {}) /\ (\A k \in I : k <= m) /\ (I # {} => m \in I)
  <2> HIDE DEF I
  <2> QED BY <1>3, LastInFacts
<1>5. RepeatsLast(out, e) <=> m > 0 /\ e.frame - out[m].frame <= W
  BY RepeatsLastFacts
<1>6. /\ \A k \in 1 .. Len(out) : pos[k] \in P /\ out[k] = s[pos[k]] /\ pos[k] \in 1 .. i - 1 /\ pos[k] \in 1 .. Len(s)
      /\ \A j, k \in 1 .. Len(out) : j < k => pos[j] < pos[k]
      /\ \A j \in P : \E k \in 1 .. Len(out) : pos[k] = j
  <2>1. \A j \in P : j \in 1 .. i - 1 /\ j \in 1 .. Len(s)
    OBVIOUS
  <2> HIDE DEF I, m, W, e
  <2> QED BY <2>1 DEF Picks
<1>7. \A j \in 1 .. i - 1 : j \in Nearby(s, i) <=> SameCommand(s[j], e) /\ e.frame - s[j].frame <= W
  BY DEF Nearby
<1> HIDE DEF e, m, W
<1>8. ASSUME RepeatsLast(out, e) PROVE \E j \in Nearby(s, i) : j \in P
  <2>1. m \in I /\ e.frame - out[m].frame <= W
    BY <1>4, <1>5, <1>8
  <2>2. m \in 1 .. Len(out) /\ SameCommand(out[m], e)
    BY <2>1
  <2> QED BY <1>6, <1>7, <2>1, <2>2
<1>9. ASSUME NEW j \in Nearby(s, i), j \in P PROVE RepeatsLast(out, e)
  <2>1. j \in 1 .. i - 1 /\ SameCommand(s[j], e) /\ e.frame - s[j].frame <= W
    BY <1>7, <1>9
  <2>2. PICK k \in 1 .. Len(out) : pos[k] = j
    BY <1>6, <1>9
  <2>3. k \in I /\ out[k] = s[j]
    BY <1>6, <2>1, <2>2
  <2>4. m \in I /\ k <= m
    BY <1>4, <2>3
  <2>5. m \in 1 .. Len(out) /\ (k = m \/ k < m)
    BY <2>4
  <2>6. s[j].frame <= s[pos[m]].frame
    <3>1. pos[k] = pos[m] \/ pos[k] < pos[m]
      BY <1>6, <2>2, <2>5
    <3>2. pos[k] \in 1 .. Len(s) /\ pos[m] \in 1 .. Len(s)
      BY <1>6, <2>2, <2>5
    <3> QED BY <1>1, <2>2, <3>1, <3>2 DEF InFrameOrder
  <2>7. out[m] = s[pos[m]] /\ s[pos[m]].frame \in Nat /\ s[j].frame \in Nat /\ e.frame \in Nat
    BY <1>1, <1>6, <2>1, <2>2, <2>5 DEF e
  <2>8. e.frame - out[m].frame <= W
    BY <1>2, <2>1, <2>6, <2>7
  <2>9. m > 0
    BY <2>5
  <2> QED BY <1>5, <2>8, <2>9
<1> QED BY <1>8, <1>9 DEF e

LEMMA DedupKeeps ==
  ASSUME NEW s \in Seq(Single), InFrameOrder(s)
  PROVE  \E P, pos : /\ P \in SUBSET (1 .. Len(s)) /\ Picks(pos, dedupShortBurstEvents(s), s, P)
                     /\ \A i \in 1 .. Len(s) : i \in P <=> Keeps(s, P, i)
<1> DEFINE n == Len(s)
<1>1. PICK after : /\ after[0] = <<>> /\ dedupShortBurstEvents(s) = after[n]
                   /\ \A i \in 1 .. n : after[i] = KeepFirst(after[i - 1], s[i])
  BY DedupRun
<1> DEFINE Good(i) == /\ after[i] \in Seq(Single)
                      /\ \E P, pos : /\ P \in SUBSET (1 .. i) /\ Picks(pos, after[i], s, P)
                                     /\ \A k \in 1 .. i : k \in P <=> Keeps(s, P, k)
           Bad == {i \in 0 .. n : ~Good(i)}
<1>2. n \in Nat
  OBVIOUS
<1>3. Good(0)
  <2>1. <<>> \in Seq(Single) /\ {} \in SUBSET (1 .. 0) /\ \A k \in 1 .. 0 : FALSE
    OBVIOUS
  <2>2. Picks(<<>>, <<>>, s, {})
    BY NothingPicked
  <2> QED BY <1>1, <2>1, <2>2, Zenon
<1>4. ASSUME NEW i \in 1 .. n, Good(i - 1) PROVE Good(i)
  <2> DEFINE out == after[i - 1]
  <2>1. PICK P, pos : /\ P \in SUBSET (1 .. i - 1) /\ Picks(pos, out, s, P)
                      /\ \A k \in 1 .. i - 1 : k \in P <=> Keeps(s, P, k)
    BY <1>4
  <2>2. out \in Seq(Single) /\ s[i] \in Single /\ after[i] = KeepFirst(out, s[i])
    BY <1>1, <1>4, ElementOfSeq
  <2> HIDE DEF out
  <2>3. \A k \in 1 .. i : Nearby(s, k) \in SUBSET (1 .. k - 1) /\ (k \in 1 .. i - 1 \/ k = i)
    BY <1>2 DEF Nearby
  <2>4. ASSUME NEW Q, Q \in {P, P \cup {i}}, NEW k \in 1 .. i PROVE Keeps(s, Q, k) <=> Keeps(s, P, k)
    <3>1. \A j \in Nearby(s, k) : j # i
      BY <2>3
    <3>2. \A j \in Nearby(s, k) : j \in Q <=> j \in P
      BY <2>4, <3>1
    <3> QED BY <3>2 DEF Keeps
  <2>5. i \notin P
    BY <2>1
  <2>6. CASE Keeps(s, P, i)
    <3>1. ~(~isCancelEventType(s[i].type) /\ RepeatsLast(out, s[i]))
      BY <2>1, <2>2, <2>6, RepeatsLastOfKept DEF Keeps
    <3>2. after[i] = Append(out, s[i])
      BY <2>2, <3>1 DEF KeepFirst
    <3>3. Picks(Append(pos, i), Append(out, s[i]), s, P \cup {i})
      BY <2>1, <2>2, PickNext
    <3>4. Append(out, s[i]) \in Seq(Single) /\ P \cup {i} \in SUBSET (1 .. i)
      BY <2>1, <2>2
    <3>5. \A k \in 1 .. i : k \in P \cup {i} <=> Keeps(s, P \cup {i}, k)
      BY <2>1, <2>3, <2>4, <2>6
    <3> QED BY <3>2, <3>3, <3>4, <3>5
  <2>7. CASE ~Keeps(s, P, i)
    <3>1. ~isCancelEventType(s[i].type) /\ RepeatsLast(out, s[i])
      BY <2>1, <2>2, <2>7, RepeatsLastOfKept DEF Keeps
    <3>2. after[i] = out
      BY <2>2, <3>1 DEF KeepFirst
    <3>3. P \in SUBSET (1 .. i)
      BY <2>1
    <3>4. \A k \in 1 .. i : k \in P <=> Keeps(s, P, k)
      BY <2>1, <2>3, <2>5, <2>7
    <3> QED BY <2>1, <2>2, <3>2, <3>3, <3>4
  <2> QED BY <2>6, <2>7
<1>5. Bad = {}
  <2>1. Bad \in SUBSET (0 .. n) /\ 0 \notin Bad /\ \A i \in 1 .. n : i - 1 \notin Bad => i \notin Bad
    <3> HIDE DEF Good
    <3>1. \A i \in 1 .. n : i - 1 \in 0 .. n
      BY <1>2
    <3> QED BY <1>3, <1>4, <3>1
  <2> HIDE DEF Bad
  <2> QED BY <1>2, <2>1, UpTo
<1>6. Good(n)
  <2> HIDE DEF Good
  <2> QED BY <1>2, <1>5
<1> QED BY <1>1, <1>6

\* The function that BurstReference chooses.
KeptBy(kept, s) ==
  kept = [i \in DOMAIN s |-> isCancelEventType(s[i].type) \/ \A j \in Nearby(s, i) : ~kept[j]]

LEMMA KeptIsUnique ==
  ASSUME NEW E, NEW s \in Seq(E), NEW P \in SUBSET (1 .. Len(s)),
         \A i \in 1 .. Len(s) : i \in P <=> Keeps(s, P, i), NEW kept, KeptBy(kept, s)
  PROVE  \A i \in 1 .. Len(s) : kept[i] <=> i \in P
<1> DEFINE n == Len(s)
           Bad == {i \in 0 .. n : ~\A k \in 1 .. i : kept[k] <=> k \in P}
<1>1. n \in Nat /\ DOMAIN s = 1 .. n
  OBVIOUS
<1>2. ASSUME NEW i \in 1 .. n, \A k \in 1 .. i - 1 : kept[k] <=> k \in P PROVE \A k \in 1 .. i : kept[k] <=> k \in P
  <2>1. kept[i] <=> isCancelEventType(s[i].type) \/ \A j \in Nearby(s, i) : ~kept[j]
    BY <1>1 DEF KeptBy
  <2>2. \A j \in Nearby(s, i) : kept[j] <=> j \in P
    BY <1>2 DEF Nearby
  <2>3. kept[i] <=> i \in P
    BY <2>1, <2>2 DEF Keeps
  <2>4. \A k \in 1 .. i : k \in 1 .. i - 1 \/ k = i
    BY <1>1
  <2> QED BY <1>2, <2>3, <2>4
<1>3. Bad = {}
  <2>1. Bad \in SUBSET (0 .. n) /\ 0 \notin Bad /\ \A i \in 1 .. n : i - 1 \notin Bad => i \notin Bad
    <3>1. \A i \in 1 .. n : i - 1 \in 0 .. n
      BY <1>1
    <3> QED BY <1>2, <3>1
  <2> HIDE DEF Bad
  <2> QED BY <1>1, <2>1, UpTo
<1> QED BY <1>1, <1>3

LEMMA BurstsAreRemoved ==
  ASSUME NEW s \in Seq(Single), InFrameOrder(s)
  PROVE  dedupShortBurstEvents(s) = BurstReference(s)
<1>1. PICK P, pos : /\ P \in SUBSET (1 .. Len(s)) /\ Picks(pos, dedupShortBurstEvents(s), s, P)
                    /\ \A i \in 1 .. Len(s) : i \in P <=> Keeps(s, P, i)
  BY DedupKeeps
<1>2. DOMAIN s = 1 .. Len(s)
  OBVIOUS
<1> DEFINE chosen == CHOOSE kept : KeptBy(kept, s)
<1>3. KeptBy(chosen, s)
  <2> DEFINE kept == [i \in DOMAIN s |-> i \in P]
  <2>1. ASSUME NEW i \in 1 .. Len(s), NEW j \in Nearby(s, i) PROVE kept[j] <=> j \in P
    <3>1. j \in 1 .. i - 1 /\ Len(s) \in Nat
      BY DEF Nearby
    <3>2. j \in DOMAIN s
      BY <1>2, <3>1
    <3> QED BY <3>2
  <2>2. \A i \in 1 .. Len(s) : kept[i] = (isCancelEventType(s[i].type) \/ \A j \in Nearby(s, i) : ~kept[j])
    <3> TAKE i \in 1 .. Len(s)
    <3>1. kept[i] = (i \in P)
      BY <1>2
    <3>2. (\A j \in Nearby(s, i) : j \notin P) <=> (\A j \in Nearby(s, i) : ~kept[j])
      BY <2>1
    <3>3. i \in P <=> isCancelEventType(s[i].type) \/ \A j \in Nearby(s, i) : j \notin P
      BY <1>1 DEF Keeps
    <3> HIDE DEF kept
    <3>4. (i \in P) = (isCancelEventType(s[i].type) \/ \A j \in Nearby(s, i) : ~kept[j])
      BY <3>2, <3>3 DEF isCancelEventType
    <3> QED BY <3>1, <3>4
  <2>3. KeptBy(kept, s)
    BY <1>2, <2>2 DEF KeptBy
  <2> QED BY <2>3
<1>4. BurstReference(s) = Only(s, {i \in DOMAIN s : chosen[i]})
  BY Zenon DEF BurstReference, KeptBy, Nearby
<1>5. \A i \in 1 .. Len(s) : chosen[i] <=> i \in P
  <2> HIDE DEF chosen
  <2> QED BY <1>1, <1>3, KeptIsUnique
<1>6. {i \in DOMAIN s : chosen[i]} = P
  <2> HIDE DEF chosen
  <2> QED BY <1>1, <1>2, <1>5
<1>7. dedupShortBurstEvents(s) = Only(s, P)
  <2>1. dedupShortBurstEvents(s) \in Seq(Single)
    BY DedupLeavesPart
  <2> QED BY <1>1, <2>1, PickIsOnly
<1> QED BY <1>4, <1>6, <1>7

-----------------------------------------------------------------------------
(* Cancels take back what their matching says. *)

IsCancel(s, c) == c \in 1 .. Len(s) /\ isCancelEventType(s[c].type)

\* What cancel c may take back, and what of it no earlier cancel took.
MayTake(s, c) == {i \in 1 .. c - 1 : s[i].type \in Cancels[s[c].type] /\ s[c].frame - s[i].frame <= matchWindow}

FreeFor(s, took, c) == {i \in MayTake(s, c) : \A d \in 1 .. c - 1 : IsCancel(s, d) => took[d] # i}

TakesLatest(s, took, c) ==
  \/ FreeFor(s, took, c) = {} /\ took[c] = 0
  \/ took[c] \in FreeFor(s, took, c) /\ \A i \in FreeFor(s, took, c) : i <= took[c]

\* What is left of the first n events.
LeftOf(s, took, n) == {i \in 1 .. n : ~IsCancel(s, i) /\ \A c \in 1 .. n : IsCancel(s, c) => took[c] # i}

LEMMA CancelTakesLatest ==
  ASSUME NEW s \in Seq(Single), InFrameOrder(s), NEW c, IsCancel(s, c), NEW out \in Seq(Single), NEW pos, NEW took,
         Picks(pos, out, s, LeftOf(s, took, c - 1))
  PROVE  LET k == findCancelableEvent(out, s[c])
         IN  \/ k = 0 /\ FreeFor(s, took, c) = {}
             \/ /\ k \in 1 .. Len(out) /\ pos[k] \in FreeFor(s, took, c)
                /\ \A i \in FreeFor(s, took, c) : i <= pos[k]
<1> DEFINE e == s[c]
           P == LeftOf(s, took, c - 1)
           F == FreeFor(s, took, c)
           H == Cancelable(out, e)
           O == TooOld(out, e)
           hit == LastIn(H)
           old == LastIn(O)
           m == Len(out)
<1>1. /\ c \in 1 .. Len(s) /\ Len(s) \in Nat /\ isCancelEventType(e.type) /\ m \in Nat
      /\ \A j \in 1 .. Len(s) : s[j].frame \in Nat
  <2>1. \A j \in 1 .. Len(s) : s[j] \in Single
    BY ElementOfSeq
  <2>2. \A x \in Single : x.frame \in Nat
    BY DEF Single, Events
  <2> QED BY <2>1, <2>2 DEF IsCancel
<1>2. /\ \A k \in 1 .. m : pos[k] \in P /\ out[k] = s[pos[k]] /\ pos[k] \in 1 .. c - 1 /\ pos[k] \in 1 .. Len(s)
      /\ \A j, k \in 1 .. m : j < k => pos[j] < pos[k]
      /\ \A j \in P : \E k \in 1 .. m : pos[k] = j
  <2>1. \A j \in P : j \in 1 .. c - 1 /\ j \in 1 .. Len(s)
    BY <1>1 DEF LeftOf
  <2> HIDE DEF P, F, H, O, hit, old, e
  <2> QED BY <2>1 DEF Picks, P
<1>3. /\ \A k \in 1 .. m : k \in H <=> out[k].type \in Cancels[e.type]
      /\ \A k \in 1 .. m : k \in O <=> e.frame - out[k].frame > matchWindow
      /\ H \in SUBSET (1 .. m) /\ O \in SUBSET (1 .. m)
  BY DEF Cancelable, TooOld
<1>4. /\ hit \in 0 .. m /\ (hit = 0 <=> H = {}) /\ (\A k \in H : k <= hit) /\ (H # {} => hit \in H)
      /\ old \in 0 .. m /\ (old = 0 <=> O = {}) /\ (\A k \in O : k <= old) /\ (O # {} => old \in O)
  <2> HIDE DEF H, O, m
  <2> QED BY <1>1, <1>3, LastInFacts
<1>5. \A i \in 1 .. c - 1 : i \in F <=> i \in P /\ s[i].type \in Cancels[e.type] /\ e.frame - s[i].frame <= matchWindow
  <2>1. \A i \in 1 .. c - 1 : s[i].type \in Cancels[e.type] => ~IsCancel(s, i)
    BY <1>1, TypesOfEvents DEF IsCancel
  <2> QED BY <2>1 DEF FreeFor, MayTake, LeftOf
<1>6. F \in SUBSET (1 .. c - 1)
  BY DEF FreeFor, MayTake
<1>7. findCancelableEvent(out, e) = IF hit > old THEN hit ELSE 0
  BY FindCancelableFacts
<1> HIDE DEF P, F, H, O, hit, old, m, e
<1>8. \A k \in 1 .. m : /\ out[k].frame = s[pos[k]].frame /\ s[pos[k]].frame \in Nat /\ out[k].type = s[pos[k]].type
  BY <1>1, <1>2
<1>9. e.frame \in Nat
  BY <1>1 DEF e
<1>10. matchWindow \in Nat
  BY DEF matchWindow
<1>11. \A k \in 1 .. m : k \in H /\ k \notin O <=> pos[k] \in F
  <2> TAKE k \in 1 .. m
  <2>1. k \notin O <=> e.frame - s[pos[k]].frame <= matchWindow
    BY <1>3, <1>8, <1>9, <1>10
  <2> QED BY <1>2, <1>3, <1>5, <1>8, <2>1
<1>12. CASE hit > old
  <2>1. hit \in H /\ hit \notin O /\ hit \in 1 .. m
    BY <1>1, <1>3, <1>4, <1>12
  <2>2. pos[hit] \in F
    BY <1>11, <2>1
  <2>3. ASSUME NEW i \in F PROVE i <= pos[hit]
    <3>1. PICK k \in 1 .. m : pos[k] = i
      BY <1>2, <1>5, <1>6
    <3>2. k \in H
      BY <1>11, <3>1
    <3>3. k = hit \/ k < hit
      BY <1>4, <2>1, <3>2
    <3>4. pos[k] = pos[hit] \/ pos[k] < pos[hit]
      BY <1>2, <2>1, <3>3
    <3>5. pos[k] \in Nat /\ pos[hit] \in Nat
      BY <1>1, <1>2, <2>1
    <3> QED BY <3>1, <3>4, <3>5
  <2> QED BY <1>7, <1>12, <2>1, <2>2, <2>3 DEF F, e, m
<1>13. CASE ~(hit > old)
  <2>1. ASSUME NEW i \in F PROVE FALSE
    <3>1. PICK k \in 1 .. m : pos[k] = i
      BY <1>2, <1>5, <1>6
    <3>2. k \in H /\ k \notin O
      BY <1>11, <3>1
    <3>3. k <= hit /\ hit <= old
      BY <1>4, <1>13, <3>2
    <3>4. old \in O /\ old \in 1 .. m
      BY <1>3, <1>4, <3>3
    <3>5. k < old
      BY <3>2, <3>3, <3>4, <1>4
    <3>6. pos[k] < pos[old] /\ pos[k] \in 1 .. Len(s) /\ pos[old] \in 1 .. Len(s)
      BY <1>2, <3>4, <3>5
    <3>7. s[pos[k]].frame <= s[pos[old]].frame
      BY <3>6 DEF InFrameOrder
    <3>8. e.frame - s[pos[old]].frame > matchWindow
      BY <1>3, <1>8, <3>4
    <3>9. e.frame - s[pos[k]].frame > matchWindow
      BY <1>8, <1>9, <1>10, <3>4, <3>7, <3>8
    <3>10. k \in O
      BY <1>3, <1>8, <3>9
    <3> QED BY <3>2, <3>10
  <2>2. F = {}
    BY <2>1
  <2> QED BY <1>7, <1>13, <2>2 DEF F, e
<1> QED BY <1>12, <1>13

\* A later cancel changes nothing for the earlier ones.
LEMMA EarlierUnchanged ==
  ASSUME NEW s, NEW n \in Nat, NEW i \in 1 .. n, NEW took \in [1 .. n -> 0 .. n], NEW x \in 0 .. n, NEW c \in 1 .. i - 1
  PROVE  TakesLatest(s, [took EXCEPT ![i] = x], c) <=> TakesLatest(s, took, c)
<1> DEFINE next == [took EXCEPT ![i] = x]
<1>1. \A d \in 1 .. c - 1 : next[d] = took[d]
  OBVIOUS
<1>2. next[c] = took[c]
  OBVIOUS
<1> HIDE DEF next
<1>3. FreeFor(s, next, c) = FreeFor(s, took, c)
  BY <1>1 DEF FreeFor
<1>4. TakesLatest(s, next, c) <=> TakesLatest(s, took, c)
  BY <1>2, <1>3 DEF TakesLatest
<1> QED BY <1>4 DEF next

LEMMA CancelsMatch ==
  ASSUME NEW s \in Seq(Single), InFrameOrder(s)
  PROVE  \E took, pos :
            /\ took \in [1 .. Len(s) -> 0 .. Len(s)]
            /\ \A c \in 1 .. Len(s) : IsCancel(s, c) => TakesLatest(s, took, c)
            /\ Picks(pos, reconcileCancelPairs(s), s, LeftOf(s, took, Len(s)))
<1> DEFINE n == Len(s)
<1>1. PICK after : /\ after[0] = <<>> /\ reconcileCancelPairs(s) = after[n]
                   /\ \A i \in 1 .. n : after[i] = TakeBack(after[i - 1], s[i])
  BY ReconcileRun
<1>2. n \in Nat /\ \A i \in 0 .. n : after[i] \in Seq(Single)
  BY <1>1, TakeBackSteps
<1> DEFINE Good(i) == \E took, pos : /\ took \in [1 .. n -> 0 .. n]
                                     /\ \A c \in 1 .. i : IsCancel(s, c) => TakesLatest(s, took, c)
                                     /\ Picks(pos, after[i], s, LeftOf(s, took, i))
           Bad == {i \in 0 .. n : ~Good(i)}
<1>3. Good(0)
  <2> DEFINE took == [c \in 1 .. n |-> 0]
  <2>1. took \in [1 .. n -> 0 .. n]
    BY <1>2
  <2>2. LeftOf(s, took, 0) = {} /\ \A c \in 1 .. 0 : FALSE
    BY DEF LeftOf
  <2>3. Picks(<<>>, <<>>, s, {})
    BY NothingPicked
  <2> HIDE DEF took
  <2> QED BY <1>1, <2>1, <2>2, <2>3
<1>4. ASSUME NEW i \in 1 .. n, Good(i - 1) PROVE Good(i)
  <2> DEFINE out == after[i - 1]
             e == s[i]
  <2>1. PICK took, pos : /\ took \in [1 .. n -> 0 .. n]
                         /\ \A c \in 1 .. i - 1 : IsCancel(s, c) => TakesLatest(s, took, c)
                         /\ Picks(pos, out, s, LeftOf(s, took, i - 1))
    BY <1>4
  <2>2. out \in Seq(Single) /\ after[i] = TakeBack(out, e) /\ (IsCancel(s, i) <=> isCancelEventType(e.type))
    <3>1. i - 1 \in 0 .. n
      BY <1>2
    <3> QED BY <1>1, <1>2, <3>1 DEF IsCancel
  <2> HIDE DEF out
  <2>3. /\ \A c \in 1 .. i : c \in 1 .. i - 1 \/ c = i
        /\ i \notin 1 .. i - 1 /\ i \in 1 .. i /\ \A c \in 1 .. i - 1 : c \in 1 .. i
    BY <1>2
  <2>4. CASE ~IsCancel(s, i)
    <3>1. after[i] = Append(out, e)
      BY <2>2, <2>4 DEF TakeBack
    <3>2. LeftOf(s, took, i - 1) \in SUBSET (1 .. i - 1)
      BY DEF LeftOf
    <3>3. \A c \in 1 .. i - 1 : IsCancel(s, c) => took[c] # i
      <4>1. ASSUME NEW c \in 1 .. i - 1, IsCancel(s, c), took[c] = i PROVE FALSE
        <5>1. TakesLatest(s, took, c)
          BY <2>1, <4>1
        <5>2. took[c] = 0 \/ took[c] \in 1 .. c - 1
          BY <5>1 DEF TakesLatest, FreeFor, MayTake
        <5> QED BY <1>2, <4>1, <5>2
      <4> QED BY <4>1
    <3>4. LeftOf(s, took, i) = LeftOf(s, took, i - 1) \cup {i}
      BY <2>3, <2>4, <3>3 DEF LeftOf
    <3>5. Picks(Append(pos, i), Append(out, e), s, LeftOf(s, took, i - 1) \cup {i})
      BY <2>1, <2>2, <3>2, PickNext
    <3>6. \A c \in 1 .. i : IsCancel(s, c) => TakesLatest(s, took, c)
      BY <2>1, <2>3, <2>4
    <3> QED BY <2>1, <3>1, <3>4, <3>5, <3>6
  <2>5. CASE IsCancel(s, i)
    <3> DEFINE k == findCancelableEvent(out, e)
               x == IF k = 0 THEN 0 ELSE pos[k]
               next == [took EXCEPT ![i] = x]
    <3>1. \/ k = 0 /\ FreeFor(s, took, i) = {}
          \/ /\ k \in 1 .. Len(out) /\ pos[k] \in FreeFor(s, took, i)
             /\ \A j \in FreeFor(s, took, i) : j <= pos[k]
      BY <2>1, <2>2, <2>5, CancelTakesLatest
    <3>2. after[i] = IF k = 0 THEN out ELSE RemoveAt(out, k)
      BY <2>2, <2>5 DEF TakeBack
    <3> HIDE DEF k
    <3>3. x \in 0 .. n /\ x # i /\ (x = 0 \/ x \in FreeFor(s, took, i)) /\ (k # 0 => x # 0)
      <4>1. FreeFor(s, took, i) \in SUBSET (1 .. i - 1)
        BY DEF FreeFor, MayTake
      <4>2. k = 0 \/ pos[k] \in 1 .. i - 1
        BY <3>1, <4>1
      <4> QED BY <1>2, <3>1, <4>2
    <3>4. next \in [1 .. n -> 0 .. n] /\ next[i] = x /\ \A c \in 1 .. i - 1 : next[c] = took[c]
      <4> HIDE DEF x
      <4> QED BY <2>1, <2>3, <3>3
    <3>5. TakesLatest(s, next, i)
      <4>1. FreeFor(s, next, i) = FreeFor(s, took, i)
        <5> HIDE DEF next
        <5> QED BY <3>4 DEF FreeFor
      <4> HIDE DEF next
      <4>2. k = 0 => next[i] = 0 /\ FreeFor(s, next, i) = {}
        BY <3>1, <3>4, <4>1
      <4>3. k # 0 => next[i] \in FreeFor(s, next, i) /\ \A j \in FreeFor(s, next, i) : j <= next[i]
        BY <3>1, <3>4, <4>1
      <4> QED BY <4>2, <4>3 DEF TakesLatest
    <3>6. ASSUME NEW c \in 1 .. i, IsCancel(s, c) PROVE TakesLatest(s, next, c)
      <4>1. CASE c = i
        BY <3>5, <4>1
      <4>2. CASE c \in 1 .. i - 1
        <5> HIDE DEF x
        <5>1. TakesLatest(s, took, c)
          BY <2>1, <3>6, <4>2
        <5> QED BY <1>2, <2>1, <3>3, <4>2, <5>1, EarlierUnchanged
      <4> QED BY <2>3, <4>1, <4>2
    <3>7. LeftOf(s, next, i) = LeftOf(s, took, i - 1) \ {x}
      <4> HIDE DEF next, x
      <4>1. ASSUME NEW j \in LeftOf(s, next, i) PROVE j \in LeftOf(s, took, i - 1) \ {x}
        BY <2>3, <2>5, <3>4, <4>1 DEF LeftOf
      <4>2. ASSUME NEW j \in LeftOf(s, took, i - 1) \ {x} PROVE j \in LeftOf(s, next, i)
        BY <2>3, <2>5, <3>4, <4>2 DEF LeftOf
      <4> QED BY <4>1, <4>2
    <3>8. CASE k = 0
      <4>1. LeftOf(s, took, i - 1) \ {0} = LeftOf(s, took, i - 1)
        BY DEF LeftOf
      <4>2. Picks(pos, after[i], s, LeftOf(s, next, i))
        <5> HIDE DEF next
        <5> QED BY <2>1, <3>2, <3>7, <3>8, <4>1
      <4> HIDE DEF next
      <4> QED BY <3>4, <3>6, <4>2
    <3>9. CASE k # 0
      <4>1. k \in 1 .. Len(out) /\ x = pos[k] /\ after[i] = RemoveAt(out, k)
        BY <3>1, <3>2, <3>9
      <4>2. Picks(RemoveAt(pos, k), RemoveAt(out, k), s, LeftOf(s, took, i - 1) \ {pos[k]})
        BY <2>1, <2>2, <4>1, PickWithout
      <4> HIDE DEF next, x
      <4> QED BY <3>4, <3>6, <3>7, <4>1, <4>2
    <3> QED BY <3>8, <3>9
  <2> QED BY <2>4, <2>5
<1>5. Bad = {}
  <2>1. Bad \in SUBSET (0 .. n) /\ 0 \notin Bad /\ \A i \in 1 .. n : i - 1 \notin Bad => i \notin Bad
    <3> HIDE DEF Good
    <3>1. \A i \in 1 .. n : i - 1 \in 0 .. n
      BY <1>2
    <3> QED BY <1>3, <1>4, <3>1
  <2> HIDE DEF Bad
  <2> QED BY <1>2, <2>1, UpTo
<1>6. Good(n)
  <2> HIDE DEF Good
  <2> QED BY <1>2, <1>5
<1> QED BY <1>1, <1>6

\* The matching of CancelsMatchReference for the events of one player.
MatchedBy(events, result) ==
  LET cancels == {c \in DOMAIN events : isCancelEventType(events[c].type)}
      May(c) == {i \in 1 .. c - 1 : events[i].type \in Cancels[events[c].type]
                                      /\ events[c].frame - events[i].frame <= matchWindow}
      Free(took, c) == {i \in May(c) : \A d \in cancels : d < c => took[d] # i}
      Latest(took, c) == \/ Free(took, c) = {} /\ took[c] = 0
                         \/ /\ took[c] \in Free(took, c)
                            /\ \A i \in Free(took, c) : i <= took[c]
      Left(took) == {i \in DOMAIN events \ cancels : \A c \in cancels : took[c] # i}
  IN  \E took \in [cancels -> {0} \cup DOMAIN events] :
         /\ \A c \in cancels : Latest(took, c)
         /\ result = Only(events, Left(took))

LEMMA CancelsAreMatched ==
  ASSUME NEW s \in Seq(Single), InFrameOrder(s)
  PROVE  MatchedBy(s, reconcileCancelPairs(s))
<1> DEFINE n == Len(s)
           cancels == {c \in DOMAIN s : isCancelEventType(s[c].type)}
           May(c) == {i \in 1 .. c - 1 : s[i].type \in Cancels[s[c].type]
                                           /\ s[c].frame - s[i].frame <= matchWindow}
           Free(took, c) == {i \in May(c) : \A d \in cancels : d < c => took[d] # i}
           Latest(took, c) == \/ Free(took, c) = {} /\ took[c] = 0
                              \/ /\ took[c] \in Free(took, c)
                                 /\ \A i \in Free(took, c) : i <= took[c]
           Left(took) == {i \in DOMAIN s \ cancels : \A c \in cancels : took[c] # i}
<1>1. PICK took, pos :
            /\ took \in [1 .. n -> 0 .. n]
            /\ \A c \in 1 .. n : IsCancel(s, c) => TakesLatest(s, took, c)
            /\ Picks(pos, reconcileCancelPairs(s), s, LeftOf(s, took, n))
  BY CancelsMatch
<1>2. n \in Nat /\ DOMAIN s = 1 .. n /\ \A c : c \in cancels <=> IsCancel(s, c)
  BY DEF IsCancel
<1> DEFINE t == [c \in cancels |-> took[c]]
<1>3. t \in [cancels -> {0} \cup DOMAIN s] /\ \A c \in cancels : t[c] = took[c]
  <2>1. \A c \in 1 .. n : took[c] \in 0 .. n
    BY <1>1
  <2>2. \A c \in cancels : took[c] \in {0} \cup DOMAIN s
    <3>1. \A c \in cancels : c \in 1 .. n
      BY <1>2
    <3>2. \A i \in 0 .. n : i \in {0} \cup 1 .. n
      BY <1>2
    <3> HIDE DEF cancels
    <3> QED BY <1>2, <2>1, <3>1, <3>2
  <2> HIDE DEF cancels
  <2> QED BY <2>2
<1> HIDE DEF t
<1>4. ASSUME NEW c \in cancels PROVE Free(t, c) = FreeFor(s, took, c)
  <2>1. May(c) = MayTake(s, c)
    BY DEF MayTake
  <2>2. c \in 1 .. n
    BY <1>2
  <2>3. \A d : d \in cancels /\ d < c <=> d \in 1 .. c - 1 /\ IsCancel(s, d)
    <3>1. \A d : IsCancel(s, d) => d \in 1 .. n
      BY DEF IsCancel
    <3>2. \A d \in 1 .. n : d < c <=> d \in 1 .. c - 1
      BY <1>2, <2>2
    <3>3. \A d \in 1 .. c - 1 : d \in 1 .. n
      BY <1>2, <2>2
    <3> HIDE DEF cancels
    <3> QED BY <1>2, <3>1, <3>2, <3>3
  <2>4. ASSUME NEW i
        PROVE  (\A d \in cancels : d < c => t[d] # i) <=> (\A d \in 1 .. c - 1 : IsCancel(s, d) => took[d] # i)
    <3> HIDE DEF cancels
    <3> QED BY <1>3, <2>3
  <2> HIDE DEF May, cancels
  <2> QED BY <2>1, <2>4 DEF FreeFor
<1>5. ASSUME NEW c \in cancels PROVE Latest(t, c)
  <2>1. TakesLatest(s, took, c)
    BY <1>1, <1>2, <1>5
  <2>2. t[c] = took[c]
    BY <1>3
  <2> HIDE DEF Free, cancels
  <2> QED BY <1>4, <2>1, <2>2 DEF TakesLatest
<1>6. Left(t) = LeftOf(s, took, n)
  <2>1. \A i : (\A c \in cancels : t[c] # i) <=> (\A c \in 1 .. n : IsCancel(s, c) => took[c] # i)
    <3>1. \A d : IsCancel(s, d) => d \in 1 .. n
      BY DEF IsCancel
    <3> HIDE DEF cancels
    <3> QED BY <1>2, <1>3, <3>1
  <2> HIDE DEF cancels
  <2> QED BY <1>2, <2>1 DEF LeftOf
<1>7. reconcileCancelPairs(s) = Only(s, Left(t))
  <2>1. reconcileCancelPairs(s) \in Seq(Single)
    BY ReconcileLeavesPart
  <2> HIDE DEF Left
  <2> QED BY <1>1, <1>6, <2>1, PickIsOnly
<1> QED BY <1>3, <1>5, <1>7 DEF MatchedBy

-----------------------------------------------------------------------------
(* Joining keeps every worker. *)

\* What burst removal leaves: two commands of a kind are more than a window apart.
Spaced(s) == \A j, k \in 1 .. Len(s) :
               j < k /\ s[k].type = "train" /\ SameCommand(s[j], s[k]) => s[k].frame - s[j].frame > 0

LEMMA DedupSpaces ==
  ASSUME NEW s \in Seq(Single), InFrameOrder(s)
  PROVE  Spaced(dedupShortBurstEvents(s))
<1> DEFINE d == dedupShortBurstEvents(s)
<1>1. PICK P, pos : /\ P \in SUBSET (1 .. Len(s)) /\ Picks(pos, d, s, P)
                    /\ \A i \in 1 .. Len(s) : i \in P <=> Keeps(s, P, i)
  BY DedupKeeps
<1> HIDE DEF d
<1>2. SUFFICES ASSUME NEW j \in 1 .. Len(d), NEW k \in 1 .. Len(d), j < k, d[k].type = "train", SameCommand(d[j], d[k])
      PROVE  d[k].frame - d[j].frame > 0
  BY DEF Spaced, d
<1>3. /\ pos[j] < pos[k] /\ pos[j] \in P /\ pos[k] \in P /\ d[j] = s[pos[j]] /\ d[k] = s[pos[k]]
  BY <1>1, <1>2 DEF Picks
<1> DEFINE x == pos[j]
           y == pos[k]
<1>4. x < y /\ x \in 1 .. Len(s) /\ y \in 1 .. Len(s) /\ x \in P /\ y \in P
  BY <1>1, <1>3
<1>5. s[y].type = "train" /\ SameCommand(s[x], s[y])
  BY <1>2, <1>3
<1> HIDE DEF x, y
<1>6. ~isCancelEventType(s[y].type) /\ dedupWindow(s[y].type) = 8
  BY <1>5, TypesOfEvents DEF dedupWindow
<1>7. x \notin Nearby(s, y)
  BY <1>1, <1>4, <1>6 DEF Keeps
<1>8. x \in 1 .. y - 1
  BY <1>4
<1>9. ~(s[y].frame - s[x].frame <= 8)
  BY <1>5, <1>6, <1>7, <1>8 DEF Nearby
<1>10. s[y].frame \in Nat /\ s[x].frame \in Nat
  <2>1. s[y] \in Single /\ s[x] \in Single
    BY <1>4, ElementOfSeq
  <2> QED BY <2>1 DEF Single, Events
<1>11. s[y].frame - s[x].frame > 0
  BY <1>9, <1>10
<1> QED BY <1>3, <1>11 DEF x, y

LEMMA PartSpaced ==
  ASSUME NEW E, NEW s \in Seq(E), NEW out \in Seq(E), IsPart(out, s), Spaced(s)
  PROVE  Spaced(out)
<1> SUFFICES ASSUME NEW j \in 1 .. Len(out), NEW k \in 1 .. Len(out), j < k, out[k].type = "train",
                    SameCommand(out[j], out[k])
             PROVE  out[k].frame - out[j].frame > 0
  BY DEF Spaced
<1>1. PICK i \in 1 .. Len(s), l \in 1 .. Len(s) : i < l /\ out[j] = s[i] /\ out[k] = s[l]
  <2>1. \A x, y \in 1 .. Len(out) : x < y =>
          \E i, l \in 1 .. Len(s) : i < l /\ out[x] = s[i] /\ out[y] = s[l]
    BY PartKeepsOrder
  <2> QED BY <2>1, Zenon
<1>2. s[l].type = "train" /\ SameCommand(s[i], s[l])
  BY <1>1
<1>3. s[l].frame - s[i].frame > 0
  BY <1>1, <1>2 DEF Spaced
<1> QED BY <1>1, <1>3

\* What a joined run keeps of its workers.
RunFits(out, k) ==
  /\ isWorkerUnit(out[k].item)
  /\ out[k].end - out[k].frame \in 1 .. runWindow
  /\ k < Len(out) => out[k].end <= out[k + 1].frame

LEMMA JoinKeepsRuns ==
  ASSUME NEW s \in Seq(Single), InFrameOrder(s), Spaced(s)
  PROVE  LET order == aggregateWorkerTrainRuns(s)
         IN  /\ order \in Seq(Events)
             /\ \A k \in 1 .. Len(order) : order[k].count > 0 /\ (order[k].count > 1 => RunFits(order, k))
<1> DEFINE n == Len(s)
<1>1. PICK after : /\ after[0] = <<>> /\ aggregateWorkerTrainRuns(s) = after[n]
                   /\ \A i \in 1 .. n : after[i] = JoinWorker(after[i - 1], s[i])
  BY JoinRun
<1>2. n \in Nat /\ \A i \in 0 .. n : after[i] \in Seq(Events)
  BY <1>1, JoinSteps
\* Every event of the order began with a command of it, every run ended with one.
<1> DEFINE Began(out, i) == \A k \in 1 .. Len(out) :
                              \E j \in 1 .. i : s[j].frame = out[k].frame /\ SameCommand(s[j], out[k])
           Ended(out, i) == \A k \in 1 .. Len(out) : out[k].count > 1 => \E j \in 1 .. i : s[j].frame = out[k].end
           Fits(out) == \A k \in 1 .. Len(out) : out[k].count > 0 /\ (out[k].count > 1 => RunFits(out, k))
           Good(i) == Began(after[i], i) /\ Ended(after[i], i) /\ Fits(after[i])
           Bad == {i \in 0 .. n : ~Good(i)}
<1>3. Good(0)
  <2>1. \A k \in 1 .. Len(after[0]) : FALSE
    BY <1>1
  <2> QED BY <2>1
<1>4. ASSUME NEW i \in 1 .. n, Good(i - 1) PROVE Good(i)
  <2> DEFINE out == after[i - 1]
             e == s[i]
             m == Len(out)
  <2>1. /\ out \in Seq(Events) /\ e \in Single /\ after[i] = JoinWorker(out, e) /\ m \in Nat
        /\ e.frame \in Nat
    <3>1. i - 1 \in 0 .. n
      BY <1>2
    <3>2. e \in Single
      BY ElementOfSeq
    <3>3. \A x \in Single : x.frame \in Nat
      BY DEF Single, Events
    <3> QED BY <1>1, <1>2, <3>1, <3>2, <3>3
  <2>2. Began(out, i - 1) /\ Ended(out, i - 1) /\ Fits(out)
    BY <1>4
  <2>3. \A k \in 1 .. m : out[k].frame \in Nat /\ out[k].count \in Nat /\ out[k].end \in Nat
    <3>1. \A k \in 1 .. m : out[k] \in Events
      BY <2>1, ElementOfSeq
    <3>2. \A x \in Events : x.frame \in Nat /\ x.count \in Nat /\ x.end \in Nat
      BY DEF Events
    <3> QED BY <3>1, <3>2
  <2>4. \A j \in 1 .. i - 1 : j \in 1 .. i /\ j < i /\ j \in 1 .. n /\ s[j].frame <= e.frame
    BY <1>2 DEF InFrameOrder
  <2> HIDE DEF out, e
  <2>5. CASE ~ContinuesRun(out, e)
    <3> DEFINE one == [e EXCEPT !.count = 1]
    <3>1. after[i] = Append(out, one) /\ one \in Events /\ one.count = 1 /\ one.frame = e.frame /\ SameCommand(e, one)
      <4>1. e.count = 0
        BY <2>1 DEF Single
      <4> QED BY <2>1, <2>5, <4>1 DEF JoinWorker, Single, Events, SameCommand
    <3> HIDE DEF one
    <3> DEFINE new == Append(out, one)
    <3>2. /\ Len(new) = m + 1 /\ new[m + 1] = one /\ \A k \in 1 .. m : new[k] = out[k]
      BY <2>1, <3>1, AppendProperties
    <3> HIDE DEF new, m
    <3>3. \A k \in 1 .. m + 1 : k \in 1 .. m \/ k = m + 1
      BY <2>1
    <3>4. Began(new, i)
      <4> TAKE k \in 1 .. Len(new)
      <4>1. CASE k \in 1 .. m
        <5>1. PICK j \in 1 .. i - 1 : s[j].frame = out[k].frame /\ SameCommand(s[j], out[k])
          BY <2>2, <4>1 DEF m
        <5> QED BY <2>4, <3>2, <4>1, <5>1
      <4>2. CASE k = m + 1
        <5>1. i \in 1 .. i
          BY <1>2
        <5> QED BY <3>1, <3>2, <4>2, <5>1 DEF e
      <4> QED BY <3>2, <3>3, <4>1, <4>2
    <3>5. Ended(new, i)
      <4> SUFFICES ASSUME NEW k \in 1 .. Len(new), new[k].count > 1 PROVE \E j \in 1 .. i : s[j].frame = new[k].end
        OBVIOUS
      <4>1. k \in 1 .. m
        BY <3>1, <3>2, <3>3
      <4>2. PICK j \in 1 .. i - 1 : s[j].frame = out[k].end
        BY <2>2, <3>2, <4>1 DEF m
      <4> QED BY <2>4, <3>2, <4>1, <4>2
    <3>6. Fits(new)
      <4> SUFFICES ASSUME NEW k \in 1 .. Len(new) PROVE new[k].count > 0 /\ (new[k].count > 1 => RunFits(new, k))
        OBVIOUS
      <4>1. CASE k = m + 1
        BY <3>1, <3>2, <4>1
      <4>2. CASE k \in 1 .. m
        <5>1. new[k] = out[k] /\ out[k].count > 0 /\ (out[k].count > 1 => RunFits(out, k))
          BY <2>2, <3>2, <4>2 DEF m
        <5>2. ASSUME out[k].count > 1 PROVE RunFits(new, k)
          <6>1. RunFits(out, k)
            BY <5>1, <5>2
          <6>2. isWorkerUnit(new[k].item) /\ new[k].end - new[k].frame \in 1 .. runWindow
            BY <5>1, <6>1 DEF RunFits
          <6>3. new[k].end <= new[k + 1].frame
            <7>1. CASE k < m
              <8>1. k + 1 \in 1 .. m
                BY <2>1, <4>2, <7>1
              <8> QED BY <3>2, <4>2, <6>1, <7>1, <8>1 DEF RunFits, m
            <7>2. CASE ~(k < m)
              <8>1. k = m
                BY <2>1, <4>2, <7>2
              <8>2. PICK j \in 1 .. i - 1 : s[j].frame = out[k].end
                BY <2>2, <4>2, <5>2 DEF m
              <8> QED BY <2>4, <3>1, <3>2, <4>2, <8>1, <8>2
            <7> QED BY <7>1, <7>2
          <6> QED BY <6>2, <6>3 DEF RunFits
        <5> QED BY <5>1, <5>2
      <4> QED BY <3>2, <3>3, <4>1, <4>2
    <3> QED BY <3>1, <3>4, <3>5, <3>6 DEF new
  <2>6. CASE ContinuesRun(out, e)
    <3> DEFINE front == Front(out)
               last == Last(out)
               joined == Joined(last, e)
               new == Append(front, joined)
    <3>1. /\ after[i] = new /\ out # <<>> /\ e.type = "train" /\ isWorkerUnit(e.item) /\ SameCommand(last, e)
          /\ e.frame - last.frame <= runWindow
      BY <2>1, <2>6 DEF JoinWorker, ContinuesRun
    <3>2. /\ front \in Seq(Events) /\ Len(front) = m - 1 /\ m \in Nat \ {0}
          /\ \A k \in 1 .. m - 1 : front[k] = out[k]
          /\ last \in Events /\ last = out[m]
      BY <2>1, <3>1, FrontFacts
    <3>3. joined \in Events
      <4>1. e \in Events
        BY <2>1 DEF Single
      <4> QED BY <3>2, <4>1, JoinedIsEvent
    <3>4. /\ joined.count = last.count + 1 /\ joined.end = e.frame /\ joined.frame = last.frame
          /\ joined.item = last.item /\ joined.type = last.type
      BY <3>2 DEF Joined, Events
    <3> HIDE DEF front, last, joined, m
    <3>5. /\ Len(new) = m /\ new[m] = joined /\ \A k \in 1 .. m - 1 : new[k] = out[k]
      <4>1. /\ Len(new) = (m - 1) + 1 /\ new[(m - 1) + 1] = joined /\ \A k \in 1 .. m - 1 : new[k] = front[k]
        BY <3>2, <3>3, AppendProperties
      <4>2. (m - 1) + 1 = m
        BY <3>2
      <4> QED BY <3>2, <4>1, <4>2
    <3> HIDE DEF new
    <3>6. m \in 1 .. m /\ \A k \in 1 .. m : k \in 1 .. m - 1 \/ k = m
      BY <3>2
    <3>7. PICK first \in 1 .. i - 1 : s[first].frame = last.frame /\ SameCommand(s[first], last)
      BY <2>2, <3>2, <3>6 DEF m
    <3>8. e.frame - last.frame > 0
      <4>1. SameCommand(s[first], e)
        BY <3>1, <3>7 DEF SameCommand
      <4>2. first \in 1 .. n /\ first < i /\ s[i].type = "train" /\ SameCommand(s[first], s[i])
        BY <2>4, <3>1, <4>1 DEF e
      <4>3. s[i].frame - s[first].frame > 0
        BY <4>2 DEF Spaced
      <4> QED BY <3>7, <4>3 DEF e
    <3>9. last.frame \in Nat /\ last.count \in Nat /\ last.count > 0
      BY <2>2, <2>3, <3>2, <3>6 DEF m
    <3>10. Began(new, i)
      <4> TAKE k \in 1 .. Len(new)
      <4>1. CASE k = m
        <5>1. s[first].frame = new[k].frame /\ SameCommand(s[first], new[k])
          BY <3>4, <3>5, <3>7, <4>1 DEF SameCommand
        <5> QED BY <2>4, <5>1
      <4>2. CASE k \in 1 .. m - 1
        <5>1. k \in 1 .. m
          BY <3>2, <4>2
        <5>2. PICK j \in 1 .. i - 1 : s[j].frame = out[k].frame /\ SameCommand(s[j], out[k])
          BY <2>2, <5>1 DEF m
        <5> QED BY <2>4, <3>5, <4>2, <5>2
      <4> QED BY <3>5, <3>6, <4>1, <4>2
    <3>11. Ended(new, i)
      <4> SUFFICES ASSUME NEW k \in 1 .. Len(new), new[k].count > 1 PROVE \E j \in 1 .. i : s[j].frame = new[k].end
        OBVIOUS
      <4>1. CASE k = m
        <5>1. i \in 1 .. i
          BY <1>2
        <5> QED BY <3>4, <3>5, <4>1, <5>1 DEF e
      <4>2. CASE k \in 1 .. m - 1
        <5>1. k \in 1 .. m
          BY <3>2, <4>2
        <5>2. PICK j \in 1 .. i - 1 : s[j].frame = out[k].end
          BY <2>2, <3>5, <4>2, <5>1 DEF m
        <5> QED BY <2>4, <3>5, <4>2, <5>2
      <4> QED BY <3>5, <3>6, <4>1, <4>2
    <3>12. Fits(new)
      <4> SUFFICES ASSUME NEW k \in 1 .. Len(new) PROVE new[k].count > 0 /\ (new[k].count > 1 => RunFits(new, k))
        OBVIOUS
      <4>1. CASE k = m
        <5>1. new[k].count > 0
          BY <3>4, <3>5, <3>9, <4>1
        <5>2. isWorkerUnit(new[k].item)
          BY <3>1, <3>4, <3>5, <4>1 DEF SameCommand
        <5>3. new[k].end - new[k].frame \in 1 .. runWindow
          <6>1. new[k].end - new[k].frame = e.frame - last.frame
            BY <3>4, <3>5, <4>1
          <6>2. \A a, b \in Nat : a - b > 0 /\ a - b <= 120 => a - b \in 1 .. 120
            OBVIOUS
          <6>3. e.frame - last.frame \in 1 .. 120
            <7>1. e.frame \in Nat /\ last.frame \in Nat /\ e.frame - last.frame > 0 /\ e.frame - last.frame <= 120
              BY <2>1, <3>1, <3>8, <3>9 DEF runWindow
            <7> QED BY <6>2, <7>1
          <6> QED BY <6>1, <6>3 DEF runWindow
        <5>4. ~(k < Len(new))
          BY <3>2, <3>5, <4>1
        <5> QED BY <5>1, <5>2, <5>3, <5>4 DEF RunFits
      <4>2. CASE k \in 1 .. m - 1
        <5>1. k \in 1 .. m /\ k < m /\ k + 1 \in 1 .. m
          BY <3>2, <4>2
        <5>2. new[k] = out[k] /\ out[k].count > 0 /\ (out[k].count > 1 => RunFits(out, k))
          BY <2>2, <3>5, <4>2, <5>1 DEF m
        <5>3. new[k + 1].frame = out[k + 1].frame
          <6>1. CASE k + 1 = m
            BY <3>2, <3>4, <3>5, <6>1
          <6>2. CASE k + 1 \in 1 .. m - 1
            BY <3>5, <6>2
          <6> QED BY <3>6, <5>1, <6>1, <6>2
        <5> QED BY <3>5, <5>1, <5>2, <5>3 DEF RunFits, m
      <4> QED BY <3>5, <3>6, <4>1, <4>2
    <3> QED BY <3>1, <3>10, <3>11, <3>12
  <2> QED BY <2>5, <2>6
<1>5. Bad = {}
  <2>1. Bad \in SUBSET (0 .. n) /\ 0 \notin Bad /\ \A i \in 1 .. n : i - 1 \notin Bad => i \notin Bad
    <3> HIDE DEF Good
    <3>1. \A i \in 1 .. n : i - 1 \in 0 .. n
      BY <1>2
    <3> QED BY <1>3, <1>4, <3>1
  <2> HIDE DEF Bad
  <2> QED BY <1>2, <2>1, UpTo
<1>6. Good(n)
  <2> HIDE DEF Good
  <2> QED BY <1>2, <1>5
<1> QED BY <1>1, <1>2, <1>6

-----------------------------------------------------------------------------
(* The passes match their references on every recording. *)

\* The events that went into the order, an event of its own counting for one.
CountWeight == [e \in Events |-> CountOf(e)]

LEMMA CountsJoinUp == JoinsUp(CountWeight)
<1>1. ASSUME NEW e \in Events PROVE CountWeight[e] = CountOf(e) /\ CountOf(e) \in Nat
  BY EventNumbers DEF CountWeight
<1>2. CountWeight \in [Events -> Nat]
  BY <1>1 DEF CountWeight
<1>3. ASSUME NEW e \in Single PROVE CountWeight[[e EXCEPT !.count = 1]] = CountWeight[e]
  <2> DEFINE one == [e EXCEPT !.count = 1]
  <2>1. e \in Events /\ e.count = 0
    BY DEF Single
  <2>2. one \in Events /\ one.count = 1
    BY <2>1 DEF Events
  <2> HIDE DEF one
  <2>3. CountOf(one) = 1 /\ CountOf(e) = 1
    BY <2>1, <2>2 DEF CountOf
  <2>4. CountWeight[one] = CountWeight[e]
    BY <1>1, <2>1, <2>2, <2>3
  <2> QED BY <2>4 DEF one
<1>4. ASSUME NEW last \in Events, NEW e \in Single, last.count > 0
      PROVE  CountWeight[Joined(last, e)] = CountWeight[last] + CountWeight[e]
  <2>1. e \in Events /\ e.count = 0 /\ last.count \in Nat
    BY DEF Single, Events
  <2>2. Joined(last, e) \in Events
    BY <2>1, JoinedIsEvent
  <2>3. Joined(last, e).count = last.count + 1
    BY DEF Joined, Events
  <2>4. CountOf(Joined(last, e)) = last.count + 1 /\ CountOf(last) = last.count /\ CountOf(e) = 1
    BY <1>4, <2>1, <2>3 DEF CountOf
  <2> QED BY <1>1, <2>1, <2>2, <2>4
<1> QED BY <1>2, <1>3, <1>4 DEF JoinsUp

\* The weight of a sequence of single events is their number.
LEMMA SinglesCountOne ==
  ASSUME NEW s \in Seq(Single)
  PROVE  Weight(s, CountWeight) = Len(s)
<1> DEFINE n == Len(s)
           Bad == {i \in 0 .. n : WeightTo(s, i, CountWeight) # i}
<1>1. n \in Nat /\ s \in Seq(Events) /\ CountWeight \in [Events -> Nat]
  BY SingleIsEvent, CountsJoinUp DEF JoinsUp
<1>2. /\ WeightTo(s, 0, CountWeight) = 0 /\ Weight(s, CountWeight) = WeightTo(s, n, CountWeight)
      /\ \A i \in 1 .. n : WeightTo(s, i, CountWeight) = WeightTo(s, i - 1, CountWeight) + CountWeight[s[i]]
  BY <1>1, WeightToFacts
<1>3. \A i \in 1 .. n : CountWeight[s[i]] = 1
  <2>1. \A e \in Single : CountWeight[e] = 1
    BY DEF CountWeight, CountOf, Single
  <2> QED BY <2>1, ElementOfSeq
<1>4. ASSUME NEW i \in 1 .. n, i - 1 \notin Bad PROVE i \notin Bad
  <2>1. i - 1 \in 0 .. n
    BY <1>1
  <2>2. WeightTo(s, i - 1, CountWeight) = i - 1
    BY <1>4, <2>1
  <2> QED BY <1>2, <1>3, <2>2
<1>5. Bad = {}
  <2>1. Bad \in SUBSET (0 .. n) /\ 0 \notin Bad
    BY <1>2
  <2> HIDE DEF Bad
  <2> QED BY <1>1, <1>4, <2>1, UpTo
<1>6. n \in 0 .. n
  BY <1>1
<1> QED BY <1>2, <1>5, <1>6

LEMMA WorkersAreKept ==
  ASSUME NEW s \in Seq(Single), InFrameOrder(s), Spaced(s)
  PROVE  LET order == aggregateWorkerTrainRuns(s)
         IN  /\ SumFunction([i \in DOMAIN order |-> order[i].count]) = Len(s)
             /\ \A i \in DOMAIN order : order[i].count > 1 =>
                  /\ isWorkerUnit(order[i].item)
                  /\ order[i].end - order[i].frame \in 1 .. runWindow
                  /\ i < Len(order) => order[i].end <= order[i + 1].frame
<1> DEFINE order == aggregateWorkerTrainRuns(s)
           n == Len(order)
           f == [i \in 1 .. n |-> order[i].count]
           g == [i \in 1 .. n |-> CountWeight[order[i]]]
<1>1. /\ order \in Seq(Events)
      /\ \A k \in 1 .. n : order[k].count > 0 /\ (order[k].count > 1 => RunFits(order, k))
  BY JoinKeepsRuns
<1>2. Weight(order, CountWeight) = Len(s)
  BY CountsJoinUp, JoinKeepsWeight, SinglesCountOne
<1> HIDE DEF order
<1>3. n \in Nat /\ DOMAIN order = 1 .. n /\ IsFiniteSet(1 .. n)
  BY <1>1, FS_Interval
<1>4. ASSUME NEW i \in 1 .. n PROVE f[i] \in Int /\ f[i] = g[i]
  <2>1. order[i] \in Events
    BY <1>1, ElementOfSeq
  <2>2. CountWeight[order[i]] = CountOf(order[i]) /\ order[i].count \in Nat
    BY <2>1 DEF CountWeight, Events
  <2>3. CountOf(order[i]) = order[i].count
    BY <1>1 DEF CountOf
  <2> QED BY <2>2, <2>3
<1>5. SumFunctionOnSet(f, 1 .. n) = SumFunctionOnSet(g, 1 .. n)
  <2> DEFINE D == 1 .. n
  <2>1. IsFiniteSet(D) /\ \A i \in D : f[i] \in Int /\ f[i] = g[i]
    BY <1>3, <1>4
  <2> HIDE DEF D, f, g
  <2>2. SumFunctionOnSet(f, D) = SumFunctionOnSet(g, D)
    BY <2>1, SumsAgree
  <2> QED BY <2>2 DEF D
<1>6. SumFunction(f) = Len(s)
  <2>1. SumFunction(f) = SumFunctionOnSet(f, 1 .. n)
    BY DEF SumFunction, SumFunctionOnSet, FoldFunction
  <2>2. Weight(order, CountWeight) = SumFunctionOnSet(g, 1 .. n)
    BY DEF Weight
  <2> QED BY <1>2, <1>5, <2>1, <2>2
<1>7. SumFunction([i \in DOMAIN order |-> order[i].count]) = Len(s)
  BY <1>3, <1>6
<1> HIDE DEF f, g
<1> QED BY <1>1, <1>3, <1>7 DEF RunFits, order

LEMMA PassesOfOrder ==
  ASSUME NEW raw \in Seq(Single), InFrameOrder(raw)
  PROVE  /\ dedupShortBurstEvents(filterEffectiveEvents(raw)) = BurstReference(filterEffectiveEvents(raw))
         /\ MatchedBy(Deduped(raw), Reconciled(raw))
         /\ LET before == Reconciled(raw) IN before \in Seq(Single) /\ InFrameOrder(before) /\ Spaced(before)
<1>1. filterEffectiveEvents(raw) \in Seq(Single) /\ InFrameOrder(filterEffectiveEvents(raw))
  BY PassesFacts, PartInOrder
<1>2. Deduped(raw) \in Seq(Single) /\ InFrameOrder(Deduped(raw)) /\ Spaced(Deduped(raw))
  <2>1. Deduped(raw) \in Seq(Single) /\ InFrameOrder(Deduped(raw))
    BY <1>1, PassesFacts, PartInOrder
  <2>2. Spaced(Deduped(raw))
    BY <1>1, DedupSpaces DEF Deduped
  <2> QED BY <2>1, <2>2
<1>3. Reconciled(raw) \in Seq(Single) /\ InFrameOrder(Reconciled(raw)) /\ Spaced(Reconciled(raw))
  BY <1>2, PassesFacts, PartInOrder, PartSpaced
<1>4. MatchedBy(Deduped(raw), Reconciled(raw))
  BY <1>2, CancelsAreMatched DEF Reconciled
<1> QED BY <1>1, <1>3, <1>4, BurstsAreRemoved

LEMMA RecordingMatchesReference == ASSUME RecordingInv PROVE PassesMatchReference
<1>1. \A p \in DOMAIN RawOrders : RawOrders[p] \in Seq(Single) /\ InFrameOrder(RawOrders[p])
  BY RawFacts
<1>2. BurstsMatchReference
  BY <1>1, PassesOfOrder DEF BurstsMatchReference
<1>3. CancelsMatchReference
  <2>1. \A p \in DOMAIN RawOrders : MatchedBy(Deduped(RawOrders[p]), Reconciled(RawOrders[p]))
    BY <1>1, PassesOfOrder
  <2> QED BY <2>1, Zenon DEF CancelsMatchReference, MatchedBy
<1>4. RunsKeepEveryWorker
  <2>1. \A p \in DOMAIN RawOrders :
          LET before == Reconciled(RawOrders[p]) IN before \in Seq(Single) /\ InFrameOrder(before) /\ Spaced(before)
    BY <1>1, PassesOfOrder
  <2> QED BY <2>1, WorkersAreKept, Zenon DEF RunsKeepEveryWorker
<1> QED BY <1>2, <1>3, <1>4 DEF PassesMatchReference

\* The passes do to every recording what they are named for: burst removal, cancel
\* matching and worker joining are what their references say.
THEOREM PassesAlwaysMatchReference == ChartsSpec => []PassesMatchReference
<1>1. RecordingInv => PassesMatchReference
  BY RecordingMatchesReference
<1> QED BY <1>1, RecordingStarts, RecordingGrows, PTL DEF ChartsSpec

===============================================================================
