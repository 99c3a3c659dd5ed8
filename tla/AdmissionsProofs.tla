-------------------------- MODULE AdmissionsProofs ---------------------------
(***************************************************************************)
(* The window of execution times holds the last WindowSize of them in      *)
(* order, whatever its size; the percentile read from it is the one it     *)
(* stands for; and the total of the admitted work is the sum over the      *)
(* requests in flight and stays below the capacity.                        *)
(***************************************************************************)
EXTENDS Admissions, FiniteSetTheorems, TLAPS

-----------------------------------------------------------------------------
\* The cell of the circular buffer for the n-th execution.
Cell(n) == n % WindowSize

\* The two arrays are inverse to each other: each node knows its cell of the circular buffer, and the
\* cell leads back to it.
Inverses ==
    /\ \A j \in Index : by_termination[by_duration[j].by_termination_idx] = j
    /\ \A c \in Index : by_duration[by_termination[c]].by_termination_idx = c

\* The number of the latest execution, which is the one being sorted in while there is one.
Last == IF Idle THEN count - 1 ELSE count

\* The circular buffer leads to the latest executions, also while the window is being sorted.
Recency == \A k \in Index : by_duration[by_termination[Cell(Last - k)]].time = Latest(k)

\* The nodes other than the one being shifted are sorted, and that one is not smaller than the nodes
\* the loop has left behind.
Sorted ==
    /\ \A a, b \in Index : a < b /\ a # i /\ b # i => by_duration[a].time <= by_duration[b].time
    /\ i # None /\ up => \A a \in Index : a < i => by_duration[a].time <= by_duration[i].time
    /\ i # None /\ ~up => \A b \in Index : b > i => by_duration[i].time <= by_duration[b].time

WindowInv ==
    /\ recent \in Seq(Time)
    /\ count = 0 => Idle /\ recent = <<>>
    /\ count > 0 => count >= WindowSize /\ recent # <<>> /\ Inverses /\ Recency /\ Sorted

\* The lock is held by the worker that works on the window, and by no other.
LockInv ==
    /\ \A w \in Worker : pc[w] = "shift" <=> lock = w
    /\ lock = NULL => Idle
    /\ lock # NULL => count > 0
    /\ \A w \in Worker : pc[w] # "idle" => cur[w] \in Sandbox

\* Since the listener loaded the total, workers have only subtracted from it.
ListenerInv == listener # NotDeciding => admitted <= listener.total

\* The comparison of admissions_control_subtract never finds less in the total than it takes away.
NoUnderflow == fatal # "underflow"

IInv ==
    /\ TypeOK /\ WindowInv /\ LockInv /\ ListenerInv
    /\ TotalIsInFlight /\ WithinCapacity /\ NoUnderflow

-----------------------------------------------------------------------------
(***************************************************************************)
(* Sums over finite sets.  SumFunction adds the values of a function one   *)
(* element after the other; what it computes is shown by least             *)
(* counterexamples.                                                        *)
(***************************************************************************)
Chosen(s) == CHOOSE x \in s : TRUE

\* g is the table of the partial sums of f.
Sums(f, g) == g = [s \in SUBSET DOMAIN f |-> IF s = {} THEN 0 ELSE f[Chosen(s)] + g[s \ {Chosen(s)}]]

\* An element is chosen from every set that has one.
LEMMA ChosenIsElement ==
    ASSUME NEW s, s # {}
    PROVE  Chosen(s) \in s
  BY Zenon DEF Chosen

\* A set of naturals that is not empty has a least element.
LEMMA LeastOf ==
    ASSUME NEW S \in SUBSET Nat, S # {}
    PROVE  \E x \in S : \A y \in S : x <= y
  <1>1. PICK x \in S : \A y \in S : ~(<<y, x>> \in OpToRel(<, Nat))
    BY NatLessThanWellFounded, WFMin, Zenon
  <1>2. \A y \in S : ~(y < x)
    BY <1>1, Zenon DEF OpToRel
  <1> QED BY <1>2

\* A family of subsets of a finite set that is not empty has a smallest member.
LEMMA SmallestOf ==
    ASSUME NEW D, IsFiniteSet(D), NEW F \in SUBSET SUBSET D, F # {}
    PROVE  \E T \in F : \A U \in SUBSET T : U # T => U \notin F
  <1>1. IsWellFoundedOn(StrictSubsetOrdering(D), SUBSET D)
    BY FS_StrictSubsetOrderingWellFounded, FS_FiniteSubsetsOfFinite, Zenon
  <1>2. PICK T \in F : \A U \in F : ~(<<U, T>> \in StrictSubsetOrdering(D))
    BY <1>1, WFMin, Zenon
  <1>3. ASSUME NEW U \in SUBSET T, U # T, U \in F
        PROVE  FALSE
    <2>1. <<U, T>> \in (SUBSET D) \X (SUBSET D)
      BY <1>3
    <2> QED BY <2>1, <1>2, <1>3 DEF StrictSubsetOrdering
  <1> QED BY <1>3, Zenon

\* The table of the partial sums exists: it is built level by level.
LEMMA SumsExist ==
    ASSUME NEW f, IsFiniteSet(DOMAIN f)
    PROVE  \E g : Sums(f, g)
  <1> DEFINE D == DOMAIN f
             Level(n) == {s \in SUBSET D : Cardinality(s) <= n}
             Good(n) == \E h : h = [s \in Level(n) |-> IF s = {} THEN 0 ELSE f[Chosen(s)] + h[s \ {Chosen(s)}]]
  <1>1. \A s \in SUBSET D : IsFiniteSet(s) /\ Cardinality(s) \in Nat
    BY FS_Subset, FS_CardinalityType, Zenon
  <1>2. \A s \in SUBSET D : s # {} => /\ s \ {Chosen(s)} \in SUBSET D
                                     /\ Cardinality(s \ {Chosen(s)}) = Cardinality(s) - 1
    BY <1>1, FS_RemoveElement, ChosenIsElement
  <1>3. Good(0)
    <2>1. \A s \in Level(0) : s = {}
      BY <1>1, FS_EmptySet
    <2> DEFINE h == [s \in Level(0) |-> 0]
    <2>2. h = [s \in Level(0) |-> IF s = {} THEN 0 ELSE f[Chosen(s)] + h[s \ {Chosen(s)}]]
      BY <2>1, Zenon
    <2> QED BY <2>2, Zenon
  <1>4. ASSUME NEW n \in Nat, Good(n)
        PROVE  Good(n + 1)
    <2>1. PICK h : h = [s \in Level(n) |-> IF s = {} THEN 0 ELSE f[Chosen(s)] + h[s \ {Chosen(s)}]]
      BY <1>4, Zenon
    <2> DEFINE k == [s \in Level(n + 1) |-> IF s = {} THEN 0 ELSE f[Chosen(s)] + h[s \ {Chosen(s)}]]
    <2>2. Level(n) \subseteq Level(n + 1)
      BY <1>1
    <2>3. \A s \in Level(n) : h[s] = k[s]
      BY <2>1, <2>2, Zenon
    <2>4. \A s \in Level(n + 1) : s # {} => s \ {Chosen(s)} \in Level(n)
      BY <1>1, <1>2
    <2>5. k = [s \in Level(n + 1) |-> IF s = {} THEN 0 ELSE f[Chosen(s)] + k[s \ {Chosen(s)}]]
      BY <2>3, <2>4, Zenon
    <2> QED BY <2>5, Zenon
  <1> HIDE DEF Good
  <1>5. \A n \in Nat : Good(n)
    <2> SUFFICES ASSUME {n \in Nat : ~Good(n)} # {}
                 PROVE  FALSE
      OBVIOUS
    <2>1. PICK n \in Nat : ~Good(n) /\ \A m \in Nat : ~Good(m) => n <= m
      BY LeastOf, Zenon
    <2>2. n # 0 /\ n - 1 \in Nat /\ ~(n <= n - 1)
      BY <1>3, <2>1
    <2>3. Good(n - 1)
      BY <2>1, <2>2, Zenon
    <2>4. Good((n - 1) + 1) /\ (n - 1) + 1 = n
      BY <1>4, <2>2, <2>3
    <2> QED BY <2>1, <2>4
  <1>6. Good(Cardinality(D))
    BY <1>5, FS_CardinalityType
  <1>7. Level(Cardinality(D)) = SUBSET D
    BY FS_Subset
  <1> QED BY <1>6, <1>7, Zenon DEF Sums, Good

\* SumFunction is the last entry of the table.
LEMMA SumIsLast ==
    ASSUME NEW f, IsFiniteSet(DOMAIN f)
    PROVE  \E g : Sums(f, g) /\ SumFunction(f) = g[DOMAIN f]
  <1> DEFINE g == CHOOSE h : Sums(f, h)
  <1>1. Sums(f, g)
    BY SumsExist, Zenon
  <1>2. SumFunction(f) = g[DOMAIN f]
    BY Zenon DEF SumFunction, SumFunctionOnSet, FoldFunctionOnSet, MapThenFoldSet, Sums, Chosen
  <1> QED BY <1>1, <1>2, Zenon

\* The entries of the table, unfolded once.
LEMMA SumsStep ==
    ASSUME NEW f, NEW g, Sums(f, g), NEW T \in SUBSET DOMAIN f
    PROVE  /\ T = {} => g[T] = 0
           /\ T # {} => /\ Chosen(T) \in T
                        /\ g[T] = f[Chosen(T)] + g[T \ {Chosen(T)}]
                        /\ T \ {Chosen(T)} \in SUBSET T /\ T \ {Chosen(T)} # T
  <1>1. g[T] = IF T = {} THEN 0 ELSE f[Chosen(T)] + g[T \ {Chosen(T)}]
    BY Zenon DEF Sums
  <1>2. T # {} => Chosen(T) \in T
    BY ChosenIsElement, Zenon
  <1> QED BY <1>1, <1>2, Zenon

\* A sum of naturals is a natural and is not smaller than any of them.
LEMMA SumBounds ==
    ASSUME NEW D, IsFiniteSet(D), NEW f \in [D -> Nat]
    PROVE  SumFunction(f) \in Nat /\ \A x \in D : f[x] <= SumFunction(f)
  <1>1. PICK g : Sums(f, g) /\ SumFunction(f) = g[DOMAIN f]
    BY SumIsLast
  <1> DEFINE Good(T) == g[T] \in Nat /\ \A x \in T : f[x] <= g[T]
             Bad == {T \in SUBSET D : ~Good(T)}
  <1>2. Bad = {}
    <2> SUFFICES ASSUME Bad # {}
                 PROVE  FALSE
      OBVIOUS
    <2>0. Bad \in SUBSET SUBSET D /\ \A W \in SUBSET D : W \in Bad <=> ~Good(W)
      BY Zenon
    <2> HIDE DEF Bad
    <2>1. PICK T \in Bad : \A W \in SUBSET T : W # T => W \notin Bad
      BY <2>0, SmallestOf
    <2> DEFINE c == Chosen(T)
               U == T \ {c}
    <2>2. T \in SUBSET D /\ ~Good(T)
      BY <2>0, <2>1, Zenon
    <2>3. T = {} => g[T] = 0
      BY <1>1, <2>2, SumsStep, Zenon
    <2>4. T # {} => c \in T /\ g[T] = f[c] + g[U] /\ U \in SUBSET T /\ U # T
      BY <1>1, <2>2, SumsStep
    <2>5. T # {} => Good(U)
      <3> HIDE DEF Good, U
      <3> QED BY <2>0, <2>1, <2>2, <2>4
    <2>6. T # {} => \A x \in T : x = c \/ x \in U
      OBVIOUS
    <2> HIDE DEF c, U
    <2> QED BY <2>2, <2>3, <2>4, <2>5, <2>6
  <1>3. Good(D)
    <2> HIDE DEF Good
    <2> QED BY <1>2, Zenon
  <1> QED BY <1>1, <1>3, Zenon

\* The sum after the value at x has been replaced.
LEMMA SumUpdate ==
    ASSUME NEW D, IsFiniteSet(D), NEW f \in [D -> Nat], NEW x \in D, NEW v \in Nat,
           NEW e \in [D -> Nat], e[x] = v, \A y \in D : y # x => e[y] = f[y]
    PROVE  SumFunction(e) = SumFunction(f) - f[x] + v
  <1>1. PICK g : Sums(f, g) /\ SumFunction(f) = g[DOMAIN f]
    BY SumIsLast
  <1>2. PICK h : Sums(e, h) /\ SumFunction(e) = h[DOMAIN e]
    BY SumIsLast
  <1> DEFINE Good(T) == g[T] \in Int /\ h[T] = g[T] + (IF x \in T THEN v - f[x] ELSE 0)
             Bad == {T \in SUBSET D : ~Good(T)}
  <1>3. Bad = {}
    <2> SUFFICES ASSUME Bad # {}
                 PROVE  FALSE
      OBVIOUS
    <2>0. Bad \in SUBSET SUBSET D /\ \A W \in SUBSET D : W \in Bad <=> ~Good(W)
      BY Zenon
    <2> HIDE DEF Bad
    <2>1. PICK T \in Bad : \A W \in SUBSET T : W # T => W \notin Bad
      BY <2>0, SmallestOf
    <2> DEFINE c == Chosen(T)
               U == T \ {c}
    <2>2. T \in SUBSET D /\ ~Good(T)
      BY <2>0, <2>1, Zenon
    <2>3. T = {} => g[T] = 0 /\ h[T] = 0
      BY <1>1, <1>2, <2>2, SumsStep, Zenon
    <2>4. T # {} => c \in T /\ g[T] = f[c] + g[U] /\ h[T] = e[c] + h[U] /\ U \in SUBSET T /\ U # T
      BY <1>1, <1>2, <2>2, SumsStep
    <2>5. T # {} => Good(U)
      <3> HIDE DEF Good, U
      <3> QED BY <2>0, <2>1, <2>2, <2>4
    <2>6. x \in U <=> x \in T /\ x # c
      OBVIOUS
    <2>7. T # {} => f[c] \in Nat /\ e[c] = IF c = x THEN v ELSE f[c]
      BY <2>2, <2>4, Zenon
    <2> HIDE DEF c, U
    <2> QED BY <2>2, <2>3, <2>4, <2>5, <2>6, <2>7
  <1>4. Good(D)
    <2> HIDE DEF Good
    <2> QED BY <1>3, Zenon
  <1>5. SumFunction(e) = SumFunction(f) + (v - f[x]) /\ SumFunction(f) \in Int /\ f[x] \in Nat
    BY <1>1, <1>2, <1>4
  <1> QED BY <1>5

\* A sum of zeros is zero.
LEMMA SumOfZeros ==
    ASSUME NEW D, IsFiniteSet(D), NEW f \in [D -> Nat], \A x \in D : f[x] = 0
    PROVE  SumFunction(f) = 0
  <1>1. PICK g : Sums(f, g) /\ SumFunction(f) = g[DOMAIN f]
    BY SumIsLast
  <1> DEFINE Bad == {T \in SUBSET D : g[T] # 0}
  <1>2. Bad = {}
    <2> SUFFICES ASSUME Bad # {}
                 PROVE  FALSE
      OBVIOUS
    <2>0. Bad \in SUBSET SUBSET D /\ \A W \in SUBSET D : W \in Bad <=> g[W] # 0
      BY Zenon
    <2> HIDE DEF Bad
    <2>1. PICK T \in Bad : \A W \in SUBSET T : W # T => W \notin Bad
      BY <2>0, SmallestOf
    <2> DEFINE c == Chosen(T)
               U == T \ {c}
    <2>2. T \in SUBSET D /\ g[T] # 0
      BY <2>0, <2>1, Zenon
    <2>3. T = {} => g[T] = 0
      BY <1>1, <2>2, SumsStep, Zenon
    <2>4. T # {} => c \in T /\ g[T] = f[c] + g[U] /\ U \in SUBSET T /\ U # T
      BY <1>1, <2>2, SumsStep
    <2> HIDE DEF c, U
    <2>5. T # {} => g[U] = 0
      BY <2>0, <2>1, <2>2, <2>4
    <2> QED BY <2>2, <2>3, <2>4, <2>5
  <1> QED BY <1>1, <1>2

-----------------------------------------------------------------------------
(***************************************************************************)
(* The circular buffer: numbers that are less than WindowSize apart have   *)
(* different cells.                                                        *)
(***************************************************************************)
\* Division with remainder.
LEMMA DivisionOf ==
    ASSUME NEW x \in Int, NEW n \in Int, n > 0, NEW r \in Int, r = x % n
    PROVE  \E q \in Int : x = n * q + r
  BY Z3T(20)

\* A cell is an index of the window, and differs from the number by a multiple of the size.
LEMMA CellIs ==
    ASSUME NEW x \in Int
    PROVE  Cell(x) \in Index /\ \E q \in Int : x = WindowSize * q + Cell(x)
  <1>1. WindowSize \in Int /\ WindowSize > 0
    BY WindowAssumption
  <1>2. Cell(x) \in Index /\ Cell(x) \in Int
    BY WindowAssumption DEF Cell, Index
  <1>3. Cell(x) = x % WindowSize
    BY Zenon DEF Cell
  <1> QED BY <1>1, <1>2, <1>3, DivisionOf

\* A multiple of the size that is positive is not smaller than it.
LEMMA MultipleIsLarge ==
    ASSUME NEW n \in Nat, NEW d \in Int, d > 0
    PROVE  n * d >= n
  <1>1. d - 1 >= 0 /\ d - 1 \in Int
    OBVIOUS
  <1>2. n * (d - 1) >= 0
    BY <1>1
  <1>3. n * d = n * (d - 1) + n
    OBVIOUS
  <1> QED BY <1>2, <1>3

\* Two numbers less than WindowSize apart have different cells.
LEMMA CellsDiffer ==
    ASSUME NEW x \in Int, NEW y \in Int, y < x, x - y < WindowSize
    PROVE  Cell(x) # Cell(y)
  <1> SUFFICES ASSUME Cell(x) = Cell(y)
               PROVE  FALSE
    OBVIOUS
  <1>1. WindowSize \in Nat
    BY WindowAssumption
  <1>2. Cell(x) \in Int
    BY CellIs DEF Index
  <1>4. PICK p \in Int : x = WindowSize * p + Cell(x)
    BY CellIs, Zenon
  <1>5. PICK q \in Int : y = WindowSize * q + Cell(y)
    BY CellIs, Zenon
  <1>6. x - y = WindowSize * (p - q)
    BY <1>1, <1>2, <1>4, <1>5
  <1>7. p - q > 0
    <2> SUFFICES ASSUME p - q <= 0
                 PROVE  FALSE
      OBVIOUS
    <2>1. WindowSize * (q - p) >= 0
      BY <1>1
    <2> QED BY <1>1, <1>6, <2>1
  <1>8. WindowSize * (p - q) >= WindowSize
    BY <1>1, <1>7, MultipleIsLarge
  <1> QED BY <1>1, <1>6, <1>8

-----------------------------------------------------------------------------
(***************************************************************************)
(* The window of execution times, whoever works on it.                     *)
(***************************************************************************)
\* Execution times and indices are numbers.
LEMMA Numbers ==
    ASSUME by_duration \in [Index -> [time : Time \cup {0}, by_termination_idx : Index]]
    PROVE  \A n \in Index : by_duration[n].time \in Int /\ n \in Int /\ n >= 0 /\ n < WindowSize
  <1>1. \A n \in Index : by_duration[n].time \in Time \cup {0}
    BY Zenon
  <1>2. \A n \in Index : n \in Int /\ n >= 0 /\ n < WindowSize
    BY WindowAssumption DEF Index
  <1>3. \A x \in Time \cup {0} : x \in Int
    BY WindowAssumption
  <1> QED BY <1>1, <1>2, <1>3, Zenon

\* The first execution time fills the window.
LEMMA FillWindow ==
    ASSUME WindowTypeOK, WindowInv, NEW t \in Time, Fill(t)
    PROVE  WindowTypeOK' /\ WindowInv' /\ Idle' /\ count' > 0
  <1>1. WindowSize \in Nat \ {0} /\ None \notin Index /\ count = 0 /\ i = None /\ recent = <<>>
    BY WindowAssumption DEF Fill, Idle, WindowInv, Index, None
  <1>2. /\ by_duration' = [j \in Index |-> [time |-> t, by_termination_idx |-> j]]
        /\ by_termination' = [j \in Index |-> j]
        /\ count' = WindowSize /\ i' = None /\ up' = up /\ recent' = Append(recent, t)
    BY <1>1, Zenon DEF Fill, perf_window_fill
  <1>3. WindowTypeOK'
    BY <1>1, <1>2 DEF WindowTypeOK
  <1>4. recent' = <<t>> /\ recent' \in Seq(Time) /\ recent' # <<>> /\ Len(recent') = 1 /\ recent'[1] = t
    BY <1>1, <1>2
  <1>5. \A k \in Index : Latest(k)' = t
    BY <1>4, WindowAssumption DEF Latest, Index
  <1>6. Inverses'
    BY <1>2 DEF Inverses
  <1>7. Recency'
    <2>1. \A n \in Int : by_duration'[by_termination'[Cell(n)]].time = t
      BY <1>2, CellIs
    <2>2. Last' \in Int
      BY <1>1, <1>2 DEF Last, Idle
    <2>3. \A k \in Index : Last' - k \in Int
      BY <2>2, WindowAssumption DEF Index
    <2> QED BY <1>5, <2>1, <2>3 DEF Recency
  <1>8. Sorted'
    BY <1>1, <1>2, WindowAssumption DEF Sorted, Index
  <1> QED BY <1>1, <1>2, <1>3, <1>4, <1>6, <1>7, <1>8 DEF WindowInv, Idle

\* A later one replaces the oldest, in place.
LEMMA ReplaceWindow ==
    ASSUME WindowTypeOK, WindowInv, NEW t \in Time, Replace(t)
    PROVE  WindowTypeOK' /\ WindowInv' /\ count' > 0
  <1> DEFINE o == Cell(count)
             j == by_termination[o]
  <1>1. /\ WindowSize \in Nat \ {0} /\ None \notin Index /\ count \in Nat /\ count > 0 /\ i = None
        /\ count >= WindowSize /\ recent \in Seq(Time) /\ recent # <<>> /\ Inverses /\ Recency /\ Sorted
    BY WindowAssumption DEF Replace, Idle, WindowInv, Index, None, WindowTypeOK
  <1>2. o \in Index /\ j \in Index
    BY <1>1, CellIs DEF WindowTypeOK
  <1>3. /\ by_duration' = [by_duration EXCEPT ![j].time = t]
        /\ by_termination' = by_termination
        /\ count' = count /\ i' = j /\ up' = (t > by_duration[j].time) /\ recent' = Append(recent, t)
    BY <1>1, Zenon DEF Replace, Oldest, Cell
  <1> HIDE DEF o, j
  <1>4. /\ by_duration \in [Index -> [time : Time \cup {0}, by_termination_idx : Index]]
        /\ by_termination \in [Index -> Index]
    BY Zenon DEF WindowTypeOK
  <1>5. /\ by_duration' \in [Index -> [time : Time \cup {0}, by_termination_idx : Index]]
        /\ \A n \in Index : by_duration'[n].by_termination_idx = by_duration[n].by_termination_idx
        /\ \A n \in Index : n # j => by_duration'[n].time = by_duration[n].time
        /\ by_duration'[j].time = t
    BY <1>2, <1>3, <1>4
  <1>6. WindowTypeOK'
    <2>1. up' \in BOOLEAN
      BY <1>3
    <2> QED BY <1>1, <1>2, <1>3, <1>4, <1>5, <2>1, Zenon DEF WindowTypeOK
  <1>7. Inverses'
    BY <1>1, <1>3, <1>4, <1>5, Zenon DEF Inverses
  <1>8. /\ recent' \in Seq(Time) /\ recent' # <<>>
        /\ Latest(0)' = t
        /\ \A k \in Nat : Latest(k + 1)' = Latest(k)
    BY <1>1, <1>3 DEF Latest
  <1>9. Recency'
    <2>1. Last' = count /\ Last = count - 1
      BY <1>1, <1>2, <1>3, Zenon DEF Last, Idle
    <2> SUFFICES ASSUME NEW k \in Index
                 PROVE  by_duration'[by_termination[Cell(count - k)]].time = Latest(k)'
      BY <1>3, <2>1, Zenon DEF Recency
    <2>2. k \in Nat /\ k < WindowSize /\ count - k \in Int
      BY <1>1 DEF Index
    <2>3. CASE k = 0
      <3>1. count - k = count
        BY <1>1, <2>3
      <3> QED BY <1>5, <1>8, <2>2, <2>3, <3>1 DEF o, j
    <2>4. CASE k # 0
      <3>1. k - 1 \in Index /\ k - 1 \in Nat /\ count - 1 - (k - 1) = count - k /\ (k - 1) + 1 = k
        BY <1>1, <2>2, <2>4 DEF Index
      <3>2. Cell(count - k) # o /\ Cell(count - k) \in Index
        <4>1. count - k < count /\ count - (count - k) < WindowSize /\ count \in Int
          BY <1>1, <2>2, <2>4
        <4> QED BY <2>2, <4>1, CellsDiffer, CellIs, Zenon DEF o
      <3>3. by_termination[Cell(count - k)] # j /\ by_termination[Cell(count - k)] \in Index
        BY <1>1, <1>2, <1>4, <3>2, Zenon DEF Inverses, j
      <3>4. by_duration[by_termination[Cell(count - k)]].time = Latest(k - 1)
        BY <1>1, <2>1, <3>1 DEF Recency
      <3>5. Latest(k)' = Latest(k - 1)
        BY <1>8, <3>1
      <3> QED BY <1>5, <2>2, <3>3, <3>4, <3>5, Zenon
    <2> QED BY <2>3, <2>4
  <1>10. Sorted'
    <2>1. \A n \in Index : by_duration[n].time \in Int /\ n \in Int
      BY <1>4, Numbers, Zenon
    <2>2. \A a, b \in Index : a < b => by_duration[a].time <= by_duration[b].time
      BY <1>1, Zenon DEF Sorted
    <2>3. t \in Int /\ j \in Int /\ j # None
      BY <1>1, <1>2, <2>1, WindowAssumption
    <2>4. \A a, b \in Index : a < b /\ a # j /\ b # j => by_duration'[a].time <= by_duration'[b].time
      BY <1>5, <2>2, Zenon
    <2>5. t > by_duration[j].time => \A a \in Index : a < j => by_duration'[a].time <= by_duration'[j].time
      BY <1>2, <1>5, <2>1, <2>2, <2>3
    <2>6. ~(t > by_duration[j].time) =>
              \A b \in Index : b > j => by_duration'[j].time <= by_duration'[b].time
      BY <1>2, <1>5, <2>1, <2>2, <2>3
    <2> QED BY <1>3, <2>4, <2>5, <2>6, Zenon DEF Sorted
  <1> QED BY <1>1, <1>2, <1>3, <1>6, <1>7, <1>8, <1>9, <1>10 DEF WindowInv, Idle

\* A swap of two nodes moves no execution out of its cell.
LEMMA SwapNodes ==
    ASSUME NEW a \in Index, NEW b \in Index, a # b, Inverses, perf_window_swap(a, b),
           by_duration \in [Index -> [time : Time \cup {0}, by_termination_idx : Index]],
           by_termination \in [Index -> Index]
    PROVE  /\ by_duration' \in [Index -> [time : Time \cup {0}, by_termination_idx : Index]]
           /\ by_termination' \in [Index -> Index]
           /\ Inverses'
           /\ \A c \in Index : by_duration'[by_termination'[c]] = by_duration[by_termination[c]]
           /\ by_duration'[a] = by_duration[b] /\ by_duration'[b] = by_duration[a]
           /\ \A n \in Index : n # a /\ n # b => by_duration'[n] = by_duration[n]
  <1> DEFINE ca == by_duration[a].by_termination_idx
             cb == by_duration[b].by_termination_idx
             R == [time : Time \cup {0}, by_termination_idx : Index]
  <1>0. \A r \in R : r.by_termination_idx \in Index
    OBVIOUS
  <1>1. by_duration[a] \in R /\ by_duration[b] \in R /\ ca \in Index /\ cb \in Index
    BY <1>0, Zenon
  <1>2. by_termination[ca] = a /\ by_termination[cb] = b /\ ca # cb
    BY Zenon DEF Inverses
  <1>3. /\ by_termination' = [by_termination EXCEPT ![ca] = b, ![cb] = a]
        /\ by_duration' = [by_duration EXCEPT ![a] = by_duration[b], ![b] = by_duration[a]]
    BY Zenon DEF perf_window_swap
  <1> HIDE DEF ca, cb, R
  <1>4. /\ by_termination' \in [Index -> Index] /\ by_termination'[ca] = b /\ by_termination'[cb] = a
        /\ \A c \in Index : c # ca /\ c # cb => by_termination'[c] = by_termination[c]
    BY <1>1, <1>2, <1>3
  <1>5. /\ by_duration' \in [Index -> R]
        /\ by_duration'[a] = by_duration[b] /\ by_duration'[b] = by_duration[a]
        /\ \A n \in Index : n # a /\ n # b => by_duration'[n] = by_duration[n]
    <2>1. by_duration \in [Index -> R]
      BY DEF R
    <2> QED BY <1>1, <1>3, <2>1
  <1>6. \A c \in Index : c # ca /\ c # cb => by_termination[c] \in Index \ {a, b}
    BY <1>1, <1>2, Zenon DEF Inverses, ca, cb
  <1>7. \A c \in Index : by_duration'[by_termination'[c]] = by_duration[by_termination[c]]
    BY <1>1, <1>2, <1>4, <1>5, <1>6, Zenon
  <1>8. \A c \in Index : by_duration'[by_termination'[c]].by_termination_idx = c
    BY <1>7, Zenon DEF Inverses
  <1>9. \A n \in Index : by_termination'[by_duration'[n].by_termination_idx] = n
    <2>1. by_termination'[by_duration'[a].by_termination_idx] = a
      BY <1>4, <1>5, Zenon DEF cb
    <2>2. by_termination'[by_duration'[b].by_termination_idx] = b
      BY <1>4, <1>5, Zenon DEF ca
    <2>3. ASSUME NEW n \in Index, n # a, n # b
          PROVE  by_termination'[by_duration'[n].by_termination_idx] = n
      <3>1. by_duration[n].by_termination_idx \in Index
        BY <1>0, Zenon DEF R
      <3>2. by_duration[n].by_termination_idx # ca /\ by_duration[n].by_termination_idx # cb
        BY <1>2, <2>3, Zenon DEF Inverses
      <3>3. by_duration'[n] = by_duration[n]
        BY <1>5, <2>3, Zenon
      <3>4. by_termination'[by_duration[n].by_termination_idx] = by_termination[by_duration[n].by_termination_idx]
        BY <1>4, <3>1, <3>2, Zenon
      <3> QED BY <2>3, <3>3, <3>4, Zenon DEF Inverses
    <2> QED BY <2>1, <2>2, <2>3, Zenon
  <1>10. Inverses'
    BY <1>8, <1>9, Zenon DEF Inverses
  <1> QED BY <1>4, <1>5, <1>7, <1>10, Zenon DEF R

\* One iteration of the loop of perf_window_add.
LEMMA ShiftWindow ==
    ASSUME WindowTypeOK, WindowInv, Shift
    PROVE  WindowTypeOK' /\ WindowInv' /\ count' = count
  <1> DEFINE b == IF up THEN i + 1 ELSE i - 1
  <1>1. /\ WindowSize \in Nat \ {0} /\ None \notin Index /\ count \in Nat /\ count # 0 /\ i \in Index /\ i # None
        /\ count >= WindowSize /\ recent \in Seq(Time) /\ recent # <<>> /\ Inverses /\ Recency /\ Sorted
    BY WindowAssumption DEF Shift, Idle, WindowInv, Index, None, WindowTypeOK
  <1>2. /\ by_duration \in [Index -> [time : Time \cup {0}, by_termination_idx : Index]]
        /\ by_termination \in [Index -> Index] /\ up \in BOOLEAN
    BY Zenon DEF WindowTypeOK
  <1>3. perf_window_swap(i, b) /\ i' = b /\ count' = count /\ up' = up /\ recent' = recent
    BY <1>2, Zenon DEF Shift
  <1>4. /\ b \in Index /\ b # i /\ b # None
        /\ up => b = i + 1 /\ by_duration[b].time < by_duration[i].time
        /\ ~up => b = i - 1 /\ by_duration[b].time > by_duration[i].time
    <2>1. CASE up
      <3>1. b = i + 1 /\ b < WindowSize /\ by_duration[b].time < by_duration[i].time
        BY <2>1, Zenon DEF Shift, MustShift
      <3> HIDE DEF b
      <3> QED BY <1>1, <2>1, <3>1 DEF Index
    <2>2. CASE ~up
      <3>1. b = i - 1 /\ i >= 1 /\ by_duration[b].time > by_duration[i].time
        BY <2>2, Zenon DEF Shift, MustShift
      <3> HIDE DEF b
      <3> QED BY <1>1, <2>2, <3>1 DEF Index
    <2> QED BY <2>1, <2>2, Zenon
  <1> HIDE DEF b
  <1>5. /\ by_duration' \in [Index -> [time : Time \cup {0}, by_termination_idx : Index]]
        /\ by_termination' \in [Index -> Index]
        /\ Inverses'
        /\ \A c \in Index : by_duration'[by_termination'[c]] = by_duration[by_termination[c]]
        /\ by_duration'[i] = by_duration[b] /\ by_duration'[b] = by_duration[i]
        /\ \A n \in Index : n # i /\ n # b => by_duration'[n] = by_duration[n]
    BY <1>1, <1>2, <1>3, <1>4, SwapNodes, ZenonT(60)
  <1>6. WindowTypeOK'
    BY <1>1, <1>2, <1>3, <1>4, <1>5, Zenon DEF WindowTypeOK
  <1>7. Recency'
    <2>1. Last' = Last /\ Last = count
      BY <1>1, <1>3, <1>4, Zenon DEF Last, Idle
    <2>2. \A k \in Index : Cell(Last - k) \in Index
      <3>1. \A k \in Index : Last - k \in Int
        BY <1>1, <2>1 DEF Index
      <3> QED BY <3>1, CellIs, Zenon
    <2>3. \A k \in Index : Latest(k)' = Latest(k)
      BY <1>3, Zenon DEF Latest
    <2> QED BY <1>1, <1>5, <2>1, <2>2, <2>3, Zenon DEF Recency
  <1>8. Sorted'
    <2>1. \A n \in Index : by_duration[n].time \in Int /\ n \in Int
      BY <1>2, Numbers, Zenon
    <2>2. \A m, n \in Index : m < n /\ m # b /\ n # b => by_duration'[m].time <= by_duration'[n].time
      <3> SUFFICES ASSUME NEW m \in Index, NEW n \in Index, m < n, m # b, n # b
                   PROVE  by_duration'[m].time <= by_duration'[n].time
        BY Zenon
      <3>0. /\ m \in Int /\ n \in Int /\ b \in Int /\ i \in Int
            /\ b = i + 1 \/ b = i - 1
        BY <1>1, <1>2, <1>4, <2>1, Zenon
      <3>1. CASE m # i /\ n # i
        BY <1>1, <1>5, <3>1, Zenon DEF Sorted
      <3>2. CASE m = i
        <4>1. n # i /\ b < n
          BY <3>0, <3>2
        <4> QED BY <1>1, <1>4, <1>5, <3>2, <4>1, Zenon DEF Sorted
      <3>3. CASE n = i
        <4>1. m # i /\ m < b
          BY <3>0, <3>3
        <4> QED BY <1>1, <1>4, <1>5, <3>3, <4>1, Zenon DEF Sorted
      <3> QED BY <3>1, <3>2, <3>3, Zenon
    <2>3. ASSUME up, NEW a \in Index, a < b
          PROVE  by_duration'[a].time <= by_duration'[b].time
      <3>1. CASE a = i
        BY <1>4, <1>5, <2>1, <2>3, <3>1
      <3>2. CASE a # i
        <4>1. a # b /\ a < i
          BY <1>1, <1>4, <2>1, <2>3, <3>2
        <4> QED BY <1>1, <1>5, <2>3, <3>2, <4>1, Zenon DEF Sorted
      <3> QED BY <3>1, <3>2, Zenon
    <2>4. ASSUME ~up, NEW a \in Index, a > b
          PROVE  by_duration'[b].time <= by_duration'[a].time
      <3>1. CASE a = i
        BY <1>4, <1>5, <2>1, <2>4, <3>1
      <3>2. CASE a # i
        <4>1. a # b /\ a > i
          BY <1>1, <1>4, <2>1, <2>4, <3>2
        <4> QED BY <1>1, <1>5, <2>4, <3>2, <4>1, Zenon DEF Sorted
      <3> QED BY <3>1, <3>2, Zenon
    <2> QED BY <1>3, <2>2, <2>3, <2>4, Zenon DEF Sorted
  <1> QED BY <1>1, <1>3, <1>4, <1>5, <1>6, <1>7, <1>8, Zenon DEF WindowInv, Idle

\* The end of the loop: the whole window is sorted.
LEMMA DoneWindow ==
    ASSUME WindowTypeOK, WindowInv, Done
    PROVE  WindowTypeOK' /\ WindowInv' /\ Idle' /\ count' > 0
  <1>1. /\ WindowSize \in Nat \ {0} /\ None \notin Index /\ count \in Nat /\ count # 0 /\ i \in Index /\ i # None
        /\ count >= WindowSize /\ recent \in Seq(Time) /\ recent # <<>> /\ Inverses /\ Recency /\ Sorted
    BY WindowAssumption DEF Done, Idle, WindowInv, Index, None, WindowTypeOK
  <1>2. /\ by_duration \in [Index -> [time : Time \cup {0}, by_termination_idx : Index]]
        /\ by_termination \in [Index -> Index] /\ up \in BOOLEAN
    BY Zenon DEF WindowTypeOK
  <1>3. /\ ~MustShift /\ count' = count + 1 /\ i' = None
        /\ by_duration' = by_duration /\ by_termination' = by_termination /\ up' = up /\ recent' = recent
    BY Zenon DEF Done
  <1>4. count + 1 \in Nat /\ count + 1 > 0 /\ count + 1 # 0 /\ count + 1 >= WindowSize /\ count + 1 - 1 = count
    BY <1>1
  <1>5. WindowTypeOK'
    BY <1>1, <1>2, <1>3, <1>4, Zenon DEF WindowTypeOK
  <1>6. Inverses'
    BY <1>1, <1>3, Zenon DEF Inverses
  <1>7. Recency'
    <2>0. Last' = count' - 1 /\ Last = count
      BY <1>1, <1>3, Zenon DEF Last, Idle
    <2>1. Last' = count /\ Last = count
      BY <1>1, <1>3, <2>0
    <2>2. \A k \in Index : Latest(k)' = Latest(k)
      BY <1>3, Zenon DEF Latest
    <2> QED BY <1>1, <1>3, <2>1, <2>2, Zenon DEF Recency
  <1>8. Sorted'
    <2>1. \A n \in Index : by_duration[n].time \in Int /\ n \in Int /\ n >= 0 /\ n < WindowSize
      BY <1>2, Numbers, Zenon
    <2>2. \A m, n \in Index : m < n => by_duration[m].time <= by_duration[n].time
      <3> SUFFICES ASSUME NEW m \in Index, NEW n \in Index, m < n
                   PROVE  by_duration[m].time <= by_duration[n].time
        BY Zenon
      <3>0. m \in Int /\ n \in Int /\ i \in Int /\ m < WindowSize /\ n < WindowSize /\ m >= 0 /\ n >= 0
        BY <1>1, <2>1, Zenon
      <3>1. CASE m # i /\ n # i
        BY <1>1, <3>1, Zenon DEF Sorted
      <3>2. CASE m = i /\ up
        <4>1. i + 1 \in Index /\ i + 1 < WindowSize /\ i + 1 # i
          BY <1>1, <3>0, <3>2 DEF Index
        <4>2. ~(by_duration[i + 1].time < by_duration[i].time)
          BY <1>3, <3>2, <4>1, Zenon DEF MustShift
        <4>3. i + 1 = n \/ (i + 1 < n /\ n # i)
          BY <1>1, <3>0, <3>2, <4>1
        <4>4. i + 1 < n => by_duration[i + 1].time <= by_duration[n].time
          BY <1>1, <4>1, <4>3, Zenon DEF Sorted
        <4> QED BY <1>1, <2>1, <3>2, <4>1, <4>2, <4>3, <4>4
      <3>3. CASE n = i /\ ~up
        <4>1. i - 1 \in Index /\ i >= 1 /\ i - 1 # i
          BY <1>1, <3>0, <3>3 DEF Index
        <4>2. ~(by_duration[i - 1].time > by_duration[i].time)
          BY <1>3, <3>3, <4>1, Zenon DEF MustShift
        <4>3. m = i - 1 \/ (m < i - 1 /\ m # i)
          BY <1>1, <3>0, <3>3, <4>1
        <4>4. m < i - 1 => by_duration[m].time <= by_duration[i - 1].time
          BY <1>1, <4>1, <4>3, Zenon DEF Sorted
        <4> QED BY <1>1, <2>1, <3>3, <4>1, <4>2, <4>3, <4>4
      <3>4. CASE m = i /\ ~up
        <4>1. n > i
          BY <3>0, <3>4
        <4> QED BY <1>1, <3>4, <4>1, Zenon DEF Sorted
      <3>5. CASE n = i /\ up
        BY <1>1, <3>5, Zenon DEF Sorted
      <3> QED BY <1>2, <3>1, <3>2, <3>3, <3>4, <3>5, Zenon
    <2> QED BY <1>3, <2>2, Zenon DEF Sorted
  <1> QED BY <1>1, <1>3, <1>4, <1>5, <1>6, <1>7, <1>8, Zenon DEF WindowInv, Idle

\* In every state in which nobody works on it, the window shows the last executions in order.
LEMMA WindowSlides ==
    ASSUME WindowInv
    PROVE  SlidingWindow
  BY Zenon DEF WindowInv, SlidingWindow, Recency, Last, Cell

-----------------------------------------------------------------------------
(***************************************************************************)
(* The percentile.  The circular buffer numbers the nodes of the window    *)
(* one to one, so as many of the last executions are among the first n     *)
(* nodes as n says.                                                        *)
(***************************************************************************)
\* The node of the k-th latest execution.
NodeOf(k) == by_termination[Cell(Last - k)]

\* Different executions have different nodes.
LEMMA NodesDiffer ==
    ASSUME WindowTypeOK, Inverses, NEW k \in Index, NEW l \in Index, k # l
    PROVE  NodeOf(k) # NodeOf(l) /\ NodeOf(k) \in Index
  <1>1. Last \in Int /\ k \in Int /\ l \in Int /\ k < WindowSize /\ l < WindowSize /\ k >= 0 /\ l >= 0
    BY WindowAssumption DEF Last, WindowTypeOK, Index
  <1>2. Last - k \in Int /\ Last - l \in Int
    BY <1>1
  <1>3. Cell(Last - k) # Cell(Last - l)
    <2>1. CASE k < l
      <3>1. Last - l < Last - k /\ (Last - k) - (Last - l) < WindowSize
        BY <1>1, <2>1, WindowAssumption
      <3> QED BY <1>2, <3>1, CellsDiffer, Zenon
    <2>2. CASE l < k
      <3>1. Last - k < Last - l /\ (Last - l) - (Last - k) < WindowSize
        BY <1>1, <2>2, WindowAssumption
      <3> QED BY <1>2, <3>1, CellsDiffer, Zenon
    <2> QED BY <1>1, <2>1, <2>2
  <1>4. Cell(Last - k) \in Index /\ Cell(Last - l) \in Index
    BY <1>2, CellIs, Zenon
  <1>5. /\ by_duration[NodeOf(k)].by_termination_idx = Cell(Last - k)
        /\ by_duration[NodeOf(l)].by_termination_idx = Cell(Last - l)
    BY <1>4, Zenon DEF NodeOf, Inverses
  <1>6. NodeOf(k) \in Index
    BY <1>4, Zenon DEF NodeOf, WindowTypeOK
  <1> QED BY <1>3, <1>5, <1>6, Zenon

\* Every node is the node of an execution.
LEMMA NodesCovered ==
    ASSUME WindowTypeOK, Inverses, NEW n \in Index
    PROVE  \E k \in Index : NodeOf(k) = n
  <1> DEFINE f == [k \in Index |-> NodeOf(k)]
  <1>1. IsFiniteSet(Index)
    BY FS_Interval, WindowAssumption DEF Index
  <1>2. \A k \in Index : NodeOf(k) \in Index
    <2>1. \A k \in Index : Last - k \in Int
      BY WindowAssumption DEF Last, WindowTypeOK, Index
    <2> QED BY <2>1, CellIs, Zenon DEF NodeOf, WindowTypeOK
  <1>3. f \in Injection(Index, Index)
    BY <1>2, NodesDiffer DEF Injection, IsInjective
  <1>4. f \in Surjection(Index, Index)
    BY <1>1, <1>3, FS_Injection, Zenon
  <1> QED BY <1>4, Zenon DEF Surjection

\* As many of the last executions are among the first n nodes as n says.
LEMMA CountBelow ==
    ASSUME WindowTypeOK, Inverses, NEW n \in 0 .. WindowSize
    PROVE  /\ IsFiniteSet(Index)
           /\ Cardinality({k \in Index : NodeOf(k) < n}) = n
  <1> DEFINE S == {k \in Index : NodeOf(k) < n}
             T == 0 .. n - 1
             f == [k \in S |-> NodeOf(k)]
  <1>1. IsFiniteSet(Index)
    BY FS_Interval, WindowAssumption DEF Index
  <1>2. IsFiniteSet(S) /\ S \subseteq Index
    BY <1>1, FS_Subset
  <1>3. Cardinality(T) = n
    BY FS_Interval, WindowAssumption
  <1>4. \A k \in Index : NodeOf(k) \in Index
    <2>1. \A k \in Index : Last - k \in Int
      BY WindowAssumption DEF Last, WindowTypeOK, Index
    <2> QED BY <2>1, CellIs, Zenon DEF NodeOf, WindowTypeOK
  <1>5. \A k \in S : NodeOf(k) \in T
    BY <1>4, WindowAssumption DEF Index
  <1>6. \A m \in T : \E k \in S : NodeOf(k) = m
    <2> SUFFICES ASSUME NEW m \in T
                 PROVE  \E k \in S : NodeOf(k) = m
      OBVIOUS
    <2>1. m \in Index /\ m < n
      BY WindowAssumption DEF Index
    <2> QED BY <2>1, NodesCovered, Zenon
  <1>7. \A k, l \in S : NodeOf(k) = NodeOf(l) => k = l
    BY <1>2, NodesDiffer, Zenon
  <1> HIDE DEF S, T
  <1>8. f \in Bijection(S, T)
    BY <1>5, <1>6, <1>7 DEF Bijection, Injection, Surjection, IsInjective
  <1>9. Cardinality(T) = Cardinality(S)
    BY <1>2, <1>8, FS_Bijection, Zenon DEF ExistsBijection
  <1> QED BY <1>1, <1>3, <1>9 DEF S

\* The index of the percentile is inside the window, and is the rounded product.
LEMMA ControlIndex ==
    /\ control_index \in Index
    /\ control_index * 100 <= WindowSize * Percentile
    /\ WindowSize * Percentile <= (control_index + 1) * 100
  <1>1. WindowSize \in Nat /\ WindowSize > 0 /\ Percentile \in Nat /\ Percentile <= 99
    BY WindowAssumption, PercentileAssumption
  <1>2. PICK x \in Nat : x = WindowSize * Percentile
    BY <1>1
  <1>3. x < WindowSize * 100
    <2>1. WindowSize * Percentile <= WindowSize * 99
      BY <1>1
    <2>2. WindowSize * 99 < WindowSize * 100
      BY <1>1
    <2> QED BY <1>1, <1>2, <2>1, <2>2
  <1>4. control_index = x \div 100
    BY <1>2, Zenon DEF control_index
  <1>5. control_index \in Nat /\ control_index * 100 <= x /\ x <= (control_index + 1) * 100
    BY <1>4
  <1> QED BY <1>1, <1>2, <1>3, <1>5 DEF Index

\* The percentile of the window is the one it stands for.
LEMMA PercentileHolds ==
    ASSUME WindowTypeOK, WindowInv
    PROVE  PercentileIsRight
  <1> SUFFICES ASSUME Idle, count > 0
               PROVE  /\ Cardinality({k \in Index : Latest(k) <= perf_window_get_percentile}) * 100
                             >= WindowSize * Percentile
                      /\ Cardinality({k \in Index : Latest(k) < perf_window_get_percentile}) * 100
                             <= WindowSize * Percentile
    BY Zenon DEF PercentileIsRight
  <1> DEFINE c == control_index
             v == by_duration[c].time
             A == {k \in Index : Latest(k) <= v}
             B == {k \in Index : Latest(k) < v}
             Low(n) == {k \in Index : NodeOf(k) < n}
  <1>1. Inverses /\ Recency /\ Sorted /\ i = None
    BY Zenon DEF WindowInv, Idle
  <1>2. c \in Index /\ c * 100 <= WindowSize * Percentile /\ WindowSize * Percentile <= (c + 1) * 100
    BY ControlIndex, Zenon
  <1>3. \A k \in Index : NodeOf(k) \in Index /\ by_duration[NodeOf(k)].time = Latest(k)
    <2>1. \A k \in Index : Last - k \in Int
      BY WindowAssumption DEF Last, WindowTypeOK, Index
    <2>2. \A k \in Index : NodeOf(k) \in Index
      BY <2>1, CellIs, Zenon DEF NodeOf, WindowTypeOK
    <2> QED BY <1>1, <2>2, Zenon DEF Recency, NodeOf
  <1>4. \A n \in Index : by_duration[n].time \in Int /\ n \in Int
    BY Numbers, Zenon DEF WindowTypeOK
  <1>5. \A m, n \in Index : m < n => by_duration[m].time <= by_duration[n].time
    <2>1. None \notin Index
      BY WindowAssumption DEF Index, None
    <2> QED BY <1>1, <2>1, Zenon DEF Sorted
  <1>6. c \in 0 .. WindowSize /\ c + 1 \in 0 .. WindowSize /\ c \in Int
    BY <1>2, WindowAssumption DEF Index
  <1> HIDE DEF c
  <1>7. Low(c + 1) \subseteq A
    <2> SUFFICES ASSUME NEW k \in Index, NodeOf(k) < c + 1
                 PROVE  Latest(k) <= v
      OBVIOUS
    <2>1. NodeOf(k) = c \/ NodeOf(k) < c
      BY <1>3, <1>4, <1>6
    <2>2. by_duration[NodeOf(k)].time <= v
      BY <1>2, <1>3, <1>4, <1>5, <2>1
    <2> QED BY <1>3, <2>2, Zenon
  <1>8. B \subseteq Low(c)
    <2> SUFFICES ASSUME NEW k \in Index, Latest(k) < v
                 PROVE  NodeOf(k) < c
      OBVIOUS
    <2>1. by_duration[NodeOf(k)].time < by_duration[c].time /\ NodeOf(k) \in Index
      BY <1>3, Zenon
    <2> QED BY <1>2, <1>4, <1>5, <2>1
  <1>9. IsFiniteSet(Index) /\ Cardinality(Low(c + 1)) = c + 1 /\ Cardinality(Low(c)) = c
    BY <1>1, <1>6, CountBelow, Zenon
  <1>10. A \subseteq Index /\ B \subseteq Index /\ Low(c) \subseteq Index
    OBVIOUS
  <1> HIDE DEF A, B, Low
  <1>11. IsFiniteSet(A) /\ IsFiniteSet(B) /\ IsFiniteSet(Low(c))
    BY <1>9, <1>10, FS_Subset
  <1>12. Cardinality(A) >= c + 1 /\ Cardinality(B) <= c /\ Cardinality(A) \in Int /\ Cardinality(B) \in Int
    BY <1>7, <1>8, <1>9, <1>11, FS_Subset, FS_CardinalityType
  <1>13. WindowSize * Percentile \in Int
    BY WindowAssumption, PercentileAssumption
  <1>14. Cardinality(A) * 100 >= WindowSize * Percentile /\ Cardinality(B) * 100 <= WindowSize * Percentile
    BY <1>2, <1>6, <1>12, <1>13
  <1> QED BY <1>14, Zenon DEF A, B, c, perf_window_get_percentile

-----------------------------------------------------------------------------
(***************************************************************************)
(* The inductive invariant: the window, the lock and the total.            *)
(***************************************************************************)
\* The part of the types that is not the window's.
CountersOK ==
    /\ admitted \in Nat /\ estimate \in Nat \ {0} /\ unused \in Nat
    /\ listener \in [total : Nat, estimate : Nat]
    /\ work \in [Sandbox -> Nat]

ThreadsOK ==
    /\ pc \in [Worker -> {"idle", "update", "shift", "subtract", "fetch_sub"}]
    /\ cur \in [Worker -> Sandbox \cup {NULL}] /\ lock \in Worker \cup {NULL}

\* The parts of the inductive invariant that the actions are about.
WindowPart  == WindowTypeOK /\ WindowInv
ThreadPart  == ThreadsOK /\ LockInv
CounterPart == CountersOK /\ ListenerInv /\ TotalIsInFlight /\ WithinCapacity

\* The invariant is the conjunction of its parts.
LEMMA Parts == IInv <=> WindowPart /\ ThreadPart /\ CounterPart /\ NoUnderflow
  BY Zenon DEF IInv, TypeOK, WindowPart, ThreadPart, CounterPart, CountersOK, ThreadsOK

\* The same in the next state.
LEMMA NextParts ==
    ASSUME WindowPart', ThreadPart', CounterPart', NoUnderflow'
    PROVE  IInv'
  BY Zenon DEF IInv, TypeOK, WindowPart, ThreadPart, CounterPart, CountersOK, ThreadsOK

\* The part of the invariant about the window depends on the window only.
LEMMA WindowFrame ==
    ASSUME WindowPart, UNCHANGED window
    PROVE  WindowPart' /\ (Idle' <=> Idle) /\ count' = count
  <1>1. /\ by_duration' = by_duration /\ by_termination' = by_termination /\ count' = count /\ i' = i
        /\ up' = up /\ recent' = recent
    BY Zenon DEF window
  <1>2. WindowTypeOK'
    BY <1>1, Zenon DEF WindowPart, WindowTypeOK
  <1>3. (Idle' <=> Idle) /\ Last' = Last /\ \A k \in Index : Latest(k)' = Latest(k)
    BY <1>1, Zenon DEF Idle, Last, Latest
  <1>4. (Inverses => Inverses') /\ (Recency => Recency') /\ (Sorted => Sorted')
    BY <1>1, <1>3, Zenon DEF Inverses, Recency, Sorted
  <1>5. WindowInv'
    BY <1>1, <1>3, <1>4, Zenon DEF WindowPart, WindowInv
  <1> QED BY <1>1, <1>2, <1>3, <1>5, Zenon DEF WindowPart

\* The part about the counters depends on them only.
LEMMA CounterFrame ==
    ASSUME CounterPart, UNCHANGED <<admitted, listener, work, unused>>, estimate' \in Nat \ {0}
    PROVE  CounterPart'
  BY Zenon DEF CounterPart, CountersOK, ListenerInv, TotalIsInFlight, WithinCapacity

\* The part about the threads depends on them, on who works on the window and on its being filled.
LEMMA ThreadFrame ==
    ASSUME ThreadPart, UNCHANGED <<pc, cur, lock>>, Idle' <=> Idle, count' = count
    PROVE  ThreadPart'
  BY Zenon DEF ThreadPart, ThreadsOK, LockInv

\* The state in which the runtime starts.
LEMMA InitIInv == Init => IInv
  <1> SUFFICES ASSUME Init
               PROVE  IInv
    OBVIOUS
  <1>1. WindowSize \in Nat \ {0} /\ None = -1 /\ 0 \in Index
    BY WindowAssumption DEF None, Index
  <1>2. WindowPart
    <2>1. /\ by_duration = [j \in Index |-> [time |-> 0, by_termination_idx |-> 0]]
          /\ by_termination = [j \in Index |-> 0]
          /\ count = 0 /\ i = None /\ up = FALSE /\ recent = <<>>
      BY Zenon DEF Init, InitWindow, perf_window_initialize
    <2>2. WindowTypeOK
      BY <1>1, <2>1 DEF WindowTypeOK
    <2>3. WindowInv
      BY <2>1 DEF WindowInv, Idle
    <2> QED BY <2>2, <2>3, Zenon DEF WindowPart
  <1>3. ThreadPart
    BY AdmissionsAssumption DEF Init, InitWindow, Idle, ThreadPart, ThreadsOK, LockInv
  <1>4. CounterPart
    <2>1. estimate \in Nat \ {0}
      <3>1. PICK e \in Time : estimate = (e * Granularity) \div RelativeDeadline /\ estimate > 0
        BY Zenon DEF Init, admissions_control_calculate_estimate
      <3>2. e * Granularity \in Nat
        BY WindowAssumption, AdmissionsAssumption
      <3>3. (e * Granularity) \div RelativeDeadline \in Int
        BY <3>2, AdmissionsAssumption
      <3> QED BY <3>1, <3>3
    <2>2. admitted = 0 /\ listener = NotDeciding /\ work = [s \in Sandbox |-> 0] /\ unused = 0
      BY Zenon DEF Init
    <2>3. CountersOK
      BY <2>1, <2>2 DEF CountersOK, NotDeciding
    <2>4. SumFunction(work) = 0
      <3>1. work \in [Sandbox -> Nat] /\ \A s \in Sandbox : work[s] = 0
        BY <2>2
      <3> QED BY <3>1, SumOfZeros, AdmissionsAssumption, Zenon
    <2> QED BY <2>2, <2>3, <2>4, AdmissionsAssumption
            DEF CounterPart, ListenerInv, TotalIsInFlight, WithinCapacity
  <1>5. NoUnderflow
    BY DEF Init, NoUnderflow
  <1> QED BY <1>2, <1>3, <1>4, <1>5, Parts, Zenon

\* admissions_control_decide loads the total.
LEMMA DecideLoadIInv ==
    ASSUME IInv, DecideLoad
    PROVE  IInv'
  <1>1. WindowPart /\ ThreadPart /\ CounterPart /\ NoUnderflow
    BY Parts, Zenon
  <1>2. /\ UNCHANGED window /\ UNCHANGED <<pc, cur, lock>> /\ fatal' = fatal /\ admitted' = admitted
        /\ estimate' = estimate /\ work' = work /\ unused' = unused
        /\ listener' = [total |-> admitted, estimate |-> estimate]
    BY Zenon DEF DecideLoad
  <1>3. CountersOK'
    BY <1>1, <1>2 DEF CounterPart, CountersOK
  <1>4. ListenerInv'
    BY <1>1, <1>2 DEF CounterPart, CountersOK, ListenerInv
  <1>5. CounterPart'
    BY <1>1, <1>2, <1>3, <1>4, Zenon DEF CounterPart, TotalIsInFlight, WithinCapacity
  <1> QED BY <1>1, <1>2, <1>5, NextParts, WindowFrame, ThreadFrame, Zenon DEF NoUnderflow

\* ... compares it, and adds to it: nobody but the listener adds, so what it loaded is an upper bound.
LEMMA DecideAddIInv ==
    ASSUME IInv, DecideAdd
    PROVE  IInv'
  <1>1. WindowPart /\ ThreadPart /\ CounterPart /\ NoUnderflow
    BY Parts, Zenon
  <1>2. /\ UNCHANGED window /\ UNCHANGED <<pc, cur, lock>> /\ fatal' = fatal /\ estimate' = estimate
        /\ listener # NotDeciding /\ listener' = NotDeciding
    BY Zenon DEF DecideAdd
  <1>3. /\ admitted \in Nat /\ unused \in Nat /\ work \in [Sandbox -> Nat] /\ listener.total \in Nat
        /\ listener.estimate \in Nat /\ admitted <= listener.total /\ estimate' \in Nat \ {0}
        /\ listener' \in [total : Nat, estimate : Nat] /\ Capacity \in Nat /\ IsFiniteSet(Sandbox)
    BY <1>1, <1>2, AdmissionsAssumption DEF CounterPart, CountersOK, ListenerInv, NotDeciding
  <1>4. admitted = SumFunction(work) + unused /\ admitted < Capacity /\ SumFunction(work) \in Nat
    BY <1>1, <1>3, SumBounds, Zenon DEF CounterPart, TotalIsInFlight, WithinCapacity
  <1>5. /\ admitted' \in Nat /\ admitted' < Capacity
        /\ work' \in [Sandbox -> Nat] /\ unused' \in Nat
        /\ admitted' = SumFunction(work') + unused'
    <2>1. CASE UNCHANGED <<admitted, work, unused>>
      BY <1>3, <1>4, <2>1, Zenon
    <2>2. CASE ~Rejects /\ admitted' = admitted + listener.estimate
               /\ unused' = unused + listener.estimate /\ UNCHANGED work
      BY <1>3, <1>4, <2>2 DEF Rejects
    <2>3. ASSUME ~Rejects, admitted' = admitted + listener.estimate, UNCHANGED unused,
                 NEW s \in Sandbox, work[s] = 0, work' = [work EXCEPT ![s] = listener.estimate]
          PROVE  /\ admitted' \in Nat /\ admitted' < Capacity
                 /\ work' \in [Sandbox -> Nat] /\ unused' \in Nat
                 /\ admitted' = SumFunction(work') + unused'
      <3>2. work' \in [Sandbox -> Nat]
        BY <1>3, <2>3
      <3>1. SumFunction(work') = SumFunction(work) - work[s] + listener.estimate
        <4>1. work'[s] = listener.estimate /\ \A y \in Sandbox : y # s => work'[y] = work[y]
          BY <1>3, <2>3, Zenon
        <4> QED BY <1>3, <3>2, <4>1, SumUpdate, SMTT(30)
      <3>3. admitted' \in Nat /\ admitted' < Capacity
        BY <1>3, <2>3 DEF Rejects
      <3> QED BY <1>3, <1>4, <2>3, <3>1, <3>2, <3>3
    <2> QED BY <2>1, <2>2, <2>3, Zenon DEF DecideAdd
  <1>6. ListenerInv'
    BY <1>2, Zenon DEF ListenerInv, NotDeciding
  <1>7. CounterPart'
    BY <1>3, <1>5, <1>6, Zenon DEF CounterPart, CountersOK, TotalIsInFlight, WithinCapacity
  <1> QED BY <1>1, <1>2, <1>7, NextParts, WindowFrame, ThreadFrame, Zenon DEF NoUnderflow

\* A worker takes a sandbox.
LEMMA RunIInv ==
    ASSUME IInv, NEW w \in Worker, NEW s \in Sandbox, Run(w, s)
    PROVE  IInv'
  <1>1. WindowPart /\ ThreadPart /\ CounterPart /\ NoUnderflow
    BY Parts, Zenon
  <1>2. /\ UNCHANGED window /\ UNCHANGED <<admitted, listener, work, unused>> /\ estimate' = estimate
        /\ fatal' = fatal /\ lock' = lock /\ pc[w] = "idle" /\ cur' = [cur EXCEPT ![w] = s]
    BY Zenon DEF Run
  <1>3. PICK p \in {"update", "subtract"} : pc' = [pc EXCEPT ![w] = p]
    BY Zenon DEF Run
  <1>4. CounterPart'
    BY <1>1, <1>2, CounterFrame, Zenon DEF CounterPart, CountersOK
  <1>5. WindowPart' /\ (Idle' <=> Idle) /\ count' = count
    BY <1>1, <1>2, WindowFrame, Zenon
  <1>6. ThreadPart'
    BY <1>1, <1>2, <1>3, <1>5 DEF ThreadPart, ThreadsOK, LockInv
  <1> QED BY <1>1, <1>2, <1>4, <1>5, <1>6, NextParts, Zenon DEF NoUnderflow

\* admissions_info_update locks the window and puts the execution time in.
LEMMA UpdateBeginIInv ==
    ASSUME IInv, NEW w \in Worker, NEW t \in Time, UpdateBegin(w, t)
    PROVE  IInv'
  <1>1. WindowPart /\ ThreadPart /\ CounterPart /\ NoUnderflow
    BY Parts, Zenon
  <1>2. /\ UNCHANGED <<admitted, listener, work, unused>> /\ estimate' = estimate /\ fatal' = fatal
        /\ cur' = cur /\ lock = NULL /\ lock' = w /\ pc[w] = "update" /\ pc' = [pc EXCEPT ![w] = "shift"]
    BY Zenon DEF UpdateBegin
  <1>3. WindowPart' /\ count' > 0
    BY <1>1, FillWindow, ReplaceWindow, Zenon DEF UpdateBegin, WindowPart
  <1>4. CounterPart'
    BY <1>1, <1>2, CounterFrame, Zenon DEF CounterPart, CountersOK
  <1>5. ThreadPart'
    BY <1>1, <1>2, <1>3, AdmissionsAssumption DEF ThreadPart, ThreadsOK, LockInv
  <1> QED BY <1>1, <1>2, <1>3, <1>4, <1>5, NextParts, Zenon DEF NoUnderflow

\* It sorts the window, one swap at a time.
LEMMA UpdateShiftIInv ==
    ASSUME IInv, NEW w \in Worker, UpdateShift(w)
    PROVE  IInv'
  <1>1. WindowPart /\ ThreadPart /\ CounterPart /\ NoUnderflow
    BY Parts, Zenon
  <1>2. /\ UNCHANGED <<admitted, listener, work, unused>> /\ estimate' = estimate /\ fatal' = fatal
        /\ cur' = cur /\ lock' = lock /\ pc' = pc /\ pc[w] = "shift" /\ Shift
    BY Zenon DEF UpdateShift
  <1>3. WindowPart' /\ count' = count
    BY <1>1, <1>2, ShiftWindow, Zenon DEF WindowPart
  <1>4. CounterPart'
    BY <1>1, <1>2, CounterFrame, Zenon DEF CounterPart, CountersOK
  <1>5. lock # NULL
    BY <1>1, <1>2, AdmissionsAssumption, Zenon DEF ThreadPart, LockInv
  <1>6. ThreadPart'
    BY <1>1, <1>2, <1>3, <1>5, Zenon DEF ThreadPart, ThreadsOK, LockInv
  <1> QED BY <1>1, <1>2, <1>3, <1>4, <1>6, NextParts, Zenon DEF NoUnderflow

\* ... takes the estimate from the percentile and unlocks.
LEMMA UpdateEndIInv ==
    ASSUME IInv, NEW w \in Worker, UpdateEnd(w)
    PROVE  IInv'
  <1> DEFINE new == admissions_control_calculate_estimate(perf_window_get_percentile)
  <1>1. WindowPart /\ ThreadPart /\ CounterPart /\ NoUnderflow
    BY Parts, Zenon
  <1>2. /\ UNCHANGED <<admitted, listener, work, unused>> /\ cur' = cur /\ pc[w] = "shift"
        /\ \/ new = 0 /\ fatal' = "estimate_of_0" /\ UNCHANGED <<estimate, pc, lock>>
           \/ new > 0 /\ estimate' = new /\ lock' = NULL /\ pc' = [pc EXCEPT ![w] = "subtract"] /\ fatal' = fatal
    BY Zenon DEF UpdateEnd
  <1>3. lock = w /\ w # NULL /\ count > 0
    BY <1>1, <1>2, AdmissionsAssumption, Zenon DEF ThreadPart, LockInv
  <1>4. WindowPart' /\ Idle' /\ count' > 0
    BY <1>1, <1>3, DoneWindow, WindowFrame, Zenon DEF UpdateEnd, WindowPart
  <1>5. new \in Int
    <2>1. PICK p : p = perf_window_get_percentile
      OBVIOUS
    <2>2. p \in Nat
      <3>1. by_duration[control_index].time \in Time \cup {0}
        BY <1>1, ControlIndex, Zenon DEF WindowPart, WindowTypeOK
      <3>2. \A x \in Time \cup {0} : x \in Nat
        BY WindowAssumption
      <3> QED BY <2>1, <3>1, <3>2, Zenon DEF perf_window_get_percentile
    <2>3. PICK x \in Nat : x = p * Granularity
      BY <2>2, AdmissionsAssumption
    <2>4. x \div RelativeDeadline \in Int
      BY <2>3, AdmissionsAssumption
    <2> QED BY <2>1, <2>3, <2>4, Zenon DEF admissions_control_calculate_estimate
  <1> HIDE DEF new
  <1>6. estimate' \in Nat \ {0}
    BY <1>1, <1>2, <1>5 DEF CounterPart, CountersOK
  <1>7. CounterPart'
    BY <1>1, <1>2, <1>6, CounterFrame, Zenon
  <1>8. ThreadPart'
    <2>1. CASE UNCHANGED <<estimate, pc, lock>>
      BY <1>1, <1>2, <1>4, <2>1, Zenon DEF ThreadPart, ThreadsOK, LockInv
    <2>2. CASE lock' = NULL /\ pc' = [pc EXCEPT ![w] = "subtract"]
      BY <1>1, <1>2, <1>3, <1>4, <2>2, AdmissionsAssumption DEF ThreadPart, ThreadsOK, LockInv
    <2> QED BY <1>2, <2>1, <2>2, Zenon
  <1>9. NoUnderflow'
    BY <1>1, <1>2 DEF NoUnderflow
  <1> QED BY <1>4, <1>7, <1>8, <1>9, NextParts, Zenon

\* The comparison of admissions_control_subtract: a sandbox in flight is part of the total.
LEMMA SubtractCompareIInv ==
    ASSUME IInv, NEW w \in Worker, SubtractCompare(w)
    PROVE  IInv'
  <1>1. WindowPart /\ ThreadPart /\ CounterPart /\ NoUnderflow
    BY Parts, Zenon
  <1>2. /\ UNCHANGED window /\ UNCHANGED <<admitted, listener, work, unused>> /\ estimate' = estimate
        /\ cur' = cur /\ lock' = lock /\ pc[w] = "subtract"
    BY Zenon DEF SubtractCompare
  <1>3. ~(admissions_estimate(cur[w]) > admitted)
    <2>1. /\ cur[w] \in Sandbox /\ work \in [Sandbox -> Nat] /\ admitted \in Nat /\ unused \in Nat
          /\ admitted = SumFunction(work) + unused /\ IsFiniteSet(Sandbox)
      BY <1>1, <1>2, AdmissionsAssumption
         DEF CounterPart, CountersOK, TotalIsInFlight, ThreadPart, LockInv
    <2>2. SumFunction(work) \in Nat /\ work[cur[w]] <= SumFunction(work) /\ work[cur[w]] \in Nat
      BY <2>1, SumBounds
    <2> QED BY <2>1, <2>2 DEF admissions_estimate
  <1>4. pc' = [pc EXCEPT ![w] = "fetch_sub"] /\ fatal' = fatal
    BY <1>3, Zenon DEF SubtractCompare
  <1>5. WindowPart' /\ (Idle' <=> Idle) /\ count' = count
    BY <1>1, <1>2, WindowFrame, Zenon
  <1>6. CounterPart'
    BY <1>1, <1>2, CounterFrame, Zenon DEF CounterPart, CountersOK
  <1>7. ThreadPart'
    BY <1>1, <1>2, <1>4, <1>5 DEF ThreadPart, ThreadsOK, LockInv
  <1> QED BY <1>1, <1>4, <1>5, <1>6, <1>7, NextParts, Zenon DEF NoUnderflow

\* ... and the subtraction: the sandbox is no longer in flight.
LEMMA SubtractFetchIInv ==
    ASSUME IInv, NEW w \in Worker, SubtractFetch(w)
    PROVE  IInv'
  <1>1. WindowPart /\ ThreadPart /\ CounterPart /\ NoUnderflow
    BY Parts, Zenon
  <1>2. /\ UNCHANGED window /\ listener' = listener /\ unused' = unused /\ estimate' = estimate
        /\ lock' = lock /\ fatal' = fatal /\ pc[w] = "fetch_sub"
        /\ admitted' = admitted - work[cur[w]] /\ work' = [work EXCEPT ![cur[w]] = 0]
        /\ cur' = [cur EXCEPT ![w] = NULL] /\ pc' = [pc EXCEPT ![w] = "idle"]
    BY Zenon DEF SubtractFetch, admissions_estimate
  <1>3. WindowPart' /\ (Idle' <=> Idle) /\ count' = count
    BY <1>1, <1>2, WindowFrame, Zenon
  <1>4. ThreadPart'
    BY <1>1, <1>2, <1>3 DEF ThreadPart, ThreadsOK, LockInv
  <1>5. CounterPart'
    <2>1. /\ cur[w] \in Sandbox /\ work \in [Sandbox -> Nat] /\ admitted \in Nat /\ unused \in Nat
          /\ listener \in [total : Nat, estimate : Nat] /\ estimate \in Nat \ {0}
          /\ admitted = SumFunction(work) + unused /\ admitted < Capacity
          /\ IsFiniteSet(Sandbox) /\ Capacity \in Nat
      BY <1>1, <1>2, AdmissionsAssumption
         DEF CounterPart, CountersOK, TotalIsInFlight, WithinCapacity, ThreadPart, LockInv
    <2>2. SumFunction(work) \in Nat /\ work[cur[w]] <= SumFunction(work) /\ work[cur[w]] \in Nat
      BY <2>1, SumBounds
    <2>3. SumFunction(work') = SumFunction(work) - work[cur[w]] + 0
      <3>1. 0 \in Nat /\ work' \in [Sandbox -> Nat]
        BY <1>2, <2>1
      <3>2. work'[cur[w]] = 0 /\ \A y \in Sandbox : y # cur[w] => work'[y] = work[y]
        BY <1>2, <2>1, Zenon
      <3> QED BY <2>1, <3>1, <3>2, SumUpdate, SMTT(30)
    <2>4. work' \in [Sandbox -> Nat] /\ admitted' \in Nat /\ admitted' < Capacity /\ admitted' <= admitted
          /\ admitted' = SumFunction(work') + unused
      BY <1>2, <2>1, <2>2, <2>3
    <2>5. ListenerInv'
      <3>1. listener # NotDeciding => admitted <= listener.total
        BY <1>1, Zenon DEF CounterPart, ListenerInv
      <3>2. listener # NotDeciding => admitted' <= listener.total
        BY <2>1, <2>4, <3>1
      <3> QED BY <1>2, <3>2, Zenon DEF ListenerInv, NotDeciding
    <2> QED BY <1>2, <2>1, <2>4, <2>5, Zenon DEF CounterPart, CountersOK, TotalIsInFlight, WithinCapacity
  <1> QED BY <1>1, <1>2, <1>3, <1>4, <1>5, NextParts, Zenon DEF NoUnderflow

\* No step of the listener or of a worker breaks the invariant.
LEMMA NextIInv == IInv /\ [Next]_vars => IInv'
  <1> SUFFICES ASSUME IInv, [Next]_vars
               PROVE  IInv'
    OBVIOUS
  <1>1. CASE DecideLoad
    BY <1>1, DecideLoadIInv, Zenon
  <1>2. CASE DecideAdd
    BY <1>2, DecideAddIInv, Zenon
  <1>3. ASSUME NEW w \in Worker, WorkerStep(w)
        PROVE  IInv'
    BY <1>3, RunIInv, UpdateBeginIInv, UpdateShiftIInv, UpdateEndIInv, SubtractCompareIInv, SubtractFetchIInv,
       Zenon DEF WorkerStep
  <1>4. CASE UNCHANGED vars
    <2>1. /\ UNCHANGED window /\ UNCHANGED <<admitted, listener, work, unused>> /\ estimate' = estimate
          /\ UNCHANGED <<pc, cur, lock>> /\ fatal' = fatal
      BY <1>4, Zenon DEF vars
    <2>2. WindowPart /\ ThreadPart /\ CounterPart /\ NoUnderflow
      BY Parts, Zenon
    <2>3. CounterPart'
      BY <2>1, <2>2, CounterFrame, Zenon DEF CounterPart, CountersOK
    <2> QED BY <2>1, <2>2, <2>3, NextParts, WindowFrame, ThreadFrame, Zenon DEF NoUnderflow
  <1> QED BY <1>1, <1>2, <1>3, <1>4, Zenon DEF Next

-----------------------------------------------------------------------------
\* The inductive invariant holds in every reachable state, for every size of the window, capacity, set
\* of execution times and number of workers and sandboxes.
THEOREM AdmissionsInvariant == Spec => []IInv
  BY InitIInv, NextIInv, PTL DEF Spec

\* However perf_window_add sorted them in, the circular buffer leads to the last WindowSize executions in
\* the order in which they ended.
THEOREM WindowIsSliding == Spec => []SlidingWindow
  <1>1. IInv => SlidingWindow
    BY WindowSlides, Zenon DEF IInv
  <1> QED BY <1>1, AdmissionsInvariant, PTL

\* The estimate of a route is the percentile it stands for, although only one array access computes it.
THEOREM PercentileIsTheOne == Spec => []PercentileIsRight
  <1>1. IInv => PercentileIsRight
    BY PercentileHolds, Zenon DEF IInv, TypeOK
  <1> QED BY <1>1, AdmissionsInvariant, PTL

\* The listener compares a total it loaded earlier and adds later, without a lock: the total stays below
\* the capacity all the same.
THEOREM CapacityIsKept == Spec => []WithinCapacity
  <1>1. IInv => WithinCapacity
    BY Zenon DEF IInv
  <1> QED BY <1>1, AdmissionsInvariant, PTL

\* The total is the sum of what the requests in flight were admitted with, whatever the estimate of the
\* route became since.
THEOREM TotalIsExact == Spec => []TotalIsInFlight
  <1>1. IInv => TotalIsInFlight
    BY Zenon DEF IInv
  <1> QED BY <1>1, AdmissionsInvariant, PTL

\* admissions_control_subtract never panics: its assumption that the total does not underflow holds.
THEOREM SubtractNeverUnderflows == Spec => []NoUnderflow
  <1>1. IInv => NoUnderflow
    BY Zenon DEF IInv
  <1> QED BY <1>1, AdmissionsInvariant, PTL

=============================================================================
