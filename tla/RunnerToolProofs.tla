--------------------------- MODULE RunnerToolProofs ---------------------------
(***************************************************************************)
(* The exit status of cgreen-runner, the one suite it shows, its types,    *)
(* the tests it runs and their suites, for all libraries, command lines,   *)
(* patterns and outcomes; and before that what the recursive definitions   *)
(* of RunnerTool compute for every list of tests: what sorting, selecting, *)
(* grouping into suites and walking them return.                           *)
(***************************************************************************)
EXTENDS RunnerTool, Induction, SequenceTheorems, FiniteSetTheorems, FunctionTheorems, TLAPS

\* f is the recursion by which Kept is defined
KeepsBy(f, items, S) ==
  /\ f[0] = <<>>
  /\ \A n \in 1..Len(items) :
       f[n] = IF items[n] \in S THEN Append(f[n-1], items[n]) ELSE f[n-1]

LEMMA KeptSteps ==
  ASSUME NEW T, NEW items \in Seq(T), NEW S
  PROVE  \E f : KeepsBy(f, items, S) /\ Kept(items, S) = f[Len(items)]
<1> DEFINE N == Len(items)
           Q(f) == f = [n \in 0..Len(items) |-> IF n = 0 THEN <<>>
                       ELSE IF items[n] \in S THEN Append(f[n-1], items[n]) ELSE f[n-1]]
           F == CHOOSE f : Q(f)
           I == [n \in 0..N |-> Seq(T)]
           g == [p \in (1..N) \X Seq(T) |->
                   IF items[p[1]] \in S THEN Append(p[2], items[p[1]]) ELSE p[2]]
<1>0. N \in Nat
  OBVIOUS
<1>1. \E f : Q(f)
  <2>1. ASSUME NEW i \in 1..N, NEW x \in Seq(T)
        PROVE  g[<<i, x>>] = (IF items[i] \in S THEN Append(x, items[i]) ELSE x)
    <3>1. <<i, x>> \in (1..N) \X Seq(T)
      OBVIOUS
    <3>2. QED
      BY <3>1
  <2>2. <<>> \in I[0] /\ Leads(g, N, I)
    <3>1. ASSUME NEW i \in 1..N, NEW x \in Seq(T) PROVE g[<<i, x>>] \in Seq(T)
      BY <2>1
    <3> HIDE DEF g, N
    <3>2. QED
      BY <1>0, <3>1 DEF Leads
  <2> HIDE DEF g, I
  <2>3. PICK f : Recurs(f, N, <<>>, g) /\ Within(f, N, I)
    <3> HIDE DEF N
    <3>1. QED
      BY <1>0, <2>2, RecursionExists
  <2>4. \A i \in 1..N : f[i-1] \in Seq(T)
    BY <1>0, <2>3 DEF Within, I
  <2>5. /\ f = [i \in 0..N |-> f[i]] /\ f[0] = <<>>
        /\ \A i \in 1..N : f[i] = IF items[i] \in S THEN Append(f[i-1], items[i]) ELSE f[i-1]
    <3>1. f = [i \in 0..N |-> f[i]] /\ f[0] = <<>> /\ \A i \in 1..N : f[i] = g[<<i, f[i-1]>>]
      BY <2>3 DEF Recurs
    <3>2. QED
      BY <2>1, <2>4, <3>1
  <2>6. Q(f)
    <3> HIDE DEF N
    <3>1. \A i \in 0..N : i = 0 \/ i \in 1..N
      BY <1>0
    <3>2. QED
      BY <2>5, <3>1 DEF N
  <2>7. QED
    BY <2>6
<1>2. Q(F)
  <2> HIDE DEF Q
  <2>1. QED
    BY <1>1
<1>3. Kept(items, S) = F[N]
  BY DEF Kept
<1> HIDE DEF F
<1>4. F[0] = <<>>
  <2>1. 0 \in 0..Len(items)
    BY <1>0
  <2>2. QED
    BY <1>2, <2>1
<1>5. ASSUME NEW n \in 1..Len(items)
      PROVE  F[n] = IF items[n] \in S THEN Append(F[n-1], items[n]) ELSE F[n-1]
  <2>1. n \in 0..Len(items) /\ n # 0
    BY <1>0
  <2>2. QED
    BY <1>2, <2>1
<1>6. QED
  BY <1>3, <1>4, <1>5 DEF KeepsBy

-----------------------------------------------------------------------------
(* What the tool computes of the tests of a library                        *)

\* names do not fall
Rise(s) == \A i, k \in DOMAIN s : i < k => s[i].name <= s[k].name

IsKept(x, items, n, S) ==
  /\ x \in Seq(Items)
  /\ \A i \in DOMAIN x : \E k \in 1..n : items[k] \in S /\ x[i] = items[k]
  /\ \A k \in 1..n : items[k] \in S => \E i \in DOMAIN x : x[i] = items[k]
  /\ IsInjective(x) /\ Rise(x)

LEMMA AppendItem ==
  ASSUME NEW T, NEW s \in Seq(T), NEW e \in T
  PROVE  /\ Append(s, e) \in Seq(T) /\ Len(Append(s, e)) = Len(s) + 1
         /\ Len(s) \in Nat /\ DOMAIN s = 1..Len(s)
         /\ DOMAIN Append(s, e) = 1..(Len(s) + 1)
         /\ \A i \in 1..Len(s) : Append(s, e)[i] = s[i]
         /\ Append(s, e)[Len(s) + 1] = e
  BY AppendProperties

LEMMA ItemType == ASSUME NEW t \in Items
                  PROVE  t = [context |-> t.context, name |-> t.name] /\ t.name \in Nat \ {0}
  BY ToolAssumption

LEMMA KeptStep ==
  ASSUME NEW items \in Seq(Items), IsInjective(items), Rise(items), NEW S,
         NEW n \in 1..Len(items), NEW x, IsKept(x, items, n - 1, S)
  PROVE  IsKept(IF items[n] \in S THEN Append(x, items[n]) ELSE x, items, n, S)
<1>1. /\ items[n] \in Items /\ x \in Seq(Items) /\ n \in DOMAIN items
      /\ \A k \in 1..n : k \in DOMAIN items /\ (k = n \/ k \in 1..(n-1))
      /\ \A k \in 1..(n-1) : k \in 1..n /\ k < n
      /\ Len(x) \in Nat /\ DOMAIN x = 1..Len(x)
  BY DEF IsKept
<1>2. CASE items[n] \notin S
  BY <1>1, <1>2 DEF IsKept
<1>3. CASE items[n] \in S
  <2> DEFINE y == Append(x, items[n])
  <2>1. /\ y \in Seq(Items) /\ DOMAIN y = 1..(Len(x) + 1)
        /\ \A i \in 1..Len(x) : y[i] = x[i]
        /\ y[Len(x) + 1] = items[n]
    BY <1>1, AppendItem
  <2> HIDE DEF y
  <2>2. \A i \in DOMAIN y : i = Len(x) + 1 \/ i \in DOMAIN x
    BY <1>1, <2>1
  <2>3. \A i \in DOMAIN x : i \in DOMAIN y /\ i < Len(x) + 1 /\ y[i] = x[i]
    BY <1>1, <2>1
  <2>4. Len(x) + 1 \in DOMAIN y
    BY <1>1, <2>1
  <2>5. \A i \in DOMAIN y : \E k \in 1..n : items[k] \in S /\ y[i] = items[k]
    BY <1>1, <1>3, <2>1, <2>2, <2>3 DEF IsKept
  <2>6. \A k \in 1..n : items[k] \in S => \E i \in DOMAIN y : y[i] = items[k]
    BY <1>1, <2>1, <2>3, <2>4 DEF IsKept
  <2>7. \A i \in DOMAIN x : \E k \in 1..(n-1) : x[i] = items[k]
    BY DEF IsKept
  <2>8. IsInjective(y)
    <3>1. \A i \in DOMAIN x : x[i] # items[n]
      BY <1>1, <2>7 DEF IsInjective
    <3>2. \A i, j \in DOMAIN x : x[i] = x[j] => i = j
      BY DEF IsKept, IsInjective
    <3>3. QED
      BY <2>1, <2>2, <2>3, <3>1, <3>2 DEF IsInjective
  <2>9. Rise(y)
    <3>1. \A i \in DOMAIN x : x[i].name <= items[n].name
      BY <1>1, <2>7 DEF Rise
    <3>2. \A i, j \in DOMAIN x : i < j => x[i].name <= x[j].name
      BY DEF IsKept, Rise
    <3>3. \A i \in DOMAIN x : ~(Len(x) + 1 < i)
      BY <1>1
    <3>4. SUFFICES ASSUME NEW i \in DOMAIN y, NEW j \in DOMAIN y, i < j
                   PROVE  y[i].name <= y[j].name
      BY DEF Rise
    <3>5. i \in DOMAIN x
      BY <1>1, <2>1, <2>2, <3>3, <3>4
    <3>6. CASE j \in DOMAIN x
      BY <2>3, <3>2, <3>4, <3>5, <3>6
    <3>7. CASE j = Len(x) + 1
      BY <2>1, <2>3, <3>1, <3>5, <3>7
    <3>8. QED
      BY <2>2, <3>6, <3>7
  <2>10. QED
    BY <1>3, <2>1, <2>5, <2>6, <2>8, <2>9 DEF IsKept, y
<1>4. QED
  BY <1>2, <1>3

\* what is kept of injective, sorted items is that, and neither more nor less
LEMMA KeptIs ==
  ASSUME NEW items \in Seq(Items), IsInjective(items), Rise(items), NEW S
  PROVE  IsKept(Kept(items, S), items, Len(items), S)
<1>1. PICK f : KeepsBy(f, items, S) /\ Kept(items, S) = f[Len(items)]
  BY KeptSteps
<1> DEFINE A == {n \in 0..Len(items) : IsKept(f[n], items, n, S)}
<1>2. 0 \in A
  <2>1. IsKept(<<>>, items, 0, S)
    BY DEF IsKept, IsInjective, Rise
  <2>2. QED
    BY <1>1, <2>1 DEF KeepsBy
<1>3. ASSUME NEW n \in 1..Len(items), n - 1 \in A PROVE n \in A
  <2>1. IsKept(f[n-1], items, n - 1, S)
    BY <1>3
  <2>2. f[n] = IF items[n] \in S THEN Append(f[n-1], items[n]) ELSE f[n-1]
    BY <1>1 DEF KeepsBy
  <2>3. IsKept(f[n], items, n, S)
    BY <2>1, <2>2, KeptStep
  <2>4. QED
    BY <2>3
<1>4. 0..Len(items) \subseteq A
  <2>1. Len(items) \in Nat /\ \A n \in 1..Len(items) : n - 1 \in A => n \in A
    BY <1>3
  <2> HIDE DEF A
  <2>2. QED
    BY <1>2, <2>1, Stepwise
<1>5. QED
  BY <1>1, <1>4

\* selection sort: n items are taken, in order, and none of the others comes before them
IsSorting(st, items, n) ==
  /\ st.left \in Seq(Items) /\ st.sorted \in Seq(Items)
  /\ Len(st.left) = Len(items) - n
  /\ IsInjective(st.left) /\ IsInjective(st.sorted)
  /\ Range(st.left) \cap Range(st.sorted) = {}
  /\ Range(st.left) \cup Range(st.sorted) = Range(items)
  /\ Rise(st.sorted)
  /\ \A t \in Range(st.sorted), u \in Range(st.left) : t.name <= u.name

LEMMA RangeOf ==
  ASSUME NEW s \in Seq(Items)
  PROVE  /\ \A i \in DOMAIN s : s[i] \in Range(s)
         /\ \A t \in Range(s) : \E i \in DOMAIN s : t = s[i]
         /\ Range(s) \subseteq Items
         /\ DOMAIN s = 1..Len(s) /\ Len(s) \in Nat
  BY DEF Range

LEMMA SmallestIs ==
  ASSUME NEW s \in Seq(Items), s # <<>>
  PROVE  /\ Smallest(s) \in DOMAIN s
         /\ \A j \in DOMAIN s : s[Smallest(s)].name <= s[j].name
<1> DEFINE names == {s[i].name : i \in DOMAIN s}
<1>1. DOMAIN s = 1..Len(s) /\ Len(s) \in Nat \ {0} /\ \A i \in DOMAIN s : s[i].name \in Nat
  BY ItemType
<1>2. names \subseteq Nat /\ s[1].name \in names
  BY <1>1
<1>3. PICK m \in names : \A k \in names : m <= k
  <2> HIDE DEF names
  <2>1. QED
    BY <1>2, LeastExists
<1> DEFINE places == {i \in DOMAIN s : s[i].name = m}
<1>4. places \subseteq Nat /\ places # {}
  BY <1>1, <1>3
<1>5. PICK p \in places : \A k \in places : p <= k
  <2> HIDE DEF places
  <2>1. QED
    BY <1>4, LeastExists
<1>6. \A j \in DOMAIN s : s[p].name < s[j].name \/ (s[p].name = s[j].name /\ p <= j)
  <2>1. SUFFICES ASSUME NEW j \in DOMAIN s
                 PROVE  s[p].name < s[j].name \/ (s[p].name = s[j].name /\ p <= j)
    OBVIOUS
  <2>2. p \in DOMAIN s /\ s[p].name = m /\ m <= s[j].name /\ m \in Nat /\ s[j].name \in Nat
    BY <1>1, <1>3, <1>5
  <2>3. s[j].name = m => p <= j
    BY <1>5
  <2>4. QED
    BY <2>2, <2>3
<1>7. /\ Smallest(s) \in DOMAIN s
      /\ \A j \in DOMAIN s : \/ s[Smallest(s)].name < s[j].name
                             \/ s[Smallest(s)].name = s[j].name /\ Smallest(s) <= j
  BY <1>5, <1>6 DEF Smallest
<1>8. QED
  BY <1>1, <1>7

LEMMA RemoveAtIs ==
  ASSUME NEW s \in Seq(Items), IsInjective(s), NEW i \in DOMAIN s
  PROVE  /\ RemoveAt(s, i) \in Seq(Items)
         /\ Len(RemoveAt(s, i)) = Len(s) - 1
         /\ IsInjective(RemoveAt(s, i))
         /\ Range(RemoveAt(s, i)) = Range(s) \ {s[i]}
<1> DEFINE r == RemoveAt(s, i)
<1>1. /\ DOMAIN s = 1..Len(s) /\ Len(s) \in Nat \ {0} /\ i \in 1..Len(s)
      /\ \A j \in 1..Len(s) : s[j] \in Items
  OBVIOUS
<1>2. /\ SubSeq(s, 1, i-1) \in Seq(Items) /\ Len(SubSeq(s, 1, i-1)) = i - 1
      /\ \A j \in 1..(i-1) : SubSeq(s, 1, i-1)[j] = s[j]
  <2>1. 1 \in Int /\ i - 1 \in Int /\ \A j \in 1..(i-1) : s[j] \in Items
    BY <1>1
  <2>2. /\ SubSeq(s, 1, i-1) \in Seq(Items)
        /\ Len(SubSeq(s, 1, i-1)) = IF 1 <= i-1 THEN i-1-1+1 ELSE 0
        /\ \A j \in 1..(i-1-1+1) : SubSeq(s, 1, i-1)[j] = s[1+j-1]
    BY <2>1, SubSeqProperties
  <2>3. QED
    BY <1>1, <2>2
<1>3. /\ SubSeq(s, i+1, Len(s)) \in Seq(Items) /\ Len(SubSeq(s, i+1, Len(s))) = Len(s) - i
      /\ \A j \in 1..(Len(s) - i) : SubSeq(s, i+1, Len(s))[j] = s[i + j]
  <2>1. i + 1 \in Int /\ Len(s) \in Int /\ \A j \in (i+1)..Len(s) : s[j] \in Items
    BY <1>1
  <2>2. /\ SubSeq(s, i+1, Len(s)) \in Seq(Items)
        /\ Len(SubSeq(s, i+1, Len(s))) = IF i+1 <= Len(s) THEN Len(s)-(i+1)+1 ELSE 0
        /\ \A j \in 1..(Len(s)-(i+1)+1) : SubSeq(s, i+1, Len(s))[j] = s[i+1+j-1]
    BY <2>1, SubSeqProperties
  <2>3. QED
    BY <1>1, <2>2
<1>4. /\ r \in Seq(Items) /\ Len(r) = Len(s) - 1
      /\ \A j \in 1..(Len(s) - 1) : r[j] = IF j < i THEN s[j] ELSE s[j+1]
  <2>1. /\ r \in Seq(Items) /\ Len(r) = (i - 1) + (Len(s) - i)
        /\ \A j \in 1..((i - 1) + (Len(s) - i)) :
             r[j] = IF j <= i - 1 THEN SubSeq(s, 1, i-1)[j] ELSE SubSeq(s, i+1, Len(s))[j - (i - 1)]
    <3> DEFINE u == SubSeq(s, 1, i-1)
               v == SubSeq(s, i+1, Len(s))
    <3>1. r = u \o v
      BY DEF RemoveAt
    <3>2. /\ u \in Seq(Items) /\ Len(u) = i - 1 /\ v \in Seq(Items) /\ Len(v) = Len(s) - i
      BY <1>2, <1>3
    <3> HIDE DEF r, u, v
    <3>3. /\ u \o v \in Seq(Items) /\ Len(u \o v) = Len(u) + Len(v)
          /\ \A j \in 1..(Len(u) + Len(v)) : (u \o v)[j] = IF j <= Len(u) THEN u[j] ELSE v[j - Len(u)]
      BY <3>2, ConcatProperties
    <3>4. QED
      BY <3>1, <3>2, <3>3 DEF u, v
  <2> HIDE DEF r
  <2>2. (i - 1) + (Len(s) - i) = Len(s) - 1
    BY <1>1
  <2>3. ASSUME NEW j \in 1..(Len(s) - 1) PROVE r[j] = IF j < i THEN s[j] ELSE s[j+1]
    <3>1. CASE j < i
      BY <1>1, <1>2, <2>1, <2>2, <3>1
    <3>2. CASE ~(j < i)
      <4>1. j - (i - 1) \in 1..(Len(s) - i) /\ i + (j - (i - 1)) = j + 1 /\ ~(j <= i - 1)
        BY <1>1, <3>2
      <4>2. QED
        BY <1>3, <2>1, <2>2, <3>2, <4>1
    <3>3. QED
      BY <3>1, <3>2
  <2>4. QED
    BY <2>1, <2>2, <2>3
<1> HIDE DEF r
<1>5. DOMAIN r = 1..(Len(s) - 1)
  BY <1>1, <1>4
<1>6. IsInjective(r)
  <2>1. ASSUME NEW j \in DOMAIN r, NEW k \in DOMAIN r, r[j] = r[k] PROVE j = k
    <3> DEFINE J == IF j < i THEN j ELSE j + 1
               K == IF k < i THEN k ELSE k + 1
    <3>1. J \in DOMAIN s /\ K \in DOMAIN s /\ s[J] = s[K]
      BY <1>1, <1>4, <1>5, <2>1
    <3>2. J = K
      BY <3>1 DEF IsInjective
    <3>3. QED
      BY <1>1, <1>5, <3>2
  <2>2. QED
    BY <2>1 DEF IsInjective
<1>7. Range(r) = Range(s) \ {s[i]}
  <2>1. ASSUME NEW j \in DOMAIN r PROVE \E k \in DOMAIN s : k # i /\ r[j] = s[k]
    <3>1. CASE j < i
      <4>1. j \in DOMAIN s /\ j # i /\ r[j] = s[j]
        BY <1>1, <1>4, <1>5, <3>1
      <4>2. QED
        BY <4>1
    <3>2. CASE ~(j < i)
      <4>1. j + 1 \in DOMAIN s /\ j + 1 # i /\ r[j] = s[j+1]
        BY <1>1, <1>4, <1>5, <3>2
      <4>2. QED
        BY <4>1
    <3>3. QED
      BY <3>1, <3>2
  <2>2. ASSUME NEW k \in DOMAIN s, k # i PROVE \E j \in DOMAIN r : r[j] = s[k]
    <3>1. CASE k < i
      BY <1>1, <1>4, <1>5, <3>1
    <3>2. CASE ~(k < i)
      <4>1. k - 1 \in DOMAIN r /\ ~(k - 1 < i) /\ (k - 1) + 1 = k
        BY <1>1, <1>5, <2>2, <3>2
      <4>2. QED
        BY <1>4, <1>5, <4>1
    <3>3. QED
      BY <3>1, <3>2
  <2>3. \A k \in DOMAIN s : s[k] = s[i] => k = i
    BY DEF IsInjective
  <2>4. QED
    BY <2>1, <2>2, <2>3 DEF Range
<1>8. QED
  BY <1>4, <1>6, <1>7 DEF r

SortStep(items, st) ==
  LET i == Smallest(st.left)
  IN  [left |-> RemoveAt(st.left, i), sorted |-> Append(st.sorted, st.left[i])]

LEMMA SortStepIs ==
  ASSUME NEW items \in Seq(Items), IsInjective(items), NEW n \in 1..Len(items),
         NEW st, IsSorting(st, items, n - 1)
  PROVE  IsSorting(SortStep(items, st), items, n)
<1> DEFINE i == Smallest(st.left)
           e == st.left[i]
           left == RemoveAt(st.left, i)
           sorted == Append(st.sorted, e)
<1>1. /\ st.left \in Seq(Items) /\ st.sorted \in Seq(Items) /\ Len(st.left) = Len(items) - (n - 1)
      /\ IsInjective(st.left) /\ IsInjective(st.sorted) /\ Rise(st.sorted)
      /\ Range(st.left) \cap Range(st.sorted) = {}
      /\ Range(st.left) \cup Range(st.sorted) = Range(items)
      /\ \A t \in Range(st.sorted), u \in Range(st.left) : t.name <= u.name
  BY DEF IsSorting
<1>2. i \in DOMAIN st.left /\ \A j \in DOMAIN st.left : e.name <= st.left[j].name
  <2>1. st.left # <<>>
    BY <1>1
  <2>2. QED
    BY <1>1, <2>1, SmallestIs
<1>3. /\ left \in Seq(Items) /\ Len(left) = Len(st.left) - 1
      /\ IsInjective(left) /\ Range(left) = Range(st.left) \ {e}
  BY <1>1, <1>2, RemoveAtIs
<1>4. e \in Items /\ e \in Range(st.left) /\ \A u \in Range(st.left) : e.name <= u.name
  BY <1>1, <1>2 DEF Range
<1> HIDE DEF e, left
<1>5. /\ sorted \in Seq(Items) /\ Len(st.sorted) \in Nat
      /\ DOMAIN st.sorted = 1..Len(st.sorted) /\ DOMAIN sorted = 1..(Len(st.sorted) + 1)
      /\ \A j \in 1..Len(st.sorted) : sorted[j] = st.sorted[j]
      /\ sorted[Len(st.sorted) + 1] = e
  BY <1>1, <1>4, AppendItem
<1> HIDE DEF sorted
<1>7. \A j \in DOMAIN sorted : j = Len(st.sorted) + 1 \/ (j \in DOMAIN st.sorted /\ j < Len(st.sorted) + 1)
  BY <1>5
<1>8. \A j \in DOMAIN st.sorted : /\ sorted[j] = st.sorted[j] /\ sorted[j] \in Range(st.sorted)
                                  /\ ~(Len(st.sorted) + 1 < j)
  BY <1>5 DEF Range
<1>6. Range(sorted) = Range(st.sorted) \cup {e}
  <2>1. Len(st.sorted) + 1 \in DOMAIN sorted /\ \A j \in DOMAIN st.sorted : j \in DOMAIN sorted
    BY <1>5
  <2>2. QED
    BY <1>5, <1>7, <1>8, <2>1 DEF Range
<1>9. IsInjective(sorted)
  <2>1. e \notin Range(st.sorted)
    BY <1>1, <1>4
  <2>2. \A j, k \in DOMAIN st.sorted : st.sorted[j] = st.sorted[k] => j = k
    BY <1>1 DEF IsInjective
  <2>3. QED
    BY <1>5, <1>7, <1>8, <2>1, <2>2 DEF IsInjective
<1>10. Rise(sorted)
  <2>1. \A t \in Range(st.sorted) : t.name <= e.name
    BY <1>1, <1>4
  <2>2. SUFFICES ASSUME NEW j \in DOMAIN sorted, NEW k \in DOMAIN sorted, j < k
                 PROVE  sorted[j].name <= sorted[k].name
    BY DEF Rise
  <2>3. j \in DOMAIN st.sorted
    BY <1>5, <1>7, <1>8, <2>2
  <2>4. CASE k \in DOMAIN st.sorted
    BY <1>1, <1>8, <2>2, <2>3, <2>4 DEF Rise
  <2>5. CASE k = Len(st.sorted) + 1
    BY <1>5, <1>8, <2>1, <2>3, <2>5
  <2>6. QED
    BY <1>7, <2>4, <2>5
<1>11. Len(left) = Len(items) - n
  BY <1>1, <1>3
<1>12. /\ Range(left) \cap Range(sorted) = {}
       /\ Range(left) \cup Range(sorted) = Range(items)
       /\ \A t \in Range(sorted), u \in Range(left) : t.name <= u.name
  BY <1>1, <1>3, <1>4, <1>6
<1>13. SortStep(items, st) = [left |-> left, sorted |-> sorted]
  BY DEF SortStep, left, sorted, e
<1>14. QED
  BY <1>3, <1>5, <1>9, <1>10, <1>11, <1>12, <1>13 DEF IsSorting

\* the tests sorted are the tests discovered
LEMMA SortedIs ==
  ASSUME NEW items \in Seq(Items), IsInjective(items)
  PROVE  /\ SortedTestItems(items) \in Seq(Items)
         /\ IsInjective(SortedTestItems(items)) /\ Rise(SortedTestItems(items))
         /\ Range(SortedTestItems(items)) = Range(items)
<1> DEFINE N == Len(items)
           first == [left |-> items, sorted |-> <<>>]
           Q(f) == f = [n \in 0..Len(items) |-> IF n = 0 THEN [left |-> items, sorted |-> <<>>]
                         ELSE LET i == Smallest(f[n-1].left)
                              IN  [left   |-> RemoveAt(f[n-1].left, i),
                                   sorted |-> Append(f[n-1].sorted, f[n-1].left[i])]]
           F == CHOOSE f : Q(f)
           States == [left : Seq(Items), sorted : Seq(Items)]
           I == [n \in 0..N |-> {st \in States : IsSorting(st, items, n)}]
           g == [p \in (1..N) \X States |-> SortStep(items, p[2])]
<1>0. N \in Nat
  OBVIOUS
<1>1. first \in States /\ IsSorting(first, items, 0)
  <2>1. first.left = items /\ first.sorted = <<>> /\ <<>> \in Seq(Items) /\ Range(<<>>) = {}
    BY DEF Range
  <2>2. IsInjective(<<>>) /\ Rise(<<>>)
    BY DEF IsInjective, Rise
  <2>3. QED
    BY <2>1, <2>2 DEF IsSorting
<1>2. ASSUME NEW n \in 1..N, NEW st \in States, IsSorting(st, items, n - 1)
      PROVE  SortStep(items, st) \in States /\ IsSorting(SortStep(items, st), items, n)
  <2>1. IsSorting(SortStep(items, st), items, n)
    BY <1>2, SortStepIs
  <2>2. SortStep(items, st) \in States
    BY <2>1 DEF IsSorting, SortStep
  <2>3. QED
    BY <2>1, <2>2
<1>3. \E f : Q(f)
  <2>1. ASSUME NEW i \in 1..N, NEW x \in States PROVE g[<<i, x>>] = SortStep(items, x)
    <3>1. <<i, x>> \in (1..N) \X States
      OBVIOUS
    <3> HIDE DEF N, States
    <3>2. QED
      BY <3>1
  <2> HIDE DEF g
  <2>2. first \in I[0]
    BY <1>0, <1>1
  <2>3. Leads(g, N, I)
    <3> SUFFICES ASSUME NEW i \in 1..N, NEW x \in I[i-1] PROVE g[<<i, x>>] \in I[i]
      BY DEF Leads
    <3>1. i - 1 \in 0..N /\ i \in 0..N
      BY <1>0
    <3>2. x \in States /\ IsSorting(x, items, i - 1)
      BY <3>1
    <3> HIDE DEF States, N
    <3>3. QED
      BY <1>2, <2>1, <3>1, <3>2
  <2> HIDE DEF I, first
  <2>4. PICK f : Recurs(f, N, first, g) /\ Within(f, N, I)
    <3> HIDE DEF N
    <3>1. QED
      BY <1>0, <2>2, <2>3, RecursionExists
  <2>5. \A i \in 1..N : f[i-1] \in States
    <3> HIDE DEF States, N
    <3>1. \A i \in 1..N : i - 1 \in 0..N
      BY <1>0
    <3>2. QED
      BY <2>4, <3>1 DEF Within, I
  <2>6. /\ f = [i \in 0..N |-> f[i]] /\ f[0] = [left |-> items, sorted |-> <<>>]
        /\ \A i \in 1..N : f[i] = SortStep(items, f[i-1])
    <3> HIDE DEF States, N
    <3>1. QED
      BY <2>1, <2>4, <2>5 DEF Recurs, first
  <2>7. Q(f)
    <3> HIDE DEF N
    <3>1. \A i \in 0..N : i = 0 \/ i \in 1..N
      BY <1>0
    <3>2. QED
      BY <2>6, <3>1 DEF N, SortStep
  <2> HIDE DEF Q
  <2>8. QED
    BY <2>7
<1>4. Q(F)
  <2> HIDE DEF Q
  <2>1. QED
    BY <1>3
<1>5. SortedTestItems(items) = F[N].sorted
  BY DEF SortedTestItems
<1> HIDE DEF F
<1>6. F[0] = first
  <2>1. 0 \in 0..Len(items)
    BY ONLY <1>0
  <2>2. QED
    BY <1>4, <2>1
<1>7. ASSUME NEW n \in 1..N PROVE F[n] = SortStep(items, F[n-1])
  <2>1. n \in 0..Len(items) /\ n # 0
    BY <1>0
  <2>2. QED
    BY <1>4, <2>1, Zenon DEF SortStep
<1> HIDE DEF Q, States, first
<1> DEFINE A == {n \in 0..N : F[n] \in States /\ IsSorting(F[n], items, n)}
<1>8. 0 \in A
  BY <1>0, <1>1, <1>6
<1>9. \A n \in 1..N : n - 1 \in A => n \in A
  <2> HIDE DEF N
  <2>1. QED
    BY <1>0, <1>2, <1>7
<1>10. N \in A
  <2> HIDE DEF A, N
  <2>1. 0..N \subseteq A
    BY <1>0, <1>8, <1>9, Stepwise
  <2>2. QED
    BY <1>0, <2>1
<1>11. IsSorting(F[N], items, N)
  BY <1>10
<1>12. F[N].left = <<>>
  BY <1>11 DEF IsSorting
<1>13. QED
  <2>1. Range(<<>>) = {}
    BY DEF Range
  <2>2. QED
    BY <1>5, <1>11, <1>12, <2>1 DEF IsSorting

SuiteRecords == [context : {t.context : t \in Items}, tests : Seq(Items)]

\* a suite holds some of the first n items, all of its context, in strict order
IsSuite(b, items, n) ==
  /\ b \in SuiteRecords
  /\ \A j \in DOMAIN b.tests : /\ b.tests[j].context = b.context
                               /\ \E k \in 1..n : b.tests[j] = items[k]
  /\ \A j, k \in DOMAIN b.tests : j < k => b.tests[j].name < b.tests[k].name

Has(b, t) == \E j \in DOMAIN b.tests : b.tests[j] = t

\* one suite for each context of the first n items, and each of these in one
IsGrouping(x, items, n) ==
  /\ x \in Seq(SuiteRecords)
  /\ \A i, k \in DOMAIN x : x[i].context = x[k].context => i = k
  /\ \A i \in DOMAIN x : IsSuite(x[i], items, n)
  /\ \A k \in 1..n : \E i \in DOMAIN x : Has(x[i], items[k])

\* a suite with one more test
Extended(b, t) == [b EXCEPT !.tests = Append(@, t)]

LEMMA SuiteGrows ==
  ASSUME NEW items \in Seq(Items), IsInjective(items), Rise(items), NEW n \in 1..Len(items),
         NEW b, IsSuite(b, items, n - 1), b.context = items[n].context,
         NEW c, c = Extended(b, items[n])
  PROVE  /\ IsSuite(c, items, n) /\ c.context = b.context /\ Has(c, items[n])
         /\ \A t : Has(b, t) => Has(c, t)
<1> DEFINE e == items[n]
           m == Len(b.tests)
<1>1. /\ e \in Items /\ n \in DOMAIN items /\ b.tests \in Seq(Items) /\ b \in SuiteRecords
      /\ \A k \in 1..(n-1) : k \in DOMAIN items /\ k < n /\ k \in 1..n
      /\ \A j \in DOMAIN b.tests : b.tests[j] \in Items
  BY DEF IsSuite, SuiteRecords
<1>2. /\ c.tests \in Seq(Items) /\ m \in Nat /\ DOMAIN b.tests = 1..m
      /\ DOMAIN c.tests = 1..(m + 1)
      /\ \A j \in 1..m : c.tests[j] = b.tests[j]
      /\ c.tests[m + 1] = e /\ c.context = b.context /\ c \in SuiteRecords
  <2>1. c = [context |-> b.context, tests |-> Append(b.tests, e)]
    BY <1>1 DEF SuiteRecords, Extended
  <2>2. b.context \in {t.context : t \in Items}
    BY <1>1 DEF SuiteRecords
  <2> HIDE DEF e
  <2>3. c.tests = Append(b.tests, e) /\ c.context = b.context
    BY <2>1
  <2>4. /\ c.tests \in Seq(Items) /\ m \in Nat /\ DOMAIN b.tests = 1..m
        /\ DOMAIN c.tests = 1..(m + 1)
        /\ \A j \in 1..m : c.tests[j] = b.tests[j]
        /\ c.tests[m + 1] = e
    BY <1>1, <2>3, AppendItem
  <2>5. c \in SuiteRecords
    <3>1. c = [context |-> c.context, tests |-> c.tests]
      BY <2>1, <2>3
    <3>2. QED
      BY <2>2, <2>3, <2>4, <3>1 DEF SuiteRecords
  <2>6. QED
    BY <2>3, <2>4, <2>5
<1> HIDE DEF m
<1>3. /\ \A j \in DOMAIN c.tests : j = m + 1 \/ (j \in DOMAIN b.tests /\ j < m + 1)
      /\ \A j \in DOMAIN b.tests : j \in DOMAIN c.tests /\ c.tests[j] = b.tests[j] /\ ~(m + 1 < j)
      /\ m + 1 \in DOMAIN c.tests
  BY <1>2
<1>4. \A j \in DOMAIN b.tests : b.tests[j].context = e.context /\ b.tests[j].name < e.name
  <2>1. SUFFICES ASSUME NEW j \in DOMAIN b.tests
                 PROVE  b.tests[j].context = e.context /\ b.tests[j].name < e.name
    OBVIOUS
  <2>2. PICK k \in 1..(n-1) : b.tests[j] = items[k]
    BY DEF IsSuite
  <2>3. items[k].name <= e.name /\ items[k] # e
    BY <1>1, <2>2 DEF Rise, IsInjective
  <2>4. items[k].context = e.context
    BY <2>2 DEF IsSuite
  <2>5. items[k] \in Items /\ e \in Items
    BY <1>1
  <2>6. /\ items[k] = [context |-> items[k].context, name |-> items[k].name]
        /\ e = [context |-> e.context, name |-> e.name]
        /\ items[k].name \in Nat /\ e.name \in Nat
    <3> HIDE DEF e
    <3>1. QED
      BY <2>5, ItemType
  <2> HIDE DEF e
  <2>7. items[k].name # e.name
    BY <2>3, <2>4, <2>6
  <2>8. QED
    BY <2>2, <2>3, <2>4, <2>6, <2>7
<1>5. \A j \in DOMAIN c.tests : /\ c.tests[j].context = c.context
                                /\ \E k \in 1..n : c.tests[j] = items[k]
  BY <1>1, <1>2, <1>3 DEF IsSuite
<1>6. \A j, k \in DOMAIN c.tests : j < k => c.tests[j].name < c.tests[k].name
  <2>1. SUFFICES ASSUME NEW j \in DOMAIN c.tests, NEW k \in DOMAIN c.tests, j < k
                 PROVE  c.tests[j].name < c.tests[k].name
    OBVIOUS
  <2>2. j \in DOMAIN b.tests
    BY <1>2, <1>3, <2>1
  <2>3. CASE k \in DOMAIN b.tests
    BY <1>3, <2>1, <2>2, <2>3 DEF IsSuite
  <2>4. CASE k = m + 1
    BY <1>2, <1>3, <1>4, <2>2, <2>4
  <2>5. QED
    BY <1>3, <2>3, <2>4
<1>7. QED
  BY <1>2, <1>3, <1>5, <1>6 DEF IsSuite, Has

LEMMA GroupingStep ==
  ASSUME NEW items \in Seq(Items), IsInjective(items), Rise(items), NEW n \in 1..Len(items),
         NEW x, IsGrouping(x, items, n - 1)
  PROVE  IsGrouping(AddTestToContext(x, items[n]), items, n)
<1> DEFINE e == items[n]
           y == AddTestToContext(x, e)
<1>1. /\ e \in Items /\ x \in Seq(SuiteRecords) /\ DOMAIN x = 1..Len(x) /\ Len(x) \in Nat
      /\ \A k \in 1..n : k = n \/ k \in 1..(n-1)
      /\ \A k \in 1..(n-1) : k \in 1..n
  BY DEF IsGrouping
<1>2. \A i \in DOMAIN x : IsSuite(x[i], items, n - 1) /\ IsSuite(x[i], items, n)
  BY <1>1 DEF IsGrouping, IsSuite
<1>3. CASE \E i \in DOMAIN x : x[i].context = e.context
  <2>1. PICK p \in DOMAIN x : x[p].context = e.context
    BY <1>3
  <2> DEFINE c == Extended(x[p], e)
  <2>2. \A i \in DOMAIN x : i # p => x[i].context # e.context
    BY <2>1 DEF IsGrouping
  <2>3. y = [i \in DOMAIN x |-> IF x[i].context # e.context THEN x[i]
                                 ELSE Extended(x[i], e)]
    BY <1>3 DEF AddTestToContext, Extended
  <2>4. /\ IsSuite(c, items, n) /\ c.context = x[p].context /\ Has(c, e)
        /\ \A t : Has(x[p], t) => Has(c, t)
    <3>1. c = Extended(x[p], items[n]) /\ x[p].context = items[n].context
      BY <2>1
    <3>2. IsSuite(x[p], items, n - 1)
      BY <1>2
    <3> HIDE DEF c
    <3>3. QED
      BY <3>1, <3>2, SuiteGrows
  <2> HIDE DEF y
  <2>5. DOMAIN y = DOMAIN x /\ y[p] = c /\ \A i \in DOMAIN x : i # p => y[i] = x[i]
    BY <2>1, <2>2, <2>3
  <2> HIDE DEF c, e
  <2>6. y \in Seq(SuiteRecords)
    <3>1. \A i \in DOMAIN x : y[i] \in SuiteRecords
      BY <1>2, <2>4, <2>5 DEF IsSuite
    <3>2. y = [i \in 1..Len(x) |-> y[i]]
      BY <1>1, <2>3
    <3>3. QED
      BY <1>1, <3>1, <3>2
  <2>7. \A i \in DOMAIN y : y[i].context = x[i].context /\ IsSuite(y[i], items, n)
    BY <1>2, <2>4, <2>5
  <2>8. \A k \in 1..n : \E i \in DOMAIN y : Has(y[i], items[k])
    <3>1. \A k \in 1..(n-1) : \E i \in DOMAIN x : Has(x[i], items[k])
      BY DEF IsGrouping
    <3>2. \A i \in DOMAIN x : \A t : Has(x[i], t) => Has(y[i], t)
      BY <2>4, <2>5
    <3>3. Has(y[p], items[n])
      BY <2>4, <2>5 DEF e
    <3>4. QED
      BY <1>1, <2>5, <3>1, <3>2, <3>3
  <2>9. \A i, k \in DOMAIN y : y[i].context = y[k].context => i = k
    BY <2>5, <2>7 DEF IsGrouping
  <2>10. QED
    BY <2>6, <2>7, <2>8, <2>9 DEF IsGrouping, y, e
<1>4. CASE ~\E i \in DOMAIN x : x[i].context = e.context
  <2> DEFINE c == [context |-> e.context, tests |-> <<e>>]
  <2>1. y = Append(x, c)
    BY <1>4 DEF AddTestToContext
  <2>2. c \in SuiteRecords
    BY <1>1 DEF SuiteRecords
  <2>3. DOMAIN c.tests = {1} /\ c.tests[1] = e /\ c.context = e.context
    OBVIOUS
  <2>4. IsSuite(c, items, n) /\ Has(c, items[n])
    <3>1. n \in 1..n
      OBVIOUS
    <3> HIDE DEF c
    <3>2. QED
      BY <2>2, <2>3, <3>1 DEF IsSuite, Has
  <2> HIDE DEF c, e, y
  <2>5. /\ y \in Seq(SuiteRecords) /\ DOMAIN y = 1..(Len(x) + 1)
        /\ \A i \in 1..Len(x) : y[i] = x[i]
        /\ y[Len(x) + 1] = c
    BY <1>1, <2>1, <2>2, AppendItem
  <2>6. /\ \A i \in DOMAIN y : i = Len(x) + 1 \/ i \in DOMAIN x
        /\ \A i \in DOMAIN x : i \in DOMAIN y /\ y[i] = x[i]
        /\ Len(x) + 1 \in DOMAIN y
    BY <1>1, <2>5
  <2>7. \A i \in DOMAIN y : IsSuite(y[i], items, n)
    BY <1>2, <2>4, <2>5, <2>6
  <2>8. \A i, k \in DOMAIN y : y[i].context = y[k].context => i = k
    <3>1. \A i, k \in DOMAIN x : x[i].context = x[k].context => i = k
      BY DEF IsGrouping
    <3>2. QED
      BY <1>4, <2>3, <2>5, <2>6, <3>1
  <2>9. \A k \in 1..n : \E i \in DOMAIN y : Has(y[i], items[k])
    <3>1. \A k \in 1..(n-1) : \E i \in DOMAIN x : Has(x[i], items[k])
      BY DEF IsGrouping
    <3>2. QED
      BY <1>1, <2>4, <2>5, <2>6, <3>1
  <2>10. QED
    BY <2>5, <2>7, <2>8, <2>9 DEF IsGrouping, y, e
<1>5. QED
  BY <1>3, <1>4

LEMMA GroupingIs ==
  ASSUME NEW items \in Seq(Items), IsInjective(items), Rise(items)
  PROVE  IsGrouping(SuitesOf(items), items, Len(items))
<1> DEFINE N == Len(items)
           Q(f) == f = [n \in 0..Len(items) |->
                          IF n = 0 THEN <<>> ELSE AddTestToContext(f[n-1], items[n])]
           F == CHOOSE f : Q(f)
           I == [n \in 0..N |-> {x \in Seq(SuiteRecords) : IsGrouping(x, items, n)}]
           g == [p \in (1..N) \X Seq(SuiteRecords) |-> AddTestToContext(p[2], items[p[1]])]
<1>0. N \in Nat
  OBVIOUS
<1>1. <<>> \in Seq(SuiteRecords) /\ IsGrouping(<<>>, items, 0)
  BY DEF IsGrouping
<1>2. ASSUME NEW n \in 1..N, NEW x, IsGrouping(x, items, n - 1)
      PROVE  /\ AddTestToContext(x, items[n]) \in Seq(SuiteRecords)
             /\ IsGrouping(AddTestToContext(x, items[n]), items, n)
  <2>1. IsGrouping(AddTestToContext(x, items[n]), items, n)
    BY <1>2, GroupingStep
  <2>2. QED
    BY <2>1 DEF IsGrouping
<1>3. \E f : Q(f)
  <2>1. ASSUME NEW i \in 1..N, NEW x \in Seq(SuiteRecords)
        PROVE  g[<<i, x>>] = AddTestToContext(x, items[i])
    <3>1. <<i, x>> \in (1..N) \X Seq(SuiteRecords)
      OBVIOUS
    <3> HIDE DEF N
    <3>2. QED
      BY <3>1
  <2> HIDE DEF g
  <2>2. <<>> \in I[0]
    BY <1>0, <1>1
  <2>3. Leads(g, N, I)
    <3> SUFFICES ASSUME NEW i \in 1..N, NEW x \in I[i-1] PROVE g[<<i, x>>] \in I[i]
      BY DEF Leads
    <3>1. i - 1 \in 0..N /\ i \in 0..N
      BY <1>0
    <3>2. x \in Seq(SuiteRecords) /\ IsGrouping(x, items, i - 1)
      BY <3>1
    <3> HIDE DEF N
    <3>3. QED
      BY <1>2, <2>1, <3>1, <3>2
  <2> HIDE DEF I
  <2>4. PICK f : Recurs(f, N, <<>>, g) /\ Within(f, N, I)
    <3> HIDE DEF N
    <3>1. QED
      BY <1>0, <2>2, <2>3, RecursionExists
  <2>5. \A i \in 1..N : f[i-1] \in Seq(SuiteRecords)
    <3> HIDE DEF N
    <3>1. \A i \in 1..N : i - 1 \in 0..N
      BY <1>0
    <3>2. QED
      BY <2>4, <3>1 DEF Within, I
  <2>6. /\ f = [i \in 0..N |-> f[i]] /\ f[0] = <<>>
        /\ \A i \in 1..N : f[i] = AddTestToContext(f[i-1], items[i])
    <3> HIDE DEF N
    <3>1. QED
      BY <2>1, <2>4, <2>5 DEF Recurs
  <2>7. Q(f)
    <3> HIDE DEF N
    <3>1. \A i \in 0..N : i = 0 \/ i \in 1..N
      BY <1>0
    <3>2. QED
      BY <2>6, <3>1 DEF N
  <2> HIDE DEF Q
  <2>8. QED
    BY <2>7
<1>4. Q(F)
  <2> HIDE DEF Q
  <2>1. QED
    BY <1>3
<1>5. SuitesOf(items) = F[N]
  BY DEF SuitesOf
<1> HIDE DEF F
<1>6. F[0] = <<>>
  <2>1. 0 \in 0..Len(items)
    BY <1>0
  <2>2. QED
    BY <1>4, <2>1
<1>7. ASSUME NEW n \in 1..N PROVE F[n] = AddTestToContext(F[n-1], items[n])
  <2>1. n \in 0..Len(items) /\ n # 0
    BY <1>0
  <2>2. QED
    BY <1>4, <2>1
<1> HIDE DEF Q
<1> DEFINE A == {n \in 0..N : IsGrouping(F[n], items, n)}
<1>8. 0 \in A
  BY <1>0, <1>1, <1>6
<1>9. \A n \in 1..N : n - 1 \in A => n \in A
  <2> HIDE DEF N
  <2>1. QED
    BY <1>0, <1>2, <1>7
<1>10. N \in A
  <2> HIDE DEF A, N
  <2>1. 0..N \subseteq A
    BY <1>0, <1>8, <1>9, Stepwise
  <2>2. QED
    BY <1>0, <2>1
<1>11. QED
  BY <1>5, <1>10

\* the tests of a context come one after the other, in strict order
Together(x) ==
  \A i, k \in DOMAIN x :
    i < k /\ x[i].context = x[k].context =>
      x[i].name < x[k].name /\ \A j \in i..k : x[j].context = x[i].context

IsWalkOf(x, suites, n) ==
  /\ x \in Seq(Items)
  /\ \A k \in DOMAIN x : \E i \in 1..n : Has(suites[i], x[k]) /\ x[k].context = suites[i].context
  /\ \A i \in 1..n : \A t : Has(suites[i], t) => \E k \in DOMAIN x : x[k] = t
  /\ Together(x)

LEMMA WalkStep ==
  ASSUME NEW items, NEW m, NEW suites, IsGrouping(suites, items, m), NEW n \in 1..Len(suites),
         NEW x, IsWalkOf(x, suites, n - 1)
  PROVE  IsWalkOf(x \o suites[n].tests, suites, n)
<1> DEFINE b == suites[n].tests
           y == x \o b
           N == Len(x)
<1>1. /\ suites \in Seq(SuiteRecords) /\ n \in DOMAIN suites
      /\ suites[n] \in SuiteRecords /\ IsSuite(suites[n], items, m)
      /\ \A k \in 1..(n-1) : k \in DOMAIN suites /\ k # n /\ k \in 1..n
      /\ \A k \in 1..n : k = n \/ k \in 1..(n-1)
      /\ x \in Seq(Items)
  BY DEF IsGrouping, IsWalkOf
<1>2. b \in Seq(Items) /\ Len(b) \in Nat /\ DOMAIN b = 1..Len(b) /\ N \in Nat /\ DOMAIN x = 1..N
  BY <1>1 DEF SuiteRecords
<1> HIDE DEF b
<1>3. /\ y \in Seq(Items) /\ DOMAIN y = 1..(N + Len(b))
      /\ \A i \in 1..(N + Len(b)) : y[i] = IF i <= N THEN x[i] ELSE b[i - N]
  <2>1. /\ y \in Seq(Items) /\ Len(y) = N + Len(b)
        /\ \A i \in 1..(N + Len(b)) : y[i] = IF i <= N THEN x[i] ELSE b[i - N]
    BY <1>1, <1>2, ConcatProperties
  <2> HIDE DEF y, N
  <2>2. QED
    BY <2>1
<1> HIDE DEF y, N
<1>4. ASSUME NEW i \in DOMAIN y
      PROVE  \/ i \in DOMAIN x /\ y[i] = x[i] /\ i <= N
             \/ i - N \in DOMAIN b /\ y[i] = b[i - N] /\ ~(i <= N)
  BY <1>2, <1>3
<1>5. /\ \A i \in DOMAIN x : i \in DOMAIN y /\ y[i] = x[i]
      /\ \A i \in DOMAIN b : N + i \in DOMAIN y /\ y[N + i] = b[i]
  <2>1. ASSUME NEW i \in DOMAIN b PROVE N + i \in DOMAIN y /\ y[N + i] = b[i]
    <3>1. N + i \in 1..(N + Len(b)) /\ ~(N + i <= N) /\ (N + i) - N = i
      BY <1>2
    <3>2. QED
      BY <1>3, <3>1
  <2>2. QED
    BY <1>2, <1>3, <2>1
<1>6. \A i \in DOMAIN b : Has(suites[n], b[i]) /\ b[i].context = suites[n].context
  BY <1>1 DEF Has, IsSuite, b
<1>7. \A i \in DOMAIN x : x[i].context # suites[n].context
  <2>1. SUFFICES ASSUME NEW i \in DOMAIN x PROVE x[i].context # suites[n].context
    OBVIOUS
  <2>2. PICK k \in 1..(n-1) : x[i].context = suites[k].context
    BY DEF IsWalkOf
  <2>3. QED
    BY <1>1, <2>2 DEF IsGrouping
<1>8. \A k \in DOMAIN y : \E i \in 1..n : Has(suites[i], y[k]) /\ y[k].context = suites[i].context
  <2>1. n \in 1..n
    BY <1>1 DEF IsGrouping
  <2>2. QED
    BY <1>1, <1>4, <1>6, <2>1 DEF IsWalkOf
<1>9. \A i \in 1..n : \A t : Has(suites[i], t) => \E k \in DOMAIN y : y[k] = t
  <2>1. \A i \in 1..(n-1) : \A t : Has(suites[i], t) => \E k \in DOMAIN x : x[k] = t
    BY DEF IsWalkOf
  <2>2. \A t : Has(suites[n], t) => \E k \in DOMAIN b : b[k] = t
    BY DEF Has, b
  <2>3. ASSUME NEW i \in 1..n, NEW t, Has(suites[i], t) PROVE \E k \in DOMAIN y : y[k] = t
    <3>1. CASE i = n
      <4>1. PICK k \in DOMAIN b : b[k] = t
        BY <2>2, <2>3, <3>1
      <4>2. QED
        BY ONLY <1>5, <4>1, Zenon
    <3>2. CASE i # n
      <4>1. i \in 1..(n-1)
        BY <1>1, <3>2
      <4>2. PICK k \in DOMAIN x : x[k] = t
        BY <2>1, <2>3, <4>1
      <4>3. QED
        BY ONLY <1>5, <4>2, Zenon
    <3>3. QED
      BY <3>1, <3>2
  <2>4. QED
    BY <2>3
<1>10. Together(y)
  <2>1. SUFFICES ASSUME NEW i \in DOMAIN y, NEW k \in DOMAIN y, i < k, y[i].context = y[k].context
                 PROVE  y[i].name < y[k].name /\ \A j \in i..k : y[j].context = y[i].context
    BY DEF Together
  <2>2. i \in Nat /\ k \in Nat /\ \A j \in i..k : j \in DOMAIN y /\ i <= j /\ j <= k /\ j \in Nat
    BY <1>2, <1>3
  <2>3. CASE k <= N
    <3>1. i <= N /\ \A j \in i..k : j <= N
      BY <1>2, <2>1, <2>2, <2>3
    <3>2. /\ i \in DOMAIN x /\ k \in DOMAIN x /\ y[i] = x[i] /\ y[k] = x[k]
          /\ \A j \in i..k : y[j] = x[j]
      BY <1>4, <2>2, <2>3, <3>1
    <3>3. x[i].name < x[k].name /\ \A j \in i..k : x[j].context = x[i].context
      BY <2>1, <3>2 DEF IsWalkOf, Together
    <3>4. QED
      BY <3>2, <3>3
  <2>4. CASE ~(k <= N)
    <3>1. k - N \in DOMAIN b /\ y[k] = b[k - N] /\ y[k].context = suites[n].context
      BY <1>4, <1>6, <2>4
    <3>2. ~(i <= N)
      <4>1. i <= N => i \in DOMAIN x /\ y[i] = x[i]
        BY <1>4
      <4>2. QED
        BY <1>7, <2>1, <3>1, <4>1
    <3>3. i - N \in DOMAIN b /\ y[i] = b[i - N] /\ i - N < k - N
      BY <1>2, <1>4, <2>1, <2>2, <3>2
    <3>4. \A j \in i..k : y[j].context = suites[n].context
      <4>1. \A j \in i..k : ~(j <= N)
        BY <1>2, <2>2, <3>2
      <4>2. QED
        BY <1>4, <1>6, <2>2, <4>1
    <3>5. y[i].name < y[k].name
      BY <1>1, <3>1, <3>3 DEF IsSuite, b
    <3>6. y[i].context = suites[n].context
      BY <1>6, <3>3
    <3>7. QED
      BY <3>4, <3>5, <3>6
  <2>5. QED
    BY <2>3, <2>4
<1>11. QED
  BY <1>3, <1>8, <1>9, <1>10 DEF IsWalkOf, y, b

LEMMA FlattenIs ==
  ASSUME NEW items, NEW m, NEW suites, IsGrouping(suites, items, m),
         NEW seqs, seqs = [i \in DOMAIN suites |-> suites[i].tests]
  PROVE  IsWalkOf(FlattenSeq(seqs), suites, Len(suites))
<1> DEFINE M == Len(suites)
           Q(f) == f = [i \in 1..Len(seqs) |-> IF i = 1 THEN seqs[i] ELSE f[i-1] \o seqs[i]]
           F == CHOOSE f : Q(f)
           I == [n \in 0..M |-> {x \in Seq(Items) : IsWalkOf(x, suites, n)}]
           g == [p \in (1..M) \X Seq(Items) |-> p[2] \o seqs[p[1]]]
<1>0. /\ M \in Nat /\ DOMAIN suites = 1..M /\ Len(seqs) = M
      /\ \A i \in 1..M : seqs[i] = suites[i].tests /\ seqs[i] \in Seq(Items)
  <2>1. /\ suites \in Seq(SuiteRecords) /\ M \in Nat /\ DOMAIN suites = 1..M
        /\ \A i \in 1..M : suites[i].tests \in Seq(Items)
    <3>1. suites \in Seq(SuiteRecords)
      BY DEF IsGrouping
    <3>2. M \in Nat /\ DOMAIN suites = 1..M /\ \A i \in 1..M : suites[i] \in SuiteRecords
      BY <3>1
    <3>3. QED
      BY <3>1, <3>2 DEF SuiteRecords
  <2>2. seqs \in Seq(Seq(Items)) /\ Len(seqs) = M
    <3> HIDE DEF M
    <3> DEFINE T == Seq(Items)
    <3>1. seqs = [i \in 1..M |-> suites[i].tests]
      BY <2>1
    <3>2. DOMAIN seqs = 1..M /\ \A i \in 1..M : seqs[i] \in T
      BY <2>1, <3>1
    <3> HIDE DEF T
    <3>3. seqs \in [1..M -> T]
      <4>1. seqs = [i \in 1..M |-> seqs[i]]
        BY <3>1, <3>2, Zenon
      <4>2. QED
        BY <3>2, <4>1, Zenon
    <3>4. seqs \in Seq(T)
      BY <2>1, <3>3, SeqDef
    <3>5. Len(seqs) = M
      BY <2>1, <3>2, <3>4, LenProperties
    <3>6. QED
      BY <3>4, <3>5 DEF T
  <2>3. QED
    BY <2>1, <2>2
<1>1. IsWalkOf(<<>>, suites, 0)
  BY DEF IsWalkOf, Together
<1>2. ASSUME NEW n \in 1..M, NEW x, IsWalkOf(x, suites, n - 1)
      PROVE  x \o seqs[n] \in Seq(Items) /\ IsWalkOf(x \o seqs[n], suites, n)
  <2>1. IsWalkOf(x \o suites[n].tests, suites, n)
    BY <1>2, WalkStep
  <2>2. QED
    BY <1>0, <2>1 DEF IsWalkOf
<1>3. CASE M = 0
  <2>1. seqs = <<>>
    BY <1>0, <1>3
  <2>2. FlattenSeq(seqs) = seqs
    BY <1>0, <1>3 DEF FlattenSeq
  <2>3. QED
    BY <1>1, <1>3, <2>1, <2>2
<1>4. CASE M # 0
  <2>1. ASSUME NEW i \in 1..M, NEW x \in Seq(Items) PROVE g[<<i, x>>] = x \o seqs[i]
    <3>1. <<i, x>> \in (1..M) \X Seq(Items)
      OBVIOUS
    <3> HIDE DEF M
    <3>2. QED
      BY <3>1
  <2> HIDE DEF g
  <2>2. <<>> \in I[0]
    BY <1>0, <1>1
  <2>3. Leads(g, M, I)
    <3> SUFFICES ASSUME NEW i \in 1..M, NEW x \in I[i-1] PROVE g[<<i, x>>] \in I[i]
      BY DEF Leads
    <3>1. i - 1 \in 0..M /\ i \in 0..M
      BY <1>0
    <3>2. x \in Seq(Items) /\ IsWalkOf(x, suites, i - 1)
      BY <3>1
    <3> HIDE DEF M
    <3>3. x \o seqs[i] \in Seq(Items) /\ IsWalkOf(x \o seqs[i], suites, i)
      BY <1>2, <3>2, Zenon
    <3>4. g[<<i, x>>] = x \o seqs[i]
      BY <2>1, <3>2, Zenon
    <3>5. QED
      BY <3>1, <3>3, <3>4, Zenon
  <2> HIDE DEF I
  <2>4. PICK f : Recurs(f, M, <<>>, g) /\ Within(f, M, I)
    <3> HIDE DEF M
    <3>1. QED
      BY <1>0, <2>2, <2>3, RecursionExists
  <2> DEFINE h == [i \in 1..M |-> f[i]]
  <2>5. f[0] = <<>> /\ \A i \in 1..M : f[i-1] \in Seq(Items) /\ f[i] = f[i-1] \o seqs[i]
    <3> HIDE DEF M
    <3>1. \A i \in 1..M : i - 1 \in 0..M
      BY <1>0
    <3>2. \A i \in 1..M : f[i-1] \in Seq(Items)
      BY <2>4, <3>1 DEF Within, I
    <3>3. QED
      BY <2>1, <2>4, <3>2 DEF Recurs
  <2>6. Q(h)
    <3> HIDE DEF M
    <3>1. 1 \in 1..M
      BY <1>0, <1>4
    <3>2. f[1] = seqs[1]
      <4>1. f[1] = f[1-1] \o seqs[1] /\ seqs[1] \in Seq(Items) /\ f[0] = <<>>
        BY <1>0, <2>5, <3>1
      <4>2. 1 - 1 = 0
        OBVIOUS
      <4>3. f[1] = <<>> \o seqs[1]
        BY <4>1, <4>2, Zenon
      <4>4. \A x \in Seq(Items) : <<>> \o x = x
        OBVIOUS
      <4>5. QED
        BY <4>1, <4>3, <4>4
    <3>3. ASSUME NEW i \in 1..M PROVE h[i] = IF i = 1 THEN seqs[i] ELSE h[i-1] \o seqs[i]
      <4>1. CASE i = 1
        BY <3>2, <4>1
      <4>2. CASE i # 1
        <5>1. i - 1 \in 1..M
          BY <1>0, <4>2
        <5>2. QED
          BY <2>5, <4>2, <5>1
      <4>3. QED
        BY <4>1, <4>2
    <3>4. h = [i \in 1..M |-> IF i = 1 THEN seqs[i] ELSE h[i-1] \o seqs[i]]
      BY <3>3
    <3> HIDE DEF h
    <3>5. QED
      BY <1>0, <3>4 DEF M
  <2>7. Q(F)
    <3> HIDE DEF Q
    <3>1. QED
      BY <2>6
  <2>8. FlattenSeq(seqs) = F[M]
    BY <1>0, <1>4 DEF FlattenSeq
  <2> HIDE DEF F
  <2>9. ASSUME NEW n \in 1..M PROVE F[n] = IF n = 1 THEN seqs[n] ELSE F[n-1] \o seqs[n]
    BY <1>0, <2>7
  <2> HIDE DEF Q
  <2> DEFINE A == {n \in 0..M : n = 0 \/ IsWalkOf(F[n], suites, n)}
  <2>10. ASSUME NEW n \in 1..M, n - 1 \in A PROVE n \in A
    <3>1. CASE n = 1
      <4>1. IsWalkOf(<<>> \o seqs[1], suites, 1)
        <5>1. 1 - 1 = 0 /\ 1 \in 1..M
          BY <3>1
        <5>2. IsWalkOf(<<>>, suites, 1 - 1)
          BY <1>1, <5>1
        <5>3. QED
          BY <1>2, <5>1, <5>2
      <4>2. <<>> \o seqs[1] = seqs[1]
        BY <1>0, <3>1
      <4>3. QED
        BY <1>0, <2>9, <3>1, <4>1, <4>2
    <3>2. CASE n # 1
      <4>1. IsWalkOf(F[n-1], suites, n - 1)
        BY <2>10, <3>2
      <4>2. IsWalkOf(F[n-1] \o seqs[n], suites, n)
        BY <1>2, <4>1
      <4>3. QED
        BY <1>0, <2>9, <3>2, <4>2
    <3>3. QED
      BY <3>1, <3>2
  <2>11. M \in A
    <3>1. 0 \in A /\ \A n \in 1..M : n - 1 \in A => n \in A
      BY <1>0, <2>10
    <3> HIDE DEF A, M
    <3>2. 0..M \subseteq A
      BY <1>0, <3>1, Stepwise
    <3>3. QED
      BY <1>0, <3>2
  <2>12. QED
    BY <1>4, <2>8, <2>11
<1>5. QED
  BY <1>3, <1>4

\* the walk runs the tests selected, and those of a context together and in order
LEMMA WalkIs ==
  ASSUME NEW items \in Seq(Items), IsInjective(items), Rise(items)
  PROVE  /\ Walk(items) \in Seq(Items) /\ Range(Walk(items)) = Range(items)
         /\ IsInjective(Walk(items)) /\ Together(Walk(items))
<1> DEFINE suites == SuitesOf(items)
           w == Walk(items)
           N == Len(suites)
<1>1. IsGrouping(suites, items, Len(items))
  BY GroupingIs
<1>2. IsWalkOf(w, suites, N)
  <2> DEFINE seqs == [i \in DOMAIN suites |-> suites[i].tests]
  <2>1. w = FlattenSeq(seqs)
    BY DEF Walk
  <2> HIDE DEF w, suites
  <2>2. IsWalkOf(FlattenSeq(seqs), suites, Len(suites))
    BY <1>1, FlattenIs
  <2>3. QED
    BY <2>1, <2>2
<1> HIDE DEF w, suites
<1>3. DOMAIN suites = 1..N /\ DOMAIN items = 1..Len(items)
  BY <1>1 DEF IsGrouping
<1>4. ASSUME NEW k \in DOMAIN w PROVE \E i \in DOMAIN items : w[k] = items[i]
  <2>1. PICK i \in 1..N : Has(suites[i], w[k])
    BY <1>2 DEF IsWalkOf
  <2>2. IsSuite(suites[i], items, Len(items))
    BY <1>1, <1>3, <2>1 DEF IsGrouping
  <2>3. QED
    BY <1>3, <2>1, <2>2 DEF IsSuite, Has
<1>5. ASSUME NEW i \in DOMAIN items PROVE \E k \in DOMAIN w : w[k] = items[i]
  <2>1. PICK j \in DOMAIN suites : Has(suites[j], items[i])
    BY <1>1, <1>3 DEF IsGrouping
  <2>2. QED
    BY <1>2, <1>3, <2>1 DEF IsWalkOf
<1>6. Range(w) = Range(items)
  BY <1>4, <1>5 DEF Range
<1>7. IsInjective(w)
  <2>1. SUFFICES ASSUME NEW i \in DOMAIN w, NEW k \in DOMAIN w, w[i] = w[k], i < k PROVE FALSE
    <3>1. \A i, k \in DOMAIN w : i < k \/ k < i \/ i = k
      BY <1>2 DEF IsWalkOf
    <3>2. QED
      BY <3>1 DEF IsInjective
  <2>2. w[i].name < w[i].name
    BY <1>2, <2>1 DEF IsWalkOf, Together
  <2>3. w[i].name \in Nat
    BY <1>2, ItemType DEF IsWalkOf
  <2>4. QED
    BY <2>2, <2>3
<1>8. QED
  BY <1>2, <1>6, <1>7 DEF IsWalkOf, w
-----------------------------------------------------------------------------
(* The exit status                                                         *)

IsSequence(s) == \E S : s \in Seq(S)

Shape ==
  /\ IsSequence(libraries) /\ IsSequence(ran)
  /\ next \in Nat \ {0}
  /\ total \in [failures : Nat, exceptions : Nat]
  /\ pc \in {"arguments", "library", "running", "exited"}
  /\ pc # "exited" => exit = "running"

\* the libraries behind the index were served, or any_fail tells
Behind ==
  /\ pc \in {"library", "running"} =>
       anyFail \/ \A j \in DOMAIN libraries : j < next => Served(libraries[j])
  /\ pc = "running" => next \in DOMAIN libraries /\ Served(Library)

\* the tests that did not pass threw an exception in a run of their own
Excused == \A j \in Bad : Alone(j) /\ ran[j].how = "throws"

\* the tests that were run passed or are excused, or any_fail or the totals tell
Told ==
  /\ pc = "arguments" => ran = <<>>
  /\ pc = "library" => anyFail \/ Excused
  /\ pc = "running" => anyFail \/ Failed \/ Excused

\* what run_single_test() runs is the only test that a pattern selects
Lone == pc = "running" /\ single => Library.pattern # None /\ Len(Selection(Library)) = 1

StatusInv == Shape /\ Behind /\ Told /\ Lone /\ ExitIsEarned

LEMMA SequenceDomain == ASSUME NEW s, IsSequence(s)
                        PROVE  Len(s) \in Nat /\ DOMAIN s = 1..Len(s)
  BY DEF IsSequence

LEMMA AppendAny ==
  ASSUME NEW s, NEW e, IsSequence(s)
  PROVE  /\ IsSequence(Append(s, e))
         /\ DOMAIN Append(s, e) = 1..(Len(s) + 1)
         /\ \A j \in DOMAIN s : Append(s, e)[j] = s[j]
         /\ Append(s, e)[Len(s) + 1] = e
<1>1. PICK S : s \in Seq(S)
  BY DEF IsSequence
<1>2. s \in Seq(S \cup {e}) /\ e \in S \cup {e}
  BY <1>1
<1>3. QED
  BY <1>2, AppendProperties DEF IsSequence

LEMMA StatusInit == Init => StatusInv
<1> SUFFICES ASSUME Init PROVE StatusInv
  OBVIOUS
<1>1. IsSequence(<<>>)
  BY EmptySeq DEF IsSequence
<1>2. Shape
  <2>1. libraries = <<>> /\ ran = <<>> /\ next = 1 /\ pc = "arguments" /\ exit = "running"
        /\ total = [failures |-> 0, exceptions |-> 0]
    BY DEF Init
  <2>2. IsSequence(libraries) /\ IsSequence(ran)
    BY <1>1, <2>1, Zenon
  <2>3. QED
    BY <2>1, <2>2 DEF Shape
<1>3. Behind /\ Told /\ Lone /\ ExitIsEarned
  BY DEF Init, Behind, Told, Lone, ExitIsEarned
<1>4. QED
  BY <1>2, <1>3 DEF StatusInv

LEMMA StatusStep == ASSUME StatusInv, [Next]_vars PROVE StatusInv'
<1> USE DEF StatusInv
<1>0. /\ Len(libraries) \in Nat /\ DOMAIN libraries = 1..Len(libraries)
      /\ Len(ran) \in Nat /\ DOMAIN ran = 1..Len(ran)
  BY SequenceDomain DEF Shape
<1>a. ASSUME UNCHANGED <<libraries, ran, total>>, next' \in Nat \ {0},
             pc' \in {"arguments", "library", "running", "exited"},
             pc' # "exited" => exit' = "running"
      PROVE  Shape'
  BY <1>a, Zenon DEF Shape
<1>b. ASSUME UNCHANGED <<libraries, ran>> PROVE Bad' = Bad /\ (Excused <=> Excused')
  <2>1. libraries' = libraries /\ ran' = ran
    BY <1>b
  <2>2. QED
    BY <2>1, Zenon DEF Bad, Excused, Alone
<1>c. ASSUME UNCHANGED <<options, libraries>>, NEW j \in DOMAIN libraries
      PROVE  Served(libraries[j])' <=> Served(libraries[j])
  BY <1>c DEF Served
<1>d. ASSUME exit' = "running" PROVE ExitIsEarned'
  BY <1>d DEF ExitIsEarned
<1>f. ASSUME pc' # "running" PROVE Lone'
  BY <1>f DEF Lone
<1>e. ASSUME pc = "library", NEW fail \in BOOLEAN, NextLibrary(fail),
             UNCHANGED <<options, libraries, total, ran, exit>>,
             fail \/ (next \in DOMAIN libraries /\ Served(libraries[next]))
      PROVE  StatusInv'
  <2>1. /\ pc' = "library" /\ exit' = "running" /\ next' = next + 1 /\ next' \in Nat \ {0}
        /\ anyFail' <=> anyFail \/ fail
    <3>1. pc' = "library" /\ next' = next + 1 /\ anyFail' = (anyFail \/ fail)
      BY <1>e DEF NextLibrary
    <3>2. exit' = "running" /\ next \in Nat \ {0}
      BY <1>e DEF Shape
    <3>3. next + 1 \in Nat \ {0}
      BY <3>2
    <3>4. QED
      BY <3>1, <3>2, <3>3, Zenon
  <2>2. \A j \in DOMAIN libraries : j < next' => j < next \/ j = next
    BY <1>0, <2>1 DEF Shape
  <2>3. Behind'
    <3>1. anyFail \/ fail \/ \A j \in DOMAIN libraries : j < next' => Served(libraries[j])
      BY <1>e, <2>2, Zenon DEF Behind
    <3>2. QED
      BY <1>c, <1>e, <2>1, <3>1, Zenon DEF Behind
  <2>4. Told'
    BY <1>b, <1>e, <2>1, Zenon DEF Told
  <2>5. QED
    BY <1>a, <1>d, <1>e, <1>f, <2>1, <2>3, <2>4
<1>1. CASE Usage
  <2>1. pc' = "exited" /\ exit' = "failure" /\ UNCHANGED <<next, libraries, ran, total>>
    BY <1>1 DEF Usage
  <2>2. Shape'
    BY <1>a, <2>1 DEF Shape
  <2>3. QED
    BY <2>1, <2>2 DEF Behind, Told, Lone, ExitIsEarned
<1>2. CASE ReadLibrary
  <2>1. pc = "arguments" /\ UNCHANGED <<pc, exit, ran, total>> /\ exit = "running"
    BY <1>2 DEF ReadLibrary, Shape
  <2>2. IsSequence(libraries')
    BY <1>2, AppendAny DEF ReadLibrary, Shape
  <2>3. next' \in Nat \ {0}
    BY <1>2 DEF ReadLibrary, Shape
  <2>4. Shape'
    BY <2>1, <2>2, <2>3 DEF Shape
  <2>5. QED
    BY <1>d, <2>1, <2>4 DEF Behind, Told, Lone
<1>3. CASE StartLibraries
  <2>1. /\ pc' = "library" /\ next' = 1 /\ exit' = "running" /\ ran = <<>>
        /\ UNCHANGED <<libraries, ran, total>>
    BY <1>3 DEF StartLibraries, Shape, Told
  <2>2. Shape'
    BY <1>a, <2>1
  <2>3. \A j \in DOMAIN libraries : ~(j < next')
    BY <1>0, <2>1
  <2>4. Bad' = {}
    BY <2>1 DEF Bad
  <2>5. Behind' /\ Told' /\ Lone'
    BY <2>1, <2>3, <2>4 DEF Behind, Told, Lone, Excused
  <2>6. QED
    BY <1>d, <2>1, <2>2, <2>5
<1>4. CASE MissingLibrary
  <2>1. /\ pc' = "library" /\ exit' = "running" /\ anyFail' = TRUE
        /\ UNCHANGED <<libraries, ran, total>> /\ next' \in Nat \ {0}
    BY <1>0, <1>4 DEF MissingLibrary, AtLibrary, Shape
  <2>2. QED
    BY <1>a, <1>d, <2>1 DEF Behind, Told, Lone
<1>5. CASE UnusableLibrary
  BY <1>5, <1>e DEF UnusableLibrary, AtLibrary
<1>6. CASE NothingToRun
  BY <1>6, <1>e DEF NothingToRun, AtRun, AtLibrary
<1>7. ASSUME AtLibrary PROVE next \in DOMAIN libraries
  BY <1>0, <1>7 DEF AtLibrary, Shape
<1>8. CASE DontRun
  <2>1. Served(libraries[next])
    BY <1>8 DEF DontRun, Served, Library
  <2>2. QED
    BY <1>7, <1>8, <1>e, <2>1 DEF DontRun, AtLibrary
<1>9. CASE StartRun
  <2>1. Served(Library) /\ next \in DOMAIN libraries
    BY <1>7, <1>9 DEF StartRun, AtRun, Served
  <2>2. /\ UNCHANGED <<options, next, libraries, total, anyFail, exit, ran>>
        /\ pc' = "running" /\ pc = "library" /\ exit = "running"
    BY <1>9 DEF StartRun, AtRun, AtLibrary, Shape
  <2>3. Shape'
    BY <1>a, <2>2 DEF Shape
  <2>4. Behind'
    BY <1>c, <2>1, <2>2, Zenon DEF Behind, Library
  <2>5. Told'
    BY <1>b, <2>2, Zenon DEF Told
  <2>6. Lone'
    <3>1. (single' <=> Library.pattern # None /\ Len(Selection(Library)) = 1) /\ next' = next
          /\ libraries' = libraries
      BY <1>9 DEF StartRun
    <3>2. QED
      BY <3>1, Zenon DEF Lone, Library
  <2>7. QED
    BY <1>d, <2>2, <2>3, <2>4, <2>5, <2>6
<1>10. CASE FinishRun
  <2>1. /\ UNCHANGED <<options, libraries, total, exit, ran>> /\ exit = "running"
        /\ pc = "running" /\ pc' = "library" /\ next' = next + 1 /\ next' \in Nat \ {0}
        /\ anyFail' <=> anyFail \/ Failed
    <3>1. /\ UNCHANGED <<options, libraries, total, exit, ran>> /\ pc = "running"
          /\ pc' = "library" /\ next' = next + 1 /\ anyFail' = (anyFail \/ Failed)
      BY <1>10 DEF FinishRun, NextLibrary
    <3>2. exit = "running" /\ next \in Nat \ {0}
      BY <3>1 DEF Shape
    <3>3. next + 1 \in Nat \ {0}
      BY <3>2
    <3>4. QED
      BY <3>1, <3>2, <3>3, Zenon
  <2>2. \A j \in DOMAIN libraries : j < next' => j < next \/ j = next
    BY <1>0, <2>1 DEF Shape
  <2>3. anyFail \/ \A j \in DOMAIN libraries : j < next' => Served(libraries[j])
    BY <2>1, <2>2, Zenon DEF Behind, Library
  <2>4. Behind'
    BY <1>c, <2>1, <2>3, Zenon DEF Behind
  <2>5. Told'
    BY <1>b, <2>1, Zenon DEF Told
  <2>6. QED
    BY <1>a, <1>d, <1>f, <2>1, <2>4, <2>5
<1>11. CASE Exit
  <2>1. \A j \in DOMAIN libraries : j < next
    BY <1>0, <1>11 DEF Exit, Shape
  <2>2. /\ UNCHANGED <<options, next, libraries, total, ran>>
        /\ pc = "library" /\ pc' = "exited" /\ (anyFail => exit' = "failure")
    BY <1>11 DEF Exit
  <2>3. Shape'
    BY <1>a, <2>2 DEF Shape
  <2>4. ExitIsEarned'
    <3>1. CASE anyFail
      BY <2>2, <3>1 DEF ExitIsEarned
    <3>2. CASE ~anyFail
      BY <1>b, <1>c, <2>1, <2>2, <3>2, Zenon DEF ExitIsEarned, Behind, Told, Excused
    <3>3. QED
      BY <3>1, <3>2
  <2>5. QED
    BY <2>2, <2>3, <2>4 DEF Behind, Told, Lone
<1>12. ASSUME NEW how \in Outcomes, RunTest(how) PROVE StatusInv'
  <2>1. how \in {"pass", "fail", "dies", "exits", "throws"}
    BY ToolAssumption
  <2>2. /\ UNCHANGED <<options, next, libraries, single, anyFail>>
        /\ pc = "running" /\ exit = "running"
    BY <1>12 DEF RunTest, Shape
  <2>3. PICK e : e.how = how /\ e.library = next /\ ran' = Append(ran, e)
    BY <1>12 DEF RunTest
  <2>4. /\ IsSequence(ran') /\ ran' # <<>> /\ Len(ran') = Len(ran) + 1
        /\ DOMAIN ran' = 1..(Len(ran) + 1)
        /\ \A j \in DOMAIN ran : ran'[j] = ran[j]
        /\ ran'[Len(ran) + 1] = e
    <3>1. /\ IsSequence(ran') /\ DOMAIN ran' = 1..(Len(ran) + 1)
          /\ \A j \in DOMAIN ran : ran'[j] = ran[j]
          /\ ran'[Len(ran) + 1] = e
      BY <2>3, AppendAny DEF Shape
    <3>2. Len(ran') \in Nat /\ DOMAIN ran' = 1..Len(ran')
      BY <3>1, SequenceDomain
    <3>3. QED
      BY <1>0, <3>1, <3>2
  <2>5. single => Alone(Len(ran))'
    <3>1. ran'[Len(ran')].library = next
      BY <2>3, <2>4
    <3>2. libraries'[ran'[Len(ran')].library] = libraries[next]
      BY <2>2, <3>1
    <3>3. QED
      BY <2>2, <3>2, Zenon DEF Lone, Alone, Library
  <2>6. how = "pass" \/ (single /\ how = "throws") => (Excused => Excused')
    <3> SUFFICES ASSUME how = "pass" \/ (single /\ how = "throws"), Excused, NEW j \in Bad'
                 PROVE  Alone(j)' /\ ran'[j].how = "throws"
      BY DEF Excused
    <3>1. j \in DOMAIN ran' /\ ran'[j].how # "pass"
      BY DEF Bad
    <3>2. CASE j \in DOMAIN ran
      <4>1. j \in Bad /\ ran'[j] = ran[j]
        BY <2>4, <3>1, <3>2 DEF Bad
      <4>2. Alone(j)' <=> Alone(j)
        BY <2>2, <4>1, Zenon DEF Alone
      <4>3. QED
        BY <4>1, <4>2 DEF Excused
    <3>3. CASE j = Len(ran')
      <4>1. single /\ ran'[j].how = "throws"
        BY <2>3, <2>4, <3>1, <3>3
      <4>2. Alone(j)' <=> Alone(Len(ran))'
        BY <3>3, Zenon DEF Alone
      <4>3. QED
        BY <2>5, <4>1, <4>2
    <3>4. QED
      BY <1>0, <2>4, <3>1, <3>2, <3>3
  <2>7. CASE single /\ how \in {"dies", "exits"}
    <3>1. /\ pc' = "exited" /\ UNCHANGED total
          /\ exit' = (IF how = "exits" THEN "success" ELSE "died")
      BY <1>12, <2>7 DEF RunTest
    <3>2. Shape'
      BY <2>2, <2>4, <3>1 DEF Shape
    <3>3. exit' = "success" => ran'[Len(ran')].how = "exits"
      BY <2>3, <2>4, <3>1
    <3>4. ExitIsEarned'
      BY <2>4, <2>5, <2>7, <3>3, Zenon DEF ExitIsEarned
    <3>5. QED
      BY <3>1, <3>2, <3>4 DEF Behind, Told, Lone
  <2>8. CASE ~(single /\ how \in {"dies", "exits"})
    <3>1. UNCHANGED <<pc, exit>> /\ total' = CASE how = "pass" -> total
                                     [] how = "fail" -> [total EXCEPT !.failures = @ + 1]
                                     [] OTHER        -> [total EXCEPT !.exceptions = @ + 1]
      BY <1>12, <2>8 DEF RunTest
    <3>2. total' \in [failures : Nat, exceptions : Nat]
      BY <2>1, <3>1 DEF Shape
    <3>3. /\ Failed => Failed'
          /\ how = "pass" \/ (single /\ how = "throws") \/ Failed'
      BY <2>1, <2>2, <2>8, <3>1 DEF Failed, Shape
    <3>4. Shape'
      BY <2>2, <2>4, <3>1, <3>2 DEF Shape
    <3>5. Behind'
      BY <1>c, <2>2, <3>1, Zenon DEF Behind, Library
    <3>6. Told'
      BY <2>2, <2>6, <3>1, <3>3 DEF Told
    <3>7. Lone'
      BY <2>2, <3>1, Zenon DEF Lone, Library
    <3>8. QED
      BY <1>d, <2>2, <3>1, <3>4, <3>5, <3>6, <3>7
  <2>9. QED
    BY <2>7, <2>8
<1>13. CASE UNCHANGED vars
  <2>1. UNCHANGED <<options, pc, next, libraries, single, total, anyFail, exit, ran>>
    BY <1>13 DEF vars
  <2>2. Shape'
    BY <1>a, <2>1 DEF Shape
  <2>3. Behind'
    BY <1>c, <2>1, Zenon DEF Behind, Library
  <2>4. Failed' <=> Failed
    BY <2>1 DEF Failed
  <2>5. Told'
    BY <1>b, <2>1, <2>4, Zenon DEF Told
  <2>6. ExitIsEarned'
    <3>1. exit' = exit /\ ran' = ran /\ libraries' = libraries /\ options' = options
      BY <2>1
    <3>2. QED
      BY <3>1, Zenon DEF ExitIsEarned, Bad, Alone, Served
  <2>7. Lone'
    BY <2>1, Zenon DEF Lone, Library
  <2>8. QED
    BY <2>2, <2>3, <2>5, <2>6, <2>7
<1>14. QED
  BY <1>1, <1>2, <1>3, <1>4, <1>5, <1>6, <1>8, <1>9, <1>10, <1>11, <1>12, <1>13 DEF Next

(* EXIT_SUCCESS means that every library on the command line was there,    *)
(* could be used and had a test its pattern selects, and that no test that *)
(* was run failed, died or left its process (cgreen-runner.c:351). Only a  *)
(* test that is run alone, in the process of the tool, escapes this: with  *)
(* exit(0) or the alarm it ends the tool (posix_runner_platform.c:102),    *)
(* and an exception it throws does not count (runner.c:58).                *)
THEOREM SuccessMeansAllServed == Spec => []ExitIsEarned
<1>1. StatusInv => ExitIsEarned
  BY DEF StatusInv
<1>2. QED
  BY <1>1, StatusInit, StatusStep, PTL DEF Spec
-----------------------------------------------------------------------------
(* The totals of the reporter count the tests that did not pass, as long   *)
(* as the tool lives: a single test that dies takes it down uncounted.     *)

Counted == pc # "exited" => total.failures + total.exceptions = Cardinality(Bad)

OnlyHeader == \E t : shown = <<[text |-> "header", total |-> t]>>
IsComplete == \E t, u : /\ shown = <<[text |-> "header", total |-> t], [text |-> "completed", total |-> u]>>
                        /\ u.failures + u.exceptions = Cardinality(Bad)

\* what a run with one suite name has shown, by where it is
Stages ==
  Common => \/ pc \in {"arguments", "exited"} /\ shown = <<>>
            \/ pc # "arguments" /\ OnlyHeader
            \/ pc \in {"library", "exited"} /\ next > Len(libraries) /\ IsComplete

ShowInv == StatusInv /\ Counted /\ Stages

\* a test that did not pass is one more of the bad ones
LEMMA BadGrows ==
  ASSUME IsSequence(ran), NEW e, ran' = Append(ran, e)
  PROVE  /\ Cardinality(Bad) \in Nat
         /\ Cardinality(Bad') = Cardinality(Bad) + (IF e.how # "pass" THEN 1 ELSE 0)
<1>1. Len(ran) \in Nat /\ DOMAIN ran = 1..Len(ran)
  BY SequenceDomain
<1>2. /\ DOMAIN ran' = 1..(Len(ran) + 1)
      /\ \A j \in 1..Len(ran) : ran'[j] = ran[j]
      /\ ran'[Len(ran) + 1] = e
  BY <1>1, AppendAny
<1>3. Bad \in SUBSET (1..Len(ran)) /\ Len(ran) + 1 \notin Bad
  BY <1>1 DEF Bad
<1>4. IsFiniteSet(Bad) /\ Cardinality(Bad) \in Nat
  <2>1. 1 \in Int /\ Len(ran) \in Int
    BY <1>1
  <2>2. IsFiniteSet(1..Len(ran))
    BY <2>1, FS_Interval
  <2>3. IsFiniteSet(Bad)
    BY <1>3, <2>2, FS_Subset
  <2>4. QED
    BY <2>3, FS_CardinalityType
<1>5. CASE e.how = "pass"
  <2>1. Bad' = Bad
    BY <1>1, <1>2, <1>5 DEF Bad
  <2>2. QED
    BY <1>4, <1>5, <2>1
<1>6. CASE e.how # "pass"
  <2>1. Bad' = Bad \cup {Len(ran) + 1}
    BY <1>1, <1>2, <1>6 DEF Bad
  <2>2. Cardinality(Bad') = Cardinality(Bad) + 1
    BY <1>3, <1>4, <2>1, FS_AddElement
  <2>3. QED
    BY <1>4, <1>6, <2>2
<1>7. QED
  BY <1>5, <1>6

LEMMA CountedStep == ASSUME StatusInv, Counted, [Next]_vars PROVE Counted'
<1>0. /\ Shape /\ IsSequence(ran) /\ total \in [failures : Nat, exceptions : Nat]
      /\ pc # "exited" => exit = "running"
  BY DEF StatusInv, Shape
<1>a. ASSUME UNCHANGED <<ran, total>>, pc # "exited" PROVE Counted'
  BY <1>a DEF Counted, Bad
<1>1. CASE \/ ReadLibrary \/ StartLibraries \/ MissingLibrary \/ UnusableLibrary \/ DontRun
           \/ NothingToRun \/ StartRun \/ FinishRun \/ Exit
  <2>1. UNCHANGED <<ran, total>> /\ pc # "exited"
    BY <1>1 DEF ReadLibrary, StartLibraries, MissingLibrary, UnusableLibrary, DontRun,
                NothingToRun, StartRun, FinishRun, Exit, AtRun, AtLibrary
  <2>2. QED
    BY <1>a, <2>1
<1>2. CASE Usage
  BY <1>2 DEF Usage, Counted
<1>3. ASSUME NEW how \in Outcomes, RunTest(how) PROVE Counted'
  <2>1. how \in {"pass", "fail", "dies", "exits", "throws"}
    BY ToolAssumption
  <2>2. PICK e : e.how = how /\ ran' = Append(ran, e)
    BY <1>3 DEF RunTest
  <2>3. /\ Cardinality(Bad) \in Nat
        /\ Cardinality(Bad') = Cardinality(Bad) + (IF how # "pass" THEN 1 ELSE 0)
    BY <1>0, <2>2, BadGrows
  <2>4. CASE single /\ how \in {"dies", "exits"}
    BY <1>3, <2>4 DEF RunTest, Counted
  <2>5. CASE ~(single /\ how \in {"dies", "exits"})
    <3>1. pc = "running" /\ total' = CASE how = "pass" -> total
                                     [] how = "fail" -> [total EXCEPT !.failures = @ + 1]
                                     [] OTHER        -> [total EXCEPT !.exceptions = @ + 1]
      BY <1>3, <2>5 DEF RunTest
    <3>2. total'.failures + total'.exceptions
            = total.failures + total.exceptions + (IF how # "pass" THEN 1 ELSE 0)
      BY <1>0, <2>1, <3>1
    <3>3. total.failures + total.exceptions = Cardinality(Bad)
      BY <3>1 DEF Counted
    <3> HIDE DEF Bad
    <3>4. QED
      BY <2>3, <3>2, <3>3 DEF Counted
  <2>6. QED
    BY <2>4, <2>5
<1>4. CASE UNCHANGED vars
  BY <1>4 DEF vars, Counted, Bad
<1>5. QED
  BY <1>1, <1>2, <1>3, <1>4 DEF Next

LEMMA StagesStep == ASSUME ShowInv, [Next]_vars PROVE Stages'
<1>0. /\ next \in Nat /\ Len(libraries) \in Nat /\ DOMAIN libraries = 1..Len(libraries)
      /\ pc = "running" => next <= Len(libraries)
      /\ pc # "exited" => total.failures + total.exceptions = Cardinality(Bad)
  <2>1. /\ next \in Nat /\ Len(libraries) \in Nat /\ DOMAIN libraries = 1..Len(libraries)
        /\ pc = "running" => next \in DOMAIN libraries
    BY SequenceDomain DEF ShowInv, StatusInv, Shape, Behind
  <2>2. QED
    BY <2>1 DEF ShowInv, Counted
<1>a. ASSUME UNCHANGED <<options, shown>>, pc' # "arguments",
             Common => pc # "arguments" /\ shown # <<>> /\ ~IsComplete
      PROVE  Stages'
  <2>1. Common' = Common /\ (OnlyHeader => OnlyHeader')
    BY <1>a DEF Common, OnlyHeader
  <2>2. Common => OnlyHeader
    BY <1>a DEF ShowInv, Stages
  <2>3. QED
    BY <1>a, <2>1, <2>2 DEF Stages
<1>b. ASSUME pc \in {"library", "running"}, next <= Len(libraries)
      PROVE  Common => OnlyHeader /\ shown # <<>> /\ ~IsComplete
  <2>1. Common => OnlyHeader
    BY <1>0, <1>b DEF ShowInv, Stages
  <2>2. OnlyHeader => Len(shown) = 1
    BY DEF OnlyHeader
  <2>3. IsComplete => Len(shown) = 2
    BY DEF IsComplete
  <2>4. QED
    BY <2>1, <2>2, <2>3
<1>1. CASE Usage
  <2>1. pc = "arguments" /\ pc' = "exited" /\ UNCHANGED <<options, shown>>
    BY <1>1 DEF Usage
  <2>2. OnlyHeader \/ shown = <<>> <=> OnlyHeader' \/ shown' = <<>>
    BY <2>1 DEF OnlyHeader
  <2>3. QED
    BY <2>1, <2>2 DEF ShowInv, Stages, Common
<1>2. CASE ReadLibrary
  BY <1>2 DEF ReadLibrary, ShowInv, Stages, Common
<1>3. CASE StartLibraries
  <2>1. /\ pc' = "library" /\ UNCHANGED options
        /\ Common => shown' = <<[text |-> "header", total |-> total]>>
    BY <1>3 DEF StartLibraries
  <2>2. QED
    BY <2>1 DEF Stages, Common, OnlyHeader
<1>4. CASE MissingLibrary \/ UnusableLibrary \/ DontRun \/ NothingToRun
  <2>1. pc = "library" /\ next <= Len(libraries) /\ pc' = "library" /\ UNCHANGED <<options, shown>>
    <3>1. pc' = "library"
      BY <1>4 DEF MissingLibrary, UnusableLibrary, DontRun, NothingToRun, NextLibrary, AtLibrary
    <3>2. QED
      BY <1>4, <3>1 DEF MissingLibrary, UnusableLibrary, DontRun, NothingToRun, AtRun, AtLibrary
  <2>2. QED
    BY <1>a, <1>b, <2>1
<1>5. CASE StartRun
  <2>1. /\ pc = "library" /\ next <= Len(libraries) /\ pc' = "running" /\ UNCHANGED options
        /\ Common => shown' = shown
    BY <1>5 DEF StartRun, AtRun, AtLibrary, Show
  <2>2. Common => OnlyHeader'
    BY <1>b, <2>1 DEF OnlyHeader
  <2>3. QED
    BY <2>1, <2>2 DEF Stages, Common
<1>6. ASSUME NEW how \in Outcomes, RunTest(how) PROVE Stages'
  <2>1. pc = "running" /\ pc' \in {"running", "exited"} /\ UNCHANGED <<options, shown>>
    BY <1>6 DEF RunTest
  <2>2. QED
    BY <1>0, <1>a, <1>b, <2>1
<1>7. CASE FinishRun
  <2>1. /\ pc = "running" /\ pc' = "library" /\ next' = next + 1
        /\ UNCHANGED <<options, libraries, ran>>
        /\ Common /\ next < Len(libraries) => shown' = shown
        /\ Common /\ ~(next < Len(libraries)) =>
             shown' = Append(shown, [text |-> "completed", total |-> total])
    BY <1>7 DEF FinishRun, NextLibrary, Show, Common
  <2>2. Common' = Common /\ Bad' = Bad
    BY <2>1 DEF Common, Bad
  <2>3. CASE Common /\ next < Len(libraries)
    <3>1. OnlyHeader'
      BY <1>0, <1>b, <2>1, <2>3 DEF OnlyHeader
    <3>2. QED
      BY <2>1, <3>1 DEF Stages
  <2>4. CASE Common /\ ~(next < Len(libraries))
    <3>1. PICK t : shown = <<[text |-> "header", total |-> t]>>
      BY <1>0, <1>b, <2>1, <2>4 DEF OnlyHeader
    <3>2. shown' = <<[text |-> "header", total |-> t], [text |-> "completed", total |-> total]>>
      BY <2>1, <2>4, <3>1
    <3>3. total.failures + total.exceptions = Cardinality(Bad')
      BY <1>0, <2>1, <2>2
    <3>4. IsComplete'
      BY <3>2, <3>3 DEF IsComplete
    <3>5. next' > Len(libraries')
      BY <1>0, <2>1, <2>4
    <3>6. QED
      BY <2>1, <3>4, <3>5 DEF Stages
  <2>5. CASE ~Common
    BY <2>2, <2>5 DEF Stages
  <2>6. QED
    BY <2>3, <2>4, <2>5
<1>8. CASE Exit
  <2>1. /\ pc = "library" /\ pc' = "exited" /\ UNCHANGED <<options, next, libraries, ran, shown>>
    BY <1>8 DEF Exit
  <2>2. /\ OnlyHeader => OnlyHeader'
        /\ IsComplete => IsComplete'
    BY <2>1 DEF OnlyHeader, IsComplete, Bad
  <2>3. QED
    BY <2>1, <2>2 DEF ShowInv, Stages, Common
<1>9. CASE UNCHANGED vars
  <2>1. UNCHANGED <<options, pc, next, libraries, ran, shown>>
    BY <1>9 DEF vars
  <2>2. /\ OnlyHeader => OnlyHeader'
        /\ IsComplete => IsComplete'
    BY <2>1 DEF OnlyHeader, IsComplete, Bad
  <2>3. QED
    BY <2>1, <2>2 DEF ShowInv, Stages, Common
<1>10. QED
  BY <1>1, <1>2, <1>3, <1>4, <1>5, <1>6, <1>7, <1>8, <1>9 DEF Next

(* With --suite the libraries show as one suite: one header, no start of   *)
(* another, at most one completion, which comes after the last library and *)
(* tells as many failures and exceptions as tests of all the libraries did *)
(* not pass (cgreen-runner.c:212).                                         *)
THEOREM OneSuiteIsShown == Spec => []ShowsOneSuite
<1>1. Init => ShowInv
  <2> SUFFICES ASSUME Init PROVE ShowInv
    OBVIOUS
  <2>1. Bad = {} /\ total = [failures |-> 0, exceptions |-> 0] /\ pc = "arguments" /\ shown = <<>>
    BY DEF Init, Bad
  <2>2. Counted
    BY <2>1, FS_EmptySet DEF Counted
  <2>3. QED
    BY <2>1, <2>2, StatusInit DEF ShowInv, Stages
<1>2. ShowInv /\ [Next]_vars => ShowInv'
  BY StatusStep, CountedStep, StagesStep DEF ShowInv
<1>3. ShowInv => ShowsOneSuite
  <2> SUFFICES ASSUME ShowInv, Common PROVE ShowsOneSuite
    BY DEF ShowsOneSuite
  <2>1. CASE shown = <<>>
    BY <2>1 DEF ShowsOneSuite
  <2>2. CASE OnlyHeader
    BY <2>2 DEF OnlyHeader, ShowsOneSuite
  <2>3. CASE next > Len(libraries) /\ IsComplete
    <3>1. PICK t, u : /\ shown = <<[text |-> "header", total |-> t],
                                   [text |-> "completed", total |-> u]>>
                      /\ u.failures + u.exceptions = Cardinality(Bad)
      BY <2>3 DEF IsComplete
    <3>2. /\ Len(shown) = 2 /\ DOMAIN shown = {1, 2} /\ shown[1].text = "header"
          /\ shown[2].text = "completed" /\ shown[2].total = u
      BY <3>1
    <3>3. QED
      BY <2>3, <3>1, <3>2 DEF ShowsOneSuite
  <2>4. QED
    BY <2>1, <2>2, <2>3 DEF ShowInv, Stages
<1>4. QED
  BY <1>1, <1>2, <1>3, PTL DEF Spec
-----------------------------------------------------------------------------
LEMMA TailItem ==
  ASSUME NEW T, NEW s \in Seq(T), s # <<>>
  PROVE  /\ Len(s) \in Nat \ {0} /\ DOMAIN s = 1..Len(s)
         /\ Head(s) = s[1] /\ s[1] \in T
         /\ Tail(s) \in Seq(T) /\ DOMAIN Tail(s) = 1..(Len(s) - 1)
         /\ \A i \in 1..(Len(s) - 1) : Tail(s)[i] = s[i+1]
<1>1. Len(s) \in Nat /\ DOMAIN s = 1..Len(s) /\ Len(s) # 0
  BY EmptySeq, LenProperties
<1>2. Head(s) = s[1] /\ s[1] \in T
  BY <1>1
<1>3. Tail(s) \in Seq(T) /\ Len(Tail(s)) = Len(s) - 1
      /\ \A i \in 1..(Len(s) - 1) : Tail(s)[i] = s[i+1]
  BY <1>1, HeadTailProperties
<1>4. QED
  BY <1>1, <1>2, <1>3

LEMMA KeptRange ==
  ASSUME NEW x, NEW s \in Seq(Items), NEW S, IsKept(x, s, Len(s), S)
  PROVE  \A t : t \in Range(x) <=> t \in Range(s) /\ t \in S
<1>1. /\ \A i \in DOMAIN x : \E k \in DOMAIN s : s[k] \in S /\ x[i] = s[k]
      /\ \A k \in DOMAIN s : s[k] \in S => \E i \in DOMAIN x : x[i] = s[k]
  BY DEF IsKept
<1>2. \A t : /\ t \in Range(x) <=> \E i \in DOMAIN x : x[i] = t
             /\ t \in Range(s) <=> \E k \in DOMAIN s : s[k] = t
  BY DEF Range
<1>3. ASSUME NEW t PROVE t \in Range(x) <=> t \in Range(s) /\ t \in S
  <2>1. CASE t \in Range(x)
    <3>1. PICK i \in DOMAIN x : x[i] = t
      BY ONLY <1>2, <2>1, Zenon
    <3>2. PICK k \in DOMAIN s : s[k] \in S /\ x[i] = s[k]
      BY ONLY <1>1, Zenon
    <3>3. QED
      BY ONLY <1>2, <3>1, <3>2, Zenon
  <2>2. CASE t \in Range(s) /\ t \in S
    <3>1. PICK k \in DOMAIN s : s[k] = t
      BY ONLY <1>2, <2>2, Zenon
    <3>2. QED
      BY ONLY <1>1, <1>2, <2>2, <3>1, Zenon
  <2>3. QED
    BY <2>1, <2>2
<1>4. QED
  BY <1>3

\* what is selected of a library are the tests its pattern matches, sorted
LEMMA SelectionIs ==
  ASSUME NEW l, l.file \in Files
  PROVE  /\ Selection(l) \in Seq(Items) /\ IsInjective(Selection(l)) /\ Rise(Selection(l))
         /\ Range(Selection(l)) = Wanted(l)
<1> DEFINE S == {t \in Items : l.pattern = None \/ Matches(l.pattern, t)}
           c == Content[l.file]
           s == SortedTestItems(c)
           x == Kept(s, S)
<1>1. Selection(l) = x
  BY DEF Selection
<1>2. c \in Seq(Items) /\ IsInjective(c)
  BY ToolAssumption
<1> HIDE DEF c
<1>3. s \in Seq(Items) /\ IsInjective(s) /\ Rise(s) /\ Range(s) = Range(c)
  BY <1>2, SortedIs
<1> HIDE DEF s, S
<1>4. IsKept(x, s, Len(s), S)
  BY <1>3, KeptIs
<1> HIDE DEF x
<1>5. Range(x) = Range(c) \cap S
  <2>1. \A t : t \in Range(x) <=> t \in Range(s) /\ t \in S
    BY <1>3, <1>4, KeptRange
  <2>2. QED
    BY <1>3, <2>1
<1>6. Range(c) \cap S = Wanted(l)
  <2>1. Range(c) \subseteq Items
    BY <1>2, RangeOf
  <2>2. Wanted(l) = {t \in Range(c) : l.pattern = None
                       \/ (t.context \in l.pattern.contexts /\ t.name \in l.pattern.names)}
    BY DEF Wanted, c
  <2>3. QED
    BY <2>1, <2>2 DEF S, Matches
<1>7. QED
  BY <1>1, <1>4, <1>5, <1>6 DEF IsKept

\* what StartRun makes of the selection
LEMMA WalkOfSelection ==
  ASSUME NEW l, l.file \in Files
  PROVE  /\ Walk(Selection(l)) \in Seq(Items) /\ Range(Walk(Selection(l))) = Wanted(l)
         /\ IsInjective(Walk(Selection(l))) /\ Together(Walk(Selection(l)))
<1>1. /\ Selection(l) \in Seq(Items) /\ IsInjective(Selection(l)) /\ Rise(Selection(l))
      /\ Range(Selection(l)) = Wanted(l)
  BY SelectionIs
<1> DEFINE s == Selection(l)
<1> HIDE DEF s
<1>2. /\ s \in Seq(Items) /\ IsInjective(s) /\ Rise(s) /\ Range(s) = Wanted(l)
  BY <1>1 DEF s
<1>3. /\ Walk(s) \in Seq(Items) /\ Range(Walk(s)) = Range(s)
      /\ IsInjective(Walk(s)) /\ Together(Walk(s))
  BY <1>2, WalkIs
<1>4. QED
  BY <1>2, <1>3 DEF s

LEMMA NamedOfSelection ==
  ASSUME NEW l, l.file \in Files, Len(Selection(l)) = 1, NEW name
  PROVE  LET x == Named(Walk(Selection(l)), name)
         IN  /\ x \in Seq(Items) /\ IsInjective(x) /\ Together(x)
             /\ Range(x) = {t \in Wanted(l) : t.name = name}
             /\ \E t : Wanted(l) = {t}
<1> DEFINE s == Selection(l)
           w == Walk(s)
           S == {t \in Items : t.name = name}
           x == Kept(w, S)
<1>1. x = Named(Walk(Selection(l)), name)
  BY DEF Named
<1>2. /\ w \in Seq(Items) /\ Range(w) = Wanted(l) /\ IsInjective(w)
  BY WalkOfSelection
<1>3. PICK t : Wanted(l) = {t}
  <2>1. s \in Seq(Items) /\ Range(s) = Wanted(l) /\ Len(s) = 1
    BY SelectionIs
  <2> HIDE DEF s
  <2>2. DOMAIN s = 1..1
    BY <2>1
  <2>3. Range(s) = {s[1]}
    BY <2>2 DEF Range
  <2>4. QED
    BY <2>1, <2>3
<1> HIDE DEF w
<1>4. DOMAIN w = 1..Len(w) /\ Len(w) \in Nat
  BY <1>2
<1>5. \A i \in DOMAIN w : w[i] = t
  BY <1>2, <1>3 DEF Range
<1>6. Rise(w)
  <2>1. \A i, k \in DOMAIN w : ~(i < k)
    <3>1. \A i, k \in DOMAIN w : i = k
      BY <1>2, <1>5 DEF IsInjective
    <3>2. QED
      BY <1>4, <3>1
  <2>2. QED
    BY <2>1 DEF Rise
<1> HIDE DEF S
<1>7. IsKept(x, w, Len(w), S)
  BY <1>2, <1>6, KeptIs
<1> HIDE DEF x
<1>8. x \in Seq(Items) /\ IsInjective(x) /\ DOMAIN x = 1..Len(x) /\ Len(x) \in Nat
  BY <1>7 DEF IsKept
<1>9. Together(x)
  <2>1. \A i \in DOMAIN x : x[i] = t
    BY <1>4, <1>5, <1>7 DEF IsKept
  <2>2. \A i, k \in DOMAIN x : ~(i < k)
    <3>1. \A i, k \in DOMAIN x : i = k
      BY <1>8, <2>1 DEF IsInjective
    <3>2. QED
      BY <1>8, <3>1
  <2>3. QED
    BY <2>2 DEF Together
<1>10. Range(x) = {u \in Wanted(l) : u.name = name}
  <2>1. \A u : u \in Range(x) <=> u \in Range(w) /\ u \in S
    BY <1>2, <1>7, KeptRange
  <2>2. Range(w) \subseteq Items
    BY <1>2, RangeOf
  <2>3. QED
    BY <1>2, <2>1, <2>2 DEF S
<1>11. QED
  BY <1>1, <1>3, <1>8, <1>9, <1>10
-----------------------------------------------------------------------------
\* what the loops count to
Loops ==
  /\ args \in Seq(Files \cup DOMAIN Patterns)
  /\ pc = "arguments" => Len(libraries) < next /\ (args = <<>> => next = 1)

TypeInv == StatusInv /\ TypeOK /\ Loops

LEMMA TypeStep == ASSUME TypeInv, [Next]_vars PROVE TypeInv'
<1> USE DEF TypeInv
<1>0. /\ Len(libraries) \in Nat /\ DOMAIN libraries = 1..Len(libraries)
      /\ Len(args) \in Nat /\ DOMAIN args = 1..Len(args)
      /\ next \in Nat \ {0}
      /\ pc # "arguments" => next \in 1..(Len(libraries) + 1)
  BY SequenceDomain DEF StatusInv, Shape, TypeOK, Loops
<1>s. StatusInv'
  BY StatusStep
<1>a. ASSUME UNCHANGED <<args, options, libraries, todo, single, ran>>,
             pc' \in {"library", "running", "exited"}, next' \in 1..(Len(libraries) + 1),
             anyFail' \in BOOLEAN, exit' \in {"running", "success", "failure", "died"},
             total' \in [failures : Nat, exceptions : Nat],
             shown' \in Seq([text : {"header", "running", "completed"},
                             total : [failures : Nat, exceptions : Nat]])
      PROVE  TypeInv'
  <2>1. TypeOK'
    BY <1>a DEF TypeOK
  <2>2. Loops'
    BY <1>a DEF Loops
  <2>3. QED
    BY <1>s, <2>1, <2>2
<1>b. /\ total \in [failures : Nat, exceptions : Nat] /\ anyFail \in BOOLEAN
      /\ exit \in {"running", "success", "failure", "died"}
      /\ shown \in Seq([text : {"header", "running", "completed"},
                        total : [failures : Nat, exceptions : Nat]])
  BY DEF TypeOK
<1>c. ASSUME NEW text \in {"header", "running", "completed"}, NEW inhibited, Show(text, inhibited)
      PROVE  shown' \in Seq([text : {"header", "running", "completed"},
                             total : [failures : Nat, exceptions : Nat]])
  <2>1. [text |-> text, total |-> total] \in [text : {"header", "running", "completed"},
                                              total : [failures : Nat, exceptions : Nat]]
    BY <1>b
  <2>2. shown' = shown \/ shown' = Append(shown, [text |-> text, total |-> total])
    BY <1>c DEF Show
  <2> DEFINE Messages == [text : {"header", "running", "completed"},
                          total : [failures : Nat, exceptions : Nat]]
             m == [text |-> text, total |-> total]
  <2>3. shown \in Seq(Messages) /\ m \in Messages
    BY <1>b, <2>1
  <2> HIDE DEF Messages, m
  <2>4. Append(shown, m) \in Seq(Messages)
    BY <2>3, AppendItem
  <2>5. QED
    BY <2>2, <2>3, <2>4 DEF Messages, m
<1>d. ASSUME NEW fail \in BOOLEAN, NextLibrary(fail), next <= Len(libraries)
      PROVE  /\ pc' = "library" /\ next' \in 1..(Len(libraries) + 1) /\ anyFail' \in BOOLEAN
  <2>1. pc' = "library" /\ next' = next + 1 /\ anyFail' = (anyFail \/ fail)
    BY <1>d DEF NextLibrary
  <2>2. next + 1 \in 1..(Len(libraries) + 1)
    BY <1>0, <1>d
  <2>3. QED
    BY <1>b, <2>1, <2>2
<1>1. CASE Usage
  <2>1. next \in 1..(Len(libraries) + 1)
    BY <1>0, <1>1 DEF Usage, Loops
  <2>2. QED
    BY <1>1, <1>a, <1>b, <2>1 DEF Usage
<1>2. CASE ReadLibrary
  <2> DEFINE named == next + 1 <= Len(args) /\ args[next + 1] \notin Files
             pattern == IF named THEN Patterns[args[next + 1]] ELSE None
             file == next + 1 <= Len(args) /\ args[next + 1] \in Files
             e == [file |-> args[next], pattern |-> pattern]
  <2>1. /\ pc = "arguments" /\ next <= Len(args) /\ libraries' = Append(libraries, e)
        /\ next' = IF file THEN next + 1 ELSE next + 2
        /\ UNCHANGED <<args, options, pc, todo, single, total, anyFail, exit, ran, shown>>
    BY <1>2 DEF ReadLibrary
  <2>2. next \in DOMAIN args /\ args[next] \in Range(args)
    BY <1>0, <2>1 DEF Range
  <2>3. pattern \in {None} \cup Range(Patterns)
    <3>1. CASE named
      <4>1. next + 1 \in 1..Len(args)
        BY <1>0, <3>1
      <4>2. args[next + 1] \in DOMAIN Patterns
        BY <1>0, <3>1, <4>1 DEF Loops
      <4>3. QED
        BY <3>1, <4>2 DEF Range
    <3>2. CASE ~named
      BY <3>2
    <3>3. QED
      BY <3>1, <3>2
  <2> HIDE DEF pattern
  <2>4. e.file = args[next] /\ e.pattern = pattern
    OBVIOUS
  <2> HIDE DEF e
  <2>5. /\ DOMAIN libraries' = 1..(Len(libraries) + 1)
        /\ \A j \in DOMAIN libraries : libraries'[j] = libraries[j]
        /\ libraries'[Len(libraries) + 1] = e
        /\ IsSequence(libraries')
    BY <2>1, AppendAny DEF StatusInv, Shape
  <2>6. Len(libraries') = Len(libraries) + 1
    <3>1. Len(libraries') \in Nat /\ 1..Len(libraries') = 1..(Len(libraries) + 1)
      BY <2>5, SequenceDomain
    <3>2. QED
      BY <1>0, <3>1
  <2>7. next' \in 1..(Len(args') + 2) /\ next < next' /\ args # <<>>
    BY <1>0, <2>1
  <2>8. \A j \in DOMAIN libraries' : /\ libraries'[j].file \in Range(args')
                                     /\ libraries'[j].pattern \in {None} \cup Range(Patterns)
    <3>1. ASSUME NEW j \in DOMAIN libraries'
          PROVE  \/ libraries'[j] = e
                 \/ j \in DOMAIN libraries /\ libraries'[j] = libraries[j]
      BY <1>0, <2>5
    <3>2. \A j \in DOMAIN libraries : /\ libraries[j].file \in Range(args)
                                      /\ libraries[j].pattern \in {None} \cup Range(Patterns)
      BY DEF TypeOK
    <3>3. args' = args
      BY <2>1
    <3>4. QED
      BY <2>2, <2>3, <2>4, <3>1, <3>2, <3>3
  <2>9. TypeOK'
    BY <2>1, <2>7, <2>8 DEF TypeOK
  <2>10. Loops'
    BY <1>0, <2>1, <2>6, <2>7 DEF Loops
  <2>11. QED
    BY <1>s, <2>9, <2>10
<1>3. CASE StartLibraries
  <2>1. shown' \in Seq([text : {"header", "running", "completed"},
                        total : [failures : Nat, exceptions : Nat]])
    <3>1. shown' = shown \/ shown' = <<[text |-> "header", total |-> total]>>
      BY <1>3 DEF StartLibraries
    <3> DEFINE Messages == [text : {"header", "running", "completed"},
                            total : [failures : Nat, exceptions : Nat]]
               m == [text |-> "header", total |-> total]
    <3>2. shown \in Seq(Messages) /\ m \in Messages
      BY <1>b
    <3>3. shown' = shown \/ shown' = <<m>>
      BY <3>1
    <3> HIDE DEF Messages, m
    <3>4. shown' \in Seq(Messages)
      <4>1. <<m>> \in [1..1 -> Messages]
        BY <3>2
      <4>2. <<m>> \in Seq(Messages)
        BY <4>1, SeqDef
      <4>3. QED
        BY <3>2, <3>3, <4>2
    <3>5. QED
      BY <3>4 DEF Messages
  <2>2. anyFail' \in BOOLEAN
    <3>1. anyFail' = anyFail \/ anyFail' = (\E j \in DOMAIN libraries : libraries[j].file \notin Files)
      BY <1>3 DEF StartLibraries
    <3>2. QED
      BY <1>b, <3>1
  <2>3. /\ UNCHANGED <<args, options, libraries, todo, single, total, exit, ran>>
        /\ pc' = "library" /\ next' = 1
    BY <1>3 DEF StartLibraries
  <2>4. QED
    BY <1>0, <1>a, <1>b, <2>1, <2>2, <2>3
<1>4. CASE MissingLibrary
  <2>1. Len(libraries) + 1 \in 1..(Len(libraries) + 1)
    BY <1>0
  <2>2. QED
    BY <1>4, <1>a, <1>b, <2>1 DEF MissingLibrary, AtLibrary
<1>5. CASE UnusableLibrary
  <2>1. NextLibrary(TRUE) /\ next <= Len(libraries)
    BY <1>5 DEF UnusableLibrary, AtLibrary
  <2>2. QED
    BY <1>5, <1>a, <1>b, <1>d, <2>1 DEF UnusableLibrary
<1>6. CASE DontRun
  <2>1. NextLibrary(FALSE) /\ next <= Len(libraries)
    BY <1>6 DEF DontRun, AtLibrary
  <2>2. QED
    BY <1>6, <1>a, <1>b, <1>d, <2>1 DEF DontRun
<1>7. CASE NothingToRun
  <2>1. NextLibrary(TRUE) /\ next <= Len(libraries)
    BY <1>7 DEF NothingToRun, AtRun, AtLibrary
  <2>2. QED
    BY <1>7, <1>a, <1>b, <1>d, <2>1 DEF NothingToRun
<1>8. CASE StartRun
  <2> DEFINE selected == Selection(Library)
             one == Library.pattern # None /\ Len(selected) = 1
  <2>1. /\ Library.file \in Files /\ pc' = "running" /\ (single' = one)
        /\ todo' = IF one THEN Named(Walk(selected), Library.pattern.literal) ELSE Walk(selected)
        /\ Show("running", Common)
        /\ UNCHANGED <<args, options, next, libraries, total, anyFail, exit, ran>>
    BY <1>8 DEF StartRun, AtRun
  <2>2. todo' \in Seq(Items)
    <3>1. CASE one
      BY <2>1, <3>1, NamedOfSelection
    <3>2. CASE ~one
      BY <2>1, <3>2, WalkOfSelection
    <3>3. QED
      BY <3>1, <3>2
  <2>3. shown' \in Seq([text : {"header", "running", "completed"},
                        total : [failures : Nat, exceptions : Nat]])
    BY <1>c, <2>1
  <2>4. single' \in BOOLEAN
    BY <2>1
  <2>5. TypeOK'
    <3>1. /\ UNCHANGED <<args, options, next, libraries, total, anyFail, exit, ran>>
          /\ pc' = "running" /\ pc = "library"
      BY <1>8, <2>1 DEF StartRun, AtRun, AtLibrary
    <3>2. next \in 1..(Len(libraries) + 1)
      BY <1>0, <3>1
    <3>3. QED
      BY <2>2, <2>3, <2>4, <3>1, <3>2 DEF TypeOK
  <2>6. Loops'
    BY <2>1 DEF Loops
  <2>7. QED
    BY <1>s, <2>5, <2>6
<1>9. CASE FinishRun
  <2>1. /\ NextLibrary(Failed) /\ Show("completed", Common /\ next < Len(libraries))
        /\ UNCHANGED <<args, options, libraries, todo, single, total, exit, ran>>
        /\ pc = "running"
    BY <1>9 DEF FinishRun
  <2>2. next <= Len(libraries)
    BY <1>0, <2>1 DEF StatusInv, Behind
  <2>3. Failed \in BOOLEAN
    BY DEF Failed
  <2>4. /\ pc' = "library" /\ next' \in 1..(Len(libraries) + 1) /\ anyFail' \in BOOLEAN
    BY <1>d, <2>1, <2>2, <2>3
  <2>5. shown' \in Seq([text : {"header", "running", "completed"},
                        total : [failures : Nat, exceptions : Nat]])
    BY <1>c, <2>1
  <2>6. QED
    BY <1>a, <1>b, <2>1, <2>4, <2>5
<1>10. CASE Exit
  BY <1>0, <1>10, <1>a, <1>b DEF Exit
<1>11. ASSUME NEW how \in Outcomes, RunTest(how) PROVE TypeInv'
  <2>0. how \in {"pass", "fail", "dies", "exits", "throws"}
    BY ToolAssumption
  <2>1. /\ pc = "running" /\ todo # <<>> /\ todo' = Tail(todo)
        /\ ran' = Append(ran, [library |-> next, test |-> Head(todo), how |-> how])
        /\ UNCHANGED <<args, options, next, libraries, single, anyFail, shown>>
    BY <1>11 DEF RunTest
  <2>2. /\ pc' \in {"running", "exited"} /\ exit' \in {"running", "success", "failure", "died"}
        /\ total' \in [failures : Nat, exceptions : Nat]
    <3>1. CASE single /\ how \in {"dies", "exits"}
      BY <1>11, <1>b, <3>1 DEF RunTest
    <3>2. CASE ~(single /\ how \in {"dies", "exits"})
      <4>1. UNCHANGED <<pc, exit>> /\ total' = CASE how = "pass" -> total
                                     [] how = "fail" -> [total EXCEPT !.failures = @ + 1]
                                     [] OTHER        -> [total EXCEPT !.exceptions = @ + 1]
        BY <1>11, <3>2 DEF RunTest
      <4>2. total' \in [failures : Nat, exceptions : Nat]
        <5>1. /\ [total EXCEPT !.failures = @ + 1] \in [failures : Nat, exceptions : Nat]
              /\ [total EXCEPT !.exceptions = @ + 1] \in [failures : Nat, exceptions : Nat]
          BY <1>b
        <5>2. \/ total' = [total EXCEPT !.failures = @ + 1]
              \/ total' = [total EXCEPT !.exceptions = @ + 1]
              \/ total' = total
          BY <2>0, <4>1
        <5>3. QED
          BY <1>b, <5>1, <5>2, Zenon
      <4>3. QED
        BY <1>b, <2>1, <4>1, <4>2
    <3>3. QED
      BY <3>1, <3>2
  <2>3. todo' \in Seq(Items) /\ Head(todo) \in Items
    <3>1. todo \in Seq(Items)
      BY DEF TypeOK
    <3>2. QED
      BY <2>1, <3>1, TailItem
  <2>4. ran' \in Seq([library : Nat, test : Items, how : Outcomes])
    <3>1. ran \in Seq([library : Nat, test : Items, how : Outcomes])
      BY DEF TypeOK
    <3>2. [library |-> next, test |-> Head(todo), how |-> how]
            \in [library : Nat, test : Items, how : Outcomes]
      BY <1>0, <2>3
    <3>3. QED
      BY <2>1, <3>1, <3>2, AppendItem
  <2>5. TypeOK'
    <3>1. next \in 1..(Len(libraries) + 1) /\ pc' # "arguments"
      BY <1>0, <2>1, <2>2
    <3>2. QED
      BY <2>1, <2>2, <2>3, <2>4, <3>1 DEF TypeOK
  <2>6. Loops'
    BY <2>1, <2>2 DEF Loops
  <2>7. QED
    BY <1>s, <2>5, <2>6
<1>12. CASE UNCHANGED vars
  <2>1. TypeOK' /\ Loops'
    BY <1>12 DEF vars, TypeOK, Loops
  <2>2. QED
    BY <1>s, <2>1
<1>13. QED
  BY <1>1, <1>2, <1>3, <1>4, <1>5, <1>6, <1>7, <1>8, <1>9, <1>10, <1>11, <1>12 DEF Next

LEMMA TypeInit == Init => TypeInv
<1> SUFFICES ASSUME Init PROVE TypeInv
  OBVIOUS
<1>1. args \in Seq(Files \cup DOMAIN Patterns) /\ Len(args) \in Nat
  BY ToolAssumption DEF Init
<1>2. /\ libraries = <<>> /\ todo = <<>> /\ ran = <<>> /\ shown = <<>> /\ next = 1
      /\ pc = "arguments" /\ exit = "running" /\ single = FALSE /\ anyFail = FALSE
      /\ total = [failures |-> 0, exceptions |-> 0] /\ args \in CommandLines
      /\ options \in [suite : BOOLEAN, xml : BOOLEAN, norun : BOOLEAN]
  BY DEF Init
<1>3. \A S : <<>> \in Seq(S)
  BY EmptySeq
<1>4. TypeOK
  <2>1. 1 \in 1..(Len(args) + 2) /\ total \in [failures : Nat, exceptions : Nat]
    BY <1>1, <1>2
  <2>2. DOMAIN libraries = {}
    BY <1>2
  <2>3. /\ todo \in Seq(Items)
        /\ ran \in Seq([library : Nat, test : Items, how : Outcomes])
        /\ shown \in Seq([text : {"header", "running", "completed"},
                          total : [failures : Nat, exceptions : Nat]])
    BY <1>2, <1>3, Zenon
  <2>4. QED
    BY <1>2, <2>1, <2>2, <2>3 DEF TypeOK
<1>5. Loops
  BY <1>1, <1>2 DEF Loops
<1>6. QED
  BY <1>4, <1>5, StatusInit DEF TypeInv

(* Type correctness of the tool. In the first loop the index goes at most  *)
(* one past argv[argc] (a last library without a pattern makes it skip     *)
(* that NULL, cgreen-runner.c:312), in the second at most one past the     *)
(* libraries, and only tests that were discovered are run.                 *)
THEOREM ToolTypes == Spec => []TypeOK
<1>1. TypeInv => TypeOK
  BY DEF TypeInv
<1>2. QED
  BY <1>1, TypeInit, TypeStep, PTL DEF Spec
-----------------------------------------------------------------------------
\* the tests run are of the libraries behind the index, or of the one that is running
Past ==
  /\ pc = "library" => \A j \in DOMAIN ran : ran[j].library < next
  /\ pc = "running" => \A j \in DOMAIN ran : ran[j].library <= next

PastInv == TypeInv /\ Past

LEMMA PastFacts ==
  ASSUME PastInv
  PROVE  /\ Len(libraries) \in Nat /\ DOMAIN libraries = 1..Len(libraries)
         /\ Len(ran) \in Nat /\ DOMAIN ran = 1..Len(ran) /\ IsSequence(ran)
         /\ \A j \in DOMAIN ran : ran[j].library \in Nat /\ ran[j].test \in Items
         /\ next \in Nat \ {0} /\ todo \in Seq(Items)
         /\ pc = "running" => next \in DOMAIN libraries
         /\ pc = "arguments" => ran = <<>>
<1>1. /\ Len(libraries) \in Nat /\ DOMAIN libraries = 1..Len(libraries)
      /\ Len(ran) \in Nat /\ DOMAIN ran = 1..Len(ran) /\ IsSequence(ran)
      /\ next \in Nat \ {0}
  BY SequenceDomain DEF PastInv, TypeInv, StatusInv, Shape
<1>2. /\ pc = "running" => next \in DOMAIN libraries
      /\ pc = "arguments" => ran = <<>>
  BY DEF PastInv, TypeInv, StatusInv, Behind, Told
<1>3. todo \in Seq(Items) /\ ran \in Seq([library : Nat, test : Items, how : Outcomes])
  BY DEF PastInv, TypeInv, TypeOK
<1>4. \A j \in DOMAIN ran : ran[j] \in [library : Nat, test : Items, how : Outcomes]
  <2> DEFINE R == [library : Nat, test : Items, how : Outcomes]
  <2> SUFFICES \A j \in DOMAIN ran : ran[j] \in R
    OBVIOUS
  <2>1. ran \in Seq(R)
    BY <1>3
  <2> HIDE DEF R
  <2>2. QED
    BY <2>1
<1>5. QED
  BY <1>1, <1>2, <1>3, <1>4

\* the steps, as the tests that are run see them
NoTestIsRun == UNCHANGED <<libraries, options, ran>>

StartsRun ==
  /\ NoTestIsRun /\ UNCHANGED next
  /\ pc = "library" /\ pc' = "running" /\ next \in DOMAIN libraries
  /\ Library.file \in Files /\ Usable(Library.file) /\ ~options.norun
  /\ Wanted(Library) \cap Unresolved = {}
  /\ todo' \in Seq(Items) /\ IsInjective(todo') /\ Together(todo')
  /\ \/ Range(todo') = Wanted(Library)
     \/ /\ \E t : Wanted(Library) = {t}
        /\ Library.pattern # None
        /\ Range(todo') = {t \in Wanted(Library) : t.name = Library.pattern.literal}

LEMMA StartRunIs == ASSUME PastInv, StartRun PROVE StartsRun
<1> DEFINE selected == Selection(Library)
           one == Library.pattern # None /\ Len(selected) = 1
<1>1. /\ Library.file \in Files /\ Usable(Library.file) /\ ~options.norun
      /\ pc = "library" /\ pc' = "running" /\ next <= Len(libraries)
      /\ Range(selected) \cap Unresolved = {}
      /\ todo' = IF one THEN Named(Walk(selected), Library.pattern.literal) ELSE Walk(selected)
      /\ UNCHANGED <<options, next, libraries, ran>>
  BY DEF StartRun, AtRun, AtLibrary
<1>2. Range(selected) = Wanted(Library)
  BY <1>1, SelectionIs
<1>3. next \in DOMAIN libraries
  BY <1>1, PastFacts
<1>4. /\ todo' \in Seq(Items) /\ IsInjective(todo') /\ Together(todo')
      /\ \/ Range(todo') = Wanted(Library)
         \/ /\ \E t : Wanted(Library) = {t}
            /\ Library.pattern # None
            /\ Range(todo') = {t \in Wanted(Library) : t.name = Library.pattern.literal}
  <2>1. CASE one
    BY <1>1, <2>1, NamedOfSelection
  <2>2. CASE ~one
    BY <1>1, <2>2, WalkOfSelection
  <2>3. QED
    BY <2>1, <2>2
<1>5. QED
  BY <1>1, <1>2, <1>3, <1>4, Zenon DEF StartsRun, NoTestIsRun

RunsOne(e) ==
  /\ UNCHANGED <<libraries, options, next>> /\ pc = "running" /\ pc' \in {"running", "exited"}
  /\ todo # <<>> /\ todo' = Tail(todo)
  /\ ran' = Append(ran, e) /\ e.library = next /\ e.test = Head(todo)

LEMMA RunTestIs == ASSUME NEW how \in Outcomes, RunTest(how), PastInv
                   PROVE  \E e : RunsOne(e)
<1> DEFINE e == [library |-> next, test |-> Head(todo), how |-> how]
<1>1. /\ UNCHANGED <<libraries, options, next>> /\ pc = "running"
      /\ todo # <<>> /\ todo' = Tail(todo) /\ ran' = Append(ran, e)
      /\ pc' = "exited" \/ UNCHANGED pc
  BY DEF RunTest
<1>2. e.library = next /\ e.test = Head(todo)
  OBVIOUS
<1> HIDE DEF e
<1>3. RunsOne(e)
  BY <1>1, <1>2 DEF RunsOne
<1>4. QED
  BY <1>3

\* a test more: the ones before keep their places
LEMMA RanGrows ==
  ASSUME PastInv, NEW e, RunsOne(e)
  PROVE  /\ Len(ran) \in Nat /\ DOMAIN ran = 1..Len(ran)
         /\ DOMAIN ran' = 1..(Len(ran) + 1)
         /\ \A j \in 1..Len(ran) : ran'[j] = ran[j]
         /\ ran'[Len(ran) + 1] = e /\ Len(ran') = Len(ran) + 1
<1>1. /\ Len(ran) \in Nat /\ DOMAIN ran = 1..Len(ran) /\ IsSequence(ran)
      /\ ran' = Append(ran, e)
  BY PastFacts DEF RunsOne
<1>2. /\ DOMAIN ran' = 1..(Len(ran) + 1) /\ IsSequence(ran')
      /\ \A j \in 1..Len(ran) : ran'[j] = ran[j]
      /\ ran'[Len(ran) + 1] = e
  BY <1>1, AppendAny
<1>3. Len(ran') \in Nat /\ 1..Len(ran') = 1..(Len(ran) + 1)
  BY <1>2, SequenceDomain
<1>4. QED
  BY <1>1, <1>2, <1>3

LEMMA PastStep == ASSUME PastInv, [Next]_vars PROVE PastInv'
<1>0. /\ TypeInv' /\ next \in Nat \ {0} /\ Len(libraries) \in Nat
      /\ \A j \in DOMAIN ran : ran[j].library \in Nat
  BY PastFacts, TypeStep DEF PastInv
<1>a. ASSUME UNCHANGED ran, pc = "library", next' = next + 1 \/ UNCHANGED next
      PROVE  Past'
  <2>1. \A j \in DOMAIN ran : ran[j].library < next' /\ ran[j].library <= next'
    BY <1>0, <1>a DEF PastInv, Past
  <2>2. QED
    BY <1>a, <2>1 DEF Past
<1>1. CASE Usage \/ ReadLibrary
  BY <1>0, <1>1 DEF Usage, ReadLibrary, Past, PastInv
<1>2. CASE StartLibraries
  <2>1. ran' = <<>> /\ pc' = "library"
    BY <1>2, PastFacts DEF StartLibraries
  <2>2. QED
    BY <1>0, <2>1 DEF PastInv, Past
<1>3. CASE MissingLibrary
  <2>1. /\ UNCHANGED <<ran, pc>> /\ pc = "library"
        /\ next <= Len(libraries) /\ next' = Len(libraries) + 1
    BY <1>3 DEF MissingLibrary, AtLibrary
  <2>2. \A j \in DOMAIN ran : ran[j].library < next'
    BY <1>0, <2>1 DEF PastInv, Past
  <2>3. QED
    BY <1>0, <2>1, <2>2 DEF PastInv, Past
<1>4. CASE UnusableLibrary \/ DontRun \/ NothingToRun
  <2>1. UNCHANGED ran /\ pc = "library" /\ next' = next + 1
    BY <1>4 DEF UnusableLibrary, DontRun, NothingToRun, NextLibrary, AtRun, AtLibrary
  <2>2. QED
    BY <1>0, <1>a, <2>1 DEF PastInv
<1>5. CASE StartRun
  BY <1>0, <1>5, <1>a, StartRunIs DEF PastInv, StartsRun, NoTestIsRun
<1>6. ASSUME NEW how \in Outcomes, RunTest(how) PROVE PastInv'
  <2>1. PICK e : RunsOne(e)
    BY <1>6, RunTestIs
  <2>2. /\ DOMAIN ran = 1..Len(ran) /\ Len(ran) \in Nat /\ DOMAIN ran' = 1..(Len(ran) + 1)
        /\ \A j \in 1..Len(ran) : ran'[j] = ran[j]
        /\ ran'[Len(ran) + 1] = e
    BY <2>1, RanGrows
  <2>3. pc = "running" /\ next' = next /\ e.library = next /\ pc' # "library"
    BY <2>1 DEF RunsOne
  <2>4. \A j \in DOMAIN ran' : ran'[j].library <= next'
    <3>1. \A j \in DOMAIN ran : ran[j].library <= next
      BY <2>3 DEF PastInv, Past
    <3>2. ASSUME NEW j \in DOMAIN ran' PROVE ran'[j].library <= next'
      <4>1. CASE j = Len(ran) + 1
        BY <1>0, <2>2, <2>3, <4>1
      <4>2. CASE j # Len(ran) + 1
        BY <2>2, <2>3, <3>1, <4>2
      <4>3. QED
        BY <4>1, <4>2
    <3>3. QED
      BY <3>2
  <2>5. QED
    BY <1>0, <2>3, <2>4 DEF PastInv, Past
<1>7. CASE FinishRun
  <2>1. UNCHANGED ran /\ pc = "running" /\ pc' = "library" /\ next' = next + 1
    BY <1>7 DEF FinishRun, NextLibrary
  <2>2. \A j \in DOMAIN ran : ran[j].library < next'
    BY <1>0, <2>1 DEF PastInv, Past
  <2>3. QED
    BY <1>0, <2>1, <2>2 DEF PastInv, Past
<1>8. CASE Exit
  BY <1>0, <1>8 DEF Exit, PastInv, Past
<1>9. CASE UNCHANGED vars
  BY <1>0, <1>9 DEF vars, PastInv, Past
<1>10. QED
  BY <1>0, <1>1, <1>2, <1>3, <1>4, <1>5, <1>6, <1>7, <1>8, <1>9 DEF Next, PastInv

LEMMA PastInit == Init => PastInv
  BY TypeInit DEF Init, PastInv, Past
-----------------------------------------------------------------------------
\* a test still to be run comes after those that were run, next to those of its context
Follows ==
  \A i \in RanOf(next), k \in DOMAIN todo :
    ran[i].test.context = todo[k].context =>
      /\ ran[i].test.name < todo[k].name
      /\ \A j \in i..Len(ran) : ran[j].test.context = todo[k].context
      /\ \A j \in 1..k : todo[j].context = todo[k].context

SuiteInv ==
  /\ PastInv
  /\ RunsBySuite
  /\ pc = "running" => Together(todo) /\ Follows

LEMMA SuiteRunTest ==
  ASSUME SuiteInv, NEW e, RunsOne(e)
  PROVE  RunsBySuite' /\ Together(todo') /\ Follows'
<1> DEFINE N == Len(ran)
<1>0. /\ N \in Nat /\ DOMAIN ran = 1..N /\ DOMAIN ran' = 1..(N + 1) /\ Len(ran') = N + 1
      /\ \A j \in 1..N : ran'[j] = ran[j]
      /\ ran'[N + 1] = e /\ e.library = next /\ e.test = todo[1]
      /\ pc = "running" /\ next' = next
      /\ Len(todo) \in Nat \ {0} /\ DOMAIN todo = 1..Len(todo)
      /\ DOMAIN todo' = 1..(Len(todo) - 1)
      /\ \A k \in 1..(Len(todo) - 1) : todo'[k] = todo[k+1]
  <2>1. /\ todo # <<>> /\ todo' = Tail(todo) /\ e.library = next /\ e.test = Head(todo)
        /\ pc = "running" /\ next' = next
    BY DEF RunsOne
  <2>2. todo \in Seq(Items) /\ PastInv
    BY PastFacts DEF SuiteInv
  <2>3. /\ Len(todo) \in Nat \ {0} /\ DOMAIN todo = 1..Len(todo)
        /\ Head(todo) = todo[1] /\ DOMAIN Tail(todo) = 1..(Len(todo) - 1)
        /\ \A k \in 1..(Len(todo) - 1) : Tail(todo)[k] = todo[k+1]
    BY <2>1, <2>2, TailItem
  <2>4. QED
    BY <2>1, <2>2, <2>3, RanGrows
<1>1. /\ RunsBySuite /\ Together(todo) /\ Follows
  BY <1>0 DEF SuiteInv
<1> HIDE DEF N
<1>2. RunsBySuite'
  <2> SUFFICES ASSUME NEW i \in DOMAIN ran', NEW k \in DOMAIN ran',
                      i < k, ran'[i].library = ran'[k].library,
                      ran'[i].test.context = ran'[k].test.context
               PROVE  /\ ran'[i].test.name < ran'[k].test.name
                      /\ \A j \in i..k : ran'[j].test.context = ran'[i].test.context
    BY DEF RunsBySuite
  <2>1. i \in 1..N /\ ran'[i] = ran[i] /\ i \in DOMAIN ran
    BY <1>0
  <2>2. CASE k = N + 1
    <3>1. i \in RanOf(next) /\ ran[i].test.context = todo[1].context /\ 1 \in DOMAIN todo
      BY <1>0, <2>1, <2>2 DEF RanOf
    <3>2. /\ ran[i].test.name < todo[1].name
          /\ \A j \in i..N : ran[j].test.context = todo[1].context
      BY <1>1, <3>1 DEF Follows, N
    <3>3. \A j \in i..k : j = N + 1 \/ (j \in i..N /\ ran'[j] = ran[j])
      BY <1>0, <2>1, <2>2
    <3>4. QED
      BY <1>0, <2>1, <2>2, <3>1, <3>2, <3>3
  <2>3. CASE k # N + 1
    <3>1. k \in 1..N /\ ran'[k] = ran[k] /\ k \in DOMAIN ran
      BY <1>0, <2>3
    <3>2. /\ ran[i].test.name < ran[k].test.name
          /\ \A j \in i..k : ran[j].test.context = ran[i].test.context
      BY <1>1, <2>1, <3>1 DEF RunsBySuite
    <3>3. \A j \in i..k : ran'[j] = ran[j]
      BY <1>0, <2>1, <3>1
    <3>4. QED
      BY <2>1, <3>1, <3>2, <3>3
  <2>4. QED
    BY <2>2, <2>3
<1>3. Together(todo')
  <2> SUFFICES ASSUME NEW i \in DOMAIN todo', NEW k \in DOMAIN todo',
                      i < k, todo'[i].context = todo'[k].context
               PROVE  /\ todo'[i].name < todo'[k].name
                      /\ \A j \in i..k : todo'[j].context = todo'[i].context
    BY DEF Together
  <2>1. /\ i + 1 \in DOMAIN todo /\ k + 1 \in DOMAIN todo /\ i + 1 < k + 1
        /\ todo'[i] = todo[i + 1] /\ todo'[k] = todo[k + 1]
    BY <1>0
  <2>2. /\ todo[i + 1].name < todo[k + 1].name
        /\ \A j \in (i + 1)..(k + 1) : todo[j].context = todo[i + 1].context
    BY <1>1, <2>1 DEF Together
  <2>3. \A j \in i..k : j + 1 \in (i + 1)..(k + 1) /\ todo'[j] = todo[j + 1]
    BY <1>0
  <2>4. QED
    BY <2>1, <2>2, <2>3
<1>4. Follows'
  <2> SUFFICES ASSUME NEW i \in (RanOf(next))', NEW k \in DOMAIN todo',
                      ran'[i].test.context = todo'[k].context
               PROVE  /\ ran'[i].test.name < todo'[k].name
                      /\ \A j \in i..Len(ran') : ran'[j].test.context = todo'[k].context
                      /\ \A j \in 1..k : todo'[j].context = todo'[k].context
    BY DEF Follows
  <2>1. /\ k + 1 \in DOMAIN todo /\ todo'[k] = todo[k + 1] /\ 1 \in DOMAIN todo /\ 1 < k + 1
        /\ \A j \in 1..k : j + 1 \in 1..(k + 1) /\ todo'[j] = todo[j + 1]
        /\ 1 \in 1..(k + 1)
    BY <1>0
  <2>2. i \in DOMAIN ran' /\ ran'[i].library = next
    BY <1>0 DEF RanOf
  <2>3. CASE i = N + 1
    <3>1. ran'[i].test = todo[1] /\ todo[1].context = todo[k + 1].context
      BY <1>0, <2>1, <2>3
    <3>2. /\ todo[1].name < todo[k + 1].name
          /\ \A j \in 1..(k + 1) : todo[j].context = todo[1].context
      BY <1>1, <2>1, <3>1 DEF Together
    <3>3. \A j \in i..Len(ran') : j = i
      BY <1>0, <2>3
    <3>4. QED
      BY <2>1, <3>1, <3>2, <3>3
  <2>4. CASE i # N + 1
    <3>1. i \in 1..N /\ ran'[i] = ran[i] /\ i \in RanOf(next)
      BY <1>0, <2>2, <2>4 DEF RanOf
    <3>2. /\ ran[i].test.name < todo[k + 1].name
          /\ \A j \in i..N : ran[j].test.context = todo[k + 1].context
          /\ \A j \in 1..(k + 1) : todo[j].context = todo[k + 1].context
      BY <1>1, <2>1, <3>1 DEF Follows, N
    <3>3. \A j \in i..Len(ran') : j = N + 1 \/ (j \in i..N /\ ran'[j] = ran[j])
      BY <1>0, <3>1
    <3>4. ran'[N + 1].test.context = todo[k + 1].context
      BY <1>0, <2>1, <3>2
    <3>5. QED
      BY <2>1, <3>1, <3>2, <3>3, <3>4
  <2>5. QED
    BY <2>3, <2>4
<1>5. QED
  BY <1>2, <1>3, <1>4

LEMMA SuiteStep == ASSUME SuiteInv, [Next]_vars PROVE SuiteInv'
<1>0. PastInv /\ PastInv' /\ RunsBySuite
  BY PastStep DEF SuiteInv
<1>a. ASSUME UNCHANGED ran PROVE RunsBySuite'
  BY <1>0, <1>a DEF RunsBySuite
<1>1. CASE \/ Usage \/ ReadLibrary \/ StartLibraries \/ MissingLibrary \/ UnusableLibrary
           \/ DontRun \/ NothingToRun \/ FinishRun \/ Exit
  <2>1. UNCHANGED ran /\ pc' # "running"
    BY <1>1 DEF Usage, ReadLibrary, StartLibraries, MissingLibrary, UnusableLibrary, DontRun,
                NothingToRun, FinishRun, Exit, NextLibrary, AtRun, AtLibrary
  <2>2. QED
    BY <1>0, <1>a, <2>1 DEF SuiteInv
<1>2. CASE StartRun
  <2>1. StartsRun
    BY <1>0, <1>2, StartRunIs
  <2>2. UNCHANGED <<ran, next>> /\ pc = "library" /\ Together(todo')
    BY <2>1 DEF StartsRun, NoTestIsRun
  <2>3. (RanOf(next))' = {}
    <3>1. /\ \A j \in DOMAIN ran : ran[j].library \in Nat /\ ran[j].library < next
          /\ next \in Nat
      BY <1>0, <2>2, PastFacts DEF PastInv, Past
    <3>2. \A j \in DOMAIN ran : ran[j].library # next
      BY <3>1
    <3>3. QED
      BY <2>2, <3>2 DEF RanOf
  <2>4. Follows'
    BY <2>3 DEF Follows
  <2>5. QED
    BY <1>0, <1>a, <2>2, <2>4 DEF SuiteInv
<1>3. ASSUME NEW how \in Outcomes, RunTest(how) PROVE SuiteInv'
  <2>1. PICK e : RunsOne(e)
    BY <1>0, <1>3, RunTestIs
  <2>2. QED
    BY <1>0, <2>1, SuiteRunTest DEF SuiteInv
<1>4. CASE UNCHANGED vars
  <2>1. UNCHANGED <<ran, next, todo, pc>>
    BY <1>4 DEF vars
  <2>2. Follows => Follows'
    BY <2>1 DEF Follows, RanOf
  <2>3. Together(todo) => Together(todo')
    BY <2>1
  <2>4. QED
    BY <1>0, <1>a, <2>1, <2>2, <2>3 DEF SuiteInv
<1>5. QED
  BY <1>1, <1>2, <1>3, <1>4 DEF Next

(* The tests of a context of a library are run one after the other, sorted *)
(* by name: each context is one suite (runner.c:126, 239).                 *)
THEOREM SuitesStayTogether == Spec => []RunsBySuite
<1>1. Init => SuiteInv
  BY PastInit DEF Init, SuiteInv, RunsBySuite
<1>2. SuiteInv => RunsBySuite
  BY DEF SuiteInv
<1>3. QED
  BY <1>1, <1>2, SuiteStep, PTL DEF Spec
-----------------------------------------------------------------------------
TestsRan(l) == {ran[j].test : j \in RanOf(l)}
RanOnce(l)  == \A i, k \in RanOf(l) : ran[i].test = ran[k].test => i = k
Reached(l)  == \A j \in 1..l : libraries[j].file \in Files
Runnable(l) == /\ Usable(libraries[l].file) /\ ~options.norun
               /\ Wanted(libraries[l]) \cap Unresolved = {}
Complete(l) == TestsRan(l) = Wanted(libraries[l]) /\ RanOnce(l)

\* of the library that is running, each test selected was run or is still to be run
HalfWay ==
  /\ Reached(next) /\ Runnable(next)
  /\ IsInjective(todo) /\ RanOnce(next)
  /\ TestsRan(next) \cup Range(todo) = Wanted(Library)
  /\ TestsRan(next) \cap Range(todo) = {}

Looping == pc \in {"library", "running"}
OnlyThose == \A j \in DOMAIN ran : Reached(ran[j].library) /\ Runnable(ran[j].library)
Before == Looping /\ next <= Len(libraries) => \A j \in 1..(next - 1) : libraries[j].file \in Files
Done == Looping \/ exit \in {"success", "failure"} =>
          \A l \in DOMAIN libraries : l < next /\ Reached(l) /\ Runnable(l) => Complete(l)

SelectInv == PastInv /\ OnlyThose /\ Before /\ Done /\ (pc = "running" => HalfWay)

LEMMA SameRan ==
  ASSUME NoTestIsRun, NEW l
  PROVE  /\ Reached(l)' <=> Reached(l)
         /\ Runnable(l)' <=> Runnable(l)
         /\ Complete(l)' <=> Complete(l)
         /\ TestsRan(l)' = TestsRan(l)
         /\ RanOnce(l)' <=> RanOnce(l)
         /\ (RanOf(l))' = RanOf(l)
  BY DEF NoTestIsRun, Reached, Runnable, Complete, TestsRan, RanOnce, RanOf

\* the tests of a library, when one more is run
LEMMA OneMore ==
  ASSUME PastInv, NEW e, RunsOne(e), NEW l
  PROVE  /\ (RanOf(l))' = IF l = next THEN RanOf(l) \cup {Len(ran) + 1} ELSE RanOf(l)
         /\ TestsRan(l)' = IF l = next THEN TestsRan(l) \cup {e.test} ELSE TestsRan(l)
         /\ \A j \in RanOf(l) : j \in 1..Len(ran) /\ ran'[j] = ran[j]
         /\ ran'[Len(ran) + 1] = e
<1>1. /\ Len(ran) \in Nat /\ DOMAIN ran = 1..Len(ran) /\ DOMAIN ran' = 1..(Len(ran) + 1)
      /\ \A j \in 1..Len(ran) : ran'[j] = ran[j]
      /\ ran'[Len(ran) + 1] = e /\ e.library = next
  BY RanGrows DEF RunsOne
<1>2. (RanOf(l))' = IF l = next THEN RanOf(l) \cup {Len(ran) + 1} ELSE RanOf(l)
  BY <1>1 DEF RanOf
<1>3. \A j \in RanOf(l) : j \in 1..Len(ran) /\ ran'[j] = ran[j]
  BY <1>1 DEF RanOf
<1>4. TestsRan(l)' = {ran'[j].test : j \in (RanOf(l))'}
  BY DEF TestsRan
<1>5. TestsRan(l)' = IF l = next THEN TestsRan(l) \cup {e.test} ELSE TestsRan(l)
  <2>1. CASE l = next
    BY <1>1, <1>2, <1>3, <1>4, <2>1 DEF TestsRan
  <2>2. CASE l # next
    BY <1>2, <1>3, <1>4, <2>2 DEF TestsRan
  <2>3. QED
    BY <2>1, <2>2
<1>6. QED
  BY <1>1, <1>2, <1>3, <1>5

\* nothing of the library at the index was run before its turn
LEMMA NoneBefore == ASSUME PastInv, pc = "library" PROVE RanOf(next) = {} /\ TestsRan(next) = {}
<1>1. /\ next \in Nat /\ \A j \in DOMAIN ran : ran[j].library \in Nat /\ ran[j].library < next
  BY PastFacts DEF PastInv, Past
<1>2. \A j \in DOMAIN ran : ran[j].library # next
  BY <1>1
<1>3. QED
  BY <1>2 DEF RanOf, TestsRan

LEMMA SelectStartRun ==
  ASSUME LiteralsAreNames, SelectInv, StartsRun
  PROVE  HalfWay'
<1>1. /\ NoTestIsRun /\ UNCHANGED next /\ pc = "library" /\ next \in DOMAIN libraries
      /\ Library.file \in Files /\ PastInv
  BY DEF StartsRun, SelectInv
<1>2. next \in 1..Len(libraries) /\ Len(libraries) \in Nat
  BY <1>1, PastFacts
<1>3. Reached(next)
  <2>1. \A j \in 1..(next - 1) : libraries[j].file \in Files
    BY <1>1, <1>2 DEF SelectInv, Before, Looping
  <2>2. \A j \in 1..next : j \in 1..(next - 1) \/ j = next
    BY <1>2
  <2>3. QED
    BY <1>1, <2>1, <2>2 DEF Reached, Library
<1>4. Runnable(next)
  BY DEF StartsRun, Runnable, Library
<1>5. RanOf(next) = {} /\ TestsRan(next) = {}
  BY <1>1, NoneBefore
<1>6. RanOnce(next)
  BY <1>5 DEF RanOnce
<1>7. IsInjective(todo')
  BY DEF StartsRun
<1>8. Range(todo') = Wanted(Library)
  <2>1. CASE Range(todo') = Wanted(Library)
    BY <2>1
  <2>2. CASE /\ \E t : Wanted(Library) = {t}
             /\ Library.pattern # None
             /\ Range(todo') = {t \in Wanted(Library) : t.name = Library.pattern.literal}
    <3>1. PICK t : Wanted(Library) = {t}
      BY <2>2
    <3>2. Library.pattern \in Range(Patterns)
      BY <1>1, <2>2 DEF PastInv, TypeInv, TypeOK, Library
    <3>3. /\ t \in Range(Content[Library.file])
          /\ Wanted([file |-> Library.file, pattern |-> Library.pattern]) = {t}
      BY <3>1 DEF Wanted
    <3>4. t \in Items
      <4>1. Content[Library.file] \in Seq(Items)
        BY <1>1, ToolAssumption
      <4>2. Range(Content[Library.file]) \subseteq Items
        BY <4>1, RangeOf
      <4>3. QED
        BY <3>3, <4>2
    <3>5. Library.pattern.literal = t.name
      BY <1>1, <2>2, <3>2, <3>3, <3>4 DEF LiteralsAreNames, StartsRun
    <3>6. QED
      BY <2>2, <3>1, <3>5
  <2>3. QED
    BY <2>1, <2>2 DEF StartsRun
<1>9. /\ Reached(next)' /\ Runnable(next)' /\ RanOnce(next)' /\ TestsRan(next)' = {}
  <2>1. \A l : /\ Reached(l)' <=> Reached(l)
               /\ Runnable(l)' <=> Runnable(l)
               /\ TestsRan(l)' = TestsRan(l)
               /\ RanOnce(l)' <=> RanOnce(l)
    BY <1>1, SameRan
  <2>2. next' = next
    BY <1>1
  <2>3. /\ Reached(next)' <=> Reached(next)
        /\ Runnable(next)' <=> Runnable(next)
        /\ TestsRan(next)' = TestsRan(next)
        /\ RanOnce(next)' <=> RanOnce(next)
    BY <1>1, <2>2 DEF NoTestIsRun, Reached, Runnable, TestsRan, RanOnce, RanOf
  <2>4. QED
    BY <1>3, <1>4, <1>5, <1>6, <2>3
<1>10. Wanted(Library)' = Wanted(Library)
  BY <1>1 DEF NoTestIsRun, Wanted, Library
<1>11. QED
  BY <1>7, <1>8, <1>9, <1>10 DEF HalfWay

LEMMA SelectRunTest ==
  ASSUME SelectInv, NEW e, RunsOne(e)
  PROVE  OnlyThose' /\ Before' /\ Done' /\ (pc' = "running" => HalfWay')
<1>0. /\ PastInv /\ pc = "running" /\ HalfWay /\ OnlyThose /\ Before /\ Done
      /\ UNCHANGED <<libraries, options, next>> /\ pc' \in {"running", "exited"}
      /\ todo # <<>> /\ todo' = Tail(todo) /\ e.library = next /\ e.test = Head(todo)
      /\ todo \in Seq(Items) /\ next \in DOMAIN libraries
      /\ DOMAIN ran' = 1..(Len(ran) + 1) /\ DOMAIN ran = 1..Len(ran) /\ Len(ran) \in Nat
      /\ \A j \in 1..Len(ran) : ran'[j] = ran[j]
      /\ ran'[Len(ran) + 1] = e
  <2>1. /\ UNCHANGED <<libraries, options, next>> /\ pc' \in {"running", "exited"}
        /\ todo # <<>> /\ todo' = Tail(todo) /\ e.library = next /\ e.test = Head(todo)
        /\ pc = "running"
    BY DEF RunsOne
  <2>2. PastInv /\ HalfWay /\ OnlyThose /\ Before /\ Done
    BY <2>1 DEF SelectInv
  <2>3. todo \in Seq(Items) /\ next \in DOMAIN libraries
    BY <2>1, <2>2, PastFacts
  <2>4. QED
    BY <2>1, <2>2, <2>3, RanGrows
<1>1. \A l : Reached(l)' = Reached(l) /\ Runnable(l)' = Runnable(l)
  BY <1>0 DEF Reached, Runnable
<1>2. OnlyThose'
  <2>1. ASSUME NEW j \in DOMAIN ran' PROVE Reached(ran'[j].library) /\ Runnable(ran'[j].library)
    <3>1. CASE j = Len(ran) + 1
      BY <1>0, <3>1 DEF HalfWay
    <3>2. CASE j # Len(ran) + 1
      BY <1>0, <3>2 DEF OnlyThose
    <3>3. QED
      BY <3>1, <3>2
  <2>2. QED
    BY <1>0, <2>1 DEF OnlyThose, Reached, Runnable
<1>3. Before'
  BY <1>0 DEF Before, Looping
<1>4. Done'
  <2> SUFFICES ASSUME NEW l \in DOMAIN libraries, l < next, Reached(l), Runnable(l)
               PROVE  Complete(l)'
    BY <1>0, <1>1 DEF Done
  <2>1. Complete(l)
    BY <1>0 DEF Done, Looping
  <2>2. l # next
    BY <1>0, PastFacts
  <2>3. /\ (RanOf(l))' = RanOf(l) /\ TestsRan(l)' = TestsRan(l)
        /\ \A j \in RanOf(l) : j \in 1..Len(ran) /\ ran'[j] = ran[j]
    BY <1>0, <2>2, OneMore
  <2>4. RanOnce(l)'
    BY <2>1, <2>3 DEF Complete, RanOnce
  <2>5. Wanted(libraries[l])' = Wanted(libraries[l])
    BY <1>0 DEF Wanted
  <2>6. QED
    BY <2>1, <2>3, <2>4, <2>5 DEF Complete
<1>5. HalfWay'
  <2>1. /\ Len(todo) \in Nat \ {0} /\ DOMAIN todo = 1..Len(todo) /\ e.test = todo[1]
        /\ DOMAIN todo' = 1..(Len(todo) - 1)
        /\ \A k \in 1..(Len(todo) - 1) : todo'[k] = todo[k+1]
    <3>1. /\ Len(todo) \in Nat \ {0} /\ DOMAIN todo = 1..Len(todo)
          /\ Head(todo) = todo[1] /\ DOMAIN Tail(todo) = 1..(Len(todo) - 1)
          /\ \A k \in 1..(Len(todo) - 1) : Tail(todo)[k] = todo[k+1]
      BY <1>0, TailItem
    <3>2. QED
      BY <1>0, <3>1
  <2>2. IsInjective(todo')
    <3> SUFFICES ASSUME NEW i \in DOMAIN todo', NEW k \in DOMAIN todo', todo'[i] = todo'[k]
                 PROVE  i = k
      BY DEF IsInjective
    <3>1. i + 1 \in DOMAIN todo /\ k + 1 \in DOMAIN todo /\ todo[i + 1] = todo[k + 1]
      BY <2>1
    <3>2. i + 1 = k + 1
      BY <1>0, <3>1 DEF HalfWay, IsInjective
    <3>3. QED
      BY <2>1, <3>2
  <2>3. Range(todo) = Range(todo') \cup {e.test} /\ e.test \notin Range(todo')
    <3>1. ASSUME NEW k \in DOMAIN todo
          PROVE  todo[k] \in Range(todo') \cup {e.test}
      <4>1. CASE k = 1
        BY <2>1, <4>1
      <4>2. CASE k # 1
        <5>1. k - 1 \in DOMAIN todo' /\ todo'[k - 1] = todo[k]
          BY <2>1, <4>2
        <5>2. QED
          BY <5>1 DEF Range
      <4>3. QED
        BY <4>1, <4>2
    <3>2. ASSUME NEW k \in DOMAIN todo' PROVE todo'[k] \in Range(todo) /\ todo'[k] # e.test
      <4>1. k + 1 \in DOMAIN todo /\ todo'[k] = todo[k + 1] /\ 1 \in DOMAIN todo /\ k + 1 # 1
        BY <2>1
      <4>2. todo[k + 1] # todo[1]
        BY <1>0, <4>1 DEF HalfWay, IsInjective
      <4>3. QED
        BY <2>1, <4>1, <4>2 DEF Range
    <3>3. e.test \in Range(todo)
      BY <2>1 DEF Range
    <3>4. QED
      BY <3>1, <3>2, <3>3 DEF Range
  <2>4. /\ (RanOf(next))' = RanOf(next) \cup {Len(ran) + 1}
        /\ TestsRan(next)' = TestsRan(next) \cup {e.test}
        /\ \A j \in RanOf(next) : j \in 1..Len(ran) /\ ran'[j] = ran[j]
    <3>1. next' = next
      BY <1>0
    <3>2. /\ (RanOf(next))' = {j \in DOMAIN ran' : ran'[j].library = next}
          /\ TestsRan(next)' = {ran'[j].test : j \in (RanOf(next))'}
      BY <3>1 DEF RanOf, TestsRan
    <3>3. \A j \in RanOf(next) : j \in 1..Len(ran) /\ ran'[j] = ran[j]
      BY <1>0 DEF RanOf
    <3>4. (RanOf(next))' = RanOf(next) \cup {Len(ran) + 1}
      BY <1>0, <3>2 DEF RanOf
    <3>5. TestsRan(next)' = TestsRan(next) \cup {e.test}
      BY <1>0, <3>2, <3>3, <3>4 DEF TestsRan
    <3>6. QED
      BY <3>3, <3>4, <3>5
  <2>5. e.test \notin TestsRan(next)
    BY <1>0, <2>3 DEF HalfWay
  <2>6. RanOnce(next)'
    <3> SUFFICES ASSUME NEW i \in (RanOf(next))', NEW k \in (RanOf(next))',
                        ran'[i].test = ran'[k].test
                 PROVE  i = k
      BY DEF RanOnce
    <3>1. \A j \in RanOf(next) : ran'[j].test = ran[j].test /\ ran[j].test # e.test
      BY <2>4, <2>5 DEF TestsRan
    <3>2. ran'[Len(ran) + 1].test = e.test
      BY <1>0
    <3>3. \A a, b \in RanOf(next) : ran[a].test = ran[b].test => a = b
      BY <1>0 DEF HalfWay, RanOnce
    <3>4. QED
      BY <2>4, <3>1, <3>2, <3>3
  <2>7. TestsRan(next) \cup Range(todo) = Wanted(Library) /\ TestsRan(next) \cap Range(todo) = {}
    BY <1>0 DEF HalfWay
  <2>8. Wanted(Library)' = Wanted(Library) /\ Reached(next)' /\ Runnable(next)'
    BY <1>0 DEF Wanted, Library, HalfWay, Reached, Runnable
  <2>9. /\ TestsRan(next)' \cup Range(todo') = Wanted(Library)'
        /\ TestsRan(next)' \cap Range(todo') = {}
    BY <2>3, <2>4, <2>5, <2>7, <2>8
  <2>10. QED
    BY <2>2, <2>6, <2>8, <2>9 DEF HalfWay
<1>6. QED
  BY <1>2, <1>3, <1>4, <1>5

LEMMA SelectStep ==
  ASSUME LiteralsAreNames, SelectInv, [Next]_vars
  PROVE  SelectInv'
<1>0. /\ PastInv /\ PastInv' /\ OnlyThose /\ Before /\ Done
      /\ next \in Nat \ {0} /\ Len(libraries) \in Nat /\ DOMAIN libraries = 1..Len(libraries)
      /\ pc # "exited" => exit = "running"
      /\ pc' # "exited" => exit' = "running"
  <2>1. PastInv /\ PastInv' /\ OnlyThose /\ Before /\ Done
    BY PastStep DEF SelectInv
  <2>2. QED
    BY <2>1, PastFacts DEF PastInv, TypeInv, StatusInv, Shape
<1>a. ASSUME NoTestIsRun PROVE OnlyThose'
  <2>1. \A j \in DOMAIN ran : Reached(ran[j].library)' /\ Runnable(ran[j].library)'
    BY <1>0, <1>a DEF OnlyThose, NoTestIsRun, Reached, Runnable
  <2>2. QED
    BY <1>a, <2>1 DEF OnlyThose, NoTestIsRun, Reached, Runnable
\* the loop goes on to the next library
<1>b. ASSUME NoTestIsRun, Looping, pc' = "library", next \in DOMAIN libraries, next' = next + 1,
             libraries[next].file \in Files, Reached(next) /\ Runnable(next) => Complete(next)
      PROVE  SelectInv'
  <2>1. Before'
    <3> SUFFICES ASSUME next' <= Len(libraries'), NEW j \in 1..(next' - 1)
                 PROVE  libraries'[j].file \in Files
      BY DEF Before
    <3>1. libraries' = libraries /\ next <= Len(libraries) /\ (j = next \/ j \in 1..(next - 1))
      BY <1>0, <1>b DEF NoTestIsRun
    <3>2. QED
      BY <1>0, <1>b, <3>1 DEF Before
  <2>2. Done'
    <3> SUFFICES ASSUME NEW l \in DOMAIN libraries', l < next', Reached(l)', Runnable(l)'
                 PROVE  Complete(l)'
      BY DEF Done
    <3>1. l \in DOMAIN libraries /\ Reached(l) /\ Runnable(l) /\ (l < next \/ l = next)
      BY <1>0, <1>b, SameRan DEF NoTestIsRun
    <3>2. Complete(l)
      BY <1>0, <1>b, <3>1 DEF Done
    <3>3. QED
      BY <1>b, <3>2, SameRan
  <2>3. QED
    BY <1>0, <1>a, <1>b, <2>1, <2>2 DEF SelectInv
<1>1. CASE Usage
  <2>1. /\ NoTestIsRun /\ UNCHANGED next /\ pc' = "exited" /\ args = <<>>
    BY <1>1 DEF Usage, NoTestIsRun
  <2>2. next = 1
    <3>1. pc = "arguments"
      BY <1>1 DEF Usage
    <3>2. QED
      BY <1>0, <2>1, <3>1 DEF PastInv, TypeInv, Loops
  <2>3. Done'
    <3>1. \A l \in DOMAIN libraries' : ~(l < next')
      BY <1>0, <2>1, <2>2 DEF NoTestIsRun
    <3>2. QED
      BY <3>1 DEF Done
  <2>4. QED
    BY <1>0, <1>a, <2>1, <2>3 DEF SelectInv, Before, Looping
<1>2. CASE ReadLibrary
  <2>1. pc' = "arguments" /\ ran' = <<>>
    BY <1>0, <1>2, PastFacts DEF ReadLibrary
  <2>2. DOMAIN ran' = {}
    BY <2>1
  <2>3. QED
    BY <1>0, <2>1, <2>2 DEF SelectInv, OnlyThose, Before, Done, Looping
<1>3. CASE StartLibraries
  <2>1. NoTestIsRun /\ pc' = "library" /\ next' = 1
    BY <1>3 DEF StartLibraries, NoTestIsRun
  <2>2. /\ \A l \in DOMAIN libraries' : ~(l < next')
        /\ 1..(next' - 1) = {}
    BY <1>0, <2>1 DEF NoTestIsRun
  <2>3. Done' /\ Before'
    BY <2>2 DEF Done, Before
  <2>4. QED
    BY <1>0, <1>a, <2>1, <2>3 DEF SelectInv
<1>4. CASE MissingLibrary
  <2>1. /\ NoTestIsRun /\ pc = "library" /\ pc' = "library" /\ next <= Len(libraries)
        /\ next' = Len(libraries) + 1 /\ libraries[next].file \notin Files
    BY <1>4 DEF MissingLibrary, AtLibrary, Library, NoTestIsRun
  <2>2. Before'
    BY <1>0, <2>1 DEF Before, NoTestIsRun
  <2>3. Done'
    <3> SUFFICES ASSUME NEW l \in DOMAIN libraries', Reached(l)', Runnable(l)'
                 PROVE  Complete(l)'
      BY DEF Done
    <3>1. l \in DOMAIN libraries /\ Reached(l) /\ Runnable(l)
      BY <2>1, SameRan DEF NoTestIsRun
    <3>2. l < next
      BY <1>0, <2>1, <3>1 DEF Reached
    <3>3. Complete(l)
      BY <1>0, <2>1, <3>1, <3>2 DEF Done, Looping
    <3>4. QED
      BY <2>1, <3>3, SameRan
  <2>4. QED
    BY <1>0, <1>a, <2>1, <2>2, <2>3 DEF SelectInv
<1>5. CASE UnusableLibrary
  <2>1. /\ NoTestIsRun /\ pc = "library" /\ pc' = "library" /\ next <= Len(libraries)
        /\ next' = next + 1 /\ libraries[next].file \in Files /\ ~Usable(libraries[next].file)
    BY <1>5 DEF UnusableLibrary, AtLibrary, Library, NextLibrary, NoTestIsRun
  <2>2. QED
    BY <1>0, <1>b, <2>1 DEF Looping, Runnable
<1>6. CASE DontRun
  <2>1. /\ NoTestIsRun /\ pc = "library" /\ pc' = "library" /\ next <= Len(libraries)
        /\ next' = next + 1 /\ libraries[next].file \in Files /\ options.norun
    BY <1>6 DEF DontRun, AtLibrary, Library, NextLibrary, NoTestIsRun
  <2>2. QED
    BY <1>0, <1>b, <2>1 DEF Looping, Runnable
<1>7. CASE NothingToRun
  <2>1. /\ NoTestIsRun /\ pc = "library" /\ pc' = "library" /\ next <= Len(libraries)
        /\ next' = next + 1 /\ Library.file \in Files
        /\ Selection(Library) = <<>> \/ Range(Selection(Library)) \cap Unresolved # {}
    BY <1>7 DEF NothingToRun, AtRun, AtLibrary, NextLibrary, NoTestIsRun
  <2>2. Range(Selection(Library)) = Wanted(Library)
    BY <2>1, SelectionIs
  <2>3. CASE Selection(Library) = <<>>
    <3>1. Wanted(Library) = {}
      <4>1. Range(<<>>) = {}
        BY DEF Range
      <4>2. QED
        BY <2>2, <2>3, <4>1
    <3>2. RanOf(next) = {} /\ TestsRan(next) = {}
      BY <1>0, <2>1, NoneBefore
    <3>3. Complete(next)
      BY <3>1, <3>2 DEF Complete, RanOnce, Library
    <3>4. QED
      BY <1>0, <1>b, <2>1, <3>3 DEF Looping, Library
  <2>4. CASE Range(Selection(Library)) \cap Unresolved # {}
    <3>1. ~Runnable(next)
      BY <2>2, <2>4 DEF Runnable, Library
    <3>2. QED
      BY <1>0, <1>b, <2>1, <3>1 DEF Looping, Library
  <2>5. QED
    BY <2>1, <2>3, <2>4
<1>8. CASE StartRun
  <2>1. StartsRun
    BY <1>0, <1>8, StartRunIs
  <2>2. HalfWay'
    BY <2>1, SelectStartRun
  <2>3. NoTestIsRun /\ UNCHANGED next /\ pc = "library" /\ pc' = "running"
    BY <2>1 DEF StartsRun
  <2>4. Before'
    BY <1>0, <2>3 DEF Before, Looping, NoTestIsRun
  <2>5. Done'
    <3> SUFFICES ASSUME NEW l \in DOMAIN libraries', l < next', Reached(l)', Runnable(l)'
                 PROVE  Complete(l)'
      BY DEF Done
    <3>1. l \in DOMAIN libraries /\ Reached(l) /\ Runnable(l) /\ l < next
      BY <2>3, SameRan DEF NoTestIsRun
    <3>2. Complete(l)
      BY <1>0, <2>3, <3>1 DEF Done, Looping
    <3>3. QED
      BY <2>3, <3>2, SameRan
  <2>6. QED
    BY <1>0, <1>a, <2>2, <2>3, <2>4, <2>5 DEF SelectInv
<1>9. ASSUME NEW how \in Outcomes, RunTest(how) PROVE SelectInv'
  <2>1. PICK e : RunsOne(e)
    BY <1>0, <1>9, RunTestIs
  <2>2. QED
    BY <1>0, <2>1, SelectRunTest DEF SelectInv
<1>10. CASE FinishRun
  <2>1. /\ NoTestIsRun /\ pc = "running" /\ todo = <<>> /\ pc' = "library" /\ next' = next + 1
    BY <1>10 DEF FinishRun, NextLibrary, NoTestIsRun
  <2>2. HalfWay /\ next \in DOMAIN libraries
    BY <1>0, <2>1, PastFacts DEF SelectInv
  <2>3. Range(todo) = {}
    BY <2>1 DEF Range
  <2>4. Complete(next)
    BY <2>2, <2>3 DEF HalfWay, Complete, Library
  <2>5. libraries[next].file \in Files
    BY <1>0, <2>2 DEF HalfWay, Reached
  <2>6. QED
    BY <1>b, <2>1, <2>2, <2>4, <2>5 DEF Looping
<1>11. CASE Exit
  <2>1. /\ NoTestIsRun /\ UNCHANGED next /\ pc = "library" /\ pc' = "exited"
    BY <1>11 DEF Exit, NoTestIsRun
  <2>2. Done'
    <3> SUFFICES ASSUME NEW l \in DOMAIN libraries', l < next', Reached(l)', Runnable(l)'
                 PROVE  Complete(l)'
      BY DEF Done
    <3>1. l \in DOMAIN libraries /\ Reached(l) /\ Runnable(l) /\ l < next
      BY <2>1, SameRan DEF NoTestIsRun
    <3>2. Complete(l)
      BY <1>0, <2>1, <3>1 DEF Done, Looping
    <3>3. QED
      BY <2>1, <3>2, SameRan
  <2>3. QED
    BY <1>0, <1>a, <2>1, <2>2 DEF SelectInv, Before, Looping
<1>12. CASE UNCHANGED vars
  <2>1. NoTestIsRun /\ UNCHANGED <<next, pc, exit, todo>>
    BY <1>12 DEF vars, NoTestIsRun
  <2>2. Before' /\ (pc' = "running" => HalfWay')
    <3>1. HalfWay => HalfWay'
      BY <2>1 DEF HalfWay, NoTestIsRun, Reached, Runnable, RanOnce, TestsRan, RanOf, Wanted, Library
    <3>2. QED
      BY <2>1, <3>1 DEF SelectInv, Before, Looping, NoTestIsRun
  <2>3. Done'
    <3> SUFFICES ASSUME (Looping \/ exit \in {"success", "failure"})',
                        NEW l \in DOMAIN libraries', l < next', Reached(l)', Runnable(l)'
                 PROVE  Complete(l)'
      BY DEF Done
    <3>1. l \in DOMAIN libraries /\ Reached(l) /\ Runnable(l) /\ l < next
      BY <2>1, SameRan DEF NoTestIsRun
    <3>2. Complete(l)
      BY <1>0, <2>1, <3>1 DEF Done, Looping
    <3>3. QED
      BY <2>1, <3>2, SameRan
  <2>4. QED
    BY <1>0, <1>a, <2>1, <2>2, <2>3 DEF SelectInv
<1>13. QED
  BY <1>1, <1>2, <1>3, <1>4, <1>5, <1>6, <1>7, <1>8, <1>9, <1>10, <1>11, <1>12 DEF Next

\* each test once: as many runs as there are tests
LEMMA AsManyAsWanted ==
  ASSUME PastInv, NEW l, TestsRan(l) = Wanted(libraries[l]), RanOnce(l)
  PROVE  Cardinality(RanOf(l)) = Cardinality(Wanted(libraries[l]))
<1> DEFINE f == [j \in RanOf(l) |-> ran[j].test]
           W == Wanted(libraries[l])
<1>1. IsFiniteSet(RanOf(l))
  <2>1. RanOf(l) \in SUBSET (1..Len(ran)) /\ Len(ran) \in Int /\ 1 \in Int
    BY PastFacts DEF RanOf
  <2>2. QED
    BY <2>1, FS_Interval, FS_Subset
<1>2. /\ W = {ran[j].test : j \in RanOf(l)}
      /\ \A i, k \in RanOf(l) : ran[i].test = ran[k].test => i = k
  BY DEF TestsRan, RanOnce
<1> HIDE DEF W
<1>3. f \in Bijection(RanOf(l), W)
  <2>1. f \in [RanOf(l) -> W] /\ \A i, k \in RanOf(l) : f[i] = f[k] => i = k
    BY <1>2
  <2>2. \A t \in W : \E j \in RanOf(l) : f[j] = t
    BY <1>2
  <2>3. QED
    BY <2>1, <2>2, Fun_IsBij
<1>4. ExistsBijection(RanOf(l), W)
  <2> HIDE DEF f
  <2>1. QED
    BY <1>3 DEF ExistsBijection
<1>5. QED
  BY <1>1, <1>4, FS_Bijection DEF W

(* When the tool is through with a library that can be used, it has run    *)
(* every test the pattern selects, once, and no other (guide, "Selecting   *)
(* Tests To Run"; runner.c:126, 189); of a library that cannot be used, or *)
(* comes after a file that is missing, it has run none.                    *)
THEOREM TheSelectionIsRun == ASSUME LiteralsAreNames PROVE Spec => []RunsTheSelection
<1>1. Init => SelectInv
  <2> SUFFICES ASSUME Init PROVE SelectInv
    OBVIOUS
  <2>1. PastInv /\ ran = <<>> /\ pc = "arguments" /\ exit = "running"
    BY PastInit DEF Init
  <2>2. DOMAIN ran = {}
    BY <2>1
  <2>3. QED
    BY <2>1, <2>2 DEF SelectInv, OnlyThose, Before, Done, Looping
<1>2. SelectInv /\ [Next]_vars => SelectInv'
  BY SelectStep
<1>3. SelectInv => RunsTheSelection
  <2> SUFFICES ASSUME SelectInv, NEW l \in DOMAIN libraries
               PROVE  /\ /\ next > l /\ (pc = "library" \/ exit \in {"success", "failure"})
                         /\ Reached(l) /\ Runnable(l)
                         => /\ TestsRan(l) = Wanted(libraries[l])
                            /\ Cardinality(RanOf(l)) = Cardinality(Wanted(libraries[l]))
                      /\ ~Reached(l) \/ ~Runnable(l) => RanOf(l) = {}
    BY DEF RunsTheSelection, Reached, Runnable, TestsRan
  <2>1. ASSUME next > l, pc = "library" \/ exit \in {"success", "failure"}, Reached(l), Runnable(l)
        PROVE  /\ TestsRan(l) = Wanted(libraries[l])
               /\ Cardinality(RanOf(l)) = Cardinality(Wanted(libraries[l]))
    <3>1. l < next
      BY <2>1, PastFacts DEF SelectInv
    <3>2. Complete(l)
      BY <2>1, <3>1 DEF SelectInv, Done, Looping
    <3>3. QED
      BY <3>2, AsManyAsWanted DEF SelectInv, Complete
  <2>2. ASSUME ~Reached(l) \/ ~Runnable(l) PROVE RanOf(l) = {}
    BY <2>2 DEF SelectInv, OnlyThose, RanOf
  <2>3. QED
    BY <2>1, <2>2
<1>4. QED
  BY <1>1, <1>2, <1>3, PTL DEF Spec
=============================================================================
