-------------------------- MODULE SelectionProofs --------------------------
(***************************************************************************)
(* What the query and selectFairRows compute, for rows of any number, any  *)
(* channels and any sizes of batch and window.                             *)
(*                                                                         *)
(* Both are loops, written as recursive functions.  The induction is over  *)
(* sets of natural numbers: a set that has 0 and every successor has no    *)
(* least missing element (LeastNatural, NatSetInduction).  From it follows *)
(* that a loop of N steps exists (Iterate), so that a recursive definition *)
(* satisfies its own equation; the rest is one induction for each loop.    *)
(***************************************************************************)
EXTENDS FairOutbox, SequenceTheorems, FiniteSetTheorems, WellFoundedInduction, TLAPS

-----------------------------------------------------------------------------
(* Induction.                                                              *)

\* Every nonempty set of natural numbers has a least element.
LEMMA LeastNatural ==
  ASSUME NEW T \in SUBSET Nat, T # {}
  PROVE  \E n \in T : \A m \in T : n <= m
  <1> DEFINE R == OpToRel(<, Nat)
  <1>1. IsWellFoundedOn(R, Nat)
    BY NatLessThanWellFounded
  <1>2. \A m, n \in Nat : m < n => <<m, n>> \in R
    BY DEF OpToRel
  <1> HIDE DEF R
  <1>3. PICK n \in T : \A m \in T : ~ (<<m, n>> \in R)
    BY <1>1, WFMin
  <1>4. \A m \in T : ~ (m < n)
    BY <1>2, <1>3
  <1>5. \A m \in T : n <= m
    BY <1>4
  <1> QED
    BY <1>5

\* Induction up to N.
LEMMA NatSetInduction ==
  ASSUME NEW N \in Nat, NEW S, 0 \in S, \A n \in 1..N : n - 1 \in S => n \in S
  PROVE  \A n \in 0..N : n \in S
  <1> SUFFICES ASSUME NEW k \in 0..N, k \notin S PROVE FALSE
    OBVIOUS
  <1> DEFINE T == {n \in 0..N : n \notin S}
  <1>1. T \in SUBSET Nat /\ T # {}
    OBVIOUS
  <1> HIDE DEF T
  <1>2. PICK n \in T : \A m \in T : n <= m
    BY <1>1, LeastNatural
  <1> USE DEF T
  <1>3. n \in 1..N /\ n - 1 \in 0..N /\ n - 1 \notin T
    BY <1>2
  <1> QED
    BY <1>2, <1>3

\* A loop of N steps.
IsLoop(g, N, X, x0, F) ==
    /\ g \in [0..N -> X]
    /\ g[0] = x0
    /\ \A k \in 1..N : g[k] = F[k][g[k - 1]]

\* Every loop that stays in X exists.
LEMMA Iterate ==
  ASSUME NEW N \in Nat, NEW X, NEW x0 \in X, NEW F, \A k \in 1..N : \A x \in X : F[k][x] \in X
  PROVE  \E g : IsLoop(g, N, X, x0, F)
  <1> DEFINE S == {n \in 0..N : \E g : IsLoop(g, n, X, x0, F)}
  <1>1. 0 \in S
    <2>1. IsLoop([k \in 0..0 |-> x0], 0, X, x0, F)
      BY DEF IsLoop
    <2> QED
      BY <2>1
  <1>2. ASSUME NEW n \in 1..N, n - 1 \in S PROVE n \in S
    <2>1. PICK g : IsLoop(g, n - 1, X, x0, F)
      BY <1>2
    <2> DEFINE h == [k \in 0..n |-> IF k < n THEN g[k] ELSE F[n][g[n - 1]]]
    <2>2. /\ \A k \in 0..(n - 1) : h[k] = g[k] /\ g[k] \in X
          /\ h[n] = F[n][g[n - 1]] /\ g[n - 1] \in X
      BY <2>1 DEF IsLoop
    <2>3. h \in [0..n -> X]
      BY <2>2
    <2>4. h[0] = x0
      BY <2>1, <2>2 DEF IsLoop
    <2>5. \A k \in 1..n : h[k] = F[k][h[k - 1]]
      BY <2>1, <2>2 DEF IsLoop
    <2> HIDE DEF h
    <2>6. IsLoop(h, n, X, x0, F)
      BY <2>3, <2>4, <2>5 DEF IsLoop
    <2> QED
      BY <2>6
  <1>3. N \in 0..N
    OBVIOUS
  <1> HIDE DEF S
  <1>4. N \in S
    BY <1>1, <1>2, <1>3, NatSetInduction
  <1> QED
    BY <1>4 DEF S

\* A loop stays in a set that every step stays in.
LEMMA LoopType ==
  ASSUME NEW N \in Nat, NEW X, NEW s, s[0] \in X,
         \A k \in 1..N : s[k - 1] \in X => s[k] \in X
  PROVE  \A k \in 0..N : s[k] \in X
  <1> DEFINE S == {k \in 0..N : s[k] \in X}
  <1>1. 0 \in S /\ \A k \in 1..N : k - 1 \in S => k \in S
    OBVIOUS
  <1> HIDE DEF S
  <1>2. \A k \in 0..N : k \in S
    BY <1>1, NatSetInduction
  <1> QED
    BY <1>2 DEF S

-----------------------------------------------------------------------------
(* Sequences of distinct elements, and numbers.                            *)

\* The elements of a sequence.
LEMMA ToSetType == ASSUME NEW S, NEW s \in Seq(S) PROVE ToSet(s) \in SUBSET S
  BY DEF ToSet

\* Adding a new last element.
LEMMA AppendDistinct ==
  ASSUME NEW S, NEW s \in Seq(S), NEW x \in S, IsInjective(s), x \notin ToSet(s)
  PROVE  /\ Append(s, x) \in Seq(S) /\ IsInjective(Append(s, x))
         /\ ToSet(Append(s, x)) = ToSet(s) \cup {x}
         /\ Len(Append(s, x)) = Len(s) + 1
         /\ \A i \in DOMAIN s : Append(s, x)[i] = s[i]
         /\ Append(s, x)[Len(s) + 1] = x
  <1>1. /\ Len(s) \in Nat /\ DOMAIN s = 1..Len(s)
        /\ Append(s, x) \in Seq(S) /\ Len(Append(s, x)) = Len(s) + 1
        /\ DOMAIN Append(s, x) = 1..(Len(s) + 1)
        /\ \A i \in 1..Len(s) : Append(s, x)[i] = s[i]
        /\ Append(s, x)[Len(s) + 1] = x
    OBVIOUS
  <1>2. \A i \in 1..Len(s) : s[i] # x
    BY <1>1 DEF ToSet
  <1>3. IsInjective(Append(s, x))
    BY <1>1, <1>2 DEF IsInjective
  <1>4. ToSet(Append(s, x)) = ToSet(s) \cup {x}
    BY <1>1 DEF ToSet
  <1> QED
    BY <1>1, <1>3, <1>4

\* The numbers up to n.
LEMMA CountTo == ASSUME NEW n \in Nat PROVE IsFiniteSet(1..n) /\ Cardinality(1..n) = n
  <1>1. \A a, b \in Int : /\ IsFiniteSet(a..b)
                         /\ Cardinality(a..b) = IF a > b THEN 0 ELSE b - a + 1
    BY FS_Interval
  <1>2. 1 \in Int /\ n \in Int
    OBVIOUS
  <1>3. IsFiniteSet(1..n) /\ Cardinality(1..n) = IF 1 > n THEN 0 ELSE n - 1 + 1
    BY <1>1, <1>2, Zenon
  <1>4. (IF 1 > n THEN 0 ELSE n - 1 + 1) = n
    OBVIOUS
  <1> QED
    BY <1>3, <1>4

\* The least element of a nonempty set.
LEMMA MinProperties ==
  ASSUME NEW T \in SUBSET Nat, T # {}
  PROVE  Min(T) \in T /\ \A m \in T : Min(T) <= m
  BY LeastNatural DEF Min

-----------------------------------------------------------------------------
(* Recursive functions are loops.                                          *)

\* Serve maps selections to selections.
LEMMA ServeType ==
  ASSUME NEW rows \in Seq(Messages), NEW c, NEW sel \in Seq(Messages)
  PROVE  /\ Serve(rows, c)[sel] \in Seq(Messages)
         /\ \/ /\ Len(sel) = Limit \/ Waiting(rows, sel, c) = {}
               /\ Serve(rows, c)[sel] = sel
            \/ /\ Len(sel) # Limit
               /\ \E i \in Waiting(rows, sel, c) :
                    /\ \A j \in Waiting(rows, sel, c) : i <= j
                    /\ Serve(rows, c)[sel] = Append(sel, rows[i])
  <1>1. Waiting(rows, sel, c) \in SUBSET Nat /\ Waiting(rows, sel, c) \subseteq DOMAIN rows
    BY DEF Waiting
  <1>2. CASE Len(sel) = Limit \/ Waiting(rows, sel, c) = {}
    BY <1>2 DEF Serve
  <1>3. CASE ~(Len(sel) = Limit \/ Waiting(rows, sel, c) = {})
    <2>1. PICK i : i = FirstWaiting(rows, sel, c)
      OBVIOUS
    <2>2. i \in Waiting(rows, sel, c) /\ \A j \in Waiting(rows, sel, c) : i <= j
      BY <1>1, <1>3, <2>1, MinProperties DEF FirstWaiting
    <2>3. Serve(rows, c)[sel] = Append(sel, rows[i])
      BY <1>3, <2>1 DEF Serve
    <2>4. rows[i] \in Messages
      BY <1>1, <2>2
    <2> QED
      BY <1>3, <2>2, <2>3, <2>4
  <1> QED
    BY <1>2, <1>3

\* A pass over the channels is a loop.
LEMMA RoundLoop ==
  ASSUME NEW rows \in Seq(Messages), NEW sel \in Seq(Messages)
  PROVE  \E served \in [0..Len(Channels) -> Seq(Messages)] :
           /\ served[0] = sel
           /\ \A k \in 1..Len(Channels) : served[k] = Serve(rows, Channels[k])[served[k - 1]]
           /\ Round(rows)[sel] = served[Len(Channels)]
  <1> DEFINE N == Len(Channels)
             F == [k \in 1..N |-> Serve(rows, Channels[k])]
  <1>1. N \in Nat
    BY FairAssumption
  <1>2. \A k \in 1..N : F[k] = Serve(rows, Channels[k])
    OBVIOUS
  <1> HIDE DEF N, F
  <1>3. \A k \in 1..N : \A x \in Seq(Messages) : F[k][x] \in Seq(Messages)
    BY <1>2, ServeType
  <1>4. PICK g : IsLoop(g, N, Seq(Messages), sel, F)
    BY <1>1, <1>3, Iterate
  <1>5. g = [k \in 0..N |-> IF k = 0 THEN sel ELSE Serve(rows, Channels[k])[g[k - 1]]]
    <2> DEFINE h == [k \in 0..N |-> IF k = 0 THEN sel ELSE Serve(rows, Channels[k])[g[k - 1]]]
    <2>1. g[0] = sel /\ \A k \in 1..N : g[k] = Serve(rows, Channels[k])[g[k - 1]]
      BY <1>1, <1>2, <1>4 DEF IsLoop
    <2>2. \A k \in 0..N : g[k] = h[k]
      BY <1>1, <2>1
    <2>3. g \in [0..N -> Seq(Messages)] /\ DOMAIN h = 0..N
      BY <1>4 DEF IsLoop
    <2>4. h = [k \in 0..N |-> h[k]] /\ g = [k \in 0..N |-> g[k]]
      BY <2>3
    <2> HIDE DEF h
    <2>5. g = h
      BY <2>2, <2>4
    <2> QED
      BY <2>5 DEF h
  <1>6. PICK s : s = CHOOSE z : z = [k \in 0..N |-> IF k = 0 THEN sel ELSE Serve(rows, Channels[k])[z[k - 1]]]
    OBVIOUS
  <1>7. s = [k \in 0..N |-> IF k = 0 THEN sel ELSE Serve(rows, Channels[k])[s[k - 1]]]
    BY <1>5, <1>6
  <1>8. s[0] = sel /\ \A k \in 1..N : s[k] = Serve(rows, Channels[k])[s[k - 1]]
    BY <1>1, <1>7
  <1>9. \A k \in 0..N : s[k] \in Seq(Messages)
    <2>1. \A k \in 1..N : s[k - 1] \in Seq(Messages) => s[k] \in Seq(Messages)
      BY <1>8, ServeType
    <2> QED
      BY <1>1, <1>8, <2>1, LoopType
  <1>10. s \in [0..N -> Seq(Messages)]
    BY <1>7, <1>9
  <1>11. Round(rows)[sel] = s[N]
    BY <1>6 DEF Round, N
  <1> QED
    BY <1>8, <1>10, <1>11 DEF N

\* The passes of selectFairRows are a loop.
LEMMA SelectLoop ==
  ASSUME NEW rows \in Seq(Messages), ~(Len(rows) <= Limit)
  PROVE  \E rounds \in [0..Limit -> Seq(Messages)] :
           /\ rounds[0] = <<>>
           /\ \A t \in 1..Limit : rounds[t] = Round(rows)[rounds[t - 1]]
           /\ selectFairRows(rows) = rounds[Limit]
  <1> DEFINE F == [t \in 1..Limit |-> Round(rows)]
  <1>1. Limit \in Nat /\ <<>> \in Seq(Messages)
    BY FairAssumption
  <1>2. \A t \in 1..Limit : F[t] = Round(rows)
    OBVIOUS
  <1> HIDE DEF F
  <1>3. \A x \in Seq(Messages) : Round(rows)[x] \in Seq(Messages)
    <2> SUFFICES ASSUME NEW x \in Seq(Messages) PROVE Round(rows)[x] \in Seq(Messages)
      OBVIOUS
    <2>1. Len(Channels) \in 0..Len(Channels)
      BY FairAssumption
    <2>2. PICK served \in [0..Len(Channels) -> Seq(Messages)] :
            Round(rows)[x] = served[Len(Channels)]
      BY RoundLoop
    <2> QED
      BY <2>1, <2>2
  <1>4. PICK g : IsLoop(g, Limit, Seq(Messages), <<>>, F)
    BY <1>1, <1>2, <1>3, Iterate
  <1>5. g = [t \in 0..Limit |-> IF t = 0 THEN <<>> ELSE Round(rows)[g[t - 1]]]
    <2> DEFINE h == [t \in 0..Limit |-> IF t = 0 THEN <<>> ELSE Round(rows)[g[t - 1]]]
    <2>1. g[0] = <<>> /\ \A t \in 1..Limit : g[t] = Round(rows)[g[t - 1]]
      BY <1>1, <1>2, <1>4 DEF IsLoop
    <2>2. \A t \in 0..Limit : g[t] = h[t]
      <3>1. h[0] = <<>> /\ \A t \in 1..Limit : h[t] = Round(rows)[g[t - 1]]
        BY <1>1
      <3>2. \A t \in 0..Limit : t = 0 \/ t \in 1..Limit
        BY <1>1
      <3> HIDE DEF h
      <3> QED
        BY <2>1, <3>1, <3>2
    <2>3. g \in [0..Limit -> Seq(Messages)] /\ DOMAIN h = 0..Limit
      BY <1>4 DEF IsLoop
    <2>4. h = [t \in 0..Limit |-> h[t]] /\ g = [t \in 0..Limit |-> g[t]]
      BY <2>3
    <2> HIDE DEF h
    <2>5. g = h
      BY <2>2, <2>4
    <2> QED
      BY <2>5 DEF h
  <1>6. PICK s : s = CHOOSE z : z = [t \in 0..Limit |-> IF t = 0 THEN <<>> ELSE Round(rows)[z[t - 1]]]
    OBVIOUS
  <1>7. s = [t \in 0..Limit |-> IF t = 0 THEN <<>> ELSE Round(rows)[s[t - 1]]]
    BY <1>5, <1>6
  <1>8. s[0] = <<>> /\ \A t \in 1..Limit : s[t] = Round(rows)[s[t - 1]]
    BY <1>1, <1>7
  <1>9. \A t \in 0..Limit : s[t] \in Seq(Messages)
    <2>1. \A t \in 1..Limit : s[t - 1] \in Seq(Messages) => s[t] \in Seq(Messages)
      BY <1>3, <1>8
    <2> QED
      BY <1>1, <1>8, <2>1, LoopType
  <1>10. s \in [0..Limit -> Seq(Messages)]
    BY <1>7, <1>9
  <1>11. selectFairRows(rows) = s[Limit]
    BY <1>6 DEF selectFairRows
  <1> QED
    BY <1>8, <1>10, <1>11

\* The query is a loop over the table.
LEMMA ReadLoop ==
  ASSUME table \in Seq(Messages), NEW l
  PROVE  \E read \in [0..Len(table) -> Seq(Messages)] :
           /\ read[0] = <<>>
           /\ \A n \in 1..Len(table) : read[n] = Read(table[n], l)[read[n - 1]]
           /\ OldestRows(l) = read[Len(table)]
  <1> DEFINE N == Len(table)
             F == [n \in 1..N |-> Read(table[n], l)]
  <1>1. N \in Nat /\ <<>> \in Seq(Messages)
    OBVIOUS
  <1>2. \A n \in 1..N : F[n] = Read(table[n], l)
    OBVIOUS
  <1>3. \A n \in 1..N : table[n] \in Messages
    OBVIOUS
  <1> HIDE DEF N, F
  <1>4. \A n \in 1..N : \A x \in Seq(Messages) : Read(table[n], l)[x] \in Seq(Messages)
    BY <1>3 DEF Read
  <1>5. PICK g : IsLoop(g, N, Seq(Messages), <<>>, F)
    BY <1>1, <1>2, <1>4, Iterate
  <1>6. g = [n \in 0..N |-> IF n = 0 THEN <<>> ELSE Read(table[n], l)[g[n - 1]]]
    <2> DEFINE h == [n \in 0..N |-> IF n = 0 THEN <<>> ELSE Read(table[n], l)[g[n - 1]]]
    <2>1. g[0] = <<>> /\ \A n \in 1..N : g[n] = Read(table[n], l)[g[n - 1]]
      BY <1>1, <1>2, <1>5 DEF IsLoop
    <2>2. \A n \in 0..N : g[n] = h[n]
      BY <1>1, <2>1
    <2>3. g \in [0..N -> Seq(Messages)] /\ DOMAIN h = 0..N
      BY <1>5 DEF IsLoop
    <2>4. h = [n \in 0..N |-> h[n]] /\ g = [n \in 0..N |-> g[n]]
      BY <2>3
    <2> HIDE DEF h
    <2>5. g = h
      BY <2>2, <2>4
    <2> QED
      BY <2>5 DEF h
  <1>7. PICK s : s = CHOOSE z : z = [n \in 0..N |-> IF n = 0 THEN <<>> ELSE Read(table[n], l)[z[n - 1]]]
    OBVIOUS
  <1>8. s = [n \in 0..N |-> IF n = 0 THEN <<>> ELSE Read(table[n], l)[s[n - 1]]]
    BY <1>6, <1>7
  <1>9. s[0] = <<>> /\ \A n \in 1..N : s[n] = Read(table[n], l)[s[n - 1]]
    <2>1. 0 \in 0..N /\ \A n \in 1..N : n \in 0..N /\ n # 0
      BY <1>1
    <2>2. s[0] = <<>>
      BY <1>8, <2>1
    <2>3. ASSUME NEW n \in 1..N PROVE s[n] = Read(table[n], l)[s[n - 1]]
      BY <1>8, <2>1
    <2> QED
      BY <2>2, <2>3
  <1>10. \A n \in 0..N : s[n] \in Seq(Messages)
    <2>1. \A n \in 1..N : s[n - 1] \in Seq(Messages) => s[n] \in Seq(Messages)
      BY <1>4, <1>9
    <2>2. s[0] \in Seq(Messages)
      BY <1>9
    <2>3. N \in Nat
      BY <1>1
    <2> QED
      BY <2>1, <2>2, <2>3, LoopType, Zenon
  <1>11. s \in [0..N -> Seq(Messages)]
    BY <1>8, <1>10
  <1>12. OldestRows(l) = s[N]
    BY <1>7 DEF OldestRows, N
  <1> QED
    BY <1>9, <1>11, <1>12 DEF N

-----------------------------------------------------------------------------
(* The query.                                                              *)

\* What has been read of the first n rows of the table: distinct readable rows of
\* the line, in order and without a gap, and all of them while the window has room.
HasRead(rows, n, l) ==
    /\ rows \in Seq({table[i] : i \in 1..n}) /\ IsInjective(rows) /\ Len(rows) <= Window
    /\ \A q \in DOMAIN rows : Readable(rows[q], l)
    /\ \A i, j \in DOMAIN table : \A q \in DOMAIN rows :
        i < j /\ Readable(table[i], l) /\ rows[q] = table[j] =>
            \E p \in 1..(q - 1) : rows[p] = table[i]
    /\ Len(rows) < Window => \A i \in 1..n : Readable(table[i], l) => table[i] \in ToSet(rows)

\* The next row of the table is read.
LEMMA ReadNext ==
  ASSUME table \in Seq(Messages), IsInjective(table), NEW l,
         NEW n \in 1..Len(table), NEW rows \in Seq(Messages), HasRead(rows, n - 1, l)
  PROVE  HasRead(Read(table[n], l)[rows], n, l)
  <1>1. /\ Len(table) \in Nat /\ DOMAIN table = 1..Len(table) /\ n \in Nat /\ n >= 1
        /\ Window \in Nat /\ Len(rows) \in Nat /\ DOMAIN rows = 1..Len(rows)
    BY FairAssumption
  <1> DEFINE A == {table[i] : i \in 1..(n - 1)}
             B == {table[i] : i \in 1..n}
  <1>2. A \subseteq B /\ table[n] \in B
    BY <1>1
  <1>3. table[n] \notin A
    BY <1>1 DEF IsInjective
  <1>4. rows \in Seq(A) /\ rows \in Seq(B)
    <2>1. rows \in Seq(A)
      BY DEF HasRead
    <2> HIDE DEF A, B
    <2> QED
      BY <1>2, <2>1, SeqMonotonic
  <1>5. CASE Readable(table[n], l) /\ Len(rows) < Window
    <2>1. PICK m : m = table[n]
      OBVIOUS
    <2>2. Read(table[n], l)[rows] = Append(rows, m)
      BY <1>5, <2>1 DEF Read
    <2>3. m \notin ToSet(rows)
      <3>1. ToSet(rows) \subseteq A
        <4> HIDE DEF A
        <4> QED
          BY <1>4, ToSetType
      <3> QED
        BY <1>3, <2>1, <3>1
    <2>4. PICK r : r = Append(rows, m)
      OBVIOUS
    <2>5. /\ r \in Seq(B) /\ IsInjective(r) /\ ToSet(r) = ToSet(rows) \cup {m}
          /\ Len(r) = Len(rows) + 1 /\ \A q \in DOMAIN rows : r[q] = rows[q]
          /\ r[Len(rows) + 1] = m /\ DOMAIN r = 1..(Len(rows) + 1)
      <3> HIDE DEF B
      <3>1. m \in B
        BY <1>2, <2>1
      <3>2. IsInjective(rows)
        BY DEF HasRead
      <3>3. /\ r \in Seq(B) /\ IsInjective(r) /\ ToSet(r) = ToSet(rows) \cup {m}
            /\ Len(r) = Len(rows) + 1 /\ \A q \in DOMAIN rows : r[q] = rows[q]
            /\ r[Len(rows) + 1] = m
        BY <1>4, <2>3, <2>4, <3>1, <3>2, AppendDistinct
      <3> QED
        BY <3>3
    <2>6. \A q \in DOMAIN r : q \in DOMAIN rows \/ q = Len(rows) + 1
      BY <1>1, <2>5
    <2>7. \A q \in DOMAIN r : Readable(r[q], l)
      BY <1>5, <2>1, <2>5, <2>6 DEF HasRead
    <2>8. ASSUME NEW i \in DOMAIN table, NEW j \in DOMAIN table, NEW q \in DOMAIN r,
                 i < j, Readable(table[i], l), r[q] = table[j]
          PROVE  \E p \in 1..(q - 1) : r[p] = table[i]
      <3>1. CASE q \in DOMAIN rows
        <4>1. rows[q] = table[j]
          BY <2>5, <2>8, <3>1
        <4>2. PICK p \in 1..(q - 1) : rows[p] = table[i]
          BY <2>8, <3>1, <4>1 DEF HasRead
        <4>3. p \in DOMAIN rows
          BY <1>1, <3>1, <4>2
        <4> QED
          BY <2>5, <4>2, <4>3
      <3>2. CASE q = Len(rows) + 1
        <4>1. j = n
          BY <1>1, <2>1, <2>5, <2>8, <3>2 DEF IsInjective
        <4>2. i \in 1..(n - 1)
          BY <1>1, <2>8, <4>1
        <4>3. table[i] \in ToSet(rows)
          BY <1>5, <2>8, <4>2 DEF HasRead
        <4>4. PICK p \in DOMAIN rows : rows[p] = table[i]
          BY <4>3 DEF ToSet
        <4>5. p \in 1..(q - 1) /\ r[p] = table[i]
          BY <1>1, <2>5, <3>2, <4>4
        <4> QED
          BY <4>5
      <3> QED
        BY <2>6, <3>1, <3>2
    <2>9. \A i \in 1..n : Readable(table[i], l) => table[i] \in ToSet(r)
      <3>1. \A i \in 1..n : i = n \/ i \in 1..(n - 1)
        BY <1>1
      <3> QED
        BY <1>5, <2>1, <2>5, <3>1 DEF HasRead
    <2>10. Len(r) <= Window
      BY <1>1, <1>5, <2>5
    <2>11. \A i, j \in DOMAIN table : \A q \in DOMAIN r :
             i < j /\ Readable(table[i], l) /\ r[q] = table[j] =>
               \E p \in 1..(q - 1) : r[p] = table[i]
      BY <2>8
    <2>12. HasRead(r, n, l)
      BY <2>5, <2>7, <2>9, <2>10, <2>11 DEF HasRead
    <2> QED
      BY <2>2, <2>4, <2>12
  <1>6. CASE ~(Readable(table[n], l) /\ Len(rows) < Window)
    <2>1. Read(table[n], l)[rows] = rows
      BY <1>6 DEF Read
    <2>2. Len(rows) < Window => \A i \in 1..n : Readable(table[i], l) => table[i] \in ToSet(rows)
      <3>1. \A i \in 1..n : i = n \/ i \in 1..(n - 1)
        BY <1>1
      <3> QED
        BY <1>6, <3>1 DEF HasRead
    <2> QED
      BY <1>4, <2>1, <2>2 DEF HasRead
  <1> QED
    BY <1>5, <1>6

\* The query returns distinct committed rows of its line, and with a row all
\* older ones of the line before it.
LEMMA QueryResult ==
  ASSUME table \in Seq(Messages), IsInjective(table), NEW l
  PROVE  /\ OldestRows(l) \in Seq(Messages)
         /\ HasRead(OldestRows(l), Len(table), l)
  <1>1. PICK read \in [0..Len(table) -> Seq(Messages)] :
          /\ read[0] = <<>>
          /\ \A n \in 1..Len(table) : read[n] = Read(table[n], l)[read[n - 1]]
          /\ OldestRows(l) = read[Len(table)]
    BY ReadLoop
  <1>2. Len(table) \in Nat /\ Window \in Nat
    BY FairAssumption
  <1> DEFINE S == {n \in 0..Len(table) : HasRead(read[n], n, l)}
  <1>3. 0 \in S
    <2>1. HasRead(<<>>, 0, l)
      <3>1. <<>> \in Seq({table[i] : i \in 1..0}) /\ IsInjective(<<>>) /\ Len(<<>>) <= Window
        BY <1>2 DEF IsInjective
      <3>2. DOMAIN <<>> = {}
        OBVIOUS
      <3> QED
        BY <3>1, <3>2 DEF HasRead
    <2> QED
      BY <1>1, <1>2, <2>1
  <1>4. ASSUME NEW n \in 1..Len(table), n - 1 \in S PROVE n \in S
    <2>1. n - 1 \in 0..Len(table) /\ n \in 0..Len(table)
      BY <1>2
    <2>2. read[n - 1] \in Seq(Messages) /\ HasRead(read[n - 1], n - 1, l)
      BY <1>4, <2>1
    <2>3. HasRead(Read(table[n], l)[read[n - 1]], n, l)
      BY <2>2, ReadNext
    <2> QED
      BY <1>1, <2>1, <2>3
  <1> HIDE DEF S
  <1>5. Len(table) \in S
    <2>1. \A n \in 0..Len(table) : n \in S
      BY <1>2, <1>3, <1>4, NatSetInduction
    <2> QED
      BY <1>2, <2>1
  <1>6. HasRead(read[Len(table)], Len(table), l)
    BY <1>5 DEF S
  <1> QED
    BY <1>1, <1>2, <1>6

-----------------------------------------------------------------------------
(* The order of the selection.                                             *)

\* What every step of the loops keeps.
Sound(sel, rows) == sel \in Seq(Messages) /\ TakesInOrder(sel, rows) /\ Len(sel) <= Limit

\* A channel's turn: nothing changes, or the first of its rows that waits is added.
LEMMA ServeStep ==
  ASSUME NEW rows \in Seq(Messages), NEW c, NEW sel, Sound(sel, rows)
  PROVE  \/ /\ Len(sel) = Limit \/ Waiting(rows, sel, c) = {}
            /\ Serve(rows, c)[sel] = sel
         \/ /\ Len(sel) < Limit
            /\ \E i \in DOMAIN rows :
                 /\ i \in Waiting(rows, sel, c) /\ \A j \in Waiting(rows, sel, c) : i <= j
                 /\ rows[i] \notin ToSet(sel) /\ ChannelOf[rows[i]] = c
                 /\ Serve(rows, c)[sel] = Append(sel, rows[i])
                 /\ Append(sel, rows[i]) \in Seq(ToSet(rows))
                 /\ IsInjective(Append(sel, rows[i]))
                 /\ ToSet(Append(sel, rows[i])) = ToSet(sel) \cup {rows[i]}
                 /\ Len(Append(sel, rows[i])) = Len(sel) + 1
                 /\ \A q \in DOMAIN sel : Append(sel, rows[i])[q] = sel[q]
                 /\ Append(sel, rows[i])[Len(sel) + 1] = rows[i]
  <1>1. /\ sel \in Seq(Messages) /\ sel \in Seq(ToSet(rows)) /\ IsInjective(sel)
        /\ Len(sel) <= Limit /\ Limit \in Nat /\ Len(sel) \in Nat
    BY FairAssumption DEF Sound, TakesInOrder
  <1>2. CASE Serve(rows, c)[sel] = sel /\ (Len(sel) = Limit \/ Waiting(rows, sel, c) = {})
    BY <1>2
  <1>3. ASSUME Len(sel) # Limit,
               NEW i \in Waiting(rows, sel, c), \A j \in Waiting(rows, sel, c) : i <= j,
               Serve(rows, c)[sel] = Append(sel, rows[i])
        PROVE  /\ Len(sel) < Limit
               /\ i \in DOMAIN rows /\ rows[i] \notin ToSet(sel) /\ ChannelOf[rows[i]] = c
               /\ Append(sel, rows[i]) \in Seq(ToSet(rows))
               /\ IsInjective(Append(sel, rows[i]))
               /\ ToSet(Append(sel, rows[i])) = ToSet(sel) \cup {rows[i]}
               /\ Len(Append(sel, rows[i])) = Len(sel) + 1
               /\ \A q \in DOMAIN sel : Append(sel, rows[i])[q] = sel[q]
               /\ Append(sel, rows[i])[Len(sel) + 1] = rows[i]
    <2>1. i \in DOMAIN rows /\ rows[i] \notin ToSet(sel) /\ ChannelOf[rows[i]] = c
      BY <1>3 DEF Waiting
    <2>2. rows[i] \in ToSet(rows)
      BY <2>1 DEF ToSet
    <2>3. Len(sel) < Limit
      BY <1>1, <1>3
    <2> QED
      BY <1>1, <2>1, <2>2, <2>3, AppendDistinct
  <1> QED
    BY <1>1, <1>2, <1>3, ServeType

\* A channel's turn keeps the order.
LEMMA ServeSound ==
  ASSUME NEW rows \in Seq(Messages), IsInjective(rows), NEW c, NEW sel, Sound(sel, rows)
  PROVE  Sound(Serve(rows, c)[sel], rows)
  <1>1. CASE Serve(rows, c)[sel] = sel
    BY <1>1
  <1>2. CASE Len(sel) < Limit /\
             \E i \in DOMAIN rows :
                 /\ i \in Waiting(rows, sel, c) /\ \A j \in Waiting(rows, sel, c) : i <= j
                 /\ rows[i] \notin ToSet(sel) /\ ChannelOf[rows[i]] = c
                 /\ Serve(rows, c)[sel] = Append(sel, rows[i])
                 /\ Append(sel, rows[i]) \in Seq(ToSet(rows))
                 /\ IsInjective(Append(sel, rows[i]))
                 /\ ToSet(Append(sel, rows[i])) = ToSet(sel) \cup {rows[i]}
                 /\ Len(Append(sel, rows[i])) = Len(sel) + 1
                 /\ \A q \in DOMAIN sel : Append(sel, rows[i])[q] = sel[q]
                 /\ Append(sel, rows[i])[Len(sel) + 1] = rows[i]
    <2>1. PICK i \in DOMAIN rows, r \in {Append(sel, rows[n]) : n \in DOMAIN rows} :
                 /\ r = Append(sel, rows[i])
                 /\ i \in Waiting(rows, sel, c) /\ \A j \in Waiting(rows, sel, c) : i <= j
                 /\ rows[i] \notin ToSet(sel) /\ ChannelOf[rows[i]] = c
                 /\ Serve(rows, c)[sel] = r
                 /\ r \in Seq(ToSet(rows))
                 /\ IsInjective(r)
                 /\ Len(r) = Len(sel) + 1
                 /\ \A q \in DOMAIN sel : r[q] = sel[q]
                 /\ r[Len(sel) + 1] = rows[i]
      BY <1>2
    <2>2. /\ Len(sel) \in Nat /\ DOMAIN sel = 1..Len(sel) /\ DOMAIN r = 1..(Len(sel) + 1)
          /\ DOMAIN rows = 1..Len(rows) /\ Len(rows) \in Nat
      BY <2>1 DEF Sound
    <2>3. \A q \in DOMAIN r : q \in DOMAIN sel \/ q = Len(sel) + 1
      BY <2>2
    <2>4. ASSUME NEW a \in DOMAIN rows, NEW b \in DOMAIN rows, NEW q \in DOMAIN r,
                 a < b, ChannelOf[rows[a]] = ChannelOf[rows[b]], r[q] = rows[b]
          PROVE  \E p \in 1..(q - 1) : r[p] = rows[a]
      <3>1. CASE q \in DOMAIN sel
        <4>1. sel[q] = rows[b]
          BY <2>1, <2>4, <3>1
        <4>2. PICK p \in 1..(q - 1) : sel[p] = rows[a]
          BY <2>4, <3>1, <4>1 DEF Sound, TakesInOrder
        <4>3. p \in DOMAIN sel
          BY <2>2, <3>1, <4>2
        <4> QED
          BY <2>1, <4>2, <4>3
      <3>2. CASE q = Len(sel) + 1
        <4>1. b = i
          BY <2>1, <2>4, <3>2 DEF IsInjective
        <4>2. a \notin Waiting(rows, sel, c)
          BY <2>1, <2>2, <2>4, <4>1
        <4>3. rows[a] \in ToSet(sel)
          BY <2>1, <2>4, <4>1, <4>2 DEF Waiting
        <4>4. PICK p \in DOMAIN sel : sel[p] = rows[a]
          BY <4>3 DEF ToSet
        <4>5. p \in 1..(q - 1) /\ r[p] = rows[a]
          BY <2>1, <2>2, <3>2, <4>4
        <4> QED
          BY <4>5
      <3> QED
        BY <2>3, <3>1, <3>2
    <2>5. TakesInOrder(r, rows)
      BY <2>1, <2>4 DEF TakesInOrder
    <2>6. Len(r) <= Limit
      BY <1>2, <2>1, <2>2, FairAssumption
    <2>7. r \in Seq(Messages)
      BY <2>1, ServeType DEF Sound
    <2> QED
      BY <2>1, <2>5, <2>6, <2>7 DEF Sound
  <1> QED
    BY <1>1, <1>2, ServeStep

-----------------------------------------------------------------------------
(* The shares of the channels.                                             *)

\* A sequence has finitely many elements, a channel a natural share of them.
LEMMA ShareType ==
  ASSUME NEW s \in Seq(Messages), NEW c
  PROVE  /\ IsFiniteSet(ToSet(s))
         /\ IsFiniteSet({m \in ToSet(s) : ChannelOf[m] = c})
         /\ Share(s, c) \in Nat
  <1>1. Len(s) \in Nat /\ DOMAIN s = 1..Len(s) /\ IsFiniteSet(1..Len(s))
    BY FS_Interval
  <1>2. s \in Surjection(1..Len(s), ToSet(s))
    <2>1. s \in [1..Len(s) -> ToSet(s)] /\ \A x \in ToSet(s) : \E i \in 1..Len(s) : s[i] = x
      BY <1>1 DEF ToSet
    <2> QED
      BY <2>1 DEF Surjection
  <1>3. IsFiniteSet(ToSet(s))
    BY <1>1, <1>2, FS_Surjection
  <1>4. {m \in ToSet(s) : ChannelOf[m] = c} \in SUBSET ToSet(s)
    OBVIOUS
  <1>5. IsFiniteSet({m \in ToSet(s) : ChannelOf[m] = c})
    BY <1>3, <1>4, FS_Subset
  <1> QED
    BY <1>3, <1>5, FS_CardinalityType DEF Share

\* A new row adds one to the share of its channel.
LEMMA ShareAppend ==
  ASSUME NEW s \in Seq(Messages), NEW r \in Seq(Messages), NEW x, x \notin ToSet(s),
         ToSet(r) = ToSet(s) \cup {x}, NEW c
  PROVE  Share(r, c) = IF ChannelOf[x] = c THEN Share(s, c) + 1 ELSE Share(s, c)
  <1> DEFINE A == {m \in ToSet(s) : ChannelOf[m] = c}
             B == {m \in ToSet(r) : ChannelOf[m] = c}
  <1>1. IsFiniteSet(A)
    BY ShareType
  <1>2. x \notin A
    OBVIOUS
  <1>3. CASE ChannelOf[x] = c
    <2>1. B = A \cup {x}
      BY <1>3
    <2> HIDE DEF A, B
    <2>2. Cardinality(B) = Cardinality(A) + 1
      BY <1>1, <1>2, <2>1, FS_AddElement
    <2> QED
      BY <1>3, <2>2 DEF Share, A, B
  <1>4. CASE ChannelOf[x] # c
    <2>1. B = A
      BY <1>4
    <2> QED
      BY <1>4, <2>1 DEF Share
  <1> QED
    BY <1>3, <1>4

\* A channel without a row that waits has its whole share.
LEMMA ShareComplete ==
  ASSUME NEW rows \in Seq(Messages), NEW sel \in Seq(Messages), NEW c,
         Waiting(rows, sel, c) = {}
  PROVE  Share(rows, c) <= Share(sel, c)
  <1> DEFINE A == {m \in ToSet(rows) : ChannelOf[m] = c}
             B == {m \in ToSet(sel) : ChannelOf[m] = c}
  <1>1. A \in SUBSET B
    BY DEF Waiting, ToSet
  <1>2. IsFiniteSet(B)
    BY ShareType
  <1> HIDE DEF A, B
  <1>3. Cardinality(A) <= Cardinality(B)
    BY <1>1, <1>2, FS_Subset
  <1> QED
    BY <1>3 DEF Share, A, B

\* After t passes and the turns of the first k channels of the next: no channel
\* has more than its turns, none that has rows waiting has less while the batch
\* has room, and the shares are even.
Even(sel, rows, t, k) ==
    /\ \A j \in 1..Len(Channels) :
        Share(sel, Channels[j]) <= IF j <= k THEN t + 1 ELSE t
    /\ Len(sel) < Limit =>
        \A j \in 1..Len(Channels) :
            Share(sel, Channels[j]) < Share(rows, Channels[j]) =>
                Share(sel, Channels[j]) >= IF j <= k THEN t + 1 ELSE t
    /\ SharesEvenly(sel, rows)

\* Bounds on the shares make them even.
LEMMA EvenShares ==
  ASSUME NEW rows \in Seq(Messages), NEW sel \in Seq(Messages), NEW t \in Nat, NEW k \in Nat,
         \A j \in 1..Len(Channels) :
            /\ Share(sel, Channels[j]) <= IF j <= k THEN t + 1 ELSE t
            /\ Share(sel, Channels[j]) < Share(rows, Channels[j]) =>
                Share(sel, Channels[j]) >= IF j <= k THEN t + 1 ELSE t
  PROVE  SharesEvenly(sel, rows)
  <1> SUFFICES ASSUME NEW c \in ToSet(Channels), NEW d \in ToSet(Channels),
                      Share(sel, c) < Share(rows, c)
               PROVE  Share(sel, d) <= Share(sel, c) + 1
    BY DEF SharesEvenly
  <1>0. DOMAIN Channels = 1..Len(Channels)
    BY FairAssumption
  <1>1. PICK i \in 1..Len(Channels), j \in 1..Len(Channels) : c = Channels[i] /\ d = Channels[j]
    BY <1>0 DEF ToSet
  <1>2. Share(sel, c) \in Nat /\ Share(sel, d) \in Nat
    BY ShareType
  <1>3. Share(sel, c) >= t
    BY <1>1, <1>2
  <1>4. Share(sel, d) <= t + 1
    BY <1>1, <1>2
  <1> QED
    BY <1>2, <1>3, <1>4

\* A channel's turn keeps the shares even.
LEMMA ServeEven ==
  ASSUME NEW rows \in Seq(Messages), IsInjective(rows), NEW sel, Sound(sel, rows),
         NEW t \in Nat, NEW k \in 1..Len(Channels), Even(sel, rows, t, k - 1)
  PROVE  Even(Serve(rows, Channels[k])[sel], rows, t, k)
  <1>0. sel \in Seq(Messages) /\ Len(sel) <= Limit /\ Len(sel) \in Nat /\ Limit \in Nat
    BY FairAssumption DEF Sound
  <1>1. \A j \in 1..Len(Channels) : j <= k - 1 => j <= k
    BY FairAssumption
  <1>2. \A j \in 1..Len(Channels) : j <= k <=> j <= k - 1 \/ j = k
    BY FairAssumption
  <1>3. \A j \in 1..Len(Channels) : Share(sel, Channels[j]) \in Nat /\ Share(rows, Channels[j]) \in Nat
    BY <1>0, ShareType
  <1>4. \A j \in 1..Len(Channels) : Channels[j] = Channels[k] => j = k
    BY FairAssumption DEF IsInjective
  <1>5. ASSUME Len(sel) = Limit \/ Waiting(rows, sel, Channels[k]) = {},
               Serve(rows, Channels[k])[sel] = sel
        PROVE  Even(sel, rows, t, k)
    <2>1. \A j \in 1..Len(Channels) : Share(sel, Channels[j]) <= IF j <= k THEN t + 1 ELSE t
      BY <1>1, <1>3 DEF Even
    <2>2. ASSUME Len(sel) < Limit, NEW j \in 1..Len(Channels),
                 Share(sel, Channels[j]) < Share(rows, Channels[j])
          PROVE  Share(sel, Channels[j]) >= IF j <= k THEN t + 1 ELSE t
      <3>1. Waiting(rows, sel, Channels[k]) = {}
        BY <1>0, <1>5, <2>2
      <3>2. Share(rows, Channels[k]) <= Share(sel, Channels[k])
        BY <1>0, <3>1, ShareComplete
      <3>3. j # k
        BY <1>3, <2>2, <3>2
      <3> QED
        BY <1>2, <2>2, <3>3 DEF Even
    <2> QED
      BY <2>1, <2>2 DEF Even
  <1>6. ASSUME Len(sel) < Limit, NEW i \in DOMAIN rows, rows[i] \notin ToSet(sel),
               ChannelOf[rows[i]] = Channels[k], NEW r \in Seq(Messages),
               ToSet(r) = ToSet(sel) \cup {rows[i]}
        PROVE  Even(r, rows, t, k)
    <2>1. \A j \in 1..Len(Channels) :
            Share(r, Channels[j]) = IF j = k THEN Share(sel, Channels[j]) + 1 ELSE Share(sel, Channels[j])
      <3>1. \A c : Share(r, c) = IF ChannelOf[rows[i]] = c THEN Share(sel, c) + 1 ELSE Share(sel, c)
        <4>1. PICK x : x = rows[i]
          OBVIOUS
        <4>2. x \notin ToSet(sel) /\ ToSet(r) = ToSet(sel) \cup {x}
          BY <1>6, <4>1
        <4>3. \A c : Share(r, c) = IF ChannelOf[x] = c THEN Share(sel, c) + 1 ELSE Share(sel, c)
          BY <1>0, <4>2, ShareAppend
        <4> QED
          BY <4>1, <4>3
      <3> QED
        BY <1>4, <1>6, <3>1
    <2>2. \A j \in 1..Len(Channels) : Share(sel, Channels[j]) <= IF j <= k - 1 THEN t + 1 ELSE t
      BY DEF Even
    <2>3. \A j \in 1..Len(Channels) : Share(sel, Channels[j]) < Share(rows, Channels[j]) =>
            Share(sel, Channels[j]) >= IF j <= k - 1 THEN t + 1 ELSE t
      BY <1>6 DEF Even
    <2>4. k \in Nat /\ ~(k <= k - 1)
      BY FairAssumption
    <2>5. \A j \in 1..Len(Channels) : Share(r, Channels[j]) <= IF j <= k THEN t + 1 ELSE t
      <3> SUFFICES ASSUME NEW j \in 1..Len(Channels)
                   PROVE  Share(r, Channels[j]) <= IF j <= k THEN t + 1 ELSE t
        OBVIOUS
      <3>1. CASE j = k
        BY <1>3, <2>1, <2>2, <2>4, <3>1
      <3>2. CASE j # k
        BY <1>2, <1>3, <2>1, <2>2, <3>2
      <3> QED
        BY <3>1, <3>2
    <2>6. \A j \in 1..Len(Channels) : Share(r, Channels[j]) < Share(rows, Channels[j]) =>
            Share(r, Channels[j]) >= IF j <= k THEN t + 1 ELSE t
      <3> SUFFICES ASSUME NEW j \in 1..Len(Channels), Share(r, Channels[j]) < Share(rows, Channels[j])
                   PROVE  Share(r, Channels[j]) >= IF j <= k THEN t + 1 ELSE t
        OBVIOUS
      <3>1. CASE j = k
        <4>1. Share(r, Channels[j]) = Share(sel, Channels[j]) + 1
          BY <2>1, <3>1
        <4>2. Share(sel, Channels[j]) < Share(rows, Channels[j])
          BY <1>3, <4>1
        <4>3. Share(sel, Channels[j]) >= t
          BY <1>3, <2>3, <2>4, <3>1, <4>2
        <4> QED
          BY <1>3, <2>4, <3>1, <4>1, <4>3
      <3>2. CASE j # k
        BY <1>2, <1>3, <2>1, <2>3, <3>2
      <3> QED
        BY <3>1, <3>2
    <2>7. SharesEvenly(r, rows)
      BY <1>6, <2>4, <2>5, <2>6, EvenShares
    <2> QED
      BY <2>5, <2>6, <2>7 DEF Even
  <1>7. Serve(rows, Channels[k])[sel] \in Seq(Messages)
    BY <1>0, ServeType
  <1>8. \/ /\ Len(sel) = Limit \/ Waiting(rows, sel, Channels[k]) = {}
           /\ Serve(rows, Channels[k])[sel] = sel
        \/ /\ Len(sel) < Limit
           /\ \E i \in DOMAIN rows :
                /\ rows[i] \notin ToSet(sel) /\ ChannelOf[rows[i]] = Channels[k]
                /\ ToSet(Serve(rows, Channels[k])[sel]) = ToSet(sel) \cup {rows[i]}
    <2>1. PICK c : c = Channels[k]
      OBVIOUS
    <2>2. \/ /\ Len(sel) = Limit \/ Waiting(rows, sel, c) = {}
             /\ Serve(rows, c)[sel] = sel
          \/ /\ Len(sel) < Limit
             /\ \E i \in DOMAIN rows :
                  /\ i \in Waiting(rows, sel, c) /\ \A j \in Waiting(rows, sel, c) : i <= j
                  /\ rows[i] \notin ToSet(sel) /\ ChannelOf[rows[i]] = c
                  /\ Serve(rows, c)[sel] = Append(sel, rows[i])
                  /\ Append(sel, rows[i]) \in Seq(ToSet(rows))
                  /\ IsInjective(Append(sel, rows[i]))
                  /\ ToSet(Append(sel, rows[i])) = ToSet(sel) \cup {rows[i]}
                  /\ Len(Append(sel, rows[i])) = Len(sel) + 1
                  /\ \A q \in DOMAIN sel : Append(sel, rows[i])[q] = sel[q]
                  /\ Append(sel, rows[i])[Len(sel) + 1] = rows[i]
      BY ServeStep, SMTT(30)
    <2>3. \/ /\ Len(sel) = Limit \/ Waiting(rows, sel, c) = {}
             /\ Serve(rows, c)[sel] = sel
          \/ /\ Len(sel) < Limit
             /\ \E i \in DOMAIN rows :
                  /\ rows[i] \notin ToSet(sel) /\ ChannelOf[rows[i]] = c
                  /\ ToSet(Serve(rows, c)[sel]) = ToSet(sel) \cup {rows[i]}
      BY <2>2, Zenon
    <2> QED
      BY <2>1, <2>3, Zenon
  <1>9. PICK r : r = Serve(rows, Channels[k])[sel]
    OBVIOUS
  <1> QED
    BY <1>5, <1>6, <1>7, <1>8, <1>9

-----------------------------------------------------------------------------
(* The passes.                                                             *)

\* A channel's turn keeps what is selected, and adds to it when it can.
LEMMA ServeGrows ==
  ASSUME NEW rows \in Seq(Messages), NEW c, NEW sel, Sound(sel, rows)
  PROVE  /\ Serve(rows, c)[sel] = sel \/ Len(Serve(rows, c)[sel]) = Len(sel) + 1
         /\ Len(sel) < Limit /\ Waiting(rows, sel, c) # {} =>
              Len(Serve(rows, c)[sel]) = Len(sel) + 1
  <1>1. Len(sel) \in Nat /\ Limit \in Nat
    BY FairAssumption DEF Sound
  <1>2. \/ /\ Len(sel) = Limit \/ Waiting(rows, sel, c) = {}
           /\ Serve(rows, c)[sel] = sel
        \/ Len(Serve(rows, c)[sel]) = Len(sel) + 1
    BY ServeStep
  <1> QED
    BY <1>1, <1>2

\* While the batch has room there is a row left for it.
LEMMA RowLeft ==
  ASSUME NEW rows \in Seq(Messages), IsInjective(rows), NEW sel, Sound(sel, rows),
         Len(sel) < Len(rows)
  PROVE  \E k \in 1..Len(Channels) : Waiting(rows, sel, Channels[k]) # {}
  <1>1. /\ Len(sel) \in Nat /\ Len(rows) \in Nat /\ DOMAIN sel = 1..Len(sel)
        /\ DOMAIN rows = 1..Len(rows)
    BY DEF Sound
  <1>2. PICK i \in DOMAIN rows : rows[i] \notin ToSet(sel)
    <2> SUFFICES ASSUME \A i \in DOMAIN rows : rows[i] \in ToSet(sel) PROVE FALSE
      OBVIOUS
    <2> DEFINE f == [i \in 1..Len(rows) |-> CHOOSE q \in 1..Len(sel) : sel[q] = rows[i]]
    <2>1. \A i \in 1..Len(rows) : \E q \in 1..Len(sel) : sel[q] = rows[i]
      BY <1>1 DEF ToSet
    <2>2. \A i \in 1..Len(rows) : f[i] \in 1..Len(sel) /\ sel[f[i]] = rows[i]
      BY <2>1
    <2>3. f \in [1..Len(rows) -> 1..Len(sel)]
      BY <2>2
    <2> HIDE DEF f
    <2>4. /\ IsFiniteSet(1..Len(rows)) /\ Cardinality(1..Len(rows)) = Len(rows)
          /\ IsFiniteSet(1..Len(sel)) /\ Cardinality(1..Len(sel)) = Len(sel)
      BY <1>1, CountTo
    <2>5. PICK x \in 1..Len(rows), y \in 1..Len(rows) : x # y /\ f[x] = f[y]
      <3>1. Cardinality(1..Len(sel)) < Cardinality(1..Len(rows))
        BY <1>1, <2>4
      <3> QED
        BY <2>3, <2>4, <3>1, FS_PigeonHole, Zenon
    <2>6. rows[x] = rows[y]
      BY <2>2, <2>5
    <2> QED
      BY <1>1, <2>5, <2>6 DEF IsInjective
  <1>3. ChannelOf[rows[i]] \in ToSet(Channels)
    BY <1>1, <1>2, FairAssumption
  <1>4. PICK k \in 1..Len(Channels) : Channels[k] = ChannelOf[rows[i]]
    BY <1>3, FairAssumption DEF ToSet
  <1>5. i \in Waiting(rows, sel, Channels[k])
    BY <1>2, <1>4 DEF Waiting
  <1> QED
    BY <1>5

\* A pass keeps the order and the shares even, and selects a row.
LEMMA RoundResult ==
  ASSUME NEW rows \in Seq(Messages), IsInjective(rows), Limit < Len(rows),
         NEW sel, Sound(sel, rows), NEW t \in Nat, Even(sel, rows, t, 0)
  PROVE  /\ Sound(Round(rows)[sel], rows)
         /\ Even(Round(rows)[sel], rows, t + 1, 0)
         /\ Len(sel) < Limit => Len(Round(rows)[sel]) > Len(sel)
         /\ Len(Round(rows)[sel]) >= Len(sel)
  <1> DEFINE N == Len(Channels)
  <1>0. N \in Nat /\ sel \in Seq(Messages) /\ Len(sel) \in Nat /\ Limit \in Nat /\ Len(rows) \in Nat
    BY FairAssumption DEF Sound
  <1>1. PICK served \in [0..N -> Seq(Messages)] :
          /\ served[0] = sel
          /\ \A k \in 1..N : served[k] = Serve(rows, Channels[k])[served[k - 1]]
          /\ Round(rows)[sel] = served[N]
    BY <1>0, RoundLoop
  <1>2. \A k \in 0..N : Len(served[k]) \in Nat
    BY <1>1
  <1> DEFINE S == {k \in 0..N : /\ Sound(served[k], rows)
                                /\ Even(served[k], rows, t, k)
                                /\ served[k] = sel \/ Len(served[k]) > Len(sel)}
  <1>3. 0 \in S
    BY <1>0, <1>1
  <1>4. ASSUME NEW k \in 1..N, k - 1 \in S PROVE k \in S
    <2>1. k - 1 \in 0..N /\ k \in 0..N
      BY <1>0
    <2>2. /\ Sound(served[k - 1], rows) /\ Even(served[k - 1], rows, t, k - 1)
          /\ served[k - 1] = sel \/ Len(served[k - 1]) > Len(sel)
      BY <1>4
    <2>3. Sound(served[k], rows)
      BY <1>1, <2>2, ServeSound
    <2>4. Even(served[k], rows, t, k)
      BY <1>1, <2>2, ServeEven
    <2>5. served[k] = served[k - 1] \/ Len(served[k]) = Len(served[k - 1]) + 1
      <3>1. PICK c, s : c = Channels[k] /\ s = served[k - 1]
        OBVIOUS
      <3>2. Serve(rows, c)[s] = s \/ Len(Serve(rows, c)[s]) = Len(s) + 1
        BY <2>2, <3>1, ServeGrows
      <3> QED
        BY <1>1, <3>1, <3>2
    <2>6. served[k] = sel \/ Len(served[k]) > Len(sel)
      BY <1>0, <1>2, <2>1, <2>2, <2>5
    <2> QED
      BY <2>1, <2>3, <2>4, <2>6
  <1> HIDE DEF S
  <1>5. \A k \in 0..N : k \in S
    BY <1>0, <1>3, <1>4, NatSetInduction
  <1>6. \A k \in 0..N : /\ Sound(served[k], rows) /\ Even(served[k], rows, t, k)
                        /\ served[k] = sel \/ Len(served[k]) > Len(sel)
    BY <1>5 DEF S
  <1>7. N \in 0..N
    BY <1>0
  <1>8. Even(served[N], rows, t + 1, 0)
    <2>1. \A j \in 1..Len(Channels) : j <= N /\ ~(j <= 0)
      BY <1>0
    <2>2. Even(served[N], rows, t, N)
      BY <1>6, <1>7
    <2> QED
      BY <2>1, <2>2 DEF Even
  <1>9. ASSUME Len(sel) < Limit PROVE Len(served[N]) > Len(sel)
    <2>0. Len(sel) < Len(rows)
      BY <1>0, <1>9
    <2>1. PICK k0 \in 1..N : Waiting(rows, sel, Channels[k0]) # {}
      BY <2>0, RowLeft
    <2> DEFINE T == {k \in 0..N : k >= k0 => Len(served[k]) > Len(sel)}
    <2>2. 0 \in T
      BY <1>0, <2>1
    <2>3. ASSUME NEW k \in 1..N, k - 1 \in T PROVE k \in T
      <3>1. k - 1 \in 0..N /\ k \in 0..N
        BY <1>0
      <3>2. served[k] = served[k - 1] \/ Len(served[k]) = Len(served[k - 1]) + 1
        <4>1. PICK c, s : c = Channels[k] /\ s = served[k - 1]
          OBVIOUS
        <4>2. Sound(s, rows)
          BY <1>6, <3>1, <4>1
        <4>3. Serve(rows, c)[s] = s \/ Len(Serve(rows, c)[s]) = Len(s) + 1
          BY <4>2, ServeGrows
        <4> QED
          BY <1>1, <4>1, <4>3
      <3>3. CASE k = k0
        <4>1. CASE served[k - 1] = sel
          <5>1. Len(served[k]) = Len(sel) + 1
            BY <1>1, <1>9, <2>1, <3>3, <4>1, ServeGrows, SMTT(30)
          <5> QED
            BY <1>0, <3>1, <5>1
        <4>2. CASE Len(served[k - 1]) > Len(sel)
          BY <1>0, <1>2, <3>1, <3>2, <4>2
        <4> QED
          BY <1>6, <3>1, <4>1, <4>2
      <3>4. CASE k > k0
        <4>1. k - 1 >= k0
          BY <1>0, <2>1, <3>4
        <4>2. Len(served[k - 1]) > Len(sel)
          BY <2>3, <4>1
        <4> QED
          BY <1>0, <1>2, <3>1, <3>2, <4>2
      <3>5. CASE k < k0
        BY <1>0, <2>1, <3>1, <3>5
      <3> QED
        BY <1>0, <2>1, <3>3, <3>4, <3>5
    <2> HIDE DEF T
    <2>4. \A k \in 0..N : k \in T
      BY <1>0, <2>2, <2>3, NatSetInduction
    <2>5. N >= k0
      BY <1>0, <2>1
    <2> QED
      BY <1>7, <2>4, <2>5 DEF T
  <1>10. Len(served[N]) >= Len(sel)
    <2>1. served[N] = sel \/ Len(served[N]) > Len(sel)
      BY <1>6, <1>7
    <2>2. Len(served[N]) \in Nat
      BY <1>2, <1>7
    <2> QED
      BY <1>0, <2>1, <2>2
  <1> QED
    BY <1>1, <1>6, <1>7, <1>8, <1>9, <1>10

\* What selectFairRows returns: a batch that is as full as it can be, takes the
\* rows of each channel in order and shares the room evenly.
LEMMA SelectionResult ==
  ASSUME NEW rows \in Seq(Messages), IsInjective(rows)
  PROVE  /\ Len(selectFairRows(rows)) = Min({Len(rows), Limit})
         /\ TakesInOrder(selectFairRows(rows), rows)
         /\ SharesEvenly(selectFairRows(rows), rows)
  <1>0. Limit \in Nat /\ Len(rows) \in Nat /\ DOMAIN rows = 1..Len(rows)
    BY FairAssumption
  <1>1. CASE Len(rows) <= Limit
    <2>1. selectFairRows(rows) = rows
      BY <1>1 DEF selectFairRows
    <2>2. Min({Len(rows), Limit}) = Len(rows)
      <3>1. PICK x : x = Min({Len(rows), Limit})
        OBVIOUS
      <3>2. x \in {Len(rows), Limit} /\ x <= Len(rows)
        BY <1>0, <3>1, MinProperties
      <3> QED
        BY <1>0, <1>1, <3>1, <3>2
    <2>3. TakesInOrder(rows, rows)
      <3>1. rows \in Seq(ToSet(rows))
        BY <1>0 DEF ToSet
      <3>2. ASSUME NEW i \in DOMAIN rows, NEW j \in DOMAIN rows, NEW q \in DOMAIN rows,
                   i < j, rows[q] = rows[j]
            PROVE  \E p \in 1..(q - 1) : rows[p] = rows[i]
        <4>1. q = j
          BY <3>2 DEF IsInjective
        <4>2. i \in 1..(q - 1)
          BY <1>0, <3>2, <4>1
        <4> QED
          BY <4>2
      <3> QED
        BY <3>1, <3>2 DEF TakesInOrder
    <2>4. SharesEvenly(rows, rows)
      <3>1. \A c : Share(rows, c) \in Nat
        BY ShareType
      <3>2. \A c : ~(Share(rows, c) < Share(rows, c))
        BY <3>1
      <3> QED
        BY <3>2 DEF SharesEvenly
    <2> QED
      BY <2>1, <2>2, <2>3, <2>4
  <1>2. CASE ~(Len(rows) <= Limit)
    <2>0. Limit < Len(rows)
      BY <1>0, <1>2
    <2>1. PICK rounds \in [0..Limit -> Seq(Messages)] :
            /\ rounds[0] = <<>>
            /\ \A t \in 1..Limit : rounds[t] = Round(rows)[rounds[t - 1]]
            /\ selectFairRows(rows) = rounds[Limit]
      BY <1>2, SelectLoop
    <2>2. \A t \in 0..Limit : Len(rounds[t]) \in Nat
      BY <2>1
    <2> DEFINE S == {t \in 0..Limit : /\ Sound(rounds[t], rows)
                                      /\ Even(rounds[t], rows, t, 0)
                                      /\ Len(rounds[t]) >= t}
    <2>3. 0 \in S
      <3>0. <<>> \in Seq(Messages)
        OBVIOUS
      <3>1. PICK e : e = <<>>
        OBVIOUS
      <3>2. e \in Seq(ToSet(rows)) /\ IsInjective(e) /\ DOMAIN e = {} /\ Len(e) = 0 /\ ToSet(e) = {}
        BY <3>0, <3>1 DEF IsInjective, ToSet
      <3>3. Sound(e, rows)
        BY <1>0, <3>2 DEF Sound, TakesInOrder
      <3>4. \A c : Share(e, c) = 0
        <4>1. \A c : {m \in ToSet(e) : ChannelOf[m] = c} = {}
          BY <3>2
        <4> QED
          BY <4>1, FS_EmptySet DEF Share
      <3>5. \A j \in 1..Len(Channels) : ~(j <= 0)
        BY FairAssumption
      <3>6. SharesEvenly(e, rows)
        BY <3>4 DEF SharesEvenly
      <3>7. Even(e, rows, 0, 0)
        BY <3>4, <3>5, <3>6 DEF Even
      <3>8. Sound(rounds[0], rows) /\ Even(rounds[0], rows, 0, 0) /\ Len(rounds[0]) >= 0
        BY <2>1, <3>1, <3>2, <3>3, <3>7
      <3> QED
        BY <1>0, <3>8
    <2>4. ASSUME NEW t \in 1..Limit, t - 1 \in S PROVE t \in S
      <3>1. t - 1 \in 0..Limit /\ t \in 0..Limit /\ t - 1 \in Nat /\ (t - 1) + 1 = t
        BY <1>0
      <3>2. Sound(rounds[t - 1], rows) /\ Even(rounds[t - 1], rows, t - 1, 0) /\ Len(rounds[t - 1]) >= t - 1
        BY <2>4
      <3>3. PICK u \in Nat : u = t - 1
        BY <3>1
      <3>4. /\ Sound(rounds[t], rows) /\ Even(rounds[t], rows, u + 1, 0)
            /\ Len(rounds[t - 1]) < Limit => Len(rounds[t]) > Len(rounds[t - 1])
            /\ Len(rounds[t]) >= Len(rounds[t - 1])
        BY <2>0, <2>1, <3>2, <3>3, RoundResult
      <3>5. Len(rounds[t]) >= t
        BY <1>0, <2>2, <3>1, <3>2, <3>4
      <3>6. u + 1 = t
        BY <3>1, <3>3
      <3> QED
        BY <3>1, <3>4, <3>5, <3>6
    <2> HIDE DEF S
    <2>5. \A t \in 0..Limit : t \in S
      BY <1>0, <2>3, <2>4, NatSetInduction
    <2>6. Sound(rounds[Limit], rows) /\ Even(rounds[Limit], rows, Limit, 0) /\ Len(rounds[Limit]) >= Limit
      BY <1>0, <2>5 DEF S
    <2>7. Len(rounds[Limit]) = Limit
      BY <1>0, <2>2, <2>6 DEF Sound
    <2>8. Min({Len(rows), Limit}) = Limit
      <3>1. PICK x : x = Min({Len(rows), Limit})
        OBVIOUS
      <3>2. x \in {Len(rows), Limit} /\ x <= Limit
        BY <1>0, <3>1, MinProperties
      <3> QED
        BY <1>0, <2>0, <3>1, <3>2
    <2> QED
      BY <2>1, <2>6, <2>7, <2>8 DEF Sound, Even
  <1> QED
    BY <1>1, <1>2

-----------------------------------------------------------------------------
(* The order of a batch.                                                   *)

\* A batch of a line consists of distinct committed rows of the line, each after
\* the older of these of its channel.
LEMMA BatchOrder ==
  ASSUME table \in Seq(Messages), IsInjective(table), NEW l, OldestRows(l) # <<>>
  PROVE  /\ selectFairRows(OldestRows(l)) # <<>>
         /\ selectFairRows(OldestRows(l)) \in Seq(Committed)
         /\ IsInjective(selectFairRows(OldestRows(l)))
         /\ \A i \in DOMAIN selectFairRows(OldestRows(l)) :
              /\ LineOf[selectFairRows(OldestRows(l))[i]] = l
              /\ \A m \in Committed : Older(m, selectFairRows(OldestRows(l))[i]) =>
                   \E j \in 1..(i - 1) : selectFairRows(OldestRows(l))[j] = m
  <1>1. PICK rows \in Seq(Messages) : rows = OldestRows(l) /\ HasRead(rows, Len(table), l)
    BY QueryResult
  <1>2. PICK batch : batch = selectFairRows(rows)
    OBVIOUS
  <1>3. /\ IsInjective(rows) /\ rows # <<>> /\ Len(rows) \in Nat /\ Len(rows) >= 1
        /\ DOMAIN rows = 1..Len(rows)
    BY <1>1 DEF HasRead
  <1>4. Len(batch) = Min({Len(rows), Limit}) /\ TakesInOrder(batch, rows)
    BY <1>2, <1>3, SelectionResult
  <1>5. batch \in Seq(ToSet(rows)) /\ IsInjective(batch) /\ DOMAIN batch = 1..Len(batch)
    BY <1>4 DEF TakesInOrder
  <1>6. batch # <<>>
    <2>1. PICK x : x = Min({Len(rows), Limit})
      OBVIOUS
    <2>2. x \in {Len(rows), Limit}
      BY <1>3, <2>1, FairAssumption, MinProperties
    <2>3. Len(batch) >= 1
      BY <1>3, <1>4, <2>1, <2>2, FairAssumption
    <2> QED
      BY <2>3
  <1>7. \A q \in DOMAIN rows : rows[q] \in Committed /\ LineOf[rows[q]] = l
    <2>1. \A q \in DOMAIN rows : rows[q] \in ToSet(table) /\ Readable(rows[q], l)
      BY <1>1, <1>3 DEF HasRead, ToSet
    <2> QED
      BY <2>1 DEF Readable, Committed
  <1>8. \A i \in DOMAIN batch : \E q \in DOMAIN rows : batch[i] = rows[q]
    BY <1>5 DEF ToSet
  <1>9. batch \in Seq(Committed)
    <2>1. ToSet(rows) \subseteq Committed
      BY <1>7 DEF ToSet
    <2> QED
      BY <1>5, <2>1, SeqMonotonic
  <1>10. ASSUME NEW i \in DOMAIN batch, NEW m \in Committed, Older(m, batch[i])
         PROVE  \E j \in 1..(i - 1) : batch[j] = m
    <2>1. PICK a \in DOMAIN table, b \in DOMAIN table :
            a < b /\ table[a] = m /\ table[b] = batch[i]
      BY <1>10 DEF Older
    <2>2. ChannelOf[m] = ChannelOf[batch[i]] /\ LineOf[m] = LineOf[batch[i]]
      BY <1>10 DEF Older
    <2>3. PICK q \in DOMAIN rows : batch[i] = rows[q]
      BY <1>8
    <2>4. PICK p \in DOMAIN rows : p < q /\ rows[p] = m
      <3>1. Readable(table[a], l) /\ rows[q] = table[b]
        BY <1>7, <2>1, <2>2, <2>3 DEF Readable, Committed
      <3>2. PICK p \in 1..(q - 1) : rows[p] = table[a]
        BY <1>1, <2>1, <3>1 DEF HasRead
      <3>3. p \in DOMAIN rows /\ p < q
        BY <1>3, <3>2
      <3> QED
        BY <2>1, <3>2, <3>3
    <2> QED
      BY <1>4, <2>2, <2>3, <2>4 DEF TakesInOrder
  <1> QED
    BY <1>1, <1>2, <1>5, <1>6, <1>7, <1>8, <1>9, <1>10

\* The selection keeps the order of the query.
LEMMA SelectionOrder ==
  ASSUME table \in Seq(Messages), IsInjective(table)
  PROVE  SelectionKeepsOrder
  BY BatchOrder DEF SelectionKeepsOrder

-----------------------------------------------------------------------------
(* No channel is passed over.                                              *)

\* Two rows of a channel.
LEMMA ShareTwo ==
  ASSUME NEW s \in Seq(Messages), NEW a \in ToSet(s), NEW b \in ToSet(s), a # b,
         ChannelOf[a] = ChannelOf[b]
  PROVE  Share(s, ChannelOf[a]) >= 2
  <1> DEFINE A == {m \in ToSet(s) : ChannelOf[m] = ChannelOf[a]}
  <1>1. IsFiniteSet(A) /\ {a} \cup {b} \in SUBSET A
    BY ShareType
  <1> HIDE DEF A
  <1>2. Cardinality({a} \cup {b}) = 2
    <2>1. IsFiniteSet({a}) /\ Cardinality({a}) = 1 /\ b \notin {a}
      BY FS_Singleton
    <2>2. Cardinality({a} \cup {b}) = Cardinality({a}) + 1
      BY <2>1, FS_AddElement
    <2>3. Cardinality({a}) = 1
      BY <2>1, Zenon
    <2>4. 1 + 1 = 2
      OBVIOUS
    <2> QED
      BY <2>2, <2>3, <2>4, Zenon
  <1>3. Cardinality({a} \cup {b}) <= Cardinality(A) /\ Cardinality(A) \in Nat
    BY <1>1, FS_Subset, FS_CardinalityType
  <1> QED
    BY <1>2, <1>3 DEF Share, A

\* With no more channels than room, every channel gets a row: otherwise some other
\* channel would have two.
LEMMA ChannelsServed ==
  ASSUME NEW rows \in Seq(Messages), IsInjective(rows),
         Cardinality(ChannelsOf(rows)) <= Limit
  PROVE  ChannelsOf(selectFairRows(rows)) = ChannelsOf(rows)
  <1>0. Limit \in Nat /\ Len(rows) \in Nat
    BY FairAssumption
  <1>1. CASE Len(rows) <= Limit
    BY <1>1 DEF selectFairRows
  <1>2. CASE ~(Len(rows) <= Limit)
    <2>1. PICK batch : batch = selectFairRows(rows)
      OBVIOUS
    <2>2. /\ Len(batch) = Min({Len(rows), Limit}) /\ SharesEvenly(batch, rows)
          /\ batch \in Seq(ToSet(rows)) /\ IsInjective(batch)
      BY <2>1, SelectionResult DEF TakesInOrder
    <2>3. Len(batch) = Limit
      <3>1. PICK x : x = Min({Len(rows), Limit})
        OBVIOUS
      <3>2. x \in {Len(rows), Limit} /\ x <= Limit
        BY <1>0, <3>1, MinProperties
      <3> QED
        BY <1>0, <1>2, <2>2, <3>1, <3>2
    <2>4. ToSet(rows) \subseteq Messages /\ ToSet(batch) \subseteq ToSet(rows)
      BY <2>2, ToSetType
    <2>5. batch \in Seq(Messages)
      BY <2>2, <2>4, SeqMonotonic
    <2>6. ChannelsOf(batch) \subseteq ChannelsOf(rows)
      BY <2>4 DEF ChannelsOf
    <2>7. ASSUME NEW c \in ChannelsOf(rows), c \notin ChannelsOf(batch) PROVE FALSE
      <3>1. ChannelsOf(rows) \subseteq ToSet(Channels)
        BY <2>4, FairAssumption DEF ChannelsOf
      <3>2. Share(batch, c) = 0
        <4>1. {m \in ToSet(batch) : ChannelOf[m] = c} = {}
          BY <2>7 DEF ChannelsOf
        <4> QED
          BY <4>1, FS_EmptySet DEF Share
      <3>3. Share(rows, c) > 0
        <4> DEFINE A == {m \in ToSet(rows) : ChannelOf[m] = c}
        <4>1. A # {} /\ IsFiniteSet(A)
          BY ShareType DEF ChannelsOf
        <4> HIDE DEF A
        <4>2. Cardinality(A) \in Nat /\ Cardinality(A) # 0
          BY <4>1, FS_CardinalityType, FS_EmptySet
        <4>3. Share(rows, c) = Cardinality(A)
          BY DEF Share, A
        <4> QED
          BY <4>2, <4>3
      <3>4. \A d \in ToSet(Channels) : Share(batch, d) <= 1
        BY <2>2, <3>1, <3>2, <3>3 DEF SharesEvenly
      <3> DEFINE C == ChannelsOf(rows)
                 f == [i \in 1..Len(batch) |-> ChannelOf[batch[i]]]
      <3>5. IsFiniteSet(C)
        <4>1. IsFiniteSet(ToSet(rows))
          BY ShareType
        <4>2. [m \in ToSet(rows) |-> ChannelOf[m]] \in Surjection(ToSet(rows), C)
          BY DEF ChannelsOf, Surjection
        <4> HIDE DEF C
        <4> QED
          BY <4>1, <4>2, FS_Surjection
      <3>6. f \in [1..Len(batch) -> C \ {c}]
        <4>1. \A i \in 1..Len(batch) : batch[i] \in ToSet(batch)
          BY <2>2 DEF ToSet
        <4>2. \A i \in 1..Len(batch) : ChannelOf[batch[i]] \in ChannelsOf(batch)
          BY <4>1 DEF ChannelsOf
        <4> QED
          BY <2>6, <2>7, <4>2
      <3>7. IsFiniteSet(C \ {c}) /\ Cardinality(C \ {c}) = Cardinality(C) - 1 /\ Cardinality(C) \in Nat
        BY <2>7, <3>5, FS_RemoveElement, FS_CardinalityType
      <3>8. IsFiniteSet(1..Limit) /\ Cardinality(1..Limit) = Limit
        BY <1>0, CountTo
      <3>9. Cardinality(C \ {c}) < Limit
        BY <1>0, <3>7
      <3> HIDE DEF f, C
      <3>10. PICK x \in 1..Limit, y \in 1..Limit : x # y /\ f[x] = f[y]
        <4>1. f \in [1..Limit -> C \ {c}]
          BY <2>3, <3>6
        <4>2. Cardinality(C \ {c}) < Cardinality(1..Limit)
          BY <3>8, <3>9
        <4> QED
          BY <3>7, <3>8, <4>1, <4>2, FS_PigeonHole, Zenon
      <3>11. /\ batch[x] \in ToSet(batch) /\ batch[y] \in ToSet(batch) /\ batch[x] # batch[y]
             /\ ChannelOf[batch[x]] = ChannelOf[batch[y]]
        <4>1. DOMAIN batch = 1..Limit
          BY <2>2, <2>3
        <4>2. batch[x] # batch[y]
          BY <2>2, <3>10, <4>1 DEF IsInjective
        <4>3. f[x] = ChannelOf[batch[x]] /\ f[y] = ChannelOf[batch[y]]
          BY <2>3, <3>10 DEF f
        <4> QED
          BY <3>10, <4>1, <4>2, <4>3 DEF ToSet
      <3>12. Share(batch, ChannelOf[batch[x]]) >= 2
        BY <2>5, <3>11, ShareTwo
      <3>13. ChannelOf[batch[x]] \in ToSet(Channels) /\ Share(batch, ChannelOf[batch[x]]) \in Nat
        BY <2>4, <2>5, <3>11, ShareType, FairAssumption
      <3> QED
        BY <3>4, <3>12, <3>13
    <2> QED
      BY <2>1, <2>6, <2>7
  <1> QED
    BY <1>1, <1>2
=============================================================================
