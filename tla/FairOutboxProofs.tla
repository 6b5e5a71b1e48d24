-------------------------- MODULE FairOutboxProofs --------------------------
(***************************************************************************)
(* Proofs about the dispatcher's batches, for any number of rows, channels *)
(* and stops and any size of batch and window.                             *)
(*                                                                         *)
(* What the query and selectFairRows choose is the subject of             *)
(* SelectionProofs.  Added here is everything around the choice:           *)
(* publishing row by row, confirms, stops in the middle of a batch and new *)
(* rows at any time.                                                       *)
(***************************************************************************)
EXTENDS SelectionProofs

-----------------------------------------------------------------------------
(* Sequences of distinct elements.                                         *)

\* Taking the first element off.
LEMMA TailDistinct ==
  ASSUME NEW S, NEW s \in Seq(S), s # <<>>, IsInjective(s)
  PROVE  /\ Head(s) \in ToSet(s) /\ Head(s) \in S /\ Head(s) = s[1]
         /\ Tail(s) \in Seq(S) /\ IsInjective(Tail(s))
         /\ ToSet(Tail(s)) = ToSet(s) \ {Head(s)}
         /\ Len(Tail(s)) = Len(s) - 1
         /\ \A i \in DOMAIN Tail(s) : i + 1 \in DOMAIN s /\ Tail(s)[i] = s[i + 1]
  <1>1. /\ Len(s) \in Nat /\ Len(s) >= 1 /\ Head(s) = s[1] /\ DOMAIN s = 1..Len(s)
        /\ Tail(s) \in Seq(S) /\ Len(Tail(s)) = Len(s) - 1
        /\ DOMAIN Tail(s) = 1..(Len(s) - 1)
    OBVIOUS
  <1>2. \A i \in DOMAIN Tail(s) : Tail(s)[i] = s[i + 1]
    BY <1>1
  <1>3. IsInjective(Tail(s))
    BY <1>1, <1>2 DEF IsInjective
  <1>4. ToSet(Tail(s)) \subseteq ToSet(s) \ {Head(s)}
    BY <1>1, <1>2 DEF ToSet, IsInjective
  <1>5. ASSUME NEW x \in ToSet(s), x # Head(s) PROVE x \in ToSet(Tail(s))
    <2>1. PICK i \in 1..Len(s) : x = s[i]
      BY <1>1 DEF ToSet
    <2>2. i - 1 \in DOMAIN Tail(s) /\ (i - 1) + 1 = i
      BY <1>1, <1>5, <2>1
    <2>3. Tail(s)[i - 1] = x
      BY <1>2, <2>1, <2>2
    <2> QED
      BY <2>2, <2>3 DEF ToSet
  <1>6. Head(s) \in ToSet(s) /\ Head(s) \in S
    BY <1>1 DEF ToSet
  <1> QED
    BY <1>1, <1>2, <1>3, <1>4, <1>5, <1>6

\* The rest of a sequence from a place on.
LEMMA RestOfSeq ==
  ASSUME NEW S, NEW s \in Seq(S), NEW n \in 1..(Len(s) + 1)
  PROVE  /\ SubSeq(s, n, Len(s)) \in Seq(S)
         /\ Len(SubSeq(s, n, Len(s))) = Len(s) - n + 1
         /\ \A i \in 1..(Len(s) - n + 1) : SubSeq(s, n, Len(s))[i] = s[n + i - 1]
  OBVIOUS

\* Removing an element keeps the order of the others.
LEMMA RemoveDistinct ==
  ASSUME NEW S, NEW s \in Seq(S), NEW x \in ToSet(s), IsInjective(s)
  PROVE  /\ RemoveFirst(s, x) \in Seq(S) /\ IsInjective(RemoveFirst(s, x))
         /\ ToSet(RemoveFirst(s, x)) = ToSet(s) \ {x}
         /\ \A i, j \in DOMAIN RemoveFirst(s, x) : i < j =>
              \E p, q \in DOMAIN s : /\ p < q
                                     /\ RemoveFirst(s, x)[i] = s[p]
                                     /\ RemoveFirst(s, x)[j] = s[q]
  <1>1. Len(s) \in Nat /\ DOMAIN s = 1..Len(s)
    OBVIOUS
  <1>2. PICK k \in 1..Len(s) : s[k] = x
    BY <1>1 DEF ToSet
  <1>3. \A i \in 1..Len(s) : s[i] = x <=> i = k
    BY <1>1, <1>2 DEF IsInjective
  <1> DEFINE A == SubSeq(s, 1, k - 1)
             B == SubSeq(s, k + 1, Len(s))
             r == A \o B
  <1>4. RemoveFirst(s, x) = r
    <2>1. {i \in 1..Len(s) : s[i] = x} = {k}
      BY <1>3
    <2>2. SelectInSeq(s, LAMBDA v : v = x) = Min({k})
      BY <2>1 DEF SelectInSeq
    <2>3. Min({k}) = k
      BY <1>1 DEF Min
    <2> QED
      BY <1>1, <1>2, <2>2, <2>3 DEF RemoveFirst, RemoveAt
  <1>5. /\ A \in Seq(S) /\ Len(A) = k - 1
        /\ \A i \in 1..(k - 1) : A[i] = s[i]
    BY <1>1
  <1>6. /\ B \in Seq(S) /\ Len(B) = Len(s) - k
        /\ \A i \in 1..(Len(s) - k) : B[i] = s[k + i]
    <2>1. PICK n \in 1..(Len(s) + 1) : n = k + 1
      BY <1>1
    <2>2. /\ B \in Seq(S) /\ Len(B) = Len(s) - n + 1
          /\ \A i \in 1..(Len(s) - n + 1) : B[i] = s[n + i - 1]
      BY <2>1, RestOfSeq
    <2>3. \A i \in 1..(Len(s) - k) : n + i - 1 = k + i
      BY <1>1, <2>1
    <2>4. Len(s) - n + 1 = Len(s) - k
      BY <1>1, <2>1
    <2> QED
      BY <2>2, <2>3, <2>4
  <1>7. /\ r \in Seq(S) /\ DOMAIN r = 1..(Len(s) - 1)
        /\ \A i \in 1..(Len(s) - 1) : r[i] = IF i < k THEN s[i] ELSE s[i + 1]
    <2> HIDE DEF A, B
    <2>1. /\ r \in Seq(S) /\ Len(r) = Len(A) + Len(B)
          /\ \A i \in 1..Len(A) + Len(B) : r[i] = IF i <= Len(A) THEN A[i] ELSE B[i - Len(A)]
      BY <1>5, <1>6, ConcatProperties
    <2> HIDE DEF r
    <2>2. DOMAIN r = 1..(Len(s) - 1) /\ Len(r) = Len(s) - 1
      BY <1>1, <1>5, <1>6, <2>1
    <2>3. ASSUME NEW i \in 1..(Len(s) - 1), i < k PROVE r[i] = s[i]
      <3>1. i \in 1..(k - 1) /\ i <= k - 1 /\ i \in 1..(k - 1) + (Len(s) - k)
        BY <1>1, <2>3
      <3>2. r[i] = A[i]
        BY <1>5, <1>6, <2>1, <3>1
      <3> QED
        BY <1>5, <3>1, <3>2
    <2>4. ASSUME NEW i \in 1..(Len(s) - 1), ~(i < k) PROVE r[i] = s[i + 1]
      <3>1. i - (k - 1) \in 1..(Len(s) - k) /\ k + (i - (k - 1)) = i + 1 /\ ~(i <= k - 1)
        BY <1>1, <2>4
      <3>2. i \in 1..(k - 1) + (Len(s) - k)
        BY <1>1
      <3>3. r[i] = B[i - (k - 1)]
        BY <1>5, <1>6, <2>1, <3>1, <3>2
      <3> QED
        BY <1>6, <3>1, <3>3
    <2> QED
      BY <2>1, <2>2, <2>3, <2>4
  <1> HIDE DEF r
  <1>8. IsInjective(r)
    <2> SUFFICES ASSUME NEW a \in DOMAIN r, NEW b \in DOMAIN r, r[a] = r[b] PROVE a = b
      BY DEF IsInjective
    <2> DEFINE Place(i) == IF i < k THEN i ELSE i + 1
    <2>1. /\ Place(a) \in DOMAIN s /\ Place(b) \in DOMAIN s
          /\ s[Place(a)] = s[Place(b)]
      BY <1>1, <1>7
    <2>2. Place(a) = Place(b)
      BY <2>1 DEF IsInjective
    <2> QED
      BY <1>1, <1>7, <2>2
  <1>9. ToSet(r) \subseteq ToSet(s) \ {x}
    BY <1>1, <1>3, <1>7 DEF ToSet
  <1>10. ASSUME NEW y \in ToSet(s), y # x PROVE y \in ToSet(r)
    <2>1. PICK i \in 1..Len(s) : y = s[i]
      BY <1>1 DEF ToSet
    <2>2. CASE i < k
      <3>1. i \in DOMAIN r /\ r[i] = y
        BY <1>1, <1>7, <2>1, <2>2
      <3> QED
        BY <3>1 DEF ToSet
    <2>3. CASE i > k
      <3>1. i - 1 \in 1..(Len(s) - 1) /\ ~(i - 1 < k) /\ (i - 1) + 1 = i
        BY <1>1, <2>1, <2>3
      <3>2. i - 1 \in DOMAIN r /\ r[i - 1] = y
        BY <1>7, <2>1, <3>1
      <3> QED
        BY <3>2 DEF ToSet
    <2> QED
      BY <1>2, <1>10, <2>1, <2>2, <2>3
  <1>11. ASSUME NEW i \in DOMAIN r, NEW j \in DOMAIN r, i < j
         PROVE  \E p, q \in DOMAIN s : p < q /\ r[i] = s[p] /\ r[j] = s[q]
    <2> DEFINE p == IF i < k THEN i ELSE i + 1
               q == IF j < k THEN j ELSE j + 1
    <2>1. p \in DOMAIN s /\ q \in DOMAIN s /\ p < q
      BY <1>1, <1>7, <1>11
    <2>2. r[i] = s[p] /\ r[j] = s[q]
      BY <1>7
    <2> QED
      BY <2>1, <2>2
  <1> QED
    BY <1>4, <1>7, <1>8, <1>9, <1>10, <1>11

-----------------------------------------------------------------------------
(* The order of the rows.                                                  *)

\* Only rows are older than others.
LEMMA OlderRows ==
  ASSUME NEW m, NEW n, Older(m, n)
  PROVE  m \in ToSet(table) /\ n \in ToSet(table)
  BY DEF Older, ToSet

\* An older row of a row that waits was sent, is late or waits before it.
WaitsInOrder ==
    \A i \in DOMAIN toPublish : \A m \in Committed :
        Older(m, toPublish[i]) =>
            m \in sent \cup late \/ \E j \in 1..(i - 1) : toPublish[j] = m

\* The rest of the invariant.
BatchIsKept ==
    /\ IsInjective(toPublish) /\ IsInjective(toConfirm)
    /\ ToSet(toPublish) \cap ToSet(toConfirm) = {}
    /\ ToSet(toConfirm) \ refused \subseteq sent

\* FInv in its parts.
LEMMA FInvParts == FInv <=> TypeOK /\ FifoUnlessLate /\ BatchIsKept /\ WaitsInOrder
  BY DEF FInv, BatchIsKept, WaitsInOrder

\* The same of the next state.
LEMMA FInvPartsNext ==
  FInv' <=> TypeOK' /\ FifoUnlessLate' /\ BatchIsKept' /\ WaitsInOrder'
  BY DEF FInv, BatchIsKept, WaitsInOrder

\* A row leaves the table: the others keep their order.
LEMMA RemoveRow ==
  ASSUME table \in Seq(Messages), IsInjective(table), NEW h \in ToSet(table),
         table' = RemoveFirst(table, h)
  PROVE  /\ table' \in Seq(Messages) /\ IsInjective(table') /\ ToSet(table') = ToSet(table) \ {h}
         /\ \A m, n : Older(m, n)' => Older(m, n) /\ m # h
  <1>1. /\ table' \in Seq(Messages) /\ IsInjective(table') /\ ToSet(table') = ToSet(table) \ {h}
        /\ \A i, j \in DOMAIN table' : i < j =>
             \E p, q \in DOMAIN table : p < q /\ table'[i] = table[p] /\ table'[j] = table[q]
    BY RemoveDistinct
  <1>2. ASSUME NEW m, NEW n, Older(m, n)' PROVE Older(m, n) /\ m # h
    <2>1. PICK i \in DOMAIN table', j \in DOMAIN table' :
            i < j /\ table'[i] = m /\ table'[j] = n
      BY <1>2 DEF Older
    <2>2. \E p, q \in DOMAIN table : p < q /\ table[p] = m /\ table[q] = n
      BY <1>1, <2>1
    <2>3. m \in ToSet(table')
      BY <2>1 DEF ToSet
    <2> QED
      BY <1>1, <1>2, <2>2, <2>3 DEF Older
  <1> QED
    BY <1>1, <1>2

\* What holds initially.
LEMMA InitFInv == Init => FInv
  <1> SUFFICES ASSUME Init PROVE FInv
    OBVIOUS
  <1>1. /\ table = <<>> /\ toPublish = <<>> /\ toConfirm = <<>>
        /\ sent = {} /\ late = {} /\ open = {} /\ refused = {}
    BY DEF Init
  <1>2. ToSet(table) = {} /\ ToSet(toPublish) = {} /\ ToSet(toConfirm) = {}
    BY <1>1 DEF ToSet
  <1>3. IsInjective(table) /\ IsInjective(toPublish) /\ IsInjective(toConfirm)
    BY <1>1 DEF IsInjective
  <1>4. TypeOK
    BY <1>1, <1>2, <1>3, BaseAssumption DEF TypeOK, Init, Lines, Committed
  <1>5. FifoUnlessLate
    BY <1>1 DEF FifoUnlessLate
  <1> QED
    BY <1>1, <1>2, <1>3, <1>4, <1>5 DEF FInv

\* A new row is the youngest.
LEMMA InsertFInv ==
  ASSUME FInv, NEW m \in Messages, Insert(m)
  PROVE  FInv'
  <1>0. TypeOK /\ FifoUnlessLate /\ BatchIsKept /\ WaitsInOrder
    BY FInvParts
  <1>1. /\ table \in Seq(Messages) /\ IsInjective(table) /\ m \notin ToSet(table)
        /\ table' = Append(table, m) /\ open' = open \cup {m}
        /\ UNCHANGED <<turn, toPublish, toConfirm, refused, sent, late, ready, returned, faultsLeft>>
    BY <1>0 DEF TypeOK, Insert, NoFault, batchVars, brokerVars
  <1>2. table' \in Seq(Messages) /\ IsInjective(table') /\ ToSet(table') = ToSet(table) \cup {m}
    BY <1>1, AppendDistinct
  <1>3. Committed' = Committed
    BY <1>1, <1>2 DEF Committed
  <1>4. TypeOK'
    BY <1>0, <1>1, <1>2, <1>3 DEF TypeOK
  <1>5. \A a, b : Older(a, b)' => Older(a, b) \/ b = m
    <2> SUFFICES ASSUME NEW a, NEW b, Older(a, b)', b # m PROVE Older(a, b)
      OBVIOUS
    <2>1. PICK i \in DOMAIN table', j \in DOMAIN table' :
            i < j /\ table'[i] = a /\ table'[j] = b
      BY DEF Older
    <2>2. /\ Len(table) \in Nat /\ DOMAIN table = 1..Len(table)
          /\ DOMAIN table' = 1..(Len(table) + 1)
          /\ \A x \in DOMAIN table : table'[x] = table[x]
          /\ table'[Len(table) + 1] = m
      BY <1>1
    <2>3. j \in DOMAIN table /\ i \in DOMAIN table
      BY <2>1, <2>2
    <2> QED
      BY <2>1, <2>2, <2>3 DEF Older
  <1>6. m \notin sent /\ \A i \in DOMAIN toPublish : toPublish[i] # m
    BY <1>0, <1>1 DEF TypeOK, Committed
  <1>7. FifoUnlessLate'
    BY <1>0, <1>1, <1>3, <1>5, <1>6 DEF FifoUnlessLate
  <1>8. WaitsInOrder'
    <2> SUFFICES ASSUME NEW i \in DOMAIN toPublish, NEW a \in Committed, Older(a, toPublish[i])'
                 PROVE  a \in sent \cup late \/ \E j \in 1..(i - 1) : toPublish[j] = a
      BY <1>1, <1>3 DEF WaitsInOrder
    <2>1. PICK b : b = toPublish[i]
      OBVIOUS
    <2>2. Older(a, b)'
      BY <1>1, <2>1 DEF Older
    <2>3. Older(a, toPublish[i])
      BY <1>5, <1>6, <2>1, <2>2
    <2> QED
      BY <1>0, <2>3 DEF WaitsInOrder
  <1>9. BatchIsKept'
    BY <1>0, <1>1 DEF BatchIsKept
  <1> QED
    BY <1>4, <1>7, <1>8, <1>9, FInvPartsNext

\* A row becomes visible: it is late if a younger one was read before.
LEMMA CommitFInv ==
  ASSUME FInv, NEW m \in Messages, CommitInsert(m)
  PROVE  FInv'
  <1>0. TypeOK /\ FifoUnlessLate /\ BatchIsKept /\ WaitsInOrder
    BY FInvParts
  <1>1. /\ m \in open /\ open' = open \ {m}
        /\ UNCHANGED <<table, turn, toPublish, toConfirm, refused, sent, ready, returned, faultsLeft>>
    BY DEF CommitInsert, NoFault, batchVars, brokerVars
  <1>2. Committed' = Committed \cup {m}
    BY <1>0, <1>1 DEF Committed, TypeOK
  <1>3. /\ late \subseteq late' /\ late' \subseteq late \cup {m}
        /\ (\E n \in sent \cup ToSet(toPublish) : Older(m, n)) => m \in late'
    BY DEF CommitInsert
  <1>4. TypeOK'
    <2>1. Committed \subseteq Committed'
      BY <1>2
    <2>2. toPublish \in Seq(Committed') /\ toConfirm \in Seq(Committed')
      BY <1>0, <2>1, SeqMonotonic DEF TypeOK
    <2> QED
      BY <1>0, <1>1, <1>2, <1>3, <2>2 DEF TypeOK
  <1>5. \A a, b : Older(a, b)' <=> Older(a, b)
    BY <1>1 DEF Older
  <1>6. FifoUnlessLate'
    BY <1>0, <1>1, <1>2, <1>3, <1>5 DEF FifoUnlessLate
  <1>7. WaitsInOrder'
    <2> SUFFICES ASSUME NEW i \in DOMAIN toPublish, NEW a \in Committed \cup {m},
                        Older(a, toPublish[i])'
                 PROVE  a \in sent \cup late' \/ \E j \in 1..(i - 1) : toPublish[j] = a
      BY <1>1, <1>2 DEF WaitsInOrder
    <2>1. Older(a, toPublish[i])
      BY <1>1 DEF Older
    <2>2. toPublish[i] \in ToSet(toPublish)
      BY DEF ToSet
    <2> QED
      BY <1>0, <1>3, <2>1, <2>2 DEF WaitsInOrder
  <1>8. BatchIsKept'
    BY <1>0, <1>1 DEF BatchIsKept
  <1> QED
    BY <1>4, <1>6, <1>7, <1>8, FInvPartsNext

\* A row that never became visible goes.
LEMMA AbortFInv ==
  ASSUME FInv, NEW m \in Messages, AbortInsert(m)
  PROVE  FInv'
  <1>0. TypeOK /\ FifoUnlessLate /\ BatchIsKept /\ WaitsInOrder
    BY FInvParts
  <1>1. /\ m \in open /\ m \in ToSet(table) /\ open' = open \ {m}
        /\ table \in Seq(Messages) /\ IsInjective(table) /\ table' = RemoveFirst(table, m)
        /\ UNCHANGED <<turn, toPublish, toConfirm, refused, sent, late, ready, returned, faultsLeft>>
    BY <1>0 DEF AbortInsert, TypeOK, NoFault, batchVars, brokerVars
  <1>2. /\ table' \in Seq(Messages) /\ IsInjective(table') /\ ToSet(table') = ToSet(table) \ {m}
        /\ \A a, b : Older(a, b)' => Older(a, b)
    BY <1>1, RemoveRow
  <1>3. Committed' = Committed
    BY <1>1, <1>2 DEF Committed
  <1>4. TypeOK'
    BY <1>0, <1>1, <1>2, <1>3 DEF TypeOK
  <1>5. FifoUnlessLate'
    BY <1>0, <1>1, <1>2, <1>3 DEF FifoUnlessLate
  <1>6. WaitsInOrder'
    <2> SUFFICES ASSUME NEW i \in DOMAIN toPublish, NEW a \in Committed, Older(a, toPublish[i])'
                 PROVE  a \in sent \cup late \/ \E j \in 1..(i - 1) : toPublish[j] = a
      BY <1>1, <1>3 DEF WaitsInOrder
    <2>1. PICK b : b = toPublish[i]
      OBVIOUS
    <2>2. Older(a, b)'
      BY <1>1, <2>1 DEF Older
    <2>3. Older(a, toPublish[i])
      BY <1>2, <2>1, <2>2
    <2> QED
      BY <1>0, <2>3 DEF WaitsInOrder
  <1>7. BatchIsKept'
    BY <1>0, <1>1 DEF BatchIsKept
  <1> QED
    BY <1>4, <1>5, <1>6, <1>7, FInvPartsNext

\* A batch is chosen.
LEMMA SelectFInv ==
  ASSUME FInv, SelectBatch
  PROVE  FInv'
  <1>0. TypeOK /\ FifoUnlessLate
    BY FInvParts
  <1>1. /\ toPublish' = selectFairRows(OldestRows(turn)) /\ turn \in Lines
        /\ OldestRows(turn) # <<>> /\ toConfirm = <<>>
        /\ UNCHANGED <<table, open, turn, toConfirm, refused, sent, late, ready, returned, faultsLeft>>
    BY <1>0 DEF TypeOK, SelectBatch, BetweenBatches, NoFault, tableVars, brokerVars
  <1>2. /\ toPublish' \in Seq(Committed) /\ IsInjective(toPublish')
        /\ \A i \in DOMAIN toPublish' : \A m \in Committed :
             Older(m, toPublish'[i]) => \E j \in 1..(i - 1) : toPublish'[j] = m
    <2>1. SelectionKeepsOrder
      BY <1>0, SelectionOrder DEF TypeOK
    <2> QED
      BY <1>1, <2>1 DEF SelectionKeepsOrder
  <1>3. Committed' = Committed
    BY <1>1 DEF Committed
  <1>4. TypeOK'
    BY <1>0, <1>1, <1>2, <1>3 DEF TypeOK
  <1>5. FifoUnlessLate'
    BY <1>0, <1>1, <1>3 DEF FifoUnlessLate, Older
  <1>6. WaitsInOrder'
    BY <1>1, <1>2, <1>3 DEF WaitsInOrder, Older
  <1>7. ToSet(toConfirm') = {} /\ IsInjective(toConfirm')
    BY <1>1 DEF ToSet, IsInjective
  <1>8. BatchIsKept'
    BY <1>2, <1>7 DEF BatchIsKept
  <1> QED
    BY <1>4, <1>5, <1>6, <1>8, FInvPartsNext

\* The first row of the batch goes out, and is sent or late from then on: none of
\* its older rows still waits.
LEMMA SendFInv ==
  ASSUME FInv, SendRow, NEW h, h = Head(toPublish),
         \/ sent' = sent \cup {h} /\ UNCHANGED <<refused, late>>
         \/ refused' = refused \cup {h} /\ late' = late \cup {h} /\ UNCHANGED sent,
         ready' \in [Messages -> Nat], returned' \in [Messages -> Nat], faultsLeft' \in Nat
  PROVE  FInv'
  <1>0. TypeOK /\ FifoUnlessLate /\ BatchIsKept /\ WaitsInOrder
    BY FInvParts
  <1>1. /\ toPublish # <<>> /\ toPublish \in Seq(Committed) /\ IsInjective(toPublish)
        /\ toConfirm \in Seq(Committed) /\ IsInjective(toConfirm)
        /\ toPublish' = Tail(toPublish) /\ toConfirm' = Append(toConfirm, h)
        /\ UNCHANGED <<table, open, turn>>
    BY <1>0 DEF BatchIsKept, TypeOK, SendRow, tableVars
  <1>2. /\ h \in ToSet(toPublish) /\ h \in Committed /\ h = toPublish[1]
        /\ toPublish' \in Seq(Committed) /\ IsInjective(toPublish')
        /\ ToSet(toPublish') = ToSet(toPublish) \ {h}
        /\ Len(toPublish') = Len(toPublish) - 1
        /\ \A i \in DOMAIN toPublish' :
             i + 1 \in DOMAIN toPublish /\ toPublish'[i] = toPublish[i + 1]
    BY <1>1, TailDistinct
  <1>3. h \notin ToSet(toConfirm)
    BY <1>0, <1>2 DEF BatchIsKept
  <1>4. /\ toConfirm' \in Seq(Committed) /\ IsInjective(toConfirm')
        /\ ToSet(toConfirm') = ToSet(toConfirm) \cup {h}
    BY <1>1, <1>2, <1>3, AppendDistinct
  <1>5. Committed' = Committed
    BY <1>1 DEF Committed
  <1>6. TypeOK'
    <2>1. refused' \in SUBSET ToSet(toConfirm')
      BY <1>0, <1>4 DEF TypeOK
    <2>2. sent' \in SUBSET Committed /\ late' \in SUBSET Committed
      BY <1>0, <1>2 DEF TypeOK
    <2> QED
      BY <1>0, <1>1, <1>2, <1>4, <1>5, <2>1, <2>2 DEF TypeOK
  <1>7. DOMAIN toPublish = 1..Len(toPublish) /\ DOMAIN toPublish' = 1..Len(toPublish')
        /\ Len(toPublish) \in Nat /\ Len(toPublish) >= 1
    BY <1>1, <1>2
  <1>8. \A m \in Committed : Older(m, h) => m \in sent \cup late
    BY <1>0, <1>2, <1>7 DEF WaitsInOrder
  <1>9. sent \cup late \cup {h} = sent' \cup late'
    OBVIOUS
  <1>10. \A m, n : Older(m, n)' <=> Older(m, n)
    BY <1>1 DEF Older
  <1>11. FifoUnlessLate'
    <2>1. \A n \in sent' : n \in sent \/ n = h
      OBVIOUS
    <2> QED
      BY <1>0, <1>5, <1>8, <1>9, <1>10, <2>1 DEF FifoUnlessLate
  <1>12. WaitsInOrder'
    <2> SUFFICES ASSUME NEW i \in DOMAIN toPublish', NEW m \in Committed,
                        Older(m, toPublish[i + 1])
                 PROVE  m \in sent \cup late \cup {h} \/ \E j \in 1..(i - 1) : toPublish'[j] = m
      <3> SUFFICES ASSUME NEW i \in DOMAIN toPublish', NEW m \in Committed',
                          Older(m, toPublish[i])'
                   PROVE  m \in sent' \cup late' \/ \E j \in 1..(i - 1) : toPublish'[j] = m
        BY DEF WaitsInOrder
      <3>1. PICK b : b = toPublish'[i]
        OBVIOUS
      <3>2. b = toPublish[i + 1]
        BY <1>2, <3>1
      <3>3. Older(m, b)'
        BY <3>1 DEF Older
      <3>4. Older(m, toPublish[i + 1])
        BY <1>1, <3>2, <3>3 DEF Older
      <3> QED
        BY <1>5, <1>9, <3>4
    <2>1. CASE m \in sent \cup late
      BY <2>1
    <2>2. CASE \E j \in 1..((i + 1) - 1) : toPublish[j] = m
      <3>1. PICK j \in 1..((i + 1) - 1) : toPublish[j] = m
        BY <2>2
      <3>2. CASE j = 1
        BY <1>2, <3>1, <3>2
      <3>3. CASE j # 1
        <4>1. /\ j - 1 \in 1..(i - 1) /\ j - 1 \in DOMAIN toPublish' /\ (j - 1) + 1 = j
          BY <1>2, <1>7, <3>1, <3>3
        <4>2. toPublish'[j - 1] = m
          BY <1>2, <3>1, <4>1
        <4> QED
          BY <4>1, <4>2
      <3> QED
        BY <3>2, <3>3
    <2> QED
      BY <1>0, <1>2, <2>1, <2>2 DEF WaitsInOrder
  <1>13. BatchIsKept'
    <2>1. ToSet(toPublish') \cap ToSet(toConfirm') = {}
      BY <1>0, <1>2, <1>4 DEF BatchIsKept
    <2>2. ToSet(toConfirm') \ refused' \subseteq sent'
      BY <1>0, <1>4 DEF BatchIsKept
    <2> QED
      BY <1>2, <1>4, <2>1, <2>2 DEF BatchIsKept
  <1> QED
    BY <1>6, <1>11, <1>12, <1>13, FInvPartsNext

\* A row is sent and stored.
LEMMA PublishFInv == ASSUME FInv, PublishRow PROVE FInv'
  <1>1. TypeOK
    BY FInvParts
  <1>2. PICK h : h = Head(toPublish)
    OBVIOUS
  <1>3. SendRow /\ sent' = sent \cup {h} /\ UNCHANGED <<refused, late, returned, faultsLeft>>
    BY <1>2 DEF PublishRow, Publish, NoFault
  <1>4. ready' \in [Messages -> Nat] /\ returned' \in [Messages -> Nat] /\ faultsLeft' \in Nat
    <2>1. ready' = [ready EXCEPT ![h] = @ + 1]
      BY <1>2 DEF PublishRow, Publish
    <2>2. ready \in [Messages -> Nat] /\ returned \in [Messages -> Nat] /\ faultsLeft \in Nat
      BY <1>1 DEF TypeOK
    <2>3. h \in Messages
      <3>1. toPublish # <<>> /\ toPublish \in Seq(Committed) /\ table \in Seq(Messages)
        BY <1>1, <1>3 DEF SendRow, TypeOK
      <3>2. h \in Committed
        BY <1>2, <3>1
      <3> QED
        BY <3>1, <3>2, ToSetType DEF Committed
    <2> QED
      BY <1>3, <2>1, <2>2, <2>3
  <1> QED
    BY <1>2, <1>3, <1>4, SendFInv

\* A row is sent and refused.
LEMMA RefuseFInv == ASSUME FInv, RefuseRow PROVE FInv'
  <1>1. TypeOK
    BY FInvParts
  <1>2. PICK h : h = Head(toPublish)
    OBVIOUS
  <1>3. SendRow /\ refused' = refused \cup {h} /\ late' = late \cup {h} /\ UNCHANGED sent
    BY <1>2 DEF RefuseRow
  <1>4. ready' \in [Messages -> Nat] /\ returned' \in [Messages -> Nat] /\ faultsLeft' \in Nat
    BY <1>1 DEF TypeOK, RefuseRow, Fault, brokerVars
  <1> QED
    BY <1>2, <1>3, <1>4, SendFInv

\* A row is marked published: it leaves the table, and what was sent with it.
LEMMA ConfirmFInv ==
  ASSUME FInv, ConfirmRow
  PROVE  FInv'
  <1>0. TypeOK /\ FifoUnlessLate /\ BatchIsKept
    BY FInvParts
  <1>a. PICK h : h = Head(toConfirm)
    OBVIOUS
  <1>1. /\ toPublish = <<>> /\ toConfirm # <<>> /\ toConfirm \in Seq(Committed)
        /\ IsInjective(toConfirm) /\ toConfirm' = Tail(toConfirm) /\ h \notin refused
        /\ table \in Seq(Messages) /\ IsInjective(table)
        /\ table' = RemoveFirst(table, h) /\ sent' = sent \ {h} /\ late' = late \ {h}
        /\ turn' \in Lines
        /\ UNCHANGED <<open, toPublish, refused, ready, returned, faultsLeft>>
    BY <1>0, <1>a DEF BatchIsKept, TypeOK, ConfirmRow, NoFault, OtherLine, Lines, brokerVars
  <1>2. /\ h \in Committed /\ h \in ToSet(table) /\ h \in ToSet(toConfirm)
        /\ toConfirm' \in Seq(Committed) /\ IsInjective(toConfirm')
        /\ ToSet(toConfirm') = ToSet(toConfirm) \ {h}
    <2>1. /\ h \in Committed /\ h \in ToSet(toConfirm)
          /\ toConfirm' \in Seq(Committed) /\ IsInjective(toConfirm')
          /\ ToSet(toConfirm') = ToSet(toConfirm) \ {h}
      BY <1>a, <1>1, TailDistinct
    <2> QED
      BY <2>1 DEF Committed
  <1>3. /\ table' \in Seq(Messages) /\ IsInjective(table') /\ ToSet(table') = ToSet(table) \ {h}
        /\ \A m, n : Older(m, n)' => Older(m, n) /\ m # h
    BY <1>1, <1>2, RemoveRow
  <1>4. Committed' = Committed \ {h}
    BY <1>1, <1>2, <1>3 DEF Committed
  <1>5. TypeOK'
    <2>1. toConfirm' \in Seq(Committed')
      <3>1. \A i \in 1..Len(toConfirm') : toConfirm'[i] \in ToSet(toConfirm')
        BY <1>2 DEF ToSet
      <3>2. \A i \in 1..Len(toConfirm') : toConfirm'[i] \in Committed'
        BY <1>2, <1>4, <3>1
      <3>3. PICK S : S = Committed'
        OBVIOUS
      <3>4. PICK s : s = toConfirm'
        OBVIOUS
      <3>5. s \in Seq(S)
        <4>1. s \in Seq(Committed) /\ \A i \in 1..Len(s) : s[i] \in S
          BY <1>2, <3>2, <3>3, <3>4
        <4> QED
          BY <4>1
      <3> QED
        BY <3>3, <3>4, <3>5
    <2>2. toPublish' \in Seq(Committed')
      BY <1>1
    <2>3. sent' \in SUBSET Committed' /\ late' \in SUBSET Committed'
      BY <1>0, <1>1, <1>4 DEF TypeOK
    <2>4. open' \in SUBSET ToSet(table')
      BY <1>0, <1>1, <1>2, <1>3 DEF TypeOK, Committed
    <2>5. refused' \in SUBSET ToSet(toConfirm')
      BY <1>0, <1>1, <1>2 DEF TypeOK
    <2> QED
      BY <1>0, <1>1, <1>3, <2>1, <2>2, <2>3, <2>4, <2>5 DEF TypeOK
  <1>6. FifoUnlessLate'
    BY <1>0, <1>1, <1>3, <1>4 DEF FifoUnlessLate
  <1>7. ToSet(toPublish') = {} /\ IsInjective(toPublish') /\ WaitsInOrder'
    BY <1>1 DEF ToSet, IsInjective, WaitsInOrder
  <1>8. BatchIsKept'
    BY <1>0, <1>1, <1>2, <1>7 DEF BatchIsKept
  <1> QED
    BY <1>5, <1>6, <1>7, <1>8, FInvPartsNext

\* The batch is forgotten.
LEMMA RestartFInv ==
  ASSUME FInv, Restart, faultsLeft' \in Nat
  PROVE  FInv'
  <1>0. TypeOK /\ FifoUnlessLate
    BY FInvParts
  <1>1. /\ toPublish' = <<>> /\ toConfirm' = <<>> /\ refused' = {} /\ turn' \in Lines
        /\ UNCHANGED <<table, open, sent, late, ready, returned>>
    BY DEF Restart, Lines, tableVars, brokerVars
  <1>2. ToSet(toPublish') = {} /\ ToSet(toConfirm') = {}
    BY <1>1 DEF ToSet
  <1>3. IsInjective(toPublish') /\ IsInjective(toConfirm')
    BY <1>1 DEF IsInjective
  <1>4. Committed' = Committed
    BY <1>1 DEF Committed
  <1>5. TypeOK'
    BY <1>0, <1>1, <1>4 DEF TypeOK
  <1>6. FifoUnlessLate'
    BY <1>0, <1>1, <1>4 DEF FifoUnlessLate, Older
  <1>7. WaitsInOrder' /\ BatchIsKept'
    BY <1>1, <1>2, <1>3 DEF WaitsInOrder, BatchIsKept
  <1> QED
    BY <1>5, <1>6, <1>7, FInvPartsNext

\* A step that touches neither rows nor batch.
LEMMA QuietFInv ==
  ASSUME FInv, UNCHANGED <<table, open, toPublish, toConfirm, refused, sent, late>>,
         turn' \in Lines, ready' \in [Messages -> Nat], returned' \in [Messages -> Nat],
         faultsLeft' \in Nat
  PROVE  FInv'
  <1>0. Committed' = Committed
    BY DEF Committed
  <1>1. TypeOK'
    BY <1>0 DEF FInv, TypeOK
  <1> QED
    BY <1>0, <1>1 DEF FInv, FifoUnlessLate, Older

\* Every step keeps FInv.
LEMMA NextFInv == FInv /\ [Next]_vars => FInv'
  <1> SUFFICES ASSUME FInv, [Next]_vars PROVE FInv'
    OBVIOUS
  <1>0. /\ turn \in Lines /\ ready \in [Messages -> Nat] /\ returned \in [Messages -> Nat]
        /\ faultsLeft \in Nat
    BY DEF FInv, TypeOK
  <1>1. ASSUME NEW m \in Messages, Take(m) PROVE FInv'
    BY <1>0, <1>1, QuietFInv DEF Take, Deliver, NoFault, tableVars, batchVars
  <1>2. CASE SkipLine
    BY <1>0, <1>2, QuietFInv
    DEF SkipLine, NoFault, OtherLine, Lines, tableVars, batchVars, brokerVars
  <1>3. CASE UNCHANGED vars
    BY <1>0, <1>3, QuietFInv DEF vars, tableVars, batchVars, brokerVars
  <1>4. CASE ConfirmRefused
    BY <1>0, <1>4, RestartFInv DEF ConfirmRefused, NoFault
  <1>5. CASE Stop
    BY <1>0, <1>5, RestartFInv DEF Stop, Fault
  <1> QED
    BY <1>1, <1>2, <1>3, <1>4, <1>5, InsertFInv, CommitFInv, AbortFInv, SelectFInv,
       PublishFInv, RefuseFInv, ConfirmFInv
    DEF Next, Dispatch

-----------------------------------------------------------------------------
(* The theorems.                                                           *)

\* The inductive invariant of the batches.
THEOREM FairInvariance == Spec => []FInv
  BY InitFInv, NextFInv, PTL DEF Spec

\* The rows, the batch and the record of what was sent stay well-formed: a batch
\* of publishLineBatch consists of committed unpublished rows until each is marked.
THEOREM FairTypeCorrect == Spec => []TypeOK
  <1>1. FInv => TypeOK
    BY DEF FInv
  <1> QED
    BY <1>1, FairInvariance, PTL

\* At any time, the batch that publishLineBatch would take of a line consists of
\* distinct committed rows of the line, each after the older of these of its channel.
THEOREM SelectionIsOrdered == Spec => []SelectionKeepsOrder
  <1>1. TypeOK => SelectionKeepsOrder
    BY SelectionOrder DEF TypeOK
  <1> QED
    BY <1>1, FairTypeCorrect, PTL

\* A batch comes from selectFairRows.
LEMMA OnlySelectBatchSelects ==
  ASSUME Next, Selects PROVE toPublish' = selectFairRows(OldestRows(turn))
  BY DEF Next, Dispatch, Insert, CommitInsert, AbortInsert, Take, SelectBatch, SkipLine,
     SendRow, PublishRow, RefuseRow, ConfirmRow, ConfirmRefused, Stop, Restart, Selects, batchVars

\* Every batch of selectFairRows is as full as the rows and the limit allow, takes
\* each channel's rows in order from the oldest, and leaves no channel with a row
\* behind while another gets two rows more.
THEOREM BatchesAreFair == Spec => BatchIsFair
  <1>1. ASSUME TypeOK, [Next]_vars
        PROVE  [Selects =>
                  /\ Len(toPublish') = Min({Len(OldestRows(turn)), Limit})
                  /\ TakesInOrder(toPublish', OldestRows(turn))
                  /\ SharesEvenly(toPublish', OldestRows(turn))]_vars
    <2> SUFFICES ASSUME Next, Selects
                 PROVE  /\ Len(toPublish') = Min({Len(OldestRows(turn)), Limit})
                        /\ TakesInOrder(toPublish', OldestRows(turn))
                        /\ SharesEvenly(toPublish', OldestRows(turn))
      BY <1>1
    <2>1. toPublish' = selectFairRows(OldestRows(turn))
      BY OnlySelectBatchSelects
    <2>2. PICK rows \in Seq(Messages) : rows = OldestRows(turn) /\ IsInjective(rows)
      BY <1>1, QueryResult DEF TypeOK, HasRead
    <2> QED
      BY <2>1, <2>2, SelectionResult
  <1> QED
    BY <1>1, FairTypeCorrect, PTL DEF Spec, BatchIsFair

\* As long as the rows read are of no more channels than a batch has room for, each
\* of these channels has a row in every batch: no hot channel keeps another waiting.
THEOREM ChannelsAreServed == Spec => EveryChannelServed
  <1>1. ASSUME TypeOK, [Next]_vars
        PROVE  [Selects /\ Cardinality(ChannelsOf(OldestRows(turn))) <= Limit =>
                  ChannelsOf(toPublish') = ChannelsOf(OldestRows(turn))]_vars
    <2> SUFFICES ASSUME Next, Selects, Cardinality(ChannelsOf(OldestRows(turn))) <= Limit
                 PROVE  ChannelsOf(toPublish') = ChannelsOf(OldestRows(turn))
      BY <1>1
    <2>1. toPublish' = selectFairRows(OldestRows(turn))
      BY OnlySelectBatchSelects
    <2>2. PICK rows \in Seq(Messages) : rows = OldestRows(turn) /\ IsInjective(rows)
      BY <1>1, QueryResult DEF TypeOK, HasRead
    <2> QED
      BY <2>1, <2>2, ChannelsServed
  <1> QED
    BY <1>1, FairTypeCorrect, PTL DEF Spec, EveryChannelServed

\* The order that the ids do give, whatever is inserted meanwhile, whatever the
\* broker refuses and wherever the dispatcher stops: of the rows of a channel and
\* line that were committed when a row was read, none is sent after it unless the
\* broker refused it.
THEOREM FairFifo == Spec => []FifoUnlessLate
  <1>1. FInv => FifoUnlessLate
    BY DEF FInv
  <1> QED
    BY <1>1, FairInvariance, PTL

-----------------------------------------------------------------------------
(* The refinement of OutboxDispatcher.                                     *)

\* What a step is to OutboxDispatcher.
DispatcherView ==
    [\/ Dispatcher!DispatcherStep \/ Dispatcher!DispatcherFault
     \/ /\ UNCHANGED Dispatcher!dispatcherVars
        /\ \E m \in Messages :
              \/ Dispatcher!InsertOutbox(m) /\ UNCHANGED brokerVars
              \/ Dispatcher!Deliver(m) /\ UNCHANGED Rows
    ]_<<Dispatcher!dispatcherVars, Rows, brokerVars>>

\* A sequence is empty when it has no elements.
LEMMA EmptySet == ASSUME NEW S, NEW s \in Seq(S) PROVE ToSet(s) = {} <=> s = <<>>
  <1>1. s # <<>> => 1 \in DOMAIN s
    OBVIOUS
  <1> QED
    BY <1>1 DEF ToSet

\* A step that touches neither visible rows nor batch nor queue.
LEMMA QuietView ==
  ASSUME UNCHANGED <<Committed, toPublish, toConfirm, refused, ready, returned>>
  PROVE  DispatcherView
  <1>1. UNCHANGED Dispatcher!dispatcherVars /\ UNCHANGED Rows
    BY DEF Dispatcher!dispatcherVars, ToSet, Rows
  <1> QED
    BY <1>1 DEF DispatcherView, brokerVars

\* An insert is not seen yet.
LEMMA InsertView ==
  ASSUME FInv, NEW m \in Messages, Insert(m)
  PROVE  DispatcherView
  <1>1. /\ table \in Seq(Messages) /\ IsInjective(table) /\ m \notin ToSet(table)
        /\ table' = Append(table, m) /\ open' = open \cup {m}
        /\ UNCHANGED <<toPublish, toConfirm, refused, ready, returned>>
    BY DEF FInv, TypeOK, Insert, batchVars, brokerVars
  <1>2. ToSet(table') = ToSet(table) \cup {m}
    BY <1>1, AppendDistinct
  <1>3. Committed' = Committed
    BY <1>1, <1>2 DEF Committed
  <1> QED
    BY <1>1, <1>3, QuietView

\* Nor is one that fails.
LEMMA AbortView ==
  ASSUME FInv, NEW m \in Messages, AbortInsert(m)
  PROVE  DispatcherView
  <1>1. /\ m \in open /\ m \in ToSet(table) /\ open' = open \ {m}
        /\ table \in Seq(Messages) /\ IsInjective(table) /\ table' = RemoveFirst(table, m)
        /\ UNCHANGED <<toPublish, toConfirm, refused, ready, returned>>
    BY DEF FInv, AbortInsert, TypeOK, batchVars, brokerVars
  <1>2. ToSet(table') = ToSet(table) \ {m}
    BY <1>1, RemoveDistinct
  <1>3. Committed' = Committed
    BY <1>1, <1>2 DEF Committed
  <1> QED
    BY <1>1, <1>3, QuietView

\* The commit is the insert of OutboxDispatcher.
LEMMA CommitView ==
  ASSUME FInv, NEW m \in Messages, CommitInsert(m)
  PROVE  DispatcherView
  <1>1. /\ m \in open /\ open \in SUBSET ToSet(table) /\ open' = open \ {m}
        /\ UNCHANGED <<table, toPublish, toConfirm, refused, ready, returned>>
    BY DEF FInv, TypeOK, CommitInsert, batchVars, brokerVars
  <1>2. Committed' = Committed \cup {m}
    BY <1>1 DEF Committed
  <1>3. Rows' = [Rows EXCEPT ![m] = "pending"]
    BY <1>2 DEF Rows
  <1>4. Dispatcher!InsertOutbox(m)
    BY <1>3 DEF Dispatcher!InsertOutbox
  <1>5. UNCHANGED Dispatcher!dispatcherVars
    BY <1>1 DEF Dispatcher!dispatcherVars, ToSet
  <1> QED
    BY <1>1, <1>4, <1>5 DEF DispatcherView, brokerVars

\* A delivery.
LEMMA TakeView ==
  ASSUME NEW m \in Messages, Take(m)
  PROVE  DispatcherView
  <1>1. UNCHANGED <<table, open, toPublish, toConfirm, refused>> /\ Deliver(m)
    BY DEF Take, tableVars, batchVars
  <1>2. UNCHANGED Dispatcher!dispatcherVars /\ UNCHANGED Rows
    BY <1>1 DEF Dispatcher!dispatcherVars, ToSet, Rows, Committed
  <1>3. Dispatcher!Deliver(m)
    BY <1>1 DEF Deliver, Dispatcher!Deliver
  <1> QED
    BY <1>2, <1>3 DEF DispatcherView

\* A batch: some of the line's pending rows.
LEMMA SelectView ==
  ASSUME FInv, SelectBatch
  PROVE  DispatcherView
  <1>1. /\ toPublish' = selectFairRows(OldestRows(turn)) /\ turn \in Lines
        /\ OldestRows(turn) # <<>> /\ toPublish = <<>> /\ toConfirm = <<>>
        /\ table \in Seq(Messages) /\ refused \in SUBSET ToSet(toConfirm)
        /\ UNCHANGED <<table, open, toConfirm, refused, ready, returned, faultsLeft>>
    BY DEF FInv, TypeOK, SelectBatch, BetweenBatches, NoFault, tableVars, brokerVars
  <1>2. /\ toPublish' # <<>> /\ toPublish' \in Seq(Committed)
        /\ \A i \in DOMAIN toPublish' : LineOf[toPublish'[i]] = turn
    <2>1. SelectionKeepsOrder
      BY SelectionOrder DEF FInv, TypeOK
    <2> QED
      BY <1>1, <2>1 DEF SelectionKeepsOrder
  <1>3. /\ ToSet(toPublish) = {} /\ ToSet(toConfirm) = {} /\ refused = {}
        /\ UNCHANGED <<ToSet(toConfirm) \ refused, refused>>
    BY <1>1 DEF ToSet
  <1>4. ToSet(toPublish)' # {} /\ ToSet(toPublish)' \subseteq Committed
    BY <1>2, EmptySet, ToSetType
  <1>5. \A m \in ToSet(toPublish)' : LineOf[m] = turn
    BY <1>2 DEF ToSet
  <1>6. Committed \subseteq Messages
    BY <1>1, ToSetType DEF Committed
  <1>7. ToSet(toPublish)' \subseteq Dispatcher!Pending(turn)
    BY <1>4, <1>5, <1>6 DEF Dispatcher!Pending, Rows
  <1>8. UNCHANGED <<Rows, faultsLeft, ready, returned>>
    BY <1>1 DEF Rows, Committed
  <1>9. Dispatcher!SelectBatch(turn)
    BY <1>3, <1>4, <1>7, <1>8
    DEF Dispatcher!SelectBatch, Dispatcher!NoFault, Dispatcher!dbVars, Dispatcher!brokerVars
  <1> QED
    BY <1>1, <1>9 DEF DispatcherView, Dispatcher!DispatcherStep, Dispatcher!Lines, Lines

\* What sending a row changes of OutboxDispatcher.
LEMMA SendRowView ==
  ASSUME FInv, SendRow, NEW h, h = Head(toPublish)
  PROVE  /\ h \in Messages /\ h \in ToSet(toPublish) /\ h \notin ToSet(toConfirm)
         /\ h \notin refused
         /\ ToSet(toPublish)' = ToSet(toPublish) \ {h}
         /\ ToSet(toConfirm)' = ToSet(toConfirm) \cup {h}
         /\ UNCHANGED Rows
  <1>1. /\ toPublish # <<>> /\ toPublish \in Seq(Committed) /\ IsInjective(toPublish)
        /\ toConfirm \in Seq(Committed) /\ IsInjective(toConfirm) /\ table \in Seq(Messages)
        /\ ToSet(toPublish) \cap ToSet(toConfirm) = {}
        /\ refused \in SUBSET ToSet(toConfirm)
        /\ toPublish' = Tail(toPublish) /\ toConfirm' = Append(toConfirm, h)
        /\ UNCHANGED <<table, open>>
    BY DEF FInv, TypeOK, SendRow, tableVars
  <1>2. /\ h \in ToSet(toPublish) /\ h \in Committed
        /\ ToSet(toPublish') = ToSet(toPublish) \ {h}
    BY <1>1, TailDistinct
  <1>3. h \notin ToSet(toConfirm) /\ h \notin refused
    BY <1>1, <1>2
  <1>4. ToSet(toConfirm') = ToSet(toConfirm) \cup {h}
    BY <1>1, <1>2, <1>3, AppendDistinct
  <1>5. h \in Messages
    BY <1>1, <1>2, ToSetType DEF Committed
  <1>6. UNCHANGED Rows
    BY <1>1 DEF Rows, Committed
  <1> QED
    BY <1>2, <1>3, <1>4, <1>5, <1>6

\* A row is sent and stored.
LEMMA PublishView ==
  ASSUME FInv, PublishRow
  PROVE  DispatcherView
  <1>0. PICK h : h = Head(toPublish)
    OBVIOUS
  <1>1. /\ h \in Messages /\ h \in ToSet(toPublish) /\ h \notin refused
        /\ ToSet(toPublish)' = ToSet(toPublish) \ {h}
        /\ ToSet(toConfirm)' = ToSet(toConfirm) \cup {h}
        /\ UNCHANGED Rows
    BY <1>0, SendRowView DEF PublishRow
  <1>2. /\ ready' = [ready EXCEPT ![h] = @ + 1]
        /\ UNCHANGED <<refused, returned, faultsLeft>>
    BY <1>0 DEF PublishRow, Publish, NoFault
  <1>3. (ToSet(toConfirm) \ refused)' = (ToSet(toConfirm) \ refused) \cup {h}
    BY <1>1, <1>2
  <1>4. Dispatcher!PublishRow(h)
    BY <1>1, <1>2, <1>3
    DEF Dispatcher!PublishRow, Dispatcher!Publish, Dispatcher!NoFault, Dispatcher!dbVars
  <1> QED
    BY <1>1, <1>4 DEF DispatcherView, Dispatcher!DispatcherStep

\* A row is sent and refused.
LEMMA RefuseView ==
  ASSUME FInv, RefuseRow
  PROVE  DispatcherView
  <1>0. PICK h : h = Head(toPublish)
    OBVIOUS
  <1>1. /\ h \in Messages /\ h \in ToSet(toPublish) /\ h \notin ToSet(toConfirm)
        /\ ToSet(toPublish)' = ToSet(toPublish) \ {h}
        /\ ToSet(toConfirm)' = ToSet(toConfirm) \cup {h}
        /\ UNCHANGED Rows
    BY <1>0, SendRowView DEF RefuseRow
  <1>2. /\ Fault("publishNack") /\ refused' = refused \cup {h} /\ UNCHANGED <<ready, returned>>
    BY <1>0 DEF RefuseRow, brokerVars
  <1>3. UNCHANGED (ToSet(toConfirm) \ refused)
    BY <1>1, <1>2
  <1>4. Dispatcher!PublishRefused(h)
    BY <1>1, <1>2, <1>3
    DEF Dispatcher!PublishRefused, Dispatcher!Fault, Fault, Dispatcher!dbVars, Dispatcher!brokerVars
  <1> QED
    BY <1>1, <1>4 DEF DispatcherView, Dispatcher!DispatcherFault

\* A row is marked.
LEMMA ConfirmView ==
  ASSUME FInv, ConfirmRow
  PROVE  DispatcherView
  <1>0. PICK h : h = Head(toConfirm)
    OBVIOUS
  <1>1. /\ toPublish = <<>> /\ toConfirm # <<>> /\ toConfirm \in Seq(Committed)
        /\ IsInjective(toConfirm) /\ toConfirm' = Tail(toConfirm) /\ h \notin refused
        /\ table \in Seq(Messages) /\ IsInjective(table)
        /\ table' = RemoveFirst(table, h)
        /\ UNCHANGED <<open, toPublish, refused, ready, returned, faultsLeft>>
    BY <1>0 DEF FInv, TypeOK, ConfirmRow, NoFault, brokerVars
  <1>2. /\ h \in Committed /\ h \in ToSet(toConfirm)
        /\ ToSet(toConfirm') = ToSet(toConfirm) \ {h}
    BY <1>0, <1>1, TailDistinct
  <1>3. ToSet(table') = ToSet(table) \ {h}
    BY <1>1, <1>2, RemoveDistinct DEF Committed
  <1>4. h \in Messages
    BY <1>1, <1>2, ToSetType DEF Committed
  <1>5. ToSet(toPublish) = {} /\ UNCHANGED ToSet(toPublish)
    BY <1>1 DEF ToSet
  <1>6. Rows' = [Rows EXCEPT ![h] = "published"]
    <2>1. Committed' = Committed \ {h}
      BY <1>1, <1>3 DEF Committed
    <2> QED
      BY <2>1 DEF Rows
  <1>7. /\ h \in ToSet(toConfirm) \ refused
        /\ (ToSet(toConfirm) \ refused)' = (ToSet(toConfirm) \ refused) \ {h}
    BY <1>1, <1>2
  <1>8. Dispatcher!ConfirmRow(h)
    BY <1>1, <1>5, <1>6, <1>7
    DEF Dispatcher!ConfirmRow, Dispatcher!NoFault, Dispatcher!brokerVars
  <1> QED
    BY <1>4, <1>8 DEF DispatcherView, Dispatcher!DispatcherStep

\* What a restart is to OutboxDispatcher.
LEMMA RestartView ==
  ASSUME Restart
  PROVE  /\ ToSet(toPublish)' = {} /\ (ToSet(toConfirm) \ refused)' = {} /\ refused' = {}
         /\ UNCHANGED <<Rows, ready, returned>>
  <1>1. /\ toPublish' = <<>> /\ toConfirm' = <<>> /\ refused' = {}
        /\ UNCHANGED <<table, open, ready, returned>>
    BY DEF Restart, tableVars, brokerVars
  <1> QED
    BY <1>1 DEF ToSet, Rows, Committed

\* The answer to a refused row ends the batch.
LEMMA ConfirmRefusedView ==
  ASSUME FInv, ConfirmRefused
  PROVE  DispatcherView
  <1>1. /\ toPublish = <<>> /\ refused # {} /\ UNCHANGED faultsLeft
        /\ ToSet(toPublish)' = {} /\ (ToSet(toConfirm) \ refused)' = {} /\ refused' = {}
        /\ UNCHANGED <<Rows, ready, returned>>
    BY RestartView DEF ConfirmRefused, NoFault
  <1>2. ToSet(toPublish) = {}
    BY <1>1 DEF ToSet
  <1>3. Dispatcher!ConfirmRefused
    BY <1>1, <1>2
    DEF Dispatcher!ConfirmRefused, Dispatcher!NoFault, Dispatcher!dbVars, Dispatcher!brokerVars
  <1> QED
    BY <1>3 DEF DispatcherView, Dispatcher!DispatcherStep

\* The dispatcher stops in a batch.
LEMMA StopView ==
  ASSUME FInv, Stop
  PROVE  DispatcherView
  <1>1. /\ Fault("dispatcherStop") /\ ~(toPublish = <<>> /\ toConfirm = <<>>)
        /\ toPublish \in Seq(Committed) /\ toConfirm \in Seq(Committed)
        /\ ToSet(toPublish)' = {} /\ (ToSet(toConfirm) \ refused)' = {} /\ refused' = {}
        /\ UNCHANGED <<Rows, ready, returned>>
    BY RestartView DEF FInv, TypeOK, Stop, BetweenBatches
  <1>2. ToSet(toPublish) \cup (ToSet(toConfirm) \ refused) \cup refused # {}
    <2>1. ToSet(toPublish) # {} \/ ToSet(toConfirm) # {}
      BY <1>1, EmptySet
    <2> QED
      BY <2>1
  <1>3. Dispatcher!DispatcherStop
    BY <1>1, <1>2
    DEF Dispatcher!DispatcherStop, Dispatcher!Fault, Fault, Dispatcher!dbVars, Dispatcher!brokerVars
  <1> QED
    BY <1>3 DEF DispatcherView, Dispatcher!DispatcherFault

\* Every step is one of OutboxDispatcher or changes nothing of it.
LEMMA NextView == FInv /\ [Next]_vars => DispatcherView
  <1> SUFFICES ASSUME FInv, [Next]_vars PROVE DispatcherView
    OBVIOUS
  <1>1. CASE SkipLine
    BY <1>1, QuietView DEF SkipLine, tableVars, batchVars, brokerVars, Committed
  <1>2. CASE UNCHANGED vars
    BY <1>2, QuietView DEF vars, tableVars, batchVars, brokerVars, Committed
  <1> QED
    BY <1>1, <1>2, InsertView, CommitView, AbortView, TakeView, SelectView, PublishView,
       RefuseView, ConfirmView, ConfirmRefusedView, StopView
    DEF Next, Dispatch

\* The dispatcher with its batches, in order and from one line at a time, implements
\* the dispatcher of the composed gateway, which takes any pending rows: a batch holds
\* only pending rows of one line, a row is sent once per batch and marked by its own
\* confirm.
THEOREM FairRefinement == Spec => ImplementsDispatcher
  <1>1. FInv /\ [Next]_vars =>
          [\/ Dispatcher!DispatcherStep \/ Dispatcher!DispatcherFault
           \/ /\ UNCHANGED Dispatcher!dispatcherVars
              /\ \E m \in Messages :
                    \/ Dispatcher!InsertOutbox(m) /\ UNCHANGED brokerVars
                    \/ Dispatcher!Deliver(m) /\ UNCHANGED Rows
          ]_<<Dispatcher!dispatcherVars, Rows, brokerVars>>
    BY NextView DEF DispatcherView
  <1> QED
    BY <1>1, FairInvariance, PTL DEF Spec, ImplementsDispatcher
=============================================================================
