-------------------------- MODULE EdgeMemoryProofs --------------------------
(***************************************************************************)
(* Proofs about EdgeMemory for every deployment (any pods and workloads)   *)
(* and every tuning and rounding that TuningAssumption and                 *)
(* RoundingAssumption admit: the table is well typed, the visible flag and *)
(* the state label never disagree with the confidence, and nothing         *)
(* committed about a pair is forgotten.                                    *)
(***************************************************************************)
EXTENDS EdgeMemory, TLAPS

-----------------------------------------------------------------------------
(* Fixed-point arithmetic.                                                 *)

\* A rate times a value is at most the value, scaled.
LEMMA Product ==
    ASSUME NEW s \in Nat, NEW a \in 0 .. s, NEW c \in Nat
    PROVE  a * c \in Nat /\ a * c <= s * c
OBVIOUS

\* Products of parts stay inside the domain of Rounded.
LEMMA Products ==
    ASSUME NEW a \in Levels, NEW c \in Levels
    PROVE  a * c \in 0 .. Scale * Scale
<1>1. a \in 0 .. Scale /\ c \in 0 .. Scale /\ Scale \in Nat
  BY TuningAssumption DEF Levels
<1>2. a * c \in Nat /\ a * c <= Scale * c
  BY <1>1, Product
<1>3. c * Scale <= Scale * Scale
  BY <1>1, Product
<1>4. Scale * c = c * Scale /\ c * Scale \in Nat /\ Scale * Scale \in Nat
  BY <1>1
<1> QED BY <1>2, <1>3, <1>4

\* A product below one that is on the grid is rounded to no more than that, a
\* product above it to no less.
LEMMA Rounding ==
    ASSUME NEW m \in 0 .. Scale * Scale, NEW c \in Levels
    PROVE  /\ Rounded[m] \in Levels
           /\ m <= Scale * c => Rounded[m] <= c
           /\ Scale * c <= m => c <= Rounded[m]
<1>1. Scale \in Levels
  BY TuningAssumption DEF Levels
<1>2. Scale * c \in 0 .. Scale * Scale
  BY <1>1, Products
<1>3. Rounded[Scale * c] = c
  BY RoundingAssumption
<1> QED
  BY <1>2, <1>3, RoundingAssumption

\* A part of a confidence is a confidence no higher.
LEMMA PortionBound ==
    ASSUME NEW part \in Levels, NEW c \in Levels
    PROVE  Portion(part, c) \in 0 .. c
<1>1. c \in Nat /\ Scale \in Nat \ {0} /\ part \in 0 .. Scale
  BY TuningAssumption DEF Levels
<1>2. part * c \in 0 .. Scale * Scale /\ part * c <= Scale * c
  BY <1>1, Product, Products
<1>3. Rounded[part * c] \in Levels /\ Rounded[part * c] <= c
  BY <1>2, Rounding
<1> QED
  BY <1>1, <1>3 DEF Portion, Levels

\* Confirming raises a confidence, fading lowers it, a floor lies below it.
LEMMA Curves ==
    ASSUME NEW c \in Levels
    PROVE  /\ Grown(c) \in Levels /\ Grown(c) >= c
           /\ Faded(c) \in Levels /\ Faded(c) <= c
           /\ FloorOf(c) \in Levels /\ FloorOf(c) <= c
<1>1. /\ Scale - c \in Levels /\ Scale - Decay \in Levels
      /\ Alpha \in Levels /\ FloorFrac \in Levels
  BY TuningAssumption DEF Levels
<1>2. Portion(Alpha, Scale - c) \in 0 .. Scale - c
  BY <1>1, PortionBound
<1>3. Portion(Scale - Decay, c) \in 0 .. c
  BY <1>1, PortionBound
<1>4. Portion(FloorFrac, c) \in 0 .. c
  BY <1>1, PortionBound
<1> QED
  BY <1>2, <1>3, <1>4, TuningAssumption DEF Grown, Faded, FloorOf, Levels

-----------------------------------------------------------------------------
(* Rows.                                                                   *)

\* A floor above the confidence is one a seeding has just retrofitted: without
\* this, decay could raise a row to Show without lighting it.
GoodRow(r) == /\ r \in Row
              /\ Latched(r)
              /\ Labelled(r)
              /\ r.base <= r.conf \/ r.base <= Prior

GoodTable(t) == \A k \in Pairs : t[k] # NoRow => GoodRow(t[k])

\* The later row remembers all that the earlier one knew.
Remembers(new, old) ==
    old # NoRow => new # NoRow /\ new.base >= old.base /\ new.hits >= old.hits

\* A row is not the absence of one.
LEMMA RowIsNotNoRow == \A r \in Row : r # NoRow
BY ShapeAssumption

\* Seeding makes or keeps a good row.
LEMMA SeededGood ==
    ASSUME NEW r \in Row \cup {NoRow}, r # NoRow => GoodRow(r)
    PROVE  GoodRow(SeededRow(r)) /\ Remembers(SeededRow(r), r)
<1>1. CASE r = NoRow
  BY <1>1, TuningAssumption
  DEF SeededRow, GoodRow, Row, Latched, Labelled, Remembers, Levels, Labels
<1>2. CASE r # NoRow
  <2> DEFINE s == [r EXCEPT !.base = Higher(@, Prior)]
  <2>1. SeededRow(r) = s /\ r \in Row
    BY <1>2 DEF SeededRow
  <2>2. /\ s \in Row /\ s.conf = r.conf /\ s.visible = r.visible
        /\ s.state = r.state /\ s.hits = r.hits
        /\ s.base \in {r.base, Prior} /\ s.base >= r.base
    BY <2>1, TuningAssumption DEF Row, Higher, Levels
  <2>3. GoodRow(s)
    BY <1>2, <2>1, <2>2, TuningAssumption DEF GoodRow, Latched, Labelled, Row, Levels
  <2> QED
    BY <2>1, <2>2, <2>3, RowIsNotNoRow DEF Remembers, Row
<1> QED
  BY <1>1, <1>2

\* A row is good when its five columns are.
LEMMA Columns ==
    ASSUME NEW c \in Levels, NEW b \in Levels, NEW v \in BOOLEAN,
           NEW l \in Labels, NEW h \in Nat,
           v => c >= Hide, c >= Show => v,
           b <= c \/ b <= Prior,
           l = "active" => v, l = "decaying" => v,
           l \in {"confirming", "hidden"} => ~v
    PROVE  GoodRow([conf |-> c, base |-> b, visible |-> v, state |-> l,
                    hits |-> h])
BY DEF GoodRow, Row, Latched, Labelled

\* The row _confirm_edge writes for a pair with confidence c, floor b and flag v.
LEMMA Lighting ==
    ASSUME NEW c \in Levels, NEW b \in Levels, NEW v \in BOOLEAN, NEW h \in Nat,
           v => c >= Hide, b <= c \/ b <= Prior
    PROVE  GoodRow([conf |-> c, base |-> b, visible |-> (v \/ c >= Show),
                    state |-> IF v \/ c >= Show THEN "active" ELSE "confirming",
                    hits |-> h])
<1> DEFINE lit == v \/ c >= Show
<1>1. c >= Show => c >= Hide
  BY TuningAssumption DEF Levels
<1>2. CASE lit
  <2>1. GoodRow([conf |-> c, base |-> b, visible |-> TRUE, state |-> "active",
                 hits |-> h])
    BY <1>1, <1>2, Columns DEF Labels
  <2>2. lit = TRUE
    BY <1>2
  <2> QED
    BY <2>1, <2>2, Zenon
<1>3. CASE ~lit
  <2>1. GoodRow([conf |-> c, base |-> b, visible |-> FALSE,
                 state |-> "confirming", hits |-> h])
    BY <1>3, Columns DEF Labels
  <2>2. lit = FALSE
    BY <1>3
  <2> QED
    BY <2>1, <2>2, Zenon
<1> QED
  BY <1>2, <1>3

\* Confirming makes or keeps a good row.
LEMMA ConfirmedGood ==
    ASSUME NEW r \in Row \cup {NoRow}, r # NoRow => GoodRow(r)
    PROVE  GoodRow(ConfirmedRow(r)) /\ Remembers(ConfirmedRow(r), r)
<1>1. CASE r = NoRow
  <2>1. /\ Alpha \in Levels /\ FloorOf(Alpha) \in Levels /\ FloorOf(Alpha) <= Alpha
    BY TuningAssumption, Curves
  <2>2. /\ Higher(0, FloorOf(Alpha)) \in Levels
        /\ Higher(0, FloorOf(Alpha)) <= Alpha
        /\ 0 + 1 \in Nat
    BY <2>1 DEF Higher, Levels
  <2>3. GoodRow([conf |-> Alpha, base |-> Higher(0, FloorOf(Alpha)),
                 visible |-> (FALSE \/ Alpha >= Show),
                 state |-> IF FALSE \/ Alpha >= Show THEN "active"
                           ELSE "confirming",
                 hits |-> 0 + 1])
    BY <2>1, <2>2, Lighting, Zenon
  <2> QED
    BY <1>1, <2>3 DEF ConfirmedRow, Remembers
<1>2. CASE r # NoRow
  <2>1. r \in Row /\ GoodRow(r)
    BY <1>2
  <2> DEFINE c == Grown(r.conf)
             b == Higher(r.base, FloorOf(c))
             s == [conf |-> c, base |-> b, visible |-> (r.visible \/ c >= Show),
                   state |-> IF r.visible \/ c >= Show THEN "active"
                             ELSE "confirming",
                   hits |-> r.hits + 1]
  <2>2. ConfirmedRow(r) = s
    BY <1>2 DEF ConfirmedRow
  <2>3. /\ r.conf \in Levels /\ r.base \in Levels /\ r.visible \in BOOLEAN
        /\ r.hits \in Nat
    BY <2>1 DEF Row
  <2>4. /\ c \in Levels /\ c >= r.conf
        /\ FloorOf(c) \in Levels /\ FloorOf(c) <= c
    BY <2>3, Curves
  <2>5. b \in Levels /\ b >= r.base /\ b \in {r.base, FloorOf(c)}
    BY <2>3, <2>4 DEF Higher, Levels
  <2>6. b <= c \/ b <= Prior
    BY <2>1, <2>3, <2>4, <2>5, TuningAssumption DEF GoodRow, Levels
  <2>7. r.visible => c >= Hide
    BY <2>1, <2>3, <2>4, TuningAssumption DEF GoodRow, Latched, Levels
  <2> HIDE DEF c, b
  <2>8. GoodRow(s)
    BY <2>3, <2>4, <2>5, <2>6, <2>7, Lighting
  <2>9. Remembers(s, r)
    BY <2>3, <2>5, <2>8, RowIsNotNoRow DEF Remembers, GoodRow
  <2> QED
    BY <2>2, <2>8, <2>9
<1> QED
  BY <1>1, <1>2

\* Decay keeps a good row.
LEMMA DecayedGood ==
    ASSUME NEW r \in Row, GoodRow(r)
    PROVE  GoodRow(DecayedRow(r)) /\ Remembers(DecayedRow(r), r)
<1> DEFINE c == Higher(r.base, Faded(r.conf))
           lit == r.visible /\ c >= Hide
           s == DecayedRow(r)
<1>1. /\ r.conf \in Levels /\ r.base \in Levels /\ r.visible \in BOOLEAN
      /\ r.hits \in Nat
  BY DEF Row
<1>2. Faded(r.conf) \in Levels /\ Faded(r.conf) <= r.conf
  BY <1>1, Curves
<1>3. c \in Levels /\ c >= r.base /\ c \in {r.base, Faded(r.conf)}
  BY <1>1, <1>2 DEF Higher, Levels
<1>4. /\ s.conf = c /\ s.base = r.base /\ s.visible = lit /\ s.hits = r.hits
      /\ s.state = IF c <= r.base /\ r.base > 0 THEN "steady"
                   ELSE IF lit THEN "decaying" ELSE "hidden"
      /\ s = [r EXCEPT !.conf = c, !.visible = lit, !.state = s.state]
  BY DEF DecayedRow, Row
<1>5. s \in Row
  BY <1>1, <1>3, <1>4 DEF Row, Labels
<1>6. s.base <= s.conf
  BY <1>3, <1>4
<1>7. Labelled(s)
  BY <1>4 DEF Labelled
<1>8. s.visible => s.conf >= Hide
  BY <1>4
<1>9. s.conf >= Show => s.visible
  <2>1. Show >= Hide /\ Show > Prior /\ Show \in Levels /\ Hide \in Levels
        /\ Prior \in Levels
    BY TuningAssumption DEF Levels
  <2>2. c >= Show => r.conf >= Show
    BY <1>1, <1>2, <1>3, <2>1 DEF GoodRow, Levels
  <2>3. r.conf >= Show => r.visible
    BY DEF GoodRow, Latched
  <2>4. c >= Show => c >= Hide
    BY <1>3, <2>1 DEF Levels
  <2> QED
    BY <1>4, <2>2, <2>3, <2>4
<1>10. Remembers(s, r)
  BY <1>1, <1>4, <1>5, RowIsNotNoRow DEF Remembers, Levels
<1> QED
  BY <1>5, <1>6, <1>7, <1>8, <1>9, <1>10 DEF GoodRow, Latched

-----------------------------------------------------------------------------
(* The inductive invariant.                                                *)

\* The connection sees at least what the disk remembers: a crash forgets only
\* what no commit had made durable.
Covers == \A k \in Pairs : Remembers(edges[k], disk[k])

IInv == /\ TypeOK
        /\ GoodTable(edges)
        /\ GoodTable(disk)
        /\ Covers
        /\ \A k \in toDecay : Known(k)

\* A pod edge belongs to a pair of workloads.
LEMMA KeyType == \A e \in Pods \X Pods : KeyOf(e) \in Pairs
BY ShapeAssumption DEF KeyOf, Pairs

\* The live edges of a pass are pairs of pods.
LEMMA PassType ==
    ASSUME NEW ps \in SUBSET Pods, NEW es \in LiveEdgeSets(ps)
    PROVE  es \in SUBSET (Pods \X Pods)
BY DEF LiveEdgeSets

\* What follows a row that follows another remembers both.
LEMMA RemembersTransitive ==
    ASSUME NEW a \in Row \cup {NoRow}, NEW b \in Row \cup {NoRow},
           NEW c \in Row \cup {NoRow}, Remembers(a, b), Remembers(b, c)
    PROVE  Remembers(a, c)
<1>1. \A r \in Row : r.base \in Int /\ r.hits \in Int
  BY TuningAssumption DEF Row, Levels
<1> QED
  BY <1>1 DEF Remembers

\* Writing one good row that remembers the old one keeps the invariant's tables.
LEMMA WriteRow ==
    ASSUME NEW k \in Pairs, NEW r,
           edges \in [Pairs -> Row \cup {NoRow}],
           disk \in [Pairs -> Row \cup {NoRow}],
           GoodTable(edges), Covers,
           GoodRow(r), Remembers(r, edges[k]),
           edges' = [edges EXCEPT ![k] = r], disk' = disk
    PROVE  /\ edges' \in [Pairs -> Row \cup {NoRow}]
           /\ GoodTable(edges)'
           /\ Covers'
           /\ \A j \in Pairs : Known(j) => Known(j)'
<1>1. r \in Row
  BY DEF GoodRow
<1>2. \A j \in Pairs : edges'[j] = IF j = k THEN r ELSE edges[j]
  OBVIOUS
<1>3. edges' \in [Pairs -> Row \cup {NoRow}]
  BY <1>1
<1>4. GoodTable(edges)'
  BY <1>2 DEF GoodTable
<1>5. Covers'
  <2> SUFFICES ASSUME NEW j \in Pairs
               PROVE  Remembers(edges'[j], disk'[j])
    BY DEF Covers
  <2>1. CASE j = k
    <3>1. /\ r \in Row \cup {NoRow} /\ edges[k] \in Row \cup {NoRow}
          /\ disk[k] \in Row \cup {NoRow} /\ Remembers(edges[k], disk[k])
      BY <1>1 DEF Covers
    <3>2. Remembers(r, disk[k])
      BY <3>1, RemembersTransitive
    <3> QED
      BY <2>1, <1>2, <3>2
  <2>2. CASE j # k
    BY <2>2, <1>2 DEF Covers
  <2> QED
    BY <2>1, <2>2
<1>6. \A j \in Pairs : Known(j) => Known(j)'
  BY <1>1, <1>2, RowIsNotNoRow DEF Known
<1> QED
  BY <1>3, <1>4, <1>5, <1>6

\* A legacy row is good, and the empty table is.
LEMMA InitIInv == Init => IInv
<1> SUFFICES ASSUME Init PROVE IInv
  OBVIOUS
<1>1. Legacy \subseteq Row
  BY ShapeAssumption DEF LegacyRow
<1>2. TypeOK
  BY <1>1 DEF Init, TypeOK
<1>3. \A r \in Legacy : GoodRow(r)
  BY ShapeAssumption, TuningAssumption DEF LegacyRow, GoodRow, Row, Levels
<1>4. GoodTable(edges) /\ GoodTable(disk)
  BY <1>3 DEF Init, GoodTable
<1>5. Covers
  <2>1. \A r \in Row : r.base \in Int /\ r.hits \in Int
    BY TuningAssumption DEF Row, Levels
  <2> QED
    BY <1>2, <2>1 DEF Covers, Remembers, TypeOK, Init
<1>6. \A k \in toDecay : Known(k)
  BY DEF Init
<1> QED
  BY <1>2, <1>4, <1>5, <1>6 DEF IInv

\* A table forgets nothing of itself.
LEMMA CoversItself ==
    ASSUME edges' \in [Pairs -> Row \cup {NoRow}], edges' = disk'
    PROVE  Covers'
<1>1. \A r \in Row : r.base \in Int /\ r.hits \in Int
  BY TuningAssumption DEF Row, Levels
<1> QED
  BY <1>1 DEF Covers, Remembers

\* Every step keeps both images good, the open one following the committed
\* one.
LEMMA NextIInv == IInv /\ [Next]_vars => IInv'
<1> SUFFICES ASSUME IInv, [Next]_vars PROVE IInv'
  OBVIOUS
<1> USE DEF IInv
<1>1. CASE NextPass
  <2> PICK ps \in SUBSET Pods : \E es \in LiveEdgeSets(ps) : Begin(ps, es)
    BY <1>1 DEF NextPass
  <2> PICK es \in LiveEdgeSets(ps) : Begin(ps, es)
    OBVIOUS
  <2>1. es \in SUBSET (Pods \X Pods)
    BY PassType
  <2>2. TypeOK'
    BY <2>1, ShapeAssumption DEF Begin, TypeOK, Pairs
  <2>3. GoodTable(edges)' /\ GoodTable(disk)'
    BY DEF Begin, GoodTable
  <2>4. Covers'
    BY CoversItself DEF Begin, TypeOK
  <2>5. \A k \in toDecay' : Known(k)'
    BY DEF Begin, Known
  <2> QED
    BY <2>2, <2>3, <2>4, <2>5
<1>2. ASSUME NEW k \in toSeed, Seed(k) PROVE IInv'
  <2>1. k \in Pairs /\ edges[k] \in Row \cup {NoRow}
        /\ (edges[k] # NoRow => GoodRow(edges[k]))
    BY DEF TypeOK, GoodTable
  <2>2. GoodRow(SeededRow(edges[k])) /\ Remembers(SeededRow(edges[k]), edges[k])
    BY <2>1, SeededGood
  <2>3. edges' = [edges EXCEPT ![k] = SeededRow(edges[k])] /\ disk' = disk
    BY <1>2 DEF Seed
  <2>4. /\ edges' \in [Pairs -> Row \cup {NoRow}]
        /\ GoodTable(edges)' /\ Covers'
        /\ \A j \in Pairs : Known(j) => Known(j)'
    BY <2>1, <2>2, <2>3, WriteRow DEF TypeOK
  <2>5. TypeOK'
    BY <1>2, <2>4 DEF TypeOK, Seed, pass
  <2>6. GoodTable(disk)'
    BY <2>3 DEF GoodTable
  <2>7. toDecay' \subseteq toDecay /\ toDecay \subseteq Pairs
    BY <1>2 DEF TypeOK, Seed
  <2> QED
    BY <2>4, <2>5, <2>6, <2>7
<1>3. ASSUME NEW e \in toConfirm, Confirm(e) PROVE IInv'
  <2> DEFINE k == KeyOf(e)
  <2>1. k \in Pairs /\ edges[k] \in Row \cup {NoRow}
        /\ (edges[k] # NoRow => GoodRow(edges[k]))
    BY KeyType DEF TypeOK, GoodTable
  <2>2. /\ GoodRow(ConfirmedRow(edges[k]))
        /\ Remembers(ConfirmedRow(edges[k]), edges[k])
    BY <2>1, ConfirmedGood
  <2>3. edges' = [edges EXCEPT ![k] = ConfirmedRow(edges[k])] /\ disk' = disk
    BY <1>3 DEF Confirm
  <2> HIDE DEF k
  <2>4. /\ edges' \in [Pairs -> Row \cup {NoRow}]
        /\ GoodTable(edges)' /\ Covers'
        /\ \A j \in Pairs : Known(j) => Known(j)'
    BY <2>1, <2>2, <2>3, WriteRow DEF TypeOK
  <2>5. TypeOK'
    BY <1>3, <2>4 DEF TypeOK, Confirm, pass
  <2>6. GoodTable(disk)'
    BY <2>3 DEF GoodTable
  <2>7. toDecay' \subseteq toDecay /\ toDecay \subseteq Pairs
    BY <1>3 DEF TypeOK, Confirm
  <2> QED
    BY <2>4, <2>5, <2>6, <2>7
<1>4. CASE SelectAbsent
  <2>1. TypeOK'
    BY <1>4 DEF SelectAbsent, TypeOK, pass, AbsentRows
  <2>2. /\ GoodTable(edges)' /\ GoodTable(disk)' /\ Covers'
        /\ \A k \in toDecay' : Known(k)'
    BY <1>4 DEF SelectAbsent, GoodTable, Covers, AbsentRows, Known
  <2> QED
    BY <2>1, <2>2
<1>5. ASSUME NEW k \in toDecay, DecayAbsent(k) PROVE IInv'
  <2>1. k \in Pairs /\ edges[k] \in Row /\ GoodRow(edges[k])
    BY <1>5 DEF TypeOK, GoodTable, Known
  <2>2. GoodRow(DecayedRow(edges[k])) /\ Remembers(DecayedRow(edges[k]), edges[k])
    BY <2>1, DecayedGood
  <2>3. edges' = [edges EXCEPT ![k] = DecayedRow(edges[k])] /\ disk' = disk
    BY <1>5 DEF DecayAbsent
  <2>4. /\ edges' \in [Pairs -> Row \cup {NoRow}]
        /\ GoodTable(edges)' /\ Covers'
        /\ \A j \in Pairs : Known(j) => Known(j)'
    BY <2>1, <2>2, <2>3, WriteRow DEF TypeOK
  <2>5. TypeOK'
    BY <1>5, <2>4 DEF TypeOK, DecayAbsent, pass
  <2>6. GoodTable(disk)'
    BY <2>3 DEF GoodTable
  <2>7. toDecay' \subseteq toDecay /\ toDecay \subseteq Pairs
    BY <1>5 DEF TypeOK, DecayAbsent
  <2> QED
    BY <2>4, <2>5, <2>6, <2>7
<1>6. CASE Commit
  <2>1. TypeOK' /\ GoodTable(edges)' /\ GoodTable(disk)'
    BY <1>6 DEF Commit, TypeOK, GoodTable, pass
  <2>2. Covers'
    BY <1>6, CoversItself DEF Commit, TypeOK
  <2> QED
    BY <1>6, <2>1, <2>2 DEF Commit, Known
<1>7. CASE Render \/ Fail
  BY <1>7 DEF Render, Fail, Quiet, TypeOK, GoodTable, Covers, Known
<1>8. CASE Crash
  <2>1. TypeOK' /\ GoodTable(edges)' /\ GoodTable(disk)'
    BY <1>8 DEF Crash, Quiet, TypeOK, GoodTable
  <2>2. Covers'
    BY <1>8, CoversItself DEF Crash, TypeOK
  <2> QED
    BY <1>8, <2>1, <2>2 DEF Crash, Quiet
<1>9. CASE UNCHANGED vars
  BY <1>9 DEF vars, TypeOK, GoodTable, Covers, Known
<1> QED
  BY <1>1, <1>2, <1>3, <1>4, <1>5, <1>6, <1>7, <1>8, <1>9 DEF Next, Work

-----------------------------------------------------------------------------
(* The theorems.                                                           *)

\* Every state of every execution satisfies the inductive invariant.
THEOREM Invariant == Spec => []IInv
BY InitIInv, NextIInv, PTL DEF Spec

\* The tables and the bookkeeping of a pass stay well typed.
THEOREM TypeCorrect == Spec => []TypeOK
<1>1. IInv => TypeOK
  BY DEF IInv
<1> QED
  BY <1>1, Invariant, PTL

\* The visible flag never disagrees with the confidence, for every tuning.
THEOREM HysteresisHolds == Spec => []Hysteresis
<1>1. IInv => Hysteresis
  BY DEF IInv, GoodTable, GoodRow, Hysteresis
<1> QED
  BY <1>1, Invariant, PTL

\* The state label served agrees with the visible flag.
THEOREM LabelsHold == Spec => []LabelsAgree
<1>1. IInv => LabelsAgree
  BY DEF IInv, GoodTable, GoodRow, LabelsAgree
<1> QED
  BY <1>1, Invariant, PTL

\* No exception and no crash makes the engine forget what it has committed.
THEOREM FloorKept == Spec => FloorNeverForgotten
<1> DEFINE Kept == \A k \in Pairs : Remembers(disk'[k], disk[k])
<1>1. IInv /\ [Next]_vars => [Kept]_vars
  <2> SUFFICES ASSUME IInv, Next PROVE Kept
    OBVIOUS
  <2>1. CASE disk' = edges
    BY <2>1 DEF IInv, Covers
  <2>2. CASE disk' = disk
    <3>1. \A r \in Row : r.base \in Int /\ r.hits \in Int
      BY TuningAssumption DEF Row, Levels
    <3> QED
      BY <2>2, <3>1 DEF IInv, TypeOK, Remembers
  <2>3. disk' = edges \/ disk' = disk
    BY DEF Next, NextPass, Work, Begin, Seed, Confirm, SelectAbsent,
           DecayAbsent, Commit, Render, Fail, Crash
  <2> QED
    BY <2>1, <2>2, <2>3
<1>2. [Kept]_vars => [\A k \in Pairs : disk[k] # NoRow =>
                         /\ disk'[k] # NoRow
                         /\ disk'[k].base >= disk[k].base
                         /\ disk'[k].hits >= disk[k].hits]_vars
  BY DEF Remembers
<1> QED
  BY <1>1, <1>2, Invariant, PTL DEF Spec, FloorNeverForgotten

-----------------------------------------------------------------------------
(* What a statement does to the belief and to the flag of a row.           *)

Lit(r) == r # NoRow /\ r.visible

\* The flag of new is what the latch makes of the flag of old: on down to Hide
\* if it was on, on from Show if it was off.
Follows(new, old) ==
    Lit(new) <=> Belief(new) >= IF Lit(old) THEN Hide ELSE Show

GoodOrNone(r) == r = NoRow \/ GoodRow(r)

\* Growth from c by the rate a covers the distance from c to a.
LEMMA Distribute ==
    ASSUME NEW s \in Nat, NEW a \in 0 .. s, NEW c \in 0 .. a
    PROVE  /\ a * (s - c) \in Nat /\ s * (a - c) \in Nat
           /\ a * (s - c) >= s * (a - c)
<1>1. a * c \in Nat /\ s * c \in Nat /\ a * s \in Nat /\ a * c <= s * c
  BY Product
<1>2. a * (s - c) = a * s - a * c /\ s * (a - c) = a * s - s * c
  OBVIOUS
<1>3. a - c \in Nat /\ s - c \in Nat
  OBVIOUS
<1>4. a * (s - c) \in Nat /\ s * (a - c) \in Nat
  BY <1>3
<1> QED BY <1>1, <1>2, <1>4

\* One confirmation believes at least Alpha.
LEMMA GrownAlpha ==
    ASSUME NEW c \in Levels
    PROVE  Grown(c) >= Alpha
<1>1. /\ Scale \in Nat \ {0} /\ Alpha \in 0 .. Scale /\ c \in 0 .. Scale
      /\ Grown(c) >= c /\ Grown(c) \in Nat
  BY TuningAssumption, Curves DEF Levels
<1>2. CASE Alpha <= c
  BY <1>1, <1>2
<1>3. CASE c < Alpha
  <2>1. c \in 0 .. Alpha /\ Alpha - c \in Nat
    BY <1>1, <1>3
  <2>2. Alpha * (Scale - c) \in Nat /\ Alpha * (Scale - c) >= Scale * (Alpha - c)
    BY <1>1, <2>1, Distribute
  <2>3. Scale - c \in Levels /\ Alpha \in Levels /\ Alpha - c \in Levels
    BY <1>1, <2>1 DEF Levels
  <2>4. /\ Portion(Alpha, Scale - c) \in Nat
        /\ Portion(Alpha, Scale - c) >= Alpha - c
    BY <2>2, <2>3, Products, Rounding DEF Portion, Levels
  <2> QED BY <1>1, <2>1, <2>4 DEF Grown
<1> QED BY <1>1, <1>2, <1>3

\* The levels a good row and a missing one stand for.
LEMMA BeliefType ==
    ASSUME NEW r, GoodOrNone(r)
    PROVE  /\ Belief(r) \in Nat /\ Belief(r) \in Levels
           /\ r # NoRow => r \in Row /\ Belief(r) = r.conf
           /\ r = NoRow => Belief(r) = 0
BY TuningAssumption DEF GoodOrNone, GoodRow, Belief, Row, Levels

\* The thresholds are levels, in this order.
LEMMA Thresholds ==
    /\ Hide \in Nat /\ Show \in Nat /\ Prior \in Nat /\ Alpha \in Nat
    /\ Hide <= Show /\ Prior < Show /\ Prior <= Alpha
BY TuningAssumption DEF Levels

\* A row follows itself: the latch is at rest.
LEMMA FollowsItself ==
    ASSUME NEW r, GoodOrNone(r)
    PROVE  Follows(r, r)
<1>1. CASE r = NoRow
  BY <1>1, Thresholds DEF Follows, Lit, Belief
<1>2. CASE r # NoRow
  <2>1. Belief(r) = r.conf /\ r.conf \in Nat /\ Latched(r)
    BY <1>2, BeliefType DEF GoodOrNone, GoodRow
  <2>2. CASE r.visible
    BY <1>2, <2>1, <2>2, Thresholds DEF Follows, Lit, Latched
  <2>3. CASE ~r.visible
    BY <1>2, <2>1, <2>3, Thresholds DEF Follows, Lit, Latched
  <2> QED BY <2>2, <2>3
<1> QED BY <1>1, <1>2

\* Seeding gives a missing row the prior, dark, and leaves the belief of another
\* as it was.
LEMMA SeededBelief ==
    ASSUME NEW r, GoodOrNone(r)
    PROVE  /\ Belief(SeededRow(r)) = IF r = NoRow THEN Prior ELSE Belief(r)
           /\ SeededRow(r) # NoRow
           /\ SeededRow(r).base >= Prior
           /\ Lit(SeededRow(r)) <=> Lit(r)
<1>0. SeededRow(r) # NoRow
  BY SeededGood, RowIsNotNoRow DEF GoodOrNone, GoodRow
<1>1. CASE r = NoRow
  BY <1>0, <1>1, Thresholds DEF SeededRow, Belief, Lit
<1>2. CASE r # NoRow
  <2>1. r \in Row /\ r.base \in Nat
    BY <1>2, TuningAssumption DEF GoodOrNone, GoodRow, Row, Levels
  <2>2. /\ SeededRow(r).conf = r.conf /\ SeededRow(r).visible = r.visible
        /\ SeededRow(r).base = Higher(r.base, Prior)
    BY <1>2, <2>1 DEF SeededRow, Row
  <2>3. Higher(r.base, Prior) >= Prior
    BY <2>1, Thresholds DEF Higher
  <2> QED BY <1>0, <1>2, <2>2, <2>3 DEF Belief, Lit
<1> QED BY <1>1, <1>2

\* A seeded row is lit as the latch demands of its belief.
LEMMA SeededFollows ==
    ASSUME NEW r, NEW o, GoodOrNone(r), GoodOrNone(o), Follows(r, o),
           o # NoRow => r # NoRow
    PROVE  Follows(SeededRow(r), o)
<1>1. CASE r = NoRow
  <2>1. o = NoRow
    BY <1>1
  <2> QED BY <1>1, <2>1, SeededBelief, Thresholds DEF Follows, Lit
<1>2. CASE r # NoRow
  BY <1>2, SeededBelief DEF Follows
<1> QED BY <1>1, <1>2

\* Confirming raises the belief to Alpha at least, above the floor, and lights
\* the row from Show on.
LEMMA ConfirmedBelief ==
    ASSUME NEW r, GoodOrNone(r)
    PROVE  LET n == ConfirmedRow(r)
           IN  /\ n # NoRow /\ n.conf \in Nat /\ n.conf >= n.base
               /\ Belief(n) = n.conf /\ n.conf >= Belief(r)
               /\ Lit(n) <=> (Lit(r) \/ n.conf >= Show)
<1> DEFINE n == ConfirmedRow(r)
           c == IF r = NoRow THEN Alpha ELSE Grown(r.conf)
<1>1. n \in Row /\ n # NoRow
  BY ConfirmedGood, RowIsNotNoRow DEF GoodOrNone, GoodRow
<1>2. n.conf = c
  BY DEF ConfirmedRow
<1>3. c \in Levels /\ c \in Nat /\ c >= Alpha /\ c >= Belief(r)
  <2>1. CASE r = NoRow
    BY <2>1, Thresholds, TuningAssumption DEF Belief, Levels
  <2>2. CASE r # NoRow
    <3>1. r.conf \in Levels
      BY <2>2 DEF GoodOrNone, GoodRow, Row
    <3> QED BY <2>2, <3>1, Curves, GrownAlpha, TuningAssumption DEF Belief, Levels
  <2> QED BY <2>1, <2>2
<1>4. c >= n.base
  <2>1. GoodRow(n)
    BY ConfirmedGood DEF GoodOrNone, GoodRow
  <2>2. n.base <= c \/ n.base <= Prior
    BY <1>2, <2>1 DEF GoodRow
  <2>3. n.base \in Nat
    BY <1>1, TuningAssumption DEF Row, Levels
  <2> QED BY <1>3, <2>2, <2>3, Thresholds
<1>5. n.visible <=> (Lit(r) \/ c >= Show)
  <2>1. CASE r = NoRow
    BY <2>1 DEF ConfirmedRow, Lit
  <2>2. CASE r # NoRow
    BY <2>2 DEF ConfirmedRow, Lit
  <2> QED BY <2>1, <2>2
<1> HIDE DEF n, c
<1> QED BY <1>1, <1>2, <1>3, <1>4, <1>5 DEF Belief, Lit, n

\* In the update phase no belief is below the committed one, so a lit row that
\* is confirmed is still lit.
LEMMA ConfirmedFollows ==
    ASSUME NEW r, NEW o, GoodOrNone(r), GoodOrNone(o), Follows(r, o),
           Belief(r) >= Belief(o)
    PROVE  Follows(ConfirmedRow(r), o)
<1> DEFINE n == ConfirmedRow(r)
<1>1. /\ n.conf \in Nat /\ Belief(n) = n.conf /\ n.conf >= Belief(r)
      /\ Lit(n) <=> (Lit(r) \/ n.conf >= Show)
  BY ConfirmedBelief
<1> HIDE DEF n
<1>2. Belief(r) \in Nat /\ Belief(o) \in Nat
  BY BeliefType
<1>3. CASE Lit(o)
  <2>1. Belief(o) >= Hide
    BY <1>3, BeliefType DEF Lit, GoodOrNone, GoodRow, Latched
  <2>2. Belief(r) >= Hide
    BY <1>2, <2>1, Thresholds
  <2>3. Lit(r)
    BY <1>3, <2>2 DEF Follows
  <2>4. n.conf >= Hide
    BY <1>1, <1>2, <2>2, Thresholds
  <2> QED BY <1>1, <1>3, <2>3, <2>4 DEF Follows, n
<1>4. CASE ~Lit(o)
  <2>1. Lit(r) => n.conf >= Show
    BY <1>1, <1>2, <1>4, Thresholds DEF Follows
  <2> QED BY <1>1, <1>4, <2>1 DEF Follows, n
<1> QED BY <1>3, <1>4

\* Decay takes one step of fading at most, not below the floor, and turns the
\* flag off only below Hide.
LEMMA DecayedBelief ==
    ASSUME NEW r, GoodRow(r)
    PROVE  LET n == DecayedRow(r)
           IN  /\ n # NoRow /\ n.conf \in Nat /\ Belief(n) = n.conf
               /\ n.conf >= n.base
               /\ n.conf >= Faded(r.conf)
               /\ n.conf \in {r.base, Faded(r.conf)}
               /\ Lit(n) <=> (Lit(r) /\ n.conf >= Hide)
<1> DEFINE c == Higher(r.base, Faded(r.conf))
           n == DecayedRow(r)
<1>1. r \in Row /\ r # NoRow /\ r.conf \in Levels /\ r.base \in Nat
  BY RowIsNotNoRow, TuningAssumption DEF GoodRow, Row, Levels
<1>2. Faded(r.conf) \in Nat
  BY <1>1, Curves, TuningAssumption DEF Levels
<1>3. c \in Nat /\ c >= r.base /\ c >= Faded(r.conf) /\ c \in {r.base, Faded(r.conf)}
  BY <1>1, <1>2 DEF Higher
<1>4. n # NoRow
  BY <1>1, DecayedGood, RowIsNotNoRow DEF GoodRow
<1>5. n.conf = c /\ n.base = r.base
  BY <1>1 DEF DecayedRow, Row
<1>6. n.visible = (r.visible /\ c >= Hide)
  BY <1>1 DEF DecayedRow, Row
<1> HIDE DEF c, n
<1>7. n.visible <=> (r.visible /\ c >= Hide)
  BY <1>6
<1> QED BY <1>1, <1>3, <1>4, <1>5, <1>7 DEF Belief, Lit, n

\* A row that decays was not touched by the pass before, so its flag is still
\* the committed one.
LEMMA DecayedFollows ==
    ASSUME NEW r, NEW o, GoodRow(r), GoodOrNone(o), Follows(r, o),
           IF o = NoRow THEN r.conf <= Prior ELSE r.conf = o.conf
    PROVE  Follows(DecayedRow(r), o)
<1> DEFINE n == DecayedRow(r)
<1>1. /\ n.conf \in Nat /\ Belief(n) = n.conf
      /\ n.conf \in {r.base, Faded(r.conf)}
      /\ Lit(n) <=> (Lit(r) /\ n.conf >= Hide)
  BY DecayedBelief
<1> HIDE DEF n
<1>2. /\ r # NoRow /\ r.conf \in Nat /\ r.base \in Nat /\ Belief(r) = r.conf
      /\ r.base <= r.conf \/ r.base <= Prior
      /\ Faded(r.conf) \in Nat /\ Faded(r.conf) <= r.conf
  BY RowIsNotNoRow, Curves, TuningAssumption DEF GoodRow, Row, Levels, Belief
<1>3. CASE Lit(o)
  <2>1. o # NoRow /\ o.conf >= Hide
    BY <1>3 DEF Lit, GoodOrNone, GoodRow, Latched
  <2>2. Lit(r)
    BY <1>2, <1>3, <2>1 DEF Follows
  <2> QED BY <1>1, <1>3, <2>2 DEF Follows, n
<1>4. CASE ~Lit(o)
  <2>1. r.conf < Show
    <3>1. CASE o = NoRow
      BY <1>2, <3>1, Thresholds
    <3>2. CASE o # NoRow
      <4>1. ~(o.conf >= Show)
        BY <1>4, <3>2 DEF Lit, GoodOrNone, GoodRow, Latched
      <4> QED BY <1>2, <3>2, <4>1, Thresholds
    <3> QED BY <3>1, <3>2
  <2>2. ~Lit(r)
    BY <1>2, <1>4, <2>1, Thresholds DEF Follows
  <2>3. ~(n.conf >= Show)
    BY <1>1, <1>2, <2>1, Thresholds
  <2> QED BY <1>1, <1>4, <2>2, <2>3 DEF Follows, n
<1> QED BY <1>3, <1>4

-----------------------------------------------------------------------------
(* What holds in the middle of a pass.                                     *)

\* The work lists of a pass: only pairs with both ends running are seeded or
\* decayed, only edges between running pods confirmed, in this order, and what
\* was accepted does not decay.
Bookkeeping ==
    /\ \A e \in live : e[1] \in present /\ e[2] \in present
    /\ \A k \in toSeed \cup toDecay : EndpointsPresent(k)
    /\ \A k \in toDecay : k \notin Seen
    /\ toSeed = {} \/ toConfirm = live
    /\ phase \in {"decay", "render"} => toSeed = {} /\ toConfirm = {}
    /\ phase # "decay" => toDecay = {}
    /\ phase = "idle" => live = {}

AboveFloor(k) == Known(k) => edges[k].conf >= edges[k].base
Floored(k) == Known(k) /\ edges[k].base >= Prior

\* The topology floor of a pair is in place or about to be, and a row below its
\* floor, which only a retrofitted seeding makes, is one that the pass has yet
\* to confirm or to decay.
Floors ==
    /\ phase # "idle" =>
        \A k \in Backbone : EndpointsPresent(k) => k \in toSeed \/ Floored(k)
    /\ \A e \in live \ toConfirm : AboveFloor(KeyOf(e))
    /\ phase \in {"decay", "render"} =>
        \A k \in Pairs : EndpointsPresent(k) => k \in toDecay \/ AboveFloor(k)

\* The pass has at most seeded a row for the pair.
Untouched(k) ==
    IF disk[k] = NoRow THEN Known(k) => edges[k].conf <= Prior
    ELSE edges[k].conf = disk[k].conf

\* How far the open transaction may have moved a pair from its committed row.
Drifted(k) ==
    /\ Follows(edges[k], disk[k])
    /\ phase \in {"update", "decay"} =>
        /\ phase = "update" \/ k \in Seen => Belief(edges[k]) >= Belief(disk[k])
        /\ k \notin Seen /\ (phase = "update" \/ k \in toDecay) => Untouched(k)
        /\ Belief(edges[k]) >= Faded(Belief(disk[k]))
        /\ ~EndpointsPresent(k) => edges[k] = disk[k]

Drift == \A k \in Pairs : Drifted(k)

\* All that holds in every state.
FullInv == IInv /\ Bookkeeping /\ Floors /\ Drift

\* A step of the same pass sees the same pods.
LEMMA SamePass ==
    ASSUME UNCHANGED pass
    PROVE  /\ Seen' = Seen /\ live' = live /\ present' = present
           /\ \A k : EndpointsPresent(k)' <=> EndpointsPresent(k)
BY DEF pass, Seen, EndpointsPresent, PodsPresent

\* The ends of an accepted edge run.
LEMMA LiveEnds ==
    ASSUME TypeOK, Bookkeeping, NEW e \in live
    PROVE  EndpointsPresent(KeyOf(e)) /\ KeyOf(e) \in Pairs /\ KeyOf(e) \in Seen
BY KeyType DEF TypeOK, Bookkeeping, EndpointsPresent, PodsPresent, KeyOf, Seen

\* What is still to seed, confirm and decay tells which rows were touched.
LEMMA NextBookkeeping ==
    ASSUME TypeOK, Bookkeeping, [Next]_vars
    PROVE  Bookkeeping'
<1>1. ASSUME NEW ps \in SUBSET Pods, NEW es \in LiveEdgeSets(ps), Begin(ps, es)
      PROVE  Bookkeeping'
  <2>1. \A e \in live' : e[1] \in present' /\ e[2] \in present'
    BY <1>1 DEF Begin, LiveEdgeSets
  <2>2. toDecay' = {} /\ toConfirm' = live' /\ phase' = "update"
    BY <1>1 DEF Begin, Bookkeeping
  <2>3. \A k \in toSeed' : EndpointsPresent(k)'
    BY <1>1 DEF Begin, EndpointsPresent, PodsPresent
  <2> QED BY <2>1, <2>2, <2>3 DEF Bookkeeping
<1>2. ASSUME NEW k \in toSeed, Seed(k) PROVE Bookkeeping'
  <2>1. UNCHANGED pass
    BY <1>2 DEF Seed
  <2> QED BY <1>2, <2>1, SamePass DEF Seed, Bookkeeping
<1>3. ASSUME NEW e \in toConfirm, Confirm(e) PROVE Bookkeeping'
  <2>1. UNCHANGED pass
    BY <1>3 DEF Confirm
  <2> QED BY <1>3, <2>1, SamePass DEF Confirm, Bookkeeping
<1>4. CASE SelectAbsent
  <2>1. UNCHANGED pass
    BY <1>4 DEF SelectAbsent
  <2>2. \A k \in AbsentRows : EndpointsPresent(k) /\ k \notin Seen
    BY DEF AbsentRows
  <2> QED BY <1>4, <2>1, <2>2, SamePass DEF SelectAbsent, Bookkeeping
<1>5. ASSUME NEW k \in toDecay, DecayAbsent(k) PROVE Bookkeeping'
  <2>1. UNCHANGED pass
    BY <1>5 DEF DecayAbsent
  <2> QED BY <1>5, <2>1, SamePass DEF DecayAbsent, Bookkeeping
<1>6. CASE Commit
  <2>1. UNCHANGED pass
    BY <1>6 DEF Commit
  <2> QED BY <1>6, <2>1, SamePass DEF Commit, Bookkeeping
<1>7. CASE Render \/ Fail \/ Crash
  BY <1>7 DEF Render, Fail, Crash, Quiet, Bookkeeping
<1>8. CASE UNCHANGED vars
  <2>1. UNCHANGED pass
    BY <1>8 DEF vars, pass
  <2> QED BY <1>8, <2>1, SamePass DEF vars, Bookkeeping
<1> QED
  BY <1>1, <1>2, <1>3, <1>4, <1>5, <1>6, <1>7, <1>8 DEF Next, NextPass, Work

\* One written row leaves the others as they are.
LEMMA OtherRows ==
    ASSUME TypeOK, NEW k \in Pairs, NEW r,
           edges' = [edges EXCEPT ![k] = r]
    PROVE  /\ edges'[k] = r
           /\ \A j \in Pairs : j # k => edges'[j] = edges[j]
BY DEF TypeOK

\* A row the pass has been at is at or above its floor.
LEMMA NextFloors ==
    ASSUME IInv, Bookkeeping, Floors, [Next]_vars
    PROVE  Floors'
<1> USE DEF IInv
<1>0. \A k \in Pairs : GoodOrNone(edges[k])
  BY DEF GoodTable, GoodOrNone
<1>1. ASSUME NEW ps \in SUBSET Pods, NEW es \in LiveEdgeSets(ps), Begin(ps, es)
      PROVE  Floors'
  <2>1. live' \ toConfirm' = {} /\ phase' = "update"
    BY <1>1 DEF Begin
  <2>2. \A k \in Backbone : EndpointsPresent(k)' => k \in toSeed'
    BY <1>1, ShapeAssumption DEF Begin, EndpointsPresent, PodsPresent, Pairs
  <2> QED BY <2>1, <2>2 DEF Floors
<1>2. ASSUME NEW k \in toSeed, Seed(k) PROVE Floors'
  <2>1. k \in Pairs /\ edges' = [edges EXCEPT ![k] = SeededRow(edges[k])]
    BY <1>2 DEF Seed, TypeOK
  <2>2. /\ edges'[k] = SeededRow(edges[k])
        /\ \A j \in Pairs : j # k => edges'[j] = edges[j]
    BY <2>1, OtherRows
  <2>3. Floored(k)'
    BY <1>0, <2>1, <2>2, SeededBelief DEF Floored, Known
  <2>4. \A j \in Pairs : j # k => (Floored(j)' <=> Floored(j))
    BY <2>2 DEF Floored, Known
  <2>5. UNCHANGED pass /\ phase = "update" /\ phase' = "update" /\ toSeed' = toSeed \ {k}
    BY <1>2 DEF Seed
  <2>6. \A j \in Backbone : EndpointsPresent(j)' => j \in toSeed' \/ Floored(j)'
    BY <2>3, <2>4, <2>5, SamePass, ShapeAssumption DEF Floors
  <2>7. live' \ toConfirm' = {}
    BY <1>2, <2>5, SamePass DEF Seed, Bookkeeping
  <2> QED BY <2>5, <2>6, <2>7 DEF Floors
<1>3. ASSUME NEW e \in toConfirm, Confirm(e) PROVE Floors'
  <2> DEFINE k == KeyOf(e)
  <2>1. k \in Pairs /\ edges' = [edges EXCEPT ![k] = ConfirmedRow(edges[k])]
    BY <1>3, KeyType DEF Confirm, TypeOK
  <2> HIDE DEF k
  <2>2. /\ edges'[k] = ConfirmedRow(edges[k])
        /\ \A j \in Pairs : j # k => edges'[j] = edges[j]
    BY <2>1, OtherRows
  <2>3. AboveFloor(k)' /\ Known(k)'
    BY <1>0, <2>1, <2>2, ConfirmedBelief DEF AboveFloor, Known
  <2>4. Floored(k) => Floored(k)'
    <3>1. GoodRow(ConfirmedRow(edges[k])) /\ Remembers(ConfirmedRow(edges[k]), edges[k])
      BY <1>0, <2>1, ConfirmedGood DEF GoodOrNone, GoodRow
    <3>2. \A r \in Row : r.base \in Nat
      BY TuningAssumption DEF Row, Levels
    <3>3. ASSUME Floored(k) PROVE Floored(k)'
      <4>1. edges[k] # NoRow /\ edges[k] \in Row /\ edges[k].base >= Prior
        BY <1>0, <2>1, <3>3 DEF Floored, Known, GoodOrNone, GoodRow
      <4>2. ConfirmedRow(edges[k]).base >= edges[k].base
        BY <3>1, <4>1 DEF Remembers
      <4>3. ConfirmedRow(edges[k]).base \in Nat /\ edges[k].base \in Nat
        BY <3>1, <3>2, <4>1 DEF GoodRow
      <4> QED BY <2>2, <2>3, <4>1, <4>2, <4>3, Thresholds DEF Floored
    <3> QED BY <3>3
  <2>5. \A j \in Pairs : j # k => /\ Floored(j)' <=> Floored(j)
                                  /\ AboveFloor(j)' <=> AboveFloor(j)
    BY <2>2 DEF Floored, AboveFloor, Known
  <2>6. /\ UNCHANGED pass /\ phase = "update" /\ phase' = "update"
        /\ toSeed' = toSeed /\ toConfirm' = toConfirm \ {e}
    BY <1>3 DEF Confirm
  <2>7. \A j \in Backbone : EndpointsPresent(j)' => j \in toSeed' \/ Floored(j)'
    BY <2>4, <2>5, <2>6, SamePass, ShapeAssumption DEF Floors
  <2>8. ASSUME NEW d \in live' \ toConfirm' PROVE AboveFloor(KeyOf(d))'
    <3>1. d \in live /\ (d \in toConfirm => d = e) /\ KeyOf(d) \in Pairs
      BY <2>6, <2>8, SamePass, KeyType DEF TypeOK
    <3>2. CASE KeyOf(d) = k
      BY <2>3, <3>2
    <3>3. CASE KeyOf(d) # k
      <4>1. d \notin toConfirm
        BY <3>1, <3>3 DEF k
      <4> QED BY <2>5, <3>1, <3>3, <4>1 DEF Floors
    <3> QED BY <3>2, <3>3
  <2>9. \A d \in live' \ toConfirm' : AboveFloor(KeyOf(d))'
    BY <2>8
  <2> QED BY <2>6, <2>7, <2>9 DEF Floors
<1>4. CASE SelectAbsent
  <2>1. /\ UNCHANGED <<pass, edges>> /\ phase = "update" /\ phase' = "decay"
        /\ toSeed' = {} /\ toSeed = {} /\ toConfirm' = {} /\ toConfirm = {}
        /\ toDecay' = AbsentRows
    BY <1>4 DEF SelectAbsent
  <2>2. \A k : /\ Floored(k)' <=> Floored(k)
               /\ AboveFloor(k)' <=> AboveFloor(k)
    BY <2>1 DEF Floored, AboveFloor, Known
  <2>3. \A k \in Pairs : EndpointsPresent(k) => k \in AbsentRows \/ AboveFloor(k)
    <3> SUFFICES ASSUME NEW k \in Pairs, EndpointsPresent(k), k \notin AbsentRows,
                        Known(k)
                 PROVE  AboveFloor(k)
      BY DEF AboveFloor
    <3>1. PICK e \in live : KeyOf(e) = k
      BY DEF AbsentRows, Seen
    <3> QED BY <2>1, <3>1 DEF Floors
  <2> QED BY <2>1, <2>2, <2>3, SamePass DEF Floors
<1>5. ASSUME NEW k \in toDecay, DecayAbsent(k) PROVE Floors'
  <2>1. /\ k \in Pairs /\ edges' = [edges EXCEPT ![k] = DecayedRow(edges[k])]
        /\ Known(k)
    BY <1>5 DEF DecayAbsent, TypeOK
  <2>2. /\ edges'[k] = DecayedRow(edges[k])
        /\ \A j \in Pairs : j # k => edges'[j] = edges[j]
    BY <2>1, OtherRows
  <2>3. GoodRow(edges[k])
    BY <1>0, <2>1 DEF GoodOrNone, Known
  <2>4. AboveFloor(k)' /\ Known(k)'
    BY <2>2, <2>3, DecayedBelief DEF AboveFloor, Known
  <2>5. Floored(k) => Floored(k)'
    <3>1. DecayedRow(edges[k]).base = edges[k].base
      BY <2>3 DEF GoodRow, DecayedRow, Row
    <3> QED BY <2>2, <2>4, <3>1 DEF Floored
  <2>6. \A j \in Pairs : j # k => /\ Floored(j)' <=> Floored(j)
                                  /\ AboveFloor(j)' <=> AboveFloor(j)
    BY <2>2 DEF Floored, AboveFloor, Known
  <2>7. /\ UNCHANGED pass /\ phase = "decay" /\ phase' = "decay"
        /\ toSeed' = toSeed /\ toConfirm' = toConfirm /\ toDecay' = toDecay \ {k}
    BY <1>5 DEF DecayAbsent
  <2>8. \A j \in Backbone : EndpointsPresent(j)' => j \in toSeed' \/ Floored(j)'
    BY <2>5, <2>6, <2>7, SamePass, ShapeAssumption DEF Floors
  <2>9. \A d \in live : KeyOf(d) \in Pairs
    BY KeyType DEF TypeOK
  <2>10. \A d \in live' \ toConfirm' : AboveFloor(KeyOf(d))'
    BY <2>4, <2>6, <2>7, <2>9, SamePass DEF Floors
  <2>11. \A j \in Pairs : EndpointsPresent(j)' => j \in toDecay' \/ AboveFloor(j)'
    BY <2>4, <2>6, <2>7, SamePass DEF Floors
  <2> QED BY <2>7, <2>8, <2>10, <2>11 DEF Floors
<1>6. CASE Commit
  <2>1. /\ UNCHANGED <<pass, edges, toSeed, toConfirm, toDecay>>
        /\ phase = "decay" /\ phase' = "render"
    BY <1>6 DEF Commit
  <2> QED BY <2>1, SamePass DEF Floors, Floored, AboveFloor, Known
<1>7. CASE Render \/ Fail \/ Crash
  BY <1>7 DEF Render, Fail, Crash, Quiet, Floors
<1>8. CASE UNCHANGED vars
  <2>1. UNCHANGED pass
    BY <1>8 DEF vars, pass
  <2> QED BY <1>8, <2>1, SamePass DEF vars, Floors, Floored, AboveFloor, Known
<1> QED
  BY <1>1, <1>2, <1>3, <1>4, <1>5, <1>6, <1>7, <1>8 DEF Next, NextPass, Work

\* A pair that a step does not write drifts no further.
LEMMA DriftKept ==
    ASSUME NEW k \in Pairs, Drifted(k), edges'[k] = edges[k], disk' = disk,
           UNCHANGED pass, phase' = phase, k \in toDecay' => k \in toDecay
    PROVE  Drifted(k)'
<1>1. Seen' = Seen /\ (EndpointsPresent(k)' <=> EndpointsPresent(k))
  BY SamePass
<1> QED BY <1>1 DEF Drifted, Untouched, Known

\* A commit ends every drift.
LEMMA CommittedDrift ==
    ASSUME IInv, NEW k \in Pairs, edges'[k] = disk'[k],
           edges' = edges \/ edges' = disk
    PROVE  Drifted(k)'
<1> DEFINE r == edges'[k]
<1>1. GoodOrNone(r)
  BY DEF IInv, GoodTable, GoodOrNone
<1>2. r = disk'[k]
  OBVIOUS
<1> HIDE DEF r
<1>3. Follows(r, r)
  BY <1>1, FollowsItself
<1>4. Belief(r) \in Nat /\ Faded(Belief(r)) <= Belief(r)
  BY <1>1, BeliefType, Curves
<1>5. Belief(r) >= Belief(r) /\ Belief(r) >= Faded(Belief(r))
  <2>1. Faded(Belief(r)) \in Nat
    BY <1>1, BeliefType, Curves, TuningAssumption DEF Levels
  <2> QED BY <1>4, <2>1
<1>6. Untouched(k)'
  <2>1. CASE r = NoRow
    BY <1>2, <2>1 DEF Untouched, Known, r
  <2>2. CASE r # NoRow
    BY <1>2, <2>2 DEF Untouched, r
  <2> QED BY <2>1, <2>2
<1> QED BY <1>2, <1>3, <1>5, <1>6 DEF Drifted, r

\* Between two commits a row moves by what one pass may do to it.
LEMMA NextDrift ==
    ASSUME IInv, Bookkeeping, Drift, [Next]_vars
    PROVE  Drift'
<1>0. \A k \in Pairs : /\ GoodOrNone(edges[k]) /\ GoodOrNone(disk[k])
                       /\ disk[k] # NoRow => edges[k] # NoRow
  BY DEF IInv, GoodTable, GoodOrNone, Covers, Remembers
<1>1. ASSUME NEW ps \in SUBSET Pods, NEW es \in LiveEdgeSets(ps), Begin(ps, es)
      PROVE  Drift'
  BY <1>1, CommittedDrift DEF Begin, Drift
<1>2. ASSUME NEW k \in toSeed, Seed(k) PROVE Drift'
  <2>1. k \in Pairs /\ edges' = [edges EXCEPT ![k] = SeededRow(edges[k])]
    BY <1>2 DEF Seed, IInv, TypeOK
  <2>2. /\ edges'[k] = SeededRow(edges[k])
        /\ \A j \in Pairs : j # k => edges'[j] = edges[j]
    BY <2>1, OtherRows DEF IInv
  <2>3. /\ UNCHANGED pass /\ disk' = disk /\ phase = "update" /\ phase' = phase
        /\ toDecay' = toDecay
    BY <1>2 DEF Seed
  <2>4. \A j \in Pairs : j # k => Drifted(j)'
    BY <2>2, <2>3, DriftKept DEF Drift
  <2> DEFINE r == edges[k]
             o == disk[k]
             n == SeededRow(r)
  <2>5. /\ GoodOrNone(r) /\ GoodOrNone(o) /\ (o # NoRow => r # NoRow)
        /\ Follows(r, o) /\ Belief(r) >= Belief(o)
        /\ k \notin Seen => Untouched(k)
        /\ Belief(r) >= Faded(Belief(o))
    BY <1>0, <2>1, <2>3 DEF Drift, Drifted
  <2>6. n # NoRow /\ Belief(n) = IF r = NoRow THEN Prior ELSE Belief(r)
    BY <2>5, SeededBelief
  <2>7. Follows(n, o)
    BY <2>5, SeededFollows
  <2>8. Belief(n) >= Belief(o) /\ Belief(n) >= Faded(Belief(o))
    <3>1. CASE r = NoRow
      <4>1. Belief(o) = 0 /\ Belief(n) = Prior /\ Belief(r) = 0
        BY <2>5, <2>6, <3>1 DEF Belief
      <4>2. Faded(Belief(o)) \in Nat /\ Faded(Belief(o)) <= Belief(o)
        BY <2>5, BeliefType, Curves, TuningAssumption DEF Levels
      <4> QED BY <4>1, <4>2, Thresholds
    <3>2. CASE r # NoRow
      BY <2>5, <2>6, <3>2
    <3> QED BY <3>1, <3>2
  <2>9. k \notin Seen => Untouched(k)'
    <3> SUFFICES ASSUME k \notin Seen PROVE Untouched(k)'
      OBVIOUS
    <3>1. Untouched(k) /\ edges'[k] = n /\ disk'[k] = o
      BY <2>2, <2>3, <2>5
    <3>2. n.conf = IF r = NoRow THEN Prior ELSE r.conf
      BY <2>6 DEF Belief
    <3>3. CASE o = NoRow
      BY <3>1, <3>2, <3>3, Thresholds DEF Untouched, Known
    <3>4. CASE o # NoRow
      BY <2>5, <3>1, <3>2, <3>4 DEF Untouched
    <3> QED BY <3>3, <3>4
  <2>10. EndpointsPresent(k)
    BY <1>2 DEF Bookkeeping
  <2>11. Drifted(k)'
    BY <2>2, <2>3, <2>7, <2>8, <2>9, <2>10, SamePass DEF Drifted
  <2> QED BY <2>4, <2>11 DEF Drift
<1>3. ASSUME NEW e \in toConfirm, Confirm(e) PROVE Drift'
  <2> DEFINE k == KeyOf(e)
  <2>1. /\ k \in Pairs /\ edges' = [edges EXCEPT ![k] = ConfirmedRow(edges[k])]
        /\ k \in Seen /\ EndpointsPresent(k)
    <3>1. e \in live
      BY DEF IInv, TypeOK
    <3> QED BY <1>3, <3>1, LiveEnds DEF Confirm, IInv
  <2> HIDE DEF k
  <2>2. /\ edges'[k] = ConfirmedRow(edges[k])
        /\ \A j \in Pairs : j # k => edges'[j] = edges[j]
    BY <2>1, OtherRows DEF IInv
  <2>3. /\ UNCHANGED pass /\ disk' = disk /\ phase = "update" /\ phase' = phase
        /\ toDecay' = toDecay
    BY <1>3 DEF Confirm
  <2>4. \A j \in Pairs : j # k => Drifted(j)'
    BY <2>2, <2>3, DriftKept DEF Drift
  <2> DEFINE r == edges[k]
             o == disk[k]
             n == ConfirmedRow(r)
  <2>5. /\ GoodOrNone(r) /\ GoodOrNone(o) /\ Follows(r, o)
        /\ Belief(r) >= Belief(o) /\ Belief(r) >= Faded(Belief(o))
    BY <1>0, <2>1, <2>3 DEF Drift, Drifted
  <2>6. Belief(n) \in Nat /\ Belief(n) >= Belief(r)
    BY <2>5, ConfirmedBelief
  <2>7. /\ Belief(r) \in Nat /\ Belief(o) \in Nat /\ Faded(Belief(o)) \in Nat
    BY <2>5, BeliefType, Curves, TuningAssumption DEF Levels
  <2>8. Follows(n, o)
    BY <2>5, ConfirmedFollows
  <2> HIDE DEF n
  <2>9. Belief(n) >= Belief(o) /\ Belief(n) >= Faded(Belief(o))
    BY <2>5, <2>6, <2>7
  <2>10. edges'[k] = n /\ disk'[k] = o
    BY <2>2, <2>3 DEF n
  <2>11. Drifted(k)'
    BY <2>1, <2>3, <2>8, <2>9, <2>10, SamePass DEF Drifted
  <2> QED BY <2>4, <2>11 DEF Drift
<1>4. CASE SelectAbsent
  <2>1. /\ UNCHANGED <<pass, edges, disk>> /\ phase = "update" /\ phase' = "decay"
    BY <1>4 DEF SelectAbsent
  <2> SUFFICES ASSUME NEW k \in Pairs PROVE Drifted(k)'
    BY DEF Drift
  <2>2. Drifted(k)
    BY DEF Drift
  <2>3. Untouched(k)' <=> Untouched(k)
    BY <2>1 DEF Untouched, Known
  <2> QED BY <2>1, <2>2, <2>3, SamePass DEF Drifted
<1>5. ASSUME NEW k \in toDecay, DecayAbsent(k) PROVE Drift'
  <2>1. /\ k \in Pairs /\ edges' = [edges EXCEPT ![k] = DecayedRow(edges[k])]
        /\ Known(k) /\ k \notin Seen /\ EndpointsPresent(k)
    BY <1>5 DEF DecayAbsent, IInv, TypeOK, Bookkeeping
  <2>2. /\ edges'[k] = DecayedRow(edges[k])
        /\ \A j \in Pairs : j # k => edges'[j] = edges[j]
    BY <2>1, OtherRows DEF IInv
  <2>3. /\ UNCHANGED pass /\ disk' = disk /\ phase = "decay" /\ phase' = phase
        /\ toDecay' = toDecay \ {k}
    BY <1>5 DEF DecayAbsent
  <2>4. \A j \in Pairs : j # k => Drifted(j)'
    BY <2>2, <2>3, DriftKept DEF Drift
  <2> DEFINE r == edges[k]
             o == disk[k]
             n == DecayedRow(r)
  <2>5. /\ GoodRow(r) /\ GoodOrNone(o) /\ Follows(r, o)
        /\ IF o = NoRow THEN r.conf <= Prior ELSE r.conf = o.conf
    BY <1>0, <1>5, <2>1, <2>3 DEF Drift, Drifted, Untouched, GoodOrNone, Known
  <2>6. Follows(n, o)
    BY <2>5, DecayedFollows
  <2>7. Belief(n) \in Nat /\ Belief(n) >= Faded(r.conf)
    BY <2>5, DecayedBelief
  <2>8. Belief(n) >= Faded(Belief(o))
    <3>1. CASE o = NoRow
      <4>1. /\ Belief(o) = 0 /\ Faded(Belief(o)) \in Nat
            /\ Faded(Belief(o)) <= Belief(o)
        BY <2>5, <3>1, BeliefType, Curves, TuningAssumption DEF Levels
      <4> HIDE DEF n, o
      <4> QED BY <2>7, <4>1
    <3>2. CASE o # NoRow
      BY <2>5, <2>7, <3>2 DEF Belief
    <3> QED BY <3>1, <3>2
  <2> HIDE DEF n
  <2>9. edges'[k] = n /\ disk'[k] = o
    BY <2>2, <2>3 DEF n
  <2>10. Drifted(k)'
    BY <2>1, <2>3, <2>6, <2>8, <2>9, SamePass DEF Drifted
  <2> QED BY <2>4, <2>10 DEF Drift
<1>6. CASE Commit
  BY <1>6, CommittedDrift DEF Commit, Drift
<1>7. CASE Render \/ Fail
  BY <1>7 DEF Render, Fail, Drift, Drifted
<1>8. CASE Crash
  BY <1>8, CommittedDrift DEF Crash, Drift
<1>9. CASE UNCHANGED vars
  BY <1>9, DriftKept DEF vars, pass, Drift
<1> QED
  BY <1>1, <1>2, <1>3, <1>4, <1>5, <1>6, <1>7, <1>8, <1>9 DEF Next, NextPass, Work

\* The work lists, the floors and the drift of a pass, in every state.
THEOREM PassInvariant == Spec => []FullInv
<1>1. Init => FullInv
  <2> SUFFICES ASSUME Init PROVE FullInv
    OBVIOUS
  <2>1. IInv
    BY InitIInv
  <2>2. Bookkeeping /\ Floors
    BY DEF Init, Bookkeeping, Floors
  <2>3. Drift
    <3> SUFFICES ASSUME NEW k \in Pairs PROVE Drifted(k)
      BY DEF Drift
    <3>1. GoodOrNone(edges[k]) /\ disk[k] = edges[k]
      BY <2>1 DEF IInv, GoodTable, GoodOrNone, Init
    <3>2. Follows(edges[k], edges[k])
      BY <3>1, FollowsItself
    <3> QED BY <3>1, <3>2 DEF Init, Drifted
  <2> QED BY <2>1, <2>2, <2>3 DEF FullInv
<1>2. FullInv /\ [Next]_vars => FullInv'
  <2>1. IInv => TypeOK
    BY DEF IInv
  <2> QED BY <2>1, NextIInv, NextBookkeeping, NextFloors, NextDrift DEF FullInv
<1> QED BY <1>1, <1>2, PTL DEF Spec

\* BackboneUpheld: a committed pass leaves every witnessed disk pair that runs
\* with its topology floor and no running pair below its floor, for every
\* deployment and whatever an older schema left behind (state.py:298-326,
\* 385-388).
THEOREM BackboneHolds == Spec => []BackboneUpheld
<1>1. FullInv => BackboneUpheld
  BY DEF FullInv, Floors, Floored, AboveFloor, Bookkeeping, BackboneUpheld, IInv
<1> QED BY <1>1, PassInvariant, PTL

\* FadesGently: a commit takes nothing from an accepted pair, at most one step
\* of fading from an absent one, and nothing at all from one without data
\* (design section 1.2; state.py:378-396).
THEOREM FadingIsGentle == Spec => FadesGently
<1> DEFINE Gentle ==
        phase = "decay" /\ phase' = "render" =>
            \A k \in Pairs : disk[k] # NoRow =>
                /\ k \in Seen => disk'[k].conf >= disk[k].conf
                /\ disk'[k].conf >= Faded(disk[k].conf)
                /\ ~EndpointsPresent(k) => disk'[k] = disk[k]
<1>1. FullInv /\ [Next]_vars => [Gentle]_vars
  <2> SUFFICES ASSUME FullInv, Next, phase = "decay", phase' = "render",
                      NEW k \in Pairs, disk[k] # NoRow
               PROVE  /\ k \in Seen => disk'[k].conf >= disk[k].conf
                      /\ disk'[k].conf >= Faded(disk[k].conf)
                      /\ ~EndpointsPresent(k) => disk'[k] = disk[k]
    OBVIOUS
  <2>1. Commit
    BY DEF Next, NextPass, Work, Begin, Seed, Confirm, SelectAbsent,
           DecayAbsent, Render, Fail, Crash
  <2>2. disk' = edges
    BY <2>1 DEF Commit
  <2>3. edges[k] # NoRow
    BY DEF FullInv, IInv, Covers, Remembers
  <2>4. Belief(edges[k]) = edges[k].conf /\ Belief(disk[k]) = disk[k].conf
    BY <2>3 DEF Belief
  <2>5. Drifted(k)
    BY DEF FullInv, Drift
  <2> QED BY <2>2, <2>4, <2>5 DEF Drifted
<1> QED BY <1>1, PassInvariant, PTL DEF Spec, FadesGently

-----------------------------------------------------------------------------
(* The refinement of BeliefLatch.                                          *)

\* The refinement mapping of Promise, by name.
Level == [k \in Pairs |-> Belief(disk[k])]
Floor == [k \in Pairs |-> IF disk[k] = NoRow THEN 0 ELSE disk[k].base]
Light == [k \in Pairs |-> disk[k] # NoRow /\ disk[k].visible]

\* A row of the old schema is a latch at rest without a floor.
LEMMA InitPromise == Init => Promise!Init
<1> SUFFICES ASSUME Init PROVE Promise!Init
  OBVIOUS
<1>1. IInv
  BY InitIInv
<1>2. \A k \in Pairs : GoodOrNone(disk[k])
  BY <1>1 DEF IInv, GoodTable, GoodOrNone
<1>3. Level \in [Pairs -> 0 .. Scale]
  BY <1>2, BeliefType DEF Level, Levels
<1>4. Floor = [k \in Pairs |-> 0]
  <2>1. \A k \in Pairs : disk[k] = NoRow \/ disk[k].base = 0
    BY ShapeAssumption DEF Init, LegacyRow
  <2> QED BY <2>1 DEF Floor
<1>5. Light \in [Pairs -> BOOLEAN]
  BY Zenon DEF Light
<1>6. \A k \in Pairs : /\ Light[k] => Level[k] >= Hide
                       /\ Level[k] >= Show => Light[k]
  <2> SUFFICES ASSUME NEW k \in Pairs
               PROVE  /\ Light[k] => Level[k] >= Hide
                      /\ Level[k] >= Show => Light[k]
    OBVIOUS
  <2>1. Level[k] = Belief(disk[k]) /\ (Light[k] <=> Lit(disk[k]))
    BY DEF Level, Light, Lit
  <2>2. Follows(disk[k], disk[k]) /\ Belief(disk[k]) \in Nat
    BY <1>2, FollowsItself, BeliefType
  <2> QED BY <2>1, <2>2, Thresholds DEF Follows
<1> QED BY <1>3, <1>4, <1>5, <1>6 DEF Promise!Init, Level, Floor, Light

\* A step that commits moves the latches; any other step leaves them alone.
LEMMA NextPromise ==
    ASSUME FullInv, Next
    PROVE  Promise!Move \/ UNCHANGED <<Level, Floor, Light>>
<1>1. disk' = edges \/ disk' = disk
  BY DEF Next, NextPass, Work, Begin, Seed, Confirm, SelectAbsent,
         DecayAbsent, Commit, Render, Fail, Crash
<1>2. CASE disk' = disk
  BY <1>2 DEF Level, Floor, Light
<1>3. CASE disk' = edges
  <2>1. \A k \in Pairs : /\ GoodOrNone(disk[k]) /\ GoodOrNone(disk'[k])
                         /\ Remembers(disk'[k], disk[k])
                         /\ Follows(disk'[k], disk[k])
    BY <1>3 DEF FullInv, IInv, GoodTable, GoodOrNone, Covers, Drift, Drifted
  <2>2. Level' \in [Pairs -> 0 .. Scale]
    BY <2>1, BeliefType DEF Level, Levels
  <2>3. \A r \in Row : r.base \in 0 .. Scale
    BY DEF Row, Levels
  <2>4. Floor' \in [Pairs -> 0 .. Scale]
    BY <2>1, <2>3, TuningAssumption DEF Floor, GoodOrNone, GoodRow
  <2>5. \A k \in Pairs : Floor'[k] >= Floor[k]
    BY <2>1, <2>3, TuningAssumption DEF Floor, GoodOrNone, GoodRow, Remembers
  <2>6. Light' = [k \in Pairs |-> Level'[k] >= IF Light[k] THEN Hide ELSE Show]
    <3>1. \A k \in Pairs :
             (disk'[k] # NoRow /\ disk'[k].visible)
                <=> (Level'[k] >= IF Light[k] THEN Hide ELSE Show)
      <4> SUFFICES ASSUME NEW k \in Pairs
                   PROVE  Lit(disk'[k])
                             <=> (Level'[k] >= IF Light[k] THEN Hide ELSE Show)
        BY DEF Lit
      <4>1. Level'[k] = Belief(disk'[k]) /\ (Light[k] <=> Lit(disk[k]))
        BY DEF Level, Light, Lit
      <4> QED BY <2>1, <4>1 DEF Follows
    <3> QED BY <3>1 DEF Light
  <2> QED BY <2>2, <2>4, <2>5, <2>6 DEF Promise!Move, Level, Floor, Light
<1> QED BY <1>1, <1>2, <1>3

\* The committed table implements one hysteresis latch per pair of workloads,
\* with a floor that only rises, whatever is seeded, confirmed, decayed, aborted
\* or lost between two commits (state.py:275, 339-396).
THEOREM PromiseRefined == Spec => PromiseKept
<1>1. FullInv /\ [Next]_vars => [Promise!Move]_<<Level, Floor, Light>>
  <2>1. ASSUME UNCHANGED vars PROVE UNCHANGED <<Level, Floor, Light>>
    BY <2>1 DEF vars, Level, Floor, Light
  <2> QED BY <2>1, NextPromise
<1> QED
  BY <1>1, InitPromise, PassInvariant, PTL
  DEF Spec, PromiseKept, Promise!Spec, Level, Floor, Light

=============================================================================
