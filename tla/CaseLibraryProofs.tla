------------------------- MODULE CaseLibraryProofs --------------------------
(***************************************************************************)
(* Proofs about CaseLibrary for every set of verdicts, thresholds and      *)
(* migrated cases: types, families that are rooted in a founding case,     *)
(* cases that never cover each other, and a permanent archive.             *)
(***************************************************************************)
EXTENDS CaseLibrary, FiniteSetTheorems, TLAPS

-----------------------------------------------------------------------------
(* Similarity.                                                             *)

\* A share of everything is everything.
LEMMA Ratio ==
    ASSUME NEW u \in Nat, NEW n \in Nat \ {0}
    PROVE  (u * n) \div n = u
OBVIOUS

\* A share is a number.
LEMMA RatioType ==
    ASSUME NEW u \in Nat, NEW i \in Nat, NEW n \in Nat \ {0}
    PROVE  (u * i) \div n \in Int
OBVIOUS

\* The overlap of two sets is a number.
LEMMA JaccardType ==
    ASSUME NEW a, NEW b, IsFiniteSet(a), IsFiniteSet(b)
    PROVE  Jaccard(a, b) \in Int
<1>1. CASE a \cup b = {}
  BY <1>1, LibraryAssumption DEF Jaccard
<1>2. CASE a \cup b # {}
  <2>1. IsFiniteSet(a \cup b) /\ IsFiniteSet(a \cap b)
    BY FS_Union, FS_Intersection
  <2>2. Cardinality(a \cup b) \in Nat \ {0} /\ Cardinality(a \cap b) \in Nat
    BY <1>2, <2>1, FS_CardinalityType, FS_EmptySet
  <2> QED
    BY <1>2, <2>2, LibraryAssumption, RatioType DEF Jaccard
<1> QED
  BY <1>1, <1>2

\* A set overlaps itself entirely.
LEMMA JaccardSelf ==
    ASSUME NEW a, IsFiniteSet(a)
    PROVE  Jaccard(a, a) = Unit
<1>1. a \cup a = a /\ a \cap a = a
  OBVIOUS
<1>2. CASE a = {}
  BY <1>1, <1>2 DEF Jaccard
<1>3. CASE a # {}
  <2>1. Cardinality(a) \in Nat \ {0}
    BY <1>3, FS_CardinalityType, FS_EmptySet
  <2>2. (Unit * Cardinality(a)) \div Cardinality(a) = Unit
    BY <2>1, LibraryAssumption, Ratio
  <2> QED
    BY <1>1, <1>3, <2>2 DEF Jaccard
<1> QED
  BY <1>2, <1>3

\* Overlap has no direction.
LEMMA JaccardSymmetric ==
    ASSUME NEW a, NEW b
    PROVE  Jaccard(a, b) = Jaccard(b, a)
<1>1. a \cup b = b \cup a /\ a \cap b = b \cap a
  OBVIOUS
<1> QED
  BY <1>1, Zenon DEF Jaccard

\* The similarity of two fingerprints is a number.
LEMMA SimType ==
    ASSUME NEW f \in Ids, NEW c \in Ids
    PROVE  Sim(f, c) \in Int
<1>1. /\ Jaccard(f.victims, c.victims) \in Int
      /\ Jaccard(f.stressors, c.stressors) \in Int
      /\ Jaccard(f.motif, c.motif) \in Int
  BY FiniteAssumption, JaccardType
<1> QED
  BY <1>1 DEF Sim

\* Similarity has no direction.
LEMMA SimSymmetric ==
    ASSUME NEW f \in Ids, NEW c \in Ids
    PROVE  Sim(f, c) = Sim(c, f)
<1>1. /\ Jaccard(f.victims, c.victims) = Jaccard(c.victims, f.victims)
      /\ Jaccard(f.stressors, c.stressors) = Jaccard(c.stressors, f.stressors)
      /\ Jaccard(f.motif, c.motif) = Jaccard(c.motif, f.motif)
  BY JaccardSymmetric
<1> QED
  BY <1>1, Zenon DEF Sim

\* Products keep an order.
LEMMA Times ==
    ASSUME NEW a \in Nat, NEW b \in Nat, NEW u \in Nat, a <= b
    PROVE  a * u <= b * u
OBVIOUS

\* A fingerprint always folds into the case with its own id.
LEMMA MergesItself ==
    ASSUME NEW f \in Ids
    PROVE  Merges(f, f)
<1>1. /\ Jaccard(f.victims, f.victims) = Unit
      /\ Jaccard(f.stressors, f.stressors) = Unit
      /\ Jaccard(f.motif, f.motif) = Unit
  BY FiniteAssumption, JaccardSelf
<1>2. Sim(f, f) = 40 * Unit + 20 * Unit + 40 * Unit
  BY <1>1 DEF Sim
<1>3. Sim(f, f) = 100 * Unit
  BY <1>2, LibraryAssumption
<1>4. TauMerge * Unit <= 100 * Unit
  BY LibraryAssumption, Times
<1> QED
  BY <1>3, <1>4, LibraryAssumption DEF Merges

\* What folds is related: the merge threshold is the stricter one.
LEMMA MergesRelates ==
    ASSUME NEW f \in Ids, NEW c \in Ids, Merges(f, c)
    PROVE  Relates(f, c)
<1>1. TauFamily * Unit <= TauMerge * Unit
  BY LibraryAssumption, Times
<1>2. TauFamily * Unit \in Int /\ TauMerge * Unit \in Int /\ Sim(f, c) \in Int
  BY LibraryAssumption, SimType
<1> QED
  BY <1>1, <1>2 DEF Merges, Relates

\* Rows of a table.
LEMMA Rows ==
    ASSUME NEW cs \in Seq(Case)
    PROVE  /\ Len(cs) \in Nat /\ DOMAIN cs = 1 .. Len(cs)
           /\ \A i \in DOMAIN cs : /\ cs[i] \in Case
                                   /\ cs[i].id \in Ids /\ cs[i].family \in Ids
                                   /\ cs[i].occurrences \in Nat
<1>1. Len(cs) \in Nat /\ DOMAIN cs = 1 .. Len(cs)
  OBVIOUS
<1>2. \A i \in 1 .. Len(cs) : cs[i] \in Case
  OBVIOUS
<1> QED
  BY <1>1, <1>2 DEF Case

\* If the nearest case is too far to fold into, every case is.
LEMMA NearestDecides ==
    ASSUME cases \in Seq(Case), NEW f \in Ids, NEW i \in DOMAIN cases,
           Nearest(f, i), ~Merges(f, cases[i].id)
    PROVE  \A j \in DOMAIN cases : ~Merges(f, cases[j].id)
<1> SUFFICES ASSUME NEW j \in DOMAIN cases PROVE ~Merges(f, cases[j].id)
  OBVIOUS
<1>1. cases[i].id \in Ids /\ cases[j].id \in Ids
  BY Rows
<1>2. Sim(f, cases[i].id) \in Int /\ Sim(f, cases[j].id) \in Int
  BY <1>1, SimType
<1>3. Sim(f, cases[j].id) <= Sim(f, cases[i].id)
  BY DEF Nearest
<1>4. TauMerge * Unit \in Int
  BY LibraryAssumption
<1> QED
  BY <1>2, <1>3, <1>4 DEF Merges

-----------------------------------------------------------------------------
(* Tables.                                                                 *)

\* What a later table keeps of an earlier one.
Extends(new, old) ==
    \A i \in DOMAIN old : /\ i \in DOMAIN new
                          /\ new[i].id = old[i].id
                          /\ new[i].family = old[i].family
                          /\ new[i].occurrences >= old[i].occurrences

GoodTable(cs) == /\ cs \in Seq(Case)
                 /\ FamilyRooted(cs)
                 /\ Apart(cs)

\* A table that is left alone extends itself.
LEMMA ExtendsItself ==
    ASSUME NEW cs \in Seq(Case)
    PROVE  Extends(cs, cs)
BY Rows DEF Extends

\* An extension of an extension is one.
LEMMA ExtendsTransitive ==
    ASSUME NEW a \in Seq(Case), NEW b \in Seq(Case), NEW c \in Seq(Case),
           Extends(a, b), Extends(b, c)
    PROVE  Extends(a, c)
<1> SUFFICES ASSUME NEW i \in DOMAIN c
             PROVE  /\ i \in DOMAIN a
                    /\ a[i].id = c[i].id
                    /\ a[i].family = c[i].family
                    /\ a[i].occurrences >= c[i].occurrences
  BY DEF Extends
<1>1. /\ i \in DOMAIN b /\ i \in DOMAIN a
      /\ b[i].id = c[i].id /\ a[i].id = b[i].id
      /\ b[i].family = c[i].family /\ a[i].family = b[i].family
      /\ b[i].occurrences >= c[i].occurrences
      /\ a[i].occurrences >= b[i].occurrences
  BY DEF Extends
<1>2. /\ a[i].occurrences \in Nat /\ b[i].occurrences \in Nat
      /\ c[i].occurrences \in Nat
  BY <1>1, Rows
<1> QED
  BY <1>1, <1>2

\* Counting a recurrence changes neither ids nor families.
LEMMA Counted ==
    ASSUME NEW cs \in Seq(Case), GoodTable(cs), NEW i \in DOMAIN cs
    PROVE  LET new == [cs EXCEPT ![i].occurrences = @ + 1]
           IN  GoodTable(new) /\ Extends(new, cs)
<1> DEFINE row == [cs[i] EXCEPT !.occurrences = @ + 1]
           new == [cs EXCEPT ![i] = row]
<1>1. /\ Len(cs) \in Nat /\ DOMAIN cs = 1 .. Len(cs)
      /\ \A j \in DOMAIN cs : cs[j] \in Case /\ cs[j].occurrences \in Nat
  BY Rows
<1>2. /\ row \in Case /\ row.id = cs[i].id /\ row.family = cs[i].family
      /\ row.occurrences = cs[i].occurrences + 1
  BY <1>1 DEF Case
<1> HIDE DEF row
<1>3. new \in Seq(Case) /\ DOMAIN new = DOMAIN cs
  BY <1>1, <1>2
<1>4. \A j \in DOMAIN cs : /\ new[j].id = cs[j].id
                           /\ new[j].family = cs[j].family
                           /\ new[j].occurrences >= cs[j].occurrences
  BY <1>1, <1>2
<1> HIDE DEF new
<1>5. FamilyRooted(new)
  <2> SUFFICES ASSUME NEW k \in DOMAIN cs
               PROVE  \E j \in 1 .. k : /\ new[j].id = new[k].family
                                        /\ new[j].family = new[j].id
    BY <1>3 DEF FamilyRooted
  <2>1. PICK j \in 1 .. k : cs[j].id = cs[k].family /\ cs[j].family = cs[j].id
    BY DEF GoodTable, FamilyRooted
  <2>2. j \in DOMAIN cs
    BY <1>1
  <2> QED
    BY <1>4, <2>1, <2>2
<1>6. Apart(new)
  BY <1>3, <1>4 DEF GoodTable, Apart
<1>7. GoodTable(new) /\ Extends(new, cs)
  BY <1>3, <1>4, <1>5, <1>6 DEF GoodTable, Extends
<1> QED
  BY <1>7 DEF new, row

\* A new case that nothing covers and whose family is founded, by itself or by
\* an older case, can be appended.
LEMMA Appended ==
    ASSUME NEW cs \in Seq(Case), GoodTable(cs), NEW f \in Ids, NEW fam \in Ids,
           \A j \in DOMAIN cs : ~Merges(f, cs[j].id),
           \/ fam = f
           \/ \E j \in DOMAIN cs : cs[j].id = fam /\ cs[j].family = fam
    PROVE  LET new == Append(cs, NewCase(f, fam))
           IN  GoodTable(new) /\ Extends(new, cs)
<1> DEFINE row == NewCase(f, fam)
           new == Append(cs, row)
           n   == Len(cs)
<1>1. /\ n \in Nat /\ DOMAIN cs = 1 .. n
      /\ \A j \in DOMAIN cs : /\ cs[j] \in Case /\ cs[j].occurrences \in Nat
                               /\ cs[j].id \in Ids
  BY Rows
<1>2. row \in Case /\ row.id = f /\ row.family = fam
  BY DEF NewCase, Case
<1> HIDE DEF row
<1>3. /\ new \in Seq(Case) /\ DOMAIN new = 1 .. n + 1
      /\ \A j \in 1 .. n : new[j] = cs[j]
      /\ new[n + 1] = row
  BY <1>1, <1>2
<1> HIDE DEF new, n
<1>4. FamilyRooted(new)
  <2> SUFFICES ASSUME NEW i \in 1 .. n + 1
               PROVE  \E j \in 1 .. i : /\ new[j].id = new[i].family
                                        /\ new[j].family = new[j].id
    BY <1>3 DEF FamilyRooted
  <2>1. CASE i \in 1 .. n
    <3>1. PICK j \in 1 .. i : cs[j].id = cs[i].family /\ cs[j].family = cs[j].id
      BY <2>1, <1>1 DEF GoodTable, FamilyRooted
    <3>2. j \in 1 .. n
      BY <2>1, <1>1
    <3> QED
      BY <2>1, <3>1, <3>2, <1>3
  <2>2. CASE i = n + 1
    <3>1. CASE fam = f
      BY <2>2, <3>1, <1>1, <1>2, <1>3
    <3>2. CASE \E j \in DOMAIN cs : cs[j].id = fam /\ cs[j].family = fam
      <4>1. PICK j \in 1 .. n : cs[j].id = fam /\ cs[j].family = fam
        BY <3>2, <1>1
      <4>2. j \in 1 .. i
        BY <2>2, <1>1
      <4> QED
        BY <2>2, <4>1, <4>2, <1>2, <1>3
    <3> QED
      BY <3>1, <3>2
  <2> QED
    BY <2>1, <2>2, <1>1
<1>5. Apart(new)
  <2>1. \A j \in 1 .. n : ~Merges(cs[j].id, f) /\ ~Merges(f, cs[j].id)
                          /\ cs[j].id # f
    <3> SUFFICES ASSUME NEW j \in 1 .. n
                 PROVE  /\ ~Merges(cs[j].id, f) /\ ~Merges(f, cs[j].id)
                        /\ cs[j].id # f
      OBVIOUS
    <3>1. cs[j].id \in Ids /\ ~Merges(f, cs[j].id)
      BY <1>1
    <3>2. ~Merges(cs[j].id, f)
      BY <3>1, SimSymmetric DEF Merges
    <3>3. cs[j].id # f
      BY <3>1, MergesItself
    <3> QED
      BY <3>1, <3>2, <3>3
  <2> SUFFICES ASSUME NEW i \in 1 .. n + 1, NEW j \in 1 .. n + 1, i # j
               PROVE  /\ new[i].id # new[j].id
                      /\ \/ {new[i].id, new[j].id} \subseteq Legacy
                         \/ ~Merges(new[i].id, new[j].id)
    BY <1>3, Zenon DEF Apart
  <2>2. CASE i \in 1 .. n /\ j \in 1 .. n
    BY <2>2, <1>1, <1>3 DEF GoodTable, Apart
  <2>3. CASE i = n + 1 /\ j \in 1 .. n
    BY <2>1, <2>3, <1>2, <1>3
  <2>4. CASE i \in 1 .. n /\ j = n + 1
    BY <2>1, <2>4, <1>2, <1>3
  <2> QED
    BY <2>2, <2>3, <2>4, <1>1
<1>6. Extends(new, cs)
  BY <1>1, <1>3 DEF Extends
<1>7. GoodTable(new) /\ Extends(new, cs)
  BY <1>3, <1>4, <1>5, <1>6 DEF GoodTable
<1> QED
  BY <1>7 DEF new, row

-----------------------------------------------------------------------------
(* The inductive invariant.                                                *)

IInv == /\ TypeOK
        /\ GoodTable(cases)
        /\ GoodTable(disk.cases)
        /\ Extends(cases, disk.cases)

\* A new or migrated library is well typed, rooted and apart.
LEMMA InitIInv == Init => IInv
<1> SUFFICES ASSUME Init PROVE IInv
  OBVIOUS
<1>1. PICK n \in 0 .. Cardinality(Legacy) :
          cases \in [1 .. n -> {NewCase(f, f) : f \in Legacy}]
  BY DEF Init
<1>2. \A i \in DOMAIN cases : \E f \in Legacy : cases[i] = NewCase(f, f)
  BY <1>1
<1>3. \A f \in Legacy : NewCase(f, f) \in Case
  BY DEF NewCase, Case, Ids
<1>4. n \in Nat
  OBVIOUS
<1>5. cases \in Seq(Case)
  BY <1>1, <1>3, <1>4
<1>6. \A i \in DOMAIN cases : cases[i].id \in Legacy /\ cases[i].family = cases[i].id
  BY <1>2 DEF NewCase
<1>7. FamilyRooted(cases)
  BY <1>6, <1>1, <1>4 DEF FamilyRooted
<1>8. Apart(cases)
  BY <1>6 DEF Apart, Init
<1>9. TypeOK
  BY <1>5 DEF Init, TypeOK, Tables
<1> QED
  BY <1>5, <1>7, <1>8, <1>9, ExtendsItself DEF IInv, GoodTable, Init, Tables

\* The verdict a pass brings has an id.
LEMMA VerdictType ==
    \A g \in Graphs : Promotable(g) => Fingerprint(g) \in Ids
BY DEF Ids

\* What the two minting actions do to the table.
LEMMA Minted ==
    ASSUME GoodTable(cases), NEW f \in Ids, NEW fam \in Ids,
           \A j \in DOMAIN cases : ~Merges(f, cases[j].id),
           \/ fam = f
           \/ \E j \in DOMAIN cases : cases[j].id = fam /\ cases[j].family = fam
    PROVE  GoodTable(Inserted(f, fam)) /\ Extends(Inserted(f, fam), cases)
<1>1. f \notin KnownIds(cases)
  BY MergesItself DEF KnownIds
<1>2. Inserted(f, fam) = Append(cases, NewCase(f, fam))
  BY <1>1 DEF Inserted
<1> QED
  BY <1>2, Appended DEF GoodTable

\* A step that only replaces the table by an extension of it.
LEMMA Growth ==
    ASSUME IInv, GoodTable(cases'), Extends(cases', cases), disk' = disk
    PROVE  GoodTable(disk.cases)' /\ Extends(cases', disk'.cases)
BY ExtendsTransitive DEF IInv, GoodTable

\* Every step, exceptions and crashes included, keeps the two images good.
LEMMA NextIInv == IInv /\ [Next]_vars => IInv'
<1> SUFFICES ASSUME IInv, [Next]_vars PROVE IInv'
  OBVIOUS
<1> USE DEF IInv
<1>1. ASSUME NEW g \in Graphs, Begin(g) PROVE IInv'
  <2>1. TypeOK'
    BY <1>1, VerdictType DEF Begin, TypeOK, Tables
  <2> QED
    BY <1>1, <2>1, ExtendsItself DEF Begin, Tables, GoodTable
<1>2. ASSUME NEW i \in DOMAIN cases, Fold(i) PROVE IInv'
  <2>1. cases' = [cases EXCEPT ![i].occurrences = @ + 1] /\ disk' = disk
    BY <1>2 DEF Fold
  <2>2. GoodTable(cases') /\ Extends(cases', cases)
    BY <2>1, Counted DEF GoodTable
  <2>3. cases[i].id \in Ids
    BY Rows DEF GoodTable
  <2>4. TypeOK'
    BY <1>2, <2>2, <2>3 DEF Fold, TypeOK, GoodTable
  <2> QED
    BY <2>1, <2>2, <2>4, Growth
<1>3. ASSUME NEW i \in DOMAIN cases, Branch(i) PROVE IInv'
  <2> DEFINE fam == cases[i].family
  <2>1. /\ verdict \in Ids /\ fam \in Ids
    BY <1>3, Rows DEF Branch, TypeOK, GoodTable
  <2>2. \A j \in DOMAIN cases : ~Merges(verdict, cases[j].id)
    BY <1>3, <2>1, NearestDecides DEF Branch, GoodTable
  <2>3. \E j \in DOMAIN cases : cases[j].id = fam /\ cases[j].family = fam
    <3>1. PICK j \in 1 .. i : cases[j].id = fam /\ cases[j].family = cases[j].id
      BY DEF GoodTable, FamilyRooted
    <3>2. j \in DOMAIN cases
      BY <3>1, Rows DEF GoodTable
    <3> QED
      BY <3>1, <3>2
  <2>4. cases' = Inserted(verdict, fam) /\ disk' = disk
    BY <1>3 DEF Branch, Mint
  <2>5. GoodTable(cases') /\ Extends(cases', cases)
    BY <2>1, <2>2, <2>3, <2>4, Minted
  <2>6. TypeOK'
    BY <1>3, <2>1, <2>5 DEF Branch, Mint, TypeOK, GoodTable
  <2> QED
    BY <2>4, <2>5, <2>6, Growth
<1>4. CASE Open
  <2>1. verdict \in Ids
    BY <1>4 DEF Open, TypeOK
  <2>2. \A j \in DOMAIN cases : ~Merges(verdict, cases[j].id)
    <3> SUFFICES ASSUME NEW j \in DOMAIN cases
                 PROVE  ~Merges(verdict, cases[j].id)
      OBVIOUS
    <3>1. cases[j].id \in Ids
      BY Rows DEF GoodTable
    <3>2. ~Relates(verdict, cases[j].id)
      BY <1>4 DEF Open
    <3> QED
      BY <2>1, <3>1, <3>2, MergesRelates
  <2>3. cases' = Inserted(verdict, verdict) /\ disk' = disk
    BY <1>4 DEF Open, Mint
  <2>4. GoodTable(cases') /\ Extends(cases', cases)
    BY <2>1, <2>2, <2>3, Minted
  <2>5. TypeOK'
    BY <1>4, <2>1, <2>4 DEF Open, Mint, TypeOK, GoodTable
  <2> QED
    BY <2>3, <2>4, <2>5, Growth
<1>5. CASE Log
  <2>1. TypeOK'
    BY <1>5 DEF Log, TypeOK
  <2> QED
    BY <1>5, <2>1 DEF Log
<1>6. CASE Commit
  <2>1. TypeOK'
    BY <1>6 DEF Commit, Rest, TypeOK, Tables
  <2> QED
    BY <1>6, <2>1, ExtendsItself DEF Commit, Tables, GoodTable
<1>7. CASE Fail
  <2>1. TypeOK'
    BY <1>7 DEF Fail, Rest, TypeOK
  <2> QED
    BY <1>7, <2>1 DEF Fail
<1>8. CASE Crash
  <2>1. TypeOK'
    BY <1>8 DEF Crash, Rest, TypeOK
  <2> QED
    BY <1>8, <2>1, ExtendsItself DEF Crash, GoodTable
<1>9. CASE UNCHANGED vars
  BY <1>9 DEF vars, TypeOK
<1> QED
  BY <1>1, <1>2, <1>3, <1>4, <1>5, <1>6, <1>7, <1>8, <1>9 DEF Next

-----------------------------------------------------------------------------
(* The theorems.                                                           *)

\* Every state of every execution satisfies the inductive invariant.
THEOREM Invariant == Spec => []IInv
BY InitIInv, NextIInv, PTL DEF Spec

\* The tables and the bookkeeping of a pass stay well typed.
THEOREM TypeCorrect == Spec => []TypeOK
<1>1. IInv => TypeOK
  BY DEF IInv
<1> QED
  BY <1>1, Invariant, PTL

\* Every case's family is named by its founding case, through any chain of
\* variants, exceptions and crashes.
THEOREM FamiliesHaveRoots == Spec => []FamiliesRooted
<1>1. IInv => FamiliesRooted
  BY DEF IInv, GoodTable, FamiliesRooted
<1> QED
  BY <1>1, Invariant, PTL

\* No minted case is covered by another: the library does not explode.
THEOREM CasesStayApart == Spec => []CasesApart
<1>1. IInv => CasesApart
  BY DEF IInv, GoodTable, CasesApart
<1> QED
  BY <1>1, Invariant, PTL

\* What the archive has committed it keeps.
THEOREM ArchiveKept == Spec => ArchivePermanent
<1> DEFINE Kept == Extends(disk'.cases, disk.cases)
<1>1. IInv /\ [Next]_vars => [Kept]_vars
  <2> SUFFICES ASSUME IInv, Next PROVE Kept
    OBVIOUS
  <2>1. disk' = Tables \/ disk' = disk
    BY DEF Next, Begin, Fold, Branch, Open, Mint, Log, Commit, Fail, Crash
  <2> QED
    BY <2>1, ExtendsItself DEF IInv, GoodTable, Tables
<1>2. [Kept]_vars => [\A i \in DOMAIN disk.cases :
                        /\ i \in DOMAIN disk'.cases
                        /\ disk'.cases[i].id = disk.cases[i].id
                        /\ disk'.cases[i].family = disk.cases[i].family
                        /\ disk'.cases[i].occurrences
                               >= disk.cases[i].occurrences]_vars
  BY DEF Extends
<1> QED
  BY <1>1, <1>2, Invariant, PTL DEF Spec, ArchivePermanent

-----------------------------------------------------------------------------
(* Families are linked.                                                    *)

\* FamiliesLinked of one image of the table.
Linked(cs) ==
    \A i \in DOMAIN cs : cs[i].family # cs[i].id =>
        \E j \in 1 .. i - 1 :
            /\ cs[j].family = cs[i].family
            /\ Relates(cs[i].id, cs[j].id)
            /\ \A m \in 1 .. i - 1 :
                Sim(cs[i].id, cs[m].id) <= Sim(cs[i].id, cs[j].id)

\* The link of a row lies in the rows before it, which no later table changes:
\* an extension keeps the links of the rows it shares.
LEMMA LinksKept ==
    ASSUME NEW cs \in Seq(Case), NEW new \in Seq(Case), Extends(new, cs),
           Linked(cs), NEW i \in DOMAIN cs, new[i].family # new[i].id
    PROVE  \E j \in 1 .. i - 1 :
               /\ new[j].family = new[i].family
               /\ Relates(new[i].id, new[j].id)
               /\ \A m \in 1 .. i - 1 :
                    Sim(new[i].id, new[m].id) <= Sim(new[i].id, new[j].id)
<1>1. \A m \in 1 .. i : m \in DOMAIN cs
  BY Rows
<1>2. \A m \in 1 .. i : new[m].id = cs[m].id /\ new[m].family = cs[m].family
  BY <1>1 DEF Extends
<1>3. i \in 1 .. i /\ \A m \in 1 .. i - 1 : m \in 1 .. i
  BY Rows
<1>4. PICK j \in 1 .. i - 1 :
          /\ cs[j].family = cs[i].family
          /\ Relates(cs[i].id, cs[j].id)
          /\ \A m \in 1 .. i - 1 : Sim(cs[i].id, cs[m].id) <= Sim(cs[i].id, cs[j].id)
  BY <1>2, <1>3 DEF Linked
<1> QED
  BY <1>2, <1>3, <1>4

\* Counting a recurrence changes no link.
LEMMA CountedLinked ==
    ASSUME NEW cs \in Seq(Case), NEW new \in Seq(Case), Extends(new, cs),
           Linked(cs), DOMAIN new = DOMAIN cs
    PROVE  Linked(new)
BY LinksKept DEF Linked

\* A new row founds its family or is linked to the row it is most like.
LEMMA AppendedLinked ==
    ASSUME NEW cs \in Seq(Case), GoodTable(cs), Linked(cs),
           NEW f \in Ids, NEW fam \in Ids,
           Append(cs, NewCase(f, fam)) \in Seq(Case),
           Extends(Append(cs, NewCase(f, fam)), cs),
           \/ fam = f
           \/ \E i \in DOMAIN cs :
                /\ cs[i].family = fam
                /\ Relates(f, cs[i].id)
                /\ \A m \in DOMAIN cs : Sim(f, cs[m].id) <= Sim(f, cs[i].id)
    PROVE  Linked(Append(cs, NewCase(f, fam)))
<1> DEFINE row == NewCase(f, fam)
           new == Append(cs, row)
           n   == Len(cs)
<1>1. n \in Nat /\ DOMAIN cs = 1 .. n
  BY Rows
<1>2. row.id = f /\ row.family = fam
  BY DEF NewCase
<1>3. new \in Seq(Case) /\ Extends(new, cs)
  OBVIOUS
<1> HIDE DEF row
<1>4. /\ DOMAIN new = 1 .. n + 1
      /\ \A j \in 1 .. n : new[j] = cs[j]
      /\ new[n + 1] = row
  BY <1>1
<1> HIDE DEF new, n
<1> SUFFICES ASSUME NEW i \in 1 .. n + 1, new[i].family # new[i].id
             PROVE  \E j \in 1 .. i - 1 :
                        /\ new[j].family = new[i].family
                        /\ Relates(new[i].id, new[j].id)
                        /\ \A m \in 1 .. i - 1 :
                            Sim(new[i].id, new[m].id) <= Sim(new[i].id, new[j].id)
  BY <1>4 DEF Linked, new, row
<1>5. CASE i \in 1 .. n
  BY <1>1, <1>3, <1>5, LinksKept
<1>6. CASE i = n + 1
  <2>1. fam # f
    BY <1>2, <1>4, <1>6
  <2>2. PICK k \in DOMAIN cs :
            /\ cs[k].family = fam
            /\ Relates(f, cs[k].id)
            /\ \A m \in DOMAIN cs : Sim(f, cs[m].id) <= Sim(f, cs[k].id)
    BY <2>1
  <2>3. 1 .. i - 1 = 1 .. n
    BY <1>1, <1>6
  <2>4. k \in 1 .. i - 1
    BY <1>1, <2>3
  <2>5. new[k] = cs[k] /\ \A m \in 1 .. i - 1 : new[m] = cs[m] /\ m \in DOMAIN cs
    BY <1>1, <1>4, <2>3, <2>4
  <2> QED
    BY <1>2, <1>4, <1>6, <2>2, <2>4, <2>5
<1> QED
  BY <1>1, <1>5, <1>6

\* A verdict that nothing covers is appended, never ignored.
LEMMA MintAppends ==
    ASSUME IInv, verdict \in Ids, NEW fam, NEW reg, Mint(fam, reg),
           \A j \in DOMAIN cases : ~Merges(verdict, cases[j].id)
    PROVE  /\ verdict \notin KnownIds(cases)
           /\ cases' = Append(cases, NewCase(verdict, fam))
<1>1. verdict \notin KnownIds(cases)
  BY MergesItself DEF KnownIds
<1> QED
  BY <1>1 DEF Mint, Inserted

\* What the guards of Branch and Open say about every case.
LEMMA MintGuards ==
    ASSUME IInv
    PROVE  /\ \A i \in DOMAIN cases : Branch(i) =>
                /\ verdict \in Ids /\ cases[i].family \in Ids
                /\ Mint(cases[i].family, "variant")
                /\ \A j \in DOMAIN cases : ~Merges(verdict, cases[j].id)
                /\ Relates(verdict, cases[i].id)
                /\ \A m \in DOMAIN cases :
                    Sim(verdict, cases[m].id) <= Sim(verdict, cases[i].id)
           /\ Open =>
                /\ verdict \in Ids /\ Mint(verdict, "novel")
                /\ \A j \in DOMAIN cases : ~Merges(verdict, cases[j].id)
<1>1. ASSUME NEW i \in DOMAIN cases, Branch(i)
      PROVE  /\ verdict \in Ids /\ cases[i].family \in Ids
             /\ \A j \in DOMAIN cases : ~Merges(verdict, cases[j].id)
  <2>1. verdict \in Ids /\ cases[i].family \in Ids
    BY <1>1, Rows DEF Branch, IInv, TypeOK, GoodTable
  <2> QED
    BY <1>1, <2>1, NearestDecides DEF Branch, IInv, GoodTable
<1>2. ASSUME Open
      PROVE  verdict \in Ids /\ \A j \in DOMAIN cases : ~Merges(verdict, cases[j].id)
  <2>1. verdict \in Ids
    BY <1>2 DEF Open, IInv, TypeOK
  <2>2. \A j \in DOMAIN cases : cases[j].id \in Ids
    BY Rows DEF IInv, GoodTable
  <2> QED
    BY <1>2, <2>1, <2>2, MergesRelates DEF Open
<1> QED
  BY <1>1, <1>2 DEF Branch, Open, Nearest

LinkInv == IInv /\ Linked(cases) /\ Linked(disk.cases)

\* A case joins a family only through a case that is like it.
LEMMA NextLinkInv == LinkInv /\ [Next]_vars => LinkInv'
<1> SUFFICES ASSUME LinkInv, IInv', [Next]_vars
             PROVE  Linked(cases)' /\ Linked(disk.cases)'
  BY NextIInv DEF LinkInv
<1>0. IInv /\ GoodTable(cases) /\ cases \in Seq(Case) /\ cases' \in Seq(Case)
  BY DEF LinkInv, IInv, GoodTable
<1>1. ASSUME NEW i \in DOMAIN cases, Fold(i)
      PROVE  Linked(cases)' /\ Linked(disk.cases)'
  <2>1. cases' = [cases EXCEPT ![i].occurrences = @ + 1] /\ disk' = disk
    BY <1>1 DEF Fold
  <2>2. Extends(cases', cases) /\ DOMAIN cases' = DOMAIN cases
    BY <1>0, <2>1, Counted
  <2> QED
    BY <1>0, <2>1, <2>2, CountedLinked DEF LinkInv
<1>2. ASSUME NEW i \in DOMAIN cases, Branch(i)
      PROVE  Linked(cases)' /\ Linked(disk.cases)'
  <2> DEFINE fam == cases[i].family
  <2>1. /\ verdict \in Ids /\ fam \in Ids /\ Mint(fam, "variant")
        /\ \A j \in DOMAIN cases : ~Merges(verdict, cases[j].id)
        /\ Relates(verdict, cases[i].id)
        /\ \A m \in DOMAIN cases :
            Sim(verdict, cases[m].id) <= Sim(verdict, cases[i].id)
    BY <1>0, <1>2, MintGuards
  <2>2. cases' = Append(cases, NewCase(verdict, fam)) /\ disk' = disk
    BY <1>0, <2>1, MintAppends DEF Mint
  <2>3. \E j \in DOMAIN cases : cases[j].id = fam /\ cases[j].family = fam
    <3>1. PICK j \in 1 .. i : cases[j].id = fam /\ cases[j].family = cases[j].id
      BY <1>0 DEF GoodTable, FamilyRooted
    <3>2. j \in DOMAIN cases
      BY <1>0, <3>1, Rows
    <3> QED
      BY <3>1, <3>2
  <2>4. Extends(cases', cases)
    BY <1>0, <2>1, <2>2, <2>3, Appended
  <2>5. Linked(cases')
    BY <1>0, <2>1, <2>2, <2>4, AppendedLinked DEF LinkInv
  <2> QED
    BY <2>2, <2>5 DEF LinkInv
<1>3. CASE Open
  <2>1. /\ verdict \in Ids /\ Mint(verdict, "novel")
        /\ \A j \in DOMAIN cases : ~Merges(verdict, cases[j].id)
    BY <1>0, <1>3, MintGuards
  <2>2. cases' = Append(cases, NewCase(verdict, verdict)) /\ disk' = disk
    BY <1>0, <2>1, MintAppends DEF Mint
  <2>3. Extends(cases', cases)
    BY <1>0, <2>1, <2>2, Appended
  <2>4. Linked(cases')
    BY <1>0, <2>1, <2>2, <2>3, AppendedLinked DEF LinkInv
  <2> QED
    BY <2>2, <2>4 DEF LinkInv
<1>4. CASE (\E g \in Graphs : Begin(g)) \/ Log \/ Commit \/ Fail \/ Crash \/ UNCHANGED vars
  <2>1. /\ cases' \in {cases, disk.cases}
        /\ disk'.cases \in {cases, disk.cases}
    BY <1>4 DEF Begin, Log, Commit, Fail, Crash, vars, Tables
  <2> QED
    BY <2>1 DEF LinkInv
<1> QED
  BY <1>1, <1>2, <1>3, <1>4 DEF Next

\* FamiliesLinked: a variant joins the family of the case it is most like, which
\* is TauFamily-like it, however many variants, aborted passes and crashes came
\* before (state.py:523-527, 561-564).
THEOREM FamiliesStayLinked == Spec => []FamiliesLinked
<1>1. Init => LinkInv
  <2> SUFFICES ASSUME Init PROVE LinkInv
    OBVIOUS
  <2>1. \A i \in DOMAIN cases : cases[i].family = cases[i].id
    BY DEF Init, NewCase
  <2>2. Linked(cases) /\ disk.cases = cases
    BY <2>1 DEF Linked, Init, Tables
  <2> QED
    BY <2>2, InitIInv DEF LinkInv
<1>2. LinkInv => FamiliesLinked
  BY DEF LinkInv, Linked, FamiliesLinked
<1> QED
  BY <1>1, <1>2, NextLinkInv, PTL DEF Spec

-----------------------------------------------------------------------------
(* Observations are accounted for.                                         *)

\* The one row of a known case.
LEMMA OccurrencesOf ==
    ASSUME NEW cs \in Seq(Case), Apart(cs), NEW i \in DOMAIN cs
    PROVE  Occurrences(cs, cs[i].id) = cs[i].occurrences
<1> DEFINE f == cs[i].id
           k == CHOOSE j \in DOMAIN cs : cs[j].id = f
<1>1. k \in DOMAIN cs /\ cs[k].id = f
  OBVIOUS
<1>2. k = i
  BY <1>1 DEF Apart
<1>3. f \in KnownIds(cs)
  BY DEF KnownIds
<1> QED
  BY <1>2, <1>3 DEF Occurrences

\* A fold counts one more of its case, and of no other.
LEMMA CountedOccurrences ==
    ASSUME NEW cs \in Seq(Case), GoodTable(cs), NEW i \in DOMAIN cs, NEW f
    PROVE  LET new == [cs EXCEPT ![i].occurrences = @ + 1]
           IN  Occurrences(new, f) =
                    Occurrences(cs, f) + (IF f = cs[i].id THEN 1 ELSE 0)
<1> DEFINE row == [cs[i] EXCEPT !.occurrences = @ + 1]
           new == [cs EXCEPT ![i] = row]
<1>1. /\ Len(cs) \in Nat /\ DOMAIN cs = 1 .. Len(cs)
      /\ \A j \in DOMAIN cs : cs[j] \in Case /\ cs[j].occurrences \in Nat
  BY Rows
<1>2. row.id = cs[i].id /\ row.occurrences = cs[i].occurrences + 1
  BY <1>1 DEF Case
<1>3. GoodTable(new)
  BY Counted
<1> HIDE DEF row
<1>4. /\ DOMAIN new = DOMAIN cs
      /\ \A j \in DOMAIN cs : /\ new[j].id = cs[j].id
                              /\ j # i => new[j].occurrences = cs[j].occurrences
      /\ new[i].occurrences = cs[i].occurrences + 1
  BY <1>1, <1>2
<1>5. new \in Seq(Case) /\ Apart(new)
  BY <1>3 DEF GoodTable
<1> HIDE DEF new
<1>6. CASE f \in KnownIds(cs)
  <2>1. PICK j \in DOMAIN cs : cs[j].id = f
    BY <1>6 DEF KnownIds
  <2>2. Occurrences(cs, f) = cs[j].occurrences
    BY <2>1, OccurrencesOf DEF GoodTable
  <2>3. Occurrences(new, f) = new[j].occurrences
    BY <1>4, <1>5, <2>1, OccurrencesOf
  <2>4. f = cs[i].id <=> j = i
    BY <2>1 DEF GoodTable, Apart
  <2>5. Occurrences(new, f) = Occurrences(cs, f) + (IF f = cs[i].id THEN 1 ELSE 0)
    BY <1>1, <1>4, <2>1, <2>2, <2>3, <2>4
  <2> QED
    BY <2>5 DEF new, row
<1>7. CASE f \notin KnownIds(cs)
  <2>1. f \notin KnownIds(new) /\ f # cs[i].id
    BY <1>4, <1>7 DEF KnownIds
  <2>2. Occurrences(new, f) = Occurrences(cs, f) + (IF f = cs[i].id THEN 1 ELSE 0)
    BY <1>7, <2>1 DEF Occurrences
  <2> QED
    BY <2>2 DEF new, row
<1> QED
  BY <1>6, <1>7

\* A minted case starts at one and changes no other count.
LEMMA AppendedOccurrences ==
    ASSUME NEW cs \in Seq(Case), Apart(cs), NEW g, NEW fam, NEW f,
           g \notin KnownIds(cs),
           Append(cs, NewCase(g, fam)) \in Seq(Case),
           Apart(Append(cs, NewCase(g, fam)))
    PROVE  Occurrences(Append(cs, NewCase(g, fam)), f) =
               IF f = g THEN 1 ELSE Occurrences(cs, f)
<1> DEFINE row == NewCase(g, fam)
           new == Append(cs, row)
           n   == Len(cs)
<1>1. n \in Nat /\ DOMAIN cs = 1 .. n
  BY Rows
<1>2. row.id = g /\ row.occurrences = 1
  BY DEF NewCase
<1>3. new \in Seq(Case) /\ Apart(new)
  OBVIOUS
<1> HIDE DEF row
<1>4. /\ DOMAIN new = 1 .. n + 1
      /\ \A j \in 1 .. n : new[j] = cs[j]
      /\ new[n + 1] = row
  BY <1>1
<1> HIDE DEF new, n
<1>5. CASE f = g
  <2>1. n + 1 \in DOMAIN new /\ new[n + 1].id = g
    BY <1>1, <1>2, <1>4
  <2> QED
    BY <1>2, <1>3, <1>4, <1>5, <2>1, OccurrencesOf DEF new, row
<1>6. CASE f # g /\ f \in KnownIds(cs)
  <2>1. PICK j \in DOMAIN cs : cs[j].id = f
    BY <1>6 DEF KnownIds
  <2>2. j \in DOMAIN new /\ new[j] = cs[j]
    BY <1>1, <1>4
  <2>3. Occurrences(cs, f) = cs[j].occurrences /\ Occurrences(new, f) = cs[j].occurrences
    BY <1>3, <2>1, <2>2, OccurrencesOf
  <2> QED
    BY <1>6, <2>3 DEF new, row
<1>7. CASE f # g /\ f \notin KnownIds(cs)
  <2>1. f \notin KnownIds(new)
    <3> SUFFICES ASSUME NEW j \in 1 .. n + 1 PROVE new[j].id # f
      BY <1>4 DEF KnownIds
    <3>1. CASE j = n + 1
      BY <1>2, <1>4, <1>7, <3>1
    <3>2. CASE j \in 1 .. n
      BY <1>1, <1>4, <1>7, <3>2 DEF KnownIds
    <3> QED
      BY <1>1, <3>1, <3>2
  <2>2. Occurrences(new, f) = 0 /\ Occurrences(cs, f) = 0
    BY <1>7, <2>1 DEF Occurrences
  <2> QED
    BY <1>7, <2>2 DEF new, row
<1> QED
  BY <1>5, <1>6, <1>7

\* The counter of a case, known or not, is a number.
LEMMA OccurrencesType ==
    ASSUME NEW cs \in Seq(Case), NEW f
    PROVE  Occurrences(cs, f) \in Nat
<1>1. CASE f \in KnownIds(cs)
  <2>1. \E j \in DOMAIN cs : cs[j].id = f
    BY <1>1 DEF KnownIds
  <2>2. (CHOOSE j \in DOMAIN cs : cs[j].id = f) \in DOMAIN cs
    BY <2>1
  <2> QED
    BY <1>1, <2>2, Rows DEF Occurrences
<1>2. CASE f \notin KnownIds(cs)
  BY <1>2 DEF Occurrences
<1> QED
  BY <1>1, <1>2

\* Between the count of an incident and its log entry the case is one ahead.
Pending(f) == IF phase = "log" /\ target = f THEN 1 ELSE 0

Balanced ==
    /\ faults \in Nat
    /\ \A f \in Ids :
        /\ obs[f] + Pending(f) <= Occurrences(cases, f)
        /\ disk.obs[f] <= Occurrences(disk.cases, f)
        /\ faults = 0 => obs[f] + Pending(f) = Occurrences(cases, f)

\* A step that leaves the counts, the log and what is pending as they are.
LEMMA BalanceKept ==
    ASSUME IInv, Balanced, cases' = cases, obs' = obs,
           \A f \in Ids : Pending(f) = 0,
           disk' = disk \/ disk' = Tables, phase' # "log",
           faults' = faults \/ faults' = faults + 1
    PROVE  Balanced'
<1>1. faults \in Nat /\ faults' \in Nat /\ (faults' = 0 => faults = 0)
  BY DEF Balanced
<1>2. \A f : Pending(f)' = 0
  BY DEF Pending
<1>3. \A f \in Ids : /\ obs[f] \in Nat
                     /\ Occurrences(cases, f) \in Nat
  BY OccurrencesType DEF IInv, TypeOK
<1>4. \A f \in Ids : disk'.obs[f] <= Occurrences(disk'.cases, f)
  BY <1>3 DEF Balanced, Tables
<1> QED
  BY <1>1, <1>2, <1>3, <1>4 DEF Balanced

\* A new case starts with its first occurrence, whose observation is pending.
LEMMA MintBalanced ==
    ASSUME IInv, Balanced, phase = "match", verdict \in Ids, NEW fam, NEW reg,
           Mint(fam, reg), IInv',
           \A j \in DOMAIN cases : ~Merges(verdict, cases[j].id)
    PROVE  Balanced'
<1>1. /\ verdict \notin KnownIds(cases)
      /\ cases' = Append(cases, NewCase(verdict, fam))
  BY MintAppends
<1>2. /\ UNCHANGED <<obs, disk, faults>> /\ phase' = "log" /\ target' = verdict
  BY DEF Mint
<1>3. \A f \in Ids : Occurrences(cases', f) =
                        IF f = verdict THEN 1 ELSE Occurrences(cases, f)
  BY <1>1, AppendedOccurrences DEF IInv, GoodTable
<1>4. \A f \in Ids : Pending(f) = 0 /\ Pending(f)' = IF f = verdict THEN 1 ELSE 0
  BY <1>2 DEF Pending
<1>5. Occurrences(cases, verdict) = 0
  BY <1>1 DEF Occurrences
<1>6. obs[verdict] = 0
  <2>1. obs[verdict] \in Nat /\ obs[verdict] + Pending(verdict) <= 0
    BY <1>5 DEF IInv, TypeOK, Balanced
  <2> QED
    BY <1>4, <2>1
<1> QED
  BY <1>2, <1>3, <1>4, <1>6 DEF Balanced

\* A counter is ahead of the observations by the one that is pending.
LEMMA NextBalanced ==
    ASSUME IInv, Balanced, [Next]_vars
    PROVE  Balanced'
<1>0. IInv' /\ GoodTable(cases) /\ cases \in Seq(Case)
  BY NextIInv DEF IInv, GoodTable
<1>1. ASSUME NEW g \in Graphs, Begin(g) PROVE Balanced'
  <2>1. \A f \in Ids : Pending(f) = 0
    BY <1>1 DEF Begin, Pending
  <2>2. phase' # "log"
    BY <1>1 DEF Begin
  <2> QED
    BY <1>1, <2>1, <2>2, BalanceKept DEF Begin
<1>2. ASSUME NEW i \in DOMAIN cases, Fold(i) PROVE Balanced'
  <2>1. /\ cases' = [cases EXCEPT ![i].occurrences = @ + 1]
        /\ UNCHANGED <<obs, disk, faults>>
        /\ phase = "match" /\ phase' = "log" /\ target' = cases[i].id
    BY <1>2 DEF Fold
  <2>2. \A f : Occurrences(cases', f) =
                  Occurrences(cases, f) + (IF f = cases[i].id THEN 1 ELSE 0)
    BY <1>0, <2>1, CountedOccurrences
  <2>3. \A f : Pending(f) = 0 /\ Pending(f)' = IF f = cases[i].id THEN 1 ELSE 0
    BY <2>1 DEF Pending
  <2>4. \A f \in Ids : obs[f] \in Nat /\ Occurrences(cases, f) \in Nat
    BY <1>0, OccurrencesType DEF IInv, TypeOK
  <2> SUFFICES ASSUME NEW f \in Ids
               PROVE  /\ obs[f] + Pending(f)' <= Occurrences(cases', f)
                      /\ faults = 0 => obs[f] + Pending(f)' = Occurrences(cases', f)
    BY <2>1 DEF Balanced
  <2>5. /\ obs[f] <= Occurrences(cases, f)
        /\ faults = 0 => obs[f] = Occurrences(cases, f)
    BY <2>3, <2>4 DEF Balanced
  <2>6. CASE f = cases[i].id
    BY <2>2, <2>3, <2>4, <2>5, <2>6
  <2>7. CASE f # cases[i].id
    BY <2>2, <2>3, <2>4, <2>5, <2>7
  <2> QED
    BY <2>6, <2>7
<1>3. ASSUME NEW i \in DOMAIN cases, Branch(i) PROVE Balanced'
  <2>1. /\ verdict \in Ids /\ Mint(cases[i].family, "variant") /\ phase = "match"
        /\ \A j \in DOMAIN cases : ~Merges(verdict, cases[j].id)
    BY <1>3, MintGuards DEF Branch
  <2> QED
    BY <1>0, <2>1, MintBalanced
<1>4. CASE Open
  <2>1. /\ verdict \in Ids /\ Mint(verdict, "novel") /\ phase = "match"
        /\ \A j \in DOMAIN cases : ~Merges(verdict, cases[j].id)
    BY <1>4, MintGuards DEF Open
  <2> QED
    BY <1>0, <2>1, MintBalanced
<1>5. CASE Log
  <2>1. /\ phase = "log" /\ phase' = "commit" /\ target \in Ids
        /\ obs' = [obs EXCEPT ![target] = @ + 1]
        /\ UNCHANGED <<cases, disk, faults>>
    BY <1>5 DEF Log, IInv, TypeOK
  <2>2. \A f \in Ids : obs'[f] = obs[f] + Pending(f) /\ Pending(f)' = 0 /\ obs'[f] \in Nat
    BY <2>1 DEF IInv, TypeOK, Pending
  <2>3. \A f \in Ids : obs'[f] + Pending(f)' = obs[f] + Pending(f)
    BY <2>2
  <2> QED
    BY <2>1, <2>3 DEF Balanced
<1>6. CASE Commit
  <2>1. \A f \in Ids : Pending(f) = 0
    BY <1>6 DEF Commit, Pending
  <2>2. phase' # "log" /\ UNCHANGED <<cases, obs, faults>> /\ disk' = Tables
    BY <1>6 DEF Commit, Rest
  <2> QED
    BY <2>1, <2>2, BalanceKept
<1>7. CASE Fail
  <2>1. /\ phase' = "idle" /\ UNCHANGED <<cases, obs, disk>> /\ faults' = faults + 1
    BY <1>7 DEF Fail, Rest
  <2>2. \A f : Pending(f)' = 0 /\ Pending(f) \in {0, 1}
    BY <2>1 DEF Pending
  <2>3. faults' \in Nat /\ faults' # 0
    BY <2>1 DEF Balanced
  <2>4. \A f \in Ids : obs[f] \in Nat /\ Occurrences(cases, f) \in Nat
    BY <1>0, OccurrencesType DEF IInv, TypeOK
  <2>5. \A f \in Ids : obs[f] + Pending(f)' <= Occurrences(cases, f)
    BY <2>2, <2>4 DEF Balanced
  <2> QED
    BY <2>1, <2>3, <2>5 DEF Balanced
<1>8. CASE Crash
  <2>1. /\ phase' = "idle" /\ cases' = disk.cases /\ obs' = disk.obs /\ disk' = disk
        /\ faults' = faults + 1
    BY <1>8 DEF Crash, Rest
  <2>2. \A f : Pending(f)' = 0
    BY <2>1 DEF Pending
  <2>3. faults' \in Nat /\ faults' # 0
    BY <2>1 DEF Balanced
  <2>4. \A f \in Ids : disk.obs[f] \in Nat /\ disk.obs[f] + 0 <= Occurrences(disk.cases, f)
    BY DEF IInv, TypeOK, Balanced
  <2> QED
    BY <2>1, <2>2, <2>3, <2>4 DEF Balanced
<1>9. CASE UNCHANGED vars
  BY <1>9 DEF vars, Balanced, Pending
<1> QED
  BY <1>1, <1>2, <1>3, <1>4, <1>5, <1>6, <1>7, <1>8, <1>9 DEF Next

\* ObservationsAccounted: no order of passes, exceptions and crashes makes the
\* log know an observation that its case did not count, and without one the two
\* agree (state.py:556-559, 577-583).
THEOREM ObservationsCounted == Spec => []ObservationsAccounted
<1> DEFINE BInv == IInv /\ Balanced
<1>1. Init => BInv
  <2> SUFFICES ASSUME Init PROVE Balanced
    BY InitIInv
  <2>1. IInv
    BY InitIInv
  <2>2. \A i \in DOMAIN cases : cases[i].occurrences = 1
    BY DEF Init, NewCase
  <2>3. \A f \in Ids : Occurrences(cases, f) = obs[f]
    <3> SUFFICES ASSUME NEW f \in Ids PROVE Occurrences(cases, f) = obs[f]
      OBVIOUS
    <3>1. CASE f \in KnownIds(cases)
      <4>1. PICK i \in DOMAIN cases : cases[i].id = f
        BY <3>1 DEF KnownIds
      <4>2. Occurrences(cases, f) = 1
        BY <2>1, <2>2, <4>1, OccurrencesOf DEF IInv, GoodTable
      <4> QED
        BY <3>1, <4>2 DEF Init
    <3>2. CASE f \notin KnownIds(cases)
      BY <3>2 DEF Init, Occurrences
    <3> QED
      BY <3>1, <3>2
  <2>4. \A f \in Ids : obs[f] \in Nat /\ Pending(f) = 0
    BY <2>1 DEF IInv, TypeOK, Pending, Init
  <2>5. faults = 0 /\ disk.cases = cases /\ disk.obs = obs
    BY DEF Init, Tables
  <2> QED
    BY <2>3, <2>4, <2>5 DEF Balanced
<1>2. BInv /\ [Next]_vars => BInv'
  BY NextIInv, NextBalanced
<1>3. BInv => ObservationsAccounted
  <2> SUFFICES ASSUME BInv PROVE ObservationsAccounted
    OBVIOUS
  <2>1. \A f \in Ids : /\ obs[f] \in Nat /\ Occurrences(cases, f) \in Nat
                       /\ Pending(f) \in {0, 1}
                       /\ phase # "log" => Pending(f) = 0
    BY OccurrencesType DEF IInv, GoodTable, TypeOK, Pending
  <2> QED
    BY <2>1 DEF Balanced, ObservationsAccounted
<1> QED
  BY <1>1, <1>2, <1>3, PTL DEF Spec

=============================================================================
