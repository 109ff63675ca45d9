--------------------------- MODULE EditingProofs ---------------------------
(***************************************************************************)
(* Theorems about the programs that tell the driver which monitors there   *)
(* are: Editing and CommandLine, in which programs and runs of the command *)
(* line client edit their copies of the list and notify the driver, for    *)
(* any number of programs, monitors, modes and calls; and SessionService,  *)
(* which sends it the list it reads from the registry.                     *)
(***************************************************************************)
EXTENDS CommandLine, SessionService, FiniteSetTheorems, SequenceTheorems, WellFoundedInduction, TLAPS

(* Numbers and sequences *)

\* A set of natural numbers has a least element, which is its Min.
LEMMA MinIsLeast ==
  ASSUME NEW T \in SUBSET Nat, T # {}
  PROVE  Min(T) \in T /\ \A m \in T : Min(T) <= m
<1> DEFINE R == {ss \in Nat \X Nat : ss[1] < ss[2]}
<1>1. IsWellFoundedOn(R, Nat)
  BY NatLessThanWellFounded DEF OpToRel
<1>2. \A m, n \in Nat : m < n => <<m, n>> \in R
  OBVIOUS
<1> HIDE DEF R
<1>3. PICK n \in T : \A m \in T : ~(<<m, n>> \in R)
  BY <1>1, WFMin
<1>4. ASSUME NEW m \in T PROVE n <= m
  <2>1. m \in Nat /\ n \in Nat
    BY <1>3, <1>4
  <2>2. ~(m < n)
    BY <1>2, <1>3, <2>1
  <2> QED
    BY <2>1, <2>2
<1> QED
  BY <1>3, <1>4 DEF Min

\* How many elements of S are n at most.
Upto(S, n) == {k \in S : k <= n}

LEMMA UptoGrows ==
  ASSUME NEW S \in SUBSET Nat, IsFiniteSet(S), NEW n \in S
  PROVE  /\ Cardinality(Upto(S, n)) \in 1..Cardinality(S)
         /\ \A m \in S : m < n => Cardinality(Upto(S, m)) < Cardinality(Upto(S, n))
<1>1. \A m \in S : Upto(S, m) \in SUBSET S /\ m \in Upto(S, m)
  BY DEF Upto
<1>2. \A m \in S : IsFiniteSet(Upto(S, m)) /\ Cardinality(Upto(S, m)) <= Cardinality(S)
  BY <1>1, FS_Subset
<1>3. \A m \in S : Cardinality(Upto(S, m)) \in Nat /\ Cardinality(Upto(S, m)) # 0
  BY <1>1, <1>2, FS_CardinalityType, FS_EmptySet
<1>4. Cardinality(S) \in Nat
  BY FS_CardinalityType
<1>5. ASSUME NEW m \in S, m < n
      PROVE  Cardinality(Upto(S, m)) < Cardinality(Upto(S, n))
  <2>1. Upto(S, m) \in SUBSET Upto(S, n) /\ n \notin Upto(S, m)
    <3>1. \A k \in S : k <= m => k <= n
      BY <1>5
    <3>2. ~(n <= m)
      BY <1>5
    <3> QED
      BY <3>1, <3>2 DEF Upto
  <2>2. Upto(S, m) # Upto(S, n)
    BY <1>1, <2>1
  <2>3. Cardinality(Upto(S, m)) <= Cardinality(Upto(S, n))
    BY <1>2, <2>1, FS_Subset
  <2>4. Cardinality(Upto(S, m)) # Cardinality(Upto(S, n))
    BY <1>2, <2>1, <2>2, FS_Subset
  <2> QED
    BY <1>3, <2>3, <2>4
<1> QED
  BY <1>2, <1>3, <1>4, <1>5

\* Ascending lists all the elements of a set, in ascending order.
LEMMA AscendingOrder ==
  ASSUME NEW S \in SUBSET Nat, IsFiniteSet(S)
  PROVE  /\ Cardinality(S) \in Nat
         /\ Ascending(S) \in [1..Cardinality(S) -> S]
         /\ \A j, k \in 1..Cardinality(S) : j < k => Ascending(S)[j] < Ascending(S)[k]
<1> DEFINE C == Cardinality(S)
           rank == [n \in S |-> Cardinality(Upto(S, n))]
<1>1. C \in Nat
  BY FS_CardinalityType
<1>2. \A m, n \in S : m < n => rank[m] < rank[n]
  BY UptoGrows
<1>3. rank \in [S -> 1..C]
  BY UptoGrows
<1>4. rank \in Injection(S, 1..C)
  <2>1. ASSUME NEW m \in S, NEW n \in S, rank[m] = rank[n]
        PROVE  m = n
    <3>1. ~(m < n) /\ ~(n < m)
      <4>1. rank[m] \in 1..C /\ rank[n] \in 1..C
        BY <1>3
      <4> QED
        BY <1>2, <2>1, <4>1
    <3> QED
      BY <3>1
  <2> QED
    BY <1>3, <2>1 DEF Injection, IsInjective
<1>5. IsFiniteSet(1..C) /\ Cardinality(1..C) = C
  BY <1>1, FS_Interval
<1>6. rank \in Surjection(S, 1..C)
  BY <1>4, <1>5, FS_Injection
<1>7. \A j \in 1..C : \E n \in S : Cardinality(Upto(S, n)) = j
  BY <1>6 DEF Surjection
<1>8. \A j \in 1..C : Ascending(S)[j] \in S /\ Cardinality(Upto(S, Ascending(S)[j])) = j
  <2>1. ASSUME NEW j \in 1..C
        PROVE  Ascending(S)[j] = CHOOSE n \in S : Cardinality(Upto(S, n)) = j
    BY DEF Ascending, Upto
  <2> QED
    BY <1>7, <2>1
<1>9. Ascending(S) \in [1..C -> S]
  BY <1>8 DEF Ascending
<1>10. ASSUME NEW j \in 1..C, NEW k \in 1..C, j < k
       PROVE  Ascending(S)[j] < Ascending(S)[k]
  <2> DEFINE a == Ascending(S)[j]
             b == Ascending(S)[k]
  <2>1. a \in S /\ b \in S /\ rank[a] = j /\ rank[b] = k
    BY <1>8
  <2>2. a \in Nat /\ b \in Nat
    BY <2>1
  <2> HIDE DEF a, b, rank
  <2>3. a # b
    BY <1>1, <1>10, <2>1
  <2>4. ~(b < a)
    BY <1>1, <1>2, <1>10, <2>1
  <2>5. a < b
    BY <2>2, <2>3, <2>4
  <2> QED
    BY <2>5 DEF a, b
<1> QED
  BY <1>1, <1>9, <1>10

LEMMA AscendingInterval ==
  ASSUME NEW n \in Nat
  PROVE  Ascending(1..n) = [j \in 1..n |-> j]
<1>1. Cardinality(1..n) = n
  BY FS_Interval
<1>2. \A k \in 1..n : Cardinality({i \in 1..n : i <= k}) = k
  <2>1. ASSUME NEW k \in 1..n PROVE {i \in 1..n : i <= k} = 1..k
    OBVIOUS
  <2>2. \A k \in 1..n : Cardinality(1..k) = k
    BY FS_Interval
  <2> QED
    BY <2>1, <2>2
<1>3. \A j \in 1..n : (CHOOSE k \in 1..n : Cardinality({i \in 1..n : i <= k}) = j) = j
  BY <1>2
<1> QED
  BY <1>1, <1>3 DEF Ascending

\* retain keeps what is at the places in keep, and its order.
LEMMA Retained ==
  ASSUME NEW V, NEW s \in Seq(V), NEW keep \in SUBSET (DOMAIN s)
  PROVE  /\ Cardinality(keep) \in Nat
         /\ Ascending(keep) \in [1..Cardinality(keep) -> keep]
         /\ \A j, k \in 1..Cardinality(keep) : j < k => Ascending(keep)[j] < Ascending(keep)[k]
         /\ Retain(s, keep) = [j \in 1..Cardinality(keep) |-> s[Ascending(keep)[j]]]
         /\ Retain(s, keep) \in Seq(V)
<1>1. Len(s) \in Nat /\ DOMAIN s = 1..Len(s)
  OBVIOUS
<1>2. IsFiniteSet(keep) /\ keep \in SUBSET Nat
  <2>1. IsFiniteSet(1..Len(s))
    BY <1>1, FS_Interval
  <2> QED
    BY <1>1, <2>1, FS_Subset
<1>3. /\ Cardinality(keep) \in Nat
      /\ Ascending(keep) \in [1..Cardinality(keep) -> keep]
      /\ \A j, k \in 1..Cardinality(keep) : j < k => Ascending(keep)[j] < Ascending(keep)[k]
  BY <1>2, AscendingOrder
<1>4. Retain(s, keep) = [j \in 1..Cardinality(keep) |-> s[Ascending(keep)[j]]]
  BY <1>3 DEF Retain
<1>5. \A k \in keep : s[k] \in V
  BY <1>1
<1>6. Retain(s, keep) \in [1..Cardinality(keep) -> V]
  BY <1>3, <1>4, <1>5
<1>7. Retain(s, keep) \in Seq(V)
  BY <1>3, <1>6
<1> QED
  BY <1>3, <1>4, <1>7

\* What is elsewhere does not matter.
LEMMA RetainSame ==
  ASSUME NEW V, NEW s \in Seq(V), NEW t \in Seq(V), NEW keep \in SUBSET (DOMAIN s),
         keep \in SUBSET (DOMAIN t), \A k \in keep : s[k] = t[k]
  PROVE  Retain(s, keep) = Retain(t, keep)
<1> DEFINE C == Cardinality(keep)
<1>1. /\ Ascending(keep) \in [1..C -> keep]
      /\ Retain(s, keep) = [j \in 1..C |-> s[Ascending(keep)[j]]]
      /\ Retain(t, keep) = [j \in 1..C |-> t[Ascending(keep)[j]]]
  BY Retained
<1>2. \A j \in 1..C : s[Ascending(keep)[j]] = t[Ascending(keep)[j]]
  BY <1>1
<1> HIDE DEF C
<1> QED
  BY <1>1, <1>2

\* retain with a condition that all meet.
LEMMA RetainAll ==
  ASSUME NEW V, NEW s \in Seq(V)
  PROVE  Retain(s, DOMAIN s) = s
<1>1. Len(s) \in Nat /\ DOMAIN s = 1..Len(s) /\ s = [j \in 1..Len(s) |-> s[j]]
  OBVIOUS
<1>2. Ascending(DOMAIN s) = [j \in 1..Len(s) |-> j]
  BY <1>1, AscendingInterval
<1> QED
  BY <1>1, <1>2 DEF Retain
-----------------------------------------------------------------------------
(* Lists *)

Distinct(ms) == \A j, k \in DOMAIN ms : ms[j].id = ms[k].id => j = k

ProperModes(modes) ==
  /\ \A j, k \in DOMAIN modes : modes[j].size = modes[k].size => j = k
  /\ \A k \in DOMAIN modes : ~ModeRepeats(modes[k])

\* has_duplicates, said of pairs of places.
LEMMA MonitorProper ==
  ASSUME NEW m, DOMAIN m.modes \subseteq Nat
  PROVE  ~MonitorRepeats(m) <=> ProperModes(m.modes)
<1> DEFINE sizes == [k \in DOMAIN m.modes |-> m.modes[k].size]
<1>1. Repeated(sizes) <=> \E j, k \in DOMAIN m.modes : j < k /\ m.modes[j].size = m.modes[k].size
  BY DEF Repeated
<1>2. \A j, k \in DOMAIN m.modes : j # k => j < k \/ k < j
  OBVIOUS
<1>3. ~Repeated(sizes)
        <=> \A j, k \in DOMAIN m.modes : m.modes[j].size = m.modes[k].size => j = k
  <2>1. ASSUME ~Repeated(sizes), NEW j \in DOMAIN m.modes, NEW k \in DOMAIN m.modes,
               m.modes[j].size = m.modes[k].size
        PROVE  j = k
    BY <1>1, <1>2, <2>1
  <2>2. ASSUME \A j, k \in DOMAIN m.modes : m.modes[j].size = m.modes[k].size => j = k
        PROVE  ~Repeated(sizes)
    <3>1. \A j, k \in DOMAIN m.modes : j < k => j # k
      OBVIOUS
    <3> QED
      BY <1>1, <2>2, <3>1
  <2> QED
    BY <2>1, <2>2
<1> QED
  BY <1>3 DEF MonitorRepeats, ProperModes

LEMMA ListProper ==
  ASSUME NEW ms \in Lists
  PROVE  ~ListRepeats(ms) <=> Distinct(ms) /\ \A k \in DOMAIN ms : ~MonitorRepeats(ms[k])
<1> DEFINE ids == [k \in DOMAIN ms |-> ms[k].id]
<1>1. Repeated(ids) <=> \E j, k \in DOMAIN ms : j < k /\ ms[j].id = ms[k].id
  BY DEF Repeated
<1>2. \A j, k \in DOMAIN ms : (j # k => j < k \/ k < j) /\ (j < k => j # k)
  BY DEF Lists
<1>3. ~Repeated(ids) <=> Distinct(ms)
  <2>1. ASSUME ~Repeated(ids) PROVE Distinct(ms)
    BY <1>1, <1>2, <2>1 DEF Distinct
  <2>2. ASSUME Distinct(ms) PROVE ~Repeated(ids)
    BY <1>1, <1>2, <2>2 DEF Distinct
  <2> QED
    BY <2>1, <2>2
<1> QED
  BY <1>3 DEF ListRepeats

\* What a list has at a place.
LEMMA RowType ==
  ASSUME NEW ms \in Lists
  PROVE  /\ Len(ms) \in Nat /\ DOMAIN ms = 1..Len(ms)
         /\ \A k \in DOMAIN ms : /\ ms[k] \in Monitor /\ ms[k].id \in Ids
                                 /\ ms[k].modes \in Seq(Mode)
         /\ IdsOf(ms) \subseteq Ids
         /\ \A k \in DOMAIN ms : ms[k].id \in IdsOf(ms)
<1>1. /\ Len(ms) \in Nat /\ DOMAIN ms = 1..Len(ms)
      /\ \A k \in DOMAIN ms : ms[k] \in Monitor
  BY DEF Lists
<1>2. \A k \in DOMAIN ms : ms[k].id \in Ids /\ ms[k].modes \in Seq(Mode)
  BY <1>1 DEF Monitor
<1> QED
  BY <1>1, <1>2 DEF IdsOf

\* iter_mut().find finds a monitor that is there.
LEMMA Found ==
  ASSUME NEW ms \in Lists, NEW i \in IdsOf(ms)
  PROVE  Place(ms, i) \in DOMAIN ms /\ ms[Place(ms, i)].id = i
<1> DEFINE T == {k \in DOMAIN ms : ms[k].id = i}
<1>1. T \in SUBSET Nat /\ T # {}
  BY RowType DEF IdsOf
<1>2. Min(T) \in T
  BY <1>1, MinIsLeast
<1> QED
  BY <1>2 DEF Place

\* find_id gives the id of a monitor, or none.
LEMMA FoundId ==
  ASSUME NEW ms \in Lists, NEW query
  PROVE  FindId(ms, query) = NoId \/ FindId(ms, query) \in IdsOf(ms)
<1> DEFINE hits == {k \in DOMAIN ms : query \in {ms[k].name, ms[k].id}}
<1>1. CASE hits = {}
  BY <1>1 DEF FindId
<1>2. CASE hits # {}
  <2>1. hits \in SUBSET Nat
    BY RowType
  <2>2. Min(hits) \in hits
    BY <1>2, <2>1, MinIsLeast
  <2>3. FindId(ms, query) = ms[Min(hits)].id
    BY <1>2 DEF FindId
  <2> QED
    BY <2>2, <2>3, RowType
<1> QED
  BY <1>1, <1>2

\* An edit that keeps every monitor whose id is not among those named.
SameOthers(l, ids, ms) ==
  /\ ids \subseteq Ids
  /\ ms \in Lists
  /\ Without(ms, ids) = Without(l, ids)

\* One that also keeps a proper list proper.
GoodEdit(l, ids, ms) ==
  /\ SameOthers(l, ids, ms)
  /\ ~ListRepeats(l) => ~ListRepeats(ms)

\* Nothing is left without all the ids.
LEMMA NoneWithoutIds ==
  ASSUME NEW l \in Lists, NEW ms \in Lists
  PROVE  Without(ms, Ids) = Without(l, Ids)
<1>1. \A k \in DOMAIN ms : ms[k].id \in Ids
  BY RowType
<1>2. \A k \in DOMAIN l : l[k].id \in Ids
  BY RowType
<1>3. Without(ms, Ids) = Retain(ms, {}) /\ Without(l, Ids) = Retain(l, {})
  <2>1. {k \in DOMAIN ms : ms[k].id \notin Ids} = {} /\ {k \in DOMAIN l : l[k].id \notin Ids} = {}
    BY <1>1, <1>2
  <2> QED
    BY <2>1 DEF Without
<1>4. Retain(ms, {}) = Retain(l, {})
  BY RetainSame DEF Lists
<1> QED
  BY <1>3, <1>4

\* Another list altogether.
LEMMA Replaced ==
  ASSUME NEW l \in Lists, NEW ms \in Lists, ~ListRepeats(ms)
  PROVE  GoodEdit(l, Ids, ms)
BY NoneWithoutIds DEF GoodEdit, SameOthers

\* One more monitor, with an id of its own.
LEMMA MonitorAdded ==
  ASSUME NEW l \in Lists,
         NEW m \in Monitor, m.id \notin IdsOf(l), ~MonitorRepeats(m)
  PROVE  GoodEdit(l, {m.id}, Append(l, m))
<1> DEFINE ms == Append(l, m)
           n == Len(l) + 1
<1>1. Len(l) \in Nat /\ DOMAIN l = 1..Len(l)
  BY RowType
<1>2. ms \in Lists /\ DOMAIN ms = 1..n /\ ms[n] = m /\ \A k \in DOMAIN l : ms[k] = l[k]
  BY DEF Lists
<1>3. \A k \in DOMAIN ms : k \in DOMAIN l \/ k = n
  BY <1>1, <1>2
<1>4. n \notin DOMAIN l /\ DOMAIN l \subseteq DOMAIN ms
  BY <1>1, <1>2
<1>5. m.id \in Ids /\ \A k \in DOMAIN l : l[k].id # m.id
  BY DEF Monitor, IdsOf
<1> HIDE DEF ms, n
<1>6. ASSUME ~ListRepeats(l)
      PROVE  ~ListRepeats(ms)
  <2>1. Distinct(l) /\ \A k \in DOMAIN l : ~MonitorRepeats(l[k])
    BY <1>6, ListProper
  <2>2. Distinct(ms) /\ \A k \in DOMAIN ms : ~MonitorRepeats(ms[k])
    BY <1>2, <1>3, <1>5, <2>1 DEF Distinct
  <2> QED
    BY <1>2, <2>2, ListProper
<1> DEFINE keep == {k \in DOMAIN l : l[k].id \notin {m.id}}
<1>9. {k \in DOMAIN ms : ms[k].id \notin {m.id}} = keep
  BY <1>2, <1>3, <1>4
<1>10. \A k \in keep : ms[k] = l[k]
  BY <1>2
<1>11. keep \in SUBSET (DOMAIN l) /\ keep \in SUBSET (DOMAIN ms)
  BY <1>4
<1>12. Without(ms, {m.id}) = Retain(ms, keep) /\ Without(l, {m.id}) = Retain(l, keep)
  BY <1>9 DEF Without
<1>13. Retain(ms, keep) = Retain(l, keep)
  <2> HIDE DEF keep
  <2>1. l \in Seq(Monitor) /\ ms \in Seq(Monitor)
    BY <1>2 DEF Lists
  <2> QED
    BY <1>10, <1>11, <2>1, RetainSame
<1>14. GoodEdit(l, {m.id}, ms)
  BY <1>2, <1>5, <1>6, <1>12, <1>13 DEF GoodEdit, SameOthers
<1> QED
  BY <1>14 DEF ms

\* Rows that only change where their old and their new id are among those named.
LEMMA RowsChanged ==
  ASSUME NEW l \in Lists, NEW ms \in Lists, DOMAIN ms = DOMAIN l,
         NEW ids \in SUBSET Ids,
         \A k \in DOMAIN l : ms[k] = l[k] \/ (l[k].id \in ids /\ ms[k].id \in ids)
  PROVE  SameOthers(l, ids, ms)
<1> DEFINE keep == {k \in DOMAIN l : l[k].id \notin ids}
<1>1. {k \in DOMAIN ms : ms[k].id \notin ids} = keep
  OBVIOUS
<1>2. \A k \in keep : ms[k] = l[k]
  OBVIOUS
<1>3. Without(ms, ids) = Retain(ms, keep) /\ Without(l, ids) = Retain(l, keep)
  BY <1>1 DEF Without
<1>4. keep \in SUBSET (DOMAIN l) /\ keep \in SUBSET (DOMAIN ms)
  OBVIOUS
<1>5. Retain(ms, keep) = Retain(l, keep)
  <2> HIDE DEF keep
  <2>1. l \in Seq(Monitor) /\ ms \in Seq(Monitor)
    BY DEF Lists
  <2> QED
    BY <1>2, <1>4, <2>1, RetainSame
<1> QED
  BY <1>3, <1>5 DEF SameOthers

LEMMA RowPut ==
  ASSUME NEW l \in Lists, NEW x \in DOMAIN l, NEW m \in Monitor
  PROVE  /\ [l EXCEPT ![x] = m] \in Lists
         /\ DOMAIN [l EXCEPT ![x] = m] = DOMAIN l
         /\ [l EXCEPT ![x] = m][x] = m
         /\ \A k \in DOMAIN l : k # x => [l EXCEPT ![x] = m][k] = l[k]
BY DEF Lists

\* One monitor is exchanged for another with its id.
LEMMA MonitorChanged ==
  ASSUME NEW l \in Lists, NEW x \in DOMAIN l,
         NEW m \in Monitor, m.id = l[x].id, ~ListRepeats(l) => ~MonitorRepeats(m)
  PROVE  GoodEdit(l, {m.id}, [l EXCEPT ![x] = m])
<1> DEFINE ms == [l EXCEPT ![x] = m]
<1>1. /\ ms \in Lists /\ DOMAIN ms = DOMAIN l /\ ms[x] = m
      /\ \A k \in DOMAIN l : k # x => ms[k] = l[k]
  BY RowPut
<1> HIDE DEF ms
<1>2. \A k \in DOMAIN l : ms[k].id = l[k].id
  BY <1>1
<1>3. ASSUME ~ListRepeats(l)
      PROVE  ~ListRepeats(ms)
  <2>1. Distinct(l) /\ \A k \in DOMAIN l : ~MonitorRepeats(l[k])
    BY <1>3, ListProper
  <2>2. Distinct(ms) /\ \A k \in DOMAIN ms : ~MonitorRepeats(ms[k])
    BY <1>1, <1>2, <1>3, <2>1 DEF Distinct
  <2> QED
    BY <1>1, <2>2, ListProper
<1>4. {m.id} \in SUBSET Ids
  BY DEF Monitor
<1>5. SameOthers(l, {m.id}, ms)
  BY <1>1, <1>2, <1>4, RowsChanged
<1>6. GoodEdit(l, {m.id}, ms)
  BY <1>3, <1>5 DEF GoodEdit
<1> QED
  BY <1>6 DEF ms

\* The same with any change.
LEMMA MonitorExchanged ==
  ASSUME NEW l \in Lists, NEW x \in DOMAIN l, NEW m \in Monitor
  PROVE  /\ SameOthers(l, {l[x].id, m.id}, [l EXCEPT ![x] = m])
         /\ OthersInPlace(l, [l EXCEPT ![x] = m], {l[x].id, m.id})
<1> DEFINE ms == [l EXCEPT ![x] = m]
<1>1. /\ ms \in Lists /\ DOMAIN ms = DOMAIN l /\ ms[x] = m
      /\ \A k \in DOMAIN l : k # x => ms[k] = l[k]
  BY RowPut
<1> HIDE DEF ms
<1>2. {l[x].id, m.id} \in SUBSET Ids
  BY RowType DEF Monitor
<1>3. \A k \in DOMAIN l :
        ms[k] = l[k] \/ (l[k].id \in {l[x].id, m.id} /\ ms[k].id \in {l[x].id, m.id})
  BY <1>1
<1>4. SameOthers(l, {l[x].id, m.id}, ms)
  BY <1>1, <1>2, <1>3, RowsChanged
<1>5. OthersInPlace(l, ms, {l[x].id, m.id})
  BY <1>1, <1>3 DEF OthersInPlace
<1> QED
  BY <1>4, <1>5 DEF ms

\* Different places stay different.
LEMMA RetainedApart ==
  ASSUME NEW V, NEW s \in Seq(V), NEW keep \in SUBSET (DOMAIN s)
  PROVE  \A j, k \in 1..Cardinality(keep) : Ascending(keep)[j] = Ascending(keep)[k] => j = k
<1>1. /\ Cardinality(keep) \in Nat
      /\ Ascending(keep) \in [1..Cardinality(keep) -> keep]
      /\ \A j, k \in 1..Cardinality(keep) : j < k => Ascending(keep)[j] < Ascending(keep)[k]
  BY Retained
<1>2. \A j \in 1..Cardinality(keep) : Ascending(keep)[j] \in Int
  BY <1>1
<1>3. \A j, k \in 1..Cardinality(keep) : j < k => Ascending(keep)[j] # Ascending(keep)[k]
  BY <1>1, <1>2
<1>4. \A j, k \in 1..Cardinality(keep) : j = k \/ j < k \/ k < j
  BY <1>1
<1> QED
  BY <1>3, <1>4

\* remove: every monitor with one of the ids goes.
LEMMA MonitorsRemoved ==
  ASSUME NEW l \in Lists, NEW ids \in SUBSET Ids
  PROVE  GoodEdit(l, ids, Without(l, ids))
<1> DEFINE keep == {k \in DOMAIN l : l[k].id \notin ids}
           C == Cardinality(keep)
           pick == Ascending(keep)
           ms == Retain(l, keep)
<1>1. l \in Seq(Monitor) /\ keep \in SUBSET (DOMAIN l)
  BY DEF Lists
<1>2. /\ pick \in [1..C -> keep]
      /\ ms = [j \in 1..C |-> l[pick[j]]]
      /\ ms \in Seq(Monitor)
  <2> HIDE DEF keep
  <2> QED
    BY <1>1, Retained
<1>3. \A j, k \in 1..C : pick[j] = pick[k] => j = k
  BY <1>1, RetainedApart
<1>4. Without(l, ids) = ms
  BY DEF Without
<1>5. \A k \in keep : k \in DOMAIN l /\ l[k].id \notin ids
  OBVIOUS
<1> HIDE DEF keep, C, pick, ms
<1>6. DOMAIN ms = 1..C /\ \A j \in DOMAIN ms : ms[j] = l[pick[j]] /\ pick[j] \in DOMAIN l /\ ms[j].id \notin ids
  BY <1>2, <1>5
<1>7. ms \in Lists
  BY <1>2 DEF Lists
<1>8. ASSUME ~ListRepeats(l)
      PROVE  ~ListRepeats(ms)
  <2>1. Distinct(l) /\ \A k \in DOMAIN l : ~MonitorRepeats(l[k])
    BY <1>8, ListProper
  <2>2. Distinct(ms)
    BY <1>3, <1>6, <2>1 DEF Distinct
  <2> QED
    BY <1>6, <1>7, <2>1, <2>2, ListProper
<1>9. Without(ms, ids) = ms
  <2>1. {j \in DOMAIN ms : ms[j].id \notin ids} = DOMAIN ms
    BY <1>6
  <2> QED
    BY <1>2, <2>1, RetainAll DEF Without
<1> QED
  BY <1>4, <1>7, <1>8, <1>9 DEF GoodEdit, SameOthers

\* set_enabled
LEMMA MonitorsEnabled ==
  ASSUME NEW l \in Lists, NEW ids \in SUBSET Ids, NEW enabled \in BOOLEAN
  PROVE  GoodEdit(l, ids, Enabled(l, ids, enabled))
<1> DEFINE ms == Enabled(l, ids, enabled)
<1>1. Len(l) \in Nat /\ DOMAIN l = 1..Len(l) /\ \A k \in DOMAIN l : l[k] \in Monitor
  BY RowType
<1>2. DOMAIN ms = DOMAIN l
  BY DEF Enabled
<1>3. \A k \in DOMAIN l : ms[k] = IF l[k].id \in ids THEN [l[k] EXCEPT !.enabled = enabled] ELSE l[k]
  BY DEF Enabled
<1>4. \A k \in DOMAIN l : ms[k] \in Monitor /\ ms[k].id = l[k].id /\ ms[k].modes = l[k].modes
  BY <1>1, <1>3 DEF Monitor
<1>5. ms \in Lists
  <2>1. ms \in [1..Len(l) -> Monitor]
    BY <1>1, <1>4 DEF Enabled
  <2> QED
    BY <1>1, <2>1 DEF Lists
<1> HIDE DEF ms
<1>6. ASSUME ~ListRepeats(l)
      PROVE  ~ListRepeats(ms)
  <2>1. Distinct(l) /\ \A k \in DOMAIN l : ~MonitorRepeats(l[k])
    BY <1>6, ListProper
  <2>2. Distinct(ms) /\ \A k \in DOMAIN ms : ~MonitorRepeats(ms[k])
    BY <1>2, <1>4, <2>1 DEF Distinct, MonitorRepeats
  <2> QED
    BY <1>5, <2>2, ListProper
<1>7. \A k \in DOMAIN l : ms[k] = l[k] \/ (l[k].id \in ids /\ ms[k].id \in ids)
  BY <1>3, <1>4
<1>8. SameOthers(l, ids, ms)
  BY <1>2, <1>5, <1>7, RowsChanged
<1>9. GoodEdit(l, ids, ms)
  BY <1>6, <1>8 DEF GoodEdit
<1> QED
  BY <1>9 DEF ms

\* One monitor gets other modes.
LEMMA ModesChanged ==
  ASSUME NEW l \in Lists, NEW x \in DOMAIN l,
         NEW modes \in Seq(Mode), ~ListRepeats(l) => ProperModes(modes)
  PROVE  GoodEdit(l, {l[x].id}, [l EXCEPT ![x].modes = modes])
<1> DEFINE m == [l[x] EXCEPT !.modes = modes]
<1>1. l[x] \in Monitor
  BY RowType
<1>2. m \in Monitor /\ m.id = l[x].id /\ m.modes = modes
  BY <1>1 DEF Monitor
<1>3. [l EXCEPT ![x].modes = modes] = [l EXCEPT ![x] = m]
  OBVIOUS
<1> HIDE DEF m
<1>4. ~ListRepeats(l) => ~MonitorRepeats(m)
  BY <1>2, MonitorProper
<1>5. GoodEdit(l, {m.id}, [l EXCEPT ![x] = m])
  BY <1>2, <1>4, MonitorChanged
<1> QED
  BY <1>2, <1>3, <1>5

\* What the modes of a monitor in a proper list are.
LEMMA RowModes ==
  ASSUME NEW l \in Lists, NEW x \in DOMAIN l
  PROVE  l[x].modes \in Seq(Mode) /\ (~ListRepeats(l) => ProperModes(l[x].modes))
<1>1. l[x].modes \in Seq(Mode)
  BY RowType
<1>2. ~ListRepeats(l) => ~MonitorRepeats(l[x])
  BY ListProper
<1>3. DOMAIN l[x].modes \subseteq Nat
  BY <1>1
<1> QED
  BY <1>1, <1>2, <1>3, MonitorProper

LEMMA ModeAdded ==
  ASSUME NEW modes \in Seq(Mode), NEW mode \in Mode, ~ModeRepeats(mode),
         \A k \in DOMAIN modes : modes[k].size # mode.size
  PROVE  /\ Append(modes, mode) \in Seq(Mode)
         /\ ProperModes(modes) => ProperModes(Append(modes, mode))
<1> DEFINE ms == Append(modes, mode)
           n == Len(modes) + 1
<1>1. /\ ms \in Seq(Mode) /\ DOMAIN ms = 1..n /\ ms[n] = mode
      /\ DOMAIN modes = 1..Len(modes) /\ Len(modes) \in Nat
      /\ \A k \in DOMAIN modes : ms[k] = modes[k]
  OBVIOUS
<1>2. \A k \in DOMAIN ms : k \in DOMAIN modes \/ k = n
  BY <1>1
<1> HIDE DEF ms, n
<1>3. ProperModes(modes) => ProperModes(ms)
  BY <1>1, <1>2 DEF ProperModes
<1>4. ms \in Seq(Mode) /\ (ProperModes(modes) => ProperModes(ms))
  BY <1>1, <1>3
<1> QED
  BY <1>4 DEF ms

LEMMA ModeRemoved ==
  ASSUME NEW modes \in Seq(Mode), NEW size
  PROVE  /\ WithoutSize(modes, size) \in Seq(Mode)
         /\ ProperModes(modes) => ProperModes(WithoutSize(modes, size))
<1> DEFINE keep == {k \in DOMAIN modes : modes[k].size # size}
           C == Cardinality(keep)
           pick == Ascending(keep)
           ms == Retain(modes, keep)
<1>1. /\ pick \in [1..C -> keep]
      /\ ms = [j \in 1..C |-> modes[pick[j]]]
      /\ ms \in Seq(Mode)
  <2>1. keep \in SUBSET (DOMAIN modes)
    OBVIOUS
  <2> HIDE DEF keep
  <2> QED
    BY <2>1, Retained
<1>2. \A j, k \in 1..C : pick[j] = pick[k] => j = k
  BY RetainedApart
<1>3. WithoutSize(modes, size) = ms
  BY DEF WithoutSize
<1>4. keep \subseteq DOMAIN modes
  OBVIOUS
<1> HIDE DEF keep, C, pick, ms
<1>5. DOMAIN ms = 1..C /\ \A j \in DOMAIN ms : ms[j] = modes[pick[j]] /\ pick[j] \in DOMAIN modes
  BY <1>1, <1>4
<1>6. ProperModes(modes) => ProperModes(ms)
  BY <1>2, <1>5 DEF ProperModes
<1> QED
  BY <1>1, <1>3, <1>6
-----------------------------------------------------------------------------
(* The modes of the command line *)

LEMMA TypedFinite == IsFiniteSet(TypedMode)
<1> DEFINE pairs == Sizes \X (SUBSET Rates)
           f == [m \in TypedMode |-> <<m.size, m.rates>>]
<1>1. IsFiniteSet(pairs)
  BY EditingAssumption, FS_SUBSET, FS_Product
<1>2. f \in [TypedMode -> pairs]
  BY DEF TypedMode
<1>3. \A m, n \in TypedMode : f[m] = f[n] => m = n
  BY DEF TypedMode
<1>4. f \in Injection(TypedMode, pairs)
  <2> HIDE DEF f, pairs
  <2> QED
    BY <1>2, <1>3 DEF Injection, IsInjective
<1> QED
  BY <1>1, <1>4, FS_Injection

LEMMA FromDriverTyped ==
  ASSUME NEW modes \in Seq(Mode)
  PROVE  FromDriver(modes) \in Seq(TypedMode)
<1>1. Len(modes) \in Nat /\ DOMAIN modes = 1..Len(modes)
  OBVIOUS
<1>2. ASSUME NEW k \in 1..Len(modes)
      PROVE  [size |-> modes[k].size, rates |-> {modes[k].rates[j] : j \in DOMAIN modes[k].rates}]
               \in TypedMode
  <2>1. modes[k] \in Mode
    BY <1>2
  <2>2. modes[k].size \in Sizes /\ modes[k].rates \in Seq(Rates)
    BY <2>1 DEF Mode
  <2>3. \A j \in DOMAIN modes[k].rates : modes[k].rates[j] \in Rates
    BY <2>2
  <2> QED
    BY <2>2, <2>3 DEF TypedMode
<1>3. FromDriver(modes) \in [1..Len(modes) -> TypedMode]
  BY <1>1, <1>2 DEF FromDriver
<1> QED
  BY <1>1, <1>3

LEMMA EnsuredRate ==
  ASSUME NEW mode \in TypedMode
  PROVE  EnsureRefreshRate(mode) \in TypedMode /\ EnsureRefreshRate(mode).size = mode.size
BY CommandLineAssumption DEF TypedMode, EnsureRefreshRate

\* What is written to the driver has no rate twice, and no resolution twice if the typed
\* modes have not.
LEMMA ToDriverProper ==
  ASSUME NEW modes \in Seq(TypedMode)
  PROVE  /\ ToDriver(modes) \in Seq(Mode)
         /\ (\A j, k \in DOMAIN modes : modes[j].size = modes[k].size => j = k)
              => ProperModes(ToDriver(modes))
<1> DEFINE out == ToDriver(modes)
           ratesOf(k) == EnsureRefreshRate(modes[k]).rates
<1>1. Len(modes) \in Nat /\ DOMAIN modes = 1..Len(modes) /\ \A k \in DOMAIN modes : modes[k] \in TypedMode
  OBVIOUS
<1>2. DOMAIN out = DOMAIN modes
  BY DEF ToDriver
<1>3. \A k \in DOMAIN modes : out[k] = [size |-> modes[k].size, rates |-> Ascending(ratesOf(k))]
  BY DEF ToDriver
<1>4. ASSUME NEW k \in DOMAIN modes
      PROVE  out[k] \in Mode /\ out[k].size = modes[k].size /\ ~ModeRepeats(out[k])
  <2> DEFINE rates == ratesOf(k)
             n == Cardinality(rates)
             s == Ascending(rates)
  <2>1. modes[k].size \in Sizes /\ rates \subseteq Rates
    BY <1>1, EnsuredRate DEF TypedMode
  <2>2. rates \in SUBSET Nat /\ IsFiniteSet(rates)
    BY <2>1, EditingAssumption, FS_Subset
  <2> HIDE DEF rates
  <2>3. /\ n \in Nat
        /\ s \in [1..n -> rates]
        /\ \A i, j \in 1..n : i < j => s[i] < s[j]
    BY <2>2, AscendingOrder
  <2>4. out[k] = [size |-> modes[k].size, rates |-> s]
    BY <1>3 DEF rates
  <2> HIDE DEF n, s, out
  <2>5. s \in Seq(Rates)
    <3>1. s \in [1..n -> Rates]
      BY <2>1, <2>3
    <3> QED
      BY <2>3, <3>1
  <2>6. ~Repeated(s)
    <3>1. \A i \in 1..n : s[i] \in Nat
      BY <2>2, <2>3
    <3>2. \A i, j \in 1..n : i < j => s[i] # s[j]
      BY <2>3, <3>1
    <3> QED
      BY <2>3, <3>2 DEF Repeated
  <2> QED
    BY <2>1, <2>4, <2>5, <2>6 DEF Mode, ModeRepeats
<1> HIDE DEF out
<1>5. out \in Seq(Mode)
  <2>1. \A k \in 1..Len(modes) : out[k] \in Mode
    BY <1>1, <1>4
  <2>2. out = [k \in 1..Len(modes) |-> out[k]]
    BY <1>1 DEF out, ToDriver
  <2>3. out \in [1..Len(modes) -> Mode]
    BY <2>1, <2>2
  <2> QED
    BY <1>1, <2>3
<1>6. ASSUME \A j, k \in DOMAIN modes : modes[j].size = modes[k].size => j = k
      PROVE  ProperModes(out)
  BY <1>2, <1>4, <1>6 DEF ProperModes
<1> QED
  BY <1>5, <1>6 DEF out

OnePerSize(modes) == \A m, n \in modes : m.size = n.size => m = n

LEMMA MergedModes ==
  ASSUME NEW modes \in Seq(TypedMode)
  PROVE  Merge(modes) \in SUBSET TypedMode /\ OnePerSize(Merge(modes))
<1>1. \A m \in Range(modes) : m \in TypedMode /\ m.size \in Sizes /\ m.rates \subseteq Rates
  <2>1. \A k \in DOMAIN modes : modes[k] \in TypedMode
    OBVIOUS
  <2> QED
    BY <2>1 DEF Range, TypedMode
<1>2. \A size : RatesOf(modes, size) \subseteq Rates
  BY <1>1 DEF RatesOf
<1>3. ASSUME NEW m \in Merge(modes)
      PROVE  /\ m \in TypedMode
             /\ m = [size |-> m.size, rates |-> RatesOf(modes, m.size)]
  <2>1. PICK size \in {t.size : t \in Range(modes)} :
          m = [size |-> size, rates |-> RatesOf(modes, size)]
    BY <1>3 DEF Merge
  <2>2. size \in Sizes
    BY <1>1, <2>1
  <2> QED
    BY <1>2, <2>1, <2>2 DEF TypedMode
<1>4. ASSUME NEW m \in Merge(modes), NEW n \in Merge(modes), m.size = n.size
      PROVE  m = n
  BY <1>3, <1>4
<1> QED
  BY <1>3, <1>4 DEF OnePerSize

LEMMA RemovedModes ==
  ASSUME NEW modes \in SUBSET TypedMode, OnePerSize(modes), NEW typed \in TypedMode
  PROVE  RemoveTyped(modes, typed) \in SUBSET TypedMode /\ OnePerSize(RemoveTyped(modes, typed))
<1> DEFINE cut(m) == IF m.size = typed.size THEN [m EXCEPT !.rates = @ \ typed.rates] ELSE m
<1>1. \A m \in modes : cut(m) \in TypedMode /\ cut(m).size = m.size
  BY DEF TypedMode
<1>2. ASSUME NEW mode \in RemoveTyped(modes, typed)
      PROVE  \E m \in modes : mode = cut(m)
  BY DEF RemoveTyped
<1> HIDE DEF cut
<1>3. RemoveTyped(modes, typed) \subseteq TypedMode
  BY <1>1, <1>2
<1>4. ASSUME NEW a \in RemoveTyped(modes, typed), NEW b \in RemoveTyped(modes, typed),
             a.size = b.size
      PROVE  a = b
  <2>1. PICK m \in modes : a = cut(m)
    BY <1>2
  <2>2. PICK n \in modes : b = cut(n)
    BY <1>2
  <2>3. m.size = n.size
    BY <1>1, <1>4, <2>1, <2>2
  <2>4. m = n
    BY <2>3 DEF OnePerSize
  <2> QED
    BY <2>1, <2>2, <2>4
<1> QED
  BY <1>3, <1>4 DEF OnePerSize

\* In whatever order the hash map gives them, the modes that replace the old ones are proper.
LEMMA ModesReplaced ==
  ASSUME NEW l \in Lists, NEW x \in DOMAIN l,
         NEW modes \in SUBSET TypedMode, OnePerSize(modes),
         NEW order \in Orders(modes)
  PROVE  GoodEdit(l, {l[x].id}, [l EXCEPT ![x].modes = ToDriver(order)])
<1>1. Cardinality(modes) \in Nat
  BY TypedFinite, FS_Subset, FS_CardinalityType
<1>2. /\ order \in [1..Cardinality(modes) -> modes]
      /\ \A i, j \in 1..Cardinality(modes) : order[i] = order[j] => i = j
  BY DEF Orders
<1>3. order \in Seq(TypedMode)
  <2>1. order \in [1..Cardinality(modes) -> TypedMode]
    BY <1>2
  <2> QED
    BY <1>1, <2>1
<1>4. \A j, k \in DOMAIN order : order[j].size = order[k].size => j = k
  BY <1>2 DEF OnePerSize
<1>5. ToDriver(order) \in Seq(Mode) /\ ProperModes(ToDriver(order))
  BY <1>3, <1>4, ToDriverProper
<1> QED
  BY <1>5, ModesChanged
-----------------------------------------------------------------------------
(* The calls *)

\* What a call that looks for duplicates may do to the copy.
Edited(p) ==
  \/ Fails(p)
  \/ \E ids, ms : GoodEdit(list[p], ids, ms) /\ Call(p, ids, TRUE, ms)

\* What replace_monitor and find_monitor_mut may do besides.
LetInto(p) ==
  \E ids, ok, ms :
    /\ SameOthers(list[p], ids, ms) /\ OthersInPlace(list[p], ms, ids) /\ ok \in BOOLEAN
    /\ LetsIn(p, ids, ok, ms)

CopyTyped(p) == list[p] \in Lists

LEMMA GivenWhole ==
  ASSUME NEW p, CopyTyped(p), RemoveAll(p) \/ \E ms \in Given : SetMonitors(p, ms)
  PROVE  Edited(p)
<1> USE DEF CopyTyped, Succeeds
<1>1. CASE RemoveAll(p)
  <2>1. <<>> \in Lists /\ ~ListRepeats(<<>>)
    BY DEF Lists, ListRepeats, Repeated
  <2> QED
    BY <1>1, <2>1, Replaced DEF RemoveAll, Edited
<1>2. ASSUME NEW ms \in Given, SetMonitors(p, ms)
      PROVE  Edited(p)
  <2>1. ms \in Lists
    BY InputAssumption
  <2>2. CASE Fails(p)
    BY <2>2 DEF Edited
  <2>3. CASE ~ListRepeats(ms) /\ Call(p, Ids, TRUE, ms)
    BY <2>1, <2>3, Replaced DEF Edited
  <2> QED
    BY <1>2, <2>2, <2>3 DEF SetMonitors
<1> QED
  BY <1>1, <1>2

LEMMA InputType ==
  ASSUME NEW m \in Offered
  PROVE  m \in Monitor /\ m.id \in Ids
BY InputAssumption DEF Monitor

LEMMA AddEdits ==
  ASSUME NEW p, CopyTyped(p), NEW m \in Monitor, Add(p, m)
  PROVE  Edited(p)
<1>1. CASE Fails(p)
  BY <1>1 DEF Edited
<1>2. CASE /\ m.id \notin IdsOf(list[p]) /\ ~MonitorRepeats(m)
           /\ Call(p, {m.id}, TRUE, Append(list[p], m))
  BY <1>2, MonitorAdded DEF Edited, CopyTyped
<1> QED
  BY <1>1, <1>2 DEF Add, Succeeds

LEMMA AddNewEdits ==
  ASSUME NEW p, CopyTyped(p), NEW preferred,
         NEW m, \A id \in Ids : [m EXCEPT !.id = id] \in Monitor,
         AddNew(p, preferred, m)
  PROVE  Edited(p)
<1>1. CASE Fails(p)
  BY <1>1 DEF Edited
<1>2. ASSUME NEW id \in Ids, Add(p, [m EXCEPT !.id = id])
      PROVE  Edited(p)
  BY <1>2, AddEdits
<1> QED
  BY <1>1, <1>2 DEF AddNew

LEMMA ReplaceMonitorEdits ==
  ASSUME NEW p, CopyTyped(p), NEW m \in Monitor, ReplaceMonitor(p, m)
  PROVE  Edited(p) \/ LetInto(p)
<1> DEFINE l == list[p]
           x == Place(l, m.id)
<1>1. CASE Fails(p)
  BY <1>1 DEF Edited
<1>2. CASE m.id \in IdsOf(l) /\ MonitorRepeats(m) /\ LetsIn(p, {m.id}, TRUE, [l EXCEPT ![x] = m])
  <2>1. x \in DOMAIN l /\ l[x].id = m.id
    BY <1>2, Found DEF CopyTyped
  <2> HIDE DEF x
  <2>2. /\ SameOthers(l, {m.id}, [l EXCEPT ![x] = m])
        /\ OthersInPlace(l, [l EXCEPT ![x] = m], {m.id})
    <3>1. {l[x].id, m.id} = {m.id}
      BY <2>1
    <3> QED
      BY <2>1, <3>1, MonitorExchanged DEF CopyTyped
  <2> QED
    BY <1>2, <2>2 DEF LetInto
<1>3. CASE m.id \in IdsOf(l) /\ ~MonitorRepeats(m) /\ Call(p, {m.id}, TRUE, [l EXCEPT ![x] = m])
  <2>1. x \in DOMAIN l /\ l[x].id = m.id
    BY <1>3, Found DEF CopyTyped
  <2> HIDE DEF x
  <2>2. GoodEdit(l, {m.id}, [l EXCEPT ![x] = m])
    BY <1>3, <2>1, MonitorChanged DEF CopyTyped
  <2> QED
    BY <1>3, <2>2 DEF Edited
<1> QED
  BY <1>1, <1>2, <1>3 DEF ReplaceMonitor, Succeeds

LEMMA FindMonitorMutEdits ==
  ASSUME NEW p, CopyTyped(p), NEW i, NEW m \in Monitor, FindMonitorMut(p, i, m)
  PROVE  Edited(p) \/ LetInto(p)
<1> DEFINE l == list[p]
           x == Place(l, i)
           ms == [l EXCEPT ![x] = m]
<1>1. CASE Fails(p)
  BY <1>1 DEF Edited
<1>2. ASSUME i \in IdsOf(l)
      PROVE  SameOthers(l, {i, m.id}, ms) /\ OthersInPlace(l, ms, {i, m.id})
  <2>1. x \in DOMAIN l /\ l[x].id = i
    BY <1>2, Found DEF CopyTyped
  <2> HIDE DEF x
  <2> QED
    BY <2>1, MonitorExchanged DEF CopyTyped
<1> HIDE DEF x, ms
<1>3. CASE i \in IdsOf(l) /\ ~ListRepeats(ms) /\ Call(p, {i, m.id}, TRUE, ms)
  BY <1>2, <1>3 DEF Edited, GoodEdit
<1>4. CASE i \in IdsOf(l) /\ LetsIn(p, {i, m.id}, FALSE, ms)
  BY <1>2, <1>4 DEF LetInto
<1> QED
  BY <1>1, <1>3, <1>4 DEF FindMonitorMut, Succeeds, x, ms

LEMMA RemoveEdits ==
  ASSUME NEW p, CopyTyped(p), NEW ids \in SUBSET Ids, Remove(p, ids)
  PROVE  Edited(p)
BY MonitorsRemoved DEF Remove, Succeeds, Edited, CopyTyped

LEMMA SetEnabledEdits ==
  ASSUME NEW p, CopyTyped(p), NEW ids \in SUBSET Ids, NEW enabled \in BOOLEAN,
         SetEnabled(p, ids, enabled)
  PROVE  Edited(p)
BY MonitorsEnabled DEF SetEnabled, Succeeds, Edited, CopyTyped

\* Queries that all matched.
LEMMA FoundIds ==
  ASSUME NEW p, CopyTyped(p), NEW queries,
         NoId \notin {FindId(list[p], q) : q \in queries}
  PROVE  {FindId(list[p], q) : q \in queries} \in SUBSET Ids
BY FoundId, RowType DEF CopyTyped

LEMMA RemoveQueryEdits ==
  ASSUME NEW p, CopyTyped(p), NEW queries, RemoveQuery(p, queries)
  PROVE  Edited(p)
<1> DEFINE found == {FindId(list[p], q) : q \in queries}
<1>1. CASE Fails(p)
  BY <1>1 DEF Edited
<1>2. CASE NoId \notin found /\ Remove(p, found)
  <2>1. found \in SUBSET Ids
    BY <1>2, FoundIds
  <2> HIDE DEF found
  <2> QED
    BY <1>2, <2>1, RemoveEdits
<1> QED
  BY <1>1, <1>2 DEF RemoveQuery

LEMMA SetEnabledQueryEdits ==
  ASSUME NEW p, CopyTyped(p), NEW queries, NEW enabled \in BOOLEAN,
         SetEnabledQuery(p, queries, enabled)
  PROVE  Edited(p)
<1> DEFINE found == {FindId(list[p], q) : q \in queries}
<1>1. CASE Fails(p)
  BY <1>1 DEF Edited
<1>2. CASE NoId \notin found /\ SetEnabled(p, found, enabled)
  <2>1. found \in SUBSET Ids
    BY <1>2, FoundIds
  <2> HIDE DEF found
  <2> QED
    BY <1>2, <2>1, SetEnabledEdits
<1> QED
  BY <1>1, <1>2 DEF SetEnabledQuery

LEMMA AddModeEdits ==
  ASSUME NEW p, CopyTyped(p), NEW i, NEW mode \in Mode, AddMode(p, i, mode)
  PROVE  Edited(p)
<1> DEFINE l == list[p]
           x == Place(l, i)
           ms == [l EXCEPT ![x].modes = Append(@, mode)]
<1>1. CASE Fails(p)
  BY <1>1 DEF Edited
<1>2. CASE /\ i \in IdsOf(l) /\ ~ModeRepeats(mode) /\ ~HasSize(l, i, mode.size)
           /\ Call(p, {i}, TRUE, ms)
  <2>1. x \in DOMAIN l /\ l[x].id = i
    BY <1>2, Found DEF CopyTyped
  <2>2. \A k \in DOMAIN l[x].modes : l[x].modes[k].size # mode.size
    BY <1>2 DEF HasSize
  <2> HIDE DEF x
  <2>3. l[x].modes \in Seq(Mode) /\ (~ListRepeats(l) => ProperModes(l[x].modes))
    BY <2>1, RowModes DEF CopyTyped
  <2>4. /\ Append(l[x].modes, mode) \in Seq(Mode)
        /\ ~ListRepeats(l) => ProperModes(Append(l[x].modes, mode))
    BY <1>2, <2>2, <2>3, ModeAdded
  <2>5. GoodEdit(l, {l[x].id}, [l EXCEPT ![x].modes = Append(l[x].modes, mode)])
    BY <2>1, <2>4, ModesChanged DEF CopyTyped
  <2>6. ms = [l EXCEPT ![x].modes = Append(l[x].modes, mode)]
    OBVIOUS
  <2> QED
    BY <1>2, <2>1, <2>5, <2>6 DEF Edited
<1> QED
  BY <1>1, <1>2 DEF AddMode, Succeeds

LEMMA RemoveModeEdits ==
  ASSUME NEW p, CopyTyped(p), NEW i, NEW size, RemoveMode(p, i, size)
  PROVE  Edited(p)
<1> DEFINE l == list[p]
           x == Place(l, i)
           ms == [l EXCEPT ![x].modes = WithoutSize(@, size)]
<1>1. CASE Fails(p)
  BY <1>1 DEF Edited
<1>2. CASE i \in IdsOf(l) /\ Call(p, {i}, TRUE, ms)
  <2>1. x \in DOMAIN l /\ l[x].id = i
    BY <1>2, Found DEF CopyTyped
  <2> HIDE DEF x
  <2>2. l[x].modes \in Seq(Mode) /\ (~ListRepeats(l) => ProperModes(l[x].modes))
    BY <2>1, RowModes DEF CopyTyped
  <2>3. /\ WithoutSize(l[x].modes, size) \in Seq(Mode)
        /\ ~ListRepeats(l) => ProperModes(WithoutSize(l[x].modes, size))
    BY <2>2, ModeRemoved
  <2>4. GoodEdit(l, {l[x].id}, [l EXCEPT ![x].modes = WithoutSize(l[x].modes, size)])
    BY <2>1, <2>3, ModesChanged DEF CopyTyped
  <2>5. ms = [l EXCEPT ![x].modes = WithoutSize(l[x].modes, size)]
    OBVIOUS
  <2> QED
    BY <1>2, <2>1, <2>4, <2>5 DEF Edited
<1> QED
  BY <1>1, <1>2 DEF RemoveMode, Succeeds

\* The command line's commands on the modes of one monitor.
LEMMA ReplaceModesEdits ==
  ASSUME NEW p, CopyTyped(p), ~ListRepeats(list[p]), NEW i \in IdsOf(list[p]),
         NEW modes \in SUBSET TypedMode, OnePerSize(modes), ReplaceModes(p, i, modes)
  PROVE  Edited(p)
<1> DEFINE l == list[p]
           x == Place(l, i)
<1>1. x \in DOMAIN l /\ l[x].id = i
  BY Found DEF CopyTyped
<1>2. PICK order \in Orders(modes) :
        Call(p, {i}, ~ListRepeats([l EXCEPT ![x].modes = ToDriver(order)]),
             [l EXCEPT ![x].modes = ToDriver(order)])
  BY DEF ReplaceModes
<1> DEFINE ms == [l EXCEPT ![x].modes = ToDriver(order)]
<1> HIDE DEF x
<1>3. GoodEdit(l, {i}, ms)
  BY <1>1, ModesReplaced DEF CopyTyped
<1>4. (~ListRepeats(ms)) = TRUE
  BY <1>3 DEF GoodEdit, ListRepeats
<1>5. Call(p, {i}, TRUE, ms)
  BY <1>2, <1>4
<1> QED
  BY <1>3, <1>5 DEF Edited

\* The modes of a monitor as the command line has them.
LEMMA OldModes ==
  ASSUME NEW p, CopyTyped(p), NEW i \in IdsOf(list[p])
  PROVE  FromDriver(list[p][Place(list[p], i)].modes) \in Seq(TypedMode)
<1>1. Place(list[p], i) \in DOMAIN list[p]
  BY Found DEF CopyTyped
<1>2. list[p][Place(list[p], i)].modes \in Seq(Mode)
  BY <1>1, RowType DEF CopyTyped
<1> QED
  BY <1>2, FromDriverTyped

LEMMA CliAddModeEdits ==
  ASSUME NEW p, CopyTyped(p), ~ListRepeats(list[p]),
         NEW query, NEW typed \in Seq(TypedMode), CliAddMode(p, query, typed)
  PROVE  Edited(p)
<1> DEFINE i == FindId(list[p], query)
           old == FromDriver(list[p][Place(list[p], i)].modes)
<1>1. CASE Fails(p)
  BY <1>1 DEF Edited
<1>2. CASE i # NoId /\ ReplaceModes(p, i, Merge(old \o typed))
  <2>1. i \in IdsOf(list[p])
    BY <1>2, FoundId DEF CopyTyped
  <2>2. old \in Seq(TypedMode)
    BY <2>1, OldModes
  <2> HIDE DEF i, old
  <2>3. old \o typed \in Seq(TypedMode)
    BY <2>2
  <2>4. Merge(old \o typed) \in SUBSET TypedMode /\ OnePerSize(Merge(old \o typed))
    BY <2>3, MergedModes
  <2> QED
    BY <1>2, <2>1, <2>4, ReplaceModesEdits
<1> QED
  BY <1>1, <1>2 DEF CliAddMode

LEMMA CliRemoveModeEdits ==
  ASSUME NEW p, CopyTyped(p), ~ListRepeats(list[p]),
         NEW query, NEW typed \in TypedMode, CliRemoveMode(p, query, typed)
  PROVE  Edited(p)
<1> DEFINE i == FindId(list[p], query)
           old == FromDriver(list[p][Place(list[p], i)].modes)
           ensured == [k \in DOMAIN old |-> EnsureRefreshRate(old[k])]
           merged == Merge(ensured)
<1>1. CASE Fails(p)
  BY <1>1 DEF Edited
<1>2. CASE i # NoId /\ ReplaceModes(p, i, RemoveTyped(merged, typed))
  <2>1. i \in IdsOf(list[p])
    BY <1>2, FoundId DEF CopyTyped
  <2>2. old \in Seq(TypedMode)
    BY <2>1, OldModes
  <2> HIDE DEF i, old
  <2>3. ensured \in Seq(TypedMode)
    <3>1. Len(old) \in Nat /\ DOMAIN old = 1..Len(old) /\ \A k \in DOMAIN old : old[k] \in TypedMode
      BY <2>2
    <3>2. \A k \in DOMAIN old : EnsureRefreshRate(old[k]) \in TypedMode
      BY <3>1, EnsuredRate
    <3>3. ensured \in [1..Len(old) -> TypedMode]
      BY <3>1, <3>2
    <3> QED
      BY <3>1, <3>3
  <2> HIDE DEF ensured
  <2>4. merged \in SUBSET TypedMode /\ OnePerSize(merged)
    BY <2>3, MergedModes
  <2> HIDE DEF merged
  <2>5. RemoveTyped(merged, typed) \in SUBSET TypedMode /\ OnePerSize(RemoveTyped(merged, typed))
    BY <2>4, RemovedModes
  <2> QED
    BY <1>2, <2>1, <2>5, ReplaceModesEdits
<1> QED
  BY <1>1, <1>2 DEF CliRemoveMode

LEMMA CliAddEdits ==
  ASSUME NEW p, CopyTyped(p), NEW preferred, NEW name \in Names \cup {NoName},
         NEW enabled \in BOOLEAN, NEW typed \in Seq(TypedMode),
         CliAdd(p, preferred, name, enabled, typed)
  PROVE  Edited(p)
<1> DEFINE m == [id |-> NoId, name |-> name, enabled |-> enabled, modes |-> ToDriver(typed)]
<1>1. ToDriver(typed) \in Seq(Mode)
  BY ToDriverProper
<1>2. \A id \in Ids : [m EXCEPT !.id = id] \in Monitor
  BY <1>1 DEF Monitor
<1>3. AddNew(p, preferred, m)
  BY DEF CliAdd
<1> HIDE DEF m
<1> QED
  BY <1>2, <1>3, AddNewEdits

\* A command of the command line client is such a call, in a copy that has no duplicates.
LEMMA CommandEdits ==
  ASSUME NEW p, CopyTyped(p), ~ListRepeats(list[p]), Edits(p)
  PROVE  Edited(p)
<1>1. ASSUME NEW preferred \in Ids \cup {NoId}, NEW name \in Names \cup {NoName},
             NEW enabled \in BOOLEAN, NEW typed \in Typed, CliAdd(p, preferred, name, enabled, typed)
      PROVE  Edited(p)
  BY <1>1, TypedAssumption, CliAddEdits
<1>2. ASSUME NEW query \in Queries, NEW typed \in Typed, CliAddMode(p, query, typed)
      PROVE  Edited(p)
  BY <1>2, TypedAssumption, CliAddModeEdits
<1>3. ASSUME NEW query \in Queries, NEW typed \in TypedMode, CliRemoveMode(p, query, typed)
      PROVE  Edited(p)
  BY <1>3, CliRemoveModeEdits
<1>4. ASSUME NEW query \in Queries, NEW enabled \in BOOLEAN, CliSetEnabled(p, query, enabled)
      PROVE  Edited(p)
  BY <1>4, SetEnabledQueryEdits DEF CliSetEnabled
<1>5. ASSUME NEW queries \in SUBSET Queries, CliRemove(p, queries)
      PROVE  Edited(p)
  BY <1>5, RemoveQueryEdits DEF CliRemove
<1>6. CASE CliRemoveAll(p)
  BY <1>6, GivenWhole DEF CliRemoveAll
<1> QED
  BY <1>1, <1>2, <1>3, <1>4, <1>5, <1>6 DEF Edits

LEMMA EditOneEdits ==
  ASSUME NEW p, CopyTyped(p), NEW i, EditOne(p, i)
  PROVE  Edited(p) \/ LetInto(p)
<1>1. ASSUME NEW mode \in NewModes, AddMode(p, i, mode)
      PROVE  Edited(p)
  BY <1>1, InputAssumption, AddModeEdits
<1>2. ASSUME NEW size \in Sizes, RemoveMode(p, i, size)
      PROVE  Edited(p)
  BY <1>2, RemoveModeEdits
<1>3. ASSUME NEW m \in Offered, FindMonitorMut(p, i, m)
      PROVE  Edited(p) \/ LetInto(p)
  BY <1>3, InputType, FindMonitorMutEdits
<1> QED
  BY <1>1, <1>2, <1>3 DEF EditOne

\* A program's call of DriverClient is one of these.
LEMMA ProgramEdits ==
  ASSUME NEW p, CopyTyped(p), Edit(p)
  PROVE  Edited(p) \/ LetInto(p) \/ RefreshState(p)
<1>1. CASE RemoveAll(p) \/ \E ms \in Given : SetMonitors(p, ms)
  BY <1>1, GivenWhole
<1>2. ASSUME NEW m \in Offered, ReplaceMonitor(p, m) \/ Add(p, m)
      PROVE  Edited(p) \/ LetInto(p)
  BY <1>2, InputType, ReplaceMonitorEdits, AddEdits
<1>3. ASSUME NEW m \in Offered, NEW preferred \in Ids \cup {NoId}, AddNew(p, preferred, m)
      PROVE  Edited(p)
  <2>1. \A id \in Ids : [m EXCEPT !.id = id] \in Monitor
    BY InputType DEF Monitor
  <2> QED
    BY <1>3, <2>1, AddNewEdits
<1>4. ASSUME NEW ids \in SUBSET Ids, Remove(p, ids)
      PROVE  Edited(p)
  BY <1>4, RemoveEdits
<1>5. ASSUME NEW queries \in SUBSET Queries, RemoveQuery(p, queries)
      PROVE  Edited(p)
  BY <1>5, RemoveQueryEdits
<1>6. ASSUME NEW ids \in SUBSET Ids, NEW enabled \in BOOLEAN, SetEnabled(p, ids, enabled)
      PROVE  Edited(p)
  BY <1>6, SetEnabledEdits
<1>7. ASSUME NEW queries \in SUBSET Queries, NEW enabled \in BOOLEAN,
             SetEnabledQuery(p, queries, enabled)
      PROVE  Edited(p)
  BY <1>7, SetEnabledQueryEdits
<1>8. ASSUME NEW i \in Ids, EditOne(p, i)
      PROVE  Edited(p) \/ LetInto(p)
  BY <1>8, EditOneEdits
<1>9. ASSUME NEW query \in Queries, OnQuery(p, query)
      PROVE  Edited(p) \/ LetInto(p)
  <2>1. CASE Fails(p)
    BY <2>1 DEF Edited
  <2>2. CASE EditOne(p, FindId(list[p], query))
    BY <2>2, EditOneEdits
  <2> QED
    BY <1>9, <2>1, <2>2 DEF OnQuery
<1> QED
  BY <1>1, <1>2, <1>3, <1>4, <1>5, <1>6, <1>7, <1>8, <1>9 DEF Edit
-----------------------------------------------------------------------------
(* What the driver makes of a list *)

\* Every place that retain keeps is used.
LEMMA RetainedOnto ==
  ASSUME NEW V, NEW s \in Seq(V), NEW keep \in SUBSET (DOMAIN s)
  PROVE  \A k \in keep : \E j \in 1..Cardinality(keep) : Ascending(keep)[j] = k
<1> DEFINE C == Cardinality(keep)
           pick == Ascending(keep)
<1>1. C \in Nat /\ pick \in [1..C -> keep]
  BY Retained
<1>2. \A j, k \in 1..C : pick[j] = pick[k] => j = k
  BY RetainedApart
<1>3. IsFiniteSet(keep)
  <2>1. IsFiniteSet(DOMAIN s)
    BY FS_Interval
  <2> QED
    BY <2>1, FS_Subset
<1> HIDE DEF pick
<1>4. pick \in Injection(1..C, keep)
  BY <1>1, <1>2 DEF Injection, IsInjective
<1>5. Cardinality(1..C) = Cardinality(keep)
  BY <1>1, FS_Interval
<1>6. pick \in Surjection(1..C, keep)
  BY <1>3, <1>4, <1>5, FS_Injection
<1> QED
  BY <1>6 DEF Surjection, pick

\* The rows of the table that stay, each with what the list says of it.
Kept(table, ms) ==
  LET kept == Retain(table, {k \in DOMAIN table : table[k].id \in IdsOf(ms)})
  IN  [j \in DOMAIN kept |-> ms[Place(ms, kept[j].id)]]

\* The rows that are new.
New(table, ms) == Retain(ms, {k \in DOMAIN ms : ms[k].id \notin IdsOf(table)})

LEMMA KeptRows ==
  ASSUME NEW table \in Lists, ~ListRepeats(table), NEW ms \in Lists, ~ListRepeats(ms)
  PROVE  /\ Kept(table, ms) \in Lists
         /\ \A j \in DOMAIN Kept(table, ms) :
              Kept(table, ms)[j] \in Range(ms) /\ Kept(table, ms)[j].id \in IdsOf(table)
         /\ Distinct(Kept(table, ms))
         /\ \A k \in DOMAIN ms : ms[k].id \in IdsOf(table) => ms[k] \in Range(Kept(table, ms))
<1> DEFINE keep == {k \in DOMAIN table : table[k].id \in IdsOf(ms)}
           C == Cardinality(keep)
           pick == Ascending(keep)
           kept == Retain(table, keep)
           rows == Kept(table, ms)
<1>1. table \in Seq(Monitor) /\ keep \in SUBSET (DOMAIN table)
  BY DEF Lists
<1>2. /\ C \in Nat
      /\ pick \in [1..C -> keep]
      /\ kept = [j \in 1..C |-> table[pick[j]]]
  <2> HIDE DEF keep
  <2> QED
    BY <1>1, Retained
<1>3. /\ \A j, k \in 1..C : pick[j] = pick[k] => j = k
      /\ \A k \in keep : \E j \in 1..C : pick[j] = k
  <2> HIDE DEF keep
  <2> QED
    BY <1>1, RetainedApart, RetainedOnto
<1>4. rows = [j \in DOMAIN kept |-> ms[Place(ms, kept[j].id)]]
  BY DEF Kept
<1>5. \A k \in keep : k \in DOMAIN table /\ table[k].id \in IdsOf(ms)
  OBVIOUS
<1>6. \A k \in DOMAIN table : table[k].id \in IdsOf(ms) => k \in keep
  OBVIOUS
<1> HIDE DEF keep, C, pick, kept, rows
<1>7. /\ DOMAIN rows = 1..C
      /\ \A j \in 1..C : pick[j] \in DOMAIN table /\ table[pick[j]].id \in IdsOf(ms)
      /\ \A j \in 1..C : rows[j] = ms[Place(ms, table[pick[j]].id)]
  BY <1>2, <1>4, <1>5
<1>8. \A j \in 1..C : /\ Place(ms, table[pick[j]].id) \in DOMAIN ms
                      /\ rows[j].id = table[pick[j]].id
  BY <1>7, Found
<1>9. rows \in Lists
  <2>1. \A j \in 1..C : rows[j] \in Monitor
    BY <1>7, <1>8, RowType
  <2>2. rows = [j \in 1..C |-> rows[j]]
    BY <1>2, <1>4
  <2>3. rows \in [1..C -> Monitor]
    BY <2>1, <2>2
  <2> QED
    BY <1>2, <2>3 DEF Lists
<1>10. \A j \in DOMAIN rows : rows[j] \in Range(ms) /\ rows[j].id \in IdsOf(table)
  <2>1. ASSUME NEW j \in 1..C
        PROVE  rows[j] \in Range(ms) /\ rows[j].id \in IdsOf(table)
    <3>1. rows[j].id \in IdsOf(table)
      BY <1>7, <1>8, RowType
    <3>2. rows[j] \in Range(ms)
      BY <1>7, <1>8 DEF Range
    <3> QED
      BY <3>1, <3>2
  <2> QED
    BY <1>7, <2>1
<1>11. Distinct(rows)
  <2>1. Distinct(table)
    BY ListProper
  <2>2. ASSUME NEW j \in 1..C, NEW k \in 1..C, rows[j].id = rows[k].id
        PROVE  j = k
    <3>1. table[pick[j]].id = table[pick[k]].id
      BY <1>8, <2>2
    <3>2. pick[j] = pick[k]
      BY <1>7, <2>1, <3>1 DEF Distinct
    <3> QED
      BY <1>3, <3>2
  <2> QED
    BY <1>7, <2>2 DEF Distinct
<1>12. ASSUME NEW k \in DOMAIN ms, ms[k].id \in IdsOf(table)
       PROVE  ms[k] \in Range(rows)
  <2>1. PICK x \in DOMAIN table : table[x].id = ms[k].id
    BY <1>12 DEF IdsOf
  <2>2. x \in keep
    BY <1>6, <2>1, RowType
  <2>3. PICK j \in 1..C : pick[j] = x
    BY <1>3, <2>2
  <2> DEFINE y == Place(ms, table[x].id)
  <2>4. y \in DOMAIN ms /\ ms[y].id = ms[k].id /\ rows[j] = ms[y]
    BY <1>7, <1>8, <2>1, <2>3
  <2>5. y = k
    <3>1. Distinct(ms)
      BY ListProper
    <3> HIDE DEF y
    <3> QED
      BY <2>4, <3>1 DEF Distinct
  <2>6. rows[j] = ms[k] /\ j \in DOMAIN rows
    BY <1>7, <2>4, <2>5
  <2> QED
    BY <2>6 DEF Range
<1> QED
  BY <1>9, <1>10, <1>11, <1>12 DEF rows

LEMMA NewRows ==
  ASSUME NEW table \in Lists, NEW ms \in Lists, ~ListRepeats(ms)
  PROVE  /\ New(table, ms) \in Lists
         /\ \A j \in DOMAIN New(table, ms) :
              New(table, ms)[j] \in Range(ms) /\ New(table, ms)[j].id \notin IdsOf(table)
         /\ Distinct(New(table, ms))
         /\ \A k \in DOMAIN ms : ms[k].id \notin IdsOf(table) => ms[k] \in Range(New(table, ms))
<1> DEFINE keep == {k \in DOMAIN ms : ms[k].id \notin IdsOf(table)}
           C == Cardinality(keep)
           pick == Ascending(keep)
           rows == Retain(ms, keep)
<1>1. ms \in Seq(Monitor) /\ keep \in SUBSET (DOMAIN ms)
  BY DEF Lists
<1>2. /\ pick \in [1..C -> keep]
      /\ rows = [j \in 1..C |-> ms[pick[j]]]
      /\ rows \in Seq(Monitor)
  <2> HIDE DEF keep
  <2> QED
    BY <1>1, Retained
<1>3. /\ \A j, k \in 1..C : pick[j] = pick[k] => j = k
      /\ \A k \in keep : \E j \in 1..C : pick[j] = k
  <2> HIDE DEF keep
  <2> QED
    BY <1>1, RetainedApart, RetainedOnto
<1>4. New(table, ms) = rows
  BY DEF New
<1>5. \A k \in keep : k \in DOMAIN ms /\ ms[k].id \notin IdsOf(table)
  OBVIOUS
<1>6. \A k \in DOMAIN ms : ms[k].id \notin IdsOf(table) => k \in keep
  OBVIOUS
<1> HIDE DEF keep, C, pick, rows
<1>7. /\ DOMAIN rows = 1..C
      /\ \A j \in 1..C : /\ pick[j] \in DOMAIN ms /\ rows[j] = ms[pick[j]]
                         /\ rows[j].id \notin IdsOf(table)
  BY <1>2, <1>5
<1>8. \A j \in 1..C : rows[j] \in Range(ms)
  BY <1>7 DEF Range
<1>9. Distinct(rows)
  <2>1. Distinct(ms)
    BY ListProper
  <2> QED
    BY <1>3, <1>7, <2>1 DEF Distinct
<1>10. ASSUME NEW k \in DOMAIN ms, ms[k].id \notin IdsOf(table)
       PROVE  ms[k] \in Range(rows)
  <2>1. PICK j \in 1..C : pick[j] = k
    BY <1>3, <1>6, <1>10
  <2>2. rows[j] = ms[k] /\ j \in DOMAIN rows
    BY <1>7, <2>1
  <2> QED
    BY <2>2 DEF Range
<1> QED
  BY <1>2, <1>4, <1>7, <1>8, <1>9, <1>10 DEF Lists

\* The table that notify leaves has the monitors of the list, in some order, and it is proper.
LEMMA AppliedIsList ==
  ASSUME NEW table \in Lists, ~ListRepeats(table), NEW ms \in Lists, ~ListRepeats(ms)
  PROVE  /\ Applied(table, ms) \in Lists
         /\ ~ListRepeats(Applied(table, ms))
         /\ SameMonitors(ms, Applied(table, ms))
<1> DEFINE a == Kept(table, ms)
           b == New(table, ms)
           all == a \o b
<1>1. /\ a \in Lists /\ Distinct(a)
      /\ \A j \in DOMAIN a : a[j] \in Range(ms) /\ a[j].id \in IdsOf(table)
      /\ \A k \in DOMAIN ms : ms[k].id \in IdsOf(table) => ms[k] \in Range(a)
  BY KeptRows
<1>2. /\ b \in Lists /\ Distinct(b)
      /\ \A j \in DOMAIN b : b[j] \in Range(ms) /\ b[j].id \notin IdsOf(table)
      /\ \A k \in DOMAIN ms : ms[k].id \notin IdsOf(table) => ms[k] \in Range(b)
  BY NewRows
<1>3. Applied(table, ms) = all
  BY DEF Applied, Kept, New
<1> HIDE DEF a, b
<1>4. /\ all \in Lists
      /\ Len(a) \in Nat /\ Len(b) \in Nat /\ DOMAIN a = 1..Len(a) /\ DOMAIN b = 1..Len(b)
      /\ DOMAIN all = 1..(Len(a) + Len(b))
      /\ \A k \in DOMAIN a : all[k] = a[k]
      /\ \A k \in DOMAIN b : all[Len(a) + k] = b[k]
  BY <1>1, <1>2 DEF Lists
<1> HIDE DEF all
<1>5. /\ \A k \in DOMAIN a : k \in DOMAIN all
      /\ \A k \in DOMAIN b : Len(a) + k \in DOMAIN all
      /\ \A k \in DOMAIN all : k \in DOMAIN a \/ \E j \in DOMAIN b : k = Len(a) + j
  <2>1. ASSUME NEW k \in DOMAIN all, k \notin DOMAIN a
        PROVE  \E j \in DOMAIN b : k = Len(a) + j
    <3>1. k - Len(a) \in 1..Len(b) /\ k = Len(a) + (k - Len(a))
      BY <1>4, <2>1
    <3> QED
      BY <1>4, <3>1
  <2> QED
    BY <1>4, <2>1
<1>6. Distinct(all)
  <2>1. ASSUME NEW j \in DOMAIN all, NEW k \in DOMAIN all, all[j].id = all[k].id
        PROVE  j = k
    <3>1. CASE j \in DOMAIN a /\ k \in DOMAIN a
      BY <1>1, <1>4, <2>1, <3>1 DEF Distinct
    <3>2. ASSUME NEW x \in DOMAIN b, NEW y \in DOMAIN b, j = Len(a) + x, k = Len(a) + y
          PROVE  j = k
      <4>1. b[x].id = b[y].id
        BY <1>4, <2>1, <3>2
      <4> QED
        BY <1>2, <3>2, <4>1 DEF Distinct
    <3>3. ASSUME NEW x \in DOMAIN a, NEW y \in DOMAIN b
          PROVE  all[x].id # all[Len(a) + y].id
      BY <1>1, <1>2, <1>4, <3>3
    <3> QED
      BY <1>5, <2>1, <3>1, <3>2, <3>3
  <2> QED
    BY <2>1 DEF Distinct
<1>7. \A k \in DOMAIN all : all[k] \in Range(ms)
  BY <1>1, <1>2, <1>4, <1>5
<1>8. ~ListRepeats(all)
  <2>1. \A k \in DOMAIN ms : ~MonitorRepeats(ms[k])
    BY ListProper
  <2>2. \A k \in DOMAIN all : ~MonitorRepeats(all[k])
    BY <1>7, <2>1 DEF Range
  <2> QED
    BY <1>4, <1>6, <2>2, ListProper
<1>9. Range(ms) \subseteq Range(all)
  <2>1. Range(a) \subseteq Range(all)
    BY <1>4, <1>5 DEF Range
  <2>2. Range(b) \subseteq Range(all)
    <3>1. \A k \in DOMAIN b : all[Len(a) + k] \in Range(all)
      BY <1>5 DEF Range
    <3> QED
      BY <1>4, <3>1 DEF Range
  <2>3. \A k \in DOMAIN ms : ms[k] \in Range(all)
    BY <1>1, <1>2, <2>1, <2>2
  <2> QED
    BY <2>3 DEF Range
<1>10. Range(all) \subseteq Range(ms)
  BY <1>7 DEF Range
<1> QED
  BY <1>3, <1>4, <1>8, <1>9, <1>10 DEF SameMonitors
-----------------------------------------------------------------------------
(* The inductive invariant *)

\* The driver's table and the commands' copies are proper; so is everything else until a
\* call lets duplicates in.
ProperLists ==
  /\ ~ListRepeats(driver)
  /\ \A c \in Shells : ~ListRepeats(list[c])
  /\ ~letIn => /\ ~ListRepeats(slot.list)
               /\ \A b \in pending : ~ListRepeats(b.list)
               /\ \A p \in Programs : ~ListRepeats(list[p]) /\ ~ListRepeats(watched[p])

\* A broadcast that shows what the driver has.
Shows(b) == ~b.overtaken /\ ~Refuses(b.list)

\* A list that no later one has overtaken is what the driver made of it, and if no such list
\* is still to be broadcast, this goes for the last broadcast too.
BroadcastIsDriver ==
  /\ \A b \in pending : Shows(b) => SameMonitors(b.list, driver)
  /\ Shows(slot) => SameMonitors(slot.list, driver) \/ \E b \in pending : Shows(b)

\* Only editors broadcast, and those who only listen keep what they receive.
ListenersFollow ==
  /\ \A b \in pending : b.from \in Editors
  /\ unread # {} => slot.from \in Editors
  /\ \A p \in Programs \ (Editors \cup unread) : watched[p] = slot.list

EditingInv == TypeOK /\ ProperLists /\ BroadcastIsDriver /\ ListenersFollow

LEMMA EditingStarts == CliInit => EditingInv
<1> SUFFICES ASSUME CliInit PROVE EditingInv
  OBVIOUS
<1>1. Start \in Lists /\ ~ListRepeats(Start)
  BY InputAssumption, StartAssumption DEF Refuses
<1>2. TypeOK
  <2>1. edits \in 0..MaxEdits
    BY EditingAssumption DEF CliInit, Init
  <2>2. last.ids \subseteq Ids /\ last.ok \in BOOLEAN
    BY DEF CliInit, Init
  <2>3. slot \in Broadcasts
    BY <1>1 DEF CliInit, Init, Broadcasts
  <2> QED
    BY <1>1, <2>1, <2>2, <2>3 DEF CliInit, Init, TypeOK
<1>3. ProperLists
  <2>1. Shells \subseteq Programs
    BY EditingAssumption, CommandLineAssumption
  <2> QED
    BY <1>1, <2>1 DEF CliInit, Init, ProperLists
<1>4. BroadcastIsDriver /\ ListenersFollow
  BY DEF CliInit, Init, BroadcastIsDriver, ListenersFollow, SameMonitors
<1> QED
  BY <1>2, <1>3, <1>4 DEF EditingInv

\* What every call leaves alone, and what it makes of the copy.
LEMMA CallMoves ==
  ASSUME EditingInv, NEW p \in Programs, NEW ids, NEW ok, NEW ms, Change(p, ids, ok, ms)
  PROVE  /\ driver' = driver /\ pending' = pending /\ slot' = slot /\ unread' = unread
         /\ watched' = watched
         /\ edits' \in 0..MaxEdits
         /\ last'.ids = ids /\ last'.ok = ok
         /\ list' = [list EXCEPT ![p] = ms]
         /\ list'[p] = ms
         /\ \A q \in Programs : q # p => list'[q] = list[q]
         /\ ms \in Lists => list' \in [Programs -> Lists]
<1>1. edits' \in 0..MaxEdits
  BY EditingAssumption DEF Change, EditingInv, TypeOK
<1>2. last'.ids = ids /\ last'.ok = ok
  BY DEF Change
<1>3. list' = [list EXCEPT ![p] = ms] /\ list \in [Programs -> Lists]
  BY DEF Change, EditingInv, TypeOK
<1> QED
  BY <1>1, <1>2, <1>3 DEF Change, driverVars

\* A call with a list that is proper where it must be.
LEMMA ChangeKeeps ==
  ASSUME EditingInv, NEW p \in Programs, NEW ids \in SUBSET Ids, NEW ok, NEW ms \in Lists,
         Change(p, ids, ok, ms), last'.ok \in BOOLEAN, letIn' \in {letIn, TRUE},
         p \in Shells \/ ~letIn' => ~ListRepeats(ms)
  PROVE  EditingInv'
<1>1. letIn \in BOOLEAN
  BY DEF EditingInv, TypeOK
<1>2. TypeOK'
  <2>1. last'.ids \subseteq Ids
    BY CallMoves
  <2> QED
    BY <1>1, <2>1, CallMoves DEF EditingInv, TypeOK
<1>3. ProperLists'
  <2>1. ASSUME NEW q \in Programs, ~ListRepeats(list[q]), q \in Shells \/ ~letIn'
        PROVE  ~ListRepeats(list'[q])
    BY <2>1, CallMoves
  <2>2. \A c \in Shells : ~ListRepeats(list'[c])
    BY <2>1, EditingAssumption, CommandLineAssumption DEF EditingInv, ProperLists
  <2>3. ~letIn' => ~letIn
    BY <1>1
  <2>4. ~letIn' => \A q \in Programs : ~ListRepeats(list'[q])
    BY <2>1, <2>3 DEF EditingInv, ProperLists
  <2> QED
    BY <2>2, <2>3, <2>4, CallMoves DEF EditingInv, ProperLists
<1>4. BroadcastIsDriver' /\ ListenersFollow'
  BY CallMoves DEF EditingInv, BroadcastIsDriver, ListenersFollow, Shows
<1> QED
  BY <1>2, <1>3, <1>4 DEF EditingInv

LEMMA EditedKeeps ==
  ASSUME EditingInv, NEW p \in Programs, Edited(p)
  PROVE  EditingInv'
<1>1. list[p] \in Lists /\ (p \in Shells \/ ~letIn => ~ListRepeats(list[p]))
  BY DEF EditingInv, TypeOK, ProperLists
<1>2. CASE Fails(p)
  <2> DEFINE no == FALSE
  <2>1. Change(p, {}, no, list[p]) /\ letIn' = letIn
    BY <1>2 DEF Fails, Call
  <2>2. last'.ok \in BOOLEAN
    BY <2>1 DEF Change
  <2> HIDE DEF no
  <2> QED
    BY <1>1, <2>1, <2>2, ChangeKeeps
<1>3. ASSUME NEW ids, NEW ms, GoodEdit(list[p], ids, ms), Call(p, ids, TRUE, ms)
      PROVE  EditingInv'
  <2>1. Change(p, ids, TRUE, ms) /\ letIn' = letIn
    BY <1>3 DEF Call
  <2>2. last'.ok \in BOOLEAN
    BY <2>1 DEF Change
  <2>3. ids \in SUBSET Ids /\ ms \in Lists /\ (~ListRepeats(list[p]) => ~ListRepeats(ms))
    BY <1>3 DEF GoodEdit, SameOthers
  <2> QED
    BY <1>1, <2>1, <2>2, <2>3, ChangeKeeps
<1> QED
  BY <1>2, <1>3 DEF Edited

LEMMA OthersKeep ==
  ASSUME EditingInv, NEW p \in Programs \ Shells, LetInto(p) \/ RefreshState(p)
  PROVE  EditingInv'
<1>1. CASE RefreshState(p)
  <2>1. Change(p, Ids, TRUE, watched[p]) /\ letIn' = letIn
    BY <1>1 DEF RefreshState, Succeeds, Call
  <2>2. last'.ok \in BOOLEAN
    BY <2>1 DEF Change
  <2>3. watched[p] \in Lists /\ (~letIn => ~ListRepeats(watched[p]))
    BY DEF EditingInv, TypeOK, ProperLists
  <2> QED
    BY <2>1, <2>2, <2>3, ChangeKeeps
<1>2. ASSUME NEW ids, NEW ok \in BOOLEAN, NEW ms, SameOthers(list[p], ids, ms),
             LetsIn(p, ids, ok, ms)
      PROVE  EditingInv'
  <2>1. Change(p, ids, ok, ms) /\ letIn' = TRUE
    BY <1>2 DEF LetsIn
  <2>2. last'.ok \in BOOLEAN
    BY <2>1 DEF Change
  <2>3. ids \in SUBSET Ids /\ ms \in Lists
    BY <1>2 DEF SameOthers
  <2> QED
    BY <2>1, <2>2, <2>3, ChangeKeeps
<1> QED
  BY <1>1, <1>2 DEF LetInto

LEMMA ApplyKeeps ==
  ASSUME EditingInv, NEW p \in Editors, Apply(p)
  PROVE  EditingInv'
<1> DEFINE own == [from |-> p, list |-> list[p], overtaken |-> FALSE]
           older == {[b EXCEPT !.overtaken = TRUE] : b \in pending}
<1>1. p \in Programs /\ list[p] \in Lists
  BY EditingAssumption DEF EditingInv, TypeOK
<1>2. /\ slot' = slot /\ unread' = unread /\ list' = list /\ watched' = watched
      /\ edits' = edits /\ last' = last /\ letIn' = letIn
  BY DEF Apply
<1>3. own \in Broadcasts /\ own.list = list[p] /\ own.from = p /\ ~own.overtaken
  BY <1>1 DEF Broadcasts
<1>4. /\ driver \in Lists /\ ~ListRepeats(driver) /\ pending \subseteq Broadcasts
      /\ ~letIn => ~ListRepeats(list[p])
  BY <1>1 DEF EditingInv, TypeOK, ProperLists
<1>5. \A b \in older : \E o \in pending :
        b \in Broadcasts /\ b.overtaken /\ b.list = o.list /\ b.from = o.from
  BY <1>4 DEF Broadcasts
<1> HIDE DEF own, older
<1>6. ASSUME driver' \in Lists, ~ListRepeats(driver'),
             pending' = pending \cup {own} \/ pending' = older \cup {own}
      PROVE  TypeOK' /\ ProperLists' /\ ListenersFollow'
  <2>1. \A b \in pending' : /\ b \in Broadcasts
                            /\ b = own \/ \E o \in pending : b.list = o.list /\ b.from = o.from
    BY <1>3, <1>4, <1>5, <1>6
  <2>2. TypeOK'
    <3>1. last'.ids \subseteq Ids /\ last'.ok \in BOOLEAN
      BY <1>2 DEF EditingInv, TypeOK
    <3> QED
      BY <1>2, <1>6, <2>1, <3>1 DEF EditingInv, TypeOK
  <2>3. ProperLists'
    <3>1. ~letIn' => \A b \in pending' : ~ListRepeats(b.list)
      BY <1>2, <1>3, <1>4, <2>1 DEF EditingInv, ProperLists
    <3> QED
      BY <1>2, <1>6, <3>1 DEF EditingInv, ProperLists
  <2>4. ListenersFollow'
    <3>1. \A b \in pending' : b.from \in Editors
      BY <1>3, <2>1 DEF EditingInv, ListenersFollow
    <3> QED
      BY <1>2, <3>1 DEF EditingInv, ListenersFollow
  <2> QED
    BY <2>2, <2>3, <2>4
<1>7. CASE Refuses(list[p]) /\ pending' = pending \cup {own} /\ driver' = driver
  <2>1. TypeOK' /\ ProperLists' /\ ListenersFollow'
    BY <1>4, <1>6, <1>7
  <2>2. BroadcastIsDriver'
    BY <1>2, <1>3, <1>7 DEF EditingInv, BroadcastIsDriver, Shows
  <2> QED
    BY <2>1, <2>2 DEF EditingInv
<1>8. CASE /\ ~Refuses(list[p]) /\ pending' = older \cup {own}
           /\ driver' = Applied(driver, list[p])
  <2>1. driver' \in Lists /\ ~ListRepeats(driver') /\ SameMonitors(list[p], driver')
    BY <1>1, <1>4, <1>8, AppliedIsList DEF Refuses
  <2>2. TypeOK' /\ ProperLists' /\ ListenersFollow'
    BY <1>6, <1>8, <2>1
  <2>3. Shows(own) /\ own \in pending'
    BY <1>3, <1>8 DEF Shows
  <2>4. \A b \in pending' : Shows(b) => b = own
    BY <1>5, <1>8 DEF Shows
  <2>5. BroadcastIsDriver'
    BY <1>3, <2>1, <2>3, <2>4 DEF BroadcastIsDriver, Shows
  <2> QED
    BY <2>2, <2>5 DEF EditingInv
<1> QED
  BY <1>7, <1>8 DEF Apply, own, older

LEMMA BroadcastKeeps ==
  ASSUME EditingInv, NEW b \in pending, Broadcast(b)
  PROVE  EditingInv'
<1>1. /\ driver' = driver /\ pending' = pending \ {b} /\ slot' = b /\ unread' = Programs
      /\ list' = list /\ watched' = watched /\ edits' = edits /\ last' = last /\ letIn' = letIn
  BY DEF Broadcast
<1>2. TypeOK'
  <2>1. last'.ok \in BOOLEAN /\ last'.ids \subseteq Ids
    BY <1>1 DEF EditingInv, TypeOK
  <2> QED
    BY <1>1, <2>1 DEF EditingInv, TypeOK
<1>3. ProperLists'
  BY <1>1 DEF EditingInv, ProperLists
<1>4. BroadcastIsDriver'
  BY <1>1 DEF EditingInv, BroadcastIsDriver, Shows
<1>5. ListenersFollow'
  BY <1>1 DEF EditingInv, ListenersFollow
<1> QED
  BY <1>2, <1>3, <1>4, <1>5 DEF EditingInv

LEMMA DeliverKeeps ==
  ASSUME EditingInv, NEW p \in Programs, Deliver(p)
  PROVE  EditingInv'
<1>1. /\ driver' = driver /\ pending' = pending /\ slot' = slot /\ unread' = unread \ {p}
      /\ list' = list /\ edits' = edits /\ last' = last /\ letIn' = letIn
      /\ p \in unread
  BY DEF Deliver
<1>2. slot.list \in Lists /\ (~letIn => ~ListRepeats(slot.list))
  BY DEF EditingInv, TypeOK, ProperLists, Broadcasts
<1>3. /\ watched' \in [Programs -> Lists]
      /\ watched'[p] = IF slot.from = p THEN watched[p] ELSE slot.list
      /\ \A q \in Programs : q # p => watched'[q] = watched[q]
  BY <1>2 DEF EditingInv, TypeOK, Deliver
<1>4. TypeOK'
  <2>1. last'.ok \in BOOLEAN /\ last'.ids \subseteq Ids
    BY <1>1 DEF EditingInv, TypeOK
  <2> QED
    BY <1>1, <1>3, <2>1 DEF EditingInv, TypeOK
<1>5. ProperLists'
  BY <1>1, <1>2, <1>3 DEF EditingInv, ProperLists
<1>6. BroadcastIsDriver'
  BY <1>1 DEF EditingInv, BroadcastIsDriver, Shows
<1>7. ListenersFollow'
  <2>1. ASSUME NEW q \in Programs \ (Editors \cup unread')
        PROVE  watched'[q] = slot'.list
    <3>1. CASE q = p
      BY <1>1, <1>3, <2>1, <3>1 DEF EditingInv, ListenersFollow
    <3>2. CASE q # p
      BY <1>1, <1>3, <2>1, <3>2 DEF EditingInv, ListenersFollow
    <3> QED
      BY <3>1, <3>2
  <2>2. slot.from \in Editors
    BY <1>1 DEF EditingInv, ListenersFollow
  <2> QED
    BY <1>1, <2>1, <2>2 DEF EditingInv, ListenersFollow
<1> QED
  BY <1>4, <1>5, <1>6, <1>7 DEF EditingInv

LEMMA ConnectKeeps ==
  ASSUME EditingInv, NEW p \in Programs, Connect(p)
  PROVE  EditingInv'
<1>1. /\ driver' = driver /\ pending' = pending /\ slot' = slot /\ unread' = unread
      /\ watched' = watched /\ edits' = edits /\ last' = last /\ letIn' = letIn
      /\ list' = [list EXCEPT ![p] = driver]
  BY DEF Connect, driverVars
<1>2. list' \in [Programs -> Lists] /\ \A q \in Programs : list'[q] \in {list[q], driver}
  BY <1>1 DEF EditingInv, TypeOK
<1>3. TypeOK'
  <2>1. last'.ok \in BOOLEAN /\ last'.ids \subseteq Ids
    BY <1>1 DEF EditingInv, TypeOK
  <2> QED
    BY <1>1, <1>2, <2>1 DEF EditingInv, TypeOK
<1>4. ProperLists'
  <2>1. Shells \subseteq Programs
    BY EditingAssumption, CommandLineAssumption
  <2> QED
    BY <1>1, <1>2, <2>1 DEF EditingInv, ProperLists
<1>5. BroadcastIsDriver' /\ ListenersFollow'
  BY <1>1 DEF EditingInv, BroadcastIsDriver, ListenersFollow, Shows
<1> QED
  BY <1>3, <1>4, <1>5 DEF EditingInv

LEMMA UnchangedKeeps ==
  ASSUME EditingInv, UNCHANGED vars
  PROVE  EditingInv'
<1>1. TypeOK'
  <2>1. last'.ok \in BOOLEAN /\ last'.ids \subseteq Ids
    BY DEF EditingInv, TypeOK, vars
  <2> QED
    BY <2>1 DEF EditingInv, TypeOK, vars
<1>2. ProperLists' /\ BroadcastIsDriver' /\ ListenersFollow'
  BY DEF EditingInv, ProperLists, BroadcastIsDriver, ListenersFollow, Shows, vars
<1> QED
  BY <1>1, <1>2 DEF EditingInv

\* Every step is a call, one half of what the driver does with a list, a delivery, a
\* connection, or none that matters here.
LEMMA Steps ==
  ASSUME EditingInv, [CliNext]_cliVars
  PROVE  \/ \E p \in Programs : Edited(p) \/ Deliver(p) \/ Connect(p)
         \/ \E p \in Programs \ Shells : LetInto(p) \/ RefreshState(p)
         \/ \E p \in Editors : Apply(p)
         \/ \E b \in pending : Broadcast(b)
         \/ UNCHANGED vars
<1>1. Shells \subseteq Editors /\ Editors \subseteq Programs
  BY EditingAssumption, CommandLineAssumption
<1>2. \A p \in Programs : CopyTyped(p)
  BY DEF EditingInv, TypeOK, CopyTyped
<1>3. ASSUME NEW p \in Editors \ Shells, Edit(p)
      PROVE  p \in Programs \ Shells /\ (Edited(p) \/ LetInto(p) \/ RefreshState(p))
  BY <1>1, <1>2, <1>3, ProgramEdits
<1>4. ASSUME NEW c \in Shells, Command(c)
      PROVE  Edited(c) /\ c \in Programs
  <2>1. ~ListRepeats(list[c])
    BY DEF EditingInv, ProperLists
  <2> QED
    BY <1>1, <1>2, <1>4, <2>1, CommandEdits DEF Command
<1>5. ASSUME NEW c \in Shells, Connect(c) \/ ListOrPersist(c) \/ Report(c)
      PROVE  Connect(c) \/ Apply(c) \/ UNCHANGED vars
  BY <1>5 DEF ListOrPersist, Report
<1>6. CASE UNCHANGED cliVars
  BY <1>6 DEF cliVars
<1>7. CASE CliNext
  BY <1>1, <1>3, <1>4, <1>5, <1>7 DEF CliNext
<1> QED
  BY <1>6, <1>7

LEMMA EditingKept ==
  ASSUME EditingInv, [CliNext]_cliVars
  PROVE  EditingInv'
<1>1. ASSUME NEW p \in Programs, Edited(p) PROVE EditingInv'
  BY <1>1, EditedKeeps
<1>2. ASSUME NEW p \in Programs, Deliver(p) \/ Connect(p) PROVE EditingInv'
  BY <1>2, DeliverKeeps, ConnectKeeps
<1>3. ASSUME NEW p \in Programs \ Shells, LetInto(p) \/ RefreshState(p) PROVE EditingInv'
  BY <1>3, OthersKeep
<1>4. ASSUME NEW p \in Editors, Apply(p) PROVE EditingInv'
  BY <1>4, ApplyKeeps
<1>5. ASSUME NEW b \in pending, Broadcast(b) PROVE EditingInv'
  BY <1>5, BroadcastKeeps
<1>6. CASE UNCHANGED vars
  BY <1>6, UnchangedKeeps
<1> QED
  BY <1>1, <1>2, <1>3, <1>4, <1>5, <1>6, Steps
-----------------------------------------------------------------------------
(* Theorems *)

\* However programs and runs of the command line client interleave their calls, and the driver
\* the two halves of what it does with their lists: its table and the commands' copies have no
\* duplicates, nor has any list while no program has used the two calls that let them in; and
\* a list that was not overtaken between the halves is what the driver made of it.
THEOREM EditingInvariant == CliSpec => []EditingInv
<1>1. CliInit => EditingInv
  BY EditingStarts
<1>2. EditingInv /\ [CliNext]_cliVars => EditingInv'
  BY EditingKept
<1> QED
  BY <1>1, <1>2, PTL DEF CliSpec

\* The checks of DriverClient are never weaker than the driver's: only replace_monitor and
\* find_monitor_mut bring about a list that it refuses, and never in a command.
THEOREM NeverRefusedEver == CliSpec => []NeverRefused
<1>1. EditingInv => NeverRefused
  BY DEF EditingInv, ProperLists, NeverRefused, Refuses
<1> QED
  BY <1>1, EditingInvariant, PTL

\* A program that only listens refreshes to the driver's monitors once all is delivered, for
\* any number of editors, unless two broadcasts were reordered or the last list was refused.
THEOREM ListenerAlwaysCurrent == CliSpec => []ListenerIsCurrent
<1>1. EditingInv => ListenerIsCurrent
  BY DEF EditingInv, BroadcastIsDriver, ListenersFollow, ListenerIsCurrent, Shows
<1> QED
  BY <1>1, EditingInvariant, PTL

\* A call about some monitors leaves all others of the copy, and their order, as they were; a
\* failed call leaves all, but for the monitor that find_monitor_mut's closure changed; and
\* no call changes the copy of another program.
THEOREM OnlyNamedRowsEver == CliSpec => OnlyNamedRowsChange
<1> DEFINE Named ==
      \A q \in Programs :
        /\ Without(list'[q], last'.ids) = Without(list[q], last'.ids)
        /\ ~last'.ok => OthersInPlace(list[q], list'[q], last'.ids)
<1>1. ASSUME EditingInv, NEW p \in Programs, NEW ids, NEW ok, NEW ms, Change(p, ids, ok, ms),
             Without(ms, ids) = Without(list[p], ids),
             ~ok => OthersInPlace(list[p], ms, ids)
      PROVE  Named
  <2>1. last'.ok = ok /\ last'.ids = ids /\ list'[p] = ms
    BY <1>1, CallMoves
  <2>2. \A q \in Programs : q # p => list'[q] = list[q]
    BY <1>1, CallMoves
  <2>3. \A q \in Programs : OthersInPlace(list[q], list[q], ids)
    BY DEF OthersInPlace
  <2> QED
    BY <1>1, <2>1, <2>2, <2>3
<1> HIDE DEF Named
<1>2. ASSUME EditingInv, NEW p \in Programs, Edited(p)
      PROVE  Named
  <2>1. CASE Fails(p)
    <3> DEFINE no == FALSE
    <3>1. Change(p, {}, no, list[p]) /\ OthersInPlace(list[p], list[p], {})
      BY <2>1 DEF Fails, Call, OthersInPlace
    <3> HIDE DEF no
    <3> QED
      BY <1>1, <1>2, <3>1
  <2>2. ASSUME NEW ids, NEW ms, GoodEdit(list[p], ids, ms), Call(p, ids, TRUE, ms)
        PROVE  Named
    BY <1>1, <1>2, <2>2 DEF GoodEdit, SameOthers, Call
  <2> QED
    BY <1>2, <2>1, <2>2 DEF Edited
<1>3. ASSUME EditingInv, NEW p \in Programs, LetInto(p)
      PROVE  Named
  BY <1>1, <1>3 DEF LetInto, SameOthers, LetsIn
<1>4. ASSUME EditingInv, NEW p \in Programs, RefreshState(p)
      PROVE  Named
  <2>1. list[p] \in Lists /\ watched[p] \in Lists
    BY <1>4 DEF EditingInv, TypeOK
  <2>2. Without(watched[p], Ids) = Without(list[p], Ids)
    BY <2>1, NoneWithoutIds
  <2>3. Change(p, Ids, TRUE, watched[p])
    BY <1>4 DEF RefreshState, Succeeds, Call
  <2> QED
    BY <1>1, <1>4, <2>2, <2>3
<1>5. EditingInv /\ [CliNext]_cliVars => [edits' # edits => Named]_vars
  <2>1. ASSUME NEW p, Apply(p) \/ Deliver(p) \/ Connect(p)
        PROVE  edits' = edits
    BY <2>1 DEF Apply, Deliver, Connect
  <2>2. ASSUME NEW b, Broadcast(b)
        PROVE  edits' = edits
    BY <2>2 DEF Broadcast
  <2>3. UNCHANGED vars => edits' = edits
    BY DEF vars
  <2> QED
    BY <1>2, <1>3, <1>4, <2>1, <2>2, <2>3, Steps
<1>6. EditingInv /\ [CliNext]_cliVars =>
        [edits' # edits =>
           \A p \in Programs :
             /\ Without(list'[p], last'.ids) = Without(list[p], last'.ids)
             /\ ~last'.ok => OthersInPlace(list[p], list'[p], last'.ids)]_vars
  BY <1>5 DEF Named
<1> QED
  BY <1>6, EditingInvariant, PTL DEF CliSpec, OnlyNamedRowsChange

\* Lists, broadcasts and what a call leaves behind always have their types.
THEOREM EditingTypes == CliSpec => []TypeOK
<1>1. EditingInv => TypeOK
  BY DEF EditingInv
<1> QED
  BY <1>1, EditingInvariant, PTL
-----------------------------------------------------------------------------
(* The session service *)

ListTypes ==
  /\ user \in [Sessions -> UsersOf \cup {None}]
  /\ at = [t \in Threads |-> at[t]]
  /\ token = [t \in Threads |-> token[t]]
  /\ as = [t \in Threads |-> as[t]]
  /\ data = [t \in Threads |-> data[t]]
  /\ hive \in UsersOf \cup {None}

\* A thread reads as a user, and what it read is in the settings mapped then or is empty.
UserList(t) ==
  /\ at[t] = "impersonate" => token[t] \in UsersOf
  /\ at[t] = "read" => as[t] \in UsersOf
  /\ at[t] \in {"connect", "send"} => hive # None /\ data[t] \in {hive, Empty}

ListInv == ListTypes /\ \A t \in Threads : UserList(t)

LEMMA ListInit == SessionInit => ListInv
BY DEF SessionInit, ListInv, ListTypes, UserList

\* A step of the service on one thread leaves what the other has read alone, and the
\* settings once they are mapped.
OneThread(t) ==
  /\ ListTypes'
  /\ hive # None => hive' = hive
  /\ \A u \in Threads \ {t} :
       at'[u] = at[u] /\ token'[u] = token[u] /\ as'[u] = as[u] /\ data'[u] = data[u]

LEMMA OneThreadSteps ==
  ASSUME ListInv, NEW t \in Threads, OneThread(t), UserList(t)'
  PROVE  ListInv'
<1>1. ASSUME NEW u \in Threads, u # t
      PROVE  UserList(u)'
  BY <1>1 DEF ListInv, OneThread, UserList
<1> QED
  BY <1>1 DEF ListInv, OneThread

\* The handler and run_service only send a thread on to ask for a token or to remove all.
LEMMA ThreadSent ==
  ASSUME ListInv, NEW t \in Threads, NEW l \in {"idle", "token", "removeAll"},
         at' = [at EXCEPT ![t] = l], UNCHANGED <<user, token, as, hive, data>>
  PROVE  ListInv'
<1>1. OneThread(t)
  BY DEF ListInv, ListTypes, OneThread
<1>2. at'[t] = l
  BY DEF ListInv, ListTypes
<1>3. UserList(t)'
  BY <1>2 DEF UserList
<1> QED
  BY <1>1, <1>3, OneThreadSteps

LEMMA ReadListStep ==
  ASSUME ListInv, NEW t \in Threads, ReadList(t)
  PROVE  ListInv'
<1>1. ListTypes /\ at[t] = "read" /\ as[t] \in UsersOf
  BY DEF ListInv, UserList, ReadList
<1>2. /\ hive' \in UsersOf
      /\ hive # None => hive' = hive
  BY <1>1 DEF ListTypes, ReadList
<1>3. UNCHANGED <<user, token, as>>
  BY DEF ReadList, systemVars
<1>4. CASE Goto(t, "idle") /\ UNCHANGED data
  <2>1. OneThread(t)
    BY <1>1, <1>2, <1>3, <1>4 DEF ListTypes, OneThread, Goto
  <2>2. at'[t] = "idle"
    BY <1>1, <1>4 DEF ListTypes, Goto
  <2>3. UserList(t)'
    BY <2>2 DEF UserList
  <2> QED
    BY <2>1, <2>3, OneThreadSteps
<1>5. ASSUME Goto(t, "connect"), NEW l \in {hive', Empty}, data' = [data EXCEPT ![t] = l]
      PROVE  ListInv'
  <2>1. OneThread(t)
    BY <1>1, <1>2, <1>3, <1>5 DEF ListTypes, OneThread, Goto
  <2>2. at'[t] = "connect" /\ data'[t] = l
    BY <1>1, <1>5 DEF ListTypes, Goto
  <2>3. UserList(t)'
    BY <1>2, <2>2, SessionServiceAssumption DEF UserList
  <2> QED
    BY <2>1, <2>3, OneThreadSteps
<1> QED
  BY <1>4, <1>5 DEF ReadList

LEMMA ServiceThreadSteps ==
  ASSUME ListInv, NEW t \in Threads, ServiceThread(t)
  PROVE  ListInv'
<1>1. ListTypes /\ UserList(t)
  BY DEF ListInv
<1>2. CASE RemoveMonitors(t) \/ GiveUp(t) \/ Send(t)
  <2>1. at' = [at EXCEPT ![t] = "idle"] /\ UNCHANGED <<user, token, as, hive, data>>
    BY <1>2 DEF RemoveMonitors, GiveUp, Send, Goto, systemVars
  <2> QED
    BY <2>1, ThreadSent
<1>3. CASE QueryToken(t)
  <2>1. /\ at' = [at EXCEPT ![t] = "impersonate"] /\ UNCHANGED <<user, as, hive, data>>
        /\ token' = [token EXCEPT ![t] = user[latest[t]]]
        /\ user[latest[t]] \in UsersOf
    BY <1>1, <1>3 DEF QueryToken, Goto, ListTypes, systemVars
  <2>2. OneThread(t)
    BY <1>1, <2>1 DEF ListTypes, OneThread
  <2>3. at'[t] = "impersonate" /\ token'[t] \in UsersOf
    BY <1>1, <2>1 DEF ListTypes
  <2>4. UserList(t)'
    BY <2>3 DEF UserList
  <2> QED
    BY <2>2, <2>4, OneThreadSteps
<1>4. CASE Impersonate(t)
  <2>1. /\ at[t] = "impersonate"
        /\ at' = [at EXCEPT ![t] = "read"] /\ as' = [as EXCEPT ![t] = token[t]]
        /\ UNCHANGED <<user, token, hive, data>>
    BY <1>4 DEF Impersonate, Goto, systemVars
  <2>2. OneThread(t)
    BY <1>1, <2>1 DEF ListTypes, OneThread
  <2>3. at'[t] = "read" /\ as'[t] \in UsersOf
    BY <1>1, <2>1 DEF ListTypes, UserList
  <2>4. UserList(t)'
    BY <2>3 DEF UserList
  <2> QED
    BY <2>2, <2>4, OneThreadSteps
<1>5. CASE ConnectDriver(t)
  <2>1. /\ at[t] = "connect" /\ at' = [at EXCEPT ![t] = "send"]
        /\ UNCHANGED <<user, token, as, hive, data>>
    BY <1>5 DEF ConnectDriver, Goto, systemVars
  <2>2. OneThread(t)
    BY <1>1, <2>1 DEF ListTypes, OneThread
  <2>3. at'[t] = "send" /\ hive' # None /\ data'[t] \in {hive', Empty}
    BY <1>1, <2>1 DEF ListTypes, UserList
  <2>4. UserList(t)'
    BY <2>3 DEF UserList
  <2> QED
    BY <2>2, <2>4, OneThreadSteps
<1> QED
  BY <1>2, <1>3, <1>4, <1>5, ReadListStep DEF ServiceThread

LEMMA ListStep ==
  ASSUME ListInv, [SessionNext]_sessionVars
  PROVE  ListInv'
<1>1. ASSUME UNCHANGED <<at, token, as, hive, data>>, user' \in [Sessions -> UsersOf \cup {None}]
      PROVE  ListInv'
  BY <1>1 DEF ListInv, ListTypes, UserList
<1>2. user \in [Sessions -> UsersOf \cup {None}]
  BY DEF ListInv, ListTypes
<1>3. CASE Environment
  <2>1. user' \in [Sessions -> UsersOf \cup {None}]
    BY <1>2, <1>3
    DEF Environment, Logon, Reconnect, Logoff, StopService, ServePipe, systemVars
  <2>2. UNCHANGED <<at, token, as, hive, data>>
    BY <1>3 DEF Environment, Logon, Reconnect, Logoff, StopService, ServePipe, serviceVars
  <2> QED
    BY <1>1, <2>1, <2>2
<1>4. "control" \in Threads /\ "main" \in Threads
  BY DEF Threads
<1>5. CASE HandleStop \/ HandleLogon \/ HandleLogoff
  <2>1. /\ UNCHANGED <<user, token, as, hive, data>>
        /\ \/ UNCHANGED at
           \/ \E l \in {"token", "removeAll"} : at' = [at EXCEPT !["control"] = l]
    BY <1>5 DEF HandleStop, HandleLogon, HandleLogoff
  <2> QED
    BY <1>1, <1>2, <1>4, <2>1, ThreadSent
<1>6. CASE StartService \/ NotifyConsole \/ Shutdown
  <2>1. /\ UNCHANGED <<user, token, as, hive, data>>
        /\ UNCHANGED at \/ at' = [at EXCEPT !["main"] = "token"]
    BY <1>6 DEF StartService, NotifyConsole, Shutdown, systemVars
  <2> QED
    BY <1>1, <1>2, <1>4, <2>1, ThreadSent
<1>7. CASE UNCHANGED sessionVars
  BY <1>1, <1>2, <1>7 DEF sessionVars
<1> QED
  BY <1>3, <1>5, <1>6, <1>7, ServiceThreadSteps DEF SessionNext

\* For any number of users, sessions and events, in any order and with any call failing, a
\* list the service sends is empty or that of the one user whose settings its process has
\* mapped, and that is never the account of the service (service.rs:143 to 190).
THEOREM FirstUsersListEver == SessionSpec => []FirstUsersList
<1>1. ListInv => FirstUsersList
  BY SessionServiceAssumption DEF ListInv, ListTypes, UserList, FirstUsersList
<1> QED
  BY <1>1, ListInit, ListStep, PTL DEF SessionSpec
=============================================================================
