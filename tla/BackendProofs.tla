----------------------------- MODULE BackendProofs -----------------------------
(***************************************************************************)
(* Reads that take several queries, for tables and pages of any size: the  *)
(* eight counts of the dashboard, between which requests change, and the   *)
(* pages of a catalogue, each of which orders its equal rows anew.  Last,  *)
(* that sessions, settings, dashboard and catalogue keep to themselves.    *)
(***************************************************************************)
EXTENDS MCBackend, SettingsProofs, FiniteSetTheorems, TLAPS

USE DashboardAssumption

----------------------------------------------------------------------------
(* The dashboard. *)

\* What a query has counted, or would count now.
Value(i) == IF i < next THEN count[i] ELSE Cardinality(Of(Counts[i]))

Near(m, n) == m <= n + changes /\ n <= m + changes

\* The three equations of CountsDriftByChanges, over counts taken and to come.
Drift ==
    /\ Near(Value(1), Value(2) + Value(3) + Value(4) + deleted)
    /\ Near(Value(2), Value(5) + Value(6))
    /\ Near(Value(5) + Value(6), Value(7) + Value(8))

Is(x, S) == IF x \in S THEN 1 ELSE 0

\* Two sets that differ in one element at most.
LEMMA OneElement ==
  ASSUME NEW S, NEW T, IsFiniteSet(S), IsFiniteSet(T), NEW x, S \ {x} = T \ {x}
  PROVE  Cardinality(S) + Is(x, T) = Cardinality(T) + Is(x, S)
  <1>1. /\ Cardinality(S) \in Nat /\ Cardinality(T) \in Nat
    BY FS_CardinalityType
  <1>2. Cardinality(S \ {x}) = IF x \in S THEN Cardinality(S) - 1 ELSE Cardinality(S)
    BY FS_RemoveElement
  <1>3. Cardinality(T \ {x}) = IF x \in T THEN Cardinality(T) - 1 ELSE Cardinality(T)
    BY FS_RemoveElement
  <1> QED
    BY <1>1, <1>2, <1>3 DEF Is

\* The sets that the eight queries count.
With(status) == {x \in DOMAIN requests : requests[x].status = status}
On(cloud) == {x \in With("Approved") : requests[x].cloud = cloud}

QueriesAre ==
  /\ Of(Counts[1]) = DOMAIN requests
  /\ Of(Counts[2]) = With("Approved")
  /\ Of(Counts[3]) = With("Rejected")
  /\ Of(Counts[4]) = With("Pending")
  /\ Of(Counts[5]) = On("AWS") /\ Of(Counts[8]) = On("AWS")
  /\ Of(Counts[6]) = On("AZURE") /\ Of(Counts[7]) = On("AZURE")

LEMMA Queries == QueriesAre
  <1>1. /\ Counts[1] = "total" /\ Counts[2] = "approved" /\ Counts[3] = "declined"
        /\ Counts[4] = "pending" /\ Counts[5] = "groupsAWS" /\ Counts[6] = "groupsAZURE"
        /\ Counts[7] = "vmsAZURE" /\ Counts[8] = "vmsAWS"
    BY DEF Counts
  <1> QED
    BY <1>1 DEF QueriesAre, Of, With, On

QueriesFinite ==
    \A i \in 1..8 : IsFiniteSet(Of(Counts[i]))

LEMMA Finite ==
  ASSUME DashboardTypeOK
  PROVE  /\ IsFiniteSet(DOMAIN requests)
         /\ \A s \in Status : IsFiniteSet(With(s))
         /\ \A c \in Clouds : IsFiniteSet(On(c))
  <1>1. DOMAIN requests \in SUBSET Slots
    BY DEF DashboardTypeOK
  <1>2. IsFiniteSet(DOMAIN requests)
    BY <1>1, FS_Subset
  <1>3. \A s : With(s) \in SUBSET DOMAIN requests
    BY DEF With
  <1>4. \A c : On(c) \in SUBSET DOMAIN requests
    BY DEF On, With
  <1> QED
    BY <1>2, <1>3, <1>4, FS_Subset

\* With no query between, the counts agree: every row has one status and one cloud.
LEMMA Partition ==
  ASSUME DashboardTypeOK
  PROVE  /\ Cardinality(DOMAIN requests)
              = Cardinality(With("Approved")) + Cardinality(With("Rejected"))
                + Cardinality(With("Pending")) + Cardinality(With("Deleted"))
         /\ Cardinality(With("Approved")) = Cardinality(On("AWS")) + Cardinality(On("AZURE"))
  <1>0. requests \in [DOMAIN requests -> Row]
    BY DEF DashboardTypeOK
  <1>1. ASSUME NEW S, NEW T, IsFiniteSet(S), IsFiniteSet(T), S \cap T = {}
        PROVE  Cardinality(S \cup T) = Cardinality(S) + Cardinality(T) /\ IsFiniteSet(S \cup T)
    <2>1. Cardinality(S) \in Nat /\ Cardinality(T) \in Nat /\ Cardinality({}) = 0
      BY <1>1, FS_CardinalityType, FS_EmptySet
    <2> QED
      BY <1>1, <2>1, FS_Union
  <1>2. /\ With("Approved") \cap With("Rejected") = {}
        /\ (With("Approved") \cup With("Rejected")) \cap With("Pending") = {}
        /\ (With("Approved") \cup With("Rejected") \cup With("Pending")) \cap With("Deleted") = {}
    BY DEF With
  <1>3. With("Approved") \cup With("Rejected") \cup With("Pending") \cup With("Deleted")
          = DOMAIN requests
    BY <1>0 DEF With, Row, Status
  <1>4. On("AWS") \cap On("AZURE") = {} /\ On("AWS") \cup On("AZURE") = With("Approved")
    BY <1>0 DEF On, With, Row, Clouds
  <1>5. /\ \A s \in {"Approved", "Rejected", "Pending", "Deleted"} : IsFiniteSet(With(s))
        /\ IsFiniteSet(On("AWS")) /\ IsFiniteSet(On("AZURE"))
    BY Finite DEF Status, Clouds
  <1> DEFINE Two == With("Approved") \cup With("Rejected")
             Three == Two \cup With("Pending")
  <1>6. /\ Cardinality(Two) = Cardinality(With("Approved")) + Cardinality(With("Rejected"))
        /\ IsFiniteSet(Two)
    BY <1>1, <1>2, <1>5
  <1>7. /\ Cardinality(Three) = Cardinality(Two) + Cardinality(With("Pending"))
        /\ IsFiniteSet(Three)
    BY <1>1, <1>2, <1>5, <1>6
  <1>8. Cardinality(Three \cup With("Deleted"))
          = Cardinality(Three) + Cardinality(With("Deleted"))
    BY <1>1, <1>2, <1>5, <1>7
  <1> QED
    BY <1>1, <1>3, <1>4, <1>5, <1>6, <1>7, <1>8

LEMMA DashboardInitHolds == DashboardInit => DashboardTypeOK /\ Drift
  <1> SUFFICES ASSUME DashboardInit PROVE DashboardTypeOK /\ Drift
    OBVIOUS
  <1>1. /\ next = 1 /\ changes = 0 /\ count = <<>>
        /\ deleted = Cardinality(With("Deleted"))
    BY DEF DashboardInit, With
  <1>2. PICK live \in SUBSET Slots : requests \in [live -> Row]
    BY DEF DashboardInit
  <1>3. IsFiniteSet(live) /\ DOMAIN requests = live
    BY <1>2, FS_Subset
  <1>4. deleted \in Nat
    <2>1. With("Deleted") \in SUBSET live
      BY <1>3 DEF With
    <2> QED
      BY <1>1, <1>3, <2>1, FS_Subset, FS_CardinalityType
  <1>5. DashboardTypeOK
    BY <1>1, <1>2, <1>4 DEF DashboardTypeOK
  <1>6. \A i \in 1..8 : Value(i) = Cardinality(Of(Counts[i]))
    BY <1>1 DEF Value
  <1>7. /\ \A s \in Status : Cardinality(With(s)) \in Nat
        /\ \A c \in Clouds : Cardinality(On(c)) \in Nat
    BY <1>5, Finite, FS_CardinalityType
  <1>8. Drift
    BY <1>1, <1>5, <1>6, <1>7, Partition, Queries DEF QueriesAre, Drift, Near, Status, Clouds
  <1> QED
    BY <1>5, <1>8

LEMMA ValueTypes ==
  ASSUME DashboardTypeOK, NEW i \in 1..8
  PROVE  Value(i) \in Nat
  <1>1. CASE i < next
    BY <1>1 DEF Value, DashboardTypeOK
  <1>2. CASE ~(i < next)
    <2>1. IsFiniteSet(Of(Counts[i]))
      BY Finite, Queries DEF QueriesAre, Status, Clouds
    <2> QED
      BY <1>2, <2>1, FS_CardinalityType DEF Value
  <1> QED
    BY <1>1, <1>2

\* A query fixes what it would have counted before.
LEMMA CountStep ==
  ASSUME DashboardTypeOK, Drift, CountNext
  PROVE  DashboardTypeOK' /\ Drift'
  <1>1. /\ next \in 1..8 /\ next' = next + 1
        /\ count' = [i \in 1..next |->
                        IF i = next THEN Cardinality(Of(Counts[next])) ELSE count[i]]
        /\ UNCHANGED <<requests, changes, deleted>>
    BY DEF CountNext, DashboardTypeOK
  <1>2. Cardinality(Of(Counts[next])) \in Nat
    BY <1>1, ValueTypes DEF Value
  <1>3. DashboardTypeOK'
    BY <1>1, <1>2 DEF DashboardTypeOK
  <1>4. ASSUME NEW i \in 1..8 PROVE Value(i)' = Value(i)
    <2>1. Of(Counts[i])' = Of(Counts[i])
      BY <1>1 DEF Of
    <2>2. CASE i < next
      BY <1>1, <2>2 DEF Value
    <2>3. CASE i = next
      BY <1>1, <2>3 DEF Value
    <2>4. CASE i > next
      BY <1>1, <2>1, <2>4 DEF Value
    <2> QED
      BY <1>1, <2>2, <2>3, <2>4
  <1> QED
    BY <1>1, <1>3, <1>4 DEF Drift, Near

\* A change makes a row, takes one, or gives one another status.
LEMMA ChangeOfOne ==
  ASSUME DashboardTypeOK, RequestChanges
  PROVE  /\ DashboardTypeOK'
         /\ \E x \in Slots :
              /\ DOMAIN requests' \ {x} = DOMAIN requests \ {x}
              /\ \A y \in DOMAIN requests \ {x} : requests'[y] = requests[y]
  <1>0. PICK live \in SUBSET Slots : requests \in [live -> Row]
    BY DEF DashboardTypeOK
  <1>1. ASSUME NEW x \in Slots \ DOMAIN requests, NEW c \in Clouds,
               requests' = [y \in DOMAIN requests \cup {x} |->
                              IF y = x THEN [status |-> "Pending", cloud |-> c] ELSE requests[y]]
        PROVE  /\ requests' \in [live \cup {x} -> Row]
               /\ DOMAIN requests' \ {x} = DOMAIN requests \ {x}
               /\ \A y \in DOMAIN requests \ {x} : requests'[y] = requests[y]
    <2>1. [status |-> "Pending", cloud |-> c] \in Row
      BY DEF Row, Status
    <2> QED
      BY <1>0, <1>1, <2>1
  <1>2. ASSUME NEW x \in DOMAIN requests, NEW s \in Status,
               requests' = [requests EXCEPT ![x].status = s]
        PROVE  /\ requests' \in [live -> Row]
               /\ \A y \in DOMAIN requests \ {x} : requests'[y] = requests[y]
    <2>1. requests[x] \in Row
      BY <1>0
    <2>2. [requests[x] EXCEPT !.status = s] \in Row
      BY <2>1 DEF Row
    <2>3. requests' = [requests EXCEPT ![x] = [requests[x] EXCEPT !.status = s]]
      BY <1>0, <1>2
    <2> QED
      BY <1>0, <2>2, <2>3
  <1>3. ASSUME NEW x \in DOMAIN requests,
               requests' = [y \in DOMAIN requests \ {x} |-> requests[y]]
        PROVE  /\ requests' \in [live \ {x} -> Row]
               /\ DOMAIN requests' \ {x} = DOMAIN requests \ {x}
               /\ x \notin DOMAIN requests'
               /\ \A y \in DOMAIN requests \ {x} : requests'[y] = requests[y]
    BY <1>0, <1>3
  <1>4. /\ next' = next /\ count' = count /\ deleted' = deleted
        /\ changes' = changes + 1 /\ changes < MaxChanges
    BY DEF RequestChanges
  <1>5. changes' \in 0..MaxChanges
    BY <1>4 DEF DashboardTypeOK
  <1>6. (\E now \in SUBSET Slots : requests' \in [now -> Row]) => DashboardTypeOK'
    BY <1>4, <1>5 DEF DashboardTypeOK
  <1>7. DOMAIN requests = live
    BY <1>0
  <1>8. CASE \E x \in Slots \ DOMAIN requests, c \in Clouds :
               requests' = [y \in DOMAIN requests \cup {x} |->
                              IF y = x THEN [status |-> "Pending", cloud |-> c] ELSE requests[y]]
    <2>1. PICK x \in Slots \ DOMAIN requests :
            /\ requests' \in [live \cup {x} -> Row]
            /\ DOMAIN requests' \ {x} = DOMAIN requests \ {x}
            /\ \A y \in DOMAIN requests \ {x} : requests'[y] = requests[y]
      BY <1>1, <1>8
    <2>2. live \cup {x} \in SUBSET Slots
      OBVIOUS
    <2> QED
      BY <1>6, <2>1, <2>2
  <1>9. CASE \E x \in DOMAIN requests, s \in Status :
               requests' = [requests EXCEPT ![x].status = s]
    <2>1. PICK x \in DOMAIN requests :
            /\ requests' \in [live -> Row]
            /\ \A y \in DOMAIN requests \ {x} : requests'[y] = requests[y]
      BY <1>2, <1>9
    <2>2. DOMAIN requests' = DOMAIN requests /\ x \in Slots
      BY <1>7, <2>1
    <2> QED
      BY <1>6, <2>1, <2>2
  <1>10. CASE \E x \in DOMAIN requests :
               requests' = [y \in DOMAIN requests \ {x} |-> requests[y]]
    <2>1. PICK x \in DOMAIN requests :
            /\ requests' \in [live \ {x} -> Row]
            /\ DOMAIN requests' \ {x} = DOMAIN requests \ {x}
            /\ x \notin DOMAIN requests'
            /\ \A y \in DOMAIN requests \ {x} : requests'[y] = requests[y]
      BY <1>3, <1>10
    <2>2. live \ {x} \in SUBSET Slots /\ x \in Slots
      BY <1>7
    <2> QED
      BY <1>6, <2>1, <2>2
  <1> QED
    BY <1>8, <1>9, <1>10 DEF RequestChanges

\* A row is in one of the counted statuses at most, and in one cloud.
RowCounts(x) ==
    /\ \A i \in 1..8 : Is(x, Of(Counts[i])) \in {0, 1}
    /\ Is(x, Of(Counts[2])) + Is(x, Of(Counts[3])) + Is(x, Of(Counts[4])) <= 1
    /\ Is(x, Of(Counts[2])) = Is(x, Of(Counts[5])) + Is(x, Of(Counts[6]))
    /\ Is(x, Of(Counts[5])) = Is(x, Of(Counts[8]))
    /\ Is(x, Of(Counts[6])) = Is(x, Of(Counts[7]))

QueriesCount == QueriesFinite /\ \A x \in Slots : RowCounts(x)

LEMMA OneRow == DashboardTypeOK => QueriesCount
  <1> SUFFICES ASSUME DashboardTypeOK PROVE QueriesCount
    OBVIOUS
  <1>0. QueriesFinite
    BY Finite, Queries DEF QueriesAre, QueriesFinite, Status, Clouds
  <1>1. requests \in [DOMAIN requests -> Row]
    BY DEF DashboardTypeOK
  <1>2. ASSUME NEW x PROVE RowCounts(x)
    <2>1. Is(x, With("Approved")) + Is(x, With("Rejected")) + Is(x, With("Pending")) <= 1
      BY DEF Is, With
    <2>2. Is(x, With("Approved")) = Is(x, On("AWS")) + Is(x, On("AZURE"))
      BY <1>1 DEF Is, On, With, Row, Clouds
    <2>3. \A S : Is(x, S) \in {0, 1}
      BY DEF Is
    <2> QED
      BY <2>1, <2>2, <2>3, Queries DEF QueriesAre, RowCounts
  <1> QED
    BY <1>0, <1>2 DEF QueriesCount

\* A change moves the two sides of an equation apart by one at most: the queries
\* still to come see the row in one set before and in one after.
LEMMA ChangeStep ==
  ASSUME DashboardTypeOK, Drift, RequestChanges
  PROVE  DashboardTypeOK' /\ Drift'
  <1>1. DashboardTypeOK'
    BY ChangeOfOne
  <1>2. /\ next \in 2..8 /\ changes \in Nat
        /\ changes' = changes + 1 /\ UNCHANGED <<next, count, deleted>>
    BY DEF RequestChanges, DashboardTypeOK
  <1>3. PICK x \in Slots :
          /\ DOMAIN requests' \ {x} = DOMAIN requests \ {x}
          /\ \A y \in DOMAIN requests \ {x} : requests'[y] = requests[y]
    BY ChangeOfOne
  <1>4. /\ \A s : With(s)' \ {x} = With(s) \ {x}
        /\ \A c : On(c)' \ {x} = On(c) \ {x}
    BY <1>3 DEF With, On
  <1>5. /\ QueriesFinite /\ RowCounts(x)
        /\ QueriesFinite' /\ RowCounts(x)'
    <2>1. QueriesCount /\ QueriesCount'
      BY <1>1, OneRow, PTL
    <2> QED
      BY <2>1 DEF QueriesCount
  <1>6. QueriesAre /\ QueriesAre'
    BY Queries, PTL
  <1> DEFINE old(i) == Is(x, Of(Counts[i]))
             new(i) == Is(x, Of(Counts[i])')
  <1>7. ASSUME NEW i \in 1..8
        PROVE  Value(i)' = IF i < next THEN Value(i) ELSE Value(i) + new(i) - old(i)
    <2>1. IsFiniteSet(Of(Counts[i])) /\ IsFiniteSet(Of(Counts[i])')
      BY <1>5 DEF QueriesFinite
    <2>2. Of(Counts[i])' \ {x} = Of(Counts[i]) \ {x}
      BY <1>3, <1>4, <1>6 DEF QueriesAre
    <2>3. Cardinality(Of(Counts[i])) + new(i) = Cardinality(Of(Counts[i])') + old(i)
      BY <2>1, <2>2, OneElement
    <2>4. /\ Cardinality(Of(Counts[i])) \in Nat /\ Cardinality(Of(Counts[i])') \in Nat
          /\ new(i) \in Nat /\ old(i) \in Nat
      BY <2>1, FS_CardinalityType DEF Is
    <2>5. Cardinality(Of(Counts[i])') = Cardinality(Of(Counts[i])) + new(i) - old(i)
      BY <2>3, <2>4
    <2> HIDE DEF old, new
    <2> QED
      BY <1>2, <2>5 DEF Value
  <1>8. /\ \A i \in 1..8 : old(i) \in {0, 1} /\ new(i) \in {0, 1}
        /\ old(2) + old(3) + old(4) <= 1 /\ new(2) + new(3) + new(4) <= 1
        /\ old(2) = old(5) + old(6) /\ new(2) = new(5) + new(6)
        /\ old(5) = old(8) /\ new(5) = new(8) /\ old(6) = old(7) /\ new(6) = new(7)
    BY <1>5 DEF RowCounts
  <1>9. /\ \A i \in 1..8 : Value(i) \in Nat
        /\ deleted \in Nat
    BY ValueTypes DEF DashboardTypeOK
  <1> HIDE DEF old, new
  <1>10. Near(Value(1), Value(2) + Value(3) + Value(4) + deleted)'
    BY <1>2, <1>7, <1>8, <1>9 DEF Drift, Near
  <1>11. Near(Value(2), Value(5) + Value(6))'
    BY <1>2, <1>7, <1>8, <1>9 DEF Drift, Near
  <1>12. Near(Value(5) + Value(6), Value(7) + Value(8))'
    BY <1>2, <1>7, <1>8, <1>9 DEF Drift, Near
  <1> QED
    BY <1>1, <1>10, <1>11, <1>12 DEF Drift

LEMMA DriftHolds == DashboardSpec => [](DashboardTypeOK /\ Drift)
  <1>1. DashboardTypeOK /\ Drift /\ UNCHANGED dashboard => DashboardTypeOK' /\ Drift'
    <2> SUFFICES ASSUME DashboardTypeOK, Drift, UNCHANGED dashboard
                 PROVE  DashboardTypeOK' /\ Drift'
      OBVIOUS
    <2>1. /\ DashboardTypeOK'
          /\ \A i \in 1..8 : Value(i)' = Value(i)
      BY DEF dashboard, DashboardTypeOK, Value, Of
    <2> QED
      BY <2>1 DEF Drift, Near, dashboard
  <1>2. DashboardTypeOK /\ Drift /\ [DashboardNext]_dashboard => DashboardTypeOK' /\ Drift'
    BY <1>1, CountStep, ChangeStep DEF DashboardNext
  <1> QED
    BY <1>2, DashboardInitHolds, PTL DEF DashboardSpec

\* The types of Dashboard's variables.
THEOREM DashboardTypes == DashboardSpec => []DashboardTypeOK
  BY DriftHolds, PTL

\* getInfrastructure for any number of requests and of changes between its
\* queries: the counts of one answer disagree by no more than what changed.
THEOREM CountsDrift == DashboardSpec => []CountsDriftByChanges
  <1>1. DashboardTypeOK /\ Drift => CountsDriftByChanges
    <2> SUFFICES ASSUME DashboardTypeOK, Drift PROVE CountsDriftByChanges
      OBVIOUS
    <2>1. /\ next \in 1..9 /\ deleted \in Nat /\ changes \in Nat
          /\ \A i \in 1..8 : Value(i) \in Nat /\ (i < next => Value(i) = count[i])
      BY ValueTypes DEF DashboardTypeOK, Value
    <2> QED
      BY <2>1 DEF Drift, Near, CountsDriftByChanges, Apart
  <1> QED
    BY <1>1, DriftHolds, PTL

----------------------------------------------------------------------------
(* The catalogue. *)

USE CatalogueAssumption

\* How many of the matching rows the orderBy puts before x.
Ahead(x) == {y \in matching : Before(y, x)}
Rank(x) == Cardinality(Ahead(x))

\* A walk that is on page p has shown the first p - 1 pages.
Walked ==
    /\ \A x \in Sizes : seen[x] > 0 => x \in matching
    /\ IsFiniteSet(Shown)
    /\ page > 0 =>
         /\ pages = page - 1
         /\ page = 1 \/ Skip < Total
         /\ Cardinality(Shown) = Skip
         /\ Ordered => \A x \in matching : seen[x] = IF Rank(x) < Skip THEN 1 ELSE 0
    /\ page = 0 /\ ~maxStorage =>
         /\ pages = IF matching = {} THEN 1 ELSE TotalPages
         /\ Cardinality(Shown) = Total
         /\ Ordered => \A x \in matching : seen[x] = 1

LEMMA MatchingFinite ==
  ASSUME CatalogueTypeOK
  PROVE  /\ IsFiniteSet(matching) /\ Total \in Nat /\ Total <= NumSizes
         /\ \A x : IsFiniteSet(Ahead(x)) /\ Rank(x) \in Nat
  <1>1. IsFiniteSet(Sizes) /\ Cardinality(Sizes) = NumSizes
    BY FS_Interval DEF Sizes
  <1>2. matching \in SUBSET Sizes
    BY DEF CatalogueTypeOK
  <1>3. IsFiniteSet(matching) /\ Total \in Nat /\ Total <= NumSizes
    BY <1>1, <1>2, FS_Subset, FS_CardinalityType DEF Total
  <1>4. ASSUME NEW x PROVE IsFiniteSet(Ahead(x)) /\ Rank(x) \in Nat
    <2>1. Ahead(x) \in SUBSET matching
      BY DEF Ahead
    <2> QED
      BY <1>3, <2>1, FS_Subset, FS_CardinalityType DEF Rank
  <1> QED
    BY <1>3, <1>4

\* Math.ceil(total / limit), as the last page that has a row.
LEMMA LastPage ==
  ASSUME NEW p \in Nat, NEW l \in Nat \ {0}, NEW t \in Nat
  PROVE  p < (t + l - 1) \div l <=> p * l < t
  <1> DEFINE q == (t + l - 1) \div l
  <1>1. q \in Nat /\ q * l <= t + l - 1 /\ t + l - 1 < q * l + l
    <2>1. t + l - 1 = l * q + ((t + l - 1) % l)
      OBVIOUS
    <2>2. (t + l - 1) % l \in 0..(l - 1)
      OBVIOUS
    <2> QED
      BY <2>1, <2>2
  <1> HIDE DEF q
  <1>2. ASSUME p < q PROVE p * l < t
    <2>1. (p + 1) * l <= q * l
      BY <1>1, <1>2
    <2>2. (p + 1) * l = p * l + l
      OBVIOUS
    <2> QED
      BY <1>1, <2>1, <2>2
  <1>3. ASSUME q <= p PROVE t <= p * l
    <2>1. q * l <= p * l
      BY <1>1, <1>3
    <2> QED
      BY <1>1, <2>1
  <1> QED
    BY <1>1, <1>2, <1>3 DEF q

\* The rows in places J, as many as there are places.
At(o, J) == {o[i] : i \in J}

LEMMA RowsAt ==
  ASSUME NEW J, IsFiniteSet(J), NEW o, \A i, j \in J : i # j => o[i] # o[j]
  PROVE  IsFiniteSet(At(o, J)) /\ Cardinality(At(o, J)) = Cardinality(J)
  <1> DEFINE f == [i \in J |-> o[i]]
  <1>1. f \in Bijection(J, At(o, J))
    BY DEF At, Bijection, Injection, Surjection, IsInjective
  <1>2. ExistsBijection(J, At(o, J))
    BY <1>1 DEF ExistsBijection
  <1> QED
    BY <1>2, FS_Bijection

LEMMA Places ==
  ASSUME NEW m \in Nat, NEW n \in Nat, m <= n
  PROVE  IsFiniteSet((m + 1)..n) /\ Cardinality((m + 1)..n) = n - m
  <1>1. m + 1 \in Int /\ n \in Int
    OBVIOUS
  <1>2. /\ IsFiniteSet((m + 1)..n)
        /\ Cardinality((m + 1)..n) = IF m + 1 > n THEN 0 ELSE n - (m + 1) + 1
    BY <1>1, FS_Interval
  <1> QED
    BY <1>2

\* The order of a list is the same for every query where the orderBy leaves no
\* two rows equal: a row comes after the rows that are ahead of it.
LEMMA PlaceIsRank ==
  ASSUME CatalogueTypeOK, Ordered, NEW o \in [1..Total -> matching],
         \A i, j \in 1..Total : i < j => o[i] # o[j] /\ ~Before(o[j], o[i])
  PROVE  /\ \A x \in matching : \E i \in 1..Total : o[i] = x
         /\ \A i \in 1..Total : Rank(o[i]) = i - 1
  <1>1. /\ IsFiniteSet(matching) /\ Total \in Nat /\ Total = Cardinality(matching)
        /\ matching \in SUBSET Sizes
    BY MatchingFinite DEF Total, CatalogueTypeOK
  <1>2. \A i, j \in 1..Total : i # j => o[i] # o[j]
    BY <1>1
  <1>3. o \in Injection(1..Total, matching)
    BY <1>2 DEF Injection, IsInjective
  <1>4. Cardinality(1..Total) = Total
    BY <1>1, FS_Interval
  <1>5. o \in Surjection(1..Total, matching)
    BY <1>1, <1>3, <1>4, FS_Injection
  <1>6. \A x \in matching : \E i \in 1..Total : o[i] = x
    BY <1>5 DEF Surjection
  <1>7. \A x, y \in matching : x # y => Before(x, y) \/ Before(y, x)
    BY <1>1 DEF Ordered, Before, Sizes
  <1>8. \A x \in matching : ~Before(x, x)
    BY <1>1 DEF Before, Sizes
  <1>9. ASSUME NEW i \in 1..Total PROVE Rank(o[i]) = i - 1
    <2>1. ASSUME NEW k \in 1..Total PROVE Before(o[k], o[i]) <=> k < i
      <3>1. o[k] \in matching /\ o[i] \in matching
        OBVIOUS
      <3>2. CASE k < i
        BY <1>2, <1>7, <3>1, <3>2
      <3>3. CASE k = i
        BY <1>8, <3>1, <3>3
      <3>4. CASE k > i
        BY <3>4
      <3> QED
        BY <1>1, <3>2, <3>3, <3>4
    <2>2. Ahead(o[i]) = At(o, 1..(i - 1))
      <3>1. ASSUME NEW y \in matching, Before(y, o[i]) PROVE \E k \in 1..(i - 1) : y = o[k]
        <4>1. PICK k \in 1..Total : o[k] = y
          BY <1>6
        <4>2. k < i
          BY <2>1, <3>1, <4>1
        <4> QED
          BY <1>1, <4>1, <4>2
      <3>2. ASSUME NEW k \in 1..(i - 1) PROVE o[k] \in matching /\ Before(o[k], o[i])
        <4>1. k \in 1..Total /\ k < i
          BY <1>1
        <4> QED
          BY <2>1, <4>1
      <3> QED
        BY <3>1, <3>2 DEF Ahead, At
    <2>3. \A k, m \in 1..(i - 1) : k # m => o[k] # o[m]
      BY <1>1, <1>2
    <2>4. IsFiniteSet(1..(i - 1)) /\ Cardinality(1..(i - 1)) = i - 1
      <3>1. i - 1 \in Nat /\ 0 \in Nat /\ 0 <= i - 1 /\ 0 + 1 = 1 /\ i - 1 - 0 = i - 1
        BY <1>1
      <3>2. IsFiniteSet((0 + 1)..(i - 1)) /\ Cardinality((0 + 1)..(i - 1)) = i - 1 - 0
        BY <3>1, Places
      <3> QED
        BY <3>1, <3>2
    <2> QED
      BY <2>2, <2>3, <2>4, RowsAt DEF Rank
  <1> QED
    BY <1>6, <1>9

\* Which rows a page has.
LEMMA PageIs ==
  ASSUME CatalogueTypeOK, page > 0, page = 1 \/ Skip < Total,
         NEW o \in [1..Total -> matching],
         \A i, j \in 1..Total : i < j => o[i] # o[j] /\ ~Before(o[j], o[i]),
         NEW data, data = {o[i] : i \in {j \in 1..Total : j > Skip /\ j <= Skip + limit}}
  PROVE  /\ data \subseteq matching /\ IsFiniteSet(data)
         /\ Skip \in Nat /\ Skip + limit = page * limit /\ Skip <= Total
         /\ HasNext <=> Skip + limit < Total
         /\ Cardinality(data) = IF HasNext THEN limit ELSE Total - Skip
         /\ Ordered => \A x \in matching :
              /\ x \in data <=> Skip <= Rank(x) /\ Rank(x) < Skip + limit
              /\ Rank(x) < Total
  <1>1. /\ Total \in Nat /\ page \in Nat \ {0} /\ limit \in Nat \ {0}
    BY MatchingFinite DEF CatalogueTypeOK
  <1>2. Skip \in Nat /\ Skip + limit = page * limit
    BY <1>1 DEF Skip
  <1>3. Skip <= Total
    BY <1>1, <1>2 DEF Skip
  <1>4. HasNext <=> Skip + limit < Total
    BY <1>1, <1>2, LastPage DEF HasNext, TotalPages
  <1> DEFINE last == IF HasNext THEN Skip + limit ELSE Total
             J == (Skip + 1)..last
  <1>5. /\ last \in Nat /\ Skip <= last /\ last <= Total
        /\ {j \in 1..Total : j > Skip /\ j <= Skip + limit} = J
    BY <1>1, <1>2, <1>3, <1>4
  <1>6. data = At(o, J) /\ J \subseteq 1..Total
    BY <1>1, <1>2, <1>5 DEF At
  <1> HIDE DEF last
  <1>7. IsFiniteSet(J) /\ Cardinality(J) = last - Skip
    BY <1>2, <1>5, Places
  <1>8. \A i, j \in J : i # j => o[i] # o[j]
    BY <1>1, <1>6
  <1>9. IsFiniteSet(data) /\ Cardinality(data) = last - Skip
    <2> HIDE DEF J
    <2>1. IsFiniteSet(At(o, J)) /\ Cardinality(At(o, J)) = Cardinality(J)
      BY <1>7, <1>8, RowsAt
    <2> QED
      BY <1>6, <1>7, <2>1
  <1>10. data \subseteq matching
    BY <1>6 DEF At
  <1>11. ASSUME Ordered, NEW x \in matching
         PROVE  /\ x \in data <=> Skip <= Rank(x) /\ Rank(x) < Skip + limit
                /\ Rank(x) < Total
    <2>1. PICK i \in 1..Total : o[i] = x
      BY <1>11, PlaceIsRank
    <2>2. Rank(x) = i - 1
      BY <1>11, <2>1, PlaceIsRank
    <2>3. x \in data <=> i > Skip /\ i <= Skip + limit
      <3>1. ASSUME x \in data PROVE i > Skip /\ i <= Skip + limit
        <4>1. PICK j \in 1..Total : j > Skip /\ j <= Skip + limit /\ o[j] = x
          BY <3>1
        <4>2. j = i
          BY <1>1, <2>1, <4>1
        <4> QED
          BY <4>1, <4>2
      <3> QED
        BY <2>1, <3>1
    <2> QED
      BY <1>1, <1>2, <2>1, <2>2, <2>3
  <1> QED
    <2>1. Cardinality(data) = IF HasNext THEN limit ELSE Total - Skip
      BY <1>1, <1>2, <1>9 DEF last
    <2> QED
      BY <1>2, <1>3, <1>4, <1>9, <1>10, <1>11, <2>1

\* A page shows each of its rows once more.
LEMMA ShownGrows ==
  ASSUME CatalogueTypeOK, IsFiniteSet(Shown), NEW data \in SUBSET Sizes, IsFiniteSet(data),
         seen' = [x \in Sizes |-> IF x \in data THEN seen[x] + 1 ELSE seen[x]]
  PROVE  IsFiniteSet(Shown') /\ Cardinality(Shown') = Cardinality(Shown) + Cardinality(data)
  <1>0. seen \in [Sizes -> Nat]
    BY DEF CatalogueTypeOK
  <1> DEFINE again == [x \in data |-> <<x, seen[x] + 1>>]
             New == At(again, data)
  <1>1. IsFiniteSet(New) /\ Cardinality(New) = Cardinality(data)
    <2>1. \A x, y \in data : x # y => again[x] # again[y]
      OBVIOUS
    <2> HIDE DEF again
    <2> QED
      BY <2>1, RowsAt
  <1>2. \A z : z \in New <=> \E x \in data : z = <<x, seen[x] + 1>>
    BY DEF At
  <1>3. \A z : z \in Shown <=> \E x \in Sizes : \E i \in 1..seen[x] : z = <<x, i>>
    BY DEF Shown
  <1>4. \A z : z \in Shown' <=> \E x \in Sizes : \E i \in 1..seen'[x] : z = <<x, i>>
    BY DEF Shown
  <1> HIDE DEF New
  <1>5. Shown \cap New = {}
    <2> SUFFICES ASSUME NEW z \in Shown, z \in New PROVE FALSE
      OBVIOUS
    <2>1. PICK x \in Sizes : \E i \in 1..seen[x] : z = <<x, i>>
      BY <1>3
    <2>2. PICK i \in 1..seen[x] : z = <<x, i>>
      BY <2>1
    <2>3. PICK y \in data : z = <<y, seen[y] + 1>>
      BY <1>2
    <2>4. i = seen[x] + 1
      BY <2>2, <2>3
    <2> QED
      BY <1>0, <2>2, <2>4
  <1>6. Shown' = Shown \cup New
    <2>1. ASSUME NEW x \in Sizes, NEW i
          PROVE  i \in 1..seen'[x] <=> i \in 1..seen[x] \/ (x \in data /\ i = seen[x] + 1)
      BY <1>0
    <2>2. ASSUME NEW z \in Shown' PROVE z \in Shown \cup New
      <3>1. PICK x \in Sizes : \E i \in 1..seen'[x] : z = <<x, i>>
        BY <1>4
      <3>2. PICK i \in 1..seen'[x] : z = <<x, i>>
        BY <3>1
      <3>3. i \in 1..seen[x] \/ (x \in data /\ i = seen[x] + 1)
        BY <2>1, <3>2
      <3> QED
        BY <1>2, <1>3, <3>2, <3>3
    <2>3. ASSUME NEW z \in Shown PROVE z \in Shown'
      <3>1. PICK x \in Sizes : \E i \in 1..seen[x] : z = <<x, i>>
        BY <1>3
      <3>2. PICK i \in 1..seen[x] : z = <<x, i>>
        BY <3>1
      <3>3. i \in 1..seen'[x]
        BY <2>1, <3>2
      <3> QED
        BY <1>4, <3>2, <3>3
    <2>4. ASSUME NEW z \in New PROVE z \in Shown'
      <3>1. PICK x \in data : z = <<x, seen[x] + 1>>
        BY <1>2
      <3>2. x \in Sizes /\ seen[x] + 1 \in 1..seen'[x]
        BY <2>1, <3>1
      <3> QED
        BY <1>4, <3>1, <3>2
    <2> QED
      BY <2>2, <2>3, <2>4
  <1>7. /\ Cardinality({}) = 0
        /\ Cardinality(Shown) \in Nat /\ Cardinality(New) \in Nat
    BY <1>1, FS_EmptySet, FS_CardinalityType
  <1>8. /\ IsFiniteSet(Shown \cup New)
        /\ Cardinality(Shown \cup New)
             = Cardinality(Shown) + Cardinality(New) - Cardinality(Shown \cap New)
    BY <1>1, FS_Union
  <1>9. Cardinality(Shown \cup New) = Cardinality(Shown) + Cardinality(data)
    <2>1. Cardinality(Shown \cap New) = Cardinality({})
      BY <1>5, Zenon
    <2> QED
      BY <1>1, <1>7, <1>8, <2>1
  <1> QED
    BY <1>6, <1>8, <1>9

LEMMA AskStep ==
  ASSUME CatalogueTypeOK, Walked, AskPage
  PROVE  CatalogueTypeOK' /\ Walked'
  <1>1. PICK o \in [1..Total -> matching] :
          /\ \A i, j \in 1..Total : i < j => o[i] # o[j] /\ ~Before(o[j], o[i])
          /\ seen' = [x \in Sizes |->
                        IF x \in {o[i] : i \in {j \in 1..Total : j > Skip /\ j <= Skip + limit}}
                        THEN seen[x] + 1 ELSE seen[x]]
    BY DEF AskPage
  <1>2. PICK data : data = {o[i] : i \in {j \in 1..Total : j > Skip /\ j <= Skip + limit}}
    OBVIOUS
  <1>3. /\ page > 0 /\ page' = (IF HasNext THEN page + 1 ELSE 0) /\ pages' = pages + 1
        /\ UNCHANGED <<list, limit, maxStorage, matching>>
    BY DEF AskPage, query
  <1>4. /\ pages = page - 1
        /\ page = 1 \/ Skip < Total
        /\ IsFiniteSet(Shown) /\ Cardinality(Shown) = Skip
        /\ \A x \in Sizes : seen[x] > 0 => x \in matching
        /\ Ordered => \A x \in matching : seen[x] = IF Rank(x) < Skip THEN 1 ELSE 0
    BY <1>3 DEF Walked
  <1>5. /\ NumSizes \in Nat /\ Total \in Nat /\ Total <= NumSizes
        /\ page \in 1..(NumSizes + 1) /\ limit \in Nat \ {0}
        /\ seen \in [Sizes -> Nat] /\ matching \in SUBSET Sizes
    BY <1>3, MatchingFinite DEF CatalogueTypeOK, CatalogueAssumption
  <1>6. /\ data \subseteq matching /\ IsFiniteSet(data)
        /\ Skip \in Nat /\ Skip + limit = page * limit /\ Skip <= Total
        /\ HasNext <=> Skip + limit < Total
        /\ Cardinality(data) = IF HasNext THEN limit ELSE Total - Skip
        /\ Ordered => \A x \in matching :
              /\ x \in data <=> Skip <= Rank(x) /\ Rank(x) < Skip + limit
              /\ Rank(x) < Total
    BY <1>1, <1>2, <1>3, <1>4, PageIs
  <1>7. seen' = [x \in Sizes |-> IF x \in data THEN seen[x] + 1 ELSE seen[x]]
    BY <1>1, <1>2
  <1>8. CatalogueTypeOK'
    <2>1. HasNext => page + 1 <= NumSizes + 1
      <3>1. ASSUME NEW p \in Nat, NEW l \in Nat \ {0}, NEW t \in Nat, p * l < t PROVE p < t
        <4>1. p <= p * l
          OBVIOUS
        <4> QED
          BY <3>1, <4>1
      <3>2. page \in Nat /\ limit \in Nat \ {0} /\ Total \in Nat
        BY <1>5
      <3>3. ASSUME HasNext PROVE page < Total
        <4>1. page * limit < Total
          BY <1>6, <3>3
        <4> QED
          BY <3>1, <3>2, <4>1
      <3> QED
        BY <1>5, <3>3
    <2>2. page' \in 0..(NumSizes + 1) /\ pages' \in 0..(NumSizes + 1)
      BY <1>3, <1>4, <1>5, <2>1
    <2>3. seen' \in [Sizes -> Nat]
      BY <1>5, <1>7
    <2> QED
      BY <1>3, <2>2, <2>3 DEF CatalogueTypeOK
  <1>9. IsFiniteSet(Shown') /\ Cardinality(Shown') = Skip + Cardinality(data)
    <2>1. data \in SUBSET Sizes
      BY <1>5, <1>6
    <2> QED
      BY <1>4, <1>6, <1>7, <2>1, ShownGrows
  <1>10. \A x \in Sizes : seen'[x] > 0 => x \in matching
    BY <1>4, <1>5, <1>6, <1>7
  <1>11. /\ Total' = Total /\ TotalPages' = TotalPages /\ Ordered' = Ordered
         /\ \A x : Rank(x)' = Rank(x)
         /\ HasNext => Skip' = Skip + limit
    <2>1. HasNext => page' - 1 = page /\ limit' = limit
      BY <1>3, <1>5
    <2> QED
      BY <1>3, <1>6, <2>1 DEF Total, TotalPages, Ordered, Rank, Ahead, Before, Skip
  <1>12. ASSUME Ordered, NEW x \in matching
         PROVE  /\ HasNext => seen'[x] = IF Rank(x) < Skip + limit THEN 1 ELSE 0
                /\ ~HasNext => seen'[x] = 1
    <2>1. /\ seen[x] = IF Rank(x) < Skip THEN 1 ELSE 0
          /\ x \in data <=> Skip <= Rank(x) /\ Rank(x) < Skip + limit
          /\ Rank(x) < Total /\ Rank(x) \in Nat
      BY <1>4, <1>6, <1>12, MatchingFinite
    <2>2. seen'[x] = IF x \in data THEN seen[x] + 1 ELSE seen[x]
      BY <1>5, <1>7
    <2> QED
      BY <1>5, <1>6, <2>1, <2>2
  <1>13. ~HasNext => pages' = IF matching = {} THEN 1 ELSE TotalPages
    <2> SUFFICES ASSUME ~HasNext PROVE page = IF matching = {} THEN 1 ELSE TotalPages
      BY <1>3, <1>4, <1>5
    <2>1. Total = 0 <=> matching = {}
      BY MatchingFinite, FS_EmptySet DEF Total
    <2>2. CASE Total = 0
      BY <1>4, <1>6, <2>1, <2>2
    <2>3. CASE Total > 0
      <3>1. page - 1 < TotalPages
        <4>1. page - 1 \in Nat /\ (page - 1) * limit < Total
          BY <1>4, <1>5, <2>3 DEF Skip
        <4> QED
          BY <1>5, <4>1, LastPage DEF TotalPages
      <3>2. ~(page < TotalPages)
        BY DEF HasNext
      <3>3. TotalPages \in Int
        BY <1>5 DEF TotalPages
      <3> QED
        BY <1>5, <2>1, <2>3, <3>1, <3>2, <3>3
    <2> QED
      BY <1>5, <2>2, <2>3
  <1>14. CASE HasNext
    <2>1. page' = page + 1 /\ page' > 0 /\ pages' = page' - 1
      BY <1>3, <1>4, <1>5, <1>14
    <2>2. Skip' < Total' /\ Cardinality(Shown') = Skip'
      BY <1>6, <1>9, <1>11, <1>14
    <2> QED
      BY <1>3, <1>5, <1>8, <1>9, <1>10, <1>11, <1>12, <1>14, <2>1, <2>2 DEF Walked
  <1>15. CASE ~HasNext
    <2>1. page' = 0
      BY <1>3, <1>15
    <2>2. Cardinality(Shown') = Total'
      BY <1>5, <1>6, <1>9, <1>11, <1>15
    <2> QED
      BY <1>3, <1>8, <1>9, <1>10, <1>11, <1>12, <1>13, <1>15, <2>1, <2>2 DEF Walked
  <1> QED
    BY <1>14, <1>15

LEMMA CatalogueInitHolds == CatalogueInit => CatalogueTypeOK /\ Walked
  <1> SUFFICES ASSUME CatalogueInit PROVE CatalogueTypeOK /\ Walked
    OBVIOUS
  <1>1. /\ page = 1 /\ pages = 0 /\ limit \in 1..MaxLimit
        /\ seen = [x \in Sizes |-> 0]
    BY DEF CatalogueInit
  <1>2. CatalogueTypeOK
    <2>1. list \in {"azure", "aws", "awsDB"} /\ matching \in SUBSET Sizes
      BY DEF CatalogueInit
    <2>2. maxStorage \in BOOLEAN
      BY DEF CatalogueInit
    <2>3. NumSizes \in Nat
      BY DEF CatalogueAssumption
    <2>4. page \in 0..(NumSizes + 1) /\ pages \in 0..(NumSizes + 1) /\ seen \in [Sizes -> Nat]
      BY <1>1, <2>3
    <2> QED
      BY <1>1, <2>1, <2>2, <2>4 DEF CatalogueTypeOK
  <1>3. Shown = {}
    BY <1>1 DEF Shown
  <1>4. Skip = 0
    BY <1>1 DEF Skip
  <1>5. IsFiniteSet(Shown) /\ Cardinality(Shown) = 0
    BY <1>3, FS_EmptySet
  <1>6. \A x \in matching : seen[x] = 0 /\ Rank(x) \in Nat
    BY <1>1, <1>2, MatchingFinite DEF CatalogueTypeOK
  <1> QED
    BY <1>1, <1>2, <1>4, <1>5, <1>6 DEF Walked

\* A query that fails ends the walk; WalkComplete asks nothing of it.
LEMMA FailStep ==
  ASSUME CatalogueTypeOK, Walked, maxStorage, page' = 0, UNCHANGED <<query, seen, pages>>
  PROVE  CatalogueTypeOK' /\ Walked'
  <1>1. CatalogueTypeOK'
    BY DEF CatalogueTypeOK, CatalogueAssumption, query
  <1>2. Shown' = Shown
    BY DEF Shown
  <1> QED
    BY <1>1, <1>2 DEF Walked, query

LEMMA WalkedHolds == CatalogueSpec => [](CatalogueTypeOK /\ Walked)
  <1>1. CatalogueTypeOK /\ Walked /\ UNCHANGED catalogue => CatalogueTypeOK' /\ Walked'
    BY DEF catalogue, query, CatalogueTypeOK, Walked, Shown, Skip, Total, TotalPages, Ordered,
           Rank, Ahead, Before
  <1>2. CatalogueTypeOK /\ Walked /\ [CatalogueNext]_catalogue => CatalogueTypeOK' /\ Walked'
    BY <1>1, AskStep, FailStep DEF CatalogueNext, GetVmSizesPaginated, FindAws, FindAwsDB
  <1> QED
    BY <1>2, CatalogueInitHolds, PTL DEF CatalogueSpec

\* The types of Catalogue's variables.
THEOREM CatalogueTypes == CatalogueSpec => []CatalogueTypeOK
  BY WalkedHolds, PTL

\* getVmSizesPaginated, findAws and findAwsDB for any table, filter and page size:
\* a walk along hasNextPage shows as many rows as the total says, and each row
\* once where the orderBy leaves no two rows equal.
THEOREM WalksAreComplete == CatalogueSpec => []WalkComplete
  <1>1. CatalogueTypeOK /\ Walked => WalkComplete
    BY DEF Walked, WalkComplete
  <1> QED
    BY <1>1, WalkedHolds, PTL

----------------------------------------------------------------------------
(* The parts beside each other. *)

\* A behaviour of the parts together is one of each: what is proved of a part's
\* specification, here and in SessionProofs and SettingsProofs, holds in it.
THEOREM PartsAreThemselves == MCSpec => AllSpec /\ DashboardSpec /\ CatalogueSpec
  <1>1. MCInit => AllInit /\ DashboardInit /\ CatalogueInit
    BY DEF MCInit
  <1>2. [MCNext]_<<part, allVars, dashboard, catalogue>>
          => [AllNext]_allVars /\ [DashboardNext]_dashboard /\ [CatalogueNext]_catalogue
    BY DEF MCNext, AllNext, allVars
  <1> QED
    BY <1>1, <1>2, PTL DEF MCSpec, AllSpec, DashboardSpec, CatalogueSpec

\* The types of sessions, settings, dashboard and catalogue, all together.
THEOREM BackendTypes == MCSpec => []TypesOK
  <1>1. TypeOK /\ SettingsTypeOK /\ DashboardTypeOK /\ CatalogueTypeOK => TypesOK
    BY DEF TypesOK
  <1> QED
    BY <1>1, PartsAreThemselves, SettingsImplementSession, SessionTypes, SettingsTypes,
       DashboardTypes, CatalogueTypes, PTL
=============================================================================
