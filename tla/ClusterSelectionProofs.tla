----------------------- MODULE ClusterSelectionProofs -----------------------
(***************************************************************************)
(* Proofs about ClusterSelection for any number of ids, names and writes,  *)
(* whatever other admins do.                                               *)
(***************************************************************************)
EXTENDS ClusterSelection, FiniteSetTheorems, SequenceTheorems, TLAPS

-----------------------------------------------------------------------------
(* Ranks: in a finite set with a strict total order, some element has      *)
(* exactly i others before it, for every i below the number of elements.   *)

\* The elements before x.
Below(S, R, x) == {y \in S : <<y, x>> \in R}

\* An element has fewer others before it than there are elements, and more than
\* those that are before it have.
LEMMA BelowGrows ==
    ASSUME NEW S, IsFiniteSet(S), NEW R,
           \A x \in S : <<x, x>> \notin R,
           \A x, y, z \in S : <<x, y>> \in R /\ <<y, z>> \in R => <<x, z>> \in R
    PROVE  /\ \A x \in S : Cardinality(Below(S, R, x)) \in 0 .. Cardinality(S) - 1
           /\ \A x, y \in S : <<x, y>> \in R
                => Cardinality(Below(S, R, x)) < Cardinality(Below(S, R, y))
<1>1. \A x \in S : IsFiniteSet(Below(S, R, x)) /\ Cardinality(Below(S, R, x)) \in Nat
  <2> TAKE x \in S
  <2>1. Below(S, R, x) \in SUBSET S
    BY DEF Below
  <2> QED BY <2>1, FS_Subset, FS_CardinalityType
<1>2. ASSUME NEW x \in S
      PROVE  Cardinality(Below(S, R, x)) \in 0 .. Cardinality(S) - 1
  <2>1. Cardinality(S) \in Nat
    BY FS_CardinalityType
  <2>2. IsFiniteSet(S \ {x}) /\ Cardinality(S \ {x}) = Cardinality(S) - 1
    BY FS_RemoveElement
  <2>3. Below(S, R, x) \in SUBSET (S \ {x})
    BY DEF Below
  <2>4. Cardinality(Below(S, R, x)) <= Cardinality(S \ {x})
    BY <2>2, <2>3, FS_Subset
  <2> QED BY <1>1, <2>1, <2>2, <2>4
<1>3. ASSUME NEW x \in S, NEW y \in S, <<x, y>> \in R
      PROVE  Cardinality(Below(S, R, x)) < Cardinality(Below(S, R, y))
  <2> DEFINE T == Below(S, R, x) \cup {x}
  <2>1. x \notin Below(S, R, x)
    BY DEF Below
  <2>2. Cardinality(T) = Cardinality(Below(S, R, x)) + 1
    BY <1>1, <2>1, FS_AddElement
  <2>3. T \in SUBSET Below(S, R, y)
    BY <1>3 DEF Below
  <2>4. Cardinality(T) <= Cardinality(Below(S, R, y))
    BY <1>1, <2>3, FS_Subset
  <2> QED BY <1>1, <2>2, <2>4
<1> QED BY <1>2, <1>3

\* Every rank below the number of elements is that of some element.
LEMMA EveryRankIsTaken ==
    ASSUME NEW S, IsFiniteSet(S), NEW R,
           \A x \in S : <<x, x>> \notin R,
           \A x, y, z \in S : <<x, y>> \in R /\ <<y, z>> \in R => <<x, z>> \in R,
           \A x, y \in S : x = y \/ <<x, y>> \in R \/ <<y, x>> \in R
    PROVE  /\ Cardinality(S) \in Nat
           /\ \A i \in 0 .. Cardinality(S) - 1 :
                 \E x \in S : Cardinality(Below(S, R, x)) = i
           /\ \A x \in S : Cardinality(Below(S, R, x)) \in 0 .. Cardinality(S) - 1
           /\ \A x, y \in S :
                 Cardinality(Below(S, R, x)) = Cardinality(Below(S, R, y)) => x = y
<1> DEFINE n == Cardinality(S)
           rank == [x \in S |-> Cardinality(Below(S, R, x))]
<1>1. n \in Nat
  BY FS_CardinalityType
<1>2. /\ \A x \in S : Cardinality(Below(S, R, x)) \in 0 .. n - 1
      /\ \A x, y \in S : <<x, y>> \in R
            => Cardinality(Below(S, R, x)) < Cardinality(Below(S, R, y))
  BY BelowGrows
<1>3. \A x, y \in S : Cardinality(Below(S, R, x)) = Cardinality(Below(S, R, y)) => x = y
  <2> SUFFICES ASSUME NEW x \in S, NEW y \in S,
                      Cardinality(Below(S, R, x)) = Cardinality(Below(S, R, y))
               PROVE  x = y
    OBVIOUS
  <2>1. Cardinality(Below(S, R, x)) \in Int
    BY <1>1, <1>2
  <2>2. <<x, y>> \notin R /\ <<y, x>> \notin R
    BY <1>2, <2>1
  <2> QED BY <2>2
<1>4. rank \in Injection(S, 0 .. n - 1)
  <2>1. rank \in [S -> 0 .. n - 1]
    BY <1>2
  <2>2. IsInjective(rank)
    BY <1>3 DEF IsInjective
  <2> HIDE DEF rank
  <2> QED BY <2>1, <2>2 DEF Injection
<1>5. IsFiniteSet(0 .. n - 1) /\ Cardinality(0 .. n - 1) = n
  <2>1. n - 1 \in Int /\ 0 \in Int /\ (0 > n - 1 => n = 0) /\ (n - 1) - 0 + 1 = n
    BY <1>1
  <2> HIDE DEF n, rank
  <2> QED BY <2>1, FS_Interval
<1>6. rank \in Surjection(S, 0 .. n - 1)
  <2>1. Cardinality(S) = Cardinality(0 .. n - 1) <=> rank \in Surjection(S, 0 .. n - 1)
    BY <1>4, <1>5, FS_Injection
  <2> QED BY <1>5, <2>1
<1>7. \A i \in 0 .. n - 1 : \E x \in S : Cardinality(Below(S, R, x)) = i
  <2>1. \A i \in 0 .. n - 1 : \E x \in S : rank[x] = i
    BY <1>6 DEF Surjection
  <2> QED BY <2>1
<1> HIDE DEF rank
<1> QED BY <1>1, <1>2, <1>3, <1>7

\* One that is not empty has a first element.
LEMMA FirstElement ==
    ASSUME NEW S, IsFiniteSet(S), S # {}, NEW R,
           \A x \in S : <<x, x>> \notin R,
           \A x, y, z \in S : <<x, y>> \in R /\ <<y, z>> \in R => <<x, z>> \in R,
           \A x, y \in S : x = y \/ <<x, y>> \in R \/ <<y, x>> \in R
    PROVE  \E m \in S : \A x \in S : <<x, m>> \notin R
<1>1. 0 \in 0 .. Cardinality(S) - 1
  <2>1. Cardinality(S) \in Nat \ {0}
    BY FS_CardinalityType, FS_EmptySet
  <2> QED BY <2>1
<1>2. \A i \in 0 .. Cardinality(S) - 1 : \E x \in S : Cardinality(Below(S, R, x)) = i
  BY EveryRankIsTaken
<1>3. PICK m \in S : Cardinality(Below(S, R, m)) = 0
  BY <1>1, <1>2
<1>4. Below(S, R, m) \in SUBSET S
  BY DEF Below
<1>5. IsFiniteSet(Below(S, R, m))
  BY <1>4, FS_Subset
<1>6. Below(S, R, m) = {}
  BY <1>3, <1>5, FS_EmptySet
<1> QED BY <1>6 DEF Below

\* A finite, not empty set of numbers has a least and a greatest element.
LEMMA FiniteHasEnds ==
    ASSUME NEW S \in SUBSET Int, IsFiniteSet(S), S # {}
    PROVE  /\ \E m \in S : \A x \in S : m <= x
           /\ \E m \in S : \A x \in S : x <= m
<1> DEFINE Less == {p \in Int \X Int : p[1] < p[2]}
           More == {p \in Int \X Int : p[1] > p[2]}
<1>1. /\ \A x \in S : <<x, x>> \notin Less
      /\ \A x, y, z \in S : <<x, y>> \in Less /\ <<y, z>> \in Less => <<x, z>> \in Less
      /\ \A x, y \in S : x = y \/ <<x, y>> \in Less \/ <<y, x>> \in Less
  OBVIOUS
<1>2. /\ \A x \in S : <<x, x>> \notin More
      /\ \A x, y, z \in S : <<x, y>> \in More /\ <<y, z>> \in More => <<x, z>> \in More
      /\ \A x, y \in S : x = y \/ <<x, y>> \in More \/ <<y, x>> \in More
  OBVIOUS
<1>3. \A x, y \in S : /\ <<x, y>> \notin Less => y <= x
                      /\ <<x, y>> \notin More => x <= y
  OBVIOUS
<1> HIDE DEF Less, More
<1>4. \E m \in S : \A x \in S : <<x, m>> \notin Less
  BY <1>1, FirstElement, Zenon
<1>5. \E m \in S : \A x \in S : <<x, m>> \notin More
  BY <1>2, FirstElement, Zenon
<1> QED BY <1>3, <1>4, <1>5

-----------------------------------------------------------------------------
(* Facts about the operators of the model.                                 *)

\* The server lists the clusters that exist, each in one place.
LEMMA ListingSound ==
    ASSUME TypeOK
    PROVE  Listing \in Seq(Row) /\ Ids(Listing) = Existing
<1> DEFINE R == {p \in Cluster \X Cluster : Earlier(p[1], p[2])}
           n == Cardinality(Existing)
<1>1. Existing \in SUBSET Cluster /\ \A c \in Existing : server[c] \in Name
  BY DEF Existing, TypeOK
<1>2. IsFiniteSet(Existing)
  <2>1. IsFiniteSet(Cluster)
    BY BoundAssumption, FS_Interval DEF Cluster
  <2> QED BY <1>1, <2>1, FS_Subset
<1>3. /\ \A x \in Existing : <<x, x>> \notin R
      /\ \A x, y, z \in Existing : <<x, y>> \in R /\ <<y, z>> \in R => <<x, z>> \in R
      /\ \A x, y \in Existing : x = y \/ <<x, y>> \in R \/ <<y, x>> \in R
  BY <1>1, BoundAssumption DEF Earlier, Cluster, Name
<1>4. \A c \in Existing : {d \in Existing : Earlier(d, c)} = Below(Existing, R, c)
  BY <1>1 DEF Below
<1> HIDE DEF R
<1>5. /\ n \in Nat
      /\ \A i \in 0 .. n - 1 : \E x \in Existing : Cardinality(Below(Existing, R, x)) = i
      /\ \A x \in Existing : Cardinality(Below(Existing, R, x)) \in 0 .. n - 1
      /\ \A x, y \in Existing :
            Cardinality(Below(Existing, R, x)) = Cardinality(Below(Existing, R, y)) => x = y
  BY <1>2, <1>3, EveryRankIsTaken
<1>6. \A i \in 0 .. n - 1 :
         /\ Ranked(i) \in Existing
         /\ Cardinality({d \in Existing : Earlier(d, Ranked(i))}) = i
  <2> TAKE i \in 0 .. n - 1
  <2>1. \E x \in Existing : Cardinality({d \in Existing : Earlier(d, x)}) = i
    BY <1>4, <1>5
  <2> QED BY <2>1 DEF Ranked
<1>7. \A c \in Existing : \E i \in 0 .. n - 1 : Ranked(i) = c
  <2> TAKE c \in Existing
  <2> DEFINE i == Cardinality(Below(Existing, R, c))
  <2>1. i \in 0 .. n - 1
    BY <1>5
  <2>2. Ranked(i) \in Existing /\ Cardinality(Below(Existing, R, Ranked(i))) = i
    BY <1>4, <1>6, <2>1
  <2>3. Ranked(i) = c
    BY <1>5, <2>2
  <2> QED BY <2>1, <2>3
<1>8. Listing \in [1 .. n -> Row] /\ \A i \in 1 .. n : Listing[i].id = Ranked(i - 1)
  <2>1. \A i \in 1 .. n : i - 1 \in 0 .. n - 1
    BY <1>5
  <2>2. \A i \in 1 .. n : Ranked(i - 1) \in Cluster /\ server[Ranked(i - 1)] \in Name
    BY <1>1, <1>6, <2>1
  <2> QED BY <2>2 DEF Listing, Row
<1>9. Listing \in Seq(Row)
  BY <1>5, <1>8, SeqDef
<1>10. Ids(Listing) = Existing
  <2>1. DOMAIN Listing = 1 .. n
    BY <1>8
  <2>2. \A i \in 1 .. n : Listing[i].id \in Existing
    <3> TAKE i \in 1 .. n
    <3>1. i - 1 \in 0 .. n - 1
      BY <1>5
    <3> QED BY <1>6, <1>8, <3>1
  <2>3. \A c \in Existing : \E i \in 1 .. n : Listing[i].id = c
    <3> TAKE c \in Existing
    <3>1. PICK i \in 0 .. n - 1 : Ranked(i) = c
      BY <1>7
    <3>2. i + 1 \in 1 .. n /\ (i + 1) - 1 = i
      BY <1>5, <3>1
    <3>3. Listing[i + 1].id = Ranked(i)
      BY <1>8, <3>2
    <3> QED BY <3>1, <3>2, <3>3
  <2> QED BY <2>1, <2>2, <2>3 DEF Ids
<1> QED BY <1>9, <1>10

\* A new cluster gets an id that none has.
LEMMA NextIdIsFree ==
    ASSUME TypeOK, NextId <= MaxCluster
    PROVE  NextId \in Cluster /\ server[NextId] = None
<1>1. Existing \in SUBSET Cluster /\ Existing \in SUBSET Int
  BY BoundAssumption DEF Existing, Cluster
<1>2. IsFiniteSet(Existing)
  <2>1. IsFiniteSet(Cluster)
    BY BoundAssumption, FS_Interval DEF Cluster
  <2> QED BY <1>1, <2>1, FS_Subset
<1>3. CASE Existing = {}
  <2>1. NextId = 1
    BY <1>3 DEF NextId
  <2>2. 1 \in Cluster
    BY <2>1, BoundAssumption DEF Cluster
  <2> QED BY <1>3, <2>1, <2>2 DEF Existing
<1>4. CASE Existing # {}
  <2> DEFINE top == CHOOSE c \in Existing : \A d \in Existing : d <= c
  <2>1. \E c \in Existing : \A d \in Existing : d <= c
    BY <1>1, <1>2, <1>4, FiniteHasEnds
  <2>2. top \in Existing /\ \A d \in Existing : d <= top
    BY <2>1
  <2>3. NextId = 1 + top
    BY <1>4 DEF NextId
  <2> HIDE DEF top
  <2>4. NextId \in Cluster /\ NextId \notin Existing
    BY <1>1, <2>2, <2>3, BoundAssumption DEF Cluster
  <2> QED BY <2>4 DEF Existing
<1> QED BY <1>3, <1>4

\* A cluster that is listed has a first place.
LEMMA FirstWithSound ==
    ASSUME NEW rows \in Seq(Row), NEW c \in Ids(rows)
    PROVE  FirstWith(rows, c) \in DOMAIN rows /\ rows[FirstWith(rows, c)].id = c
<1> DEFINE places == {i \in DOMAIN rows : rows[i].id = c}
<1>1. Len(rows) \in Nat /\ DOMAIN rows = 1 .. Len(rows)
  BY LenProperties
<1>2. places \in SUBSET Int /\ places # {}
  BY <1>1 DEF Ids
<1>3. IsFiniteSet(places)
  <2>1. IsFiniteSet(1 .. Len(rows))
    BY <1>1, FS_Interval
  <2>2. places \in SUBSET (1 .. Len(rows))
    BY <1>1
  <2> QED BY <2>1, <2>2, FS_Subset
<1>4. PICK m \in places : \A i \in places : m <= i
  <2> HIDE DEF places
  <2> QED BY <1>2, <1>3, FiniteHasEnds
<1>5. \A j \in 1 .. m - 1 : rows[j].id # c
  <2> TAKE j \in 1 .. m - 1
  <2>1. j \in DOMAIN rows /\ ~(m <= j)
    BY <1>1, <1>4
  <2> QED BY <1>4, <2>1
<1> QED BY <1>4, <1>5 DEF FirstWith

\* The active cluster is in the list, and the selected one if that is.
LEMMA ActiveSound ==
    ASSUME NEW rows \in Seq(Row), NEW s
    PROVE  /\ ActiveOf(rows, s) \in Object \cup {NoObject}
           /\ ActiveOf(rows, s) # NoObject => ActiveOf(rows, s).row.id \in Ids(rows)
           /\ ActiveOf(rows, s) # NoObject => ActiveOf(rows, s).row.id \in Cluster
           /\ ActiveOf(rows, s).row.id \in Ids(rows) \cup {None}
<1>1. /\ Len(rows) \in Nat /\ DOMAIN rows = 1 .. Len(rows)
      /\ \A i \in DOMAIN rows : rows[i] \in Row
  BY LenProperties, ElementOfSeq
<1>2. CASE rows = <<>>
  <2>1. ActiveOf(rows, s) = NoObject
    BY <1>2 DEF ActiveOf
  <2>2. NoObject.row.id = None
    BY DEF NoObject, NoRow
  <2> QED BY <2>1, <2>2
<1>3. CASE rows # <<>>
  <2> DEFINE i == IF s \in Ids(rows) THEN FirstWith(rows, s) ELSE 1
  <2>1. i \in DOMAIN rows
    <3>1. 1 \in DOMAIN rows
      BY <1>1, <1>3, EmptySeq
    <3> QED BY <3>1, FirstWithSound
  <2>2. ActiveOf(rows, s) = Nth(rows, i)
    BY <1>3 DEF ActiveOf
  <2> HIDE DEF i
  <2>3. ActiveOf(rows, s).row = rows[i] /\ ActiveOf(rows, s) \in Object
    BY <1>1, <2>1, <2>2 DEF Nth, Object
  <2>4. rows[i].id \in Ids(rows) /\ rows[i].id \in Cluster
    BY <1>1, <2>1 DEF Ids, Row
  <2> QED BY <2>3, <2>4
<1> QED BY <1>2, <1>3

-----------------------------------------------------------------------------
(* Types.                                                                  *)

\* A render keeps the types, and the form follows the active cluster.
LEMMA ShowSound ==
    ASSUME TypeOK, FormIsOfActive, NEW rows \in Seq(Row), NEW s \in Cluster \cup {None},
           NEW d \in {"closed", "add", "edit"}, Show(rows, s, d),
           d \in {dialog, "closed"} \/ dialog = "closed"
    PROVE  /\ list' = rows /\ list' \in Seq(Row)
           /\ selected' = s /\ selected' \in Cluster \cup {None}
           /\ dialog' = d /\ dialog' \in {"closed", "add", "edit"}
           /\ form' \in Object \cup {NoObject}
           /\ FormIsOfActive'
<1>1. list' = rows /\ selected' = s /\ dialog' = d
  BY DEF Show
<1>2. ActiveOf(rows, s) \in Object \cup {NoObject}
  BY ActiveSound
<1>3. Active' = ActiveOf(rows, s)
  BY <1>1 DEF Active, ActiveOf, Ids, Nth, FirstWith
<1>4. form' \in Object \cup {NoObject}
  BY <1>2 DEF Show, Given, TypeOK
<1>5. FormIsOfActive'
  <2>1. CASE d = "edit"
    BY <1>1, <1>3, <2>1 DEF Show, Given, FormIsOfActive
  <2>2. CASE d # "edit"
    BY <1>1, <2>2 DEF FormIsOfActive
  <2> QED BY <2>1, <2>2
<1> QED BY <1>1, <1>4, <1>5

\* A step that does not render keeps the form.
LEMMA QuietForm ==
    ASSUME FormIsOfActive, UNCHANGED <<list, selected, dialog, form>>
    PROVE  FormIsOfActive'
BY DEF FormIsOfActive, Active, ActiveOf, Ids, Nth, FirstWith

\* A fetch brings rows.
LEMMA FetchedType ==
    ASSUME TypeOK
    PROVE  Fetched \in [at : {"idle", "answered", "lost"}, rows : Seq(Row)]
BY ListingSound DEF Fetched

\* Writing rows keeps their types.
LEMMA WriteType ==
    ASSUME TypeOK
    PROVE  /\ \A n \in Name : Insert(n) =>
                 /\ server' \in [Cluster -> Name \cup {None}]
                 /\ writes' \in 0 .. MaxWrites
                 /\ past' \in [Cluster -> {"new", "gone", "reused"}]
           /\ \A c \in Cluster, n \in Name : Rename(c, n) =>
                 /\ server' \in [Cluster -> Name \cup {None}]
                 /\ writes' \in 0 .. MaxWrites
                 /\ past' \in [Cluster -> {"new", "gone", "reused"}]
           /\ \A c \in Cluster : DeleteRow(c) =>
                 /\ server' \in [Cluster -> Name \cup {None}]
                 /\ writes' \in 0 .. MaxWrites
                 /\ past' \in [Cluster -> {"new", "gone", "reused"}]
<1>1. Write => writes' \in 0 .. MaxWrites
  BY BoundAssumption DEF Write, TypeOK
<1>2. ASSUME NEW n \in Name, Insert(n)
      PROVE  /\ server' \in [Cluster -> Name \cup {None}]
             /\ writes' \in 0 .. MaxWrites
             /\ past' \in [Cluster -> {"new", "gone", "reused"}]
  <2>1. NextId \in Cluster
    BY <1>2, NextIdIsFree DEF Insert
  <2> QED BY <1>1, <1>2, <2>1 DEF Insert, TypeOK
<1>3. ASSUME NEW c \in Cluster, NEW n \in Name, Rename(c, n)
      PROVE  /\ server' \in [Cluster -> Name \cup {None}]
             /\ writes' \in 0 .. MaxWrites
             /\ past' \in [Cluster -> {"new", "gone", "reused"}]
  BY <1>1, <1>3 DEF Rename, TypeOK
<1>4. ASSUME NEW c \in Cluster, DeleteRow(c)
      PROVE  /\ server' \in [Cluster -> Name \cup {None}]
             /\ writes' \in 0 .. MaxWrites
             /\ past' \in [Cluster -> {"new", "gone", "reused"}]
  BY <1>1, <1>4 DEF DeleteRow, TypeOK
<1> QED BY <1>2, <1>3, <1>4

\* Which cluster is selected after a removal is another one of the list, if any.
NextOne ==
    LET others == {i \in DOMAIN list : list[i].id # ActiveId}
    IN IF others = {} THEN None
       ELSE list[CHOOSE i \in others : \A j \in others : i <= j].id

\* That cluster is in the list and is another one.
LEMMA NextOneSound ==
    ASSUME TypeOK
    PROVE  /\ NextOne \in Cluster \cup {None}
           /\ NextOne # None => NextOne \in Ids(list) \ {ActiveId}
<1> DEFINE others == {i \in DOMAIN list : list[i].id # ActiveId}
<1>1. /\ Len(list) \in Nat /\ DOMAIN list = 1 .. Len(list)
      /\ \A i \in DOMAIN list : list[i] \in Row
  BY LenProperties, ElementOfSeq DEF TypeOK
<1>2. CASE others = {}
  BY <1>2 DEF NextOne
<1>3. CASE others # {}
  <2>1. others \in SUBSET Int /\ others \in SUBSET (1 .. Len(list))
    BY <1>1
  <2>2. IsFiniteSet(others)
    <3>1. IsFiniteSet(1 .. Len(list))
      BY <1>1, FS_Interval
    <3> QED BY <2>1, <3>1, FS_Subset
  <2> DEFINE first == CHOOSE i \in others : \A j \in others : i <= j
  <2>3. first \in others
    <3> HIDE DEF others
    <3>1. \E i \in others : \A j \in others : i <= j
      BY <1>3, <2>1, <2>2, FiniteHasEnds
    <3> QED BY <3>1
  <2>4. NextOne = list[first].id
    BY <1>3 DEF NextOne
  <2> HIDE DEF first
  <2> QED BY <1>1, <2>3, <2>4 DEF Ids, Row
<1> QED BY <1>2, <1>3

\* A removal remembers that cluster for its callback.
LEMMA HandleRemoveIs ==
    ASSUME HandleRemove
    PROVE  /\ dialog = "closed" /\ delete.at = "idle" /\ Active # NoObject
           /\ DeleteRow(ActiveId)
           /\ delete' = [at |-> "answered", id |-> ActiveId, next |-> NextOne]
           /\ UNCHANGED <<tabVars, create, update>>
BY DEF HandleRemove, NextOne

\* What the tab and the server hold, and the form.
Typed == TypeOK /\ FormIsOfActive

\* Initially.
LEMMA InitTyped == Init => Typed
<1> SUFFICES ASSUME Init PROVE Typed
  OBVIOUS
<1>1. <<>> \in Seq(Row)
  BY EmptySeq
<1>2. TypeOK
  BY <1>1, BoundAssumption DEF Init, TypeOK, Quiet
<1>3. FormIsOfActive
  BY DEF Init, FormIsOfActive
<1> QED BY <1>2, <1>3 DEF Typed

\* A fetch starts, arrives or fails: the form follows the list that is shown.
LEMMA FetchTyped ==
    ASSUME Typed, StartFetch \/ FetchArrives \/ FetchFails
    PROVE  Typed'
<1> USE DEF Typed
<1>1. CASE StartFetch
  <2>1. fetch' \in [at : {"idle", "answered", "lost"}, rows : Seq(Row)]
    BY <1>1, FetchedType DEF StartFetch
  <2>2. FormIsOfActive'
    BY <1>1, QuietForm DEF StartFetch
  <2> QED BY <1>1, <2>1, <2>2 DEF StartFetch, TypeOK, mutationVars
<1>2. CASE FetchArrives
  <2>1. fetch.rows \in Seq(Row) /\ selected \in Cluster \cup {None}
        /\ dialog \in {"closed", "add", "edit"}
    BY DEF TypeOK
  <2>2. Show(fetch.rows, selected, dialog)
    BY <1>2 DEF FetchArrives
  <2>3. /\ list' \in Seq(Row) /\ selected' \in Cluster \cup {None}
        /\ dialog' \in {"closed", "add", "edit"} /\ form' \in Object \cup {NoObject}
        /\ FormIsOfActive'
    BY <2>1, <2>2, ShowSound
  <2>4. fetch' \in [at : {"idle", "answered", "lost"}, rows : Seq(Row)]
    BY <1>2, EmptySeq DEF FetchArrives, Quiet
  <2> QED BY <1>2, <2>3, <2>4 DEF FetchArrives, TypeOK, mutationVars
<1>3. CASE FetchFails
  <2>1. fetch' \in [at : {"idle", "answered", "lost"}, rows : Seq(Row)]
    BY <1>3, EmptySeq DEF FetchFails
  <2>2. FormIsOfActive'
    BY <1>3, QuietForm DEF FetchFails
  <2> QED BY <1>3, <2>1, <2>2 DEF FetchFails, TypeOK, mutationVars
<1> QED BY <1>1, <1>2, <1>3

\* The user selects, opens or closes.
LEMMA DialogTyped ==
    ASSUME Typed,
           (\E c \in Cluster : Select(c)) \/ Open("add") \/ Open("edit") \/ Close
    PROVE  Typed'
<1> USE DEF Typed
<1>1. /\ list \in Seq(Row) /\ selected \in Cluster \cup {None}
      /\ dialog \in {"closed", "add", "edit"}
  BY DEF TypeOK
<1>2. PICK s \in Cluster \cup {None}, d \in {"closed", "add", "edit"} :
         /\ Show(list, s, d)
         /\ d \in {dialog, "closed"} \/ dialog = "closed"
         /\ UNCHANGED <<server, writes, past, fetch, mutationVars>>
  BY <1>1 DEF Select, Open, Close
<1>3. /\ list' \in Seq(Row) /\ selected' \in Cluster \cup {None}
      /\ dialog' \in {"closed", "add", "edit"} /\ form' \in Object \cup {NoObject}
      /\ FormIsOfActive'
  BY <1>1, <1>2, ShowSound
<1> QED BY <1>2, <1>3 DEF TypeOK, mutationVars

\* The user submits, removes, or another admin writes.
LEMMA SubmitTyped ==
    ASSUME Typed,
           (\E n \in Name : SubmitCreate(n) \/ SubmitUpdate(n)) \/ HandleRemove \/ OthersWrite
    PROVE  Typed'
<1> USE DEF Typed
<1>1. ASSUME NEW n \in Name, SubmitCreate(n)
      PROVE  Typed'
  <2>1. NextId \in Cluster
    BY <1>1, NextIdIsFree DEF SubmitCreate, Insert
  <2>2. /\ server' \in [Cluster -> Name \cup {None}] /\ writes' \in 0 .. MaxWrites
        /\ past' \in [Cluster -> {"new", "gone", "reused"}]
    BY <1>1, WriteType DEF SubmitCreate
  <2>3. create' \in [at : {"answered"}, row : Row]
    BY <1>1, <2>1 DEF SubmitCreate, Row
  <2>4. FormIsOfActive'
    BY <1>1, QuietForm DEF SubmitCreate, tabVars
  <2> QED BY <1>1, <2>2, <2>3, <2>4 DEF SubmitCreate, TypeOK, tabVars
<1>2. ASSUME NEW n \in Name, SubmitUpdate(n)
      PROVE  Typed'
  <2>1. ActiveId \in Cluster
    <3>1. list \in Seq(Row)
      BY DEF TypeOK
    <3> QED BY <1>2, <3>1, ActiveSound DEF SubmitUpdate, ActiveId, Active
  <2>2. /\ server' \in [Cluster -> Name \cup {None}] /\ writes' \in 0 .. MaxWrites
        /\ past' \in [Cluster -> {"new", "gone", "reused"}]
    BY <1>2, <2>1, WriteType DEF SubmitUpdate
  <2>3. FormIsOfActive'
    BY <1>2, QuietForm DEF SubmitUpdate, tabVars
  <2> QED BY <1>2, <2>2, <2>3 DEF SubmitUpdate, TypeOK, tabVars
<1>3. CASE HandleRemove
  <2>1. ActiveId \in Cluster
    <3>1. list \in Seq(Row)
      BY DEF TypeOK
    <3> QED BY <1>3, <3>1, ActiveSound, HandleRemoveIs DEF ActiveId, Active
  <2>2. /\ server' \in [Cluster -> Name \cup {None}] /\ writes' \in 0 .. MaxWrites
        /\ past' \in [Cluster -> {"new", "gone", "reused"}]
    BY <1>3, <2>1, WriteType, HandleRemoveIs
  <2>3. delete' \in [at : {"answered", "settling"}, id : Cluster, next : Cluster \cup {None}]
    BY <1>3, <2>1, NextOneSound, HandleRemoveIs
  <2>4. FormIsOfActive'
    BY <1>3, QuietForm, HandleRemoveIs DEF tabVars
  <2> QED BY <1>3, <2>2, <2>3, <2>4, HandleRemoveIs DEF TypeOK, tabVars
<1>4. CASE OthersWrite
  <2>1. /\ server' \in [Cluster -> Name \cup {None}] /\ writes' \in 0 .. MaxWrites
        /\ past' \in [Cluster -> {"new", "gone", "reused"}]
    BY <1>4, WriteType DEF OthersWrite
  <2>2. FormIsOfActive'
    BY <1>4, QuietForm DEF OthersWrite, tabVars
  <2> QED BY <1>4, <2>1, <2>2 DEF OthersWrite, TypeOK, tabVars, mutationVars
<1> QED BY <1>1, <1>2, <1>3, <1>4

\* An answer, or the end of the refetch it waits for.
LEMMA AnswerTyped ==
    ASSUME Typed,
           CreateArrives \/ UpdateArrives \/ UpdateDone \/ DeleteArrives \/ DeleteDone
    PROVE  Typed'
<1> USE DEF Typed
<1>1. /\ list \in Seq(Row) /\ selected \in Cluster \cup {None}
      /\ dialog \in {"closed", "add", "edit"}
      /\ Invalidate \in [at : {"idle", "answered", "lost"}, rows : Seq(Row)]
  BY FetchedType DEF TypeOK, Invalidate
<1>2. CASE CreateArrives
  <2>1. create.row \in Row
    BY <1>2 DEF CreateArrives, TypeOK, NoCreate
  <2>2. Append(list, create.row) \in Seq(Row) /\ create.row.id \in Cluster
    BY <1>1, <2>1, AppendProperties DEF Row
  <2>3. Show(Append(list, create.row), create.row.id, "closed")
    BY <1>2 DEF CreateArrives
  <2>4. /\ list' \in Seq(Row) /\ selected' \in Cluster \cup {None}
        /\ dialog' \in {"closed", "add", "edit"} /\ form' \in Object \cup {NoObject}
        /\ FormIsOfActive'
    BY <2>2, <2>3, ShowSound
  <2> QED BY <1>1, <1>2, <2>4 DEF CreateArrives, TypeOK
<1>3. CASE UpdateArrives
  <2>1. FormIsOfActive'
    BY <1>3, QuietForm DEF UpdateArrives
  <2> QED BY <1>1, <1>3, <2>1 DEF UpdateArrives, TypeOK
<1>4. CASE UpdateDone
  <2>1. Show(list, selected, "closed")
    BY <1>4 DEF UpdateDone
  <2>2. /\ list' \in Seq(Row) /\ selected' \in Cluster \cup {None}
        /\ dialog' \in {"closed", "add", "edit"} /\ form' \in Object \cup {NoObject}
        /\ FormIsOfActive'
    BY <1>1, <2>1, ShowSound
  <2> QED BY <1>4, <2>2 DEF UpdateDone, TypeOK
<1>5. CASE DeleteArrives
  <2>1. FormIsOfActive'
    BY <1>5, QuietForm DEF DeleteArrives
  <2>2. delete' \in [at : {"answered", "settling"}, id : Cluster, next : Cluster \cup {None}]
    BY <1>5 DEF DeleteArrives, TypeOK, NoDelete
  <2> QED BY <1>1, <1>5, <2>1, <2>2 DEF DeleteArrives, TypeOK
<1>6. CASE DeleteDone
  <2> DEFINE s == IF delete.next # None THEN delete.next ELSE selected
  <2>1. s \in Cluster \cup {None}
    BY <1>1, <1>6 DEF DeleteDone, TypeOK, NoDelete
  <2>2. Show(list, s, dialog)
    BY <1>6 DEF DeleteDone
  <2>3. /\ list' \in Seq(Row) /\ selected' \in Cluster \cup {None}
        /\ dialog' \in {"closed", "add", "edit"} /\ form' \in Object \cup {NoObject}
        /\ FormIsOfActive'
    <3> HIDE DEF s
    <3> QED BY <1>1, <2>1, <2>2, ShowSound
  <2> QED BY <1>6, <2>3 DEF DeleteDone, TypeOK
<1> QED BY <1>2, <1>3, <1>4, <1>5, <1>6

\* Every step.
LEMMA NextTyped == Typed /\ [Next]_vars => Typed'
<1> SUFFICES ASSUME Typed, [Next]_vars PROVE Typed'
  OBVIOUS
<1>1. CASE UNCHANGED vars
  BY <1>1, QuietForm DEF vars, tabVars, mutationVars, Typed, TypeOK
<1>2. CASE Next
  BY <1>2, FetchTyped, DialogTyped, SubmitTyped, AnswerTyped DEF Next
<1> QED BY <1>1, <1>2

\* Throughout.
LEMMA AlwaysTyped == Spec => []Typed
BY InitTyped, NextTyped, PTL DEF Spec

\* The variables of tab and server have their types, whatever other admins do.
THEOREM TypeCorrect == Spec => []TypeOK
<1>1. Typed => TypeOK
  BY DEF Typed
<1> QED BY <1>1, AlwaysTyped, PTL

\* An open edit form was filled from the cluster its PATCH will name, as the list has
\* it now, through every fetch, answer and selection (ClusterDialog.tsx).
THEOREM FormIsAlwaysOfActive == Spec => []FormIsOfActive
<1>1. Typed => FormIsOfActive
  BY DEF Typed
<1> QED BY <1>1, AlwaysTyped, PTL

-----------------------------------------------------------------------------
(* The selection and the removal.                                          *)

\* A cluster the tab may name exists, or has been deleted since.
Known(c) == server[c] # None \/ past[c] # "new"
\* A list holds a cluster unless that has been deleted.
Holds(rows, c) == c \in Ids(rows) \/ past[c] # "new"
\* The clusters whose loss by a fetch would be noticed.
Held == Ids(list) \cup {selected, delete.next}
Mentioned == Held \cup Ids(fetch.rows) \cup {create.row.id}

\* What the tab names is known; the list, and the one that is to replace it, hold what
\* is selected and what the callback of a removal will select.
Kept ==
    /\ \A c \in Cluster : past[c] = "gone" => server[c] = None
    /\ \A c \in Cluster : c \in Mentioned => Known(c)
    /\ \A c \in Cluster : fetch.at = "answered" /\ c \in Held => Holds(fetch.rows, c)
    /\ \A c \in Cluster : c = delete.next => Holds(list, c)
    /\ \A c \in Cluster : list # <<>> /\ c = selected => Holds(list, c)

\* A cluster whose removal has gone through is in no list that was fetched since.
Removed ==
    delete.at # "idle" =>
        /\ past[delete.id] \in {"gone", "reused"}
        /\ delete.at = "settling" /\ past[delete.id] = "gone" =>
              /\ fetch.at = "answered" => delete.id \notin Ids(fetch.rows)
              /\ fetch.at = "idle" => delete.id \notin Ids(list)

\* What is known is in the list the server gives out.
LEMMA FetchedHolds ==
    ASSUME Typed
    PROVE  /\ \A c \in Cluster : c \in Ids(Fetched.rows) <=> server[c] # None
           /\ \A c \in Cluster : Known(c) => Holds(Fetched.rows, c)
           /\ Fetched.at = "answered"
<1>1. Ids(Listing) = Existing
  BY ListingSound DEF Typed
<1>2. Fetched.rows = Listing /\ Fetched.at = "answered"
  BY DEF Fetched
<1> QED BY <1>1, <1>2 DEF Existing, Known, Holds

\* Writing rows keeps what is known, and who is gone stays gone or is given out again.
LEMMA WriteKeeps ==
    ASSUME Typed, Kept,
           \/ \E n \in Name : Insert(n)
           \/ \E c \in Cluster, n \in Name : Rename(c, n)
           \/ \E c \in Cluster : DeleteRow(c)
    PROVE  /\ \A c \in Cluster : past'[c] = "gone" => server'[c] = None
           /\ \A c \in Cluster : Known(c) => Known(c)'
           /\ \A c \in Cluster : past[c] # "new" => past'[c] # "new"
           /\ \A c \in Cluster : past[c] # "new" /\ past'[c] = "gone" => past[c] = "gone"
<1>1. /\ server \in [Cluster -> Name \cup {None}] /\ past \in [Cluster -> {"new", "gone", "reused"}]
      /\ \A c \in Cluster : past[c] = "gone" => server[c] = None
      /\ None \notin Name
  BY BoundAssumption DEF Typed, TypeOK, Kept, None, Name
<1>2. ASSUME NEW n \in Name, Insert(n)
      PROVE  \A c \in Cluster :
                /\ past'[c] = "gone" => server'[c] = None
                /\ Known(c) => Known(c)'
                /\ past[c] # "new" => past'[c] # "new"
                /\ past[c] # "new" /\ past'[c] = "gone" => past[c] = "gone"
  <2>1. NextId \in Cluster
    BY <1>2, NextIdIsFree DEF Insert, Typed
  <2> HIDE DEF NextId
  <2> QED BY <1>1, <1>2, <2>1 DEF Insert, Known
<1>3. ASSUME NEW d \in Cluster, NEW n \in Name, Rename(d, n)
      PROVE  \A c \in Cluster :
                /\ past'[c] = "gone" => server'[c] = None
                /\ Known(c) => Known(c)'
                /\ past[c] # "new" => past'[c] # "new"
                /\ past[c] # "new" /\ past'[c] = "gone" => past[c] = "gone"
  BY <1>1, <1>3 DEF Rename, Known
<1>4. ASSUME NEW d \in Cluster, DeleteRow(d)
      PROVE  \A c \in Cluster :
                /\ past'[c] = "gone" => server'[c] = None
                /\ Known(c) => Known(c)'
                /\ past[c] # "new" => past'[c] # "new"
                /\ past[c] # "new" /\ past'[c] = "gone" => past[c] = "gone"
  BY <1>1, <1>4 DEF DeleteRow, Known
<1> QED BY <1>2, <1>3, <1>4

\* So a write keeps the invariant, if what it makes the tab name exists or is listed.
LEMMA WriteKept ==
    ASSUME Typed, Kept,
           \/ \E n \in Name : Insert(n)
           \/ \E c \in Cluster, n \in Name : Rename(c, n)
           \/ \E c \in Cluster : DeleteRow(c),
           UNCHANGED <<list, fetch, selected>>,
           \A c \in Cluster : c = create'.row.id => c = create.row.id \/ server'[c] # None,
           \A c \in Cluster : c = delete'.next => c = delete.next \/ c \in Ids(list)
    PROVE  Kept'
<1>1. /\ \A c \in Cluster : past'[c] = "gone" => server'[c] = None
      /\ \A c \in Cluster : Known(c) => Known(c)'
      /\ \A c \in Cluster : past[c] # "new" => past'[c] # "new"
  BY WriteKeeps
<1>2. Ids(list)' = Ids(list) /\ Ids(fetch.rows)' = Ids(fetch.rows)
  BY DEF Ids
<1>3. \A c \in Cluster : c \in Mentioned' => c \in Mentioned \/ server'[c] # None
  BY <1>2 DEF Mentioned, Held
<1>4. \A c \in Cluster : c \in Held' => c \in Held
  BY <1>2 DEF Held
<1>5. \A c \in Cluster : /\ Holds(list, c) => Holds(list, c)'
                         /\ Holds(fetch.rows, c) => Holds(fetch.rows, c)'
                         /\ c \in Ids(list) => Holds(list, c)'
  BY <1>1, <1>2 DEF Holds
<1>6. \A c \in Cluster : c \in Mentioned' => Known(c)'
  BY <1>1, <1>3 DEF Known, Kept
<1>7. \A c \in Cluster : fetch'.at = "answered" /\ c \in Held' => Holds(fetch.rows, c)'
  BY <1>4, <1>5 DEF Kept
<1>8. \A c \in Cluster : c = delete'.next => Holds(list, c)'
  BY <1>5 DEF Kept
<1>9. \A c \in Cluster : list' # <<>> /\ c = selected' => Holds(list, c)'
  BY <1>5 DEF Kept
<1> QED BY <1>1, <1>6, <1>7, <1>8, <1>9 DEF Kept

\* A step that writes no rows and starts a fetch keeps the invariant, if the tab names
\* nothing new and the list stays or grows.
LEMMA RefetchKept ==
    ASSUME Typed, Kept, UNCHANGED <<server, past>>, fetch' = Fetched,
           \A c \in Cluster : c \in Held' => c \in Mentioned,
           \A c \in Cluster : c = create'.row.id => c = create.row.id,
           \A c \in Cluster : c \in Ids(list) => c \in Ids(list)',
           \A c \in Cluster : c = delete'.next => c = delete.next,
           \A c \in Cluster :
              c = selected' => (c = selected /\ (list' # <<>> => list # <<>>)) \/ c \in Ids(list)'
    PROVE  Kept'
<1>1. /\ \A c \in Cluster : c \in Ids(Fetched.rows) <=> server[c] # None
      /\ \A c \in Cluster : Known(c) => Holds(Fetched.rows, c)
  BY FetchedHolds
<1>2. Ids(fetch.rows)' = Ids(Fetched.rows)
  BY DEF Ids
<1>3. \A c \in Cluster : Known(c)' <=> Known(c)
  BY DEF Known
<1>4. \A c \in Cluster : c \in Mentioned' => Known(c)'
  <2> TAKE c \in Cluster
  <2>1. CASE c \in Ids(Fetched.rows)
    BY <1>1, <1>3, <2>1 DEF Known
  <2>2. CASE c \notin Ids(Fetched.rows)
    <3>1. c \in Mentioned' => c \in Mentioned
      BY <1>2, <2>2 DEF Mentioned
    <3> QED BY <1>3, <3>1 DEF Kept
  <2> QED BY <2>1, <2>2
<1>5. \A c \in Cluster : c \in Held' => Holds(fetch.rows, c)'
  BY <1>1, <1>2 DEF Kept, Holds
<1>6. \A c \in Cluster : Holds(list, c) => Holds(list, c)'
  BY DEF Holds
<1>7. \A c \in Cluster : c = delete'.next => Holds(list, c)'
  BY <1>6 DEF Kept
<1>8. \A c \in Cluster : list' # <<>> /\ c = selected' => Holds(list, c)'
  BY <1>6 DEF Kept, Holds
<1>9. \A c \in Cluster : past'[c] = "gone" => server'[c] = None
  BY DEF Kept
<1> QED BY <1>4, <1>5, <1>7, <1>8, <1>9 DEF Kept

\* A step of the tab alone keeps the invariant, if it selects what is listed.
LEMMA TabKept ==
    ASSUME Kept, UNCHANGED <<server, past, list, create>>,
           fetch' = fetch \/ (fetch'.at \in {"idle", "lost"} /\ fetch'.rows = <<>>),
           \A c \in Cluster : c = delete'.next => c = delete.next,
           \A c \in Cluster : c = selected' => c \in {selected, delete.next} \/ c \in Ids(list)
    PROVE  Kept'
<1>1. Ids(list)' = Ids(list) /\ Ids(<<>>) = {}
  BY DEF Ids
<1>2. /\ \A c \in Cluster : c \in Ids(fetch.rows)' => c \in Ids(fetch.rows)
      /\ fetch'.at = "answered" => fetch.at = "answered" /\ Ids(fetch.rows)' = Ids(fetch.rows)
  BY DEF Ids
<1>3. \A c \in Cluster : c \in Held' => c \in Held
  BY <1>1 DEF Held
<1>4. \A c \in Cluster : c \in Mentioned' => c \in Mentioned
  BY <1>2, <1>3 DEF Mentioned
<1>5. \A c \in Cluster : Known(c)' <=> Known(c)
  BY DEF Known
<1>6. \A c \in Cluster : c \in Mentioned' => Known(c)'
  BY <1>4, <1>5 DEF Kept
<1>7. \A c \in Cluster : fetch'.at = "answered" /\ c \in Held' => Holds(fetch.rows, c)'
  BY <1>2, <1>3 DEF Kept, Holds
<1>8. \A c \in Cluster : Holds(list, c)' <=> Holds(list, c)
  BY <1>1 DEF Holds
<1>9. \A c \in Cluster : c = delete'.next => Holds(list, c)'
  BY <1>8 DEF Kept
<1>10. \A c \in Cluster : list' # <<>> /\ c = selected' => Holds(list, c)'
  BY <1>8 DEF Kept, Holds
<1>11. \A c \in Cluster : past'[c] = "gone" => server'[c] = None
  BY DEF Kept
<1> QED BY <1>6, <1>7, <1>9, <1>10, <1>11 DEF Kept

\* Initially nobody is mentioned but the selection of the last visit.
LEMMA InitKept == Init => Kept
<1> SUFFICES ASSUME Init PROVE Kept
  OBVIOUS
<1>1. Ids(list) = {} /\ Ids(fetch.rows) = {}
  BY DEF Init, Quiet, Ids
<1>2. \A c \in Cluster : c # create.row.id /\ c # delete.next
  BY BoundAssumption DEF Init, NoCreate, NoDelete, NoRow, None, Cluster
<1>3. \A c \in Cluster : c \in Mentioned => c = selected
  BY <1>1, <1>2 DEF Mentioned, Held
<1>4. \A c \in Cluster : c \in Mentioned => Known(c)
  BY <1>3 DEF Init, Known
<1> QED BY <1>2, <1>4 DEF Init, Kept, Quiet

\* A fetch starts, arrives or fails.
LEMMA FetchKept ==
    ASSUME Typed, Kept, StartFetch \/ FetchArrives \/ FetchFails
    PROVE  Kept'
<1>1. CASE StartFetch
  <2>1. Ids(list)' = Ids(list)
    BY <1>1 DEF StartFetch, Ids
  <2>2. Held' = Held
    BY <1>1, <2>1 DEF StartFetch, Held, mutationVars
  <2> QED BY <1>1, <2>1, <2>2, RefetchKept DEF StartFetch, mutationVars, Mentioned
<1>2. CASE FetchArrives
  <2>1. /\ list' = fetch.rows /\ selected' = selected /\ fetch'.at = "idle" /\ fetch'.rows = <<>>
        /\ fetch.at = "answered" /\ UNCHANGED <<server, past, mutationVars>>
    BY <1>2 DEF FetchArrives, Show, Quiet
  <2>2. Ids(list)' = Ids(fetch.rows) /\ Ids(fetch.rows)' = {}
    BY <2>1 DEF Ids
  <2>3. \A c \in Cluster : c \in Mentioned' => c \in Mentioned
    BY <2>1, <2>2 DEF Mentioned, Held, mutationVars
  <2>4. \A c \in Cluster : c \in Mentioned' => Known(c)'
    BY <2>1, <2>3 DEF Kept, Known
  <2>5. \A c \in Cluster : c \in {selected, delete.next} => Holds(list, c)'
    BY <2>1, <2>2 DEF Kept, Held, Holds
  <2> QED BY <2>1, <2>4, <2>5 DEF Kept, mutationVars
<1>3. CASE FetchFails
  BY <1>3, TabKept DEF FetchFails, mutationVars
<1> QED BY <1>1, <1>2, <1>3

\* The user selects from the list, opens or closes.
LEMMA DialogKept ==
    ASSUME Kept,
           (\E c \in Cluster : Select(c)) \/ Open("add") \/ Open("edit") \/ Close
    PROVE  Kept'
<1>1. /\ UNCHANGED <<server, past, fetch, list, create, delete>>
      /\ selected' = selected \/ selected' \in Ids(list)
  BY DEF Select, Open, Close, Show, mutationVars
<1> QED BY <1>1, TabKept

\* The user submits, removes, or another admin writes.
LEMMA SubmitKept ==
    ASSUME Typed, Kept,
           (\E n \in Name : SubmitCreate(n) \/ SubmitUpdate(n)) \/ HandleRemove \/ OthersWrite
    PROVE  Kept'
<1>1. ASSUME NEW n \in Name, SubmitCreate(n)
      PROVE  Kept'
  <2>1. NextId \in Cluster
    BY <1>1, NextIdIsFree DEF SubmitCreate, Insert, Typed
  <2>2. create'.row.id = NextId
    BY <1>1 DEF SubmitCreate
  <2>3. server'[NextId] # None
    <3> HIDE DEF NextId
    <3> QED BY <1>1, <2>1, BoundAssumption DEF SubmitCreate, Insert, Typed, TypeOK, Name, None
  <2>4. Insert(n) /\ UNCHANGED <<list, fetch, selected, delete>>
    BY <1>1 DEF SubmitCreate, tabVars
  <2> QED BY <2>2, <2>3, <2>4, WriteKept
<1>2. ASSUME NEW n \in Name, SubmitUpdate(n)
      PROVE  Kept'
  <2>1. ActiveId \in Cluster
    <3>1. list \in Seq(Row)
      BY DEF Typed, TypeOK
    <3> QED BY <1>2, <3>1, ActiveSound DEF SubmitUpdate, ActiveId, Active
  <2>2. Rename(ActiveId, n) /\ UNCHANGED <<list, fetch, selected, create, delete>>
    BY <1>2 DEF SubmitUpdate, tabVars
  <2> HIDE DEF ActiveId
  <2> QED BY <2>1, <2>2, WriteKept
<1>3. CASE HandleRemove
  <2>1. ActiveId \in Cluster
    <3>1. list \in Seq(Row)
      BY DEF Typed, TypeOK
    <3> QED BY <1>3, <3>1, ActiveSound, HandleRemoveIs DEF ActiveId, Active
  <2>2. DeleteRow(ActiveId) /\ UNCHANGED <<list, fetch, selected, create>>
    BY <1>3, HandleRemoveIs DEF tabVars
  <2>3. \A c \in Cluster : c = delete'.next => c \in Ids(list)
    <3>1. delete'.next = NextOne
      BY <1>3, HandleRemoveIs
    <3>2. NextOne # None => NextOne \in Ids(list)
      BY NextOneSound DEF Typed
    <3> QED BY <3>1, <3>2, BoundAssumption DEF Cluster, None
  <2> HIDE DEF ActiveId
  <2> QED BY <2>1, <2>2, <2>3, WriteKept
<1>4. CASE OthersWrite
  BY <1>4, WriteKept DEF OthersWrite, tabVars, mutationVars
<1> QED BY <1>1, <1>2, <1>3, <1>4

\* An answer, or the end of the refetch it waits for.
LEMMA AnswerKept ==
    ASSUME Typed, Kept,
           CreateArrives \/ UpdateArrives \/ UpdateDone \/ DeleteArrives \/ DeleteDone
    PROVE  Kept'
<1>1. CASE CreateArrives
  <2>1. /\ list' = Append(list, create.row) /\ selected' = create.row.id /\ fetch' = Fetched
        /\ create' = NoCreate /\ UNCHANGED <<server, past, delete>>
    BY <1>1 DEF CreateArrives, Show, Invalidate
  <2>2. create.row \in Row /\ list \in Seq(Row)
    BY <1>1 DEF CreateArrives, Typed, TypeOK, NoCreate
  <2>3. Ids(list)' = Ids(list) \cup {create.row.id}
    <3>1. /\ Len(list) \in Nat /\ DOMAIN list = 1 .. Len(list)
          /\ DOMAIN list' = 1 .. Len(list) + 1
          /\ \A i \in 1 .. Len(list) : list'[i] = list[i]
          /\ list'[Len(list) + 1] = create.row
      BY <2>1, <2>2, AppendProperties, LenProperties
    <3> QED BY <3>1 DEF Ids
  <2>4. \A c \in Cluster : c # create'.row.id
    BY <2>1, BoundAssumption DEF NoCreate, NoRow, None, Cluster
  <2>5. \A c \in Cluster : c \in Held' => c \in Mentioned
    BY <2>1, <2>3 DEF Held, Mentioned
  <2> QED BY <2>1, <2>3, <2>4, <2>5, RefetchKept
<1>2. CASE UpdateArrives \/ DeleteArrives
  <2>1. /\ fetch' = Fetched /\ UNCHANGED <<server, past, list, selected, create>>
        /\ delete'.next = delete.next
    <3>1. delete' = delete \/ delete' = [delete EXCEPT !.at = "settling"]
      BY <1>2 DEF UpdateArrives, DeleteArrives
    <3>2. delete'.next = delete.next
      BY <3>1 DEF Typed, TypeOK, NoDelete
    <3> QED BY <1>2, <3>2 DEF UpdateArrives, DeleteArrives, Invalidate
  <2>2. Ids(list)' = Ids(list)
    BY <2>1 DEF Ids
  <2>3. Held' = Held
    BY <2>1, <2>2 DEF Held
  <2> QED BY <2>1, <2>2, <2>3, RefetchKept DEF Mentioned
<1>3. CASE UpdateDone
  BY <1>3, TabKept DEF UpdateDone, Show
<1>4. CASE DeleteDone
  <2>1. \A c \in Cluster : c # delete'.next
    BY <1>4, BoundAssumption DEF DeleteDone, NoDelete, None, Cluster
  <2> QED BY <1>4, <2>1, TabKept DEF DeleteDone, Show
<1> QED BY <1>1, <1>2, <1>3, <1>4

\* Every step.
LEMMA NextKept == Typed /\ Kept /\ [Next]_vars => Kept'
<1> SUFFICES ASSUME Typed, Kept, [Next]_vars PROVE Kept'
  OBVIOUS
<1>1. CASE UNCHANGED vars
  BY <1>1, TabKept DEF vars, tabVars, mutationVars
<1>2. CASE Next
  BY <1>2, FetchKept, DialogKept, SubmitKept, AnswerKept DEF Next
<1> QED BY <1>1, <1>2

\* Throughout.
LEMMA AlwaysKept == Spec => []Kept
BY AlwaysTyped, InitKept, NextKept, PTL DEF Spec

\* The selected cluster stays in the list through every fetch, failure and removal,
\* unless it has been deleted (ClusterContext.tsx would then show the first one).
THEOREM SelectionIsKept == Spec => []SelectionHolds
<1>1. Typed /\ Kept => SelectionHolds
  BY DEF Typed, TypeOK, Kept, Holds, SelectionHolds
<1> QED BY <1>1, AlwaysTyped, AlwaysKept, PTL

\* A list fetched after the removal does not have the cluster.
LEMMA RefetchRemoved ==
    ASSUME Typed, Kept, UNCHANGED <<server, past>>, fetch' = Fetched,
           delete'.at # "idle" => delete'.id \in Cluster /\ past[delete'.id] \in {"gone", "reused"}
    PROVE  Removed'
<1>1. /\ \A c \in Cluster : c \in Ids(Fetched.rows) <=> server[c] # None
      /\ Fetched.at = "answered"
  BY FetchedHolds
<1>2. Ids(fetch.rows)' = Ids(Fetched.rows)
  BY DEF Ids
<1> QED BY <1>1, <1>2 DEF Removed, Kept

\* A write of rows does not change which lists have it.
LEMMA WriteRemoved ==
    ASSUME Typed, Kept, Removed,
           \/ \E n \in Name : Insert(n)
           \/ \E c \in Cluster, n \in Name : Rename(c, n)
           \/ \E c \in Cluster : DeleteRow(c),
           UNCHANGED <<list, fetch, delete>>
    PROVE  Removed'
<1>1. /\ \A c \in Cluster : past[c] # "new" => past'[c] # "new"
      /\ \A c \in Cluster : past[c] # "new" /\ past'[c] = "gone" => past[c] = "gone"
      /\ past' \in [Cluster -> {"new", "gone", "reused"}]
  BY WriteKeeps, WriteType DEF Typed
<1>2. Ids(list)' = Ids(list) /\ Ids(fetch.rows)' = Ids(fetch.rows)
  BY DEF Ids
<1>3. delete.at # "idle" => delete.id \in Cluster
  BY DEF Typed, TypeOK, NoDelete
<1> QED BY <1>1, <1>2, <1>3 DEF Removed

\* Every step.
LEMMA NextRemoved == Typed /\ Kept /\ Removed /\ [Next]_vars => Removed'
<1> SUFFICES ASSUME Typed, Kept, Removed, [Next]_vars PROVE Removed'
  OBVIOUS
<1>1. delete.at # "idle" => delete.id \in Cluster /\ past[delete.id] \in {"gone", "reused"}
  BY DEF Typed, TypeOK, NoDelete, Removed
<1>2. ASSUME UNCHANGED <<past, list, fetch, delete>>
      PROVE  Removed'
  BY <1>2 DEF Removed, Ids
<1>3. CASE UNCHANGED vars
  BY <1>2, <1>3 DEF vars, tabVars, mutationVars
<1>4. CASE StartFetch
  BY <1>1, <1>4, RefetchRemoved DEF StartFetch, mutationVars
<1>5. CASE FetchArrives
  <2>1. /\ fetch.at = "answered" /\ list' = fetch.rows /\ fetch'.at = "idle"
        /\ past' = past /\ delete' = delete
    BY <1>5 DEF FetchArrives, Show, Quiet, mutationVars
  <2>2. Ids(list)' = Ids(fetch.rows)
    BY <2>1 DEF Ids
  <2> QED BY <2>1, <2>2 DEF Removed
<1>6. CASE FetchFails
  BY <1>6 DEF FetchFails, Removed, mutationVars
<1>7. CASE (\E c \in Cluster : Select(c)) \/ Open("add") \/ Open("edit") \/ Close
  BY <1>2, <1>7 DEF Select, Open, Close, Show, mutationVars
<1>8. ASSUME NEW n \in Name, SubmitCreate(n)
      PROVE  Removed'
  <2>1. Insert(n) /\ UNCHANGED <<list, fetch, delete>>
    BY <1>8 DEF SubmitCreate, tabVars
  <2> QED BY <2>1, WriteRemoved
<1>9. ASSUME NEW n \in Name, SubmitUpdate(n)
      PROVE  Removed'
  <2>1. ActiveId \in Cluster
    <3>1. list \in Seq(Row)
      BY DEF Typed, TypeOK
    <3> QED BY <1>9, <3>1, ActiveSound DEF SubmitUpdate, ActiveId, Active
  <2>2. Rename(ActiveId, n) /\ UNCHANGED <<list, fetch, delete>>
    BY <1>9 DEF SubmitUpdate, tabVars
  <2> HIDE DEF ActiveId
  <2> QED BY <2>1, <2>2, WriteRemoved
<1>10. CASE HandleRemove
  <2>1. ActiveId \in Cluster
    <3>1. list \in Seq(Row)
      BY DEF Typed, TypeOK
    <3> QED BY <1>10, <3>1, ActiveSound, HandleRemoveIs DEF ActiveId, Active
  <2>2. delete'.at = "answered" /\ delete'.id = ActiveId /\ DeleteRow(ActiveId)
    BY <1>10, HandleRemoveIs
  <2> HIDE DEF ActiveId
  <2>3. past'[ActiveId] \in {"gone", "reused"}
    BY <2>1, <2>2 DEF DeleteRow, Typed, TypeOK
  <2> QED BY <2>2, <2>3 DEF Removed
<1>11. CASE CreateArrives
  <2>1. fetch' = Fetched /\ UNCHANGED <<server, past, delete>>
    BY <1>11 DEF CreateArrives, Invalidate
  <2> QED BY <1>1, <2>1, RefetchRemoved
<1>12. CASE UpdateArrives
  <2>1. fetch' = Fetched /\ UNCHANGED <<server, past, delete>>
    BY <1>12 DEF UpdateArrives, Invalidate
  <2> QED BY <1>1, <2>1, RefetchRemoved
<1>13. CASE UpdateDone
  BY <1>2, <1>13 DEF UpdateDone, Show
<1>14. CASE DeleteArrives
  <2>1. /\ fetch' = Fetched /\ UNCHANGED <<server, past>>
        /\ delete.at # "idle" /\ delete' = [delete EXCEPT !.at = "settling"]
    BY <1>14 DEF DeleteArrives, Invalidate
  <2>2. delete'.id = delete.id
    BY <2>1 DEF Typed, TypeOK, NoDelete
  <2> QED BY <1>1, <2>1, <2>2, RefetchRemoved
<1>15. CASE DeleteDone
  BY <1>15 DEF DeleteDone, NoDelete, Removed
<1>16. CASE OthersWrite
  <2>1. UNCHANGED <<list, fetch, delete>>
    BY <1>16 DEF OthersWrite, tabVars, mutationVars
  <2> QED BY <1>16, <2>1, WriteRemoved DEF OthersWrite
<1> QED
  BY <1>3, <1>4, <1>5, <1>6, <1>7, <1>8, <1>9, <1>10, <1>11, <1>12, <1>13, <1>14, <1>15, <1>16
  DEF Next

\* Throughout.
LEMMA AlwaysRemoved == Spec => []Removed
<1>1. Init => Removed
  BY DEF Init, NoDelete, Removed
<1> QED BY <1>1, AlwaysTyped, AlwaysKept, NextRemoved, PTL DEF Spec

\* When a removal has gone through and the list has come in again, the page has left
\* the removed cluster, unless the server has given its id out anew (clusters.ts,
\* Sidebar.tsx).
THEOREM RemovalsAreLeft == Spec => RemovedIsLeft
<1>1. ASSUME Typed, Removed, [Next]_vars,
             delete.at = "settling", delete'.at = "idle", fetch.at # "lost"
      PROVE  ActiveId' # delete.id \/ past[delete.id] = "reused"
  <2>1. DeleteDone
    BY <1>1 DEF Next, vars, tabVars, mutationVars, StartFetch, FetchArrives, FetchFails, Select,
       Open, Close, SubmitCreate, SubmitUpdate, HandleRemove, CreateArrives, UpdateArrives,
       UpdateDone, DeleteArrives, OthersWrite
  <2>2. fetch.at = "idle" /\ list' = list
    BY <1>1, <2>1 DEF DeleteDone, Show
  <2>3. delete.id \in Cluster
    BY <1>1 DEF Typed, TypeOK, NoDelete
  <2>4. ActiveId' \in Ids(list) \cup {None}
    <3>1. list \in Seq(Row)
      BY <1>1 DEF Typed, TypeOK
    <3>2. ActiveOf(list, selected') = Active'
      BY <2>2 DEF Active, ActiveOf, Ids, Nth, FirstWith
    <3>3. ActiveOf(list, selected').row.id \in Ids(list) \cup {None}
      BY <3>1, ActiveSound
    <3> QED BY <3>2, <3>3 DEF ActiveId
  <2>5. past[delete.id] = "gone" => delete.id \notin Ids(list)
    BY <1>1, <2>2 DEF Removed
  <2>6. past[delete.id] \in {"gone", "reused"}
    BY <1>1 DEF Removed
  <2> QED BY <2>3, <2>4, <2>5, <2>6, BoundAssumption DEF Cluster, None
<1>2. Typed /\ Removed /\ [Next]_vars =>
        [delete.at = "settling" /\ delete'.at = "idle" /\ fetch.at # "lost"
           => ActiveId' # delete.id \/ past[delete.id] = "reused"]_vars
  BY <1>1
<1> QED BY <1>2, AlwaysTyped, AlwaysRemoved, PTL DEF Spec, RemovedIsLeft
=============================================================================
