-------------------------- MODULE GatewayConfigProofs --------------------------
(***************************************************************************)
(* The routing table of one list of entries: its positions are a ranking   *)
(* of the enabled entries, it holds each of them once, and a lookup finds  *)
(* the first match.                                                        *)
(***************************************************************************)
EXTENDS GatewayConfig, FiniteSetTheorems, SequenceTheorems, WellFoundedInduction, TLAPS

-----------------------------------------------------------------------------
(* Ranking                                                                  *)

\* What the other lemmas need to know of the enabled entries of a list.
LEMMA EnabledFinite ==
    ASSUME NEW list, IsEntryList(list)
    PROVE  /\ IsFiniteSet(EnabledIn(list))
           /\ EnabledIn(list) \subseteq 1 .. Len(list)
           /\ \A i \in EnabledIn(list) : list[i].prefix \in Paths /\ Length(list[i].prefix) \in Nat
<1>1. EnabledIn(list) \subseteq 1 .. Len(list)
  BY DEF EnabledIn, IsEntryList
<1>2. IsFiniteSet(1 .. Len(list))
  BY FS_Interval DEF IsEntryList
<1>3. IsFiniteSet(EnabledIn(list))
  BY <1>1, <1>2, FS_Subset
<1>4. ASSUME NEW i \in EnabledIn(list)
      PROVE  list[i].prefix \in Paths /\ Length(list[i].prefix) \in Nat
  <2>1. list[i].prefix \in Paths
    BY <1>1, <1>4 DEF IsEntryList
  <2> QED
    BY <2>1, LengthAssumption
<1> QED
  BY <1>1, <1>3, <1>4

\* An entry that goes before another has a smaller position.
LEMMA PositionMonotone ==
    ASSUME NEW list, IsEntryList(list), NEW i \in EnabledIn(list), NEW j \in EnabledIn(list),
           GoesBefore(list, i, j)
    PROVE  Position(list, i) < Position(list, j)
<1> DEFINE Ahead(k) == {x \in EnabledIn(list) : GoesBefore(list, x, k)}
<1>1. /\ IsFiniteSet(EnabledIn(list))
      /\ EnabledIn(list) \subseteq 1 .. Len(list)
      /\ \A k \in EnabledIn(list) : list[k].prefix \in Paths /\ Length(list[k].prefix) \in Nat
  BY EnabledFinite
<1>2. Ahead(i) \subseteq Ahead(j)
  <2> SUFFICES ASSUME NEW x \in EnabledIn(list), GoesBefore(list, x, i)
               PROVE  GoesBefore(list, x, j)
    OBVIOUS
  <2>1. x \in Nat /\ i \in Nat /\ j \in Nat
    BY <1>1, LenProperties
  <2>2. /\ Length(list[x].prefix) \in Nat
        /\ Length(list[i].prefix) \in Nat
        /\ Length(list[j].prefix) \in Nat
    BY <1>1
  <2> QED
    BY <2>1, <2>2 DEF GoesBefore
<1>3. i \in Ahead(j) /\ i \notin Ahead(i)
  <2>1. i \in Nat /\ Length(list[i].prefix) \in Nat
    BY <1>1, LenProperties
  <2> QED
    BY <2>1 DEF GoesBefore
<1>4. IsFiniteSet(Ahead(j)) /\ IsFiniteSet(Ahead(i))
  BY <1>1, FS_Subset
<1>5. Cardinality(Ahead(i)) <= Cardinality(Ahead(j)) /\ Cardinality(Ahead(i)) # Cardinality(Ahead(j))
  BY <1>2, <1>3, <1>4, FS_Subset
<1>6. Cardinality(Ahead(i)) \in Nat /\ Cardinality(Ahead(j)) \in Nat
  BY <1>4, FS_CardinalityType
<1> QED
  BY <1>5, <1>6 DEF Position

\* Positions are those of a table of the enabled entries.
LEMMA PositionType ==
    ASSUME NEW list, IsEntryList(list), NEW i \in EnabledIn(list)
    PROVE  Position(list, i) \in 1 .. Cardinality(EnabledIn(list))
<1> DEFINE E == EnabledIn(list)
           Ahead == {x \in E : GoesBefore(list, x, i)}
<1>1. i \in Nat /\ Length(list[i].prefix) \in Nat
  BY EnabledFinite, LenProperties
<1>2. i \notin Ahead
  BY <1>1 DEF GoesBefore
<1>3. Ahead \subseteq E /\ Ahead # E
  BY <1>2
<1>4. /\ IsFiniteSet(Ahead)
      /\ Cardinality(Ahead) <= Cardinality(E)
      /\ Cardinality(Ahead) # Cardinality(E)
  BY <1>3, EnabledFinite, FS_Subset
<1>5. Cardinality(Ahead) \in Nat /\ Cardinality(E) \in Nat
  BY <1>4, EnabledFinite, FS_CardinalityType
<1> QED
  BY <1>4, <1>5 DEF Position

\* GoesBefore orders any two enabled entries.
LEMMA PositionInjective ==
    ASSUME NEW list, IsEntryList(list), NEW i \in EnabledIn(list), NEW j \in EnabledIn(list),
           i # j
    PROVE  Position(list, i) # Position(list, j)
<1>1. /\ i \in Nat /\ Length(list[i].prefix) \in Nat
      /\ j \in Nat /\ Length(list[j].prefix) \in Nat
  BY EnabledFinite, LenProperties
<1>2. GoesBefore(list, i, j) \/ GoesBefore(list, j, i)
  BY <1>1 DEF GoesBefore
<1>3. Position(list, i) < Position(list, j) \/ Position(list, j) < Position(list, i)
  BY <1>2, PositionMonotone
<1>4. Position(list, i) \in Int /\ Position(list, j) \in Int
  BY PositionType
<1> QED
  BY <1>3, <1>4

\* Every place of the table has an entry of the list.
LEMMA PositionsFilled ==
    ASSUME NEW list, IsEntryList(list), NEW k \in 1 .. Cardinality(EnabledIn(list))
    PROVE  \E i \in EnabledIn(list) : Position(list, i) = k
<1> DEFINE E == EnabledIn(list)
           N == Cardinality(E)
           rank == [i \in E |-> Position(list, i)]
<1>1. IsFiniteSet(E) /\ N \in Nat
  BY EnabledFinite, FS_CardinalityType
<1>2. rank \in [E -> 1 .. N]
  BY PositionType
<1>3. \A i, j \in E : rank[i] = rank[j] => i = j
  BY PositionInjective
<1>4. rank \in Injection(E, 1 .. N)
  BY <1>2, <1>3 DEF Injection, IsInjective
<1>5. IsFiniteSet(1 .. N) /\ Cardinality(1 .. N) = N
  BY <1>1, FS_Interval
<1>6. rank \in Surjection(E, 1 .. N)
  BY <1>1, <1>4, <1>5, FS_Injection
<1> QED
  BY <1>6 DEF Surjection

-----------------------------------------------------------------------------
(* The table                                                                *)

\* parseGatewayRoutes copies the prefix of an entry.
LEMMA ParseKeepsPrefix ==
    ASSUME NEW e, {"prefix", "fallbackEnabled", "enabled", "stripPrefix"} \subseteq DOMAIN e
    PROVE  ParseRoute(e).prefix = e.prefix
BY DEF ParseRoute

\* The table holds each enabled entry at its position, and nothing else.
LEMMA TableHoldsEnabled ==
    ASSUME NEW list, IsEntryList(list)
    PROVE  LET table == ParseGatewayRoutes(list)
           IN  /\ DOMAIN table = 1 .. Cardinality(EnabledIn(list))
               /\ \A k \in DOMAIN table : \E i \in EnabledIn(list) :
                     Position(list, i) = k /\ table[k] = ParseRoute(list[i])
               /\ \A i \in EnabledIn(list) :
                     /\ Position(list, i) \in DOMAIN table
                     /\ table[Position(list, i)] = ParseRoute(list[i])
<1> DEFINE table == ParseGatewayRoutes(list)
           At(k) == CHOOSE i \in EnabledIn(list) : Position(list, i) = k
<1>1. /\ DOMAIN table = 1 .. Cardinality(EnabledIn(list))
      /\ \A k \in DOMAIN table : table[k] = ParseRoute(list[At(k)])
  BY DEF ParseGatewayRoutes
<1>2. \A k \in DOMAIN table : At(k) \in EnabledIn(list) /\ Position(list, At(k)) = k
  BY <1>1, PositionsFilled
<1>3. ASSUME NEW i \in EnabledIn(list)
      PROVE  Position(list, i) \in DOMAIN table /\ At(Position(list, i)) = i
  BY <1>1, <1>2, PositionType, PositionInjective
<1> QED
  BY <1>1, <1>2, <1>3

\* A set of places has a first one.
LEMMA FirstPlace ==
    ASSUME NEW S, S \subseteq Nat, S # {}
    PROVE  \E m \in S : \A j \in S : m <= j
<1>1. PICK x \in S : \A y \in S : ~ (<<y, x>> \in OpToRel(<, Nat))
  BY NatLessThanWellFounded, WFMin, Zenon
<1>2. ASSUME NEW y \in S PROVE x <= y
  <2>1. x \in Nat /\ y \in Nat
    OBVIOUS
  <2>2. y < x => <<y, x>> \in OpToRel(<, Nat)
    BY <2>1 DEF OpToRel
  <2>3. ~ (y < x)
    BY <1>1, <2>2, Zenon
  <2> QED
    BY <2>1, <2>3
<1> QED
  BY <1>2

\* find() returns an entry no other match stands before.
LEMMA FirstMatchIsFirst ==
    ASSUME NEW table, NEW path, Hits(table, path) \subseteq Nat, Hits(table, path) # {}
    PROVE  \E m \in Hits(table, path) :
              /\ FirstMatch(table, path) = table[m]
              /\ \A j \in Hits(table, path) : m <= j
BY FirstPlace DEF FirstMatch

\* Of two prefixes of one path one is a prefix of the other.
LEMMA PrefixesComparable ==
    ASSUME NEW path \in Seq(STRING), NEW p \in Seq(STRING), NEW q \in Seq(STRING),
           Under(path, p), Under(path, q)
    PROVE  Under(p, q) \/ Under(q, p)
<1>1. ASSUME NEW a \in Seq(STRING), NEW b \in Seq(STRING), Under(path, a), Under(path, b),
             Len(a) <= Len(b)
      PROVE  Under(b, a)
  <2>1. \A i \in 1 .. Len(a) : a[i] = path[i] 
    BY <1>1, SubSeqProperties, LenProperties DEF Under, Seqs!IsPrefix
  <2>2. \A i \in 1 .. Len(b) : b[i] = path[i]
    BY <1>1, SubSeqProperties, LenProperties DEF Under, Seqs!IsPrefix
  <2>3. /\ SubSeq(a, 1, Len(a)) = a
        /\ SubSeq(b, 1, Len(a)) \in Seq(STRING)
        /\ Len(SubSeq(b, 1, Len(a))) = Len(a)
        /\ \A i \in 1 .. Len(a) : SubSeq(b, 1, Len(a))[i] = b[i]
    BY <1>1, SubSeqProperties, SubSeqFull, LenProperties
  <2>4. SubSeq(b, 1, Len(a)) = a
    BY <1>1, <2>1, <2>2, <2>3, SeqEqual, LenProperties
  <2> QED
    BY <1>1, <2>3, <2>4 DEF Under, Seqs!IsPrefix
<1> QED
  BY <1>1, LenProperties
===============================================================================
