------------------------- MODULE ConfigOfferProofs -------------------------
(***************************************************************************)
(* Proof of RefinesOfferFacts: the configuration graph, seeded with the    *)
(* offer of Config::file_offer only, implements OfferFacts.                *)
(*                                                                         *)
(* The argument: of the 13 or 18 quads of that offer, the 5th, 6th, 9th,   *)
(* 13th and 18th are the last that their query needs (FactIn), so what has *)
(* been inserted tells which facts are in the graph (FactsOfSeedings) and  *)
(* what the permissions' query answers (AnswersOfSeedings).  FactsKnown,   *)
(* which says both, holds of every state because StoreInvariant does; an   *)
(* insert therefore adds the next fact, or is a stutter (InsertRefines).   *)
(***************************************************************************)
EXTENDS ConfigOffer, ConfigGraphReads

(* How many of the five facts n quads complete.                            *)
LEMMA FactCounts ==
  ASSUME NEW n \in Nat
  PROVE  FactsCompleted(n) =
           IF n < 5 THEN 0 ELSE IF n < 6 THEN 1 ELSE IF n < 9 THEN 2
           ELSE IF n < 13 THEN 3 ELSE IF n < 18 THEN 4 ELSE 5
<1> DEFINE F == {i \in {5, 6, 9, 13, 18} : i <= n}
<1>1. /\ IsFiniteSet({}) /\ Cardinality({}) = 0
      /\ IsFiniteSet({5}) /\ Cardinality({5}) = 1
      /\ IsFiniteSet({5, 6}) /\ Cardinality({5, 6}) = 2
      /\ IsFiniteSet({5, 6, 9}) /\ Cardinality({5, 6, 9}) = 3
      /\ IsFiniteSet({5, 6, 9, 13}) /\ Cardinality({5, 6, 9, 13}) = 4
      /\ Cardinality({5, 6, 9, 13, 18}) = 5
  <2>1. IsFiniteSet({}) /\ Cardinality({}) = 0
    BY FS_EmptySet
  <2>2. IsFiniteSet({5}) /\ Cardinality({5}) = 1
    BY FS_Singleton
  <2>3. IsFiniteSet({5} \cup {6}) /\ Cardinality({5} \cup {6}) = 2
    BY <2>2, FS_AddElement
  <2>4. {5} \cup {6} = {5, 6}
    OBVIOUS
  <2>5. IsFiniteSet({5, 6} \cup {9}) /\ Cardinality({5, 6} \cup {9}) = 3
    BY <2>3, <2>4, FS_AddElement
  <2>6. {5, 6} \cup {9} = {5, 6, 9}
    OBVIOUS
  <2>7. IsFiniteSet({5, 6, 9} \cup {13}) /\ Cardinality({5, 6, 9} \cup {13}) = 4
    BY <2>5, <2>6, FS_AddElement
  <2>8. {5, 6, 9} \cup {13} = {5, 6, 9, 13}
    OBVIOUS
  <2>9. Cardinality({5, 6, 9, 13} \cup {18}) = 5
    BY <2>7, <2>8, FS_AddElement
  <2>10. {5, 6, 9, 13} \cup {18} = {5, 6, 9, 13, 18}
    OBVIOUS
  <2> QED
    BY <2>1, <2>2, <2>3, <2>4, <2>5, <2>6, <2>7, <2>8, <2>9, <2>10
<1>2. F = IF n < 5 THEN {} ELSE IF n < 6 THEN {5} ELSE IF n < 9 THEN {5, 6}
          ELSE IF n < 13 THEN {5, 6, 9} ELSE IF n < 18 THEN {5, 6, 9, 13}
          ELSE {5, 6, 9, 13, 18}
  OBVIOUS
<1>3. FactsCompleted(n) = Cardinality(F)
  BY DEF FactsCompleted
<1> HIDE DEF F
<1> QED
  BY <1>1, <1>2, <1>3

(* How many constraints its permission has.                                *)
K1 == IF NotAfter = NoDeadline THEN 0 ELSE 1

(* Where the quads of Config's offer are.                                  *)
LEMMA ConfigPlaces ==
  ASSUME offer \in FileOffer, offer = file_offer
  PROVE  /\ P = 1 /\ K(1) = K1
         /\ \A a : PermissionPlace(1, a) = 9 + 0 + a
         /\ \A b : ConstraintPlace(1, 1, b) = 9 + 0 + 4 + 5 * (1-1) + b
         /\ \A d, s : Len(Quads(d, s)) = 13 + 5 * K1
<1>1. P = 1 /\ K(1) = K1
  <2>1. PICK p : p = offer.permissions[1]
    OBVIOUS
  <2>2. Len(offer.permissions) = 1 /\ p.constraints =
           IF NotAfter = NoDeadline THEN <<>>
           ELSE << [left_operand |-> "dateTime", operator |-> "lteq",
                    right_operand |-> NotAfter] >>
    BY <2>1 DEF file_offer
  <2> QED
    BY <2>1, <2>2 DEF P, K, K1
<1>2. BlockStart[1] = 0 /\ BlockStart[2] = 4 + 5 * K1
  BY <1>1, StartIsOffsets DEF IsOffsets, BlockLen
<1>3. \A d, s : Len(Quads(d, s)) = 9 + (4 + 5 * K1)
  BY <1>1, <1>2, QuadPlaces
<1> QED
  BY <1>1, <1>2, <1>3 DEF PermissionPlace, ConstraintPlace, K1

(* What a reader sees of a seeding of it.                                  *)
LEMMA ConfigSeen ==
  ASSUME StoreInvariant, offer = file_offer, NEW s \in Seeder
  PROVE  /\ N(s) \in 0..13 + 5 * K1 /\ D(s) \in Dataset
         /\ PermissionsSeen(s) = IF 13 <= N(s) THEN 1 ELSE 0
         /\ 13 <= N(s) => ConstraintsSeen(s, 1) = IF 18 <= N(s) THEN 1 ELSE 0
         /\ s \in SeedersOf(D(s)) \/ N(s) = 0
<1>1. offer \in FileOffer
  BY OffersAssumption DEF StoreInvariant
<1>2. N(s) \in 0..13 + 5 * K1 /\ D(s) \in Dataset
  <2>1. N(s) \in Nat /\ D(s) \in Dataset /\ N(s) <= Len(Quads(D(s), s))
    BY DEF StoreInvariant, SeedingOK, N, D
  <2>2. Len(Quads(D(s), s)) = 13 + 5 * K1 /\ K1 \in {0, 1}
    BY <1>1, ConfigPlaces DEF K1
  <2> QED
    BY <2>1, <2>2
<1>3. PermissionPlace(1, 4) = 13 /\ ConstraintPlace(1, 1, 5) = 18
  BY <1>1, ConfigPlaces
<1>4. P = 1 /\ K(1) = K1 /\ K1 \in {0, 1}
  BY <1>1, ConfigPlaces DEF K1
<1>5. /\ PermissionsSeen(s) \in 0..1
      /\ 13 <= N(s) <=> 1 <= PermissionsSeen(s)
      /\ ConstraintsSeen(s, 1) \in 0..K1
      /\ \A j \in 1..K1 : ConstraintPlace(1, j, 5) <= N(s) <=> j <= ConstraintsSeen(s, 1)
  BY <1>3, <1>4, SeenInOrder
<1>6. PermissionsSeen(s) = IF 13 <= N(s) THEN 1 ELSE 0
  BY <1>5
<1>7. ConstraintsSeen(s, 1) = IF 18 <= N(s) THEN 1 ELSE 0
  <2>1. CASE K1 = 0
    BY <1>2, <1>5, <2>1
  <2>2. CASE K1 = 1
    BY <1>3, <1>5, <2>2
  <2> QED
    BY <1>4, <2>1, <2>2
<1>8. s \in SeedersOf(D(s)) \/ N(s) = 0
  BY DEF SeedersOf, D, N, StoreInvariant, SeedingOK
<1> QED
  BY <1>2, <1>6, <1>7, <1>8

(* The facts that a seeding of d that has inserted n quads has completed.  *)
FactIn(d, s, n, t) ==
  \/ 5 <= n /\ t = <<d, "filePath", "iri">>
  \/ 6 <= n /\ t = <<d, "mediaType", "iri">>
  \/ 9 <= n /\ t = <<d, "policyHeader", "iri">>
  \/ 13 <= n /\ t = <<d, "permission", s>>
  \/ 18 <= n /\ t = <<d, "constraint", s>>

(* The facts in the graph are those that its seedings have completed.      *)
LEMMA FactsOfSeedings ==
  ASSUME StoreInvariant, offer = file_offer
  PROVE  \A t : t \in FactGraph <=> \E s \in Seeder : FactIn(D(s), s, N(s), t)
<1>1. \A s \in Seeder : N(s) \in Nat /\ D(s) \in Dataset
  BY DEF StoreInvariant, N, D
<1>2. ASSUME NEW d
      PROVE  /\ file_path(d) # {} <=> \E s \in Seeder : D(s) = d /\ 5 <= N(s)
             /\ media_type(d) # {} <=> \E s \in Seeder : D(s) = d /\ 6 <= N(s)
             /\ header(d) # {} <=> \E s \in Seeder : D(s) = d /\ 9 <= N(s)
  <2>1. file_path(d) # {} <=> \E s \in Seeder : D(s) = d /\ 5 <= N(s)
    BY HeaderObjects DEF file_path
  <2>2. media_type(d) # {} <=> \E s \in Seeder : D(s) = d /\ 6 <= N(s)
    BY HeaderObjects DEF media_type
  <2>3. PICK T, A : T = Objects(policy_iri(d), odrl("target"))
                    /\ A = Objects(policy_iri(d), odrl("assigner"))
    OBVIOUS
  <2>4. T # {} <=> \E s \in Seeder : D(s) = d /\ 8 <= N(s)
    BY <2>3, HeaderObjects
  <2>5. A # {} <=> \E s \in Seeder : D(s) = d /\ 9 <= N(s)
    BY <2>3, HeaderObjects
  <2>6. header(d) # {} <=> T # {} /\ A # {}
    <3>1. header(d) = T \X A
      BY <2>3 DEF header
    <3>2. \A x \in T : \A y \in A : <<x, y>> \in T \X A
      OBVIOUS
    <3>3. \A z \in T \X A : z[1] \in T /\ z[2] \in A
      OBVIOUS
    <3> QED
      BY <3>1, <3>2, <3>3
  <2> QED
    BY <1>1, <2>1, <2>2, <2>4, <2>5, <2>6
<1>3. ASSUME NEW d
      PROVE  \A p : p \in PermissionNodesOf(d) <=>
               \E s \in Seeder : D(s) = d /\ 13 <= N(s) /\ p = PermissionNode(s, 1)
  <2>1. ASSUME NEW s \in Seeder
        PROVE  /\ s \in SeedersOf(d) => D(s) = d
               /\ D(s) = d /\ 13 <= N(s) => s \in SeedersOf(d)
               /\ \A i \in 1..PermissionsSeen(s) : i = 1 /\ 13 <= N(s)
               /\ 13 <= N(s) => 1 \in 1..PermissionsSeen(s)
    BY <1>1, ConfigSeen DEF SeedersOf, D
  <2>2. SeedersOf(d) \subseteq Seeder
    BY DEF SeedersOf
  <2>3. \A p : p \in PermissionNodesOf(d) <=>
           \E s \in SeedersOf(d) : \E i \in 1..PermissionsSeen(s) : p = PermissionNode(s, i)
    BY PermissionNodesSeen
  <2> QED
    BY <2>1, <2>2, <2>3
<1>4. ASSUME NEW s \in Seeder, 13 <= N(s)
      PROVE  ConstraintNodesOf(PermissionNode(s, 1)) # {} <=> 18 <= N(s)
  <2>1. 1 \in 1..P
    BY OffersAssumption, ConfigPlaces DEF StoreInvariant
  <2>2. ConstraintsSeen(s, 1) = IF 18 <= N(s) THEN 1 ELSE 0
    BY <1>4, ConfigSeen
  <2>3. \A c : c \in ConstraintNodesOf(PermissionNode(s, 1)) <=>
           \E j \in 1..ConstraintsSeen(s, 1) : c = ConstraintNode(s, 1, j)
    BY <2>1, ConstraintNodesSeen
  <2> QED
    BY <2>2, <2>3
<1>5. \A s : PermissionNode(s, 1)[2] = s
  BY DEF PermissionNode
<1>6. ASSUME NEW d, NEW t
      PROVE  t \in FactsOf(d) <=> \E s \in Seeder : D(s) = d /\ FactIn(d, s, N(s), t)
  <2>1. t \in FactsOf(d) <=>
          \/ file_path(d) # {} /\ t = <<d, "filePath", "iri">>
          \/ media_type(d) # {} /\ t = <<d, "mediaType", "iri">>
          \/ header(d) # {} /\ t = <<d, "policyHeader", "iri">>
          \/ \E p \in PermissionNodesOf(d) : t = <<d, "permission", p[2]>>
          \/ \E p \in PermissionNodesOf(d) :
               ConstraintNodesOf(p) # {} /\ t = <<d, "constraint", p[2]>>
    BY DEF FactsOf
  <2>2. (\E p \in PermissionNodesOf(d) : t = <<d, "permission", p[2]>>) <=>
          \E s \in Seeder : D(s) = d /\ 13 <= N(s) /\ t = <<d, "permission", s>>
    BY <1>3, <1>5
  <2>3. (\E p \in PermissionNodesOf(d) :
               ConstraintNodesOf(p) # {} /\ t = <<d, "constraint", p[2]>>) <=>
          \E s \in Seeder : D(s) = d /\ 18 <= N(s) /\ t = <<d, "constraint", s>>
    <3>1. \A s \in Seeder : 18 <= N(s) => 13 <= N(s)
      BY <1>1
    <3> QED
      BY <1>3, <1>4, <1>5, <3>1
  <2> QED
    BY <1>2, <2>1, <2>2, <2>3 DEF FactIn
<1> QED
  BY <1>1, <1>6 DEF FactGraph

(* What policy_jsonld answers about a dataset, as evaluation tells answers *)
(* apart, depends on the facts only.                                       *)
LEMMA AnswersOfSeedings ==
  ASSUME StoreInvariant, offer = file_offer
  PROVE  PermissionAnswers = Facts!Answers(FactGraph)
<1>1. \A s \in Seeder : N(s) \in Nat /\ D(s) \in Dataset
  BY DEF StoreInvariant, N, D
<1>2. \A d : CopiesCannotMix(d)
  <2>1. DOMAIN offer.permissions = 1..P /\ P = 1 /\ K(1) <= 1
    BY OffersAssumption, OfferType, ConfigPlaces DEF StoreInvariant, K1
  <2> QED
    BY <2>1 DEF CopiesCannotMix, K
<1>3. ASSUME NEW d, NEW array \in permissions_jsonld(d), NEW b
      PROVE  (\E i \in DOMAIN array : b = (array[i].constraints # <<>>)) <=>
             \E s \in Seeder : D(s) = d /\ 13 <= N(s) /\ b = (18 <= N(s))
  <2>1. PICK entries \in Groupings(d) : array = PermissionArray(entries)
    BY DEF permissions_jsonld
  <2>2. IsGrouping(d, entries)
    BY <1>2, GroupingsSeen
  <2>3. /\ DOMAIN entries = 1..Len(entries)
        /\ \A k \in 1..Len(entries) : entries[k] \in Entry(d)
    BY <2>2, ElementOfSeq DEF IsGrouping
  <2>4. ASSUME NEW k \in 1..Len(entries), NEW s, s = entries[k].p[2]
        PROVE  /\ s \in Seeder /\ D(s) = d /\ 13 <= N(s)
               /\ (array[k].constraints # <<>>) = (18 <= N(s))
    <3>1. PICK e \in Entry(d) : e = entries[k]
      BY <2>3
    <3>2. PICK cs \in Seq(ConstraintSpec) : cs = e.constraints
      BY DEF Entry
    <3>3. PICK i : i = e.p[3]
      OBVIOUS
    <3>4. s \in SeedersOf(d) /\ i \in 1..PermissionsSeen(s) /\ Len(cs) = ConstraintsSeen(s, i)
      BY <2>2, <2>4, <3>1, <3>2, <3>3 DEF IsGrouping, EntrySeen
    <3>5. s \in Seeder /\ D(s) = d
      BY <3>4 DEF SeedersOf, D
    <3>6. i = 1 /\ 13 <= N(s) /\ Len(cs) = IF 18 <= N(s) THEN 1 ELSE 0
      <4>1. /\ PermissionsSeen(s) = IF 13 <= N(s) THEN 1 ELSE 0
            /\ 13 <= N(s) => ConstraintsSeen(s, 1) = IF 18 <= N(s) THEN 1 ELSE 0
        BY <3>5, ConfigSeen
      <4>2. 13 <= N(s) /\ i = 1
        BY <3>4, <4>1
      <4> QED
        BY <3>4, <4>1, <4>2
    <3>7. array[k].constraints = cs
      BY <2>1, <2>3, <3>1, <3>2 DEF PermissionArray
    <3>8. cs # <<>> <=> 18 <= N(s)
      <4>1. cs # <<>> <=> Len(cs) # 0
        BY EmptySeq
      <4> QED
        BY <3>6, <4>1
    <3> QED
      BY <3>5, <3>6, <3>7, <3>8
  <2>5. ASSUME NEW s \in Seeder, D(s) = d, 13 <= N(s)
        PROVE  \E k \in 1..Len(entries) : entries[k].p[2] = s
    <3>1. s \in SeedersOf(d) /\ 1 \in 1..PermissionsSeen(s)
      BY <1>1, <2>5, ConfigSeen
    <3>2. PICK k \in 1..Len(entries) : entries[k].p = PermissionNode(s, 1)
      BY <2>2, <3>1 DEF IsGrouping
    <3> QED
      BY <3>2 DEF PermissionNode
  <2>6. DOMAIN array = 1..Len(entries)
    BY <2>1, <2>3 DEF PermissionArray
  <2>7. ASSUME NEW k \in 1..Len(entries), b = (array[k].constraints # <<>>)
        PROVE  \E s \in Seeder : D(s) = d /\ 13 <= N(s) /\ b = (18 <= N(s))
    <3>1. PICK s : s = entries[k].p[2]
      OBVIOUS
    <3>2. s \in Seeder /\ D(s) = d /\ 13 <= N(s) /\ (array[k].constraints # <<>>) = (18 <= N(s))
      BY <2>4, <3>1
    <3> QED
      BY <2>7, <3>2
  <2>8. ASSUME NEW s \in Seeder, D(s) = d, 13 <= N(s), b = (18 <= N(s))
        PROVE  \E k \in 1..Len(entries) : b = (array[k].constraints # <<>>)
    <3>1. PICK k \in 1..Len(entries) : entries[k].p[2] = s
      BY <2>5, <2>8
    <3>2. (array[k].constraints # <<>>) = (18 <= N(s))
      BY <2>4, <3>1
    <3> QED
      BY <2>8, <3>2
  <2> QED
    BY <2>6, <2>7, <2>8
<1>4. ASSUME NEW d PROVE \E array : array \in permissions_jsonld(d)
  BY AnOrderingExists DEF permissions_jsonld, Groupings
<1>5. ASSUME NEW d \in Dataset, NEW b
      PROVE  b \in PermissionAnswers[d] <=>
             \E s \in Seeder : D(s) = d /\ 13 <= N(s) /\ b = (18 <= N(s))
  <2>1. b \in PermissionAnswers[d] <=>
          \E array \in permissions_jsonld(d) :
            \E i \in DOMAIN array : b = (array[i].constraints # <<>>)
    BY DEF PermissionAnswers
  <2>2. PICK array : array \in permissions_jsonld(d)
    BY <1>4
  <2>3. ASSUME NEW a \in permissions_jsonld(d)
        PROVE  (\E i \in DOMAIN a : b = (a[i].constraints # <<>>)) <=>
               \E s \in Seeder : D(s) = d /\ 13 <= N(s) /\ b = (18 <= N(s))
    BY <1>3
  <2> QED
    BY <2>1, <2>2, <2>3
<1>6. ASSUME NEW d \in Dataset, NEW s
      PROVE  /\ <<d, "permission", s>> \in FactGraph <=> s \in Seeder /\ D(s) = d /\ 13 <= N(s)
             /\ <<d, "constraint", s>> \in FactGraph <=> s \in Seeder /\ D(s) = d /\ 18 <= N(s)
  <2>1. \A t : t \in FactGraph <=> \E r \in Seeder : FactIn(D(r), r, N(r), t)
    BY FactsOfSeedings
  <2> QED
    BY <2>1 DEF FactIn
<1>7. ASSUME NEW d \in Dataset, NEW b
      PROVE  b \in Facts!PermissionRows(FactGraph, d) <=>
             \E s \in Seeder : D(s) = d /\ 13 <= N(s) /\ b = (18 <= N(s))
  <2>1. \A s : s \in Facts!PermissionNodes(FactGraph, d) <=> s \in Seeder /\ D(s) = d /\ 13 <= N(s)
    <3>1. \A q \in FactGraph : q = <<q[1], q[2], q[3]>>
      BY FactsOfSeedings DEF FactIn
    <3>2. \A s : s \in Facts!PermissionNodes(FactGraph, d) <=> <<d, "permission", s>> \in FactGraph
      BY <3>1 DEF Facts!PermissionNodes
    <3> QED
      BY <1>6, <3>2
  <2>2. \A s : Facts!IsConstrained(FactGraph, d, s) = (<<d, "constraint", s>> \in FactGraph)
    BY DEF Facts!IsConstrained
  <2>3. b \in Facts!PermissionRows(FactGraph, d) <=>
          \E s \in Facts!PermissionNodes(FactGraph, d) : b = (<<d, "constraint", s>> \in FactGraph)
    BY <2>2 DEF Facts!PermissionRows
  <2>4. ASSUME NEW s \in Seeder, D(s) = d
        PROVE  (<<d, "constraint", s>> \in FactGraph) = (18 <= N(s))
    <3>1. PICK x, n : x = <<d, "constraint", s>> /\ n = N(s)
      OBVIOUS
    <3>2. n \in Nat /\ (x \in FactGraph <=> 18 <= n)
      BY <1>1, <1>6, <2>4, <3>1
    <3>3. (x \in FactGraph) = (18 <= n)
      BY <3>2
    <3> QED
      BY <3>1, <3>3
  <2> QED
    BY <2>1, <2>3, <2>4
<1>8. \A d \in Dataset : PermissionAnswers[d] = Facts!PermissionRows(FactGraph, d)
  BY <1>5, <1>7
<1> QED
  BY <1>8 DEF PermissionAnswers, Facts!Answers

(* One more quad completes the next fact, or none.                         *)
LEMMA OneMoreQuad ==
  ASSUME NEW d, NEW s, NEW n \in 0..17
  PROVE  \/ /\ n + 1 \in {5, 6, 9, 13, 18}
            /\ FactsCompleted(n+1) = FactsCompleted(n) + 1
            /\ \A t : FactIn(d, s, n+1, t) <=>
                 FactIn(d, s, n, t) \/ t = Facts!SeedTriple(d, s, FactsCompleted(n) + 1)
         \/ /\ n + 1 \notin {5, 6, 9, 13, 18}
            /\ FactsCompleted(n+1) = FactsCompleted(n)
            /\ \A t : FactIn(d, s, n+1, t) <=> FactIn(d, s, n, t)
<1>1. /\ Facts!SeedTriple(d, s, 1) = <<d, "filePath", "iri">>
      /\ Facts!SeedTriple(d, s, 2) = <<d, "mediaType", "iri">>
      /\ Facts!SeedTriple(d, s, 3) = <<d, "policyHeader", "iri">>
      /\ Facts!SeedTriple(d, s, 4) = <<d, "permission", s>>
      /\ Facts!SeedTriple(d, s, 5) = <<d, "constraint", s>>
  BY DEF Facts!SeedTriple, Facts!SeedOrder, Facts!NodeOf, Facts!Iri
<1>2. PICK m, k : m = FactsCompleted(n) /\ k = FactsCompleted(n+1)
  OBVIOUS
<1>3. /\ m = IF n < 5 THEN 0 ELSE IF n < 6 THEN 1 ELSE IF n < 9 THEN 2
             ELSE IF n < 13 THEN 3 ELSE 4
      /\ k = IF n + 1 < 5 THEN 0 ELSE IF n + 1 < 6 THEN 1 ELSE IF n + 1 < 9 THEN 2
             ELSE IF n + 1 < 13 THEN 3 ELSE IF n + 1 < 18 THEN 4 ELSE 5
  BY <1>2, FactCounts
<1>4. CASE n + 1 \in {5, 6, 9, 13, 18}
  <2>1. \/ n = 4 /\ m = 0 /\ k = 1
        \/ n = 5 /\ m = 1 /\ k = 2
        \/ n = 8 /\ m = 2 /\ k = 3
        \/ n = 12 /\ m = 3 /\ k = 4
        \/ n = 17 /\ m = 4 /\ k = 5
    BY <1>3, <1>4
  <2>2. \A t : FactIn(d, s, n+1, t) <=> FactIn(d, s, n, t) \/ t = Facts!SeedTriple(d, s, m+1)
    BY <1>1, <2>1 DEF FactIn
  <2> QED
    BY <1>2, <1>4, <2>1, <2>2
<1>5. CASE n + 1 \notin {5, 6, 9, 13, 18}
  <2>1. k = m
    BY <1>3, <1>5
  <2>2. /\ 5 <= n+1 <=> 5 <= n
        /\ 6 <= n+1 <=> 6 <= n
        /\ 9 <= n+1 <=> 9 <= n
        /\ 13 <= n+1 <=> 13 <= n
        /\ 18 <= n+1 <=> 18 <= n
    BY <1>5
  <2>3. \A t : FactIn(d, s, n+1, t) <=> FactIn(d, s, n, t)
    BY <2>2 DEF FactIn
  <2> QED
    BY <1>2, <1>5, <2>1, <2>3
<1> QED
  BY <1>4, <1>5

(* What the graph is to a reader of facts, at any moment.                  *)
FactsKnown ==
  /\ offer = file_offer
  /\ \A t : t \in FactGraph <=> \E s \in Seeder : FactIn(D(s), s, N(s), t)
  /\ PermissionAnswers = Facts!Answers(FactGraph)

(* The store of Config's offer, as its readers of facts know it.          *)
LEMMA FactsAreKnown ==
  ASSUME Offers \subseteq ConfigOffers PROVE StoreInvariant => FactsKnown
<1>1. StoreInvariant => offer = file_offer
  BY DEF StoreInvariant, ConfigOffers
<1> QED
  BY <1>1, FactsOfSeedings, AnswersOfSeedings DEF FactsKnown

(* An empty store has no facts and answers nothing.                       *)
LEMMA FactsInitially ==
  ASSUME GraphInit, FactsKnown PROVE Facts!FactsInit
<1>1. \A s \in Seeder : seeding[s].pc = "idle" /\ seeding[s].inserted = 0 /\ N(s) = 0
                        /\ seeding[s].dataset = CHOOSE d \in Dataset : TRUE
  BY DEF GraphInit, N
<1>2. FactGraph = {}
  BY <1>1 DEF FactsKnown, FactIn
<1>3. FactsCompleted(0) = 0
  BY FactCounts
<1>4. FactSeeding = [s \in Seeder |-> [pc |-> "idle", dataset |-> CHOOSE d \in Dataset : TRUE,
                                       seeded |-> 0]]
  BY <1>1, <1>3 DEF FactSeeding
<1> QED
  BY <1>2, <1>4 DEF Facts!FactsInit, FactsKnown

(* A step that completes no fact is not seen in the graph or the answers.  *)
LEMMA SameFacts ==
  ASSUME FactsKnown, FactsKnown',
         \A s \in Seeder : \A t : FactIn(D(s), s, N(s), t)' <=> FactIn(D(s), s, N(s), t)
  PROVE  UNCHANGED <<FactGraph, PermissionAnswers>>
<1>1. FactGraph' = FactGraph
  BY DEF FactsKnown
<1>2. Facts!Answers(FactGraph)' = Facts!Answers(FactGraph)
  BY <1>1 DEF Facts!Answers, Facts!PermissionRows, Facts!IsConstrained, Facts!PermissionNodes
<1> QED
  BY <1>1, <1>2 DEF FactsKnown

(* The first step of a seeding, before any insert, is that of OfferFacts. *)
LEMMA BeginRefines ==
  ASSUME StoreInvariant, FactsKnown, FactsKnown',
         NEW s \in Seeder, NEW d \in Dataset, SeedBegin(s, d)
  PROVE  Facts!FactsNext
<1>1. /\ seeding[s].pc = "idle" /\ N(s) = 0
      /\ seeding' = [seeding EXCEPT ![s] =
           [pc |-> "seeding", dataset |-> d, inserted |-> seeding[s].inserted]]
      /\ seeding = [r \in Seeder |-> seeding[r]]
  BY DEF SeedBegin, StoreInvariant, SeedingOK, N
<1>2. \A r \in Seeder : /\ N(r)' = N(r)
                        /\ r # s => D(r)' = D(r) /\ seeding'[r] = seeding[r]
                        /\ r = s => D(r)' = d /\ seeding'[r].pc = "seeding"
  BY <1>1 DEF N, D
<1>3. ASSUME NEW r \in Seeder, NEW t
      PROVE  FactIn(D(r), r, N(r), t)' <=> FactIn(D(r), r, N(r), t)
  BY <1>1, <1>2 DEF FactIn
<1>4. UNCHANGED <<FactGraph, PermissionAnswers>>
  BY <1>3, SameFacts
<1>5. /\ FactSeeding[s].pc = "idle"
      /\ FactSeeding' = [FactSeeding EXCEPT ![s] =
           [pc |-> "seeding", dataset |-> d, seeded |-> FactSeeding[s].seeded]]
  <2>1. FactSeeding = [r \in Seeder |-> [pc |-> seeding[r].pc, dataset |-> D(r),
                                         seeded |-> FactsCompleted(N(r))]]
    BY DEF FactSeeding, D, N
  <2>2. FactSeeding' = [r \in Seeder |-> [pc |-> seeding'[r].pc, dataset |-> D(r)',
                                          seeded |-> FactsCompleted(N(r))]]
    BY <1>2 DEF FactSeeding, D, N, FactsCompleted
  <2>3. \A r \in Seeder : [pc |-> seeding'[r].pc, dataset |-> D(r)',
                            seeded |-> FactsCompleted(N(r))] =
          IF r = s THEN [pc |-> "seeding", dataset |-> d, seeded |-> FactsCompleted(N(s))]
          ELSE [pc |-> seeding[r].pc, dataset |-> D(r), seeded |-> FactsCompleted(N(r))]
    BY ONLY <1>2
  <2>4. FactSeeding' = [r \in Seeder |->
          IF r = s THEN [pc |-> "seeding", dataset |-> d, seeded |-> FactsCompleted(N(s))]
          ELSE [pc |-> seeding[r].pc, dataset |-> D(r), seeded |-> FactsCompleted(N(r))]]
    BY ONLY <2>2, <2>3
  <2>5. FactSeeding[s] = [pc |-> seeding[s].pc, dataset |-> D(s), seeded |-> FactsCompleted(N(s))]
    BY <2>1
  <2>6. FactSeeding' = [FactSeeding EXCEPT ![s] =
           [pc |-> "seeding", dataset |-> d, seeded |-> FactsCompleted(N(s))]]
    BY ONLY <2>1, <2>4, s \in Seeder
  <2> QED
    BY <1>1, <2>5, <2>6
<1>6. Facts!Begin(s, d)
  BY <1>4, <1>5 DEF Facts!Begin
<1> QED
  BY <1>6 DEF Facts!FactsNext

(* A seeding that fails keeps what it has inserted, here as there.        *)
LEMMA FailRefines ==
  ASSUME StoreInvariant, FactsKnown, FactsKnown', NEW s \in Seeder, SeedFails(s)
  PROVE  Facts!FactsNext
<1>1. /\ seeding[s].pc = "seeding"
      /\ seeding' = [seeding EXCEPT ![s].pc = "failed"]
      /\ seeding \in [Seeder -> [pc : {"idle", "seeding", "done", "failed"},
                                 dataset : Dataset, inserted : Nat]]
  BY DEF SeedFails, StoreInvariant
<1>2. \A r \in Seeder : /\ N(r)' = N(r) /\ D(r)' = D(r)
                        /\ seeding'[r].pc = IF r = s THEN "failed" ELSE seeding[r].pc
  BY <1>1 DEF N, D
<1>3. UNCHANGED <<FactGraph, PermissionAnswers>>
  <2>1. ASSUME NEW r \in Seeder, NEW t
        PROVE  FactIn(D(r), r, N(r), t)' <=> FactIn(D(r), r, N(r), t)
    BY <1>2 DEF FactIn
  <2> QED
    BY <2>1, SameFacts
<1>4. FactSeeding[s].pc = "seeding" /\ FactSeeding' = [FactSeeding EXCEPT ![s].pc = "failed"]
  <2>1. FactSeeding = [r \in Seeder |-> [pc |-> seeding[r].pc, dataset |-> D(r),
                                         seeded |-> FactsCompleted(N(r))]]
    BY DEF FactSeeding, D, N
  <2>2. FactSeeding' = [r \in Seeder |-> [pc |-> IF r = s THEN "failed" ELSE seeding[r].pc,
                                          dataset |-> D(r), seeded |-> FactsCompleted(N(r))]]
    BY <1>2 DEF FactSeeding, D, N, FactsCompleted
  <2> QED
    BY <1>1, <2>1, <2>2
<1>5. Facts!Fail(s)
  BY <1>3, <1>4 DEF Facts!Fail
<1> QED
  BY <1>5 DEF Facts!FactsNext

(* An insert that completes a fact inserts that fact in OfferFacts, and   *)
(* completes the seeding there when it does here; any other insert is a   *)
(* stutter.                                                               *)
LEMMA InsertRefines ==
  ASSUME StoreInvariant, FactsKnown, FactsKnown', NEW s \in Seeder, SeedInsert(s)
  PROVE  Facts!FactsNext \/ UNCHANGED <<FactGraph, FactSeeding, PermissionAnswers>>
<1>1. /\ seeding[s].pc = "seeding"
      /\ N(s) \in Nat /\ N(s) < 13 + 5 * K1
      /\ \A r \in Seeder :
           /\ D(r)' = D(r)
           /\ N(r)' = IF r = s THEN N(s) + 1 ELSE N(r)
           /\ seeding'[r].pc = IF r = s THEN IF N(s) + 1 = 13 + 5 * K1 THEN "done" ELSE "seeding"
                               ELSE seeding[r].pc
  <2>1. offer \in FileOffer /\ offer = file_offer
    BY OffersAssumption DEF StoreInvariant, FactsKnown
  <2>2. Len(Quads(D(s), s)) = 13 + 5 * K1
    BY <2>1, ConfigPlaces
  <2>3. N(s) \in Nat /\ N(s) < Len(Quads(D(s), s))
    BY DEF SeedInsert, StoreInvariant, SeedingOK, N, D
  <2>4. seeding[s].pc = "seeding"
    BY DEF SeedInsert
  <2>5. seeding' = [seeding EXCEPT ![s] =
                   [pc |-> IF N(s) + 1 = 13 + 5 * K1 THEN "done" ELSE "seeding",
                    dataset |-> D(s), inserted |-> N(s) + 1]]
    BY <2>2 DEF SeedInsert, N, D
  <2>6. DOMAIN seeding = Seeder
    BY DEF StoreInvariant
  <2>7. \A r \in Seeder : r # s => seeding'[r] = seeding[r]
    BY <2>5, <2>6
  <2>8. seeding'[s] = [pc |-> IF N(s) + 1 = 13 + 5 * K1 THEN "done" ELSE "seeding",
                       dataset |-> D(s), inserted |-> N(s) + 1]
    BY <2>5, <2>6
  <2> QED
    BY <2>2, <2>3, <2>4, <2>7, <2>8 DEF N, D
<1>2. K1 = 0 \/ K1 = 1
  BY DEF K1
<1>3. PICK n, d : n = N(s) /\ d = D(s)
  OBVIOUS
<1>4. n \in 0..17 /\ n < 13 + 5 * K1
  BY <1>1, <1>2, <1>3
<1>5. FactSeeding = [r \in Seeder |-> [pc |-> seeding[r].pc, dataset |-> D(r),
                                       seeded |-> FactsCompleted(N(r))]]
  BY DEF FactSeeding, D, N
<1>6. FactSeeding' = [r \in Seeder |->
        IF r = s THEN [pc |-> IF n + 1 = 13 + 5 * K1 THEN "done" ELSE "seeding",
                       dataset |-> d, seeded |-> FactsCompleted(n+1)]
        ELSE [pc |-> seeding[r].pc, dataset |-> D(r), seeded |-> FactsCompleted(N(r))]]
  <2>1. FactSeeding' = [r \in Seeder |-> [pc |-> seeding'[r].pc, dataset |-> D(r)',
                                          seeded |-> FactsCompleted(N(r)')]]
    BY DEF FactSeeding, D, N, FactsCompleted
  <2>2. \A r \in Seeder : [pc |-> seeding'[r].pc, dataset |-> D(r)',
                            seeded |-> FactsCompleted(N(r)')] =
          IF r = s THEN [pc |-> IF n + 1 = 13 + 5 * K1 THEN "done" ELSE "seeding",
                         dataset |-> d, seeded |-> FactsCompleted(n+1)]
          ELSE [pc |-> seeding[r].pc, dataset |-> D(r), seeded |-> FactsCompleted(N(r))]
    BY ONLY <1>1, <1>3
  <2> QED
    BY ONLY <2>1, <2>2
<1>7. FactSeeding[s] = [pc |-> "seeding", dataset |-> d, seeded |-> FactsCompleted(n)]
  BY <1>1, <1>3, <1>5
<1>8. /\ \A r \in Seeder : \A t : r # s => (FactIn(D(r), r, N(r), t)' <=> FactIn(D(r), r, N(r), t))
      /\ \A t : FactIn(D(s), s, N(s), t)' <=> FactIn(d, s, n+1, t)
  BY <1>1, <1>3 DEF FactIn
<1>9. CASE /\ n + 1 \in {5, 6, 9, 13, 18}
           /\ FactsCompleted(n+1) = FactsCompleted(n) + 1
           /\ \A t : FactIn(d, s, n+1, t) <=>
                FactIn(d, s, n, t) \/ t = Facts!SeedTriple(d, s, FactsCompleted(n) + 1)
  <2>1. \A t : t \in FactGraph' <=>
          t \in FactGraph \/ t = Facts!SeedTriple(d, s, FactsCompleted(n) + 1)
    <3>1. \A t : t \in FactGraph' <=> \E r \in Seeder : FactIn(D(r), r, N(r), t)'
      BY DEF FactsKnown
    <3>2. \A t : t \in FactGraph <=> \E r \in Seeder : FactIn(D(r), r, N(r), t)
      BY DEF FactsKnown
    <3> QED
      BY <1>3, <1>8, <1>9, <3>1, <3>2
  <2>2. FactGraph' = Facts!InsertFact(FactGraph, d, s, FactsCompleted(n) + 1)
    BY <2>1 DEF Facts!InsertFact
  <2>3. PermissionAnswers' = Facts!Answers(FactGraph')
    BY DEF FactsKnown, Facts!Answers, Facts!PermissionRows, Facts!IsConstrained,
           Facts!PermissionNodes
  <2>4. n + 1 = 13 + 5 * K1 <=> FactsCompleted(n) + 1 = Facts!SeedSteps
    <3>1. PICK k : k = FactsCompleted(n+1)
      OBVIOUS
    <3>2. k = IF n + 1 < 5 THEN 0 ELSE IF n + 1 < 6 THEN 1 ELSE IF n + 1 < 9 THEN 2
             ELSE IF n + 1 < 13 THEN 3 ELSE IF n + 1 < 18 THEN 4 ELSE 5
      BY <1>4, <3>1, FactCounts
    <3>3. Facts!SeedSteps = 4 + K1
      BY DEF Facts!SeedSteps, K1
    <3>4. n + 1 = 13 + 5 * K1 <=> k = 4 + K1
      BY <1>2, <1>4, <3>2
    <3> QED
      BY <1>9, <3>1, <3>3, <3>4
  <2>5. FactSeeding' = [FactSeeding EXCEPT ![s] =
          [pc |-> IF FactsCompleted(n) + 1 = Facts!SeedSteps THEN "done" ELSE "seeding",
           dataset |-> d, seeded |-> FactsCompleted(n) + 1]]
    <3>1. PICK rec : rec = [pc |-> IF n + 1 = 13 + 5 * K1 THEN "done" ELSE "seeding",
                            dataset |-> d, seeded |-> FactsCompleted(n+1)]
      OBVIOUS
    <3>2. FactSeeding' = [FactSeeding EXCEPT ![s] = rec]
      BY ONLY <1>5, <1>6, <3>1, s \in Seeder
    <3>3. rec = [pc |-> IF FactsCompleted(n) + 1 = Facts!SeedSteps THEN "done" ELSE "seeding",
                 dataset |-> d, seeded |-> FactsCompleted(n) + 1]
      BY ONLY <1>9, <2>4, <3>1
    <3> QED
      BY ONLY <3>2, <3>3
  <2>6. Facts!InsertNext(s)
    BY <1>7, <2>2, <2>3, <2>5 DEF Facts!InsertNext
  <2> QED
    BY <2>6 DEF Facts!FactsNext
<1>10. CASE /\ n + 1 \notin {5, 6, 9, 13, 18}
            /\ FactsCompleted(n+1) = FactsCompleted(n)
            /\ \A t : FactIn(d, s, n+1, t) <=> FactIn(d, s, n, t)
  <2>1. \A r \in Seeder : \A t : FactIn(D(r), r, N(r), t)' <=> FactIn(D(r), r, N(r), t)
    BY <1>3, <1>8, <1>10
  <2>2. UNCHANGED <<FactGraph, PermissionAnswers>>
    BY <2>1, SameFacts
  <2>3. n + 1 # 13 + 5 * K1
    BY <1>2, <1>10
  <2>4. UNCHANGED FactSeeding
    <3>1. \A r \in Seeder :
            (IF r = s THEN [pc |-> IF n + 1 = 13 + 5 * K1 THEN "done" ELSE "seeding",
                            dataset |-> d, seeded |-> FactsCompleted(n+1)]
             ELSE [pc |-> seeding[r].pc, dataset |-> D(r), seeded |-> FactsCompleted(N(r))]) =
            [pc |-> seeding[r].pc, dataset |-> D(r), seeded |-> FactsCompleted(N(r))]
      BY ONLY <1>1, <1>3, <1>10, <2>3
    <3> QED
      BY ONLY <1>5, <1>6, <3>1
  <2> QED
    BY <2>2, <2>4
<1> QED
  BY <1>4, <1>9, <1>10, OneMoreQuad

(* seed_offer with the offer of Config::file_offer implements OfferFacts: *)
(* to file_path, media_type and policy_jsonld its 13 or 18 inserts are    *)
(* the four or five of OfferGraph, for any number of datasets and of      *)
(* seedings that overlap or fail, with a deadline or without one.         *)
THEOREM ConfigOfferIsFacts ==
  ASSUME Offers \subseteq ConfigOffers PROVE GraphSpec => RefinesOfferFacts
<1>1. GraphInit => StoreInvariant
  BY StoreInvariantInit
<1>2. StoreInvariant /\ [GraphNext]_graphVars => StoreInvariant'
  BY StoreInvariantStep
<1>3. StoreInvariant => FactsKnown
  BY FactsAreKnown
<1>4. GraphInit /\ FactsKnown => Facts!FactsInit
  BY FactsInitially
<1>5. StoreInvariant /\ FactsKnown /\ FactsKnown' /\ [GraphNext]_graphVars
        => [Facts!FactsNext]_(Facts!vars)
  <2> SUFFICES ASSUME StoreInvariant, FactsKnown, FactsKnown', [GraphNext]_graphVars
               PROVE  Facts!FactsNext \/ UNCHANGED Facts!vars
    OBVIOUS
  <2>1. CASE UNCHANGED graphVars
    <3>1. \A r \in Seeder : N(r)' = N(r) /\ D(r)' = D(r)
      BY <2>1 DEF graphVars, N, D
    <3>2. \A r \in Seeder : \A t : FactIn(D(r), r, N(r), t)' <=> FactIn(D(r), r, N(r), t)
      BY <3>1 DEF FactIn
    <3>3. FactSeeding' = FactSeeding
      BY <2>1 DEF graphVars, FactSeeding, FactsCompleted
    <3> QED
      BY <3>2, <3>3, SameFacts DEF Facts!vars
  <2>2. CASE GraphNext
    BY <2>2, BeginRefines, InsertRefines, FailRefines DEF GraphNext, Facts!vars
  <2> QED
    BY <2>1, <2>2
<1> QED
  BY <1>1, <1>2, <1>3, <1>4, <1>5, PTL DEF GraphSpec, RefinesOfferFacts, Facts!FactsSpec
=============================================================================
