-------------------------- MODULE ConfigGraphReads --------------------------
(***************************************************************************)
(* What the queries answer: proofs of ReadsAreTruncations and of           *)
(* SeedingsReadBack, for any offer and any seedings.                       *)
(*                                                                         *)
(* The argument: of each seeding a query sees the first permissions, and   *)
(* of each the first constraints (SeenInOrder), so the rows are known      *)
(* (RowsSeen); sorted, those of one permission are adjacent unless copies  *)
(* mix (IsReading); the loop over the rows therefore makes one entry of    *)
(* each permission seen, in the authored order (IsGrouping); the entries   *)
(* of one seeding are its authored permissions cut off at one point, and   *)
(* of completed seedings nothing is cut off.                               *)
(***************************************************************************)
EXTENDS ConfigGraphProofs

-----------------------------------------------------------------------------
(* What the queries of the permissions find.                               *)

PermissionsSeen(s) ==
  CHOOSE v \in 0..P : \A i \in 1..P : PermissionPlace(i, 4) <= N(s) <=> i <= v

ConstraintsSeen(s, i) ==
  CHOOSE v \in 0..K(i) : \A j \in 1..K(i) : ConstraintPlace(i, j, 5) <= N(s) <=> j <= v

(* A reader sees the first permissions of a seeding, and of each the first *)
(* constraints; of all but the last it sees every constraint.              *)
LEMMA SeenInOrder ==
  ASSUME StoreInvariant, NEW s \in Seeder
  PROVE  /\ PermissionsSeen(s) \in 0..P
         /\ \A i \in 1..P : PermissionPlace(i, 4) <= N(s) <=> i <= PermissionsSeen(s)
         /\ \A i \in 1..P :
              /\ ConstraintsSeen(s, i) \in 0..K(i)
              /\ \A j \in 1..K(i) : ConstraintPlace(i, j, 5) <= N(s) <=> j <= ConstraintsSeen(s, i)
              /\ i < PermissionsSeen(s) => ConstraintsSeen(s, i) = K(i)
<1>1. offer \in FileOffer /\ N(s) \in Nat /\ P \in Nat
  BY OffersAssumption, OfferType DEF StoreInvariant, N
<1>2. \A i \in 1..P : /\ BlockStart[i] \in Nat /\ K(i) \in Nat
                      /\ BlockStart[i+1] = BlockStart[i] + 4 + 5 * K(i)
  BY <1>1, PlaceTypes
<1>3. \A i, k \in 1..P : k < i => BlockStart[k] + 4 + 5 * K(k) <= BlockStart[i]
  <2> SUFFICES ASSUME NEW i \in 1..P, NEW k \in 1..P, k < i
               PROVE  BlockStart[k] + 4 + 5 * K(k) <= BlockStart[i]
    OBVIOUS
  <2>1. i \in k+1..P+1 /\ BlockLen[k] = 4 + 5 * K(k)
    BY <1>1 DEF BlockLen
  <2>2. BlockLen \in [1..P -> Nat] /\ IsOffsets(BlockStart, BlockLen, P)
    BY <1>1, StartIsOffsets
  <2>3. BlockStart[k] + BlockLen[k] <= BlockStart[i]
    BY ONLY <1>1, <2>1, <2>2, k \in 1..P, OffsetsOrdered
  <2> QED
    BY <1>2, <2>1, <2>3
<1>4. /\ PermissionsSeen(s) \in 0..P
      /\ \A i \in 1..P : PermissionPlace(i, 4) <= N(s) <=> i <= PermissionsSeen(s)
  <2> DEFINE T == {i \in 1..P : PermissionPlace(i, 4) <= N(s)}
  <2>1. \A i, k \in 1..P : i \in T /\ k < i => k \in T
    BY <1>1, <1>2, <1>3 DEF PermissionPlace
  <2>2. \A i \in 1..P : i \in T <=> PermissionPlace(i, 4) <= N(s)
    OBVIOUS
  <2> HIDE DEF T
  <2>3. \E v \in 0..P : \A i \in 1..P : i \in T <=> i <= v
    BY ONLY <1>1, <2>1, InitialSegment
  <2>4. \E v \in 0..P : \A i \in 1..P : PermissionPlace(i, 4) <= N(s) <=> i <= v
    BY <2>2, <2>3
  <2> QED
    BY <2>4 DEF PermissionsSeen
<1>5. ASSUME NEW i \in 1..P
      PROVE  /\ ConstraintsSeen(s, i) \in 0..K(i)
             /\ \A j \in 1..K(i) : ConstraintPlace(i, j, 5) <= N(s) <=> j <= ConstraintsSeen(s, i)
  <2> DEFINE T == {j \in 1..K(i) : ConstraintPlace(i, j, 5) <= N(s)}
  <2>1. \A j, k \in 1..K(i) : j \in T /\ k < j => k \in T
    BY <1>1, <1>2 DEF ConstraintPlace
  <2>2. \A j \in 1..K(i) : j \in T <=> ConstraintPlace(i, j, 5) <= N(s)
    OBVIOUS
  <2> HIDE DEF T
  <2>3. PICK n \in Nat : n = K(i)
    BY <1>2
  <2>4. \E v \in 0..n : \A j \in 1..n : j \in T <=> j <= v
    BY ONLY <2>1, <2>3, InitialSegment
  <2>5. \E v \in 0..K(i) : \A j \in 1..K(i) : ConstraintPlace(i, j, 5) <= N(s) <=> j <= v
    BY <2>2, <2>3, <2>4
  <2> QED
    BY <2>5 DEF ConstraintsSeen
<1>6. ASSUME NEW i \in 1..P, i < PermissionsSeen(s)
      PROVE  ConstraintsSeen(s, i) = K(i)
  <2>1. i+1 \in 1..P /\ i+1 <= PermissionsSeen(s)
    BY <1>1, <1>4, <1>6
  <2>2. PermissionPlace(i+1, 4) <= N(s)
    BY <1>4, <2>1
  <2>3. \A j \in 1..K(i) : ConstraintPlace(i, j, 5) <= N(s)
    BY <1>1, <1>2, <2>1, <2>2 DEF PermissionPlace, ConstraintPlace
  <2>4. K(i) \in 1..K(i) => K(i) <= ConstraintsSeen(s, i)
    BY <1>5, <2>3
  <2> QED
    BY <1>2, <1>5, <2>4
<1> QED
  BY <1>4, <1>5, <1>6

RowNumbers(s, i) ==
  IF ConstraintsSeen(s, i) = 0 THEN {0} ELSE 1..ConstraintsSeen(s, i)

RowAt(s, i, j) ==
  [p |-> PermissionNode(s, i), porder |-> i - 1,
   action |-> offer.permissions[i].action, corder |-> j - 1,
   constraint |-> IF j = 0 THEN <<>> ELSE <<offer.permissions[i].constraints[j]>>]

(* Which permissions are found: those seen of each seeding of the dataset. *)
LEMMA PermissionNodesSeen ==
  ASSUME StoreInvariant, NEW d
  PROVE  \A p : p \in PermissionNodesOf(d) <=>
           \E s \in SeedersOf(d) : \E i \in 1..PermissionsSeen(s) : p = PermissionNode(s, i)
<1>1. offer \in FileOffer /\ P \in Nat /\ \A s \in Seeder : N(s) \in Nat
  BY OffersAssumption, OfferType DEF StoreInvariant, N
<1>2. \A i \in 1..P : BlockStart[i] \in Nat
  BY <1>1, PlaceTypes
<1>3. \A s \in Seeder : /\ PermissionsSeen(s) \in 0..P
                        /\ \A i \in 1..P : PermissionPlace(i, 4) <= N(s) <=> i <= PermissionsSeen(s)
  BY SeenInOrder
<1>4. \A s \in Seeder, i \in 1..P : PermissionPlace(i, 4) <= N(s) =>
        /\ s \in SeedersOf(D(s))
        /\ PermissionPlace(i, 1) <= N(s) /\ PermissionPlace(i, 3) <= N(s)
  BY <1>1, <1>2 DEF PermissionPlace, SeedersOf, StoreInvariant, SeedingOK, N, D
<1>5. ASSUME NEW s \in Seeder, NEW i \in 1..P
      PROVE  Describes(PermissionNode(s, i), {ds("order"), odrl("action")}) <=>
               PermissionPlace(i, 4) <= N(s)
  <2>1. Objects(PermissionNode(s, i), ds("order")) # {} <=> PermissionPlace(i, 3) <= N(s)
    BY PermissionObjects
  <2>2. Objects(PermissionNode(s, i), odrl("action")) # {} <=> PermissionPlace(i, 4) <= N(s)
    BY PermissionObjects
  <2> QED
    BY <1>4, <2>1, <2>2 DEF Describes
<1>6. ASSUME NEW p
      PROVE  p \in PermissionNodesOf(d) <=>
               \E s \in Seeder : \E i \in 1..P :
                 D(s) = d /\ PermissionPlace(i, 4) <= N(s) /\ p = PermissionNode(s, i)
  <2>1. p \in Objects(policy_iri(d), odrl("permission")) <=>
              \E s \in Seeder : \E i \in 1..P :
                D(s) = d /\ PermissionPlace(i, 1) <= N(s) /\ p = PermissionNode(s, i)
    BY PermissionLinks
  <2> QED
    BY <1>4, <1>5, <2>1 DEF PermissionNodesOf
<1>7. \A s : s \in SeedersOf(d) => s \in Seeder /\ D(s) = d
  BY DEF SeedersOf, D
<1>8. \A s \in Seeder, i \in 1..P : PermissionPlace(i, 4) <= N(s) => i \in 1..PermissionsSeen(s)
  BY <1>1, <1>3
<1>9. \A s \in Seeder : \A i \in 1..PermissionsSeen(s) : i \in 1..P /\ PermissionPlace(i, 4) <= N(s)
  BY <1>1, <1>3
<1> QED
  BY <1>4, <1>6, <1>7, <1>8, <1>9

(* Which constraints of a permission are found.                            *)
LEMMA ConstraintNodesSeen ==
  ASSUME StoreInvariant, NEW s \in Seeder, NEW i \in 1..P
  PROVE  \A c : c \in ConstraintNodesOf(PermissionNode(s, i)) <=>
           \E j \in 1..ConstraintsSeen(s, i) : c = ConstraintNode(s, i, j)
<1>1. offer \in FileOffer /\ K(i) \in Nat /\ N(s) \in Nat /\ BlockStart[i] \in Nat
  BY OffersAssumption, PlaceTypes DEF StoreInvariant, N
<1>2. /\ ConstraintsSeen(s, i) \in 0..K(i)
      /\ \A j \in 1..K(i) : ConstraintPlace(i, j, 5) <= N(s) <=> j <= ConstraintsSeen(s, i)
  BY SeenInOrder
<1>3. \A j \in 1..K(i) : ConstraintPlace(i, j, 5) <= N(s) =>
        /\ ConstraintPlace(i, j, 1) <= N(s) /\ ConstraintPlace(i, j, 2) <= N(s)
        /\ ConstraintPlace(i, j, 3) <= N(s) /\ ConstraintPlace(i, j, 4) <= N(s)
  BY <1>1 DEF ConstraintPlace
<1>4. ASSUME NEW j \in 1..K(i)
      PROVE  Describes(ConstraintNode(s, i, j),
                       {ds("order"), odrl("leftOperand"), odrl("operator"), odrl("rightOperand")})
               <=> ConstraintPlace(i, j, 5) <= N(s)
  <2>1. Objects(ConstraintNode(s, i, j), ds("order")) # {} <=> ConstraintPlace(i, j, 2) <= N(s)
    BY ConstraintObjects
  <2>2. Objects(ConstraintNode(s, i, j), odrl("leftOperand")) # {} <=> ConstraintPlace(i, j, 3) <= N(s)
    BY ConstraintObjects
  <2>3. Objects(ConstraintNode(s, i, j), odrl("operator")) # {} <=> ConstraintPlace(i, j, 4) <= N(s)
    BY ConstraintObjects
  <2>4. Objects(ConstraintNode(s, i, j), odrl("rightOperand")) # {} <=> ConstraintPlace(i, j, 5) <= N(s)
    BY ConstraintObjects
  <2> QED
    BY <1>3, <2>1, <2>2, <2>3, <2>4 DEF Describes
<1>5. ASSUME NEW c
      PROVE  c \in ConstraintNodesOf(PermissionNode(s, i)) <=>
               \E j \in 1..K(i) : ConstraintPlace(i, j, 5) <= N(s) /\ c = ConstraintNode(s, i, j)
  <2>1. c \in Objects(PermissionNode(s, i), odrl("constraint")) <=>
          \E j \in 1..K(i) : ConstraintPlace(i, j, 1) <= N(s) /\ c = ConstraintNode(s, i, j)
    BY PermissionObjects
  <2> QED
    BY <1>3, <1>4, <2>1 DEF ConstraintNodesOf
<1>6. \A j \in 1..K(i) : ConstraintPlace(i, j, 5) <= N(s) <=> j \in 1..ConstraintsSeen(s, i)
  BY <1>1, <1>2
<1>7. \A j \in 1..ConstraintsSeen(s, i) : j \in 1..K(i)
  BY <1>1, <1>2
<1> QED
  BY <1>5, <1>6, <1>7

(* The rows of a permission: one for every constraint seen, or one without *)
(* constraint.                                                             *)
LEMMA RowsOfPermission ==
  ASSUME StoreInvariant, NEW s \in Seeder, NEW i \in 1..PermissionsSeen(s)
  PROVE  RowsOf(PermissionNode(s, i)) = {RowAt(s, i, j) : j \in RowNumbers(s, i)}
<1> DEFINE p == PermissionNode(s, i)
           c == ConstraintsSeen(s, i)
<1>1. offer \in FileOffer /\ P \in Nat /\ PermissionsSeen(s) \in 0..P /\ N(s) \in Nat
  BY OffersAssumption, OfferType, SeenInOrder DEF StoreInvariant, N
<1>2. i \in 1..P /\ PermissionPlace(i, 4) <= N(s)
  BY <1>1, SeenInOrder
<1>3. K(i) \in Nat /\ BlockStart[i] \in Nat /\ offer.permissions[i].constraints \in Seq(ConstraintSpec)
      /\ DOMAIN offer.permissions[i].constraints = 1..K(i)
  BY <1>1, <1>2, OfferType, PlaceTypes
<1>4. PermissionPlace(i, 3) <= N(s)
  BY <1>1, <1>2, <1>3 DEF PermissionPlace
<1>5. Object(p, ds("order")) = i - 1
  <2>1. \A o : o \in Objects(p, ds("order")) <=> o = i - 1
    BY <1>2, <1>4, PermissionObjects
  <2> QED
    BY <2>1 DEF Object
<1>6. Object(p, odrl("action")) = offer.permissions[i].action
  <2>1. \A o : o \in Objects(p, odrl("action")) <=> o = offer.permissions[i].action
    BY <1>2, PermissionObjects
  <2> QED
    BY <2>1 DEF Object
<1>7. c \in 0..K(i)
  BY <1>2, SeenInOrder
<1>12. \A j \in 1..K(i) : ConstraintPlace(i, j, 5) <= N(s) =>
        /\ ConstraintPlace(i, j, 2) <= N(s) /\ ConstraintPlace(i, j, 3) <= N(s)
        /\ ConstraintPlace(i, j, 4) <= N(s)
  <2>1. K(i) \in Nat /\ BlockStart[i] \in Nat /\ N(s) \in Nat
    BY <1>1, <1>3
  <2> QED
    BY ONLY <2>1 DEF ConstraintPlace
<1>8. ASSUME NEW j \in 1..c
      PROVE  /\ Object(ConstraintNode(s, i, j), ds("order")) = j - 1
             /\ [left_operand |-> Object(ConstraintNode(s, i, j), odrl("leftOperand")),
                 operator |-> Object(ConstraintNode(s, i, j), odrl("operator")),
                 right_operand |-> Object(ConstraintNode(s, i, j), odrl("rightOperand"))]
                  = offer.permissions[i].constraints[j]
  <2> DEFINE n == ConstraintNode(s, i, j)
             spec == offer.permissions[i].constraints[j]
  <2>1. j \in 1..K(i)
    BY <1>3, <1>7
  <2>2. ConstraintPlace(i, j, 5) <= N(s)
    BY <1>2, <1>3, <1>7, <2>1, SeenInOrder
  <2>3. /\ ConstraintPlace(i, j, 2) <= N(s) /\ ConstraintPlace(i, j, 3) <= N(s)
        /\ ConstraintPlace(i, j, 4) <= N(s)
    BY <1>12, <2>1, <2>2
  <2>4. /\ \A o : o \in Objects(n, ds("order")) <=> o = j - 1
        /\ \A o : o \in Objects(n, odrl("leftOperand")) <=> o = spec.left_operand
        /\ \A o : o \in Objects(n, odrl("operator")) <=> o = spec.operator
        /\ \A o : o \in Objects(n, odrl("rightOperand")) <=> o = spec.right_operand
    BY <1>2, <2>1, <2>2, <2>3, ConstraintObjects
  <2>5. /\ Object(n, ds("order")) = j - 1
        /\ Object(n, odrl("leftOperand")) = spec.left_operand
        /\ Object(n, odrl("operator")) = spec.operator
        /\ Object(n, odrl("rightOperand")) = spec.right_operand
    <3> HIDE DEF n, spec
    <3> QED
      BY <2>4 DEF Object
  <2>6. spec \in ConstraintSpec
    BY <1>3, <2>1
  <2>7. spec = [left_operand |-> spec.left_operand, operator |-> spec.operator,
                right_operand |-> spec.right_operand]
    <3> HIDE DEF spec
    <3> QED
      BY <2>6 DEF ConstraintSpec
  <2> HIDE DEF spec, n
  <2>8. /\ Object(n, ds("order")) = j - 1
        /\ [left_operand |-> Object(n, odrl("leftOperand")),
            operator |-> Object(n, odrl("operator")),
            right_operand |-> Object(n, odrl("rightOperand"))] = spec
    BY <2>5, <2>7
  <2> QED
    BY <2>8 DEF spec, n
<1>9. \A x : x \in ConstraintNodesOf(p) <=> \E j \in 1..c : x = ConstraintNode(s, i, j)
  BY <1>2, ConstraintNodesSeen
<1>10. CASE c = 0
  <2>1. ConstraintNodesOf(p) = {}
    BY <1>9, <1>10
  <2>2. RowsOf(p) = {RowAt(s, i, 0)}
    BY <1>5, <1>6, <2>1 DEF RowsOf, RowAt
  <2> QED
    BY <1>10, <2>2 DEF RowNumbers
<1>11. CASE c # 0
  <2>1. ConstraintNodesOf(p) = {ConstraintNode(s, i, j) : j \in 1..c}
    BY <1>9
  <2>2. ConstraintNodesOf(p) # {}
    <3>1. 1 \in 1..c
      BY <1>3, <1>7, <1>11
    <3> QED
      BY <2>1, <3>1
  <2> DEFINE Spec3(x) == [left_operand |-> Object(x, odrl("leftOperand")),
                          operator |-> Object(x, odrl("operator")),
                          right_operand |-> Object(x, odrl("rightOperand"))]
             Row(corder, constraint) ==
               [p |-> p, porder |-> Object(p, ds("order")),
                action |-> Object(p, odrl("action")),
                corder |-> corder, constraint |-> constraint]
             Found(x) == Row(Object(x, ds("order")), <<Spec3(x)>>)
  <2>3. RowsOf(p) = {Found(x) : x \in ConstraintNodesOf(p)}
    BY <2>2 DEF RowsOf
  <2>4. ASSUME NEW j \in 1..c
        PROVE  Found(ConstraintNode(s, i, j)) = RowAt(s, i, j)
    <3>1. j # 0
      BY <1>3, <1>7
    <3>2. Spec3(ConstraintNode(s, i, j)) = offer.permissions[i].constraints[j]
      BY <1>8
    <3>3. Object(ConstraintNode(s, i, j), ds("order")) = j - 1
      BY <1>8
    <3> HIDE DEF Spec3
    <3> QED
      BY <1>5, <1>6, <3>1, <3>2, <3>3 DEF RowAt
  <2> HIDE DEF Found
  <2>5. RowsOf(p) = {RowAt(s, i, j) : j \in 1..c}
    BY <2>1, <2>3, <2>4
  <2> QED
    BY <1>11, <2>5 DEF RowNumbers
<1> QED
  BY <1>10, <1>11

(* The rows of a dataset's policy.                                         *)
LEMMA RowsSeen ==
  ASSUME StoreInvariant, NEW d
  PROVE  \A row : row \in Rows(d) <=>
           \E s \in SeedersOf(d) : \E i \in 1..PermissionsSeen(s) : \E j \in RowNumbers(s, i) :
             row = RowAt(s, i, j)
<1>1. \A s \in SeedersOf(d) : s \in Seeder
  BY DEF SeedersOf
<1>2. \A s \in SeedersOf(d) : \A i \in 1..PermissionsSeen(s) :
        RowsOf(PermissionNode(s, i)) = {RowAt(s, i, j) : j \in RowNumbers(s, i)}
  BY <1>1, RowsOfPermission
<1>3. \A p : p \in PermissionNodesOf(d) <=>
           \E s \in SeedersOf(d) : \E i \in 1..PermissionsSeen(s) : p = PermissionNode(s, i)
  BY PermissionNodesSeen
<1>4. \A row : row \in Rows(d) <=> \E p \in PermissionNodesOf(d) : row \in RowsOf(p)
  BY DEF Rows
<1>5. \A row : row \in Rows(d) <=>
        \E s \in SeedersOf(d) : \E i \in 1..PermissionsSeen(s) : row \in RowsOf(PermissionNode(s, i))
  BY <1>3, <1>4
<1> QED
  BY <1>2, <1>5

(* A row tells its seeding, its permission and its constraint.             *)
LEMMA RowParts ==
  ASSUME StoreInvariant, NEW d, NEW row \in Rows(d)
  PROVE  /\ row.p[2] \in SeedersOf(d) /\ row.p[2] \in Seeder
         /\ row.p[3] \in 1..PermissionsSeen(row.p[2]) /\ row.p[3] \in 1..P /\ row.p[3] \in Nat
         /\ row.corder + 1 \in RowNumbers(row.p[2], row.p[3]) /\ row.corder \in Int
         /\ ConstraintsSeen(row.p[2], row.p[3]) \in 0..K(row.p[3])
         /\ K(row.p[3]) \in Nat
         /\ row.p = PermissionNode(row.p[2], row.p[3])
         /\ row = RowAt(row.p[2], row.p[3], row.corder + 1)
         /\ SortKey(row) = <<row.p[3] - 1, row.corder>>
<1>7. PICK s \in SeedersOf(d) :
        \E i \in 1..PermissionsSeen(s) : \E j \in RowNumbers(s, i) : row = RowAt(s, i, j)
  BY RowsSeen
<1>8. PICK i \in 1..PermissionsSeen(s) : \E j \in RowNumbers(s, i) : row = RowAt(s, i, j)
  BY <1>7
<1>1. PICK j \in RowNumbers(s, i) : row = RowAt(s, i, j)
  BY <1>8
<1>2. s \in Seeder /\ PermissionsSeen(s) \in 0..P /\ P \in Nat /\ i \in 1..P
      /\ ConstraintsSeen(s, i) \in 0..K(i) /\ K(i) \in Nat
  <2>1. offer \in FileOffer /\ s \in Seeder
    BY OffersAssumption DEF StoreInvariant, SeedersOf
  <2>2. PermissionsSeen(s) \in 0..P /\ P \in Nat
    BY <2>1, SeenInOrder, OfferType
  <2>3. i \in 1..P
    BY <2>2
  <2> QED
    BY <2>1, <2>2, <2>3, SeenInOrder, OfferType
<1>3. j \in Nat
  BY <1>2 DEF RowNumbers
<1>4. row.p = PermissionNode(s, i) /\ row.porder = i - 1 /\ row.corder = j - 1
  BY <1>1 DEF RowAt
<1>5. row.p[2] = s /\ row.p[3] = i
  BY <1>4 DEF PermissionNode
<1>6. row.corder + 1 = j
  BY <1>3, <1>4
<1> QED
  BY <1>1, <1>2, <1>3, <1>4, <1>5, <1>6 DEF SortKey

(* There are finitely many.                                                *)
LEMMA RowsFinite ==
  ASSUME StoreInvariant, NEW d
  PROVE  IsFiniteSet(SeedersOf(d)) /\ IsFiniteSet(Rows(d))
<1>1. IsFiniteSet(SeedersOf(d))
  <2>1. SeedersOf(d) \subseteq Begun
    BY DEF SeedersOf, Begun
  <2> QED
    BY <2>1, FS_Subset DEF StoreInvariant
<1>2. offer \in FileOffer /\ P \in Nat /\ \A i \in 1..P : K(i) \in Nat
  BY OffersAssumption, OfferType DEF StoreInvariant
<1> DEFINE RowsIn(s, i) == {RowAt(s, i, j) : j \in 0..K(i)}
           AllRows(s) == UNION {RowsIn(s, i) : i \in 1..P}
<1>3. ASSUME NEW s, NEW i \in 1..P PROVE IsFiniteSet(RowsIn(s, i))
  <2>1. PICK n \in Nat : n = K(i)
    BY <1>2
  <2>2. PICK f : f = [j \in 0..n |-> {RowAt(s, i, j)}]
    OBVIOUS
  <2>3. IsFiniteSet(0..n)
    BY FS_Interval
  <2>4. f \in [0..n -> {{RowAt(s, i, j)} : j \in 0..n}]
    BY <2>2
  <2>5. \A j \in 0..n : IsFiniteSet(f[j])
    BY <2>2, FS_Singleton
  <2>6. \A r \in RowsIn(s, i) : \E j \in 0..n : r \in f[j]
    BY <2>1, <2>2
  <2> HIDE DEF RowsIn
  <2> QED
    BY ONLY <2>3, <2>4, <2>5, <2>6, FiniteCover
<1> HIDE DEF RowsIn
<1>4. ASSUME NEW s PROVE IsFiniteSet(AllRows(s))
  <2>1. PICK f : f = [i \in 1..P |-> RowsIn(s, i)]
    OBVIOUS
  <2>2. IsFiniteSet(1..P)
    BY <1>2, FS_Interval
  <2>3. f \in [1..P -> {RowsIn(s, i) : i \in 1..P}]
    BY <2>1
  <2>4. \A i \in 1..P : IsFiniteSet(f[i])
    BY <1>3, <2>1
  <2>5. \A r \in AllRows(s) : \E i \in 1..P : r \in f[i]
    BY <2>1
  <2> HIDE DEF AllRows
  <2> QED
    BY ONLY <2>2, <2>3, <2>4, <2>5, FiniteCover
<1>5. ASSUME NEW row \in Rows(d)
      PROVE  \E s \in SeedersOf(d) : row \in AllRows(s)
  <2>1. row.corder + 1 \in 0..K(row.p[3])
    BY RowParts DEF RowNumbers
  <2> QED
    BY <2>1, RowParts DEF RowsIn
<1> HIDE DEF AllRows
<1>6. IsFiniteSet(Rows(d))
  <2>1. PICK f : f = [s \in SeedersOf(d) |-> AllRows(s)]
    OBVIOUS
  <2>2. f \in [SeedersOf(d) -> {AllRows(s) : s \in SeedersOf(d)}]
    BY <2>1
  <2>3. \A s \in SeedersOf(d) : IsFiniteSet(f[s])
    BY <1>4, <2>1
  <2>4. \A r \in Rows(d) : \E s \in SeedersOf(d) : r \in f[s]
    BY <1>5, <2>1
  <2> QED
    BY ONLY <1>1, <2>2, <2>3, <2>4, FiniteCover
<1> QED
  BY <1>1, <1>6

(* The rows of one answer, when the constraints of copies cannot mix: each *)
(* once, by order of the permissions and, in a permission, of the          *)
(* constraints; those of one permission come without others between them.  *)
IsReading(o, d, c) ==
  /\ c \in Nat /\ o \in [1..c -> Rows(d)] /\ o \in Seq(Rows(d)) /\ Len(o) = c
  /\ \A m, n \in 1..c : o[m] = o[n] => m = n
  /\ \A row \in Rows(d) : \E n \in 1..c : o[n] = row
  /\ \A m, n \in 1..c : m < n =>
       \/ o[m].p[3] < o[n].p[3]
       \/ o[m].p[3] = o[n].p[3] /\ o[m].corder <= o[n].corder
  /\ \A m, n, r \in 1..c : m < n /\ n < r /\ o[m].p = o[r].p => o[n].p = o[m].p

(* Two copies that can mix have several constraints each.                  *)
LEMMA CopiesApart ==
  ASSUME StoreInvariant, NEW d, CopiesCannotMix(d)
  PROVE  \/ \A x, y \in Rows(d) : x.p[2] = y.p[2]
         \/ \A x, y \in Rows(d) : x.p = y.p => x = y
<1>1. IsFiniteSet(SeedersOf(d))
  BY RowsFinite
<1>2. CASE Cardinality(SeedersOf(d)) <= 1
  <2>1. Cardinality(SeedersOf(d)) = 0 \/ Cardinality(SeedersOf(d)) = 1
    BY <1>1, <1>2, FS_CardinalityType
  <2>2. CASE Cardinality(SeedersOf(d)) = 0
    BY <1>1, <2>2, FS_EmptySet, RowParts
  <2>3. CASE Cardinality(SeedersOf(d)) = 1
    <3>1. \E z : SeedersOf(d) = {z}
      BY <1>1, <2>3, FS_Singleton
    <3> QED
      BY <3>1, RowParts
  <2> QED
    BY <2>1, <2>2, <2>3
<1>3. CASE \A i \in DOMAIN offer.permissions : Len(offer.permissions[i].constraints) <= 1
  <2>1. offer \in FileOffer
    BY OffersAssumption DEF StoreInvariant
  <2>2. SUFFICES ASSUME NEW x \in Rows(d), NEW y \in Rows(d), x.p = y.p PROVE x = y
    OBVIOUS
  <2>3. K(x.p[3]) <= 1
    BY <1>3, <2>1, OfferType, RowParts DEF K
  <2>4. ConstraintsSeen(x.p[2], x.p[3]) \in 0..1
    BY <2>3, RowParts
  <2>5. x.corder = y.corder
    <3>1. /\ x.corder \in Int /\ y.corder \in Int
          /\ x.corder + 1 \in RowNumbers(x.p[2], x.p[3])
          /\ y.corder + 1 \in RowNumbers(x.p[2], x.p[3])
      BY <2>2, RowParts
    <3> QED
      BY <2>4, <3>1 DEF RowNumbers
  <2>6. x = RowAt(x.p[2], x.p[3], x.corder + 1) /\ y = RowAt(y.p[2], y.p[3], y.corder + 1)
    BY RowParts
  <2> QED
    BY <2>2, <2>5, <2>6
<1> QED
  BY <1>2, <1>3 DEF CopiesCannotMix

(* Every ordering is such a reading.                                       *)
LEMMA OrderingIsReading ==
  ASSUME StoreInvariant, NEW d, CopiesCannotMix(d), NEW o \in Orderings(Rows(d))
  PROVE  IsReading(o, d, Len(o))
<1> DEFINE R == Rows(d)
<1>1. IsFiniteSet(R) /\ o \in SetToSeqs(R)
  BY RowsFinite DEF Orderings
<1>2. \A x \in R : /\ x.p[3] \in Nat /\ x.corder \in Int
                   /\ SortKey(x) = <<x.p[3] - 1, x.corder>>
                   /\ x.p = PermissionNode(x.p[2], x.p[3])
  BY RowParts
<1>3. \/ \A x, y \in R : x.p[2] = y.p[2]
      \/ \A x, y \in R : x.p = y.p => x = y
  BY CopiesApart
<1>4. \A m, n \in DOMAIN o : m < n => ~ Before(SortKey(o[n]), SortKey(o[m]))
  BY DEF Orderings
<1> HIDE DEF R
<1>5. PICK c : c = Cardinality(R)
  OBVIOUS
<1>6. /\ c \in Nat /\ o \in [1..c -> R] /\ o \in Seq(R) /\ Len(o) = c
      /\ \A m, n \in 1..c : o[m] = o[n] => m = n
      /\ \A row \in R : \E n \in 1..c : o[n] = row
  BY <1>1, <1>5, ArrangementProperties
<1>7. ASSUME NEW m \in 1..c, NEW n \in 1..c, m < n
      PROVE  \/ o[m].p[3] < o[n].p[3]
             \/ o[m].p[3] = o[n].p[3] /\ o[m].corder <= o[n].corder
  <2>1. ~ Before(SortKey(o[n]), SortKey(o[m]))
    BY <1>4, <1>6, <1>7
  <2>2. PICK x \in R : x = o[m]
    BY <1>6
  <2>3. PICK y \in R : y = o[n]
    BY <1>6
  <2>4. ~ Before(<<y.p[3] - 1, y.corder>>, <<x.p[3] - 1, x.corder>>)
    BY <1>2, <2>1, <2>2, <2>3
  <2>5. x.p[3] \in Nat /\ y.p[3] \in Nat /\ x.corder \in Int /\ y.corder \in Int
    BY <1>2
  <2>6. x.p[3] < y.p[3] \/ (x.p[3] = y.p[3] /\ x.corder <= y.corder)
    BY <2>4, <2>5 DEF Before
  <2> QED
    BY <2>2, <2>3, <2>6
<1>8. ASSUME NEW m \in 1..c, NEW n \in 1..c, NEW r \in 1..c, m < n, n < r, o[m].p = o[r].p
      PROVE  o[n].p = o[m].p
  <2>1. m # r /\ o[m] \in R /\ o[n] \in R /\ o[r] \in R
    BY <1>6, <1>8
  <2>2. o[m] # o[r]
    BY <1>6, <2>1
  <2>3. o[n].p[3] = o[m].p[3]
    <3>1. o[m].p[3] <= o[n].p[3] /\ o[n].p[3] <= o[r].p[3]
      BY <1>2, <1>7, <1>8, <2>1
    <3> QED
      BY <1>2, <1>8, <2>1, <3>1
  <2>4. \A x, y \in R : x.p[2] = y.p[2]
    BY <1>3, <1>8, <2>1, <2>2
  <2> QED
    BY <1>2, <2>1, <2>3, <2>4
<1> QED
  BY <1>6, <1>7, <1>8 DEF IsReading, R

Entry(d) == [p : {row.p : row \in Rows(d)}, action : {row.action : row \in Rows(d)},
             constraints : Seq(ConstraintSpec)]

(* A row's constraint is an authored one, or none.                         *)
LEMMA RowConstraint ==
  ASSUME StoreInvariant, NEW d, NEW row \in Rows(d)
  PROVE  /\ row.constraint \in Seq(ConstraintSpec)
         /\ row.corder + 1 = 0 => Len(row.constraint) = 0
         /\ row.corder + 1 # 0 =>
              /\ Len(row.constraint) = 1
              /\ row.corder + 1 \in 1..K(row.p[3])
              /\ row.constraint[1] = offer.permissions[row.p[3]].constraints[row.corder + 1]
         /\ row.action = offer.permissions[row.p[3]].action
<1>1. PICK s, i, j : s = row.p[2] /\ i = row.p[3] /\ j = row.corder + 1
  OBVIOUS
<1>2. /\ j \in RowNumbers(s, i) /\ K(i) \in Nat /\ ConstraintsSeen(s, i) \in 0..K(i)
      /\ i \in 1..P /\ row = RowAt(s, i, j)
  BY <1>1, RowParts
<1>3. PICK specs : specs = offer.permissions[i].constraints
  OBVIOUS
<1>4. specs \in Seq(ConstraintSpec) /\ DOMAIN specs = 1..K(i)
  BY <1>2, <1>3, OffersAssumption, OfferType DEF StoreInvariant
<1>5. /\ row.action = offer.permissions[i].action
      /\ row.constraint = IF j = 0 THEN <<>> ELSE <<specs[j]>>
  BY <1>2, <1>3 DEF RowAt
<1>6. CASE j = 0
  <2>1. row.constraint = <<>>
    BY <1>5, <1>6
  <2>2. row.constraint \in Seq(ConstraintSpec) /\ Len(row.constraint) = 0
    BY <2>1
  <2> QED
    BY <1>1, <1>5, <1>6, <2>2
<1>7. CASE j # 0
  <2>1. j \in 1..K(i)
    BY <1>2, <1>7 DEF RowNumbers
  <2>2. PICK c \in ConstraintSpec : c = specs[j]
    <3>1. j \in 1..Len(specs)
      BY <1>3, <2>1 DEF K
    <3> QED
      BY <1>4, <3>1, ElementOfSeq
  <2>3. row.constraint = <<c>>
    BY <1>5, <1>7, <2>2
  <2>4. /\ row.constraint \in Seq(ConstraintSpec) /\ Len(row.constraint) = 1
        /\ row.constraint[1] = c
    BY <2>3
  <2> QED
    BY <1>1, <1>3, <1>5, <1>7, <2>1, <2>2, <2>4
<1> QED
  BY <1>6, <1>7

(* The entry that a row adds to, or opens.                                 *)
LEMMA AddRowType ==
  ASSUME StoreInvariant, NEW d, NEW row \in Rows(d), NEW entries \in Seq(Entry(d))
  PROVE  AddRow(entries, row) \in Seq(Entry(d))
<1>1. row.constraint \in Seq(ConstraintSpec)
  BY RowConstraint
<1>2. CASE entries # <<>> /\ SameEntry(Last(entries), row)
  <2> DEFINE n == Len(entries)
             e == entries[n]
             new == [p |-> e.p, action |-> e.action, constraints |-> e.constraints \o row.constraint]
  <2>1. n \in Nat /\ n # 0 /\ n \in 1..n
    BY <1>2
  <2>2. e \in Entry(d)
    BY <2>1
  <2>3. e.constraints \o row.constraint \in Seq(ConstraintSpec)
    BY <1>1, <2>2, ConcatProperties DEF Entry
  <2>4. new \in Entry(d)
    BY <2>2, <2>3 DEF Entry
  <2>5. AddRow(entries, row) = [entries EXCEPT ![n] = new]
    BY <1>2 DEF AddRow
  <2> HIDE DEF new
  <2> QED
    BY <2>1, <2>4, <2>5
<1>3. CASE ~ (entries # <<>> /\ SameEntry(Last(entries), row))
  <2>1. [p |-> row.p, action |-> row.action, constraints |-> row.constraint] \in Entry(d)
    BY <1>1 DEF Entry
  <2>2. AddRow(entries, row) =
          Append(entries, [p |-> row.p, action |-> row.action, constraints |-> row.constraint])
    BY <1>3 DEF AddRow
  <2> QED
    BY <2>1, <2>2, AppendProperties
<1> QED
  BY <1>2, <1>3

(* The loop over the rows is defined for each of them.                     *)
LEMMA GroupedLoop ==
  ASSUME StoreInvariant, NEW d, NEW rows \in Seq(Rows(d))
  PROVE  \E e : /\ e \in [0..Len(rows) -> Seq(Entry(d))]
                /\ e[0] = <<>>
                /\ \A n \in 0..Len(rows)-1 : e[n+1] = AddRow(e[n], rows[n+1])
                /\ Grouped(rows) = e[Len(rows)]
<1> DEFINE S == Seq(Entry(d))
           L == Len(rows)
           F == [x \in Nat \X S |-> IF x[1] + 1 <= L THEN AddRow(x[2], rows[x[1] + 1]) ELSE x[2]]
           IsLoop(f) == f = [n \in 0..L |-> IF n = 0 THEN <<>> ELSE AddRow(f[n-1], rows[n])]
<1>1. L \in Nat /\ \A n \in 1..L : rows[n] \in Rows(d)
  BY LenProperties, ElementOfSeq
<1>2. \A s \in S, r \in Rows(d) : AddRow(s, r) \in S
  BY AddRowType
<1>3. <<>> \in S
  BY EmptySeq
<1> HIDE DEF S, L
<1>4. F \in [Nat \X S -> S]
  <2> SUFFICES ASSUME NEW k \in Nat, NEW s \in S, k + 1 <= L
               PROVE  AddRow(s, rows[k+1]) \in S
    OBVIOUS
  <2>1. k + 1 \in 1..L
    BY <1>1
  <2> QED
    BY <1>1, <1>2, <2>1
<1>5. \A k \in Nat, s \in S : k + 1 <= L => F[<<k, s>>] = AddRow(s, rows[k+1])
  OBVIOUS
<1> HIDE DEF F
<1>6. PICK g : IsDefinedBy(g, S, <<>>, F)
  BY <1>3, <1>4, Recursion
<1> DEFINE f == [n \in 0..L |-> g[n]]
<1>7. f \in [0..L -> S] /\ f[0] = <<>>
  BY <1>1, <1>6 DEF IsDefinedBy
<1>8. ASSUME NEW n \in 1..L PROVE f[n] = AddRow(f[n-1], rows[n])
  <2>1. n-1 \in Nat /\ (n-1)+1 = n /\ n-1 \in 0..L /\ n \in 0..L
    BY <1>1
  <2>2. g[n] = F[<<n-1, g[n-1]>>] /\ g[n-1] \in S
    BY <1>6, <2>1 DEF IsDefinedBy
  <2>3. F[<<n-1, g[n-1]>>] = AddRow(g[n-1], rows[n])
    <3>1. (n-1)+1 <= L
      BY <1>1, <2>1
    <3>2. F[<<n-1, g[n-1]>>] = AddRow(g[n-1], rows[(n-1)+1])
      BY <1>5, <2>1, <2>2, <3>1
    <3> QED
      BY <2>1, <3>2
  <2> QED
    BY <2>1, <2>2, <2>3
<1>9. IsLoop(f)
  <2>1. \A n \in 0..L : f[n] = IF n = 0 THEN <<>> ELSE AddRow(f[n-1], rows[n])
    BY <1>1, <1>7, <1>8
  <2>2. f = [n \in 0..L |-> f[n]]
    OBVIOUS
  <2> HIDE DEF f
  <2> QED
    BY <2>1, <2>2
<1> DEFINE h == CHOOSE h : IsLoop(h)
<1>10. IsLoop(h)
  <2> HIDE DEF f, IsLoop
  <2> QED
    BY <1>9
<1>11. Grouped(rows) = h[L]
  BY DEF Grouped, L
<1> HIDE DEF h, f
<1>12. 0..L \subseteq {n \in Nat : h[n] = f[n]}
  <2> DEFINE U == {n \in Nat : h[n] = f[n]}
  <2>1. \A n \in 0..L : h[n] = IF n = 0 THEN <<>> ELSE AddRow(h[n-1], rows[n])
    BY <1>10
  <2>2. 0 \in U
    BY <1>1, <1>7, <2>1
  <2>3. \A n \in 0..L-1 : n \in U => n+1 \in U
    <3> SUFFICES ASSUME NEW n \in 0..L-1, h[n] = f[n] PROVE h[n+1] = f[n+1]
      BY <1>1
    <3>1. n+1 \in 1..L /\ n+1 \in 0..L /\ n+1 # 0 /\ (n+1)-1 = n
      BY <1>1
    <3>2. h[n+1] = AddRow(h[n], rows[n+1])
      BY <2>1, <3>1
    <3>3. f[n+1] = AddRow(f[n], rows[n+1])
      BY <1>8, <3>1
    <3> QED
      BY <3>2, <3>3
  <2> HIDE DEF U
  <2>4. 0..L \subseteq U
    BY <1>1, <2>2, <2>3, BoundedInduction
  <2> QED
    BY <2>4 DEF U
<1>13. \A n \in 0..L-1 : f[n+1] = AddRow(f[n], rows[n+1])
  <2> TAKE n \in 0..L-1
  <2>1. n+1 \in 1..L /\ (n+1)-1 = n
    BY <1>1
  <2> QED
    BY <1>8, <2>1
<1>14. Grouped(rows) = f[L]
  BY <1>1, <1>11, <1>12
<1> QED
  BY <1>7, <1>13, <1>14 DEF L, S

(* After n rows of the reading o: an entry has the constraints of the rows *)
(* read of its permission, in their order; every permission read has an    *)
(* entry, and the last row read belongs to the last one.                   *)
EntryOK(o, c, n, e) ==
  /\ \E m \in 1..n : o[m].p = e.p /\ o[m].corder + 1 = Len(e.constraints)
  /\ e.action = offer.permissions[e.p[3]].action
  /\ \A j \in 1..Len(e.constraints) :
       e.constraints[j] = offer.permissions[e.p[3]].constraints[j]
  /\ \A m \in 1..c : o[m].p = e.p => (m <= n <=> o[m].corder + 1 <= Len(e.constraints))

EntriesOK(o, d, c, n, entries) ==
  /\ entries \in Seq(Entry(d))
  /\ \A k \in 1..Len(entries) : EntryOK(o, c, n, entries[k])
  /\ \A k, l \in 1..Len(entries) :
       k < l => entries[k].p[3] <= entries[l].p[3] /\ entries[k].p # entries[l].p
  /\ \A m \in 1..n : \E k \in 1..Len(entries) : entries[k].p = o[m].p
  /\ n > 0 => entries # <<>> /\ Last(entries).p = o[n].p

(* The rows of a permission come by the number of their constraint.        *)
LEMMA RowsSoFar ==
  ASSUME StoreInvariant, NEW d, NEW c, NEW o, IsReading(o, d, c), NEW n \in 1..c
  PROVE  \A m \in 1..c : o[m].p = o[n].p => (m <= n <=> o[m].corder <= o[n].corder)
<1> SUFFICES ASSUME NEW m \in 1..c, o[m].p = o[n].p
             PROVE  m <= n <=> o[m].corder <= o[n].corder
  OBVIOUS
<1>1. /\ o[m] \in Rows(d) /\ o[n] \in Rows(d)
      /\ o[m] = o[n] => m = n
      /\ m < n => o[m].p[3] < o[n].p[3] \/ (o[m].p[3] = o[n].p[3] /\ o[m].corder <= o[n].corder)
      /\ n < m => o[n].p[3] < o[m].p[3] \/ (o[n].p[3] = o[m].p[3] /\ o[n].corder <= o[m].corder)
      /\ c \in Nat
  BY DEF IsReading
<1>2. PICK x \in Rows(d) : x = o[m]
  BY <1>1
<1>3. PICK y \in Rows(d) : y = o[n]
  BY <1>1
<1>4. /\ x.corder \in Int /\ x.p[3] \in Nat /\ x = RowAt(x.p[2], x.p[3], x.corder + 1)
      /\ y.corder \in Int /\ y.p[3] \in Nat /\ y = RowAt(y.p[2], y.p[3], y.corder + 1)
  BY RowParts
<1>5. x.p = y.p /\ (x.corder = y.corder => x = y)
  BY <1>2, <1>3, <1>4
<1> QED
  BY <1>1, <1>2, <1>3, <1>4, <1>5

(* The row of a second or later constraint comes after that of the one     *)
(* before.                                                                 *)
LEMMA RowBefore ==
  ASSUME StoreInvariant, NEW d, NEW c, NEW o, IsReading(o, d, c), NEW n \in 1..c,
         o[n].corder + 1 > 1
  PROVE  \E m \in 1..n-1 : o[m].p = o[n].p /\ o[m].corder + 1 = o[n].corder
<1>1. c \in Nat /\ o[n] \in Rows(d) /\ \A row \in Rows(d) : \E m \in 1..c : o[m] = row
  BY DEF IsReading
<1>2. PICK y \in Rows(d) : y = o[n]
  BY <1>1
<1>3. PICK s, i : s = y.p[2] /\ i = y.p[3]
  OBVIOUS
<1>4. /\ s \in SeedersOf(d) /\ i \in 1..PermissionsSeen(s) /\ y.corder \in Int
      /\ y.corder + 1 \in RowNumbers(s, i) /\ ConstraintsSeen(s, i) \in 0..K(i) /\ K(i) \in Nat
      /\ y.p = PermissionNode(s, i)
  BY <1>3, RowParts
<1>5. y.corder \in RowNumbers(s, i)
  BY <1>2, <1>4 DEF RowNumbers
<1>6. RowAt(s, i, y.corder) \in Rows(d)
  BY <1>4, <1>5, RowsSeen
<1>7. PICK m \in 1..c : o[m] = RowAt(s, i, y.corder)
  BY <1>1, <1>6
<1>8. o[m].p = y.p /\ o[m].corder = y.corder - 1
  BY <1>4, <1>7 DEF RowAt
<1>9. m <= n
  BY <1>2, <1>4, <1>8, RowsSoFar
<1>10. m # n
  BY <1>2, <1>4, <1>8
<1>11. m \in 1..n-1
  BY <1>1, <1>9, <1>10
<1> QED
  BY <1>2, <1>4, <1>8, <1>11

(* The entries after one more row.                                         *)
LEMMA AddRowKeeps ==
  ASSUME StoreInvariant, NEW d, NEW c, NEW o, IsReading(o, d, c), NEW n \in 0..c-1,
         NEW entries, EntriesOK(o, d, c, n, entries)
  PROVE  EntriesOK(o, d, c, n+1, AddRow(entries, o[n+1]))
<1> DEFINE after == AddRow(entries, o[n+1])
           L == Len(entries)
<1>1. PICK row : row = o[n+1]
  OBVIOUS
<1>2. /\ c \in Nat /\ n+1 \in 1..c /\ row \in Rows(d)
      /\ \A m \in 1..c : o[m] \in Rows(d)
  BY <1>1 DEF IsReading
<1>3. PICK j : j = row.corder + 1
  OBVIOUS
<1>4. /\ row.p[3] \in Nat /\ j \in Nat /\ row.corder \in Int
      /\ row.constraint \in Seq(ConstraintSpec) /\ Len(row.constraint) = IF j = 0 THEN 0 ELSE 1
      /\ j # 0 => row.constraint[1] = offer.permissions[row.p[3]].constraints[j]
      /\ row.action = offer.permissions[row.p[3]].action
  <2>1. row.corder \in Int /\ j \in RowNumbers(row.p[2], row.p[3]) /\ row.p[3] \in Nat
        /\ ConstraintsSeen(row.p[2], row.p[3]) \in 0..K(row.p[3]) /\ K(row.p[3]) \in Nat
    BY <1>2, <1>3, RowParts
  <2>2. j \in Nat
    BY <2>1 DEF RowNumbers
  <2> QED
    BY <1>2, <1>3, <2>1, <2>2, RowConstraint
<1>5. \A m \in 1..c : o[m].p = row.p => (m <= n+1 <=> o[m].corder + 1 <= j)
  <2>1. \A m \in 1..c : o[m].p = row.p => (m <= n+1 <=> o[m].corder <= row.corder)
    BY <1>1, <1>2, RowsSoFar
  <2>2. \A m \in 1..c : o[m].corder \in Int
    BY <1>2, RowParts
  <2> QED
    BY <1>3, <1>4, <2>1, <2>2
<1>6. j > 1 => \E m \in 1..n : o[m].p = row.p /\ o[m].corder + 1 = j - 1
  <2>1. j > 1 => \E m \in 1..(n+1)-1 : o[m].p = row.p /\ o[m].corder + 1 = row.corder
    BY <1>1, <1>2, <1>3, RowBefore
  <2>2. (n+1)-1 = n /\ row.corder = j - 1
    BY <1>3, <1>4
  <2> QED
    BY <2>1, <2>2
<1>7. /\ entries \in Seq(Entry(d)) /\ L \in Nat
      /\ \A k \in 1..L : EntryOK(o, c, n, entries[k])
      /\ \A k, l \in 1..L :
           k < l => entries[k].p[3] <= entries[l].p[3] /\ entries[k].p # entries[l].p
      /\ \A m \in 1..n : \E k \in 1..L : entries[k].p = o[m].p
      /\ n > 0 => entries # <<>> /\ Last(entries).p = o[n].p
  BY DEF EntriesOK
<1>8. after \in Seq(Entry(d))
  BY <1>1, <1>2, <1>7, AddRowType
<1>9. \A m \in 1..n+1 : m \in 1..n \/ m = n+1
  OBVIOUS
<1>10. ASSUME NEW e, EntryOK(o, c, n, e), e.p # row.p PROVE EntryOK(o, c, n+1, e)
  <2>1. \A m \in 1..c : o[m].p = e.p => (m <= n+1 <=> m <= n)
    BY <1>1, <1>2, <1>10
  <2>2. \E m \in 1..n+1 : o[m].p = e.p /\ o[m].corder + 1 = Len(e.constraints)
    BY <1>10 DEF EntryOK
  <2> QED
    BY <1>10, <2>1, <2>2 DEF EntryOK
<1>11. CASE entries # <<>> /\ SameEntry(Last(entries), row)
  <2>1. L \in 1..L /\ entries[L].p = row.p
    BY <1>7, <1>11 DEF SameEntry, Last
  <2>2. PICK e \in Entry(d) : e = entries[L]
    BY <1>7, <2>1
  <2>3. EntryOK(o, c, n, e) /\ e.constraints \in Seq(ConstraintSpec) /\ e.p = row.p
    BY <1>7, <2>1, <2>2 DEF Entry
  <2>4. PICK w : w = Len(e.constraints)
    OBVIOUS
  <2>5. w \in Nat /\ j = w + 1
    <3>1. w \in Nat
      BY <2>3, <2>4
    <3>2. j > w
      <4>1. n+1 <= n <=> j <= w
        BY <1>1, <1>2, <1>3, <2>3, <2>4 DEF EntryOK
      <4> QED
        BY <1>4, <3>1, <4>1
    <3>3. CASE j > 1
      <4>1. PICK m \in 1..n : o[m].p = row.p /\ o[m].corder + 1 = j - 1
        BY <1>6, <3>3
      <4>2. j - 1 <= w
        BY <1>2, <2>3, <2>4, <4>1 DEF EntryOK
      <4> QED
        BY <1>4, <3>1, <3>2, <4>2
    <3>4. CASE ~ (j > 1)
      BY <1>4, <3>1, <3>2, <3>4
    <3> QED
      BY <3>3, <3>4
  <2>6. PICK f : f = e.constraints \o row.constraint
    OBVIOUS
  <2>7. /\ Len(f) = j
        /\ \A b \in 1..j : f[b] = offer.permissions[row.p[3]].constraints[b]
    <3>1. Len(row.constraint) = 1
      BY <1>4, <2>5
    <3>2. PICK g \in Seq(ConstraintSpec), r \in Seq(ConstraintSpec) :
            g = e.constraints /\ r = row.constraint
      BY <1>4, <2>3
    <3>3. /\ Len(g \o r) = Len(g) + Len(r)
          /\ \A m \in 1..Len(g) : (g \o r)[m] = g[m]
          /\ \A a \in 1..Len(r) : (g \o r)[Len(g) + a] = r[a]
      BY ConcatBlocks
    <3>4. f = g \o r /\ Len(g) = w /\ Len(r) = 1
      BY <2>4, <2>6, <3>1, <3>2
    <3>5. Len(f) = j /\ (\A b \in 1..w : f[b] = g[b]) /\ f[j] = r[1]
      BY <2>5, <3>3, <3>4
    <3>6. \A b \in 1..w : g[b] = offer.permissions[row.p[3]].constraints[b]
      BY <2>3, <2>4, <3>2 DEF EntryOK
    <3>7. r[1] = offer.permissions[row.p[3]].constraints[j]
      BY <1>4, <2>5, <3>2
    <3>8. \A b \in 1..j : b \in 1..w \/ b = j
      BY <2>5
    <3> QED
      BY <3>5, <3>6, <3>7, <3>8
  <2>8. PICK new : new = [p |-> e.p, action |-> e.action, constraints |-> f]
    OBVIOUS
  <2>9. EntryOK(o, c, n+1, new)
    <3>1. new.p = row.p /\ new.action = e.action /\ new.constraints = f
      BY <2>3, <2>8
    <3>2. \E m \in 1..n+1 : o[m].p = row.p /\ o[m].corder + 1 = j
      BY <1>1, <1>3
    <3> QED
      BY <1>5, <2>3, <2>7, <3>1, <3>2 DEF EntryOK
  <2>10. after = [entries EXCEPT ![L] = new]
    BY <1>1, <1>11, <2>2, <2>6, <2>8 DEF AddRow
  <2>11. /\ Len(after) = L /\ after[L] = new /\ new.p = entries[L].p
         /\ \A k \in 1..L : after[k].p = entries[k].p /\ (k # L => after[k] = entries[k])
    <3>1. new.p = entries[L].p
      BY <2>2, <2>8
    <3>2. /\ Len([entries EXCEPT ![L] = new]) = L
          /\ [entries EXCEPT ![L] = new][L] = new
          /\ \A k \in 1..L : k # L => [entries EXCEPT ![L] = new][k] = entries[k]
      BY <1>7, <2>1
    <3> HIDE DEF after
    <3> QED
      BY <2>1, <2>10, <3>1, <3>2
  <2> HIDE DEF after, L
  <2>12. ASSUME NEW k \in 1..L PROVE EntryOK(o, c, n+1, after[k])
    <3>1. CASE k = L
      BY <2>9, <2>11, <3>1
    <3>2. CASE k # L
      <4>1. entries[k].p # entries[L].p /\ after[k] = entries[k] /\ EntryOK(o, c, n, entries[k])
        BY <1>7, <2>1, <2>11, <3>2
      <4> QED
        BY <1>10, <2>1, <4>1
    <3> QED
      BY <3>1, <3>2
  <2>13. \A m \in 1..n+1 : \E k \in 1..L : after[k].p = o[m].p
    BY <1>1, <1>7, <1>9, <2>1, <2>11
  <2>14. after # <<>> /\ Last(after).p = o[n+1].p
    <3>1. after # <<>>
      BY <2>1, <2>11, <1>7, EmptySeq
    <3> QED
      BY <1>1, <2>1, <2>11, <3>1 DEF Last
  <2>15. \A k, l \in 1..L :
           k < l => after[k].p[3] <= after[l].p[3] /\ after[k].p # after[l].p
    BY <1>7, <2>11
  <2> QED
    BY <1>8, <2>11, <2>12, <2>13, <2>14, <2>15 DEF EntriesOK, after
<1>12. CASE ~ (entries # <<>> /\ SameEntry(Last(entries), row))
  <2>1. ASSUME NEW m \in 1..n PROVE o[m].p # row.p
    <3>1. o[n].p # row.p
      BY <1>7, <1>12 DEF SameEntry
    <3>2. CASE m = n
      BY <3>1, <3>2
    <3>3. CASE m # n
      <4>1. m < n /\ n < n+1 /\ m \in 1..c /\ n \in 1..c
        BY <1>2, <3>3
      <4>2. o[m].p = o[n+1].p => o[n].p = o[m].p
        BY <1>2, <4>1 DEF IsReading
      <4> QED
        BY <1>1, <3>1, <4>2
    <3> QED
      BY <3>2, <3>3
  <2>2. j \in {0, 1}
    BY <1>4, <1>6, <2>1
  <2>3. PICK new : new = [p |-> row.p, action |-> row.action, constraints |-> row.constraint]
    OBVIOUS
  <2>4. new.p = row.p /\ new.action = row.action /\ new.constraints = row.constraint
    BY <2>3
  <2>5. EntryOK(o, c, n+1, new)
    <3>1. \E m \in 1..n+1 : o[m].p = row.p /\ o[m].corder + 1 = j
      BY <1>1, <1>3
    <3>2. Len(row.constraint) = j
      BY <1>4, <2>2
    <3>3. \A b \in 1..j : row.constraint[b] = offer.permissions[row.p[3]].constraints[b]
      BY <1>4, <2>2
    <3> QED
      BY <1>4, <1>5, <2>4, <3>1, <3>2, <3>3 DEF EntryOK
  <2>6. after = Append(entries, new)
    BY <1>1, <1>12, <2>3 DEF AddRow
  <2>7. new \in Entry(d)
    BY <1>2, <1>4, <2>3 DEF Entry
  <2>8. /\ Len(after) = L+1 /\ after[L+1] = new
        /\ \A k \in 1..L : after[k] = entries[k]
    <3> HIDE DEF after
    <3> QED
      BY <1>7, <2>6, <2>7, AppendProperties
  <2> HIDE DEF after, L
  <2>9. \A k \in 1..L+1 : k \in 1..L \/ k = L+1
    BY <1>7
  <2>10. ASSUME NEW k \in 1..L
         PROVE  entries[k].p # row.p /\ entries[k].p[3] <= row.p[3]
    <3>1. PICK m \in 1..n : o[m].p = entries[k].p
      BY <1>7 DEF EntryOK
    <3>2. m \in 1..c /\ m < n+1
      BY <1>2
    <3>3. o[m].p[3] < row.p[3] \/ o[m].p[3] = row.p[3]
      BY <1>1, <1>2, <3>2 DEF IsReading
    <3>4. o[m].p[3] \in Nat
      BY <1>2, <3>2, RowParts
    <3> QED
      BY <1>4, <2>1, <3>1, <3>3, <3>4
  <2>11. ASSUME NEW k \in 1..L+1 PROVE EntryOK(o, c, n+1, after[k])
    <3>1. CASE k = L+1
      BY <2>5, <2>8, <3>1
    <3>2. CASE k \in 1..L
      BY <1>7, <1>10, <2>8, <2>10, <3>2
    <3> QED
      BY <2>9, <3>1, <3>2
  <2>12. ASSUME NEW k \in 1..L+1, NEW l \in 1..L+1, k < l
         PROVE  after[k].p[3] <= after[l].p[3] /\ after[k].p # after[l].p
    <3>1. k \in 1..L
      BY <1>7, <2>12
    <3>2. CASE l = L+1
      BY <2>4, <2>8, <2>10, <3>1, <3>2
    <3>3. CASE l \in 1..L
      BY <1>7, <2>8, <2>12, <3>1, <3>3
    <3> QED
      BY <2>9, <3>2, <3>3
  <2>13. \A m \in 1..n+1 : \E k \in 1..L+1 : after[k].p = o[m].p
    <3>1. L+1 \in 1..L+1 /\ \A k \in 1..L : k \in 1..L+1
      BY <1>7
    <3>2. after[L+1].p = o[n+1].p
      BY <1>1, <2>4, <2>8
    <3>3. ASSUME NEW m \in 1..n PROVE \E k \in 1..L : after[k].p = o[m].p
      <4>1. PICK k \in 1..L : entries[k].p = o[m].p
        BY <1>7
      <4> QED
        BY <2>8, <4>1
    <3> QED
      BY <1>9, <3>1, <3>2, <3>3
  <2>14. after # <<>> /\ Last(after).p = o[n+1].p
    <3>1. after # <<>>
      BY <1>7, <2>8, EmptySeq
    <3> QED
      BY <1>1, <2>4, <2>8, <3>1 DEF Last
  <2> QED
    BY <1>8, <2>8, <2>11, <2>12, <2>13, <2>14 DEF EntriesOK, after
<1> QED
  BY <1>11, <1>12

(* What a reader of a dataset is given: an entry for every permission seen *)
(* of every seeding, by order of the permissions, each with the            *)
(* constraints seen of it.                                                 *)
EntrySeen(d, e) ==
  LET s == e.p[2]
      i == e.p[3] IN
  /\ s \in SeedersOf(d) /\ i \in 1..PermissionsSeen(s)
  /\ e.p = PermissionNode(s, i)
  /\ e.action = offer.permissions[i].action
  /\ Len(e.constraints) = ConstraintsSeen(s, i)
  /\ \A j \in 1..ConstraintsSeen(s, i) : e.constraints[j] = offer.permissions[i].constraints[j]

IsGrouping(d, entries) ==
  /\ entries \in Seq(Entry(d))
  /\ \A k \in 1..Len(entries) : EntrySeen(d, entries[k])
  /\ \A k, l \in 1..Len(entries) :
       k < l => entries[k].p[3] <= entries[l].p[3] /\ entries[k].p # entries[l].p
  /\ \A s \in SeedersOf(d) : \A i \in 1..PermissionsSeen(s) :
       \E k \in 1..Len(entries) : entries[k].p = PermissionNode(s, i)

(* After the last row.                                                     *)
LEMMA ReadingIsGrouped ==
  ASSUME StoreInvariant, NEW d, NEW c, NEW o, IsReading(o, d, c)
  PROVE  EntriesOK(o, d, c, c, Grouped(o))
<1>1. c \in Nat /\ o \in Seq(Rows(d)) /\ Len(o) = c
  BY DEF IsReading
<1>2. PICK e : /\ e \in [0..c -> Seq(Entry(d))]
               /\ e[0] = <<>>
               /\ \A n \in 0..c-1 : e[n+1] = AddRow(e[n], o[n+1])
               /\ Grouped(o) = e[c]
  BY <1>1, GroupedLoop
<1> DEFINE U == {n \in Nat : EntriesOK(o, d, c, n, e[n])}
<1>3. 0 \in U
  <2>1. EntriesOK(o, d, c, 0, <<>>)
    BY EmptySeq DEF EntriesOK
  <2> QED
    BY <1>2, <2>1
<1>4. \A n \in 0..c-1 : n \in U => n+1 \in U
  <2> SUFFICES ASSUME NEW n \in 0..c-1, EntriesOK(o, d, c, n, e[n])
               PROVE  EntriesOK(o, d, c, n+1, e[n+1])
    OBVIOUS
  <2>1. PICK entries : entries = e[n]
    OBVIOUS
  <2>2. EntriesOK(o, d, c, n+1, AddRow(entries, o[n+1]))
    BY <2>1, AddRowKeeps
  <2> QED
    BY <1>2, <2>1, <2>2
<1> HIDE DEF U
<1>5. 0..c \subseteq U
  BY ONLY <1>1, <1>3, <1>4, BoundedInduction
<1>6. c \in U
  BY <1>1, <1>5
<1> QED
  BY <1>2, <1>6 DEF U

(* Every answer is such a grouping, unless copies mix.                     *)
LEMMA GroupingsSeen ==
  ASSUME StoreInvariant, NEW d, CopiesCannotMix(d), NEW entries \in Groupings(d)
  PROVE  IsGrouping(d, entries)
<1>1. PICK o \in Orderings(Rows(d)) : entries = Grouped(o)
  BY DEF Groupings
<1>2. PICK c : IsReading(o, d, c)
  BY OrderingIsReading
<1>3. EntriesOK(o, d, c, c, entries)
  BY <1>1, <1>2, ReadingIsGrouped
<1>4. /\ c \in Nat /\ (\A m \in 1..c : o[m] \in Rows(d))
      /\ \A row \in Rows(d) : \E n \in 1..c : o[n] = row
  BY <1>2 DEF IsReading
<1>5. ASSUME NEW k \in 1..Len(entries) PROVE EntrySeen(d, entries[k])
  <2>1. PICK e : e = entries[k]
    OBVIOUS
  <2>2. EntryOK(o, c, c, e) /\ e \in Entry(d)
    BY <1>3, <2>1, ElementOfSeq DEF EntriesOK
  <2>3. PICK m \in 1..c : o[m].p = e.p /\ o[m].corder + 1 = Len(e.constraints)
    BY <2>2 DEF EntryOK
  <2>4. PICK row \in Rows(d) : row = o[m]
    BY <1>4
  <2>5. PICK s, i, l : s = e.p[2] /\ i = e.p[3] /\ l = Len(e.constraints)
    OBVIOUS
  <2>6. /\ s \in SeedersOf(d) /\ i \in 1..PermissionsSeen(s) /\ e.p = PermissionNode(s, i)
        /\ l \in RowNumbers(s, i) /\ ConstraintsSeen(s, i) \in 0..K(i) /\ K(i) \in Nat
    <3>1. row.p = e.p /\ row.corder + 1 = l
      BY <2>3, <2>4, <2>5
    <3> QED
      BY <2>5, <3>1, RowParts
  <2>7. l <= ConstraintsSeen(s, i) /\ l \in Nat
    BY <2>6 DEF RowNumbers
  <2>8. ConstraintsSeen(s, i) <= l
    <3>1. CASE ConstraintsSeen(s, i) = 0
      BY <2>6, <2>7, <3>1
    <3>2. CASE ConstraintsSeen(s, i) # 0
      <4>1. ConstraintsSeen(s, i) \in RowNumbers(s, i)
        BY <2>6, <3>2 DEF RowNumbers
      <4>2. RowAt(s, i, ConstraintsSeen(s, i)) \in Rows(d)
        BY <2>6, <4>1, RowsSeen
      <4>3. PICK b \in 1..c : o[b] = RowAt(s, i, ConstraintsSeen(s, i))
        BY <1>4, <4>2
      <4>4. o[b].p = e.p /\ o[b].corder = ConstraintsSeen(s, i) - 1
        BY <2>6, <4>3 DEF RowAt
      <4>5. o[b].corder + 1 <= l
        BY <1>4, <2>2, <2>5, <4>4 DEF EntryOK
      <4> QED
        BY <2>6, <4>4, <4>5
    <3> QED
      BY <3>1, <3>2
  <2>9. l = ConstraintsSeen(s, i)
    BY <2>6, <2>7, <2>8
  <2>10. /\ e.action = offer.permissions[i].action
         /\ \A j \in 1..l : e.constraints[j] = offer.permissions[i].constraints[j]
    BY <2>2, <2>5 DEF EntryOK
  <2> QED
    BY <2>1, <2>5, <2>6, <2>9, <2>10 DEF EntrySeen
<1>6. ASSUME NEW s \in SeedersOf(d), NEW i \in 1..PermissionsSeen(s)
      PROVE  \E k \in 1..Len(entries) : entries[k].p = PermissionNode(s, i)
  <2>1. \E j : j \in RowNumbers(s, i)
    <3>1. s \in Seeder /\ PermissionsSeen(s) \in 0..P /\ offer \in FileOffer
      BY SeenInOrder, OffersAssumption DEF SeedersOf, StoreInvariant
    <3>2. i \in 1..P
      BY <3>1, OfferType
    <3>3. ConstraintsSeen(s, i) \in 0..K(i) /\ K(i) \in Nat
      BY <3>1, <3>2, SeenInOrder, OfferType
    <3>4. ConstraintsSeen(s, i) = 0 \/ 1 \in 1..ConstraintsSeen(s, i)
      BY <3>3
    <3> QED
      BY <3>4 DEF RowNumbers
  <2>2. PICK j \in RowNumbers(s, i) : TRUE
    BY <2>1
  <2>3. RowAt(s, i, j) \in Rows(d)
    BY RowsSeen
  <2>4. PICK m \in 1..c : o[m] = RowAt(s, i, j)
    BY <1>4, <2>3
  <2>5. o[m].p = PermissionNode(s, i)
    BY <2>4 DEF RowAt
  <2> QED
    BY <1>3, <2>5 DEF EntriesOK
<1> QED
  BY <1>3, <1>5, <1>6 DEF EntriesOK, IsGrouping

SelectOne(s, selected, e) == IF e.p[2] = s THEN Append(selected, e) ELSE selected

(* f[n] is what the loop over the entries has selected after n of them.   *)
IsSelectLoop(f, T, entries, s) ==
  /\ f \in [0..Len(entries) -> Seq(T)]
  /\ f[0] = <<>>
  /\ \A n \in 0..Len(entries)-1 : f[n+1] = SelectOne(s, f[n], entries[n+1])
  /\ OfSeeding(s, entries) = f[Len(entries)]

(* The loop over the entries is defined for each of them.                  *)
LEMMA SelectLoop ==
  ASSUME NEW T, NEW entries \in Seq(T), NEW s
  PROVE  \E f : IsSelectLoop(f, T, entries, s)
<1> DEFINE S == Seq(T)
           L == Len(entries)
           F == [x \in Nat \X S |-> IF x[1] + 1 <= L THEN SelectOne(s, x[2], entries[x[1] + 1]) ELSE x[2]]
           IsLoop(f) == f = [n \in 0..L |->
                               IF n = 0 THEN <<>>
                               ELSE IF entries[n].p[2] = s THEN Append(f[n-1], entries[n])
                               ELSE f[n-1]]
<1>1. L \in Nat /\ \A n \in 1..L : entries[n] \in T
  BY LenProperties, ElementOfSeq
<1>2. \A t \in S, e \in T : SelectOne(s, t, e) \in S
  BY AppendProperties DEF SelectOne
<1>3. <<>> \in S
  BY EmptySeq
<1> HIDE DEF S, L
<1>4. F \in [Nat \X S -> S]
  <2> SUFFICES ASSUME NEW k \in Nat, NEW t \in S, k + 1 <= L
               PROVE  SelectOne(s, t, entries[k+1]) \in S
    OBVIOUS
  <2>1. k + 1 \in 1..L
    BY <1>1
  <2> QED
    BY <1>1, <1>2, <2>1
<1>5. \A k \in Nat, t \in S : k + 1 <= L => F[<<k, t>>] = SelectOne(s, t, entries[k+1])
  OBVIOUS
<1> HIDE DEF F
<1>6. PICK g : IsDefinedBy(g, S, <<>>, F)
  BY <1>3, <1>4, Recursion
<1> DEFINE f == [n \in 0..L |-> g[n]]
<1>7. f \in [0..L -> S] /\ f[0] = <<>>
  BY <1>1, <1>6 DEF IsDefinedBy
<1>8. ASSUME NEW n \in 1..L PROVE f[n] = SelectOne(s, f[n-1], entries[n])
  <2>1. n-1 \in Nat /\ (n-1)+1 = n /\ n-1 \in 0..L /\ n \in 0..L /\ (n-1)+1 <= L
    BY <1>1
  <2>2. g[n] = F[<<n-1, g[n-1]>>] /\ g[n-1] \in S
    BY <1>6, <2>1 DEF IsDefinedBy
  <2>3. F[<<n-1, g[n-1]>>] = SelectOne(s, g[n-1], entries[(n-1)+1])
    BY <1>5, <2>1, <2>2
  <2>4. entries[(n-1)+1] = entries[n]
    BY <2>1
  <2> QED
    BY <2>1, <2>2, <2>3, <2>4
<1>9. IsLoop(f)
  <2>1. \A n \in 0..L : f[n] = IF n = 0 THEN <<>>
                               ELSE IF entries[n].p[2] = s THEN Append(f[n-1], entries[n])
                               ELSE f[n-1]
    <3> SUFFICES ASSUME NEW n \in 0..L, n # 0 PROVE f[n] = SelectOne(s, f[n-1], entries[n])
      BY <1>7 DEF SelectOne
    <3> QED
      BY <1>1, <1>8
  <2>2. f = [n \in 0..L |-> f[n]]
    OBVIOUS
  <2> HIDE DEF f
  <2> QED
    BY <2>1, <2>2
<1> DEFINE h == CHOOSE h : IsLoop(h)
<1>10. IsLoop(h)
  <2> HIDE DEF f, IsLoop
  <2> QED
    BY <1>9
<1>11. OfSeeding(s, entries) = h[L]
  BY DEF OfSeeding, L
<1> HIDE DEF h, f
<1>12. 0..L \subseteq {n \in Nat : h[n] = f[n]}
  <2> DEFINE U == {n \in Nat : h[n] = f[n]}
  <2>1. \A n \in 0..L : h[n] = IF n = 0 THEN <<>>
                               ELSE IF entries[n].p[2] = s THEN Append(h[n-1], entries[n])
                               ELSE h[n-1]
    BY <1>10
  <2>2. 0 \in U
    BY <1>1, <1>7, <2>1
  <2>3. \A n \in 0..L-1 : n \in U => n+1 \in U
    <3> SUFFICES ASSUME NEW n \in 0..L-1, h[n] = f[n] PROVE h[n+1] = f[n+1]
      BY <1>1
    <3>1. n+1 \in 1..L /\ n+1 \in 0..L /\ n+1 # 0 /\ (n+1)-1 = n
      BY <1>1
    <3>2. h[n+1] = SelectOne(s, h[n], entries[n+1])
      BY <2>1, <3>1 DEF SelectOne
    <3>3. f[n+1] = SelectOne(s, f[n], entries[n+1])
      BY <1>8, <3>1
    <3> QED
      BY <3>2, <3>3
  <2> HIDE DEF U
  <2>4. 0..L \subseteq U
    BY <1>1, <2>2, <2>3, BoundedInduction
  <2> QED
    BY <2>4 DEF U
<1>13. \A n \in 0..L-1 : f[n+1] = SelectOne(s, f[n], entries[n+1])
  <2> TAKE n \in 0..L-1
  <2>1. n+1 \in 1..L /\ (n+1)-1 = n
    BY <1>1
  <2> QED
    BY <1>8, <2>1
<1>14. OfSeeding(s, entries) = f[L]
  BY <1>1, <1>11, <1>12
<1>15. IsSelectLoop(f, T, entries, s)
  BY <1>7, <1>13, <1>14 DEF L, S, IsSelectLoop
<1> QED
  BY <1>15

(* What the selection has of the first n entries: the first permissions of *)
(* the seeding, in their order.                                            *)
SelectedOK(entries, s, n, selected) ==
  /\ Len(selected) \in 0..PermissionsSeen(s)
  /\ \A k \in 1..Len(selected) :
       /\ \E m \in 1..n : selected[k] = entries[m]
       /\ selected[k].p = PermissionNode(s, k)
  /\ \A m \in 1..n : entries[m].p[2] = s => entries[m].p[3] <= Len(selected)

(* One more entry.                                                         *)
LEMMA SelectOneKeeps ==
  ASSUME StoreInvariant, NEW d, NEW entries, IsGrouping(d, entries), NEW s \in SeedersOf(d),
         NEW n \in 0..Len(entries)-1, NEW selected \in Seq(Entry(d)),
         SelectedOK(entries, s, n, selected)
  PROVE  SelectedOK(entries, s, n+1, SelectOne(s, selected, entries[n+1]))
<1>1. PICK L : L = Len(entries)
  OBVIOUS
<1>2. PICK e : e = entries[n+1]
  OBVIOUS
<1>3. /\ L \in Nat /\ n+1 \in 1..L /\ e \in Entry(d) /\ EntrySeen(d, e)
      /\ \A m \in 1..L : EntrySeen(d, entries[m])
  <2>1. L \in Nat /\ n+1 \in 1..L
    BY <1>1, LenProperties DEF IsGrouping
  <2> QED
    BY <1>1, <1>2, <2>1, ElementOfSeq DEF IsGrouping
<1>4. PICK x : x = Len(selected)
  OBVIOUS
<1>5. x \in 0..PermissionsSeen(s) /\ PermissionsSeen(s) \in Nat /\ x \in Nat
  <2>1. PermissionsSeen(s) \in 0..P /\ P \in Nat
    BY SeenInOrder, OffersAssumption, OfferType DEF SeedersOf, StoreInvariant
  <2> QED
    BY <1>4, <2>1 DEF SelectedOK
<1>6. \A m \in 1..n+1 : m \in 1..n \/ m = n+1
  OBVIOUS
<1>7. CASE e.p[2] # s
  <2>1. SelectOne(s, selected, e) = selected
    BY <1>7 DEF SelectOne
  <2>2. \A k \in 1..x : \E m \in 1..n+1 : selected[k] = entries[m]
    BY <1>4 DEF SelectedOK
  <2>3. \A m \in 1..n+1 : entries[m].p[2] = s => entries[m].p[3] <= x
    BY <1>2, <1>4, <1>6, <1>7 DEF SelectedOK
  <2> QED
    BY <1>2, <1>4, <1>5, <2>1, <2>2, <2>3 DEF SelectedOK
<1>8. CASE e.p[2] = s
  <2>1. PICK i : i = e.p[3]
    OBVIOUS
  <2>2. i \in 1..PermissionsSeen(s) /\ e.p = PermissionNode(s, i)
    BY <1>3, <1>8, <2>1 DEF EntrySeen
  <2>3. i > x
    <3> SUFFICES ASSUME i <= x PROVE FALSE
      BY <1>5, <2>2
    <3>1. i \in 1..x
      BY <1>5, <2>2
    <3>2. PICK m \in 1..n : selected[i] = entries[m] /\ selected[i].p = PermissionNode(s, i)
      BY <1>4, <3>1 DEF SelectedOK
    <3>3. m \in 1..L /\ m < n+1
      BY <1>3
    <3>4. entries[m].p # entries[n+1].p
      BY <1>1, <1>3, <3>3 DEF IsGrouping
    <3> QED
      BY <1>2, <2>2, <3>2, <3>4
  <2>4. ~ (i > x + 1)
    <3> SUFFICES ASSUME i > x + 1 PROVE FALSE
      OBVIOUS
    <3>1. x + 1 \in 1..PermissionsSeen(s)
      BY <1>5, <2>2
    <3>2. PICK k \in 1..L : entries[k].p = PermissionNode(s, x + 1)
      BY <1>1, <3>1 DEF IsGrouping
    <3>3. entries[k].p[2] = s /\ entries[k].p[3] = x + 1
      BY <3>2 DEF PermissionNode
    <3>4. ~ (k <= n)
      BY <1>3, <1>4, <1>5, <3>3 DEF SelectedOK
    <3>5. k # n+1
      <4> SUFFICES ASSUME k = n+1 PROVE FALSE
        OBVIOUS
      <4>1. entries[k] = e
        BY <1>2
      <4>2. i = x + 1
        BY ONLY <2>1, <3>3, <4>1
      <4> QED
        BY <1>5, <4>2
    <3>6. n+1 < k
      BY <1>3, <3>4, <3>5
    <3>7. entries[n+1].p[3] <= entries[k].p[3]
      BY <1>1, <1>3, <3>6 DEF IsGrouping
    <3> QED
      BY <1>2, <1>5, <2>1, <2>2, <3>3, <3>7
  <2>5. i = x + 1
    BY <1>5, <2>2, <2>3, <2>4
  <2>6. PICK after : after = Append(selected, e)
    OBVIOUS
  <2>7. /\ Len(after) = x + 1 /\ after[x+1] = e
        /\ \A k \in 1..x : after[k] = selected[k]
    BY <1>3, <1>4, <2>6, AppendProperties
  <2>8. SelectOne(s, selected, e) = after
    BY <1>8, <2>6 DEF SelectOne
  <2>9. ASSUME NEW k \in 1..x+1
        PROVE  /\ \E m \in 1..n+1 : after[k] = entries[m]
               /\ after[k].p = PermissionNode(s, k)
    <3>1. CASE k = x+1
      BY <1>2, <2>2, <2>5, <2>7, <3>1
    <3>2. CASE k # x+1
      <4>1. k \in 1..x
        BY <1>5, <3>2
      <4>2. PICK m \in 1..n : selected[k] = entries[m] /\ selected[k].p = PermissionNode(s, k)
        BY <1>4, <4>1 DEF SelectedOK
      <4>3. m \in 1..n+1
        OBVIOUS
      <4> QED
        BY <2>7, <4>1, <4>2, <4>3
    <3> QED
      BY <3>1, <3>2
  <2>10. \A m \in 1..n+1 : entries[m].p[2] = s => entries[m].p[3] <= x + 1
    <3> SUFFICES ASSUME NEW m \in 1..n+1, entries[m].p[2] = s PROVE entries[m].p[3] <= x + 1
      OBVIOUS
    <3>1. CASE m = n+1
      <4>1. entries[m].p[3] = x + 1
        BY <1>2, <2>1, <2>5, <3>1
      <4> QED
        BY <1>5, <4>1
    <3>2. CASE m \in 1..n
      <4>1. entries[m].p[3] <= x
        BY <1>4, <3>2 DEF SelectedOK
      <4>2. entries[m].p[3] \in Nat
        <5>1. m \in 1..L
          BY <1>3
        <5> QED
          BY <1>3, <1>5, <5>1 DEF EntrySeen
      <4> QED
        BY <1>5, <4>1, <4>2
    <3> QED
      BY <1>6, <3>1, <3>2
  <2>11. x + 1 \in 0..PermissionsSeen(s)
    BY <1>5, <2>2, <2>5
  <2> QED
    BY <1>2, <2>7, <2>8, <2>9, <2>10, <2>11 DEF SelectedOK
<1> QED
  BY <1>7, <1>8

(* A seeding's entries are those of the permissions seen of it, in order.  *)
LEMMA SelectionIsSeen ==
  ASSUME StoreInvariant, NEW d, NEW entries, IsGrouping(d, entries), NEW s \in SeedersOf(d)
  PROVE  /\ OfSeeding(s, entries) \in Seq(Entry(d))
         /\ Len(OfSeeding(s, entries)) = PermissionsSeen(s)
         /\ \A k \in 1..PermissionsSeen(s) :
              /\ EntrySeen(d, OfSeeding(s, entries)[k])
              /\ OfSeeding(s, entries)[k].p = PermissionNode(s, k)
<1>1. PICK L : L = Len(entries)
  OBVIOUS
<1>2. entries \in Seq(Entry(d)) /\ L \in Nat
  BY <1>1, LenProperties DEF IsGrouping
<1>3. PICK f : /\ f \in [0..L -> Seq(Entry(d))]
               /\ f[0] = <<>>
               /\ \A n \in 0..L-1 : f[n+1] = SelectOne(s, f[n], entries[n+1])
               /\ OfSeeding(s, entries) = f[L]
  <2>1. PICK T : T = Entry(d)
    OBVIOUS
  <2>2. entries \in Seq(T)
    BY <1>2, <2>1
  <2>3. \E f : IsSelectLoop(f, T, entries, s)
    BY ONLY <2>2, SelectLoop
  <2>4. PICK f : IsSelectLoop(f, T, entries, s)
    BY <2>3
  <2> QED
    BY <1>1, <2>1, <2>4 DEF IsSelectLoop
<1>4. PermissionsSeen(s) \in Nat
  BY SeenInOrder, OffersAssumption, OfferType DEF SeedersOf, StoreInvariant
<1> DEFINE U == {n \in Nat : SelectedOK(entries, s, n, f[n])}
<1>5. 0 \in U
  <2>1. SelectedOK(entries, s, 0, <<>>)
    BY <1>4 DEF SelectedOK
  <2> QED
    BY <1>3, <2>1
<1>6. \A n \in 0..L-1 : n \in U => n+1 \in U
  <2> SUFFICES ASSUME NEW n \in 0..L-1, SelectedOK(entries, s, n, f[n])
               PROVE  SelectedOK(entries, s, n+1, f[n+1])
    OBVIOUS
  <2>1. PICK selected \in Seq(Entry(d)) : selected = f[n]
    BY <1>2, <1>3
  <2>2. SelectedOK(entries, s, n+1, SelectOne(s, selected, entries[n+1]))
    BY <1>1, <2>1, SelectOneKeeps
  <2> QED
    BY <1>3, <2>1, <2>2
<1> HIDE DEF U
<1>7. 0..L \subseteq U
  BY ONLY <1>2, <1>5, <1>6, BoundedInduction
<1>8. L \in U
  BY <1>2, <1>7
<1>9. PICK selected : selected = OfSeeding(s, entries)
  OBVIOUS
<1>10. selected \in Seq(Entry(d)) /\ SelectedOK(entries, s, L, selected)
  BY <1>2, <1>3, <1>8, <1>9 DEF U
<1>11. Len(selected) = PermissionsSeen(s)
  <2>1. Len(selected) \in 0..PermissionsSeen(s)
    BY <1>10 DEF SelectedOK
  <2>2. CASE PermissionsSeen(s) = 0
    BY <2>1, <2>2
  <2>3. CASE PermissionsSeen(s) # 0
    <3>1. PermissionsSeen(s) \in 1..PermissionsSeen(s)
      BY <1>4, <2>3
    <3>2. PICK k \in 1..L : entries[k].p = PermissionNode(s, PermissionsSeen(s))
      BY <1>1, <3>1 DEF IsGrouping
    <3>3. entries[k].p[2] = s /\ entries[k].p[3] = PermissionsSeen(s)
      BY <3>2 DEF PermissionNode
    <3>4. PermissionsSeen(s) <= Len(selected)
      BY <1>10, <3>3 DEF SelectedOK
    <3> QED
      BY <1>4, <2>1, <3>4
  <2> QED
    BY <2>2, <2>3
<1>12. \A k \in 1..PermissionsSeen(s) :
              EntrySeen(d, selected[k]) /\ selected[k].p = PermissionNode(s, k)
  BY <1>1, <1>10, <1>11 DEF SelectedOK, IsGrouping
<1> QED
  BY <1>9, <1>10, <1>11, <1>12

(* Two sequences of the same elements are the same.                        *)
LEMMA WholeConstraints ==
  ASSUME StoreInvariant, NEW i \in 1..P, NEW cs \in Seq(ConstraintSpec), Len(cs) = K(i),
         \A j \in 1..K(i) : cs[j] = offer.permissions[i].constraints[j]
  PROVE  /\ cs = offer.permissions[i].constraints
         /\ [action |-> offer.permissions[i].action, constraints |-> cs] = offer.permissions[i]
<1>1. PICK p \in PermissionSpec : p = offer.permissions[i]
  BY OffersAssumption, OfferType DEF StoreInvariant
<1>2. p.constraints \in Seq(ConstraintSpec) /\ Len(p.constraints) = K(i)
      /\ p = [action |-> p.action, constraints |-> p.constraints]
  BY <1>1 DEF PermissionSpec, K
<1>3. cs = p.constraints
  BY <1>1, <1>2, SeqEqual
<1> QED
  BY <1>1, <1>2, <1>3

(* The entries of a seeding are the authored permissions, cut off.         *)
LEMMA SelectionIsTruncation ==
  ASSUME StoreInvariant, NEW d, NEW entries, IsGrouping(d, entries), NEW s \in SeedersOf(d)
  PROVE  IsTruncation(PermissionArray(OfSeeding(s, entries)), offer.permissions)
<1>1. PICK selected : selected = OfSeeding(s, entries)
  OBVIOUS
<1>2. PICK read : read = PermissionArray(selected)
  OBVIOUS
<1>3. PICK V : V = PermissionsSeen(s)
  OBVIOUS
<1>4. s \in Seeder /\ offer \in FileOffer /\ V \in 0..P /\ P \in Nat
  BY <1>3, SeenInOrder, OffersAssumption, OfferType DEF SeedersOf, StoreInvariant
<1>5. /\ selected \in Seq(Entry(d)) /\ Len(selected) = V
      /\ \A k \in 1..V : EntrySeen(d, selected[k]) /\ selected[k].p = PermissionNode(s, k)
  BY <1>1, <1>3, SelectionIsSeen
<1>6. /\ Len(read) = V /\ DOMAIN read = 1..V
      /\ \A k \in 1..V : read[k] = [action |-> selected[k].action,
                                    constraints |-> selected[k].constraints]
  BY <1>2, <1>4, <1>5 DEF PermissionArray
<1>7. ASSUME NEW k \in 1..V
      PROVE  /\ k \in 1..P
             /\ read[k].action = offer.permissions[k].action
             /\ IsPrefix(read[k].constraints, offer.permissions[k].constraints)
             /\ k < V => read[k] = offer.permissions[k]
  <2>1. k \in 1..P
    BY <1>4
  <2>2. PICK e \in Entry(d) : e = selected[k]
    BY <1>5, ElementOfSeq
  <2>3. PICK cs \in Seq(ConstraintSpec) : cs = e.constraints
    BY DEF Entry
  <2>4. e.p[2] = s /\ e.p[3] = k
    BY <1>5, <2>2 DEF PermissionNode
  <2>5. /\ e.action = offer.permissions[k].action
        /\ Len(cs) = ConstraintsSeen(s, k)
        /\ \A j \in 1..ConstraintsSeen(s, k) : cs[j] = offer.permissions[k].constraints[j]
    <3>1. EntrySeen(d, e)
      BY <1>5, <2>2
    <3> QED
      BY ONLY <2>3, <2>4, <3>1 DEF EntrySeen
  <2>6. /\ ConstraintsSeen(s, k) \in 0..K(k) /\ K(k) \in Nat
        /\ k < V => ConstraintsSeen(s, k) = K(k)
    BY <1>3, <1>4, <2>1, SeenInOrder, OfferType
  <2>7. read[k] = [action |-> e.action, constraints |-> cs]
    BY <1>6, <2>2, <2>3
  <2>8. k < V => read[k] = offer.permissions[k]
    BY <2>1, <2>5, <2>6, <2>7, WholeConstraints
  <2>9. IsPrefix(cs, offer.permissions[k].constraints)
    <3>1. PICK all \in Seq(ConstraintSpec) : all = offer.permissions[k].constraints
      BY <1>4, <2>1, OfferType
    <3>2. Len(all) = K(k)
      BY <3>1 DEF K
    <3>3. \A j \in 1..Len(cs) : cs[j] = all[j]
      BY <2>5, <3>1
    <3>4. Len(cs) <= Len(all) /\ Len(cs) \in Nat
      BY <2>5, <2>6, <3>2
    <3>5. SubSeq(cs, 1, Len(cs)) = SubSeq(all, 1, Len(cs))
      BY <3>3, <3>4
    <3> QED
      BY <3>1, <3>4, <3>5 DEF IsPrefix
  <2> QED
    BY <2>1, <2>5, <2>7, <2>8, <2>9
<1>8. V <= Len(offer.permissions)
  BY <1>4 DEF P
<1> QED
  BY <1>1, <1>2, <1>6, <1>7, <1>8 DEF IsTruncation

(* So every answer of policy_jsonld is of truncations.                     *)
LEMMA AnswersAreTruncations == StoreInvariant => ReadsAreTruncations
<1> SUFFICES ASSUME StoreInvariant, NEW d \in Dataset, CopiesCannotMix(d),
                    NEW entries \in Groupings(d), NEW s \in SeedersOf(d)
             PROVE  IsTruncation(PermissionArray(OfSeeding(s, entries)), offer.permissions)
  BY DEF ReadsAreTruncations
<1>1. IsGrouping(d, entries)
  BY GroupingsSeen
<1> QED
  BY <1>1, SelectionIsTruncation

(* Between any two inserts of any number of seedings, some of which may    *)
(* have failed, policy_jsonld answers with the authored permissions of     *)
(* each seeding cut off at one point.                                      *)
THEOREM ReadsTruncated == GraphSpec => []ReadsAreTruncations
<1>1. GraphInit => StoreInvariant
  BY StoreInvariantInit
<1>2. StoreInvariant /\ [GraphNext]_graphVars => StoreInvariant'
  BY StoreInvariantStep
<1>3. StoreInvariant => ReadsAreTruncations
  BY AnswersAreTruncations
<1> QED
  BY <1>1, <1>2, <1>3, PTL DEF GraphSpec

(* The permissions, each n times.                                          *)
LEMMA RepeatedPlaces ==
  ASSUME offer \in FileOffer, NEW n \in Nat
  PROVE  LET repeated == Repeated(n, offer.permissions) IN
         /\ repeated \in Seq(PermissionSpec)
         /\ Len(repeated) = n * P
         /\ \A i \in 1..P : \A b \in 1..n : repeated[n * (i-1) + b] = offer.permissions[i]
<1> DEFINE seqs == [i \in 1..P |-> [k \in 1..n |-> offer.permissions[i]]]
           off == [i \in 1..P+1 |-> n * (i-1)]
<1>1. P \in Nat /\ DOMAIN offer.permissions = 1..P
      /\ \A i \in 1..P : offer.permissions[i] \in PermissionSpec
  BY OfferType
<1>2. Repeated(n, offer.permissions) = FlattenSeq(seqs)
  BY <1>1 DEF Repeated
<1>3. /\ seqs \in Seq(Seq(PermissionSpec)) /\ Len(seqs) = P
      /\ \A i \in 1..P : /\ Len(seqs[i]) = n
                         /\ \A b \in 1..n : seqs[i][b] = offer.permissions[i]
  <2>1. \A i \in 1..P : [k \in 1..n |-> offer.permissions[i]] \in Seq(PermissionSpec)
                        /\ Len([k \in 1..n |-> offer.permissions[i]]) = n
    BY <1>1
  <2> QED
    BY <1>1, <2>1
<1>4. /\ off \in [1..P+1 -> Nat] /\ off[1] = 0 /\ off[P+1] = n * P
      /\ \A i \in 1..P : off[i] = n * (i-1) /\ off[i+1] = off[i] + n
  <2>1. \A i \in Nat : n * i \in Nat /\ n * (i+1) = n * i + n
    OBVIOUS
  <2>2. n * 0 = 0
    OBVIOUS
  <2>3. \A i \in 1..P+1 : i-1 \in Nat
    BY <1>1
  <2>4. off \in [1..P+1 -> Nat] /\ off[1] = 0 /\ off[P+1] = n * P
    BY <1>1, <2>1, <2>2, <2>3
  <2>5. ASSUME NEW i \in 1..P PROVE off[i] = n * (i-1) /\ off[i+1] = off[i] + n
    <3>1. i \in 1..P+1 /\ i+1 \in 1..P+1 /\ (i+1)-1 = (i-1)+1 /\ i-1 \in Nat
      BY <1>1
    <3>2. off[i] = n * (i-1) /\ off[i+1] = n * ((i-1)+1)
      BY <3>1
    <3> QED
      BY <2>1, <3>1, <3>2
  <2> QED
    BY <2>4, <2>5
<1> HIDE DEF seqs, off
<1>5. IsOffsets(off, Lengths(seqs), Len(seqs))
  <2>1. \A i \in 1..P : Lengths(seqs)[i] = n
    BY <1>3 DEF Lengths
  <2> QED
    BY <1>3, <1>4, <2>1 DEF IsOffsets
<1>6. /\ FlattenSeq(seqs) \in Seq(PermissionSpec)
      /\ Len(FlattenSeq(seqs)) = off[Len(seqs) + 1]
      /\ \A i \in 1..Len(seqs) : \A a \in 1..Len(seqs[i]) :
           FlattenSeq(seqs)[off[i] + a] = seqs[i][a]
  <2>1. IsFlattening(FlattenSeq(seqs), PermissionSpec, seqs, off)
    BY <1>3, <1>5, FlattenProperties
  <2> QED
    BY ONLY <2>1 DEF IsFlattening
<1>7. ASSUME NEW i \in 1..P, NEW b \in 1..n
      PROVE  FlattenSeq(seqs)[n * (i-1) + b] = offer.permissions[i]
  <2>1. FlattenSeq(seqs)[off[i] + b] = seqs[i][b]
    BY <1>3, <1>6
  <2> QED
    BY <1>3, <1>4, <2>1
<1>8. PICK repeated : repeated = FlattenSeq(seqs)
  OBVIOUS
<1>9. /\ repeated \in Seq(PermissionSpec) /\ Len(repeated) = n * P
      /\ \A i \in 1..P : \A b \in 1..n : repeated[n * (i-1) + b] = offer.permissions[i]
  BY <1>3, <1>4, <1>6, <1>7, <1>8
<1> QED
  BY ONLY <1>2, <1>8, <1>9

(* Of a completed seeding everything is seen.                              *)
LEMMA DoneIsSeen ==
  ASSUME StoreInvariant, NEW s \in Seeder, seeding[s].pc = "done"
  PROVE  /\ N(s) \in Nat /\ N(s) >= 9
         /\ PermissionsSeen(s) = P
         /\ \A i \in 1..P : ConstraintsSeen(s, i) = K(i)
<1>1. offer \in FileOffer /\ N(s) \in Nat /\ N(s) = Len(Quads(D(s), s)) /\ P \in Nat
  BY OffersAssumption, OfferType DEF StoreInvariant, SeedingOK, N, D
<1>2. N(s) >= 9
  BY <1>1, QuadsNonempty
<1>3. /\ PermissionsSeen(s) \in 0..P
      /\ \A i \in 1..P : PermissionPlace(i, 4) <= N(s) <=> i <= PermissionsSeen(s)
  BY SeenInOrder
<1>4. \A i \in 1..P : PermissionPlace(i, 4) \in 1..N(s)
  BY <1>1, QuadAtPlace
<1>5. \A i \in 1..P : i <= PermissionsSeen(s)
  BY <1>1, <1>3, <1>4
<1>6. PermissionsSeen(s) = P
  <2>1. P = 0 \/ P \in 1..P
    BY <1>1
  <2> QED
    BY <1>1, <1>3, <1>5, <2>1
<1>7. ASSUME NEW i \in 1..P PROVE ConstraintsSeen(s, i) = K(i)
  <2>1. /\ ConstraintsSeen(s, i) \in 0..K(i) /\ K(i) \in Nat
        /\ \A j \in 1..K(i) : ConstraintPlace(i, j, 5) <= N(s) <=> j <= ConstraintsSeen(s, i)
    BY <1>1, SeenInOrder, OfferType
  <2>2. \A j \in 1..K(i) : ConstraintPlace(i, j, 5) \in 1..N(s)
    BY <1>1, QuadAtPlace
  <2>3. \A j \in 1..K(i) : j <= ConstraintsSeen(s, i)
    BY <1>1, <2>1, <2>2
  <2>4. K(i) = 0 \/ K(i) \in 1..K(i)
    BY <2>1
  <2> QED
    BY <2>1, <2>3, <2>4
<1> QED
  BY <1>1, <1>2, <1>6, <1>7

(* The entry of a permission of a completed seeding is that permission.    *)
LEMMA EntryIsWhole ==
  ASSUME StoreInvariant, NEW d, NEW e \in Entry(d), EntrySeen(d, e),
         seeding[e.p[2]].pc = "done"
  PROVE  [action |-> e.action, constraints |-> e.constraints] = offer.permissions[e.p[3]]
<1>1. PICK s, i : s = e.p[2] /\ i = e.p[3]
  OBVIOUS
<1>2. PICK cs \in Seq(ConstraintSpec) : cs = e.constraints
  BY DEF Entry
<1>3. /\ s \in Seeder /\ i \in 1..PermissionsSeen(s) /\ e.action = offer.permissions[i].action
      /\ Len(cs) = ConstraintsSeen(s, i)
      /\ \A j \in 1..ConstraintsSeen(s, i) : cs[j] = offer.permissions[i].constraints[j]
  BY <1>1, <1>2 DEF EntrySeen, SeedersOf
<1>4. i \in 1..P /\ ConstraintsSeen(s, i) = K(i)
  BY <1>1, <1>3, DoneIsSeen
<1>5. [action |-> offer.permissions[i].action, constraints |-> cs] = offer.permissions[i]
  BY <1>3, <1>4, WholeConstraints
<1> QED
  BY <1>1, <1>2, <1>3, <1>5

(* A grouping of completed seedings only: each permission once for each,   *)
(* with all its constraints.                                               *)
LEMMA WholeGrouping ==
  ASSUME StoreInvariant, NEW d, NEW entries, IsGrouping(d, entries),
         \A s \in SeedersOf(d) : seeding[s].pc = "done"
  PROVE  PermissionArray(entries) = Repeated(Cardinality(SeedersOf(d)), offer.permissions)
<1>1. PICK S, n, L : S = SeedersOf(d) /\ n = Cardinality(S) /\ L = Len(entries)
  OBVIOUS
<1>2. offer \in FileOffer /\ P \in Nat /\ S \subseteq Seeder /\ IsFiniteSet(S) /\ n \in Nat
  BY <1>1, OffersAssumption, OfferType, RowsFinite, FS_CardinalityType DEF StoreInvariant, SeedersOf
<1>3. \A s \in S : /\ PermissionsSeen(s) = P
                   /\ \A i \in 1..P : ConstraintsSeen(s, i) = K(i)
  BY <1>1, <1>2, DoneIsSeen
<1>4. L \in Nat /\ DOMAIN entries = 1..L /\ \A k \in 1..L : entries[k] \in Entry(d)
  BY <1>1, LenProperties, ElementOfSeq DEF IsGrouping
<1>5. \A k \in 1..L : /\ entries[k].p[2] \in S /\ entries[k].p[3] \in 1..P
                      /\ entries[k].p = PermissionNode(entries[k].p[2], entries[k].p[3])
  BY <1>1, <1>3 DEF IsGrouping, EntrySeen
<1> DEFINE a == [k \in 1..L |-> <<entries[k].p[2], entries[k].p[3]>>]
<1>6. a \in [1..L -> S \X (1..P)] /\ \A k \in 1..L : a[k][2] = entries[k].p[3]
  BY <1>5
<1>7. ASSUME NEW k \in 1..L, NEW l \in 1..L, a[k] = a[l] PROVE k = l
  <2>1. entries[k].p = entries[l].p
    BY <1>5, <1>7
  <2>2. k < l \/ l < k \/ k = l
    BY <1>4
  <2> QED
    BY <1>1, <2>1, <2>2 DEF IsGrouping
<1>8. ASSUME NEW x \in S \X (1..P) PROVE \E k \in 1..L : a[k] = x
  <2>1. PICK k \in 1..L : entries[k].p = PermissionNode(x[1], x[2])
    BY <1>1, <1>3 DEF IsGrouping
  <2>2. a[k] = <<x[1], x[2]>>
    BY <2>1 DEF PermissionNode
  <2> QED
    BY <2>2
<1>9. ASSUME NEW k \in 1..L, NEW l \in 1..L, k < l PROVE a[k][2] <= a[l][2]
  BY <1>1, <1>6, <1>9 DEF IsGrouping
<1> HIDE DEF a
<1>10. /\ L = n * P
       /\ \A i \in 1..P : \A b \in 1..n : n * (i-1) + b \in 1..L /\ a[n * (i-1) + b][2] = i
  <2>1. PICK p \in Nat : p = P
    BY <1>2
  <2>2. /\ a \in [1..L -> S \X (1..p)]
        /\ \A k, l \in 1..L : a[k] = a[l] => k = l
        /\ \A x \in S \X (1..p) : \E k \in 1..L : a[k] = x
        /\ \A k, l \in 1..L : k < l => a[k][2] <= a[l][2]
    BY <1>6, <1>7, <1>8, <1>9, <2>1
  <2>3. n = Cardinality(S)
    BY <1>1
  <2>4. IsFiniteSet(S) /\ L \in Nat
    BY <1>2, <1>4
  <2>5. ArePairs(a, S, p, L)
    BY <2>2 DEF ArePairs
  <2>6. InBlocks(a, n, p, L)
    BY ONLY <2>1, <2>3, <2>4, <2>5, SortedPairs
  <2> QED
    BY <2>1, <2>6 DEF InBlocks
<1>11. PICK array, repeated : /\ array = PermissionArray(entries)
                              /\ repeated = Repeated(n, offer.permissions)
  OBVIOUS
<1>12. /\ repeated \in Seq(PermissionSpec) /\ Len(repeated) = L
       /\ \A i \in 1..P : \A b \in 1..n : repeated[n * (i-1) + b] = offer.permissions[i]
  BY <1>2, <1>10, <1>11, RepeatedPlaces
<1>13. ASSUME NEW k \in 1..L
       PROVE  [action |-> entries[k].action, constraints |-> entries[k].constraints]
                = offer.permissions[entries[k].p[3]]
  <2>1. PICK e \in Entry(d) : e = entries[k]
    BY <1>4
  <2>2. EntrySeen(d, e) /\ seeding[e.p[2]].pc = "done"
    BY <1>1, <1>5, <2>1 DEF IsGrouping
  <2>3. [action |-> e.action, constraints |-> e.constraints] = offer.permissions[e.p[3]]
    BY <2>2, EntryIsWhole
  <2> QED
    BY <2>1, <2>3
<1>14. \A k \in 1..L : array[k] = offer.permissions[entries[k].p[3]]
  BY <1>4, <1>11, <1>13 DEF PermissionArray
<1>15. \A k \in 1..L : array[k] = repeated[k]
  <2> SUFFICES ASSUME NEW k \in 1..L PROVE array[k] = repeated[k]
    OBVIOUS
  <2>1. PICK p \in Nat : p = P
    BY <1>2
  <2>2. k \in 1..n * p
    BY <1>10, <2>1
  <2>3. \E i \in 1..p : \E b \in 1..n : k = n * (i-1) + b
    BY ONLY <1>2, <2>2, BlocksCover
  <2>4. PICK i \in 1..p : \E b \in 1..n : k = n * (i-1) + b
    BY <2>3
  <2>5. PICK b \in 1..n : k = n * (i-1) + b
    BY <2>4
  <2>6. a[k][2] = i
    BY <1>10, <2>1, <2>5
  <2>7. repeated[k] = offer.permissions[i]
    BY <1>12, <2>1, <2>5
  <2> QED
    BY <1>6, <1>14, <2>6, <2>7
<1>16. array = [k \in 1..L |-> array[k]]
  BY <1>4, <1>11 DEF PermissionArray
<1>17. repeated = [k \in 1..L |-> repeated[k]]
  BY <1>4, <1>12
<1> QED
  BY <1>1, <1>11, <1>15, <1>16, <1>17

(* Rows can be put in order, so policy_jsonld's second query has an answer. *)
LEMMA AnOrderingExists ==
  ASSUME StoreInvariant, NEW d
  PROVE  \E o \in Orderings(Rows(d)) : TRUE
<1>1. PICK R : R = Rows(d)
  OBVIOUS
<1>2. IsFiniteSet(R)
  BY <1>1, RowsFinite
<1>3. \A x \in R : SortKey(x)[1] \in Int /\ SortKey(x)[2] \in Int
  <2> SUFFICES ASSUME NEW x \in R PROVE SortKey(x)[1] \in Int /\ SortKey(x)[2] \in Int
    OBVIOUS
  <2>1. SortKey(x) = <<x.p[3] - 1, x.corder>> /\ x.p[3] \in Nat /\ x.corder \in Int
    BY <1>1, RowParts
  <2> QED
    BY <2>1
<1> DEFINE Le == {x \in R \X R : ~ Before(SortKey(x[2]), SortKey(x[1]))}
<1>4. \A x, y \in R : <<x, y>> \in Le <=> ~ Before(SortKey(y), SortKey(x))
  OBVIOUS
<1> HIDE DEF Le
<1>5. \A x, y \in R : <<x, y>> \in Le \/ <<y, x>> \in Le
  <2> SUFFICES ASSUME NEW x \in R, NEW y \in R
               PROVE  <<x, y>> \in Le \/ <<y, x>> \in Le
    OBVIOUS
  <2>1. PICK k, l : k = SortKey(x) /\ l = SortKey(y)
    OBVIOUS
  <2>2. k[1] \in Int /\ k[2] \in Int /\ l[1] \in Int /\ l[2] \in Int
    BY <1>3, <2>1
  <2>3. ~ Before(l, k) \/ ~ Before(k, l)
    BY ONLY <2>2 DEF Before
  <2> QED
    BY <1>4, <2>1, <2>3
<1>6. \A x, y, z \in R : <<x, y>> \in Le /\ <<y, z>> \in Le => <<x, z>> \in Le
  <2> SUFFICES ASSUME NEW x \in R, NEW y \in R, NEW z \in R,
                      <<x, y>> \in Le, <<y, z>> \in Le
               PROVE  <<x, z>> \in Le
    OBVIOUS
  <2>1. PICK k, l, m : k = SortKey(x) /\ l = SortKey(y) /\ m = SortKey(z)
    OBVIOUS
  <2>2. /\ k[1] \in Int /\ k[2] \in Int /\ l[1] \in Int /\ l[2] \in Int
        /\ m[1] \in Int /\ m[2] \in Int
    BY <1>3, <2>1
  <2>3. ~ Before(l, k) /\ ~ Before(m, l)
    BY <1>4, <2>1
  <2>4. ~ Before(m, k)
    BY ONLY <2>2, <2>3 DEF Before
  <2> QED
    BY <1>4, <2>1, <2>4
<1>7. PICK o \in SetToSeqs(R) : \A m, n \in 1..Cardinality(R) : m < n => <<o[m], o[n]>> \in Le
  BY ONLY <1>2, <1>5, <1>6, SortedArrangement
<1>8. /\ o \in [1..Cardinality(R) -> R] /\ DOMAIN o = 1..Cardinality(R)
  BY <1>2, ArrangementProperties
<1>9. \A m, n \in DOMAIN o : m < n => ~ Before(SortKey(o[n]), SortKey(o[m]))
  BY <1>4, <1>7, <1>8
<1> QED
  BY <1>1, <1>9 DEF Orderings

(* A completed seeding of a dataset gives each of its first queries one    *)
(* answer.                                                                 *)
LEMMA HeaderIsRead ==
  ASSUME StoreInvariant, NEW s \in Seeder, seeding[s].pc = "done", NEW d, D(s) = d
  PROVE  /\ file_path(d) = {offer.file_path}
         /\ media_type(d) = {offer.media_type}
         /\ header(d) = {<<dataset_iri(d), offer.assigner>>}
<1>1. N(s) \in Nat /\ N(s) >= 9
  BY DoneIsSeen
<1>2. 5 <= N(s) /\ 6 <= N(s) /\ 8 <= N(s) /\ 9 <= N(s)
  BY <1>1
<1>3. \A o : o \in file_path(d) <=> o = offer.file_path
  BY <1>2, HeaderObjects DEF file_path
<1>4. \A o : o \in media_type(d) <=> o = offer.media_type
  BY <1>2, HeaderObjects DEF media_type
<1>5. \A o : o \in Objects(policy_iri(d), odrl("target")) <=> o = dataset_iri(d)
  BY <1>2, HeaderObjects
<1>6. \A o : o \in Objects(policy_iri(d), odrl("assigner")) <=> o = offer.assigner
  BY <1>2, HeaderObjects
<1>7. header(d) = {<<dataset_iri(d), offer.assigner>>}
  BY <1>5, <1>6 DEF header
<1> QED
  BY <1>3, <1>4, <1>7

(* One completed seeding, or several whose constraints cannot mix, is read *)
(* back as it was authored.                                                *)
LEMMA CompletedIsReadBack ==
  ASSUME StoreInvariant, NEW d, CopiesCannotMix(d)
  PROVE  ReadsBack(d)
<1>1. PICK S : S = SeedersOf(d)
  OBVIOUS
<1> SUFFICES ASSUME Cardinality(S) > 0, \A s \in S : seeding[s].pc = "done"
             PROVE  /\ file_path(d) = {offer.file_path}
                    /\ media_type(d) = {offer.media_type}
                    /\ header(d) = {<<dataset_iri(d), offer.assigner>>}
                    /\ permissions_jsonld(d) = {Repeated(Cardinality(S), offer.permissions)}
  BY <1>1 DEF ReadsBack
<1>2. PICK s \in S : TRUE
  BY FS_EmptySet
<1>3. /\ file_path(d) = {offer.file_path}
      /\ media_type(d) = {offer.media_type}
      /\ header(d) = {<<dataset_iri(d), offer.assigner>>}
  BY <1>1, <1>2, HeaderIsRead DEF SeedersOf, D
<1>4. permissions_jsonld(d) = {Repeated(Cardinality(S), offer.permissions)}
  <2>1. ASSUME NEW entries \in Groupings(d)
        PROVE  PermissionArray(entries) = Repeated(Cardinality(S), offer.permissions)
    BY <1>1, GroupingsSeen, WholeGrouping
  <2>2. \E entries \in Groupings(d) : TRUE
    BY AnOrderingExists DEF Groupings
  <2> QED
    BY <2>1, <2>2 DEF permissions_jsonld
<1> QED
  BY <1>3, <1>4

(* What was seeded is read back: when every seeding of a dataset is done,  *)
(* the answer of policy_jsonld is unique, and it is the authored           *)
(* permissions in their order, each whole and once for every seeding.      *)
THEOREM SeededIsReadBack == GraphSpec => []SeedingsReadBack
<1>1. GraphInit => StoreInvariant
  BY StoreInvariantInit
<1>2. StoreInvariant /\ [GraphNext]_graphVars => StoreInvariant'
  BY StoreInvariantStep
<1>3. StoreInvariant => SeedingsReadBack
  BY CompletedIsReadBack DEF SeedingsReadBack
<1> QED
  BY <1>1, <1>2, <1>3, PTL DEF GraphSpec

(* Whatever other seedings of the dataset are doing, an answer has every   *)
(* permission of a completed one.                                          *)
LEMMA CompletedIsInAnswer ==
  ASSUME StoreInvariant, NEW d, CopiesCannotMix(d),
         NEW s \in SeedersOf(d), seeding[s].pc = "done",
         NEW array \in permissions_jsonld(d)
  PROVE  ToSet(offer.permissions) \subseteq ToSet(array)
<1>1. PICK entries \in Groupings(d) : array = PermissionArray(entries)
  BY DEF permissions_jsonld
<1>2. IsGrouping(d, entries)
  BY GroupingsSeen
<1>3. /\ DOMAIN offer.permissions = 1..P /\ PermissionsSeen(s) = P
      /\ DOMAIN entries = 1..Len(entries) /\ \A k \in 1..Len(entries) : entries[k] \in Entry(d)
  <2>1. offer \in FileOffer /\ s \in Seeder
    BY OffersAssumption DEF StoreInvariant, SeedersOf
  <2> QED
    BY <1>2, <2>1, OfferType, DoneIsSeen, ElementOfSeq DEF IsGrouping
<1>4. ASSUME NEW i \in 1..P PROVE offer.permissions[i] \in ToSet(array)
  <2>1. PICK k \in 1..Len(entries) : entries[k].p = PermissionNode(s, i)
    BY <1>2, <1>3 DEF IsGrouping
  <2>2. PICK e \in Entry(d) : e = entries[k]
    BY <1>3
  <2>3. e.p[2] = s /\ e.p[3] = i /\ EntrySeen(d, e)
    BY <1>2, <2>1, <2>2 DEF PermissionNode, IsGrouping
  <2>4. [action |-> e.action, constraints |-> e.constraints] = offer.permissions[i]
    BY <2>3, EntryIsWhole
  <2>5. k \in DOMAIN array /\ array[k] = offer.permissions[i]
    BY <1>1, <1>3, <2>2, <2>4 DEF PermissionArray
  <2> QED
    BY <2>5 DEF ToSet
<1> QED
  BY <1>3, <1>4 DEF ToSet
=============================================================================
