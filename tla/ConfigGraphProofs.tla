------------------------- MODULE ConfigGraphProofs -------------------------
(***************************************************************************)
(* Proofs about ConfigGraph for any offer, any number of datasets and any  *)
(* number of seedings.  The store is what the seedings inserted, each a    *)
(* prefix of its quads (StoreInvariant); where a quad stands among the     *)
(* quads of a seeding gives what each query finds, and that every quad     *)
(* and every answer has its type (GraphTyped).                             *)
(***************************************************************************)
EXTENDS ConfigGraph, SequenceLemmas

-----------------------------------------------------------------------------
(* The places of an offer's quads.                                         *)

P == Len(offer.permissions)
K(i) == Len(offer.permissions[i].constraints)

BlockLen == [i \in 1..P |-> 4 + 5 * K(i)]
BlockStart == CHOOSE off : IsOffsets(off, BlockLen, P)

PermissionPlace(i, a)    == 9 + BlockStart[i] + a
ConstraintPlace(i, j, b) == 9 + BlockStart[i] + 4 + 5 * (j-1) + b

(* What FileOffer says of the permissions.                                 *)
LEMMA OfferType ==
  ASSUME offer \in FileOffer
  PROVE  /\ P \in Nat
         /\ offer.permissions \in Seq(PermissionSpec)
         /\ DOMAIN offer.permissions = 1..P
         /\ \A i \in 1..P :
              /\ offer.permissions[i] \in PermissionSpec
              /\ offer.permissions[i].constraints \in Seq(ConstraintSpec)
              /\ DOMAIN offer.permissions[i].constraints = 1..K(i)
              /\ K(i) \in Nat
<1>1. offer.permissions \in Seq(PermissionSpec)
  BY DEF FileOffer
<1>2. P \in Nat /\ DOMAIN offer.permissions = 1..P
      /\ \A i \in 1..P : offer.permissions[i] \in PermissionSpec
  BY <1>1, LenProperties, ElementOfSeq DEF P
<1>3. \A i \in 1..P : offer.permissions[i].constraints \in Seq(ConstraintSpec)
  BY <1>2 DEF PermissionSpec
<1>4. \A i \in 1..P : DOMAIN offer.permissions[i].constraints = 1..K(i) /\ K(i) \in Nat
  BY <1>3, LenProperties DEF K
<1> QED
  BY <1>1, <1>2, <1>3, <1>4

(* The offsets of the permissions' blocks.                                 *)
LEMMA StartIsOffsets ==
  ASSUME offer \in FileOffer
  PROVE  BlockLen \in [1..P -> Nat] /\ IsOffsets(BlockStart, BlockLen, P)
<1>1. BlockLen \in [1..P -> Nat]
  BY OfferType DEF BlockLen
<1>2. \E off : IsOffsets(off, BlockLen, P)
  BY <1>1, OfferType, OffsetsExist
<1> QED
  BY <1>1, <1>2 DEF BlockStart

(* The quads of a permission, and of one of its constraints.               *)
PermissionQuad(d, s, i, a) == PermissionQuads(d, s, i, offer.permissions[i].action)[a]
ConstraintQuad(s, i, j, b) ==
  ConstraintQuads(s, i, j, offer.permissions[i].constraints[j])[b]

AnyQuad(d, s) ==
  {HeaderQuads(d)[n] : n \in 1..9}
    \cup (UNION {{PermissionQuad(d, s, i, a) : a \in 1..4} : i \in 1..P})
    \cup (UNION {UNION {{ConstraintQuad(s, i, j, b) : b \in 1..5} : j \in 1..K(i)} : i \in 1..P})

(* The constraints of a permission, five quads each.                       *)
LEMMA ConstraintPart ==
  ASSUME offer \in FileOffer, NEW d, NEW s, NEW i \in 1..P
  PROVE  LET all == AllConstraintQuads(s, i, offer.permissions[i].constraints) IN
         /\ all \in Seq(AnyQuad(d, s))
         /\ Len(all) = 5 * K(i)
         /\ \A j \in 1..K(i) : \A b \in 1..5 :
              all[5 * (j-1) + b] = ConstraintQuad(s, i, j, b)
<1> DEFINE specs == offer.permissions[i].constraints
           n == K(i)
           T == AnyQuad(d, s)
           seqs == [j \in 1..n |-> ConstraintQuads(s, i, j, specs[j])]
           off == [j \in 1..n+1 |-> 5 * (j-1)]
<1>1. n \in Nat /\ DOMAIN specs = 1..n
  BY OfferType
<1>2. \A j \in 1..n : /\ ConstraintQuads(s, i, j, specs[j]) \in Seq(T)
                      /\ Len(ConstraintQuads(s, i, j, specs[j])) = 5
  <2> TAKE j \in 1..n
  <2>1. \A b \in 1..5 : ConstraintQuad(s, i, j, b) \in T
    BY DEF AnyQuad
  <2>2. /\ ConstraintQuad(s, i, j, 1) \in T /\ ConstraintQuad(s, i, j, 2) \in T
        /\ ConstraintQuad(s, i, j, 3) \in T /\ ConstraintQuad(s, i, j, 4) \in T
        /\ ConstraintQuad(s, i, j, 5) \in T
    BY <2>1
  <2> HIDE DEF T
  <2> QED
    BY <2>2 DEF ConstraintQuad, ConstraintQuads
<1> HIDE DEF T
<1>3. seqs \in Seq(Seq(T)) /\ Len(seqs) = n /\ \A j \in 1..n : Len(seqs[j]) = 5
  BY <1>1, <1>2
<1>4. AllConstraintQuads(s, i, specs) = FlattenSeq(seqs)
  BY <1>1 DEF AllConstraintQuads
<1>5. IsOffsets(off, Lengths(seqs), Len(seqs))
  <2>1. off \in [1..n+1 -> Nat] /\ off[1] = 0
    BY <1>1
  <2>2. \A j \in 1..n : off[j+1] = off[j] + 5
    BY <1>1
  <2>3. \A j \in 1..Len(seqs) : Lengths(seqs)[j] = 5
    BY <1>3 DEF Lengths
  <2> HIDE DEF off, seqs, n
  <2> QED
    BY <1>3, <2>1, <2>2, <2>3 DEF IsOffsets
<1>6. off[n+1] = 5 * n /\ \A j \in 1..n : off[j] = 5 * (j-1)
  BY <1>1
<1>7. \A j \in 1..n : seqs[j] = ConstraintQuads(s, i, j, specs[j])
  OBVIOUS
<1> HIDE DEF off, seqs
<1>8. /\ FlattenSeq(seqs) \in Seq(T)
      /\ Len(FlattenSeq(seqs)) = off[Len(seqs) + 1]
      /\ \A j \in 1..Len(seqs) : \A a \in 1..Len(seqs[j]) :
           FlattenSeq(seqs)[off[j] + a] = seqs[j][a]
  <2>1. IsFlattening(FlattenSeq(seqs), T, seqs, off)
    BY <1>3, <1>5, FlattenProperties
  <2> QED
    BY ONLY <2>1 DEF IsFlattening
<1>9. ASSUME NEW j \in 1..n, NEW b \in 1..5
      PROVE  FlattenSeq(seqs)[5 * (j-1) + b] = ConstraintQuad(s, i, j, b)
  <2>1. j \in 1..Len(seqs) /\ b \in 1..Len(seqs[j]) /\ off[j] = 5 * (j-1)
    BY <1>3, <1>6
  <2>2. FlattenSeq(seqs)[off[j] + b] = seqs[j][b]
    BY <1>8, <2>1
  <2> QED
    BY <1>7, <2>1, <2>2 DEF ConstraintQuad
<1>10. Len(FlattenSeq(seqs)) = 5 * n
  BY <1>3, <1>6, <1>8
<1> QED
  BY <1>4, <1>8, <1>9, <1>10 DEF T

(* The quads of one permission, as Quads lists them.                       *)
Block(d, s, i) ==
  PermissionQuads(d, s, i, offer.permissions[i].action)
    \o AllConstraintQuads(s, i, offer.permissions[i].constraints)

(* One permission's block: itself, then its constraints.                   *)
LEMMA BlockPlaces ==
  ASSUME offer \in FileOffer, NEW d, NEW s, NEW i \in 1..P
  PROVE  /\ Block(d, s, i) \in Seq(AnyQuad(d, s))
         /\ Len(Block(d, s, i)) = 4 + 5 * K(i)
         /\ \A a \in 1..4 : Block(d, s, i)[a] = PermissionQuad(d, s, i, a)
         /\ \A j \in 1..K(i) : \A b \in 1..5 :
              Block(d, s, i)[4 + 5 * (j-1) + b] = ConstraintQuad(s, i, j, b)
<1> DEFINE specs == offer.permissions[i].constraints
           permission == PermissionQuads(d, s, i, offer.permissions[i].action)
           constraints == AllConstraintQuads(s, i, specs)
           T == AnyQuad(d, s)
<1>1. specs \in Seq(ConstraintSpec) /\ Len(specs) = K(i) /\ K(i) \in Nat
  BY OfferType DEF K
<1>2. \A a \in 1..4 : PermissionQuad(d, s, i, a) \in T
  BY DEF AnyQuad
<1>3. permission \in Seq(T) /\ Len(permission) = 4
      /\ \A a \in 1..4 : permission[a] = PermissionQuad(d, s, i, a)
  <2> DEFINE p == PermissionNode(s, i)
  <2>1. /\ <<policy_iri(d), odrl("permission"), p>> \in T
        /\ <<p, rdf("type"), odrl("Permission")>> \in T
        /\ <<p, ds("order"), i - 1>> \in T
        /\ <<p, odrl("action"), offer.permissions[i].action>> \in T
    <3>1. /\ PermissionQuad(d, s, i, 1) \in T /\ PermissionQuad(d, s, i, 2) \in T
          /\ PermissionQuad(d, s, i, 3) \in T /\ PermissionQuad(d, s, i, 4) \in T
      BY <1>2
    <3> HIDE DEF T
    <3> QED
      BY <3>1 DEF PermissionQuad, PermissionQuads
  <2> HIDE DEF T
  <2> QED
    BY <2>1 DEF PermissionQuad, PermissionQuads
<1>4. /\ constraints \in Seq(T)
      /\ Len(constraints) = 5 * K(i)
      /\ \A j \in 1..K(i) : \A b \in 1..5 :
           constraints[5 * (j-1) + b] = ConstraintQuad(s, i, j, b)
  BY ConstraintPart
<1> HIDE DEF T, permission, specs, constraints
<1>5. /\ permission \o constraints \in Seq(T)
      /\ Len(permission \o constraints) = 4 + Len(constraints)
      /\ \A a \in 1..4 : (permission \o constraints)[a] = permission[a]
      /\ \A a \in 1..Len(constraints) :
           (permission \o constraints)[4 + a] = constraints[a]
  <2>1. permission \in Seq(T) /\ constraints \in Seq(T)
    BY <1>3, <1>4
  <2>2. /\ permission \o constraints \in Seq(T)
        /\ Len(permission \o constraints) = Len(permission) + Len(constraints)
        /\ \A a \in 1..Len(permission) : (permission \o constraints)[a] = permission[a]
        /\ \A a \in 1..Len(constraints) :
             (permission \o constraints)[Len(permission) + a] = constraints[a]
    BY <2>1, ConcatBlocks
  <2> QED
    BY <1>3, <2>2
<1>6. ASSUME NEW j \in 1..K(i), NEW b \in 1..5
      PROVE  (permission \o constraints)[4 + 5 * (j-1) + b] = ConstraintQuad(s, i, j, b)
  <2>1. 5 * (j-1) + b \in 1..Len(constraints)
        /\ 4 + (5 * (j-1) + b) = 4 + 5 * (j-1) + b
    BY <1>1, <1>4
  <2>2. (permission \o constraints)[4 + (5 * (j-1) + b)] = constraints[5 * (j-1) + b]
    BY <1>5, <2>1
  <2> QED
    BY <1>4, <2>1, <2>2
<1>7. Len(permission \o constraints) = 4 + 5 * K(i)
  BY <1>4, <1>5
<1>8. permission \o constraints = Block(d, s, i)
  BY DEF permission, constraints, specs, Block
<1> QED
  BY <1>3, <1>5, <1>6, <1>7, <1>8 DEF T

(* The quads of a seeding: the header's, then the blocks.                  *)
LEMMA QuadPlaces ==
  ASSUME offer \in FileOffer, NEW d, NEW s
  PROVE  /\ Quads(d, s) \in Seq(AnyQuad(d, s))
         /\ Len(Quads(d, s)) = 9 + BlockStart[P+1]
         /\ \A n \in 1..9 : Quads(d, s)[n] = HeaderQuads(d)[n]
         /\ \A i \in 1..P : \A a \in 1..4 + 5 * K(i) :
              Quads(d, s)[9 + BlockStart[i] + a] = Block(d, s, i)[a]
<1> DEFINE T == AnyQuad(d, s)
           seqs == [i \in 1..P |-> Block(d, s, i)]
           head == HeaderQuads(d)
           tail == FlattenSeq(seqs)
<1>1. \A n \in 1..9 : head[n] \in T
  BY DEF AnyQuad
<1>2. head \in Seq(T) /\ Len(head) = 9
  <2>1. /\ head[1] \in T /\ head[2] \in T /\ head[3] \in T /\ head[4] \in T /\ head[5] \in T
        /\ head[6] \in T /\ head[7] \in T /\ head[8] \in T /\ head[9] \in T
    BY <1>1
  <2> HIDE DEF T
  <2> QED
    BY <2>1 DEF HeaderQuads
<1>3. \A i \in 1..P : Block(d, s, i) \in Seq(T) /\ Len(Block(d, s, i)) = 4 + 5 * K(i)
  BY BlockPlaces
<1>4. P \in Nat
  BY OfferType
<1> HIDE DEF T, head
<1>5. seqs \in Seq(Seq(T)) /\ Len(seqs) = P
      /\ \A i \in 1..P : seqs[i] = Block(d, s, i) /\ Len(seqs[i]) = 4 + 5 * K(i)
  BY <1>3, <1>4
<1>6. BlockLen = Lengths(seqs)
  BY <1>5 DEF BlockLen, Lengths
<1> HIDE DEF seqs
<1>7. IsOffsets(BlockStart, Lengths(seqs), Len(seqs))
  BY <1>5, <1>6, StartIsOffsets
<1>8. /\ tail \in Seq(T)
      /\ Len(tail) = BlockStart[P + 1]
      /\ \A i \in 1..Len(seqs) : \A a \in 1..Len(seqs[i]) : tail[BlockStart[i] + a] = seqs[i][a]
  <2>1. IsFlattening(tail, T, seqs, BlockStart)
    BY <1>5, <1>7, FlattenProperties
  <2> HIDE DEF tail
  <2> QED
    BY ONLY <1>5, <2>1 DEF IsFlattening
<1>9. Quads(d, s) = head \o tail
  <2>1. seqs = [i \in DOMAIN offer.permissions |->
                  PermissionQuads(d, s, i, offer.permissions[i].action)
                    \o AllConstraintQuads(s, i, offer.permissions[i].constraints)]
    BY OfferType DEF seqs, Block
  <2> QED
    BY <2>1 DEF Quads, head
<1> HIDE DEF tail
<1>10. /\ head \o tail \in Seq(T)
       /\ Len(head \o tail) = Len(head) + Len(tail)
       /\ \A n \in 1..Len(head) : (head \o tail)[n] = head[n]
       /\ \A m \in 1..Len(tail) : (head \o tail)[Len(head) + m] = tail[m]
  <2>1. head \in Seq(T) /\ tail \in Seq(T)
    BY <1>2, <1>8
  <2> QED
    BY <2>1, ConcatBlocks
<1>11. ASSUME NEW i \in 1..P, NEW a \in 1..4 + 5 * K(i)
       PROVE  (head \o tail)[9 + BlockStart[i] + a] = Block(d, s, i)[a]
  <2>1. K(i) \in Nat /\ BlockLen[i] = 4 + 5 * K(i) /\ P+1 \in i+1..P+1
    BY <1>4, OfferType DEF BlockLen
  <2>2. BlockStart[i] + BlockLen[i] <= BlockStart[P+1]
    BY <1>4, <2>1, StartIsOffsets, OffsetsOrdered
  <2>3. BlockStart[i] \in Nat /\ BlockStart[P+1] \in Nat
    BY <1>4, StartIsOffsets DEF IsOffsets
  <2>4. BlockStart[i] + a \in 1..BlockStart[P+1]
    BY <2>1, <2>2, <2>3
  <2>5. (head \o tail)[9 + (BlockStart[i] + a)] = tail[BlockStart[i] + a]
    BY <1>2, <1>8, <1>10, <2>4
  <2>6. 9 + (BlockStart[i] + a) = 9 + BlockStart[i] + a
    BY <2>3
  <2>7. tail[BlockStart[i] + a] = Block(d, s, i)[a]
    BY <1>5, <1>8
  <2> QED
    BY <2>5, <2>6, <2>7
<1>12. Len(head \o tail) = 9 + BlockStart[P+1] /\ \A n \in 1..9 : (head \o tail)[n] = head[n]
  BY <1>2, <1>8, <1>10
<1> QED
  BY <1>9, <1>10, <1>11, <1>12 DEF head, T

(* There are no other places.                                              *)
LEMMA PlacesCover ==
  ASSUME offer \in FileOffer, NEW n \in 1..9 + BlockStart[P+1]
  PROVE  \/ n \in 1..9
         \/ \E i \in 1..P : \E a \in 1..4 : n = PermissionPlace(i, a)
         \/ \E i \in 1..P : \E j \in 1..K(i) : \E b \in 1..5 : n = ConstraintPlace(i, j, b)
<1>1. P \in Nat /\ BlockStart[P+1] \in Nat
  BY OfferType, StartIsOffsets DEF IsOffsets
<1>2. SUFFICES ASSUME n > 9
               PROVE  \/ \E i \in 1..P : \E a \in 1..4 : n = PermissionPlace(i, a)
                      \/ \E i \in 1..P : \E j \in 1..K(i) : \E b \in 1..5 :
                           n = ConstraintPlace(i, j, b)
  BY <1>1
<1>3. n - 9 \in 1..BlockStart[P+1]
  BY <1>1, <1>2
<1>4. PICK i \in 1..P : \E a \in 1..BlockLen[i] : n - 9 = BlockStart[i] + a
  <2>1. PICK m : m = n - 9
    OBVIOUS
  <2>2. m \in 1..BlockStart[P+1]
    BY <1>3, <2>1
  <2>3. \E i \in 1..P : \E a \in 1..BlockLen[i] : m = BlockStart[i] + a
    <3>1. BlockLen \in [1..P -> Nat] /\ IsOffsets(BlockStart, BlockLen, P) /\ P \in Nat
      BY <1>1, StartIsOffsets
    <3> QED
      BY ONLY <2>2, <3>1, OffsetsCover
  <2> QED
    BY <2>1, <2>3
<1>5. PICK a \in 1..BlockLen[i] : n - 9 = BlockStart[i] + a
  BY <1>4
<1>6. K(i) \in Nat /\ BlockLen[i] = 4 + 5 * K(i) /\ BlockStart[i] \in Nat
  <2>1. K(i) \in Nat
    BY OfferType
  <2>2. BlockLen[i] = 4 + 5 * K(i)
    BY DEF BlockLen
  <2>3. BlockStart \in [1..P+1 -> Nat]
    BY StartIsOffsets DEF IsOffsets
  <2>4. i \in 1..P+1
    BY <1>1
  <2>5. BlockStart[i] \in Nat
    BY ONLY <2>3, <2>4
  <2> QED
    BY <2>1, <2>2, <2>5
<1>7. CASE a <= 4
  <2>1. a \in 1..4 /\ n = 9 + BlockStart[i] + a
    BY <1>1, <1>5, <1>6, <1>7
  <2> QED
    BY <2>1 DEF PermissionPlace
<1>8. CASE a > 4
  <2> DEFINE j == ((a - 5) \div 5) + 1
             b == ((a - 5) % 5) + 1
  <2>1. a - 5 \in 0..5 * K(i) - 1
    BY <1>5, <1>6, <1>8
  <2>2. j \in 1..K(i) /\ b \in 1..5 /\ a = 4 + 5 * (j-1) + b
    BY <1>6, <2>1
  <2>3. n = 9 + BlockStart[i] + 4 + 5 * (j-1) + b
    BY <1>1, <1>5, <1>6, <2>2
  <2> QED
    BY <2>2, <2>3 DEF ConstraintPlace
<1> QED
  BY <1>5, <1>6, <1>7, <1>8

-----------------------------------------------------------------------------
(* The inductive invariant: a seeding has inserted the first of its quads, *)
(* none before it began and all when it is done, and nothing else is in    *)
(* the store; only finitely many seedings have begun.                      *)

Inserted(s) == {Quads(seeding[s].dataset, s)[n] : n \in 1..seeding[s].inserted}

Begun == {s \in Seeder : seeding[s].pc # "idle"}

SeedingOK(s) ==
  /\ seeding[s].inserted <= Len(Quads(seeding[s].dataset, s))
  /\ seeding[s].pc = "idle" => seeding[s].inserted = 0
  /\ seeding[s].pc = "seeding" => seeding[s].inserted < Len(Quads(seeding[s].dataset, s))
  /\ seeding[s].pc = "done" => seeding[s].inserted = Len(Quads(seeding[s].dataset, s))

StoreInvariant ==
  /\ offer \in Offers
  /\ seeding \in [Seeder -> [pc : {"idle", "seeding", "done", "failed"},
                             dataset : Dataset, inserted : Nat]]
  /\ \A s \in Seeder : SeedingOK(s)
  /\ quads = UNION {Inserted(s) : s \in Seeder}
  /\ IsFiniteSet(Begun)

(* A seeding's quads are at least those of the header.                     *)
LEMMA QuadsNonempty ==
  ASSUME offer \in FileOffer, NEW d, NEW s
  PROVE  Len(Quads(d, s)) \in Nat /\ Len(Quads(d, s)) >= 9
<1>1. BlockStart[P+1] \in Nat
  BY OfferType, StartIsOffsets DEF IsOffsets
<1> QED
  BY <1>1, QuadPlaces

(* Nothing has been inserted at first.                                     *)
LEMMA StoreInvariantInit == GraphInit => StoreInvariant
<1> SUFFICES ASSUME GraphInit PROVE StoreInvariant
  OBVIOUS
<1>1. offer \in Offers /\ offer \in FileOffer
  BY OffersAssumption DEF GraphInit
<1>2. (CHOOSE d \in Dataset : TRUE) \in Dataset
  BY DatasetAssumption
<1>3. \A s \in Seeder : seeding[s].pc = "idle" /\ seeding[s].inserted = 0
                        /\ seeding[s].dataset \in Dataset
  BY <1>2 DEF GraphInit
<1>4. seeding \in [Seeder -> [pc : {"idle", "seeding", "done", "failed"},
                              dataset : Dataset, inserted : Nat]]
  BY <1>2 DEF GraphInit
<1>5. \A s \in Seeder : SeedingOK(s)
  BY <1>1, <1>3, QuadsNonempty DEF SeedingOK
<1>6. quads = UNION {Inserted(s) : s \in Seeder}
  BY <1>3 DEF GraphInit, Inserted
<1>7. Begun = {}
  BY <1>3 DEF Begun
<1>8. IsFiniteSet(Begun)
  BY <1>7, FS_EmptySet
<1> QED
  BY <1>1, <1>4, <1>5, <1>6, <1>8 DEF StoreInvariant

(* A seeding's quads depend on nothing that a step changes.                *)
LEMMA QuadsUnchanged ==
  ASSUME offer' = offer, NEW s \in Seeder, NEW d, seeding'[s].dataset = d
  PROVE  Quads(seeding[s].dataset, s)' = Quads(d, s)
BY DEF Quads, HeaderQuads

(* A seeding begins with nothing inserted.                                 *)
LEMMA SeedBeginKeepsStore ==
  ASSUME StoreInvariant, NEW s \in Seeder, NEW d \in Dataset, SeedBegin(s, d)
  PROVE  StoreInvariant'
<1>1. /\ seeding[s].pc = "idle"
      /\ seeding' = [seeding EXCEPT ![s] =
           [pc |-> "seeding", dataset |-> d, inserted |-> seeding[s].inserted]]
      /\ offer' = offer /\ quads' = quads
  BY DEF SeedBegin
<1>2. offer \in FileOffer
  BY OffersAssumption DEF StoreInvariant
<1>3. seeding[s].inserted = 0
  BY <1>1 DEF StoreInvariant, SeedingOK
<1>4. /\ seeding' \in [Seeder -> [pc : {"idle", "seeding", "done", "failed"},
                                  dataset : Dataset, inserted : Nat]]
      /\ seeding'[s] = [pc |-> "seeding", dataset |-> d, inserted |-> 0]
      /\ \A r \in Seeder : r # s => seeding'[r] = seeding[r]
  BY <1>1, <1>3 DEF StoreInvariant
<1>5. ASSUME NEW r \in Seeder PROVE SeedingOK(r)' /\ Inserted(r)' = Inserted(r)
  <2>1. SeedingOK(r)
    BY DEF StoreInvariant
  <2>2. CASE r = s
    <3>1. Quads(seeding[r].dataset, r)' = Quads(d, r)
      BY <1>1, <1>4, <2>2, QuadsUnchanged
    <3>2. Len(Quads(d, r)) \in Nat /\ Len(Quads(d, r)) >= 9
      BY <1>2, QuadsNonempty
    <3> QED
      BY <1>3, <1>4, <2>2, <3>1, <3>2 DEF SeedingOK, Inserted
  <2>3. CASE r # s
    <3>1. Quads(seeding[r].dataset, r)' = Quads(seeding[r].dataset, r)
      BY <1>1, <1>4, <2>3, QuadsUnchanged
    <3> QED
      BY <1>4, <2>1, <2>3, <3>1 DEF SeedingOK, Inserted
  <2> QED
    BY <2>2, <2>3
<1>6. quads' = UNION {Inserted(r)' : r \in Seeder}
  BY <1>1, <1>5 DEF StoreInvariant
<1>7. Begun' = Begun \cup {s}
  BY <1>1, <1>4 DEF Begun
<1>8. IsFiniteSet(Begun')
  BY <1>7, FS_AddElement DEF StoreInvariant
<1> QED
  BY <1>1, <1>4, <1>5, <1>6, <1>8 DEF StoreInvariant

(* A failure leaves what was inserted.                                     *)
LEMMA SeedFailsKeepsStore ==
  ASSUME StoreInvariant, NEW s \in Seeder, SeedFails(s)
  PROVE  StoreInvariant'
<1>1. /\ seeding[s].pc = "seeding"
      /\ seeding' = [seeding EXCEPT ![s].pc = "failed"]
      /\ offer' = offer /\ quads' = quads
  BY DEF SeedFails
<1>2. /\ seeding' \in [Seeder -> [pc : {"idle", "seeding", "done", "failed"},
                                  dataset : Dataset, inserted : Nat]]
      /\ seeding'[s].pc = "failed"
      /\ \A r \in Seeder : /\ r # s => seeding'[r] = seeding[r]
                           /\ seeding'[r].dataset = seeding[r].dataset
                           /\ seeding'[r].inserted = seeding[r].inserted
  BY <1>1 DEF StoreInvariant
<1>3. ASSUME NEW r \in Seeder PROVE SeedingOK(r)' /\ Inserted(r)' = Inserted(r)
  <2>1. SeedingOK(r)
    BY DEF StoreInvariant
  <2>2. Quads(seeding[r].dataset, r)' = Quads(seeding[r].dataset, r)
    BY <1>1, <1>2, QuadsUnchanged
  <2> QED
    BY <1>2, <2>1, <2>2 DEF SeedingOK, Inserted
<1>4. quads' = UNION {Inserted(r)' : r \in Seeder}
  BY <1>1, <1>3 DEF StoreInvariant
<1>5. Begun' = Begun
  BY <1>1, <1>2 DEF Begun
<1> QED
  BY <1>1, <1>2, <1>3, <1>4, <1>5 DEF StoreInvariant

(* An insert is of the next quad of its seeding.                           *)
LEMMA SeedInsertKeepsStore ==
  ASSUME StoreInvariant, NEW s \in Seeder, SeedInsert(s)
  PROVE  StoreInvariant'
<1> DEFINE n == seeding[s].inserted + 1
           all == Quads(seeding[s].dataset, s)
           pc == IF n = Len(all) THEN "done" ELSE "seeding"
<1>1. /\ seeding[s].pc = "seeding"
      /\ quads' = quads \cup {all[n]}
      /\ seeding' = [seeding EXCEPT ![s] =
           [pc |-> pc, dataset |-> seeding[s].dataset, inserted |-> n]]
      /\ offer' = offer
  BY DEF SeedInsert
<1>2. seeding[s].inserted \in Nat /\ seeding[s].dataset \in Dataset
      /\ n \in Nat /\ n <= Len(all) /\ pc \in {"seeding", "done"}
  <2>1. seeding[s].inserted \in Nat /\ seeding[s].dataset \in Dataset
    BY DEF StoreInvariant
  <2>2. Len(all) \in Nat
    BY OffersAssumption, QuadsNonempty DEF StoreInvariant
  <2>3. seeding[s].inserted < Len(all)
    BY <1>1 DEF StoreInvariant, SeedingOK
  <2> HIDE DEF all
  <2> QED
    BY <2>1, <2>2, <2>3
<1> HIDE DEF pc, all
<1>3. /\ seeding' \in [Seeder -> [pc : {"idle", "seeding", "done", "failed"},
                                  dataset : Dataset, inserted : Nat]]
      /\ seeding'[s].pc = pc /\ seeding'[s].inserted = n
      /\ seeding'[s].dataset = seeding[s].dataset
      /\ \A r \in Seeder : /\ r # s => seeding'[r] = seeding[r]
                           /\ seeding'[r].dataset = seeding[r].dataset
  BY <1>1, <1>2 DEF StoreInvariant
<1>4. \A r \in Seeder : Quads(seeding[r].dataset, r)' = Quads(seeding[r].dataset, r)
  BY <1>1, <1>3, QuadsUnchanged
<1>5. ASSUME NEW r \in Seeder, r # s PROVE SeedingOK(r)' /\ Inserted(r)' = Inserted(r)
  <2>1. SeedingOK(r)
    BY DEF StoreInvariant
  <2> QED
    BY <1>3, <1>4, <1>5, <2>1 DEF SeedingOK, Inserted
<1>6. SeedingOK(s)'
  BY <1>2, <1>3, <1>4 DEF SeedingOK, pc, all
<1>7. Inserted(s)' = Inserted(s) \cup {all[n]}
  <2>1. 1..n = (1..seeding[s].inserted) \cup {n}
    BY <1>2
  <2> QED
    BY <1>3, <1>4, <2>1 DEF Inserted, all
<1>8. quads' = UNION {Inserted(r)' : r \in Seeder}
  BY <1>1, <1>5, <1>7 DEF StoreInvariant
<1>9. Begun' = Begun
  BY <1>1, <1>2, <1>3 DEF Begun
<1> QED
  BY <1>1, <1>3, <1>5, <1>6, <1>8, <1>9 DEF StoreInvariant

(* So the invariant is inductive.                                          *)
LEMMA StoreInvariantStep ==
  StoreInvariant /\ [GraphNext]_graphVars => StoreInvariant'
<1> SUFFICES ASSUME StoreInvariant, [GraphNext]_graphVars PROVE StoreInvariant'
  OBVIOUS
<1>1. ASSUME NEW s \in Seeder, NEW d \in Dataset, SeedBegin(s, d) PROVE StoreInvariant'
  BY <1>1, SeedBeginKeepsStore
<1>2. ASSUME NEW s \in Seeder, SeedInsert(s) PROVE StoreInvariant'
  BY <1>2, SeedInsertKeepsStore
<1>3. ASSUME NEW s \in Seeder, SeedFails(s) PROVE StoreInvariant'
  BY <1>3, SeedFailsKeepsStore
<1>4. CASE UNCHANGED graphVars
  <2>1. offer' = offer /\ quads' = quads /\ seeding' = seeding
    BY <1>4 DEF graphVars
  <2>2. \A s \in Seeder : Quads(seeding[s].dataset, s)' = Quads(seeding[s].dataset, s)
    BY <2>1, QuadsUnchanged
  <2>3. \A s \in Seeder : (SeedingOK(s)' <=> SeedingOK(s)) /\ Inserted(s)' = Inserted(s)
    BY <2>1, <2>2 DEF SeedingOK, Inserted
  <2>4. Begun' = Begun
    BY <2>1 DEF Begun
  <2> QED
    BY <2>1, <2>3, <2>4 DEF StoreInvariant
<1> QED
  BY <1>1, <1>2, <1>3, <1>4 DEF GraphNext

(* The store holds what the seedings have inserted, each a prefix of its   *)
(* quads in seed_offer's order, and nothing else.                          *)
THEOREM StoreIsPrefixes == GraphSpec => []StoreInvariant
<1>1. GraphInit => StoreInvariant
  BY StoreInvariantInit
<1>2. StoreInvariant /\ [GraphNext]_graphVars => StoreInvariant'
  BY StoreInvariantStep
<1> QED
  BY <1>1, <1>2, PTL DEF GraphSpec

-----------------------------------------------------------------------------
(* What is in the store.                                                   *)

N(s) == seeding[s].inserted
D(s) == seeding[s].dataset

HeaderIn(s, q) == \E n \in 1..9 : n <= N(s) /\ q = HeaderQuads(D(s))[n]
PermissionIn(s, i, q) ==
  \E a \in 1..4 : PermissionPlace(i, a) <= N(s) /\ q = PermissionQuad(D(s), s, i, a)
ConstraintIn(s, i, j, q) ==
  \E b \in 1..5 : ConstraintPlace(i, j, b) <= N(s) /\ q = ConstraintQuad(s, i, j, b)

(* The types behind the places.                                            *)
LEMMA PlaceTypes ==
  ASSUME offer \in FileOffer, NEW i \in 1..P
  PROVE  /\ BlockStart[i] \in Nat /\ BlockStart[i+1] \in Nat /\ K(i) \in Nat
         /\ BlockStart[i+1] = BlockStart[i] + 4 + 5 * K(i)
         /\ BlockStart[i+1] <= BlockStart[P+1]
<1>1. P \in Nat /\ K(i) \in Nat /\ i \in Nat /\ i+1 \in 1..P+1
  BY OfferType
<1>2. BlockLen \in [1..P -> Nat] /\ IsOffsets(BlockStart, BlockLen, P)
  BY StartIsOffsets
<1>3. BlockStart[i] \in Nat /\ BlockStart[i+1] \in Nat /\ BlockStart[i+1] = BlockStart[i] + BlockLen[i]
  BY <1>1, <1>2 DEF IsOffsets
<1>4. BlockLen[i] = 4 + 5 * K(i)
  BY DEF BlockLen
<1>5. BlockStart[i] + BlockLen[i] <= BlockStart[P+1]
  <2>1. P+1 \in i+1..P+1
    BY <1>1
  <2> QED
    BY ONLY <1>1, <1>2, <2>1, i \in 1..P, OffsetsOrdered
<1> QED
  BY <1>1, <1>3, <1>4, <1>5

(* A quad stands at its place.                                             *)
LEMMA QuadAtPlace ==
  ASSUME offer \in FileOffer, NEW d, NEW s, NEW i \in 1..P
  PROVE  /\ \A a \in 1..4 : /\ PermissionPlace(i, a) \in 1..Len(Quads(d, s))
                            /\ Quads(d, s)[PermissionPlace(i, a)] = PermissionQuad(d, s, i, a)
         /\ \A j \in 1..K(i) : \A b \in 1..5 :
              /\ ConstraintPlace(i, j, b) \in 1..Len(Quads(d, s))
              /\ Quads(d, s)[ConstraintPlace(i, j, b)] = ConstraintQuad(s, i, j, b)
<1>1. /\ BlockStart[i] \in Nat /\ K(i) \in Nat
      /\ BlockStart[i] + 4 + 5 * K(i) <= BlockStart[P+1] /\ BlockStart[P+1] \in Nat
  <2>1. BlockStart[P+1] \in Nat
    BY OfferType, StartIsOffsets DEF IsOffsets
  <2> QED
    BY <2>1, PlaceTypes
<1>2. Len(Quads(d, s)) = 9 + BlockStart[P+1]
      /\ \A a \in 1..4 + 5 * K(i) : Quads(d, s)[9 + BlockStart[i] + a] = Block(d, s, i)[a]
  BY QuadPlaces
<1>3. /\ \A a \in 1..4 : Block(d, s, i)[a] = PermissionQuad(d, s, i, a)
      /\ \A j \in 1..K(i) : \A b \in 1..5 :
           Block(d, s, i)[4 + 5 * (j-1) + b] = ConstraintQuad(s, i, j, b)
  BY BlockPlaces
<1>4. ASSUME NEW a \in 1..4
      PROVE  /\ PermissionPlace(i, a) \in 1..Len(Quads(d, s))
             /\ Quads(d, s)[PermissionPlace(i, a)] = PermissionQuad(d, s, i, a)
  <2>1. a \in 1..4 + 5 * K(i) /\ 9 + BlockStart[i] + a \in 1..9 + BlockStart[P+1]
    BY <1>1
  <2> QED
    BY <1>2, <1>3, <2>1 DEF PermissionPlace
<1>5. ASSUME NEW j \in 1..K(i), NEW b \in 1..5
      PROVE  /\ ConstraintPlace(i, j, b) \in 1..Len(Quads(d, s))
             /\ Quads(d, s)[ConstraintPlace(i, j, b)] = ConstraintQuad(s, i, j, b)
  <2>1. PICK a : a = 4 + 5 * (j-1) + b
    OBVIOUS
  <2>2. a \in 1..4 + 5 * K(i) /\ 9 + BlockStart[i] + a \in 1..9 + BlockStart[P+1]
        /\ ConstraintPlace(i, j, b) = 9 + BlockStart[i] + a
    BY <1>1, <2>1 DEF ConstraintPlace
  <2> QED
    BY <1>2, <1>3, <2>1, <2>2
<1> QED
  BY <1>4, <1>5

(* What a seeding has inserted: quads of the header, of permissions and of *)
(* constraints, those whose place it has passed.                           *)
LEMMA InsertedCases ==
  ASSUME offer \in FileOffer, NEW s \in Seeder, N(s) \in Nat,
         N(s) <= Len(Quads(D(s), s)), NEW q
  PROVE  q \in Inserted(s) <=>
           \/ HeaderIn(s, q)
           \/ \E i \in 1..P : PermissionIn(s, i, q)
           \/ \E i \in 1..P : \E j \in 1..K(i) : ConstraintIn(s, i, j, q)
<1> DEFINE Q == Quads(D(s), s)
<1>1. BlockStart[P+1] \in Nat /\ Len(Q) = 9 + BlockStart[P+1]
      /\ \A n \in 1..9 : Q[n] = HeaderQuads(D(s))[n]
  <2>1. BlockStart[P+1] \in Nat
    BY OfferType, StartIsOffsets DEF IsOffsets
  <2> QED
    BY <2>1, QuadPlaces
<1>2. q \in Inserted(s) <=> \E n \in 1..N(s) : q = Q[n]
  BY DEF Inserted, N, D
<1>3. \A i \in 1..P : /\ \A a \in 1..4 : /\ PermissionPlace(i, a) \in 1..Len(Q)
                                         /\ Q[PermissionPlace(i, a)] = PermissionQuad(D(s), s, i, a)
                      /\ \A j \in 1..K(i) : \A b \in 1..5 :
                           /\ ConstraintPlace(i, j, b) \in 1..Len(Q)
                           /\ Q[ConstraintPlace(i, j, b)] = ConstraintQuad(s, i, j, b)
  BY QuadAtPlace
<1> HIDE DEF Q
<1>4. ASSUME NEW n \in 1..N(s), q = Q[n]
      PROVE  \/ HeaderIn(s, q)
             \/ \E i \in 1..P : PermissionIn(s, i, q)
             \/ \E i \in 1..P : \E j \in 1..K(i) : ConstraintIn(s, i, j, q)
  <2>1. n \in 1..9 + BlockStart[P+1] /\ n <= N(s)
    BY <1>1 DEF Q
  <2>2. CASE n \in 1..9
    BY <1>1, <1>4, <2>1, <2>2 DEF HeaderIn
  <2>3. CASE \E i \in 1..P : \E a \in 1..4 : n = PermissionPlace(i, a)
    BY <1>3, <1>4, <2>1, <2>3 DEF PermissionIn
  <2>4. CASE \E i \in 1..P : \E j \in 1..K(i) : \E b \in 1..5 : n = ConstraintPlace(i, j, b)
    BY <1>3, <1>4, <2>1, <2>4 DEF ConstraintIn
  <2> QED
    BY <2>1, <2>2, <2>3, <2>4, PlacesCover
<1>5. ASSUME HeaderIn(s, q) PROVE \E n \in 1..N(s) : q = Q[n]
  <2>1. PICK n \in 1..9 : n <= N(s) /\ q = HeaderQuads(D(s))[n]
    BY <1>5 DEF HeaderIn
  <2>2. n \in 1..N(s)
    BY <2>1
  <2>3. q = Q[n]
    BY <1>1, <2>1
  <2> QED
    BY <2>2, <2>3
<1>6. ASSUME NEW i \in 1..P, PermissionIn(s, i, q) PROVE \E n \in 1..N(s) : q = Q[n]
  BY <1>3, <1>6 DEF PermissionIn
<1>7. ASSUME NEW i \in 1..P, NEW j \in 1..K(i), ConstraintIn(s, i, j, q)
      PROVE  \E n \in 1..N(s) : q = Q[n]
  <2>1. PICK b \in 1..5 : ConstraintPlace(i, j, b) <= N(s) /\ q = ConstraintQuad(s, i, j, b)
    BY <1>7 DEF ConstraintIn
  <2>2. PICK n : n = ConstraintPlace(i, j, b)
    OBVIOUS
  <2>3. n \in 1..Len(Q) /\ Q[n] = ConstraintQuad(s, i, j, b)
    BY <1>3, <2>2
  <2>4. n \in 1..N(s)
    BY <1>1, <2>1, <2>2, <2>3
  <2> QED
    BY <2>1, <2>3, <2>4
<1> QED
  BY <1>2, <1>4, <1>5, <1>6, <1>7

(* The forms of the quads.                                                 *)
LEMMA HeaderForms ==
  ASSUME NEW s \in Seeder, NEW q, N(s) \in Nat
  PROVE  LET d == D(s) IN
         HeaderIn(s, q) <=>
           \/ 1 <= N(s) /\ q = <<dataset_iri(d), rdf("type"), dcat("Dataset")>>
           \/ 2 <= N(s) /\ q = <<dataset_iri(d), dcterms("title"), offer.title>>
           \/ 3 <= N(s) /\ q = <<dataset_iri(d), dcat("distribution"), distribution_iri(d)>>
           \/ 4 <= N(s) /\ q = <<distribution_iri(d), rdf("type"), dcat("Distribution")>>
           \/ 5 <= N(s) /\ q = <<distribution_iri(d), ds("filePath"), offer.file_path>>
           \/ 6 <= N(s) /\ q = <<distribution_iri(d), dcat("mediaType"), offer.media_type>>
           \/ 7 <= N(s) /\ q = <<policy_iri(d), rdf("type"), odrl("Offer")>>
           \/ 8 <= N(s) /\ q = <<policy_iri(d), odrl("target"), dataset_iri(d)>>
           \/ 9 <= N(s) /\ q = <<policy_iri(d), odrl("assigner"), offer.assigner>>
<1>1. \A n \in 1..9 : n = 1 \/ n = 2 \/ n = 3 \/ n = 4 \/ n = 5 \/ n = 6 \/ n = 7 \/ n = 8 \/ n = 9
  OBVIOUS
<1>2. HeaderIn(s, q) <=>
           \/ 1 <= N(s) /\ q = HeaderQuads(D(s))[1]
           \/ 2 <= N(s) /\ q = HeaderQuads(D(s))[2]
           \/ 3 <= N(s) /\ q = HeaderQuads(D(s))[3]
           \/ 4 <= N(s) /\ q = HeaderQuads(D(s))[4]
           \/ 5 <= N(s) /\ q = HeaderQuads(D(s))[5]
           \/ 6 <= N(s) /\ q = HeaderQuads(D(s))[6]
           \/ 7 <= N(s) /\ q = HeaderQuads(D(s))[7]
           \/ 8 <= N(s) /\ q = HeaderQuads(D(s))[8]
           \/ 9 <= N(s) /\ q = HeaderQuads(D(s))[9]
  BY <1>1 DEF HeaderIn
<1> QED
  BY <1>2 DEF HeaderQuads

(* The same of a permission.                                               *)
LEMMA PermissionForms ==
  ASSUME NEW s \in Seeder, NEW i, NEW q
  PROVE  LET p == PermissionNode(s, i) IN
         PermissionIn(s, i, q) <=>
           \/ PermissionPlace(i, 1) <= N(s) /\ q = <<policy_iri(D(s)), odrl("permission"), p>>
           \/ PermissionPlace(i, 2) <= N(s) /\ q = <<p, rdf("type"), odrl("Permission")>>
           \/ PermissionPlace(i, 3) <= N(s) /\ q = <<p, ds("order"), i - 1>>
           \/ PermissionPlace(i, 4) <= N(s)
              /\ q = <<p, odrl("action"), offer.permissions[i].action>>
<1>1. \A a \in 1..4 : a = 1 \/ a = 2 \/ a = 3 \/ a = 4
  OBVIOUS
<1>2. PermissionIn(s, i, q) <=>
           \/ PermissionPlace(i, 1) <= N(s) /\ q = PermissionQuad(D(s), s, i, 1)
           \/ PermissionPlace(i, 2) <= N(s) /\ q = PermissionQuad(D(s), s, i, 2)
           \/ PermissionPlace(i, 3) <= N(s) /\ q = PermissionQuad(D(s), s, i, 3)
           \/ PermissionPlace(i, 4) <= N(s) /\ q = PermissionQuad(D(s), s, i, 4)
  BY <1>1 DEF PermissionIn
<1> QED
  BY <1>2 DEF PermissionQuad, PermissionQuads

(* The same of a constraint.                                               *)
LEMMA ConstraintForms ==
  ASSUME NEW s \in Seeder, NEW i, NEW j, NEW q
  PROVE  LET c == ConstraintNode(s, i, j)
             spec == offer.permissions[i].constraints[j] IN
         ConstraintIn(s, i, j, q) <=>
           \/ ConstraintPlace(i, j, 1) <= N(s)
              /\ q = <<PermissionNode(s, i), odrl("constraint"), c>>
           \/ ConstraintPlace(i, j, 2) <= N(s) /\ q = <<c, ds("order"), j - 1>>
           \/ ConstraintPlace(i, j, 3) <= N(s) /\ q = <<c, odrl("leftOperand"), spec.left_operand>>
           \/ ConstraintPlace(i, j, 4) <= N(s) /\ q = <<c, odrl("operator"), spec.operator>>
           \/ ConstraintPlace(i, j, 5) <= N(s)
              /\ q = <<c, odrl("rightOperand"), spec.right_operand>>
<1>1. \A b \in 1..5 : b = 1 \/ b = 2 \/ b = 3 \/ b = 4 \/ b = 5
  OBVIOUS
<1>2. ConstraintIn(s, i, j, q) <=>
           \/ ConstraintPlace(i, j, 1) <= N(s) /\ q = ConstraintQuad(s, i, j, 1)
           \/ ConstraintPlace(i, j, 2) <= N(s) /\ q = ConstraintQuad(s, i, j, 2)
           \/ ConstraintPlace(i, j, 3) <= N(s) /\ q = ConstraintQuad(s, i, j, 3)
           \/ ConstraintPlace(i, j, 4) <= N(s) /\ q = ConstraintQuad(s, i, j, 4)
           \/ ConstraintPlace(i, j, 5) <= N(s) /\ q = ConstraintQuad(s, i, j, 5)
  BY <1>1 DEF ConstraintIn
<1> QED
  BY <1>2 DEF ConstraintQuad, ConstraintQuads

(* Every quad in the store is one of a seeding's.                          *)
LEMMA StoreCases ==
  ASSUME StoreInvariant, NEW q
  PROVE  q \in quads <=> \E s \in Seeder :
           \/ HeaderIn(s, q)
           \/ \E i \in 1..P : PermissionIn(s, i, q)
           \/ \E i \in 1..P : \E j \in 1..K(i) : ConstraintIn(s, i, j, q)
<1>1. offer \in FileOffer
  BY OffersAssumption DEF StoreInvariant
<1>2. \A s \in Seeder : N(s) \in Nat /\ N(s) <= Len(Quads(D(s), s))
  BY DEF StoreInvariant, SeedingOK, N, D
<1>3. q \in quads <=> \E s \in Seeder : q \in Inserted(s)
  BY DEF StoreInvariant
<1> QED
  BY <1>1, <1>2, <1>3, InsertedCases

(* The objects of a subject and a predicate.                               *)
LEMMA ObjectsAreTriples ==
  ASSUME StoreInvariant, NEW a, NEW b, NEW o
  PROVE  o \in Objects(a, b) <=> <<a, b, o>> \in quads
<1>1. ASSUME NEW q \in quads PROVE q = <<q[1], q[2], q[3]>>
  <2>1. PICK s \in Seeder :
           \/ HeaderIn(s, q)
           \/ \E i \in 1..P : PermissionIn(s, i, q)
           \/ \E i \in 1..P : \E j \in 1..K(i) : ConstraintIn(s, i, j, q)
    BY StoreCases
  <2>2. N(s) \in Nat
    BY DEF StoreInvariant, N
  <2>3. CASE HeaderIn(s, q)
    BY <2>2, <2>3, HeaderForms
  <2>4. CASE \E i \in 1..P : PermissionIn(s, i, q)
    BY <2>4, PermissionForms
  <2>5. CASE \E i \in 1..P : \E j \in 1..K(i) : ConstraintIn(s, i, j, q)
    BY <2>5, ConstraintForms
  <2> QED
    BY <2>1, <2>3, <2>4, <2>5
<1> QED
  BY <1>1 DEF Objects

(* What the queries of the header find.                                    *)
LEMMA HeaderObjects ==
  ASSUME StoreInvariant, NEW d
  PROVE  /\ \A o : o \in Objects(distribution_iri(d), ds("filePath")) <=>
                   \E s \in Seeder : D(s) = d /\ 5 <= N(s) /\ o = offer.file_path
         /\ \A o : o \in Objects(distribution_iri(d), dcat("mediaType")) <=>
                   \E s \in Seeder : D(s) = d /\ 6 <= N(s) /\ o = offer.media_type
         /\ \A o : o \in Objects(policy_iri(d), odrl("target")) <=>
                   \E s \in Seeder : D(s) = d /\ 8 <= N(s) /\ o = dataset_iri(d)
         /\ \A o : o \in Objects(policy_iri(d), odrl("assigner")) <=>
                   \E s \in Seeder : D(s) = d /\ 9 <= N(s) /\ o = offer.assigner
<1>1. \A s \in Seeder : N(s) \in Nat
  BY DEF StoreInvariant, N
<1>2. ASSUME NEW o
      PROVE  o \in Objects(distribution_iri(d), ds("filePath")) <=> (\E s \in Seeder : D(s) = d /\ 5 <= N(s) /\ o = offer.file_path)
  <2> DEFINE q == <<distribution_iri(d), ds("filePath"), o>>
  <2>1. o \in Objects(distribution_iri(d), ds("filePath")) <=> q \in quads
    BY ObjectsAreTriples
  <2>2. ASSUME NEW r \in Seeder PROVE HeaderIn(r, q) <=> (D(r) = d /\ 5 <= N(r) /\ o = offer.file_path)
    BY <1>1, HeaderForms DEF rdf, dcat, dcterms, odrl, ds, dataset_iri, distribution_iri, policy_iri,
         PermissionNode, ConstraintNode
  <2>3. ASSUME NEW r \in Seeder, NEW k PROVE PermissionIn(r, k, q) <=> FALSE
    BY PermissionForms DEF rdf, dcat, dcterms, odrl, ds, dataset_iri, distribution_iri, policy_iri,
         PermissionNode, ConstraintNode
  <2>4. ASSUME NEW r \in Seeder, NEW k, NEW l PROVE ConstraintIn(r, k, l, q) <=> FALSE
    BY ConstraintForms DEF rdf, dcat, dcterms, odrl, ds, dataset_iri, distribution_iri, policy_iri,
         PermissionNode, ConstraintNode
  <2> HIDE DEF q
  <2>5. q \in quads <=> \E r \in Seeder :
           \/ HeaderIn(r, q)
           \/ \E k \in 1..P : PermissionIn(r, k, q)
           \/ \E k \in 1..P : \E l \in 1..K(k) : ConstraintIn(r, k, l, q)
    BY StoreCases
  <2> QED
    BY <2>1, <2>2, <2>3, <2>4, <2>5
<1>3. ASSUME NEW o
      PROVE  o \in Objects(distribution_iri(d), dcat("mediaType")) <=> (\E s \in Seeder : D(s) = d /\ 6 <= N(s) /\ o = offer.media_type)
  <2> DEFINE q == <<distribution_iri(d), dcat("mediaType"), o>>
  <2>1. o \in Objects(distribution_iri(d), dcat("mediaType")) <=> q \in quads
    BY ObjectsAreTriples
  <2>2. ASSUME NEW r \in Seeder PROVE HeaderIn(r, q) <=> (D(r) = d /\ 6 <= N(r) /\ o = offer.media_type)
    BY <1>1, HeaderForms DEF rdf, dcat, dcterms, odrl, ds, dataset_iri, distribution_iri, policy_iri,
         PermissionNode, ConstraintNode
  <2>3. ASSUME NEW r \in Seeder, NEW k PROVE PermissionIn(r, k, q) <=> FALSE
    BY PermissionForms DEF rdf, dcat, dcterms, odrl, ds, dataset_iri, distribution_iri, policy_iri,
         PermissionNode, ConstraintNode
  <2>4. ASSUME NEW r \in Seeder, NEW k, NEW l PROVE ConstraintIn(r, k, l, q) <=> FALSE
    BY ConstraintForms DEF rdf, dcat, dcterms, odrl, ds, dataset_iri, distribution_iri, policy_iri,
         PermissionNode, ConstraintNode
  <2> HIDE DEF q
  <2>5. q \in quads <=> \E r \in Seeder :
           \/ HeaderIn(r, q)
           \/ \E k \in 1..P : PermissionIn(r, k, q)
           \/ \E k \in 1..P : \E l \in 1..K(k) : ConstraintIn(r, k, l, q)
    BY StoreCases
  <2> QED
    BY <2>1, <2>2, <2>3, <2>4, <2>5
<1>4. ASSUME NEW o
      PROVE  o \in Objects(policy_iri(d), odrl("target")) <=> (\E s \in Seeder : D(s) = d /\ 8 <= N(s) /\ o = dataset_iri(d))
  <2> DEFINE q == <<policy_iri(d), odrl("target"), o>>
  <2>1. o \in Objects(policy_iri(d), odrl("target")) <=> q \in quads
    BY ObjectsAreTriples
  <2>2. ASSUME NEW r \in Seeder PROVE HeaderIn(r, q) <=> (D(r) = d /\ 8 <= N(r) /\ o = dataset_iri(d))
    BY <1>1, HeaderForms DEF rdf, dcat, dcterms, odrl, ds, dataset_iri, distribution_iri, policy_iri,
         PermissionNode, ConstraintNode
  <2>3. ASSUME NEW r \in Seeder, NEW k PROVE PermissionIn(r, k, q) <=> FALSE
    BY PermissionForms DEF rdf, dcat, dcterms, odrl, ds, dataset_iri, distribution_iri, policy_iri,
         PermissionNode, ConstraintNode
  <2>4. ASSUME NEW r \in Seeder, NEW k, NEW l PROVE ConstraintIn(r, k, l, q) <=> FALSE
    BY ConstraintForms DEF rdf, dcat, dcterms, odrl, ds, dataset_iri, distribution_iri, policy_iri,
         PermissionNode, ConstraintNode
  <2> HIDE DEF q
  <2>5. q \in quads <=> \E r \in Seeder :
           \/ HeaderIn(r, q)
           \/ \E k \in 1..P : PermissionIn(r, k, q)
           \/ \E k \in 1..P : \E l \in 1..K(k) : ConstraintIn(r, k, l, q)
    BY StoreCases
  <2> QED
    BY <2>1, <2>2, <2>3, <2>4, <2>5
<1>5. ASSUME NEW o
      PROVE  o \in Objects(policy_iri(d), odrl("assigner")) <=> (\E s \in Seeder : D(s) = d /\ 9 <= N(s) /\ o = offer.assigner)
  <2> DEFINE q == <<policy_iri(d), odrl("assigner"), o>>
  <2>1. o \in Objects(policy_iri(d), odrl("assigner")) <=> q \in quads
    BY ObjectsAreTriples
  <2>2. ASSUME NEW r \in Seeder PROVE HeaderIn(r, q) <=> (D(r) = d /\ 9 <= N(r) /\ o = offer.assigner)
    BY <1>1, HeaderForms DEF rdf, dcat, dcterms, odrl, ds, dataset_iri, distribution_iri, policy_iri,
         PermissionNode, ConstraintNode
  <2>3. ASSUME NEW r \in Seeder, NEW k PROVE PermissionIn(r, k, q) <=> FALSE
    BY PermissionForms DEF rdf, dcat, dcterms, odrl, ds, dataset_iri, distribution_iri, policy_iri,
         PermissionNode, ConstraintNode
  <2>4. ASSUME NEW r \in Seeder, NEW k, NEW l PROVE ConstraintIn(r, k, l, q) <=> FALSE
    BY ConstraintForms DEF rdf, dcat, dcterms, odrl, ds, dataset_iri, distribution_iri, policy_iri,
         PermissionNode, ConstraintNode
  <2> HIDE DEF q
  <2>5. q \in quads <=> \E r \in Seeder :
           \/ HeaderIn(r, q)
           \/ \E k \in 1..P : PermissionIn(r, k, q)
           \/ \E k \in 1..P : \E l \in 1..K(k) : ConstraintIn(r, k, l, q)
    BY StoreCases
  <2> QED
    BY <2>1, <2>2, <2>3, <2>4, <2>5
<1> QED
  BY <1>2, <1>3, <1>4, <1>5

(* The permissions of a policy.                                            *)
LEMMA PermissionLinks ==
  ASSUME StoreInvariant, NEW d
  PROVE  \A o : o \in Objects(policy_iri(d), odrl("permission")) <=>
              \E s \in Seeder : \E i \in 1..P :
                D(s) = d /\ PermissionPlace(i, 1) <= N(s) /\ o = PermissionNode(s, i)
<1>1. \A s \in Seeder : N(s) \in Nat
  BY DEF StoreInvariant, N
<1>2. ASSUME NEW o
      PROVE  o \in Objects(policy_iri(d), odrl("permission")) <=> (\E s \in Seeder : \E i \in 1..P :
                D(s) = d /\ PermissionPlace(i, 1) <= N(s) /\ o = PermissionNode(s, i))
  <2> DEFINE q == <<policy_iri(d), odrl("permission"), o>>
  <2>1. o \in Objects(policy_iri(d), odrl("permission")) <=> q \in quads
    BY ObjectsAreTriples
  <2>2. ASSUME NEW r \in Seeder PROVE HeaderIn(r, q) <=> FALSE
    BY <1>1, HeaderForms DEF rdf, dcat, dcterms, odrl, ds, dataset_iri, distribution_iri, policy_iri,
         PermissionNode, ConstraintNode
  <2>3. ASSUME NEW r \in Seeder, NEW k PROVE PermissionIn(r, k, q) <=> (D(r) = d /\ PermissionPlace(k, 1) <= N(r) /\ o = PermissionNode(r, k))
    BY PermissionForms DEF rdf, dcat, dcterms, odrl, ds, dataset_iri, distribution_iri, policy_iri,
         PermissionNode, ConstraintNode
  <2>4. ASSUME NEW r \in Seeder, NEW k, NEW l PROVE ConstraintIn(r, k, l, q) <=> FALSE
    BY ConstraintForms DEF rdf, dcat, dcterms, odrl, ds, dataset_iri, distribution_iri, policy_iri,
         PermissionNode, ConstraintNode
  <2> HIDE DEF q
  <2>5. q \in quads <=> \E r \in Seeder :
           \/ HeaderIn(r, q)
           \/ \E k \in 1..P : PermissionIn(r, k, q)
           \/ \E k \in 1..P : \E l \in 1..K(k) : ConstraintIn(r, k, l, q)
    BY StoreCases
  <2> QED
    BY <2>1, <2>2, <2>3, <2>4, <2>5
<1> QED
  BY <1>2

(* What there is of a permission.                                          *)
LEMMA PermissionObjects ==
  ASSUME StoreInvariant, NEW s \in Seeder, NEW i \in 1..P
  PROVE  /\ \A o : o \in Objects(PermissionNode(s, i), ds("order")) <=>
                   PermissionPlace(i, 3) <= N(s) /\ o = i - 1
         /\ \A o : o \in Objects(PermissionNode(s, i), odrl("action")) <=>
                   PermissionPlace(i, 4) <= N(s) /\ o = offer.permissions[i].action
         /\ \A o : o \in Objects(PermissionNode(s, i), odrl("constraint")) <=>
                   \E j \in 1..K(i) : ConstraintPlace(i, j, 1) <= N(s) /\ o = ConstraintNode(s, i, j)
<1>1. \A r \in Seeder : N(r) \in Nat
  BY DEF StoreInvariant, N
<1>2. ASSUME NEW o
      PROVE  o \in Objects(PermissionNode(s, i), ds("order")) <=> (PermissionPlace(i, 3) <= N(s) /\ o = i - 1)
  <2> DEFINE q == <<PermissionNode(s, i), ds("order"), o>>
  <2>1. o \in Objects(PermissionNode(s, i), ds("order")) <=> q \in quads
    BY ObjectsAreTriples
  <2>2. ASSUME NEW r \in Seeder PROVE HeaderIn(r, q) <=> FALSE
    BY <1>1, HeaderForms DEF rdf, dcat, dcterms, odrl, ds, dataset_iri, distribution_iri, policy_iri,
         PermissionNode, ConstraintNode
  <2>3. ASSUME NEW r \in Seeder, NEW k PROVE PermissionIn(r, k, q) <=> (r = s /\ k = i /\ PermissionPlace(i, 3) <= N(s) /\ o = i - 1)
    BY PermissionForms DEF rdf, dcat, dcterms, odrl, ds, dataset_iri, distribution_iri, policy_iri,
         PermissionNode, ConstraintNode
  <2>4. ASSUME NEW r \in Seeder, NEW k, NEW l PROVE ConstraintIn(r, k, l, q) <=> FALSE
    BY ConstraintForms DEF rdf, dcat, dcterms, odrl, ds, dataset_iri, distribution_iri, policy_iri,
         PermissionNode, ConstraintNode
  <2> HIDE DEF q
  <2>5. q \in quads <=> \E r \in Seeder :
           \/ HeaderIn(r, q)
           \/ \E k \in 1..P : PermissionIn(r, k, q)
           \/ \E k \in 1..P : \E l \in 1..K(k) : ConstraintIn(r, k, l, q)
    BY StoreCases
  <2> QED
    BY <2>1, <2>2, <2>3, <2>4, <2>5
<1>3. ASSUME NEW o
      PROVE  o \in Objects(PermissionNode(s, i), odrl("action")) <=> (PermissionPlace(i, 4) <= N(s) /\ o = offer.permissions[i].action)
  <2> DEFINE q == <<PermissionNode(s, i), odrl("action"), o>>
  <2>1. o \in Objects(PermissionNode(s, i), odrl("action")) <=> q \in quads
    BY ObjectsAreTriples
  <2>2. ASSUME NEW r \in Seeder PROVE HeaderIn(r, q) <=> FALSE
    BY <1>1, HeaderForms DEF rdf, dcat, dcterms, odrl, ds, dataset_iri, distribution_iri, policy_iri,
         PermissionNode, ConstraintNode
  <2>3. ASSUME NEW r \in Seeder, NEW k PROVE PermissionIn(r, k, q) <=> (r = s /\ k = i /\ PermissionPlace(i, 4) <= N(s) /\ o = offer.permissions[i].action)
    BY PermissionForms DEF rdf, dcat, dcterms, odrl, ds, dataset_iri, distribution_iri, policy_iri,
         PermissionNode, ConstraintNode
  <2>4. ASSUME NEW r \in Seeder, NEW k, NEW l PROVE ConstraintIn(r, k, l, q) <=> FALSE
    BY ConstraintForms DEF rdf, dcat, dcterms, odrl, ds, dataset_iri, distribution_iri, policy_iri,
         PermissionNode, ConstraintNode
  <2> HIDE DEF q
  <2>5. q \in quads <=> \E r \in Seeder :
           \/ HeaderIn(r, q)
           \/ \E k \in 1..P : PermissionIn(r, k, q)
           \/ \E k \in 1..P : \E l \in 1..K(k) : ConstraintIn(r, k, l, q)
    BY StoreCases
  <2> QED
    BY <2>1, <2>2, <2>3, <2>4, <2>5
<1>4. ASSUME NEW o
      PROVE  o \in Objects(PermissionNode(s, i), odrl("constraint")) <=> (\E j \in 1..K(i) : ConstraintPlace(i, j, 1) <= N(s) /\ o = ConstraintNode(s, i, j))
  <2> DEFINE q == <<PermissionNode(s, i), odrl("constraint"), o>>
  <2>1. o \in Objects(PermissionNode(s, i), odrl("constraint")) <=> q \in quads
    BY ObjectsAreTriples
  <2>2. ASSUME NEW r \in Seeder PROVE HeaderIn(r, q) <=> FALSE
    BY <1>1, HeaderForms DEF rdf, dcat, dcterms, odrl, ds, dataset_iri, distribution_iri, policy_iri,
         PermissionNode, ConstraintNode
  <2>3. ASSUME NEW r \in Seeder, NEW k PROVE PermissionIn(r, k, q) <=> FALSE
    BY PermissionForms DEF rdf, dcat, dcterms, odrl, ds, dataset_iri, distribution_iri, policy_iri,
         PermissionNode, ConstraintNode
  <2>4. ASSUME NEW r \in Seeder, NEW k, NEW l PROVE ConstraintIn(r, k, l, q) <=> (r = s /\ k = i /\ ConstraintPlace(k, l, 1) <= N(r) /\ o = ConstraintNode(r, k, l))
    BY ConstraintForms DEF rdf, dcat, dcterms, odrl, ds, dataset_iri, distribution_iri, policy_iri,
         PermissionNode, ConstraintNode
  <2> HIDE DEF q
  <2>5. q \in quads <=> \E r \in Seeder :
           \/ HeaderIn(r, q)
           \/ \E k \in 1..P : PermissionIn(r, k, q)
           \/ \E k \in 1..P : \E l \in 1..K(k) : ConstraintIn(r, k, l, q)
    BY StoreCases
  <2> QED
    BY <2>1, <2>2, <2>3, <2>4, <2>5
<1> QED
  BY <1>2, <1>3, <1>4

(* What there is of a constraint.                                          *)
LEMMA ConstraintObjects ==
  ASSUME StoreInvariant, NEW s \in Seeder, NEW i \in 1..P, NEW j \in 1..K(i)
  PROVE  /\ \A o : o \in Objects(ConstraintNode(s, i, j), ds("order")) <=>
                   ConstraintPlace(i, j, 2) <= N(s) /\ o = j - 1
         /\ \A o : o \in Objects(ConstraintNode(s, i, j), odrl("leftOperand")) <=>
                   ConstraintPlace(i, j, 3) <= N(s) /\ o = offer.permissions[i].constraints[j].left_operand
         /\ \A o : o \in Objects(ConstraintNode(s, i, j), odrl("operator")) <=>
                   ConstraintPlace(i, j, 4) <= N(s) /\ o = offer.permissions[i].constraints[j].operator
         /\ \A o : o \in Objects(ConstraintNode(s, i, j), odrl("rightOperand")) <=>
                   ConstraintPlace(i, j, 5) <= N(s) /\ o = offer.permissions[i].constraints[j].right_operand
<1>1. \A r \in Seeder : N(r) \in Nat
  BY DEF StoreInvariant, N
<1>2. ASSUME NEW o
      PROVE  o \in Objects(ConstraintNode(s, i, j), ds("order")) <=> (ConstraintPlace(i, j, 2) <= N(s) /\ o = j - 1)
  <2> DEFINE q == <<ConstraintNode(s, i, j), ds("order"), o>>
  <2>1. o \in Objects(ConstraintNode(s, i, j), ds("order")) <=> q \in quads
    BY ObjectsAreTriples
  <2>2. ASSUME NEW r \in Seeder PROVE HeaderIn(r, q) <=> FALSE
    BY <1>1, HeaderForms DEF rdf, dcat, dcterms, odrl, ds, dataset_iri, distribution_iri, policy_iri,
         PermissionNode, ConstraintNode
  <2>3. ASSUME NEW r \in Seeder, NEW k PROVE PermissionIn(r, k, q) <=> FALSE
    BY PermissionForms DEF rdf, dcat, dcterms, odrl, ds, dataset_iri, distribution_iri, policy_iri,
         PermissionNode, ConstraintNode
  <2>4. ASSUME NEW r \in Seeder, NEW k, NEW l PROVE ConstraintIn(r, k, l, q) <=> (r = s /\ k = i /\ l = j /\ ConstraintPlace(i, j, 2) <= N(s) /\ o = j - 1)
    BY ConstraintForms DEF rdf, dcat, dcterms, odrl, ds, dataset_iri, distribution_iri, policy_iri,
         PermissionNode, ConstraintNode
  <2> HIDE DEF q
  <2>5. q \in quads <=> \E r \in Seeder :
           \/ HeaderIn(r, q)
           \/ \E k \in 1..P : PermissionIn(r, k, q)
           \/ \E k \in 1..P : \E l \in 1..K(k) : ConstraintIn(r, k, l, q)
    BY StoreCases
  <2> QED
    BY <2>1, <2>2, <2>3, <2>4, <2>5
<1>3. ASSUME NEW o
      PROVE  o \in Objects(ConstraintNode(s, i, j), odrl("leftOperand")) <=> (ConstraintPlace(i, j, 3) <= N(s) /\ o = offer.permissions[i].constraints[j].left_operand)
  <2> DEFINE q == <<ConstraintNode(s, i, j), odrl("leftOperand"), o>>
  <2>1. o \in Objects(ConstraintNode(s, i, j), odrl("leftOperand")) <=> q \in quads
    BY ObjectsAreTriples
  <2>2. ASSUME NEW r \in Seeder PROVE HeaderIn(r, q) <=> FALSE
    BY <1>1, HeaderForms DEF rdf, dcat, dcterms, odrl, ds, dataset_iri, distribution_iri, policy_iri,
         PermissionNode, ConstraintNode
  <2>3. ASSUME NEW r \in Seeder, NEW k PROVE PermissionIn(r, k, q) <=> FALSE
    BY PermissionForms DEF rdf, dcat, dcterms, odrl, ds, dataset_iri, distribution_iri, policy_iri,
         PermissionNode, ConstraintNode
  <2>4. ASSUME NEW r \in Seeder, NEW k, NEW l PROVE ConstraintIn(r, k, l, q) <=> (r = s /\ k = i /\ l = j /\ ConstraintPlace(i, j, 3) <= N(s) /\ o = offer.permissions[i].constraints[j].left_operand)
    BY ConstraintForms DEF rdf, dcat, dcterms, odrl, ds, dataset_iri, distribution_iri, policy_iri,
         PermissionNode, ConstraintNode
  <2> HIDE DEF q
  <2>5. q \in quads <=> \E r \in Seeder :
           \/ HeaderIn(r, q)
           \/ \E k \in 1..P : PermissionIn(r, k, q)
           \/ \E k \in 1..P : \E l \in 1..K(k) : ConstraintIn(r, k, l, q)
    BY StoreCases
  <2> QED
    BY <2>1, <2>2, <2>3, <2>4, <2>5
<1>4. ASSUME NEW o
      PROVE  o \in Objects(ConstraintNode(s, i, j), odrl("operator")) <=> (ConstraintPlace(i, j, 4) <= N(s) /\ o = offer.permissions[i].constraints[j].operator)
  <2> DEFINE q == <<ConstraintNode(s, i, j), odrl("operator"), o>>
  <2>1. o \in Objects(ConstraintNode(s, i, j), odrl("operator")) <=> q \in quads
    BY ObjectsAreTriples
  <2>2. ASSUME NEW r \in Seeder PROVE HeaderIn(r, q) <=> FALSE
    BY <1>1, HeaderForms DEF rdf, dcat, dcterms, odrl, ds, dataset_iri, distribution_iri, policy_iri,
         PermissionNode, ConstraintNode
  <2>3. ASSUME NEW r \in Seeder, NEW k PROVE PermissionIn(r, k, q) <=> FALSE
    BY PermissionForms DEF rdf, dcat, dcterms, odrl, ds, dataset_iri, distribution_iri, policy_iri,
         PermissionNode, ConstraintNode
  <2>4. ASSUME NEW r \in Seeder, NEW k, NEW l PROVE ConstraintIn(r, k, l, q) <=> (r = s /\ k = i /\ l = j /\ ConstraintPlace(i, j, 4) <= N(s) /\ o = offer.permissions[i].constraints[j].operator)
    BY ConstraintForms DEF rdf, dcat, dcterms, odrl, ds, dataset_iri, distribution_iri, policy_iri,
         PermissionNode, ConstraintNode
  <2> HIDE DEF q
  <2>5. q \in quads <=> \E r \in Seeder :
           \/ HeaderIn(r, q)
           \/ \E k \in 1..P : PermissionIn(r, k, q)
           \/ \E k \in 1..P : \E l \in 1..K(k) : ConstraintIn(r, k, l, q)
    BY StoreCases
  <2> QED
    BY <2>1, <2>2, <2>3, <2>4, <2>5
<1>5. ASSUME NEW o
      PROVE  o \in Objects(ConstraintNode(s, i, j), odrl("rightOperand")) <=> (ConstraintPlace(i, j, 5) <= N(s) /\ o = offer.permissions[i].constraints[j].right_operand)
  <2> DEFINE q == <<ConstraintNode(s, i, j), odrl("rightOperand"), o>>
  <2>1. o \in Objects(ConstraintNode(s, i, j), odrl("rightOperand")) <=> q \in quads
    BY ObjectsAreTriples
  <2>2. ASSUME NEW r \in Seeder PROVE HeaderIn(r, q) <=> FALSE
    BY <1>1, HeaderForms DEF rdf, dcat, dcterms, odrl, ds, dataset_iri, distribution_iri, policy_iri,
         PermissionNode, ConstraintNode
  <2>3. ASSUME NEW r \in Seeder, NEW k PROVE PermissionIn(r, k, q) <=> FALSE
    BY PermissionForms DEF rdf, dcat, dcterms, odrl, ds, dataset_iri, distribution_iri, policy_iri,
         PermissionNode, ConstraintNode
  <2>4. ASSUME NEW r \in Seeder, NEW k, NEW l PROVE ConstraintIn(r, k, l, q) <=> (r = s /\ k = i /\ l = j /\ ConstraintPlace(i, j, 5) <= N(s) /\ o = offer.permissions[i].constraints[j].right_operand)
    BY ConstraintForms DEF rdf, dcat, dcterms, odrl, ds, dataset_iri, distribution_iri, policy_iri,
         PermissionNode, ConstraintNode
  <2> HIDE DEF q
  <2>5. q \in quads <=> \E r \in Seeder :
           \/ HeaderIn(r, q)
           \/ \E k \in 1..P : PermissionIn(r, k, q)
           \/ \E k \in 1..P : \E l \in 1..K(k) : ConstraintIn(r, k, l, q)
    BY StoreCases
  <2> QED
    BY <2>1, <2>2, <2>3, <2>4, <2>5
<1> QED
  BY <1>2, <1>3, <1>4, <1>5

(* The type invariant follows from what the store is.                      *)
LEMMA StoreIsTyped == StoreInvariant => GraphTypeOK
<1> SUFFICES ASSUME StoreInvariant PROVE GraphTypeOK
  OBVIOUS
<1>1. ASSUME NEW q \in quads
      PROVE  /\ q[2] = odrl("permission") => q[1] \in Policies /\ q[3] \in Blank
             /\ q[2] = odrl("target") => \E d \in Dataset :
                                          q[1] = policy_iri(d) /\ q[3] = dataset_iri(d)
  <2>1. PICK s \in Seeder :
           \/ HeaderIn(s, q)
           \/ \E i \in 1..P : PermissionIn(s, i, q)
           \/ \E i \in 1..P : \E j \in 1..K(i) : ConstraintIn(s, i, j, q)
    BY StoreCases
  <2>2. N(s) \in Nat /\ D(s) \in Dataset
    BY DEF StoreInvariant, N, D
  <2>3. CASE HeaderIn(s, q)
    BY <2>2, <2>3, HeaderForms DEF rdf, dcat, dcterms, odrl, ds
  <2>4. ASSUME NEW i \in 1..P, PermissionIn(s, i, q)
        PROVE  /\ q[2] = odrl("permission") => q[1] \in Policies /\ q[3] \in Blank
               /\ q[2] # odrl("target")
    <3>1. PermissionNode(s, i) \in Blank /\ policy_iri(D(s)) \in Policies
      BY <2>2 DEF PermissionNode, Blank, Policies, P
    <3> QED
      BY <2>4, <3>1, PermissionForms DEF rdf, odrl, ds
  <2>5. CASE \E i \in 1..P : \E j \in 1..K(i) : ConstraintIn(s, i, j, q)
    BY <2>5, ConstraintForms DEF odrl, ds
  <2> QED
    BY <2>1, <2>3, <2>4, <2>5
<1> QED
  BY <1>1 DEF StoreInvariant, SeedingOK, GraphTypeOK

(* The types of the graph: every permission of a policy is a blank node of *)
(* a seeding and every target the policy's own dataset, so no seeding can  *)
(* put terms of one dataset's offer into another's.                        *)
THEOREM GraphTyped == GraphSpec => []GraphTypeOK
<1>1. GraphInit => StoreInvariant
  BY StoreInvariantInit
<1>2. StoreInvariant /\ [GraphNext]_graphVars => StoreInvariant'
  BY StoreInvariantStep
<1>3. StoreInvariant => GraphTypeOK
  BY StoreIsTyped
<1> QED
  BY <1>1, <1>2, <1>3, PTL DEF GraphSpec
=============================================================================
