---------------------------- MODULE ConfigGraph ----------------------------
(***************************************************************************)
(* The configuration graph quad by quad, config-graph/src/store.rs:        *)
(* seed_offer turns a FileOffer into quads and inserts them one by one,    *)
(* each in a transaction of its own, while other calls of seed_offer do    *)
(* the same; the queries read one snapshot each and put the offer together *)
(* again.  A query that may answer in several ways, because SPARQL leaves  *)
(* the order of equal rows open, is the set of its possible answers; the   *)
(* empty set stands for ConfigGraphError::NotFound.                        *)
(***************************************************************************)
EXTENDS Integers, SequencesExt

CONSTANTS
  Dataset,    \* dataset ids
  Seeder,     \* calls of seed_offer, each made at most once
  Term,       \* the strings an offer is made of
  Offers      \* the offers to seed; TCK mode seeds build's offer again
              \* under other dataset ids, so a process has one of them

(* offer.rs; the dataset_id is the argument of SeedBegin.                  *)
ConstraintSpec == [left_operand : Term, operator : Term, right_operand : Term]
PermissionSpec == [action : Term, constraints : Seq(ConstraintSpec)]
FileOffer == [title : Term, file_path : Term, media_type : Term,
              assigner : Term, permissions : Seq(PermissionSpec)]

ASSUME DatasetAssumption == Dataset # {}
ASSUME OffersAssumption == Offers \subseteq FileOffer

VARIABLES
  offer,      \* the process's offer
  quads,      \* the store: triples <<subject, predicate, object>>
  seeding     \* the calls of seed_offer

graphVars == <<offer, quads, seeding>>

-----------------------------------------------------------------------------
(* Names.  An IRI is a namespace and a term, or a dataset's node; a blank  *)
(* node belongs to the seeding that made it.                               *)

rdf(term)     == <<"rdf", term>>
dcat(term)    == <<"dcat", term>>
dcterms(term) == <<"dcterms", term>>
odrl(term)    == <<"odrl", term>>
ds(term)      == <<"ds", term>>

dataset_iri(d)      == <<"dataset", d>>
distribution_iri(d) == <<"distribution", d>>
policy_iri(d)       == <<"policy", d>>

PermissionNode(s, i)    == <<"blank", s, i>>
ConstraintNode(s, i, j) == <<"blank", s, i, j>>

-----------------------------------------------------------------------------
(* seed_offer.                                                             *)

ConstraintQuads(s, i, j, spec) ==
  LET c == ConstraintNode(s, i, j) IN
  << <<PermissionNode(s, i), odrl("constraint"), c>>,
     <<c, ds("order"), j - 1>>,
     <<c, odrl("leftOperand"), spec.left_operand>>,
     <<c, odrl("operator"), spec.operator>>,
     <<c, odrl("rightOperand"), spec.right_operand>> >>

AllConstraintQuads(s, i, specs) ==
  FlattenSeq([j \in DOMAIN specs |-> ConstraintQuads(s, i, j, specs[j])])

(* A permission that names its policy instead of the other way round.      *)
PermissionQuadsInverse(d, s, i, action) ==
  LET p == PermissionNode(s, i) IN
  << <<p, odrl("permission"), policy_iri(d)>>,
     <<p, rdf("type"), odrl("Permission")>>,
     <<p, ds("order"), i - 1>>,
     <<p, odrl("action"), action>> >>

PermissionQuads(d, s, i, action) ==
  LET p == PermissionNode(s, i) IN
  << <<policy_iri(d), odrl("permission"), p>>,
     <<p, rdf("type"), odrl("Permission")>>,
     <<p, ds("order"), i - 1>>,
     <<p, odrl("action"), action>> >>

HeaderQuads(d) ==
  << <<dataset_iri(d), rdf("type"), dcat("Dataset")>>,
     <<dataset_iri(d), dcterms("title"), offer.title>>,
     <<dataset_iri(d), dcat("distribution"), distribution_iri(d)>>,
     <<distribution_iri(d), rdf("type"), dcat("Distribution")>>,
     <<distribution_iri(d), ds("filePath"), offer.file_path>>,
     <<distribution_iri(d), dcat("mediaType"), offer.media_type>>,
     <<policy_iri(d), rdf("type"), odrl("Offer")>>,
     <<policy_iri(d), odrl("target"), dataset_iri(d)>>,
     <<policy_iri(d), odrl("assigner"), offer.assigner>> >>

(* All permissions first, then all constraints.                            *)
QuadsInTwoPasses(d, s) ==
  LET permissions == offer.permissions IN
  HeaderQuads(d)
    \o FlattenSeq([i \in DOMAIN permissions |->
                    PermissionQuads(d, s, i, permissions[i].action)])
    \o FlattenSeq([i \in DOMAIN permissions |->
                    AllConstraintQuads(s, i, permissions[i].constraints)])

(* The quads of one seeding, in the order of their insertion.              *)
Quads(d, s) ==
  LET permissions == offer.permissions IN
  HeaderQuads(d)
    \o FlattenSeq([i \in DOMAIN permissions |->
                    PermissionQuads(d, s, i, permissions[i].action)
                      \o AllConstraintQuads(s, i, permissions[i].constraints)])

GraphInit ==
  /\ offer \in Offers
  /\ quads = {}
  /\ seeding = [s \in Seeder |->
                  [pc |-> "idle", dataset |-> CHOOSE d \in Dataset : TRUE,
                   inserted |-> 0]]

SeedBegin(s, d) ==
  /\ seeding[s].pc = "idle"
  /\ seeding' = [seeding EXCEPT ![s] =
                   [pc |-> "seeding", dataset |-> d, inserted |-> @.inserted]]
  /\ UNCHANGED <<offer, quads>>

(* A seeding that first removes what the store has about the dataset.      *)
SeedInsertReplacing(s) ==
  LET d == seeding[s].dataset
      n == seeding[s].inserted + 1
      all == Quads(d, s) IN
  /\ seeding[s].pc = "seeding"
  /\ quads' = {all[n]} \cup
       {q \in quads : n > 1 \/ q[1] \notin {dataset_iri(d), distribution_iri(d), policy_iri(d)}}
  /\ seeding' = [seeding EXCEPT ![s] =
                   [pc |-> IF n = Len(all) THEN "done" ELSE "seeding",
                    dataset |-> @.dataset, inserted |-> n]]
  /\ UNCHANGED offer

SeedInsert(s) ==
  LET n == seeding[s].inserted + 1
      all == Quads(seeding[s].dataset, s) IN
  /\ seeding[s].pc = "seeding"
  /\ quads' = quads \cup {all[n]}
  /\ seeding' = [seeding EXCEPT ![s] =
                   [pc |-> IF n = Len(all) THEN "done" ELSE "seeding",
                    dataset |-> @.dataset, inserted |-> n]]
  /\ UNCHANGED offer

(* An IRI is invalid, before the first insert, or an insert fails: what is *)
(* in the store stays there.                                               *)
SeedFails(s) ==
  /\ seeding[s].pc = "seeding"
  /\ seeding' = [seeding EXCEPT ![s].pc = "failed"]
  /\ UNCHANGED <<offer, quads>>

GraphNext ==
  \E s \in Seeder :
    \/ \E d \in Dataset : SeedBegin(s, d)
    \/ SeedInsert(s)
    \/ SeedFails(s)

GraphSpec == GraphInit /\ [][GraphNext]_graphVars

-----------------------------------------------------------------------------
(* Queries.                                                                *)

Objects(subject, predicate) ==
  {q[3] : q \in {r \in quads : r[1] = subject /\ r[2] = predicate}}

(* A blank node has at most one object for each of its own predicates.     *)
Object(subject, predicate) ==
  CHOOSE object \in Objects(subject, predicate) : TRUE

Describes(subject, predicates) ==
  \A predicate \in predicates : Objects(subject, predicate) # {}

file_path(d)  == Objects(distribution_iri(d), ds("filePath"))
media_type(d) == Objects(distribution_iri(d), dcat("mediaType"))

(* policy_jsonld, first query: target and assigner.                        *)
header(d) == Objects(policy_iri(d), odrl("target"))
               \X Objects(policy_iri(d), odrl("assigner"))

PermissionNodesOf(d) ==
  {p \in Objects(policy_iri(d), odrl("permission")) :
     Describes(p, {ds("order"), odrl("action")})}

ConstraintNodesOf(p) ==
  {c \in Objects(p, odrl("constraint")) :
     Describes(c, {ds("order"), odrl("leftOperand"), odrl("operator"),
                   odrl("rightOperand")})}

(* policy_jsonld, second query.  A permission without a complete           *)
(* constraint has one row, by the OPTIONAL, with ?corder unbound: -1,      *)
(* since SPARQL puts unbound first.                                        *)
RowsOf(p) ==
  LET Row(corder, constraint) ==
        [p |-> p, porder |-> Object(p, ds("order")),
         action |-> Object(p, odrl("action")),
         corder |-> corder, constraint |-> constraint]
      Spec3(c) == [left_operand |-> Object(c, odrl("leftOperand")),
                   operator |-> Object(c, odrl("operator")),
                   right_operand |-> Object(c, odrl("rightOperand"))] IN
  IF ConstraintNodesOf(p) = {} THEN {Row(-1, <<>>)}
  ELSE {Row(Object(c, ds("order")), <<Spec3(c)>>) : c \in ConstraintNodesOf(p)}

(* An inner join: permissions without constraints have no rows.            *)
RowsWithConstraint(d) ==
  {row \in UNION {RowsOf(p) : p \in PermissionNodesOf(d)} : row.corder # -1}

Rows(d) == UNION {RowsOf(p) : p \in PermissionNodesOf(d)}

(* ORDER BY ?corder.                                                       *)
SortKeyConstraintOnly(row) == <<0, row.corder>>

(* ORDER BY ?porder ?corder.                                               *)
SortKey(row) == <<row.porder, row.corder>>

Before(k, l) == k[1] < l[1] \/ (k[1] = l[1] /\ k[2] < l[2])

(* The sequences a result may come in: sorted, equal keys in any order.    *)
Orderings(rows) ==
  {o \in SetToSeqs(rows) :
     \A m, n \in DOMAIN o : m < n => ~ Before(SortKey(o[n]), SortKey(o[m]))}

SameEntry(entry, row) == entry.p = row.p

(* A row goes to the last entry if that one is its permission's, and opens *)
(* an entry otherwise.                                                     *)
AddRow(entries, row) ==
  IF entries # <<>> /\ SameEntry(Last(entries), row)
  THEN [entries EXCEPT ![Len(entries)] =
          [p |-> @.p, action |-> @.action, constraints |-> @.constraints \o row.constraint]]
  ELSE Append(entries, [p |-> row.p, action |-> row.action,
                        constraints |-> row.constraint])

(* The loop over the rows.                                                 *)
Grouped(rows) ==
  LET entries[n \in 0..Len(rows)] ==
        IF n = 0 THEN <<>> ELSE AddRow(entries[n-1], rows[n]) IN
  entries[Len(rows)]

Groupings(d) == {Grouped(rows) : rows \in Orderings(Rows(d))}

(* The JSON array: the nodes go, and an entry without constraints has no   *)
(* such key, for which <<>> stands.                                        *)
PermissionArray(entries) ==
  [i \in DOMAIN entries |-> [action |-> entries[i].action,
                             constraints |-> entries[i].constraints]]

permissions_jsonld(d) == {PermissionArray(entries) : entries \in Groupings(d)}

-----------------------------------------------------------------------------
(* Properties.                                                             *)

Blank == {<<"blank", s, i>> : s \in Seeder, i \in 1..Len(offer.permissions)}

Policies == {policy_iri(d) : d \in Dataset}

SeedersOf(d) == {s \in Seeder : seeding[s].pc # "idle" /\ seeding[s].dataset = d}

(* Every variable keeps its type; in the store, a policy's permissions are *)
(* blank nodes, and its target is its dataset.                             *)
GraphTypeOK ==
  /\ offer \in Offers
  /\ seeding \in [Seeder -> [pc : {"idle", "seeding", "done", "failed"},
                             dataset : Dataset, inserted : Nat]]
  /\ \A s \in Seeder :
       seeding[s].inserted <= Len(Quads(seeding[s].dataset, s))
  /\ \A q \in quads :
       /\ q[2] = odrl("permission") => q[1] \in Policies /\ q[3] \in Blank
       /\ q[2] = odrl("target") => \E d \in Dataset :
                                    q[1] = policy_iri(d) /\ q[3] = dataset_iri(d)

Repeated(n, permissions) ==
  FlattenSeq([i \in DOMAIN permissions |-> [k \in 1..n |-> permissions[i]]])

ReadsBack(d) ==
  LET n == Cardinality(SeedersOf(d)) IN
  n > 0 /\ (\A s \in SeedersOf(d) : seeding[s].pc = "done") =>
    /\ file_path(d) = {offer.file_path}
    /\ media_type(d) = {offer.media_type}
    /\ header(d) = {<<dataset_iri(d), offer.assigner>>}
    /\ permissions_jsonld(d) = {Repeated(n, offer.permissions)}

(* policy_jsonld's comment takes its rows to be grouped by permission:     *)
(* seedings of one dataset, which TCK mode allows, repeat the permissions  *)
(* of the offer and do not mix the constraints of the copies.              *)
CopiesStayWhole == \A d \in Dataset : ReadsBack(d)

(* No two permissions of one ds:order have several rows each.              *)
CopiesCannotMix(d) ==
  \/ Cardinality(SeedersOf(d)) <= 1
  \/ \A i \in DOMAIN offer.permissions : Len(offer.permissions[i].constraints) <= 1

(* What was seeded is read back: policy_jsonld answers with the authored   *)
(* permissions, each with its constraints, in the authored order, however  *)
(* alike they are, and once for every seeding of the dataset.  That is so  *)
(* for one seeding of any offer, and for several of an offer with at most  *)
(* one constraint in a permission, like Config's.                          *)
SeedingsReadBack == \A d \in Dataset : CopiesCannotMix(d) => ReadsBack(d)

IsTruncation(read, permissions) ==
  /\ Len(read) <= Len(permissions)
  /\ \A i \in DOMAIN read :
       /\ read[i].action = permissions[i].action
       /\ IsPrefix(read[i].constraints, permissions[i].constraints)
       /\ i < Len(read) => read[i] = permissions[i]

(* The entries of one seeding: SelectSeq, as a recursive function.         *)
OfSeeding(s, entries) ==
  LET selected[n \in 0..Len(entries)] ==
        IF n = 0 THEN <<>>
        ELSE IF entries[n].p[2] = s THEN Append(selected[n-1], entries[n])
        ELSE selected[n-1] IN
  selected[Len(entries)]

(* policy_jsonld may run between any two inserts, and some seedings may    *)
(* have failed half-way.  Unless copies mix, what it answers is still,     *)
(* seeding by seeding, the authored permissions cut off at one point: none *)
(* is missing before one that is there, and only the last can lack         *)
(* constraints.                                                            *)
ReadsAreTruncations ==
  \A d \in {c \in Dataset : CopiesCannotMix(c)} :
  \A entries \in Groupings(d) : \A s \in SeedersOf(d) :
    IsTruncation(PermissionArray(OfSeeding(s, entries)), offer.permissions)
=============================================================================
