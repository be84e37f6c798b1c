---------------------------- MODULE ConfigOffer ----------------------------
(***************************************************************************)
(* The configuration graph with the offer of Config::file_offer, shown to  *)
(* implement OfferFacts: the eighteen inserts of a seeding are, to any     *)
(* reader, the five of OfferGraph, in that order.                          *)
(***************************************************************************)
EXTENDS ConfigGraph

CONSTANTS NotAfter, NoDeadline    \* policy_not_after; its value when unset

(* Config::file_offer, but for the dataset id.                             *)
file_offer ==
  [title |-> "title", file_path |-> "path", media_type |-> "media",
   assigner |-> "assigner",
   permissions |->
     << [action |-> "use",
         constraints |->
           IF NotAfter = NoDeadline THEN <<>>
           ELSE << [left_operand |-> "dateTime", operator |-> "lteq",
                    right_operand |-> NotAfter] >>] >>]

ConfigOffers == {file_offer}

(* The facts a reader can see.                                             *)
FactsOf(d) ==
  {<<d, "filePath", "iri">> : path \in file_path(d)}
    \cup {<<d, "mediaType", "iri">> : media \in media_type(d)}
    \cup {<<d, "policyHeader", "iri">> : h \in header(d)}
    \cup {<<d, "permission", p[2]>> : p \in PermissionNodesOf(d)}
    \cup {<<d, "constraint", p[2]>> :
            p \in {q \in PermissionNodesOf(d) : ConstraintNodesOf(q) # {}}}

FactGraph == UNION {FactsOf(d) : d \in Dataset}

(* How many facts the first n quads of a seeding complete.                 *)
FactsCompleted(n) == Cardinality({i \in {5, 6, 9, 13, 18} : i <= n})

FactSeeding ==
  [s \in Seeder |-> [pc |-> seeding[s].pc, dataset |-> seeding[s].dataset,
                     seeded |-> FactsCompleted(seeding[s].inserted)]]

(* The permissions as evaluation tells them apart, in every possible       *)
(* answer of policy_jsonld.                                                *)
PermissionAnswers ==
  [d \in Dataset |->
     UNION {{array[i].constraints # <<>> : i \in DOMAIN array} :
              array \in permissions_jsonld(d)}]

Facts == INSTANCE OfferFacts WITH
  graph <- FactGraph, seeding <- FactSeeding, rows <- PermissionAnswers

(* Every insert of a seeding leaves unchanged what readers can tell, or    *)
(* adds the one fact that OfferGraph's order says is next; and the policy  *)
(* that policy_jsonld makes of the quads is the one OfferGraph makes of    *)
(* the facts, at any moment of any number of concurrent seedings.          *)
RefinesOfferFacts == Facts!FactsSpec
=============================================================================
