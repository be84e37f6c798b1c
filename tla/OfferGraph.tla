----------------------------- MODULE OfferGraph -----------------------------
(***************************************************************************)
(* The configuration graph, config-graph/src/store.rs, seen through its    *)
(* readers.  seed_offer inserts its quads one by one, each insert a store  *)
(* transaction of its own, so a reader can see any prefix of them.  A      *)
(* reader tells the prefixes apart by five facts only, in insertion order: *)
(*   filePath      ds:filePath                         (file_path)         *)
(*   mediaType     dcat:mediaType                      (media_type)        *)
(*   policyHeader  odrl:target and odrl:assigner       (policy_jsonld)     *)
(*   permission    the permission node's last quad, odrl:action            *)
(*   constraint    the constraint node's last quad, odrl:rightOperand      *)
(* The graph is a set of triples <<dataset, fact, node>>.  The first three *)
(* facts hang on IRIs, so seeding an offer twice inserts the same triples; *)
(* permission and constraint nodes are fresh blank nodes of each seeding.  *)
(***************************************************************************)
EXTENDS Naturals

CONSTANTS
  NotAfter,     \* Config.policy_not_after, the bound of `dateTime lteq`
  NoDeadline    \* the value of NotAfter when POLICY_NOT_AFTER is unset

Iri == "iri"    \* the node of a fact that hangs on an IRI

(* Orders that put the media type last, or write the path under the media  *)
(* type's term.                                                            *)
SeedOrderMediaLast ==
  <<"filePath", "policyHeader", "permission", "constraint", "mediaType">>

SeedOrderNoFilePath ==
  <<"mediaType", "mediaType", "policyHeader", "permission", "constraint">>

SeedOrder ==
  <<"filePath", "mediaType", "policyHeader", "permission", "constraint">>

(* Config::file_offer: one `use` permission, with one constraint exactly   *)
(* when POLICY_NOT_AFTER is set.                                           *)
SeedSteps == IF NotAfter = NoDeadline THEN 4 ELSE 5

NodeOf(fact, seeder) ==
  IF fact \in {"permission", "constraint"} THEN seeder ELSE Iri

(* The i-th fact that a seeding of d by `seeder` inserts.                  *)
SeedTriple(d, seeder, i) == <<d, SeedOrder[i], NodeOf(SeedOrder[i], seeder)>>

InsertFact(graph, d, seeder, i) == graph \cup {SeedTriple(d, seeder, i)}

(* What a whole seeding leaves in the graph.                               *)
SeededOffer(d, seeder) == {SeedTriple(d, seeder, i) : i \in 1..SeedSteps}

-----------------------------------------------------------------------------
(* Queries.                                                                *)

HasFilePath(graph, d)     == <<d, "filePath", Iri>> \in graph
HasMediaType(graph, d)    == <<d, "mediaType", Iri>> \in graph
HasPolicyHeader(graph, d) == <<d, "policyHeader", Iri>> \in graph

PermissionNodes(graph, d) ==
  {q[3] : q \in {p \in graph : p[1] = d /\ p[2] = "permission"}}

(* The permission array policy_jsonld rebuilds, up to what evaluation      *)
(* tells apart: for each permission, whether its constraint is visible.    *)
(* The OPTIONAL of the query leaves an incomplete constraint out.          *)
IsConstrained(graph, d, n) == <<d, "constraint", n>> \in graph

PermissionRows(graph, d) ==
  {IsConstrained(graph, d, n) : n \in PermissionNodes(graph, d)}

(* A bound that is off by one.                                             *)
AllowsOneLater(rows, time) ==
  \E constrained \in rows : constrained => time <= NotAfter + 1

(* engine::evaluate_request with Behaviour::Closed and a dateTime claim:   *)
(* some permission must apply and hold.                                    *)
Allows(rows, time) == \E constrained \in rows : constrained => time <= NotAfter

DeadlinePassed(time) == NotAfter # NoDeadline /\ time > NotAfter
=============================================================================
