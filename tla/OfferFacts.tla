----------------------------- MODULE OfferFacts -----------------------------
(***************************************************************************)
(* Seedings of Config's offer as DataPlane has them: a seeding inserts the *)
(* facts of OfferGraph one after the other, and what a reader learns about *)
(* a dataset depends on these facts only.                                  *)
(***************************************************************************)
EXTENDS Naturals

CONSTANTS
  Dataset, Seeder,         \* as in ConfigGraph
  NotAfter, NoDeadline     \* as in OfferGraph

INSTANCE OfferGraph

VARIABLES
  graph,      \* the facts in the store
  seeding,    \* each seeding's state, dataset and number of facts inserted
  rows        \* what policy_jsonld says of each dataset

vars == <<graph, seeding, rows>>

Answers(facts) == [d \in Dataset |-> PermissionRows(facts, d)]

FactsInit ==
  /\ graph = {}
  /\ seeding = [s \in Seeder |-> [pc |-> "idle", dataset |-> CHOOSE d \in Dataset : TRUE,
                                  seeded |-> 0]]
  /\ rows = Answers(graph)

Begin(s, d) ==
  /\ seeding[s].pc = "idle"
  /\ seeding' = [seeding EXCEPT ![s] =
                   [pc |-> "seeding", dataset |-> d, seeded |-> @.seeded]]
  /\ UNCHANGED <<graph, rows>>

InsertNext(s) ==
  LET n == seeding[s].seeded + 1 IN
  /\ seeding[s].pc = "seeding"
  /\ graph' = InsertFact(graph, seeding[s].dataset, s, n)
  /\ seeding' = [seeding EXCEPT ![s] =
                   [pc |-> IF n = SeedSteps THEN "done" ELSE "seeding",
                    dataset |-> @.dataset, seeded |-> n]]
  /\ rows' = Answers(graph')

Fail(s) ==
  /\ seeding[s].pc = "seeding"
  /\ seeding' = [seeding EXCEPT ![s].pc = "failed"]
  /\ UNCHANGED <<graph, rows>>

FactsNext ==
  \E s \in Seeder :
    InsertNext(s) \/ Fail(s) \/ \E d \in Dataset : Begin(s, d)

FactsSpec == FactsInit /\ [][FactsNext]_vars
=============================================================================
