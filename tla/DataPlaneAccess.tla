-------------------------- MODULE DataPlaneAccess ---------------------------
(***************************************************************************)
(* What a request is served: the offer it reads, the deadline it is held   *)
(* to, and, with both, that DataPlane implements AccessControl.            *)
(***************************************************************************)
EXTENDS DataPlaneProofs

-----------------------------------------------------------------------------
(***************************************************************************)
(* What a reader may rely on while an offer is being put in the graph:     *)
(* proofs of NeverNotFound, MediaTypeAsConfigured and LiveTokenHasOffer.   *)
(*                                                                         *)
(* The argument: within one run of the process the graph only grows, so    *)
(* what a request has read stays true; seed_offer's order makes a visible  *)
(* policy header imply a visible media type and file path; on_start mints  *)
(* tokens only for datasets whose file path is visible.                    *)
(***************************************************************************)

(* A seeding has put in the graph the quads it has counted.                *)
SeedingProgress ==
  \A s \in StartCall :
    start[s].pc = "seed" =>
      \A i \in 1..start[s].seeded : SeedTriple(start[s].dataset, s, i) \in graph

(* seed_offer's order, as any reader sees it.                              *)
HeaderAfterMediaType ==
  \A d \in Dataset :
    HasPolicyHeader(graph, d) => HasMediaType(graph, d) /\ HasFilePath(graph, d)

(* on_start mints tokens only for datasets with a file path.               *)
TokenHasFilePath ==
  /\ \A e \in tokens : HasFilePath(graph, e.dataset)
  /\ \A s \in StartCall :
       start[s].pc = "issue" => HasFilePath(graph, start[s].dataset)

(* What a request has read stays true until it ends, and its answer says   *)
(* what was read.                                                          *)
RequestSound(g) ==
  /\ get[g].pc \in GetChecked => HasFilePath(graph, get[g].dataset)
  /\ get[g].pc \in {"rows", "evaluate", "filePath", "mediaType", "read"} =>
       HasPolicyHeader(graph, get[g].dataset)
  /\ get[g].pc = "read" => get[g].media = "configured"
  /\ get[g].status = 200 => get[g].media = "configured"
  /\ get[g].status # 404
  /\ get[g].pc \in GetRunning => get[g].status = None

GraphInv == SeedingProgress /\ HeaderAfterMediaType /\ TokenHasFilePath
OfferInv == GraphInv /\ \A g \in GetCall : RequestSound(g)

-----------------------------------------------------------------------------
(* Seeding.                                                                *)

LEMMA SeedTripleShape ==
  ASSUME NEW d, NEW seeder
  PROVE  /\ SeedTriple(d, seeder, 1) = <<d, "filePath", Iri>>
         /\ SeedTriple(d, seeder, 2) = <<d, "mediaType", Iri>>
         /\ SeedTriple(d, seeder, 3) = <<d, "policyHeader", Iri>>
         /\ SeedTriple(d, seeder, 4) = <<d, "permission", seeder>>
         /\ SeedTriple(d, seeder, 5) = <<d, "constraint", seeder>>
BY DEF SeedTriple, SeedOrder, NodeOf

LEMMA BuildOffer ==
  /\ HasFilePath(SeededOffer(Primary, "build"), Primary)
  /\ HasMediaType(SeededOffer(Primary, "build"), Primary)
  /\ \A d : HasPolicyHeader(SeededOffer(Primary, "build"), d) => d = Primary
<1>1. SeedTriple(Primary, "build", 1) \in SeededOffer(Primary, "build")
  BY SeedStepsBound DEF SeededOffer
<1>2. SeedTriple(Primary, "build", 2) \in SeededOffer(Primary, "build")
  BY SeedStepsBound DEF SeededOffer
<1>3. \A d : HasPolicyHeader(SeededOffer(Primary, "build"), d) => d = Primary
  BY DEF HasPolicyHeader, SeededOffer, SeedTriple
<1> QED
  BY <1>1, <1>2, <1>3, SeedTripleShape DEF HasFilePath, HasMediaType

(* One insert of a seeding.                                                *)
LEMMA SeedingStep ==
  ASSUME TypeInv, GraphInv, NEW s \in StartCall, OnStartSeed(s)
  PROVE  GraphInv'
<1> DEFINE d == start[s].dataset
           n == start[s].seeded + 1
<1>1. /\ OnlyStart(s) /\ start[s].pc = "seed" /\ n \in 1..SeedSteps
      /\ start'[s].dataset = d /\ start'[s].seeded = n
      /\ start'[s].pc = IF n = SeedSteps THEN "issue" ELSE "seed"
      /\ graph' = graph \cup {SeedTriple(d, s, n)}
      /\ tokens' = tokens
  BY OnStartSeedEffect
<1>2. start[s].seeded \in Nat /\ SeedSteps \in Nat /\ n - 1 = start[s].seeded
  BY SeedStepsBound DEF TypeInv, TypeOK, StartRecord
<1>3. \A i \in 1..(n - 1) : SeedTriple(d, s, i) \in graph
  BY <1>1, <1>2 DEF GraphInv, SeedingProgress
<1> HIDE DEF n
<1>4. n \in Nat
  BY <1>1, <1>2
<1>5. \A i \in 1..n : SeedTriple(d, s, i) \in graph'
  BY <1>1, <1>3, <1>4
<1>6. SeedingProgress'
  <2> SUFFICES ASSUME NEW c \in StartCall, start'[c].pc = "seed",
                      NEW i \in 1..start'[c].seeded
               PROVE  SeedTriple(start'[c].dataset, c, i) \in graph'
    BY DEF SeedingProgress
  <2>1. CASE c = s
    BY <1>1, <1>5, <2>1
  <2>2. CASE c # s
    BY <1>1, <2>2 DEF OnlyStart, GraphInv, SeedingProgress
  <2> QED
    BY <2>1, <2>2
<1>7. HeaderAfterMediaType'
  <2> SUFFICES ASSUME NEW x \in Dataset, HasPolicyHeader(graph', x)
               PROVE  HasMediaType(graph', x) /\ HasFilePath(graph', x)
    BY DEF HeaderAfterMediaType
  <2>1. CASE HasPolicyHeader(graph, x)
    BY <1>1, <2>1 DEF GraphInv, HeaderAfterMediaType, HasMediaType, HasFilePath
  <2>2. CASE SeedTriple(d, s, n) = <<x, "policyHeader", Iri>>
    <3>1. n = 3 /\ x = d
      BY <1>1, <1>4, <2>2, SeedStepsBound, SeedTripleShape
    <3>2. SeedTriple(d, s, 1) \in graph' /\ SeedTriple(d, s, 2) \in graph'
      BY <1>5, <3>1
    <3> QED
      BY <3>1, <3>2, SeedTripleShape DEF HasMediaType, HasFilePath
  <2> QED
    BY <1>1, <2>1, <2>2 DEF HasPolicyHeader
<1>8. HasFilePath(graph', d)
  BY <1>1, <1>4, <1>5, SeedTripleShape DEF HasFilePath
<1>9. TokenHasFilePath'
  BY <1>1, <1>8 DEF GraphInv, TokenHasFilePath, HasFilePath, OnlyStart
<1> QED
  BY <1>6, <1>7, <1>9 DEF GraphInv

(* Any other step of START leaves the graph as it is.                      *)
LEMMA OtherStartStep ==
  ASSUME GraphInv, NEW s \in StartCall, OnlyStart(s), graph' = graph,
         start'[s].pc = "seed" => start'[s].seeded = 0,
         start'[s].pc = "issue" => HasFilePath(graph, start'[s].dataset),
         \A e \in tokens' : e \in tokens \/ HasFilePath(graph, e.dataset)
  PROVE  GraphInv'
<1>1. SeedingProgress'
  <2> SUFFICES ASSUME NEW c \in StartCall, start'[c].pc = "seed",
                      NEW i \in 1..start'[c].seeded
               PROVE  SeedTriple(start'[c].dataset, c, i) \in graph'
    BY DEF SeedingProgress
  <2>1. CASE c = s
    BY <2>1
  <2>2. CASE c # s
    BY <2>2 DEF OnlyStart, GraphInv, SeedingProgress
  <2> QED
    BY <2>1, <2>2
<1>2. HeaderAfterMediaType'
  BY DEF GraphInv, HeaderAfterMediaType
<1>3. TokenHasFilePath'
  BY DEF GraphInv, TokenHasFilePath, OnlyStart
<1> QED
  BY <1>1, <1>2, <1>3 DEF GraphInv

LEMMA GraphUnchanged ==
  ASSUME GraphInv, graph' = graph, start' = start, tokens' \subseteq tokens
  PROVE  GraphInv'
BY DEF GraphInv, SeedingProgress, HeaderAfterMediaType, TokenHasFilePath

(* A new run starts from build's offer, without tokens and seedings.       *)
LEMMA FreshGraph ==
  ASSUME graph' = SeededOffer(Primary, "build"), tokens' = {},
         \A s \in StartCall : start'[s].pc \notin {"seed", "issue"}
  PROVE  GraphInv'
<1>1. HeaderAfterMediaType'
  BY BuildOffer DEF HeaderAfterMediaType
<1> QED
  BY <1>1 DEF GraphInv, SeedingProgress, TokenHasFilePath

LEMMA GraphStep ==
  ASSUME TypeInv, GraphInv, [Next]_vars
  PROVE  GraphInv'
<1> USE DEF stores, history
<1>t. TypeOK
  BY DEF TypeInv
<1>1. ASSUME NEW s \in StartCall, NEW f \in Flow, NEW d \in Dataset,
             StartDispatch(s, f, d)
      PROVE  GraphInv'
  BY <1>t, <1>1, StartDispatchEffect, OtherStartStep
<1>2. ASSUME NEW s \in StartCall, OnStartCheck(s) PROVE GraphInv'
  BY <1>t, <1>2, OnStartCheckEffect, OtherStartStep
     DEF SameStart, TypeInv, CallsFilledIn
<1>3. ASSUME NEW s \in StartCall, OnStartSeed(s) PROVE GraphInv'
  BY <1>3, SeedingStep
<1>4. ASSUME NEW s \in StartCall, OnStartSeedFails(s) PROVE GraphInv'
  <2>1. OnlyStart(s) /\ start'[s].pc = "failed"
    BY <1>t, <1>4, StartMoves DEF OnStartSeedFails
  <2> QED
    BY <1>4, <2>1, OtherStartStep DEF OnStartSeedFails
<1>5. ASSUME NEW s \in StartCall, OnStartIssue(s) PROVE GraphInv'
  <2>1. PICK t \in Token \ issued :
          /\ OnlyStart(s) /\ start[s].pc = "issue" /\ start'[s].pc = "commit"
          /\ tokens' = {e \in tokens : e.token # t}
                         \cup {Entry(t, start[s].flow, start[s].dataset)}
          /\ graph' = graph
    BY <1>5, OnStartIssueEffect
  <2>2. HasFilePath(graph, start[s].dataset)
    BY <2>1 DEF GraphInv, TokenHasFilePath
  <2>3. \A e \in tokens' : e \in tokens \/ HasFilePath(graph, e.dataset)
    BY <2>1, <2>2 DEF Entry
  <2> QED
    BY <2>1, <2>3, OtherStartStep
<1>6. ASSUME NEW s \in StartCall, StartCommit(s) PROVE GraphInv'
  <2>1. OnlyStart(s) /\ start'[s].pc = "started"
    BY <1>t, <1>6, StartMoves DEF StartCommit
  <2> QED
    BY <1>6, <2>1, OtherStartStep DEF StartCommit
<1>7. ASSUME NEW s \in StartCall, StartAbort(s) PROVE GraphInv'
  <2>1. OnlyStart(s) /\ start'[s].pc = "failed"
    BY <1>t, <1>7, StartMoves DEF StartAbort
  <2> QED
    BY <1>7, <2>1, OtherStartStep DEF StartAbort
<1>8. ASSUME NEW x \in TermCall, NEW f \in Flow, TermDispatch(x, f) PROVE GraphInv'
  BY <1>8, GraphUnchanged DEF TermDispatch
<1>9. ASSUME NEW x \in TermCall, TermStep(x) PROVE GraphInv'
  BY <1>9, GraphUnchanged DEF TermStep, OnTerminate, TermCommit, TermAbort, RevokeFlow
<1>10. ASSUME NEW f \in Flow, SdkComplete(f) PROVE GraphInv'
  BY <1>10, GraphUnchanged DEF SdkComplete
<1>11. ASSUME NEW g \in GetCall, NEW t \in disclosed \cup {None},
              NEW d \in Dataset, GetSend(g, t, d)
       PROVE  GraphInv'
  BY <1>11, GraphUnchanged DEF GetSend
<1>12. ASSUME NEW g \in GetCall, GetStep(g) PROVE GraphInv'
  BY <1>t, <1>12, GetStepFrame, GraphUnchanged DEF NotGet
<1>13. CASE Tick
  BY <1>13, GraphUnchanged DEF Tick
<1>14. CASE Restart
  <2>1. \A s \in StartCall : start'[s].pc \notin {"seed", "issue"}
    BY <1>t, <1>14, RestartEffect DEF StartRunning
  <2> QED
    BY <1>14, <2>1, FreshGraph DEF Restart
<1>15. CASE UNCHANGED vars
  BY <1>15, GraphUnchanged DEF vars
<1> QED
  BY <1>1, <1>2, <1>3, <1>4, <1>5, <1>6, <1>7, <1>8, <1>9, <1>10, <1>11, <1>12,
     <1>13, <1>14, <1>15
     DEF Next, StartStep

-----------------------------------------------------------------------------
(* Requests.                                                               *)

(* What a request has read stays true as the graph grows.                  *)
LEMMA SoundStays ==
  ASSUME NEW g \in GetCall, RequestSound(g), get'[g] = get[g], graph \subseteq graph'
  PROVE  RequestSound(g)'
BY DEF RequestSound, HasFilePath, HasPolicyHeader

(* Steps that are no request's.                                            *)
LEMMA GraphGrows ==
  ASSUME TypeInv, [Next]_vars, ~Restart
  PROVE  /\ graph \subseteq graph'
         /\ \/ get' = get
            \/ \E g \in GetCall :
                 \/ GetStep(g)
                 \/ \E t \in disclosed \cup {None}, d \in Dataset : GetSend(g, t, d)
<1> USE DEF stores, history
<1>t. TypeOK
  BY DEF TypeInv
<1>1. ASSUME NEW s \in StartCall, StartStep(s)
      PROVE  graph \subseteq graph' /\ get' = get
  BY <1>1 DEF StartStep, OnStartCheck, OnStartSeed, OnStartSeedFails, OnStartIssue,
              StartCommit, StartAbort, InsertFact
<1>2. ASSUME NEW s \in StartCall, NEW f \in Flow, NEW d \in Dataset,
             StartDispatch(s, f, d)
      PROVE  graph \subseteq graph' /\ get' = get
  BY <1>2 DEF StartDispatch
<1>3. ASSUME NEW x \in TermCall, TermStep(x)
      PROVE  graph \subseteq graph' /\ get' = get
  BY <1>3 DEF TermStep, OnTerminate, TermCommit, TermAbort
<1>4. ASSUME NEW x \in TermCall, NEW f \in Flow, TermDispatch(x, f)
      PROVE  graph \subseteq graph' /\ get' = get
  BY <1>4 DEF TermDispatch
<1>5. ASSUME NEW f \in Flow, SdkComplete(f)
      PROVE  graph \subseteq graph' /\ get' = get
  BY <1>5 DEF SdkComplete
<1>6. ASSUME NEW g \in GetCall, GetStep(g) PROVE graph \subseteq graph'
  BY <1>t, <1>6, GetStepFrame DEF NotGet
<1>7. ASSUME NEW g \in GetCall, NEW t \in disclosed \cup {None},
             NEW d \in Dataset, GetSend(g, t, d)
      PROVE  graph \subseteq graph'
  BY <1>7 DEF GetSend
<1>8. CASE Tick \/ UNCHANGED vars
  BY <1>8 DEF Tick, vars
<1> QED
  BY <1>1, <1>2, <1>3, <1>4, <1>5, <1>6, <1>7, <1>8 DEF Next

(* get_file's own steps.                                                   *)
LEMMA GetStepSound ==
  ASSUME TypeInv, OfferInv, NEW g \in GetCall, GetStep(g)
  PROVE  RequestSound(g)'
<1>t. TypeOK
  BY DEF TypeInv
<1>1. /\ OnlyGet(g) /\ SameRequest(g) /\ get[g].pc \in GetRunning
      /\ graph' = graph
  BY <1>t, GetStepFrame DEF NotGet, stores
<1>2. RequestSound(g) /\ get[g].dataset \in Dataset
  BY <1>1 DEF OfferInv, TypeInv, CallsFilledIn
<1>3. None # 200 /\ None # 404
  BY ConstantsAssumption
<1>4. ASSUME Refused(g, {401, 403, 500}) PROVE RequestSound(g)'
  BY <1>1, <1>4 DEF Refused, RequestSound, GetChecked, GetRunning
<1>5. CASE GetLookup(g)
  <2>1. CASE LookedUp(g)
    <3>1. PICK e \in tokens : e.dataset = get[g].dataset
      BY <2>1 DEF LookedUp
    <3>2. HasFilePath(graph, get[g].dataset)
      BY <3>1 DEF OfferInv, GraphInv, TokenHasFilePath
    <3> QED
      BY <1>1, <1>2, <1>3, <2>1, <3>2
         DEF LookedUp, RequestSound, SameRequest, GetChecked, GetRunning
  <2> QED
    BY <1>t, <1>4, <1>5, <2>1, GetLookupEffect DEF Refused
<1>6. CASE GetPolicyHeader(g)
  <2>1. CASE get'[g].pc = "rows" /\ get'[g].status = get[g].status
             /\ HasPolicyHeader(graph, get[g].dataset)
    BY <1>1, <1>2, <1>3, <1>6, <2>1
       DEF GetPolicyHeader, RequestSound, SameRequest, GetChecked, GetRunning
  <2> QED
    BY <1>t, <1>4, <1>6, <2>1, GetPolicyHeaderEffect DEF Refused
<1>7. CASE GetPolicyRows(g)
  BY <1>t, <1>1, <1>2, <1>3, <1>7, GetPolicyRowsEffect
     DEF RequestSound, SameRequest, GetChecked, GetRunning
<1>8. CASE GetEvaluate(g)
  <2>1. CASE get'[g].pc = "filePath" /\ get'[g].status = get[g].status
    BY <1>1, <1>2, <1>3, <1>8, <2>1
       DEF GetEvaluate, RequestSound, SameRequest, GetChecked, GetRunning
  <2> QED
    BY <1>t, <1>4, <1>8, <2>1, GetEvaluateEffect DEF Refused
<1>9. CASE GetFilePath(g)
  <2>1. get[g].pc = "filePath" /\ HasFilePath(graph, get[g].dataset)
    BY <1>2, <1>9 DEF GetFilePath, RequestSound, GetChecked
  <2>2. get'[g].pc = "mediaType" /\ get'[g].status = get[g].status
    BY <1>t, <1>9, <2>1, GetFilePathEffect
  <2> QED
    BY <1>1, <1>2, <1>3, <2>1, <2>2
       DEF RequestSound, SameRequest, GetChecked, GetRunning
<1>10. CASE GetMediaType(g)
  <2>1. HasMediaType(graph, get[g].dataset)
    BY <1>2, <1>10
       DEF GetMediaType, RequestSound, OfferInv, GraphInv, HeaderAfterMediaType
  <2> QED
    BY <1>t, <1>1, <1>2, <1>3, <1>10, <2>1, GetMediaTypeEffect
       DEF RequestSound, SameRequest, GetChecked, GetRunning
<1>11. CASE GetReadFile(g)
  BY <1>t, <1>1, <1>2, <1>3, <1>11, GetReadFileEffect
     DEF Refused, RequestSound, SameRequest, GetChecked, GetRunning
<1> QED
  BY <1>5, <1>6, <1>7, <1>8, <1>9, <1>10, <1>11 DEF GetStep

LEMMA OfferStep == TypeInv /\ OfferInv /\ [Next]_vars => OfferInv'
<1> SUFFICES ASSUME TypeInv, OfferInv, [Next]_vars PROVE OfferInv'
  OBVIOUS
<1>t. TypeOK
  BY DEF TypeInv
<1>1. GraphInv'
  BY GraphStep DEF OfferInv
<1>2. ASSUME NEW g \in GetCall PROVE RequestSound(g)'
  <2>1. CASE Restart
    BY <1>t, <2>1, RestartEffect, ConstantsAssumption
       DEF OfferInv, RequestSound, GetChecked, GetRunning
  <2>2. CASE ~Restart /\ get' = get
    BY <2>2, GraphGrows, SoundStays DEF OfferInv
  <2>3. ASSUME ~Restart, NEW c \in GetCall, GetStep(c) PROVE RequestSound(g)'
    <3>1. CASE c = g
      BY <2>3, <3>1, GetStepSound
    <3>2. CASE c # g
      BY <1>t, <2>3, <3>2, GetStepFrame, GraphGrows, SoundStays DEF OfferInv, OnlyGet
    <3> QED
      BY <3>1, <3>2
  <2>4. ASSUME ~Restart, NEW c \in GetCall, NEW t \in disclosed \cup {None},
               NEW d \in Dataset, GetSend(c, t, d)
        PROVE  RequestSound(g)'
    <3>1. OnlyGet(c) /\ get'[c] = Request("lookup", t, d, t \in dead)
      BY <1>t, <2>4, GetSendEffect
    <3>2. CASE c = g
      <4>1. get'[g].pc = "lookup" /\ get'[g].status = None
        BY <3>1, <3>2 DEF Request
      <4> QED
        BY <4>1, ConstantsAssumption DEF RequestSound, GetChecked
    <3>3. CASE c # g
      BY <2>4, <3>1, <3>3, GraphGrows, SoundStays DEF OfferInv, OnlyGet
    <3> QED
      BY <3>2, <3>3
  <2> QED
    BY <2>1, <2>2, <2>3, <2>4, GraphGrows
<1> QED
  BY <1>1, <1>2 DEF OfferInv

LEMMA OfferInit == Init => OfferInv
<1> SUFFICES ASSUME Init PROVE OfferInv
  OBVIOUS
<1>1. GraphInv
  BY BuildOffer DEF Init, GraphInv, SeedingProgress, HeaderAfterMediaType,
                    TokenHasFilePath
<1>2. ASSUME NEW g \in GetCall PROVE RequestSound(g)
  <2>1. get[g].pc = "idle" /\ get[g].status = None
    BY DEF Init, Blank, Request
  <2> QED
    BY <2>1, ConstantsAssumption DEF RequestSound, GetChecked, GetRunning
<1> QED
  BY <1>1, <1>2 DEF OfferInv

(* The invariant about half-written offers, of every state of DataPlane.  *)
THEOREM OfferInvHolds == Spec => []OfferInv
<1>1. Spec => []TypeInv
  BY TypeInit, TypeStep, PTL DEF Spec
<1> QED
  BY <1>1, OfferInit, OfferStep, PTL DEF Spec

(* No GET ever ends in get_file's 404, in either mode.                     *)
THEOREM FileIsFound == Spec => []NeverNotFound
<1>1. OfferInv => NeverNotFound
  BY DEF OfferInv, RequestSound, NeverNotFound
<1> QED
  BY <1>1, OfferInvHolds, PTL

(* A served file always carries the configured media type.                 *)
THEOREM MediaTypeIsConfigured == Spec => []MediaTypeAsConfigured
<1>1. OfferInv => MediaTypeAsConfigured
  BY DEF OfferInv, RequestSound, MediaTypeAsConfigured
<1> QED
  BY <1>1, OfferInvHolds, PTL

-----------------------------------------------------------------------------
(* Whole offers.  A file path without the rest of its offer is the work of *)
(* a seeding that has begun and not ended.                                 *)

WholeOffer(d) ==
  \E seeder \in StartCall \cup {"build"} : SeededOffer(d, seeder) \subseteq graph

BeingSeeded(s, d) ==
  start[s].pc = "seed" /\ start[s].dataset = d /\ start[s].seeded >= 1

OffersWhole ==
  \A d \in Dataset :
    HasFilePath(graph, d) =>
      WholeOffer(d) \/ \E s \in StartCall : BeingSeeded(s, d)

LEMMA OffersWholeInit == Init => OffersWhole
<1> SUFFICES ASSUME Init, NEW d \in Dataset, HasFilePath(graph, d) PROVE WholeOffer(d)
  BY DEF OffersWhole
<1>1. graph = SeededOffer(Primary, "build")
  BY DEF Init
<1>2. d = Primary
  BY <1>1 DEF HasFilePath, SeededOffer, SeedTriple
<1> QED
  BY <1>1, <1>2 DEF WholeOffer

(* Seedings and offers that a step does not touch.                         *)
LEMMA OffersStay ==
  ASSUME OffersWhole, graph' = graph,
         \A s \in StartCall, d \in Dataset : BeingSeeded(s, d) => BeingSeeded(s, d)'
  PROVE  OffersWhole'
BY DEF OffersWhole, WholeOffer, HasFilePath

LEMMA OffersWholeSeed ==
  ASSUME TypeInv, GraphInv, OffersWhole, NEW s \in StartCall, OnStartSeed(s)
  PROVE  OffersWhole'
<1>1. PICK d \in Dataset, n \in Nat :
        /\ OnlyStart(s) /\ start[s].pc = "seed" /\ start[s].dataset = d
        /\ n = start[s].seeded + 1 /\ n \in 1..SeedSteps
        /\ start'[s].dataset = d /\ start'[s].seeded = n
        /\ start'[s].pc = IF n = SeedSteps THEN "issue" ELSE "seed"
        /\ graph' = graph \cup {SeedTriple(d, s, n)}
  <2>1. start[s].dataset \in Dataset
    BY OnStartSeedEffect DEF TypeInv, CallsFilledIn, OnStartSeed, StartRunning
  <2>2. start[s].seeded + 1 \in Nat
    BY SeedStepsBound DEF TypeInv, TypeOK, StartRecord
  <2> QED
    BY <2>1, <2>2, OnStartSeedEffect
<1>2. start[s].seeded \in Nat /\ SeedSteps \in Nat /\ n - 1 = start[s].seeded
  BY <1>1, SeedStepsBound DEF TypeInv, TypeOK, StartRecord
<1>3. \A i \in 1..(n - 1) : SeedTriple(d, s, i) \in graph
  BY <1>1, <1>2 DEF GraphInv, SeedingProgress
<1>4. \A i \in 1..n : SeedTriple(d, s, i) \in graph'
  BY <1>1, <1>3
<1> SUFFICES ASSUME NEW x \in Dataset, HasFilePath(graph', x)
             PROVE  \/ \E seeder \in StartCall \cup {"build"} :
                         SeededOffer(x, seeder) \subseteq graph'
                    \/ \E c \in StartCall : BeingSeeded(c, x)'
  BY DEF OffersWhole, WholeOffer
<1>5. CASE x = d /\ n = SeedSteps
  <2>1. SeededOffer(d, s) \subseteq graph'
    BY <1>4, <1>5 DEF SeededOffer
  <2> QED
    BY <1>5, <2>1
<1>6. CASE x = d /\ n # SeedSteps
  BY <1>1, <1>6 DEF BeingSeeded
<1>7. CASE x # d
  <2>1. HasFilePath(graph, x)
    BY <1>1, <1>7 DEF HasFilePath, SeedTriple
  <2>2. CASE WholeOffer(x)
    BY <1>1, <2>2 DEF WholeOffer
  <2>3. CASE \E c \in StartCall : BeingSeeded(c, x)
    BY <1>1, <1>7, <2>3 DEF BeingSeeded, OnlyStart
  <2> QED
    BY <2>1, <2>2, <2>3 DEF OffersWhole
<1> QED
  BY <1>5, <1>6, <1>7

LEMMA OffersWholeStep ==
  ASSUME ~StoreCanFail, TypeInv, GraphInv, OffersWhole, [Next]_vars
  PROVE  OffersWhole'
<1> USE DEF stores, history
<1>t. TypeOK
  BY DEF TypeInv
<1>1. ASSUME NEW s \in StartCall, OnlyStart(s), start[s].pc # "seed", graph' = graph
      PROVE  OffersWhole'
  BY <1>1, OffersStay DEF BeingSeeded, OnlyStart
<1>2. ASSUME NEW s \in StartCall, NEW f \in Flow, NEW d \in Dataset,
             StartDispatch(s, f, d)
      PROVE  OffersWhole'
  BY <1>t, <1>1, <1>2, StartDispatchEffect
<1>3. ASSUME NEW s \in StartCall, OnStartCheck(s) PROVE OffersWhole'
  BY <1>t, <1>1, <1>3, OnStartCheckEffect
<1>4. ASSUME NEW s \in StartCall, OnStartSeed(s) PROVE OffersWhole'
  BY <1>4, OffersWholeSeed
<1>5. ASSUME NEW s \in StartCall, OnStartSeedFails(s) PROVE OffersWhole'
  <2>1. OnlyStart(s) /\ start[s].seeded = 0 /\ graph' = graph
    BY <1>t, <1>5, StartMoves DEF OnStartSeedFails
  <2> QED
    BY <2>1, OffersStay DEF BeingSeeded, OnlyStart
<1>6. ASSUME NEW s \in StartCall, OnStartIssue(s) PROVE OffersWhole'
  BY <1>1, <1>6, OnStartIssueEffect
<1>7. ASSUME NEW s \in StartCall, StartCommit(s) \/ StartAbort(s) PROVE OffersWhole'
  <2>1. OnlyStart(s)
    BY <1>t, <1>7, StartMoves DEF StartCommit, StartAbort
  <2> QED
    BY <1>1, <1>7, <2>1 DEF StartCommit, StartAbort
<1>8. ASSUME graph' = graph, start' = start PROVE OffersWhole'
  BY <1>8, OffersStay DEF BeingSeeded
<1>9. ASSUME NEW g \in GetCall, GetStep(g) PROVE OffersWhole'
  BY <1>t, <1>8, <1>9, GetStepFrame DEF NotGet
<1>10. CASE Restart
  <2> SUFFICES ASSUME NEW d \in Dataset, HasFilePath(graph', d) PROVE WholeOffer(d)'
    BY DEF OffersWhole
  <2>1. graph' = SeededOffer(Primary, "build")
    BY <1>10 DEF Restart
  <2>2. d = Primary
    BY <2>1 DEF HasFilePath, SeededOffer, SeedTriple
  <2> QED
    BY <2>1, <2>2 DEF WholeOffer
<1> QED
  BY <1>2, <1>3, <1>4, <1>5, <1>6, <1>7, <1>8, <1>9, <1>10
     DEF Next, StartStep, TermStep, TermDispatch, OnTerminate, TermCommit, TermAbort,
         SdkComplete, GetSend, Tick, vars

(* If inserts do not fail half-way, on_start mints no token that cannot be *)
(* redeemed: its dataset's offer is whole, or a seeding is completing it.  *)
THEOREM LiveTokensHaveOffers ==
  ASSUME ~StoreCanFail
  PROVE  Spec => []LiveTokenHasOffer
<1>1. Spec => []TypeInv
  BY TypeInit, TypeStep, PTL DEF Spec
<1>2. OfferInv => GraphInv
  BY DEF OfferInv
<1>3. TypeInv /\ GraphInv /\ OffersWhole /\ [Next]_vars => OffersWhole'
  BY OffersWholeStep
<1>4. Spec => []OffersWhole
  BY <1>1, <1>2, <1>3, OfferInvHolds, OffersWholeInit, PTL DEF Spec
<1>5. TypeInv /\ OfferInv /\ OffersWhole => LiveTokenHasOffer
  BY DEF TypeInv, TypeOK, OfferInv, GraphInv, TokenHasFilePath, OffersWhole,
         WholeOffer, BeingSeeded, LiveTokenHasOffer
<1> QED
  BY <1>1, <1>4, <1>5, OfferInvHolds, PTL

-----------------------------------------------------------------------------
(***************************************************************************)
(* The deadline of the configured offer: proofs of                         *)
(* PrimaryDeadlineEnforced, in every mode, and of DeadlineEnforced in      *)
(* normal mode.                                                            *)
(*                                                                         *)
(* The argument: the offer of build is in the graph before the first call  *)
(* and its file path keeps on_start from seeding it again, so of all that  *)
(* is ever inserted nothing concerns the configured dataset; the rows that *)
(* a request reads of it are the one constrained permission.  In normal    *)
(* mode nothing is inserted at all, and every token is for that dataset.   *)
(***************************************************************************)

(* The configured dataset has build's offer, whole, and nothing else.      *)
PrimaryAsBuilt ==
  /\ SeededOffer(Primary, "build") \subseteq graph
  /\ \A q \in graph : q[1] = Primary => q \in SeededOffer(Primary, "build")
  /\ \A s \in StartCall : start[s].pc = "seed" => start[s].dataset # Primary

(* What a request for it has read and concluded, if there is a deadline.   *)
Punctual(g) ==
  get[g].dataset = Primary /\ NotAfter # NoDeadline =>
    /\ get[g].pc = "evaluate" => FALSE \notin get[g].rows
    /\ get[g].pc \in {"filePath", "mediaType", "read"} \/ get[g].status = 200 =>
         ~DeadlinePassed(get[g].evaluatedAt)

DeadlineInv == PrimaryAsBuilt /\ \A g \in GetCall : Punctual(g)

-----------------------------------------------------------------------------
(* The configured offer.                                                   *)

LEMMA PrimaryRows ==
  ASSUME PrimaryAsBuilt, NotAfter # NoDeadline
  PROVE  FALSE \notin PermissionRows(graph, Primary)
<1>1. SeedSteps = 5
  BY DEF SeedSteps
<1>2. <<Primary, "constraint", "build">> \in graph
  <2>1. SeedTriple(Primary, "build", 5) \in SeededOffer(Primary, "build")
    BY <1>1 DEF SeededOffer
  <2> QED
    BY <2>1, SeedTripleShape DEF PrimaryAsBuilt
<1>3. ASSUME NEW n \in PermissionNodes(graph, Primary)
      PROVE  IsConstrained(graph, Primary, n)
  <2>1. PICK q \in graph : q[1] = Primary /\ q[2] = "permission" /\ n = q[3]
    BY DEF PermissionNodes
  <2>2. PICK i \in 1..5 : q = SeedTriple(Primary, "build", i)
    BY <1>1, <2>1 DEF PrimaryAsBuilt, SeededOffer
  <2>3. i \in {1, 2, 3, 4, 5}
    BY <2>2
  <2>4. q = <<Primary, "permission", "build">>
    BY <2>1, <2>2, <2>3, SeedTripleShape
  <2> QED
    BY <1>2, <2>1, <2>4 DEF IsConstrained
<1> QED
  BY <1>3 DEF PermissionRows

(* A step that inserts nothing and starts no seeding of it.                *)
LEMMA PrimaryStays ==
  ASSUME PrimaryAsBuilt, graph' = graph,
         \A s \in StartCall :
           start'[s].pc = "seed" =>
             \/ start[s].pc = "seed" /\ start'[s].dataset = start[s].dataset
             \/ start'[s].dataset # Primary
  PROVE  PrimaryAsBuilt'
BY DEF PrimaryAsBuilt

LEMMA PrimaryStep ==
  ASSUME TypeInv, PrimaryAsBuilt, [Next]_vars
  PROVE  PrimaryAsBuilt'
<1> USE DEF stores, history
<1>t. TypeOK
  BY DEF TypeInv
<1>1. ASSUME NEW s \in StartCall, OnlyStart(s), start'[s].pc # "seed", graph' = graph
      PROVE  PrimaryAsBuilt'
  BY <1>1, PrimaryStays DEF OnlyStart
<1>2. ASSUME NEW s \in StartCall, NEW f \in Flow, NEW d \in Dataset,
             StartDispatch(s, f, d)
      PROVE  PrimaryAsBuilt'
  BY <1>t, <1>1, <1>2, StartDispatchEffect
<1>3. ASSUME NEW s \in StartCall, OnStartCheck(s) PROVE PrimaryAsBuilt'
  <2>1. CASE start'[s].pc = "seed"
    <3>1. HasFilePath(graph, Primary)
      BY SeedStepsBound, SeedTripleShape DEF PrimaryAsBuilt, SeededOffer, HasFilePath
    <3>2. start'[s].dataset # Primary
      BY <1>t, <1>3, <2>1, <3>1, OnStartCheckEffect DEF SameStart
    <3> QED
      BY <1>t, <1>3, <3>2, OnStartCheckEffect, PrimaryStays DEF OnlyStart
  <2> QED
    BY <1>t, <1>1, <1>3, <2>1, OnStartCheckEffect
<1>4. ASSUME NEW s \in StartCall, OnStartSeed(s) PROVE PrimaryAsBuilt'
  <2>1. /\ OnlyStart(s) /\ start[s].pc = "seed"
        /\ start'[s].dataset = start[s].dataset
        /\ graph' = graph \cup {SeedTriple(start[s].dataset, s, start'[s].seeded)}
    BY <1>4, OnStartSeedEffect
  <2>2. start[s].dataset # Primary
    BY <2>1 DEF PrimaryAsBuilt
  <2>3. SeedTriple(start[s].dataset, s, start'[s].seeded)[1] # Primary
    BY <2>2 DEF SeedTriple
  <2> QED
    BY <2>1, <2>2, <2>3 DEF PrimaryAsBuilt, OnlyStart
<1>5. ASSUME NEW s \in StartCall, OnStartIssue(s) PROVE PrimaryAsBuilt'
  BY <1>1, <1>5, OnStartIssueEffect
<1>6. ASSUME NEW s \in StartCall,
             OnStartSeedFails(s) \/ StartCommit(s) \/ StartAbort(s)
      PROVE  PrimaryAsBuilt'
  <2>1. OnlyStart(s) /\ start'[s].pc # "seed" /\ graph' = graph
    BY <1>t, <1>6, StartMoves DEF OnStartSeedFails, StartCommit, StartAbort
  <2> QED
    BY <1>1, <2>1
<1>7. ASSUME graph' = graph, start' = start PROVE PrimaryAsBuilt'
  BY <1>7, PrimaryStays
<1>8. ASSUME NEW g \in GetCall, GetStep(g) PROVE PrimaryAsBuilt'
  BY <1>t, <1>7, <1>8, GetStepFrame DEF NotGet
<1>9. CASE Restart
  <2>1. graph' = SeededOffer(Primary, "build")
    BY <1>9 DEF Restart
  <2>2. \A s \in StartCall : start'[s].pc # "seed"
    BY <1>t, <1>9, RestartEffect DEF StartRunning
  <2> QED
    BY <2>1, <2>2 DEF PrimaryAsBuilt
<1> QED
  BY <1>2, <1>3, <1>4, <1>5, <1>6, <1>7, <1>8, <1>9
     DEF Next, StartStep, TermStep, TermDispatch, OnTerminate, TermCommit, TermAbort,
         SdkComplete, GetSend, Tick, vars

-----------------------------------------------------------------------------
(* Requests.                                                               *)

(* get_file's own steps.                                                   *)
LEMMA PunctualGetStep ==
  ASSUME TypeInv, OfferInv, DeadlineInv, NEW g \in GetCall, GetStep(g)
  PROVE  Punctual(g)'
<1>t. TypeOK
  BY DEF TypeInv
<1>1. SameRequest(g) /\ get[g].pc \in GetRunning
  BY <1>t, GetStepFrame
<1>2. get[g].status = None /\ None # 200
  BY <1>1, ConstantsAssumption DEF OfferInv, RequestSound
<1>3. Punctual(g)
  BY DEF DeadlineInv
<1>4. ASSUME Refused(g, {401, 403, 404, 500}) PROVE Punctual(g)'
  BY <1>4 DEF Refused, Punctual
<1>5. CASE GetLookup(g)
  <2>1. CASE Refused(g, {401, 403})
    BY <1>4, <2>1 DEF Refused
  <2>2. CASE get'[g].pc = "header" /\ get'[g].status = None
    BY <1>2, <2>2 DEF Punctual
  <2> QED
    BY <1>t, <1>2, <1>5, <2>1, <2>2, GetLookupEffect DEF LookedUp
<1>6. CASE GetPolicyHeader(g)
  <2>1. CASE Refused(g, {500})
    BY <1>4, <2>1 DEF Refused
  <2>2. CASE get'[g].pc = "rows" /\ get'[g].status = None
    BY <1>2, <2>2 DEF Punctual
  <2> QED
    BY <1>t, <1>2, <1>6, <2>1, <2>2, GetPolicyHeaderEffect
<1>7. CASE GetPolicyRows(g)
  <2>1. /\ get'[g].pc = "evaluate" /\ get'[g].status = get[g].status
        /\ get'[g].rows = PermissionRows(graph, get[g].dataset)
    BY <1>t, <1>7, GetPolicyRowsEffect
  <2>2. get[g].dataset = Primary /\ NotAfter # NoDeadline => FALSE \notin get'[g].rows
    BY <2>1, PrimaryRows DEF DeadlineInv
  <2> QED
    BY <1>1, <1>2, <2>1, <2>2 DEF Punctual, SameRequest
<1>8. CASE GetEvaluate(g)
  <2>1. CASE Refused(g, {403, 500})
    BY <1>4, <2>1 DEF Refused
  <2>2. CASE /\ get[g].pc = "evaluate" /\ get'[g].pc = "filePath"
             /\ get'[g].evaluatedAt = now /\ Allows(get[g].rows, now)
    <3>1. ASSUME get[g].dataset = Primary, NotAfter # NoDeadline
          PROVE  now <= NotAfter
      <4>1. PICK c \in get[g].rows : c => now <= NotAfter
        BY <2>2 DEF Allows
      <4>2. get[g].rows \subseteq BOOLEAN
        BY <1>t DEF TypeOK, GetRecord
      <4>3. FALSE \notin get[g].rows
        BY <1>3, <2>2, <3>1 DEF Punctual
      <4>4. c = TRUE
        BY <4>1, <4>2, <4>3
      <4> QED
        BY <4>1, <4>4
    <3>2. get[g].dataset = Primary /\ NotAfter # NoDeadline => ~DeadlinePassed(now)
      BY <1>t, <3>1, ConstantsAssumption DEF DeadlinePassed, TypeOK
    <3> QED
      BY <1>1, <2>2, <3>2 DEF Punctual, SameRequest
  <2> QED
    BY <1>t, <1>8, <2>1, <2>2, GetEvaluateEffect
<1>9. CASE GetFilePath(g)
  <2>1. CASE Refused(g, {404})
    BY <1>4, <2>1 DEF Refused
  <2> QED
    BY <1>t, <1>1, <1>3, <1>9, <2>1, GetFilePathEffect DEF Punctual, SameRequest
<1>10. CASE GetMediaType(g)
  BY <1>t, <1>1, <1>3, <1>10, GetMediaTypeEffect DEF Punctual, SameRequest
<1>11. CASE GetReadFile(g)
  <2>1. /\ get[g].pc = "read" /\ get'[g].pc = "answered"
        /\ get'[g].evaluatedAt = get[g].evaluatedAt /\ get'[g].dataset = get[g].dataset
    BY <1>t, <1>11, GetReadFileEffect DEF SameRequest, Refused
  <2> QED
    BY <1>3, <2>1 DEF Punctual
<1> QED
  BY <1>5, <1>6, <1>7, <1>8, <1>9, <1>10, <1>11 DEF GetStep

LEMMA DeadlineStep ==
  TypeInv /\ OfferInv /\ DeadlineInv /\ [Next]_vars => DeadlineInv'
<1> SUFFICES ASSUME TypeInv, OfferInv, DeadlineInv, [Next]_vars PROVE DeadlineInv'
  OBVIOUS
<1>t. TypeOK
  BY DEF TypeInv
<1>1. PrimaryAsBuilt'
  BY PrimaryStep DEF DeadlineInv
<1>2. ASSUME NEW g \in GetCall PROVE Punctual(g)'
  <2>p. Punctual(g)
    BY DEF DeadlineInv
  <2>1. CASE Restart
    BY <1>t, <2>1, <2>p, RestartEffect DEF Punctual, SameRequest, GetRunning, GetChecked
  <2>2. CASE get'[g] = get[g]
    BY <2>2, <2>p DEF Punctual
  <2>3. ASSUME NEW c \in GetCall, GetStep(c) PROVE Punctual(g)'
    BY <1>t, <2>2, <2>3, GetStepFrame, PunctualGetStep DEF OnlyGet
  <2>4. ASSUME NEW c \in GetCall, NEW t \in disclosed \cup {None},
               NEW d \in Dataset, GetSend(c, t, d)
        PROVE  Punctual(g)'
    <3>1. OnlyGet(c) /\ get'[c] = Request("lookup", t, d, t \in dead)
      BY <1>t, <2>4, GetSendEffect
    <3>2. get'[c].pc = "lookup" /\ get'[c].status = None
      BY <3>1 DEF Request
    <3>3. None # 200
      BY ConstantsAssumption
    <3>4. CASE c = g
      BY <3>2, <3>3, <3>4 DEF Punctual
    <3> QED
      BY <2>2, <3>1, <3>4 DEF OnlyGet
  <2> QED
    BY <2>1, <2>2, <2>3, <2>4, GraphGrows
<1> QED
  BY <1>1, <1>2 DEF DeadlineInv

LEMMA DeadlineInit == Init => DeadlineInv
<1> SUFFICES ASSUME Init PROVE DeadlineInv
  OBVIOUS
<1>1. PrimaryAsBuilt
  BY DEF Init, PrimaryAsBuilt
<1>2. ASSUME NEW g \in GetCall PROVE Punctual(g)
  <2>1. get[g].pc = "idle" /\ get[g].status = None
    BY DEF Init, Blank, Request
  <2> QED
    BY <2>1, ConstantsAssumption DEF Punctual
<1> QED
  BY <1>1, <1>2 DEF DeadlineInv

(* The invariant about the configured dataset, of every state of          *)
(* DataPlane.                                                             *)
THEOREM DeadlineInvHolds == Spec => []DeadlineInv
<1>1. Spec => []TypeInv
  BY TypeInit, TypeStep, PTL DEF Spec
<1> QED
  BY <1>1, OfferInvHolds, DeadlineInit, DeadlineStep, PTL DEF Spec

(* The configured offer's deadline holds in every mode, whatever else is   *)
(* seeded.                                                                 *)
THEOREM PrimaryDeadlineHolds == Spec => []PrimaryDeadlineEnforced
<1>1. DeadlineInv => PrimaryDeadlineEnforced
  BY DEF DeadlineInv, Punctual, PrimaryDeadlineEnforced, DeadlinePassed
<1> QED
  BY <1>1, DeadlineInvHolds, PTL

-----------------------------------------------------------------------------
(* Normal mode.                                                            *)

(* Nothing but the configured dataset is in the graph, so no other is      *)
(* served.                                                                 *)
OnlyPrimary ==
  /\ \A q \in graph : q[1] = Primary
  /\ \A s \in StartCall : start[s].pc # "seed"
  /\ \A g \in GetCall : get[g].status = 200 => get[g].dataset = Primary

LEMMA OnlyPrimaryInit == Init => OnlyPrimary
<1> SUFFICES ASSUME Init PROVE OnlyPrimary
  OBVIOUS
<1>1. \A q \in graph : q[1] = Primary
  BY DEF Init, SeededOffer, SeedTriple
<1>2. \A g \in GetCall : get[g].status = None
  BY DEF Init, Blank, Request
<1> QED
  BY <1>1, <1>2, ConstantsAssumption DEF Init, OnlyPrimary

LEMMA CheckedIsPrimary ==
  ASSUME OfferInv, OnlyPrimary, NEW g \in GetCall, get[g].pc \in GetChecked
  PROVE  get[g].dataset = Primary
<1>1. <<get[g].dataset, "filePath", Iri>> \in graph
  BY DEF OfferInv, RequestSound, HasFilePath
<1>2. <<get[g].dataset, "filePath", Iri>>[1] = Primary
  BY <1>1 DEF OnlyPrimary
<1> QED
  BY <1>2

LEMMA OnlyPrimaryServed ==
  ASSUME TypeInv, OfferInv, OnlyPrimary, [Next]_vars, NEW g \in GetCall
  PROVE  get'[g].status = 200 => get'[g].dataset = Primary
<1>t. TypeOK
  BY DEF TypeInv
<1>1. CASE Restart
  BY <1>t, <1>1, RestartEffect DEF OnlyPrimary, SameRequest
<1>2. CASE get'[g] = get[g]
  BY <1>2 DEF OnlyPrimary
<1>3. ASSUME GetStep(g) PROVE get'[g].status = 200 => get'[g].dataset = Primary
  <2>1. SameRequest(g) /\ get[g].pc \in GetRunning
    BY <1>t, <1>3, GetStepFrame
  <2>2. get[g].dataset \in Dataset /\ get[g].status = None /\ None # 200
    BY <2>1, ConstantsAssumption DEF TypeInv, CallsFilledIn, OfferInv, RequestSound
  <2>3. CASE get[g].pc \in GetChecked
    BY <2>1, <2>3, CheckedIsPrimary DEF SameRequest
  <2>4. CASE get[g].pc = "lookup"
    <3>1. GetLookup(g)
      BY <1>3, <2>4 DEF GetStep, GetPolicyHeader, GetPolicyRows, GetEvaluate,
                        GetFilePath, GetMediaType, GetReadFile
    <3>2. CASE Refused(g, {401, 403})
      BY <3>2 DEF Refused
    <3>3. CASE LookedUp(g)
      BY <2>2, <3>3 DEF LookedUp
    <3> QED
      BY <1>t, <3>1, <3>2, <3>3, GetLookupEffect
  <2> QED
    BY <2>1, <2>3, <2>4 DEF GetRunning
<1>4. ASSUME NEW c \in GetCall, GetStep(c)
      PROVE  get'[g].status = 200 => get'[g].dataset = Primary
  BY <1>t, <1>2, <1>3, <1>4, GetStepFrame DEF OnlyGet
<1>5. ASSUME NEW c \in GetCall, NEW t \in disclosed \cup {None},
             NEW d \in Dataset, GetSend(c, t, d)
      PROVE  get'[g].status = 200 => get'[g].dataset = Primary
  <2>1. OnlyGet(c) /\ get'[c] = Request("lookup", t, d, t \in dead)
    BY <1>t, <1>5, GetSendEffect
  <2>2. get'[c].status = None /\ None # 200
    BY <2>1, ConstantsAssumption DEF Request
  <2> QED
    BY <1>2, <2>1, <2>2 DEF OnlyGet
<1> QED
  BY <1>1, <1>2, <1>4, <1>5, GraphGrows

LEMMA OnlyPrimaryStep ==
  ASSUME ~TckMode, TypeInv, OfferInv, OnlyPrimary, [Next]_vars
  PROVE  OnlyPrimary'
<1> USE DEF stores, history
<1>t. TypeOK
  BY DEF TypeInv
<1>1. \A g \in GetCall : get'[g].status = 200 => get'[g].dataset = Primary
  BY OnlyPrimaryServed
<1>2. ASSUME NEW s \in StartCall, OnlyStart(s), start'[s].pc # "seed", graph' = graph
      PROVE  OnlyPrimary'
  BY <1>1, <1>2 DEF OnlyPrimary, OnlyStart
<1>3. ASSUME NEW s \in StartCall, NEW f \in Flow, NEW d \in Dataset,
             StartDispatch(s, f, d)
      PROVE  OnlyPrimary'
  BY <1>t, <1>2, <1>3, StartDispatchEffect
<1>4. ASSUME NEW s \in StartCall, OnStartCheck(s) PROVE OnlyPrimary'
  BY <1>t, <1>2, <1>4, OnStartCheckEffect
<1>5. ASSUME NEW s \in StartCall, OnStartIssue(s) PROVE OnlyPrimary'
  BY <1>2, <1>5, OnStartIssueEffect
<1>6. ASSUME NEW s \in StartCall, StartCommit(s) \/ StartAbort(s) PROVE OnlyPrimary'
  <2>1. OnlyStart(s) /\ start'[s].pc # "seed" /\ graph' = graph
    BY <1>t, <1>6, StartMoves DEF StartCommit, StartAbort
  <2> QED
    BY <1>2, <2>1
<1>7. ASSUME graph' = graph, start' = start PROVE OnlyPrimary'
  BY <1>1, <1>7 DEF OnlyPrimary
<1>8. ASSUME NEW g \in GetCall, GetStep(g) PROVE OnlyPrimary'
  BY <1>t, <1>7, <1>8, GetStepFrame DEF NotGet
<1>9. CASE Restart
  <2>1. \A q \in graph' : q[1] = Primary
    BY <1>9 DEF Restart, SeededOffer, SeedTriple
  <2>2. \A s \in StartCall : start'[s].pc # "seed"
    BY <1>t, <1>9, RestartEffect DEF StartRunning
  <2> QED
    BY <1>1, <2>1, <2>2 DEF OnlyPrimary
<1>10. \A s \in StartCall : ~OnStartSeed(s) /\ ~OnStartSeedFails(s)
  BY DEF OnlyPrimary, OnStartSeed, OnStartSeedFails
<1> QED
  BY <1>3, <1>4, <1>5, <1>6, <1>7, <1>8, <1>9, <1>10
     DEF Next, StartStep, TermStep, TermDispatch, OnTerminate, TermCommit, TermAbort,
         SdkComplete, GetSend, Tick, vars

(* In normal mode get_file keeps the promise of its doc comment.           *)
THEOREM DeadlineHolds ==
  ASSUME ~TckMode
  PROVE  Spec => []DeadlineEnforced
<1>1. Spec => []TypeInv
  BY TypeInit, TypeStep, PTL DEF Spec
<1>2. TypeInv /\ OfferInv /\ OnlyPrimary /\ [Next]_vars => OnlyPrimary'
  BY OnlyPrimaryStep
<1>3. Spec => []OnlyPrimary
  BY <1>1, <1>2, OfferInvHolds, OnlyPrimaryInit, PTL DEF Spec
<1>4. PrimaryDeadlineEnforced /\ OnlyPrimary => DeadlineEnforced
  BY DEF PrimaryDeadlineEnforced, OnlyPrimary, DeadlineEnforced
<1> QED
  BY <1>3, <1>4, PrimaryDeadlineHolds, PTL

-----------------------------------------------------------------------------
(***************************************************************************)
(* DataPlane implements AccessControl: every step is a step of the         *)
(* abstract specification or changes nothing it can see.                   *)
(*                                                                         *)
(* The argument: a request is authorised at its lookup.  The policy is     *)
(* evaluated later, for the configured offer, and time does not go back,   *)
(* so a request that is let through was looked up before the deadline      *)
(* (Timely) and has been "authorised" since then when it is served.        *)
(*                                                                         *)
(* In TCK mode with a deadline this is false: a dataset that is seeded     *)
(* while it is read can be served after the deadline.                      *)
(***************************************************************************)

DeadlineIsSafe == ~TckMode \/ NotAfter = NoDeadline

Timely(g) ==
  /\ get[g].pc \in GetChecked => get[g].lookedUpAt <= now
  /\ get[g].pc \in {"filePath", "mediaType", "read"} =>
       ~DeadlinePassed(get[g].lookedUpAt)

AllTimely == \A g \in GetCall : Timely(g)

(* What the proof of a step may use.                                       *)
Invariants ==
  /\ TypeInv /\ RevocationInv /\ OfferInv /\ DeadlineInv
  /\ ~TckMode => OnlyPrimary

-----------------------------------------------------------------------------
(* Timely is invariant.                                                    *)

LEMMA AllowedInTime ==
  ASSUME DeadlineIsSafe, Invariants, NEW g \in GetCall, Timely(g), GetEvaluate(g),
         get'[g].pc = "filePath"
  PROVE  ~DeadlinePassed(get'[g].lookedUpAt)
<1>t. TypeOK
  BY DEF Invariants, TypeInv
<1>1. /\ get[g].pc = "evaluate" /\ SameRequest(g)
      /\ get'[g].lookedUpAt = get[g].lookedUpAt /\ get'[g].evaluatedAt = now
  BY <1>t, GetEvaluateEffect DEF Refused
<1>2. get[g].lookedUpAt \in Nat /\ now \in Nat /\ get[g].lookedUpAt <= now
  BY <1>t, <1>1 DEF TypeOK, GetRecord, Timely, GetChecked
<1>3. CASE NotAfter = NoDeadline
  BY <1>3 DEF DeadlinePassed
<1>4. CASE NotAfter # NoDeadline
  <2>1. get[g].dataset = Primary
    BY <1>1, <1>4, CheckedIsPrimary DEF DeadlineIsSafe, Invariants, GetChecked
  <2>2. Punctual(g)'
    BY PunctualGetStep DEF Invariants, GetStep
  <2>3. ~DeadlinePassed(now)
    BY <1>1, <1>4, <2>1, <2>2 DEF Punctual, SameRequest
  <2> QED
    BY <1>1, <1>2, <1>4, <2>3, ConstantsAssumption DEF DeadlinePassed
<1> QED
  BY <1>3, <1>4

LEMMA TimelyGetStep ==
  ASSUME DeadlineIsSafe, Invariants, NEW g \in GetCall, Timely(g), GetStep(g)
  PROVE  Timely(g)'
<1>t. TypeOK
  BY DEF Invariants, TypeInv
<1>1. now' = now /\ now \in Nat
  BY <1>t, GetStepFrame DEF NotGet, TypeOK
<1>2. ASSUME get'[g].pc = "answered" PROVE Timely(g)'
  BY <1>2 DEF Timely, GetChecked
<1>3. CASE GetLookup(g)
  <2>1. CASE LookedUp(g)
    BY <1>1, <2>1 DEF LookedUp, Timely
  <2> QED
    BY <1>t, <1>2, <1>3, <2>1, GetLookupEffect DEF Refused
<1>4. CASE GetPolicyHeader(g)
  BY <1>t, <1>1, <1>2, <1>4, GetPolicyHeaderEffect DEF Refused, Timely, GetChecked
<1>5. CASE GetPolicyRows(g)
  BY <1>t, <1>1, <1>5, GetPolicyRowsEffect DEF Timely, GetChecked
<1>6. CASE GetEvaluate(g)
  <2>1. CASE get'[g].pc = "filePath"
    <3>1. get[g].pc = "evaluate" /\ get'[g].lookedUpAt = get[g].lookedUpAt
      BY <1>t, <1>6, <2>1, GetEvaluateEffect DEF Refused
    <3>2. ~DeadlinePassed(get'[g].lookedUpAt)
      BY <1>6, <2>1, AllowedInTime
    <3> QED
      BY <1>1, <2>1, <3>1, <3>2 DEF Timely, GetChecked
  <2> QED
    BY <1>t, <1>2, <1>6, <2>1, GetEvaluateEffect DEF Refused
<1>7. CASE GetFilePath(g)
  BY <1>t, <1>1, <1>2, <1>7, GetFilePathEffect DEF Refused, Timely, GetChecked
<1>8. CASE GetMediaType(g)
  BY <1>t, <1>1, <1>8, GetMediaTypeEffect DEF Timely, GetChecked
<1>9. CASE GetReadFile(g)
  BY <1>t, <1>2, <1>9, GetReadFileEffect DEF Refused
<1> QED
  BY <1>3, <1>4, <1>5, <1>6, <1>7, <1>8, <1>9 DEF GetStep

(* Time does not go back.                                                  *)
LEMMA TimeGoesOn ==
  ASSUME TypeOK, [Next]_vars
  PROVE  now' \in Nat /\ now <= now'
<1> USE DEF stores, history
<1>1. CASE Tick
  BY <1>1 DEF Tick, TypeOK
<1>2. ASSUME NEW g \in GetCall, GetStep(g) PROVE now' = now
  BY <1>2, GetStepFrame DEF NotGet
<1>3. CASE now' = now
  BY <1>3 DEF TypeOK
<1> QED
  BY <1>1, <1>2, <1>3
     DEF Next, StartStep, StartDispatch, OnStartCheck, OnStartSeed, OnStartSeedFails,
         OnStartIssue, StartCommit, StartAbort, TermStep, TermDispatch, OnTerminate,
         TermCommit, TermAbort, SdkComplete, GetSend, Restart, vars

LEMMA TimelyStep ==
  ASSUME DeadlineIsSafe, Invariants, AllTimely, [Next]_vars
  PROVE  AllTimely'
<1>t. TypeOK
  BY DEF Invariants, TypeInv
<1>1. now \in Nat /\ now' \in Nat /\ now <= now'
  BY <1>t, TimeGoesOn DEF TypeOK
<1>2. ASSUME NEW g \in GetCall PROVE Timely(g)'
  <2>1. CASE Restart
    <3>1. get'[g].pc \notin GetChecked
      BY <1>t, <2>1, RestartEffect DEF GetRunning, GetChecked
    <3> QED
      BY <3>1 DEF Timely, GetChecked
  <2>2. CASE get'[g] = get[g]
    <3>1. get[g].lookedUpAt \in Nat
      BY <1>t DEF TypeOK, GetRecord
    <3> QED
      BY <1>1, <2>2, <3>1 DEF Timely, AllTimely
  <2>3. ASSUME NEW c \in GetCall, GetStep(c) PROVE Timely(g)'
    <3>1. CASE c = g
      BY <2>3, <3>1, TimelyGetStep DEF AllTimely
    <3>2. CASE c # g
      BY <1>t, <2>2, <2>3, <3>2, GetStepFrame DEF OnlyGet
    <3> QED
      BY <3>1, <3>2
  <2>4. ASSUME NEW c \in GetCall, NEW t \in disclosed \cup {None},
               NEW d \in Dataset, GetSend(c, t, d)
        PROVE  Timely(g)'
    <3>1. OnlyGet(c) /\ get'[c] = Request("lookup", t, d, t \in dead)
      BY <1>t, <2>4, GetSendEffect
    <3>2. get'[c].pc = "lookup"
      BY <3>1 DEF Request
    <3>3. CASE c = g
      BY <3>2, <3>3 DEF Timely, GetChecked
    <3> QED
      BY <2>2, <3>1, <3>3 DEF OnlyGet
  <2> QED
    BY <2>1, <2>2, <2>3, <2>4, GraphGrows DEF Invariants
<1> QED
  BY <1>2 DEF AllTimely

-----------------------------------------------------------------------------
(* Requests as AccessControl sees them.                                    *)

LEMMA RequestsSame ==
  ASSUME get' = get
  PROVE  Requests' = Requests
BY DEF Requests, Phase

(* A function that differs in one entry, and in one entry's phase.         *)
LEMMA EntryChanges ==
  ASSUME NEW S, NEW a, NEW b, NEW c \in S, NEW r,
         a = [x \in S |-> a[x]], b = [x \in S |-> b[x]],
         b[c] = r, \A x \in S : x # c => b[x] = a[x]
  PROVE  b = [a EXCEPT ![c] = r]
OBVIOUS

LEMMA PhaseMove ==
  ASSUME NEW S, NEW a, NEW b, NEW c \in S, NEW p,
         a = [x \in S |-> a[x]], b = [x \in S |-> b[x]],
         b[c] = [a[c] EXCEPT !.phase = p],
         \A x \in S : x # c => b[x] = a[x]
  PROVE  b = [a EXCEPT ![c].phase = p]
<1> DEFINE r == [a[c] EXCEPT !.phase = p]
<1>1. [a EXCEPT ![c].phase = p] = [a EXCEPT ![c] = r]
  OBVIOUS
<1>2. b[c] = r
  OBVIOUS
<1> HIDE DEF r
<1>3. b = [a EXCEPT ![c] = r]
  BY <1>2
<1> QED
  BY <1>1, <1>3

LEMMA RequestMoves ==
  ASSUME NEW g \in GetCall, OnlyGet(g), SameRequest(g), NEW p, Phase(g)' = p
  PROVE  Requests' = [Requests EXCEPT ![g].phase = p]
<1>1. Requests = [x \in GetCall |-> Requests[x]] /\ Requests' = [x \in GetCall |-> Requests'[x]]
  BY DEF Requests
<1>2. Requests'[g] = [Requests[g] EXCEPT !.phase = p]
  BY DEF Requests, SameRequest
<1>3. \A x \in GetCall : x # g => Requests'[x] = Requests[x]
  BY DEF Requests, OnlyGet, Phase
<1> QED
  BY <1>1, <1>2, <1>3, PhaseMove

LEMMA RequestStays ==
  ASSUME NEW g \in GetCall, OnlyGet(g), SameRequest(g), Phase(g)' = Phase(g)
  PROVE  Requests' = Requests
BY DEF Requests, SameRequest, OnlyGet, Phase

LEMMA OpenPhases ==
  ASSUME NEW g \in GetCall
  PROVE  /\ Requests[g].phase = Phase(g) /\ Requests[g].token = get[g].token
         /\ Requests[g].dataset = get[g].dataset
         /\ AC!Open(g) <=> get[g].pc \in GetRunning
BY DEF Requests, AC!Open, Phase, GetRunning, GetChecked

-----------------------------------------------------------------------------
(* The steps of get_file.                                                  *)

LEMMA RefusedRefines ==
  ASSUME NEW g \in GetCall, OnlyGet(g), SameRequest(g), UNCHANGED NotGet,
         get[g].pc \in GetRunning, Refused(g, {401, 403, 404, 500})
  PROVE  AC!Next
<1>1. Phase(g)' = "refused"
  BY DEF Refused, Phase, GetChecked
<1>2. Requests' = [Requests EXCEPT ![g].phase = "refused"]
  BY <1>1, RequestMoves
<1>3. AC!Refuse(g)
  BY <1>2, OpenPhases DEF AC!Refuse, AC!Move, NotGet, stores, history
<1> QED
  BY <1>3 DEF AC!Next

LEMMA LookupRefines ==
  ASSUME TypeOK, NEW g \in GetCall, GetLookup(g)
  PROVE  AC!Next \/ UNCHANGED AC!acvars
<1>1. /\ OnlyGet(g) /\ SameRequest(g) /\ get[g].pc = "lookup" /\ UNCHANGED NotGet
      /\ LookedUp(g) \/ Refused(g, {401, 403})
  BY GetLookupEffect
<1>2. CASE Refused(g, {401, 403})
  BY <1>1, <1>2, RefusedRefines DEF Refused, GetRunning
<1>3. CASE LookedUp(g) /\ DeadlinePassed(now)
  <2>1. Phase(g) = "pending"
    BY <1>1 DEF Phase, GetChecked
  <2>2. Phase(g)' = "pending"
    BY <1>3 DEF Phase, LookedUp, GetChecked, DeadlinePassed
  <2>3. Requests' = Requests
    BY <1>1, <2>1, <2>2, RequestStays
  <2> QED
    BY <1>1, <2>3 DEF AC!acvars, NotGet, stores, history
<1>4. CASE LookedUp(g) /\ ~DeadlinePassed(now)
  <2>1. Phase(g) = "pending"
    BY <1>1 DEF Phase, GetChecked
  <2>2. Phase(g)' = "authorised"
    BY <1>4 DEF Phase, LookedUp, GetChecked, DeadlinePassed
  <2>3. Requests' = [Requests EXCEPT ![g].phase = "authorised"]
    BY <1>1, <2>2, RequestMoves
  <2>4. AC!MayRead(g) /\ ~AC!Expired
    BY <1>4, OpenPhases DEF AC!MayRead, AC!Expired, LookedUp, DeadlinePassed
  <2>5. AC!Authorise(g)
    BY <1>1, <2>1, <2>3, <2>4, OpenPhases DEF AC!Authorise, AC!Move, NotGet, stores, history
  <2> QED
    BY <2>5 DEF AC!Next
<1> QED
  BY <1>1, <1>2, <1>3, <1>4

(* The steps between the lookup and the answer.                            *)
LEMMA OnwardRefines ==
  ASSUME NEW g \in GetCall, OnlyGet(g), SameRequest(g), UNCHANGED NotGet,
         get[g].pc \in GetChecked, get'[g].pc \in GetChecked,
         get'[g].lookedUpAt = get[g].lookedUpAt
  PROVE  UNCHANGED AC!acvars
<1>1. Phase(g)' = Phase(g)
  BY DEF Phase, GetChecked, DeadlinePassed
<1>2. Requests' = Requests
  BY <1>1, RequestStays
<1> QED
  BY <1>2 DEF AC!acvars, NotGet, stores, history

LEMMA ReadRefines ==
  ASSUME TypeOK, NEW g \in GetCall, Timely(g), GetReadFile(g)
  PROVE  AC!Next
<1>1. /\ OnlyGet(g) /\ SameRequest(g) /\ get[g].pc = "read" /\ UNCHANGED NotGet
      /\ Refused(g, {200, 500})
  BY GetReadFileEffect
<1>2. CASE get'[g].status = 500
  BY <1>1, <1>2, RefusedRefines DEF Refused, GetRunning, GetChecked
<1>3. CASE get'[g].status = 200
  <2>1. Phase(g) = "authorised"
    BY <1>1 DEF Phase, Timely, GetChecked
  <2>2. Phase(g)' = "served"
    BY <1>1, <1>3 DEF Phase, Refused, GetChecked
  <2>3. Requests' = [Requests EXCEPT ![g].phase = "served"]
    BY <1>1, <2>2, RequestMoves
  <2>4. AC!Serve(g)
    BY <1>1, <2>1, <2>3, OpenPhases DEF AC!Serve, AC!Move, NotGet, stores, history
  <2> QED
    BY <2>4 DEF AC!Next
<1> QED
  BY <1>1, <1>2, <1>3 DEF Refused

LEMMA GetStepRefines ==
  ASSUME TypeOK, NEW g \in GetCall, Timely(g), GetStep(g)
  PROVE  AC!Next \/ UNCHANGED AC!acvars
<1>1. CASE GetLookup(g)
  BY <1>1, LookupRefines
<1>2. CASE GetPolicyHeader(g)
  BY <1>2, GetPolicyHeaderEffect, RefusedRefines, OnwardRefines
     DEF Refused, GetRunning, GetChecked
<1>3. CASE GetPolicyRows(g)
  BY <1>3, GetPolicyRowsEffect, OnwardRefines DEF GetChecked
<1>4. CASE GetEvaluate(g)
  BY <1>4, GetEvaluateEffect, RefusedRefines, OnwardRefines
     DEF Refused, GetRunning, GetChecked
<1>5. CASE GetFilePath(g)
  BY <1>5, GetFilePathEffect, RefusedRefines, OnwardRefines
     DEF Refused, GetRunning, GetChecked
<1>6. CASE GetMediaType(g)
  BY <1>6, GetMediaTypeEffect, OnwardRefines DEF GetChecked
<1>7. CASE GetReadFile(g)
  BY <1>7, ReadRefines
<1> QED
  BY <1>1, <1>2, <1>3, <1>4, <1>5, <1>6, <1>7 DEF GetStep

LEMMA SendRefines ==
  ASSUME TypeOK, NEW g \in GetCall, NEW t \in disclosed \cup {None},
         NEW d \in Dataset, GetSend(g, t, d)
  PROVE  AC!Next
<1>1. OnlyGet(g) /\ get'[g] = Request("lookup", t, d, t \in dead) /\ UNCHANGED NotGet
  BY GetSendEffect
<1>2. /\ get'[g].pc = "lookup" /\ get'[g].token = t /\ get'[g].dataset = d
      /\ t \in Token \cup {None}
  BY <1>1 DEF Request, TypeOK
<1>3. ~AC!Open(g)
  BY OpenPhases DEF GetSend
<1>4. Phase(g)' = "pending"
  BY <1>2 DEF Phase, GetChecked
<1>5. Requests' = [Requests EXCEPT ![g] = [phase |-> "pending", token |-> t,
                                           dataset |-> d]]
  <2> DEFINE r == [phase |-> "pending", token |-> t, dataset |-> d]
  <2>1. Requests = [x \in GetCall |-> Requests[x]] /\ Requests' = [x \in GetCall |-> Requests'[x]]
    BY DEF Requests
  <2>2. Requests'[g] = [phase |-> Phase(g)', token |-> get'[g].token,
                        dataset |-> get'[g].dataset]
    BY DEF Requests
  <2>3. Requests'[g] = r
    BY <1>2, <1>4, <2>2
  <2>4. \A x \in GetCall : x # g => Requests'[x] = Requests[x]
    BY <1>1 DEF Requests, OnlyGet, Phase
  <2> HIDE DEF r
  <2>5. Requests' = [Requests EXCEPT ![g] = r]
    BY <2>1, <2>3, <2>4, EntryChanges
  <2> QED
    BY <2>5 DEF r
<1>6. AC!Send(g, t, d)
  BY <1>1, <1>3, <1>5 DEF AC!Send, NotGet, stores, history
<1> QED
  BY <1>2, <1>6 DEF AC!Next

-----------------------------------------------------------------------------
(* The other steps that AccessControl sees.                                *)

LEMMA RestartRefines ==
  ASSUME TypeOK, Restart
  PROVE  AC!Next
<1>1. \A g \in GetCall :
        /\ SameRequest(g) /\ get'[g].status = get[g].status
        /\ get'[g].pc = IF get[g].pc \in GetRunning THEN "lost" ELSE get[g].pc
  BY RestartEffect
<1>2. ASSUME NEW g \in GetCall
      PROVE  Requests'[g] = IF AC!Open(g) THEN [Requests[g] EXCEPT !.phase = "refused"]
                                          ELSE Requests[g]
  <2>1. Requests'[g] = [phase |-> Phase(g)', token |-> get[g].token,
                        dataset |-> get[g].dataset]
    BY <1>1 DEF Requests, SameRequest
  <2>2. Requests[g] = [phase |-> Phase(g), token |-> get[g].token,
                       dataset |-> get[g].dataset]
    BY DEF Requests
  <2>3. CASE get[g].pc \in GetRunning
    <3>1. Phase(g)' = "refused"
      BY <1>1, <2>3 DEF Phase, GetChecked
    <3> QED
      BY <2>1, <2>2, <2>3, <3>1, OpenPhases
  <2>4. CASE get[g].pc \notin GetRunning
    <3>1. Phase(g)' = Phase(g)
      BY <1>1, <2>4 DEF Phase, GetRunning
    <3> QED
      BY <2>1, <2>2, <2>4, <3>1, OpenPhases
  <2> QED
    BY <2>3, <2>4
<1>3. Requests' = [g \in GetCall |->
                     IF AC!Open(g) THEN [Requests[g] EXCEPT !.phase = "refused"]
                                   ELSE Requests[g]]
  BY <1>2 DEF Requests
<1>4. AC!Reset
  BY <1>3 DEF AC!Reset, Restart
<1> QED
  BY <1>4 DEF AC!Next

LEMMA IssueRefines ==
  ASSUME Invariants, NEW s \in StartCall, OnStartIssue(s)
  PROVE  AC!Next
<1>1. PICK t \in Token \ issued :
        /\ start[s].pc = "issue"
        /\ tokens' = {e \in tokens : e.token # t}
                       \cup {Entry(t, start[s].flow, start[s].dataset)}
        /\ issued' = issued \cup {t}
        /\ get' = get /\ now' = now
  BY OnStartIssueEffect DEF Invariants
<1>2. PICK f \in Flow, d \in Dataset : f = start[s].flow /\ d = start[s].dataset
  BY <1>1 DEF Invariants, TypeInv, CallsFilledIn, StartRunning
<1>3. {e \in tokens : e.token # t} = tokens
  BY DEF Invariants, RevocationInv, StoreInv, StoredTokensIssued
<1>4. d \in Offerable
  <2>1. <<d, "filePath", Iri>> \in graph
    BY <1>1, <1>2 DEF Invariants, OfferInv, GraphInv, TokenHasFilePath, HasFilePath
  <2>2. ASSUME ~TckMode PROVE d = Primary
    <3>1. <<d, "filePath", Iri>>[1] = Primary
      BY <2>1, <2>2 DEF Invariants, OnlyPrimary
    <3> QED
      BY <3>1
  <2> QED
    BY <2>2, ConstantsAssumption DEF Offerable
<1>5. AC!Grant(t, f, d)
  BY <1>1, <1>2, <1>3, RequestsSame DEF AC!Grant, AC!Granting, Entry
<1> QED
  BY <1>4, <1>5 DEF AC!Next

LEMMA TerminateRefines ==
  ASSUME TypeInv, NEW x \in TermCall, OnTerminate(x)
  PROVE  AC!Next
<1>1. term[x].flow \in Flow
  BY DEF TypeInv, CallsFilledIn, OnTerminate, TermRunning
<1>2. AC!Revoke(term[x].flow)
  BY RequestsSame DEF AC!Revoke, OnTerminate, RevokeFlow, history
<1> QED
  BY <1>1, <1>2 DEF AC!Next

LEMMA TickRefines ==
  ASSUME Tick
  PROVE  AC!Next
<1>1. AC!Advance
  BY RequestsSame DEF AC!Advance, Tick, stores, history
<1> QED
  BY <1>1 DEF AC!Next

-----------------------------------------------------------------------------
LEMMA StepRefines ==
  ASSUME Invariants, AllTimely, [Next]_vars
  PROVE  [AC!Next]_AC!acvars
<1> USE DEF stores, history
<1>t. TypeInv /\ TypeOK
  BY DEF Invariants, TypeInv
<1>1. ASSUME UNCHANGED <<tokens, issued, now, get>> PROVE UNCHANGED AC!acvars
  BY <1>1, RequestsSame DEF AC!acvars
<1>2. ASSUME NEW s \in StartCall, StartStep(s) PROVE [AC!Next]_AC!acvars
  BY <1>1, <1>2, IssueRefines
     DEF StartStep, OnStartCheck, OnStartSeed, OnStartSeedFails, StartCommit, StartAbort
<1>3. ASSUME NEW s \in StartCall, NEW f \in Flow, NEW d \in Dataset,
             StartDispatch(s, f, d)
      PROVE  [AC!Next]_AC!acvars
  BY <1>1, <1>3 DEF StartDispatch
<1>4. ASSUME NEW x \in TermCall, TermStep(x) PROVE [AC!Next]_AC!acvars
  BY <1>t, <1>1, <1>4, TerminateRefines DEF TermStep, TermCommit, TermAbort
<1>5. ASSUME NEW x \in TermCall, NEW f \in Flow, TermDispatch(x, f)
      PROVE  [AC!Next]_AC!acvars
  BY <1>1, <1>5 DEF TermDispatch
<1>6. ASSUME NEW f \in Flow, SdkComplete(f) PROVE [AC!Next]_AC!acvars
  BY <1>1, <1>6 DEF SdkComplete
<1>7. ASSUME NEW g \in GetCall, GetStep(g) PROVE [AC!Next]_AC!acvars
  BY <1>t, <1>7, GetStepRefines DEF AllTimely
<1>8. ASSUME NEW g \in GetCall, NEW t \in disclosed \cup {None}, NEW d \in Dataset,
             GetSend(g, t, d)
      PROVE  [AC!Next]_AC!acvars
  BY <1>t, <1>8, SendRefines
<1>9. CASE UNCHANGED vars
  BY <1>1, <1>9 DEF vars
<1> QED
  BY <1>t, <1>2, <1>3, <1>4, <1>5, <1>6, <1>7, <1>8, <1>9, TickRefines, RestartRefines
     DEF Next

LEMMA InitRefines == Init => AC!Init /\ AllTimely
<1> SUFFICES ASSUME Init PROVE AC!Init /\ AllTimely
  OBVIOUS
<1>1. ASSUME NEW g \in GetCall
      PROVE  get[g].pc = "idle" /\ get[g].token = None /\ get[g].dataset = None
  BY DEF Init, Blank, Request
<1>2. Requests = [g \in GetCall |-> [phase |-> "idle", token |-> None, dataset |-> None]]
  <2>1. \A g \in GetCall : Phase(g) = "idle"
    BY <1>1 DEF Phase, GetChecked
  <2> QED
    BY <1>1, <2>1 DEF Requests
<1>3. AllTimely
  BY <1>1 DEF AllTimely, Timely, GetChecked
<1> QED
  BY <1>2, <1>3 DEF Init, AC!Init

(* Whatever the order in which its calls touch the stores, the data plane  *)
(* serves a request only if at one instant its token was live for the      *)
(* dataset it names and the deadline had not passed: in normal mode, and   *)
(* in TCK mode if the offers have no deadline.                             *)
THEOREM DataPlaneImplementsAccessControl ==
  ASSUME DeadlineIsSafe
  PROVE  Spec => RefinesAccessControl
<1>1. Spec => []TypeInv
  BY TypeInit, TypeStep, PTL DEF Spec
<1>2. Spec => [](~TckMode => OnlyPrimary)
  <2>1. Init => (~TckMode => OnlyPrimary)
    BY OnlyPrimaryInit
  <2>2. TypeInv /\ OfferInv /\ (~TckMode => OnlyPrimary) /\ [Next]_vars
          => (~TckMode => OnlyPrimary)'
    BY OnlyPrimaryStep
  <2> QED
    BY <1>1, <2>1, <2>2, OfferInvHolds, PTL DEF Spec
<1>3. Spec => []Invariants
  <2>1. TypeInv /\ RevocationInv /\ OfferInv /\ DeadlineInv /\ (~TckMode => OnlyPrimary)
          => Invariants
    BY DEF Invariants
  <2> QED
    BY <1>1, <1>2, <2>1, RevocationHolds, OfferInvHolds, DeadlineInvHolds, PTL
<1>4. Invariants /\ AllTimely /\ [Next]_vars => AllTimely' /\ [AC!Next]_AC!acvars
  BY TimelyStep, StepRefines
<1> QED
  BY <1>3, <1>4, InitRefines, PTL DEF Spec, RefinesAccessControl, AC!Spec
=============================================================================
