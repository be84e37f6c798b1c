------------------------------ MODULE DataPlane ------------------------------
(***************************************************************************)
(* The running data plane: concurrent START and TERMINATE calls delivered  *)
(* to FileOfferHandler (dataplane/src/handler.rs) by the signaling SDK,    *)
(* concurrent GET /public/{dataset_id} requests (dataplane/src/public.rs), *)
(* and the two stores they share behind Arc: the token store and the       *)
(* configuration graph.  A call is a record that moves from one access to  *)
(* shared state to the next; any other call may run in between.            *)
(*                                                                         *)
(* The SDK (dataplane-sdk 0.1.2), the ODRL engine and the file system are  *)
(* external: they are as free as the code that calls them leaves them.  In *)
(* particular the SDK may run the hooks of one flow side by side, start a  *)
(* flow again, and fail after a hook has returned.                         *)
(***************************************************************************)
EXTENDS Naturals, TokenStore

CONSTANTS
  Flow, Dataset, Token,   \* flow ids, dataset ids, the UUIDs issue can draw
  StartCall, TermCall,    \* START and TERMINATE calls, each made at most once
  GetCall,        \* GET clients, each with one request at a time
  Primary,        \* Config.dataset_id, seeded by build
  TckMode,        \* Config.tck_mode
  StoreCanFail,   \* may inserting into the graph fail half-way?
  NotAfter, NoDeadline,           \* see OfferGraph
  None,           \* no flow, no dataset, no token
  MaxTime,        \* bound: last reading of the clock
  MaxRestarts     \* bound: restarts of the process

INSTANCE OfferGraph

ASSUME ConstantsAssumption ==
  /\ Primary \in Dataset
  /\ TckMode \in BOOLEAN
  /\ StoreCanFail \in BOOLEAN
  /\ None \notin Flow \cup Dataset \cup Token \cup Nat
  /\ MaxTime \in Nat
  /\ MaxRestarts \in Nat
  /\ NotAfter # NoDeadline => NotAfter \in Nat

VARIABLES
  tokens,      \* TokenStore.tokens, a set of entries
  graph,       \* the ConfigGraph, a set of triples
  flows,       \* the SDK's data-flow repository: each flow's state
  start,       \* START calls
  term,        \* TERMINATE calls
  get,         \* GET clients, each with its latest request
  now,         \* the wall clock
  restarts,    \* restarts so far
  issued,      \* history: every token ever drawn (UUIDs do not repeat)
  disclosed,   \* history: the tokens a START answer carried
  dead         \* history: disclosed tokens whose holders must be refused:
               \* their flow's TERMINATE is acknowledged, or the process
               \* that issued them is gone

stores == <<tokens, graph, flows>>
history == <<issued, disclosed, dead>>
vars == <<stores, start, term, get, now, restarts, history>>

-----------------------------------------------------------------------------
(* Calls.  The pc names the access to shared state that comes next.        *)

StartRunning == {"check", "seed", "issue", "commit"}
TermRunning  == {"revoke", "commit"}
GetChecked   == {"header", "rows", "evaluate", "filePath", "mediaType", "read"}
GetRunning   == {"lookup"} \cup GetChecked

Media  == {"configured", "octet-stream"}
Status == {200, 401, 403, 404, 500}

StartRecord ==
  [pc : {"idle", "started", "failed", "lost"} \cup StartRunning,
   flow : Flow \cup {None}, dataset : Dataset \cup {None},
   seeded : 0..SeedSteps,        \* quads of its own seeding inserted
   token : Token \cup {None}]

TermRecord ==
  [pc : {"idle", "terminated", "failed", "lost"} \cup TermRunning,
   flow : Flow \cup {None},
   ended : SUBSET StartCall]   \* history: its flow's STARTs that had ended
                               \* when it was accepted

GetRecord ==
  [pc : {"idle", "answered", "lost"} \cup GetRunning,   \* lost: by a restart
   token : Token \cup {None},    \* None: a string that is no issued token
   dataset : Dataset \cup {None},
   rows : SUBSET BOOLEAN,        \* the permissions it read
   media : Media \cup {None},
   status : Status \cup {None},
   lookedUpAt : Nat,             \* history: when its token was found
   evaluatedAt : Nat,            \* history: its dateTime claim
   late : BOOLEAN]               \* history: sent with a dead token

(* A request as it is sent; Blank stands for none yet.                     *)
Request(pc, t, d, isLate) ==
  [pc |-> pc, token |-> t, dataset |-> d, rows |-> {}, media |-> None,
   status |-> None, lookedUpAt |-> 0, evaluatedAt |-> 0, late |-> isLate]

Blank == Request("idle", None, None, FALSE)

Init ==
  /\ tokens = {}
  /\ graph = SeededOffer(Primary, "build")
  /\ flows = [f \in Flow |-> "unknown"]
  /\ start = [s \in StartCall |-> [pc |-> "idle", flow |-> None,
                 dataset |-> None, seeded |-> 0, token |-> None]]
  /\ term = [x \in TermCall |-> [pc |-> "idle", flow |-> None, ended |-> {}]]
  /\ get = [g \in GetCall |-> Blank]
  /\ now = 0
  /\ restarts = 0
  /\ issued = {} /\ disclosed = {} /\ dead = {}

-----------------------------------------------------------------------------
(* START.                                                                  *)

HookRunning(f) ==
  \/ \E s \in StartCall : start[s].pc \in StartRunning /\ start[s].flow = f
  \/ \E x \in TermCall : term[x].pc \in TermRunning /\ term[x].flow = f

(* The SDK accepts a START message for flow f, which may be a duplicate or *)
(* a late copy, and calls on_start.                                        *)
StartDispatch(s, f, d) ==
  /\ start[s].pc = "idle"
  /\ start' = [start EXCEPT ![s] =
                 [@ EXCEPT !.pc = "check", !.flow = f, !.dataset = d]]
  /\ UNCHANGED <<stores, term, get, now, restarts, history>>

(* on_start without the fail-fast check.                                   *)
OnStartUnchecked(s) ==
  /\ start[s].pc = "check"
  /\ start' = [start EXCEPT ![s].pc = "issue"]
  /\ UNCHANGED <<stores, term, get, now, restarts, history>>

(* on_start with TCK mode asked about before the graph.                    *)
OnStartCheckTckFirst(s) ==
  /\ start[s].pc = "check"
  /\ start' = [start EXCEPT ![s].pc = IF TckMode THEN "seed" ELSE
                 IF HasFilePath(graph, start[s].dataset) THEN "issue" ELSE "failed"]
  /\ UNCHANGED <<stores, term, get, now, restarts, history>>

(* The file_path query at the top of on_start: a dataset the graph does    *)
(* not know is refused, or seeded in TCK mode.                             *)
OnStartCheck(s) ==
  /\ start[s].pc = "check"
  /\ \/ /\ HasFilePath(graph, start[s].dataset)
        /\ start' = [start EXCEPT ![s].pc = "issue"]
     \/ /\ ~HasFilePath(graph, start[s].dataset)
        /\ start' = [start EXCEPT ![s].pc = IF TckMode THEN "seed" ELSE "failed"]
  /\ UNCHANGED <<stores, term, get, now, restarts, history>>

(* Seeding loops that stop one quad late or early.                         *)
OnStartSeedLong(s) ==
  LET n == start[s].seeded + 1 IN
  /\ start[s].pc = "seed"
  /\ graph' = InsertFact(graph, start[s].dataset, s, n)
  /\ start' = [start EXCEPT ![s] =
                 [@ EXCEPT !.seeded = n,
                           !.pc = IF n > SeedSteps THEN "issue" ELSE "seed"]]
  /\ UNCHANGED <<tokens, flows, term, get, now, restarts, history>>

OnStartSeedShort(s) ==
  LET n == start[s].seeded + 1 IN
  /\ start[s].pc = "seed"
  /\ graph' = InsertFact(graph, start[s].dataset, s, n)
  /\ start' = [start EXCEPT ![s] =
                 [@ EXCEPT !.seeded = n,
                           !.pc = IF n + 1 = SeedSteps THEN "issue" ELSE "seed"]]
  /\ UNCHANGED <<tokens, flows, term, get, now, restarts, history>>

(* seed_offer's loop inserts the next quad a reader can tell.              *)
OnStartSeed(s) ==
  LET n == start[s].seeded + 1 IN
  /\ start[s].pc = "seed"
  /\ graph' = InsertFact(graph, start[s].dataset, s, n)
  /\ start' = [start EXCEPT ![s] =
                 [@ EXCEPT !.seeded = n,
                           !.pc = IF n = SeedSteps THEN "issue" ELSE "seed"]]
  /\ UNCHANGED <<tokens, flows, term, get, now, restarts, history>>

(* seed_offer fails and on_start answers NotSupported.  An invalid IRI     *)
(* fails before the first insert; if an insert fails, the quads inserted   *)
(* so far stay.                                                            *)
OnStartSeedFails(s) ==
  /\ start[s].pc = "seed"
  /\ start[s].seeded = 0 \/ StoreCanFail
  /\ start' = [start EXCEPT ![s].pc = "failed"]
  /\ UNCHANGED <<stores, term, get, now, restarts, history>>

(* The token is minted and on_start returns it in the DataAddress.         *)
OnStartIssue(s) ==
  /\ start[s].pc = "issue"
  /\ \E t \in Token \ issued :
       /\ tokens' = IssueToken(tokens, t, start[s].flow, start[s].dataset)
       /\ issued' = issued \cup {t}
       /\ start' = [start EXCEPT ![s] = [@ EXCEPT !.pc = "commit", !.token = t]]
  /\ UNCHANGED <<graph, flows, term, get, now, restarts, disclosed, dead>>

(* The SDK records the flow as STARTED and answers with the token.         *)
StartCommit(s) ==
  /\ start[s].pc = "commit"
  /\ flows' = [flows EXCEPT ![start[s].flow] = "started"]
  /\ disclosed' = disclosed \cup {start[s].token}
  /\ start' = [start EXCEPT ![s].pc = "started"]
  /\ UNCHANGED <<tokens, graph, term, get, now, restarts, issued, dead>>

(* The SDK fails after the hook, or the caller hangs up: no answer.  The   *)
(* hook ignored its transaction, so the token stays in the store.          *)
StartAbort(s) ==
  /\ start[s].pc = "commit"
  /\ start' = [start EXCEPT ![s].pc = "failed"]
  /\ UNCHANGED <<stores, term, get, now, restarts, history>>

-----------------------------------------------------------------------------
(* TERMINATE, and the SDK's COMPLETED notification.                        *)

SdkAdmitsTerm(f) == flows[f] # "unknown" \/ HookRunning(f)

StartEnded == {"started", "failed", "lost"}

EndedStarts(f) ==
  {s \in StartCall : start[s].flow = f /\ start[s].pc \in StartEnded}

(* The tokens that these STARTs were answered with.                        *)
Granted(starts) == {start[s].token : s \in {c \in starts : start[c].pc = "started"}}

TermDispatch(x, f) ==
  /\ term[x].pc = "idle"
  /\ SdkAdmitsTerm(f)
  /\ term' = [term EXCEPT ![x] = [pc |-> "revoke", flow |-> f,
                                  ended |-> EndedStarts(f)]]
  /\ UNCHANGED <<stores, start, get, now, restarts, history>>

(* A TERMINATE that revokes only while the flow is recorded as started.    *)
OnTerminateStartedOnly(x) ==
  /\ term[x].pc = "revoke"
  /\ tokens' = IF flows[term[x].flow] = "started"
               THEN RevokeFlow(tokens, term[x].flow) ELSE tokens
  /\ term' = [term EXCEPT ![x].pc = "commit"]
  /\ UNCHANGED <<graph, flows, start, get, now, restarts, history>>

(* A TERMINATE that revokes the tokens the flow's STARTs were answered with.*)
OnTerminateAnsweredOnly(x) ==
  /\ term[x].pc = "revoke"
  /\ tokens' = {e \in tokens : e.flow # term[x].flow \/ e.token \notin disclosed}
  /\ term' = [term EXCEPT ![x].pc = "commit"]
  /\ UNCHANGED <<graph, flows, start, get, now, restarts, history>>

(* on_terminate: one revoke_flow.                                          *)
OnTerminate(x) ==
  /\ term[x].pc = "revoke"
  /\ tokens' = RevokeFlow(tokens, term[x].flow)
  /\ term' = [term EXCEPT ![x].pc = "commit"]
  /\ UNCHANGED <<graph, flows, start, get, now, restarts, history>>

TermCommit(x) ==
  /\ term[x].pc = "commit"
  /\ flows' = [flows EXCEPT ![term[x].flow] = "terminated"]
  /\ dead' = dead \cup Granted(term[x].ended)
  /\ term' = [term EXCEPT ![x].pc = "terminated"]
  /\ UNCHANGED <<tokens, graph, start, get, now, restarts, issued, disclosed>>

TermAbort(x) ==
  /\ term[x].pc = "commit"
  /\ term' = [term EXCEPT ![x].pc = "failed"]
  /\ UNCHANGED <<stores, start, get, now, restarts, history>>

(* COMPLETED reaches no hook of the handler, so the flow's tokens live on. *)
SdkComplete(f) ==
  /\ flows[f] = "started"
  /\ flows' = [flows EXCEPT ![f] = "completed"]
  /\ UNCHANGED <<tokens, graph, start, term, get, now, restarts, history>>

-----------------------------------------------------------------------------
(* GET /public/{dataset_id}.                                               *)

Answer(g, code) ==
  /\ get' = [get EXCEPT ![g] = [@ EXCEPT !.pc = "answered", !.status = code]]
  /\ UNCHANGED <<stores, start, term, now, restarts, history>>

Continue(g, pc) ==
  /\ get' = [get EXCEPT ![g].pc = pc]
  /\ UNCHANGED <<stores, start, term, now, restarts, history>>

(* A client asks for d with a token it was given, or with some other       *)
(* string; it may ask again when the request before has ended.             *)
GetSend(g, t, d) ==
  /\ get[g].pc \notin GetRunning
  /\ get' = [get EXCEPT ![g] = Request("lookup", t, d, t \in dead)]
  /\ UNCHANGED <<stores, start, term, now, restarts, history>>

(* A lookup that does not compare the token's dataset with the path's.     *)
GetLookupAnyDataset(g) ==
  LET found == LookupToken(tokens, get[g].token) IN
  /\ get[g].pc = "lookup"
  /\ \/ found = {} /\ Answer(g, 401)
     \/ /\ found # {}
        /\ get' = [get EXCEPT ![g] = [@ EXCEPT !.pc = "header", !.lookedUpAt = now]]
        /\ UNCHANGED <<stores, start, term, now, restarts, history>>

(* The record is cloned out of the store: the lock is not held afterwards. *)
GetLookup(g) ==
  LET found == LookupToken(tokens, get[g].token) IN
  /\ get[g].pc = "lookup"
  /\ \/ found = {} /\ Answer(g, 401)
     \/ /\ \E e \in found : e.dataset # get[g].dataset
        /\ Answer(g, 403)
     \/ /\ \E e \in found : e.dataset = get[g].dataset
        /\ get' = [get EXCEPT ![g] = [@ EXCEPT !.pc = "header", !.lookedUpAt = now]]
        /\ UNCHANGED <<stores, start, term, now, restarts, history>>

(* A first query that waits for a policy instead of failing.               *)
GetPolicyHeaderWaits(g) ==
  /\ get[g].pc = "header"
  /\ HasPolicyHeader(graph, get[g].dataset)
  /\ Continue(g, "rows")

(* policy_jsonld, first query.                                             *)
GetPolicyHeader(g) ==
  /\ get[g].pc = "header"
  /\ \/ ~HasPolicyHeader(graph, get[g].dataset) /\ Answer(g, 500)
     \/ HasPolicyHeader(graph, get[g].dataset) /\ Continue(g, "rows")

(* policy_jsonld, second query.                                            *)
GetPolicyRows(g) ==
  /\ get[g].pc = "rows"
  /\ get' = [get EXCEPT ![g] =
               [@ EXCEPT !.pc = "evaluate",
                         !.rows = PermissionRows(graph, get[g].dataset)]]
  /\ UNCHANGED <<stores, start, term, now, restarts, history>>

(* The adapter ingests the document or fails; the engine evaluates it with *)
(* the clock's reading as the dateTime claim.                              *)
GetEvaluate(g) ==
  /\ get[g].pc = "evaluate"
  /\ \/ Answer(g, 500)
     \/ ~Allows(get[g].rows, now) /\ Answer(g, 403)
     \/ /\ Allows(get[g].rows, now)
        /\ get' = [get EXCEPT ![g] = [@ EXCEPT !.pc = "filePath", !.evaluatedAt = now]]
        /\ UNCHANGED <<stores, start, term, now, restarts, history>>

GetFilePath(g) ==
  /\ get[g].pc = "filePath"
  /\ \/ ~HasFilePath(graph, get[g].dataset) /\ Answer(g, 404)
     \/ HasFilePath(graph, get[g].dataset) /\ Continue(g, "mediaType")

GetMediaType(g) ==
  /\ get[g].pc = "mediaType"
  /\ get' = [get EXCEPT ![g] = [@ EXCEPT !.pc = "read",
       !.media = IF HasMediaType(graph, get[g].dataset) THEN "configured"
                                                        ELSE "octet-stream"]]
  /\ UNCHANGED <<stores, start, term, now, restarts, history>>

(* The awaited read of the file ends, either way.                          *)
GetReadFile(g) ==
  /\ get[g].pc = "read"
  /\ Answer(g, 200) \/ Answer(g, 500)

-----------------------------------------------------------------------------
(* The environment.                                                        *)

Tick ==
  /\ now < MaxTime
  /\ now' = now + 1
  /\ UNCHANGED <<stores, start, term, get, restarts, history>>

Lost(call, running) ==
  [c \in DOMAIN call |-> IF call[c].pc \in running
                         THEN [call[c] EXCEPT !.pc = "lost"] ELSE call[c]]

(* The process stops and main runs again: both stores and the SDK's        *)
(* repositories are in memory, and only build's offer is seeded anew.      *)
Restart ==
  /\ restarts < MaxRestarts
  /\ restarts' = restarts + 1
  /\ tokens' = {}
  /\ graph' = SeededOffer(Primary, "build")
  /\ flows' = [f \in Flow |-> "unknown"]
  /\ start' = Lost(start, StartRunning)
  /\ term' = Lost(term, TermRunning)
  /\ get' = Lost(get, GetRunning)
  /\ dead' = disclosed
  /\ UNCHANGED <<now, issued, disclosed>>

StartStep(s) ==
  \/ OnStartCheck(s) \/ OnStartSeed(s) \/ OnStartSeedFails(s)
  \/ OnStartIssue(s) \/ StartCommit(s) \/ StartAbort(s)

TermStep(x) == OnTerminate(x) \/ TermCommit(x) \/ TermAbort(x)

GetStep(g) ==
  \/ GetLookup(g) \/ GetPolicyHeader(g) \/ GetPolicyRows(g) \/ GetEvaluate(g)
  \/ GetFilePath(g) \/ GetMediaType(g) \/ GetReadFile(g)

Next ==
  \/ \E s \in StartCall :
       StartStep(s) \/ \E f \in Flow, d \in Dataset : StartDispatch(s, f, d)
  \/ \E x \in TermCall : TermStep(x) \/ \E f \in Flow : TermDispatch(x, f)
  \/ \E f \in Flow : SdkComplete(f)
  \/ \E g \in GetCall :
       \/ GetStep(g)
       \/ \E t \in disclosed \cup {None}, d \in Dataset : GetSend(g, t, d)
  \/ Tick
  \/ Restart

Spec == Init /\ [][Next]_vars

(* The runtime polls every accepted request to its end; nobody has to send *)
(* one.                                                                    *)
FairSpec == Spec /\ \A g \in GetCall : WF_vars(GetStep(g))

-----------------------------------------------------------------------------
(* Properties.                                                             *)

Fact == {"filePath", "mediaType", "policyHeader", "permission", "constraint"}

(* Every variable keeps its type: the store holds entries of issued        *)
(* tokens, a seeding never inserts more quads than its offer has, and an   *)
(* answer is one of the codes get_file returns.                            *)
TypeOK ==
  /\ tokens \subseteq [token : Token, flow : Flow, dataset : Dataset]
  /\ graph \subseteq Dataset \X Fact \X (StartCall \cup {Iri, "build"})
  /\ flows \in [Flow -> {"unknown", "started", "completed", "terminated"}]
  /\ start \in [StartCall -> StartRecord]
  /\ term \in [TermCall -> TermRecord]
  /\ get \in [GetCall -> GetRecord]
  /\ now \in Nat
  /\ restarts \in Nat
  /\ issued \subseteq Token /\ disclosed \subseteq Token /\ dead \subseteq Token

(* on_start's fail-fast check does what its comment wants: no GET with a   *)
(* token it minted ends in get_file's 404, whatever seedings, revocations  *)
(* and restarts happen between the two.                                    *)
NeverNotFound == \A g \in GetCall : get[g].status # 404

(* A served file carries the media type the offer configures: get_file's   *)
(* application/octet-stream default is never what a client sees, even if   *)
(* its dataset was being seeded while it asked.                            *)
MediaTypeAsConfigured ==
  \A g \in GetCall : get[g].status = 200 => get[g].media = "configured"

(* The policy get_file re-evaluates on every request is the offer's: no    *)
(* file is served on an evaluation made after POLICY_NOT_AFTER.            *)
DeadlineEnforced ==
  \A g \in GetCall :
    get[g].status = 200 => ~DeadlinePassed(get[g].evaluatedAt)

(* In every mode this holds for the offer that build has seeded: on_start  *)
(* never seeds it again, so whatever TCK mode does to other datasets, no   *)
(* reader sees the configured permission without its constraint.           *)
PrimaryDeadlineEnforced ==
  \A g \in GetCall :
    get[g].status = 200 /\ get[g].dataset = Primary =>
      ~DeadlinePassed(get[g].evaluatedAt)

(* Once a TERMINATE is acknowledged (or the process restarted), a request  *)
(* sent with a token the client held when it asked for the TERMINATE is    *)
(* never served, whatever else START and TERMINATE calls of the same flow  *)
(* did meanwhile: the revocation of on_terminate is complete and final.    *)
TerminatedTokensStayDead ==
  \A g \in GetCall : get[g].late => get[g].status # 200

(* A token that a client was given stays usable: unless the process ends,  *)
(* only the hook of a TERMINATE of its own flow takes it away, no matter   *)
(* how many STARTs of the flow are repeated or fail after their hook, and  *)
(* what is terminated or completed besides.                                *)
GrantedTokensLive ==
  \A s \in StartCall :
    /\ start[s].pc = "started"
    /\ start[s].token \notin dead
    /\ \A x \in TermCall : term[x].flow = start[s].flow => term[x].pc = "revoke"
    => Entry(start[s].token, start[s].flow, start[s].dataset) \in tokens

(* Every live token is for a dataset whose whole offer is in the graph or  *)
(* is being put there: if a GET with it is refused, that is the policy's   *)
(* doing (a START after the deadline does get a token), not on_start's.    *)
LiveTokenHasOffer ==
  \A e \in tokens :
    \/ \E seeder \in StartCall \cup {"build"} :
         SeededOffer(e.dataset, seeder) \subseteq graph
    \/ \E s \in StartCall : start[s].pc = "seed" /\ start[s].dataset = e.dataset

(* What revoke_flow is for, whatever the SDK does.  Once the hook of a     *)
(* TERMINATE has run, no START of its flow that had ended when it came has *)
(* a live token, then or later: neither one that was answered, nor one     *)
(* that failed after its hook and left a token nobody knows of, nor the    *)
(* earlier of two STARTs; and it makes no difference whether the TERMINATE *)
(* itself is acknowledged, fails or is sent again.                         *)
EndedStartsRevoked ==
  \A x \in TermCall : term[x].pc \notin {"idle", "revoke"} =>
    \A s \in term[x].ended, e \in tokens : e.token # start[s].token

(* Requests, as AccessControl sees them.  The one instant of a request     *)
(* that get_file lets through is its token lookup: a policy that allows it *)
(* at the later evaluation allowed it then, because time only grows.       *)
Phase(g) ==
  CASE get[g].pc = "idle"   -> "idle"
    [] get[g].pc = "lookup" -> "pending"
    [] get[g].pc \in GetChecked ->
         IF DeadlinePassed(get[g].lookedUpAt) THEN "pending" ELSE "authorised"
    [] get[g].pc = "answered" ->
         IF get[g].status = 200 THEN "served" ELSE "refused"
    [] OTHER -> "refused"

Requests ==
  [g \in GetCall |-> [phase |-> Phase(g), token |-> get[g].token,
                      dataset |-> get[g].dataset]]

Offerable == IF TckMode THEN Dataset ELSE {Primary}

AC == INSTANCE AccessControl WITH
  Client <- GetCall, Offered <- Offerable,
  live <- tokens, minted <- issued, clock <- now, request <- Requests

(* The data plane implements AccessControl.                                *)
RefinesAccessControl == AC!Spec

(* After a token is dead its last uses run out: from some moment on no     *)
(* request holds a clone of its record any more, although get_file checks  *)
(* the token only once, at lookup, and clients may keep asking for ever.   *)
DeadTokensDrain ==
  \A t \in Token :
    t \in dead ~>
      [](\A g \in GetCall : get[g].token = t => get[g].pc \notin GetChecked)
=============================================================================
