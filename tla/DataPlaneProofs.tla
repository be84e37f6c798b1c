-------------------------- MODULE DataPlaneProofs ---------------------------
(***************************************************************************)
(* Proofs about DataPlane: its types, the effect of each action, and how   *)
(* tokens live and die (TerminatedTokensStayDead, EndedStartsRevoked and   *)
(* GrantedTokensLive, all of them whatever the SDK does).                  *)
(***************************************************************************)
EXTENDS DataPlane, TLAPS

-----------------------------------------------------------------------------
(***************************************************************************)
(* What each step does to the call that takes it, in a form the other      *)
(* proofs can use, and type correctness.                                   *)
(***************************************************************************)

(* TypeOK alone is not inductive: a call that has run past its dispatch    *)
(* has its fields filled in.                                               *)
HeldByStart(s) == start[s].pc \in {"commit", "started"}

CallsFilledIn ==
  /\ \A s \in StartCall :
       /\ start[s].pc \in StartRunning =>
            start[s].flow \in Flow /\ start[s].dataset \in Dataset
       /\ start[s].pc \in {"idle", "check"} => start[s].seeded = 0
       /\ start[s].pc = "seed" => start[s].seeded < SeedSteps
       /\ HeldByStart(s) => start[s].token \in Token
  /\ \A x \in TermCall : term[x].pc \in TermRunning => term[x].flow \in Flow
  /\ \A g \in GetCall : get[g].pc \in GetRunning => get[g].dataset \in Dataset

TypeInv == TypeOK /\ CallsFilledIn

-----------------------------------------------------------------------------
(* What a step leaves alone.                                               *)

OnlyStart(s) ==
  /\ start' \in [StartCall -> StartRecord]
  /\ \A c \in StartCall : c # s => start'[c] = start[c]

OnlyTerm(x) ==
  /\ term' \in [TermCall -> TermRecord]
  /\ \A c \in TermCall : c # x => term'[c] = term[c]

OnlyGet(g) ==
  /\ get' \in [GetCall -> GetRecord]
  /\ \A c \in GetCall : c # g => get'[c] = get[c]

SameStart(s) ==
  /\ start'[s].flow = start[s].flow
  /\ start'[s].dataset = start[s].dataset
  /\ start'[s].seeded = start[s].seeded
  /\ start'[s].token = start[s].token

SameTerm(x) ==
  /\ term'[x].flow = term[x].flow
  /\ term'[x].ended = term[x].ended

SameRequest(g) ==
  /\ get'[g].token = get[g].token
  /\ get'[g].dataset = get[g].dataset
  /\ get'[g].late = get[g].late

NotGet == <<stores, start, term, now, restarts, history>>

(* A call that only moves on.                                              *)
LEMMA StartMoves ==
  ASSUME TypeOK, NEW s \in StartCall,
         NEW p \in {"issue", "seed", "failed", "started"},
         start' = [start EXCEPT ![s].pc = p]
  PROVE  OnlyStart(s) /\ SameStart(s) /\ start'[s].pc = p
<1> DEFINE r == [start[s] EXCEPT !.pc = p]
<1>1. start[s] \in StartRecord
  BY DEF TypeOK
<1>2. /\ r \in StartRecord /\ r.pc = p
      /\ r.flow = start[s].flow /\ r.dataset = start[s].dataset
      /\ r.seeded = start[s].seeded /\ r.token = start[s].token
  BY <1>1 DEF StartRecord, StartRunning
<1>3. start' = [start EXCEPT ![s] = r]
  OBVIOUS
<1> HIDE DEF r
<1> QED
  BY <1>2, <1>3 DEF TypeOK, OnlyStart, SameStart

LEMMA TermMoves ==
  ASSUME TypeOK, NEW x \in TermCall, NEW p \in {"commit", "terminated", "failed"},
         term' = [term EXCEPT ![x].pc = p]
  PROVE  OnlyTerm(x) /\ SameTerm(x) /\ term'[x].pc = p
<1> DEFINE r == [term[x] EXCEPT !.pc = p]
<1>1. term[x] \in TermRecord
  BY DEF TypeOK
<1>2. /\ r \in TermRecord /\ r.pc = p
      /\ r.flow = term[x].flow /\ r.ended = term[x].ended
  BY <1>1 DEF TermRecord, TermRunning
<1>3. term' = [term EXCEPT ![x] = r]
  OBVIOUS
<1> HIDE DEF r
<1> QED
  BY <1>2, <1>3 DEF TypeOK, OnlyTerm, SameTerm

-----------------------------------------------------------------------------
(* START, step by step.                                                    *)

LEMMA StartDispatchEffect ==
  ASSUME TypeOK, NEW s \in StartCall, NEW f \in Flow, NEW d \in Dataset,
         StartDispatch(s, f, d)
  PROVE  /\ OnlyStart(s)
         /\ start[s].pc = "idle" /\ start'[s].pc = "check"
         /\ start'[s].flow = f /\ start'[s].dataset = d
         /\ start'[s].seeded = start[s].seeded /\ start'[s].token = start[s].token
         /\ UNCHANGED <<stores, term, get, now, restarts, history>>
<1> DEFINE r == [start[s] EXCEPT !.pc = "check", !.flow = f, !.dataset = d]
<1>1. start[s] \in StartRecord
  BY DEF TypeOK
<1>2. /\ r \in StartRecord /\ r.pc = "check" /\ r.flow = f /\ r.dataset = d
      /\ r.seeded = start[s].seeded /\ r.token = start[s].token
  BY <1>1 DEF StartRecord, StartRunning
<1>3. start' = [start EXCEPT ![s] = r]
  BY DEF StartDispatch
<1> HIDE DEF r
<1> QED
  BY <1>2, <1>3 DEF TypeOK, OnlyStart, StartDispatch

LEMMA OnStartCheckEffect ==
  ASSUME TypeOK, NEW s \in StartCall, OnStartCheck(s)
  PROVE  /\ OnlyStart(s) /\ SameStart(s)
         /\ start[s].pc = "check"
         /\ \/ start'[s].pc = "issue" /\ HasFilePath(graph, start[s].dataset)
            \/ /\ start'[s].pc = "seed" /\ TckMode
               /\ ~HasFilePath(graph, start[s].dataset)
            \/ start'[s].pc = "failed"
         /\ UNCHANGED <<stores, term, get, now, restarts, history>>
<1>1. CASE start' = [start EXCEPT ![s].pc = "issue"] /\ HasFilePath(graph, start[s].dataset)
  BY <1>1, StartMoves DEF OnStartCheck
<1>2. CASE /\ start' = [start EXCEPT ![s].pc = "seed"] /\ TckMode
           /\ ~HasFilePath(graph, start[s].dataset)
  BY <1>2, StartMoves DEF OnStartCheck
<1>3. CASE start' = [start EXCEPT ![s].pc = "failed"]
  BY <1>3, StartMoves DEF OnStartCheck
<1> QED
  BY <1>1, <1>2, <1>3, ConstantsAssumption DEF OnStartCheck

LEMMA SeedStepsBound == SeedSteps \in {4, 5}
BY DEF SeedSteps

LEMMA OnStartSeedEffect ==
  ASSUME TypeInv, NEW s \in StartCall, OnStartSeed(s)
  PROVE  /\ OnlyStart(s)
         /\ start[s].pc = "seed"
         /\ start[s].seeded + 1 \in 1..SeedSteps
         /\ start'[s].flow = start[s].flow
         /\ start'[s].dataset = start[s].dataset
         /\ start'[s].seeded = start[s].seeded + 1
         /\ start'[s].token = start[s].token
         /\ start'[s].pc = IF start'[s].seeded = SeedSteps THEN "issue" ELSE "seed"
         /\ graph' = graph \cup {SeedTriple(start[s].dataset, s, start'[s].seeded)}
         /\ UNCHANGED <<tokens, flows, term, get, now, restarts, history>>
<1> DEFINE n == start[s].seeded + 1
           r == [start[s] EXCEPT !.seeded = n,
                                 !.pc = IF n = SeedSteps THEN "issue" ELSE "seed"]
<1>1. start[s] \in StartRecord /\ start[s].pc = "seed"
  BY DEF TypeInv, TypeOK, OnStartSeed
<1>2. start[s].seeded \in Nat /\ n \in 1..SeedSteps /\ n \in 0..SeedSteps
  BY <1>1, SeedStepsBound DEF TypeInv, CallsFilledIn, StartRecord
<1>3. start' = [start EXCEPT ![s] = r] /\ graph' = InsertFact(graph, start[s].dataset, s, n)
  BY DEF OnStartSeed
<1> HIDE DEF n
<1>4. /\ r \in StartRecord /\ r.flow = start[s].flow /\ r.dataset = start[s].dataset
      /\ r.token = start[s].token
      /\ r.seeded = n /\ r.pc = IF n = SeedSteps THEN "issue" ELSE "seed"
  BY <1>1, <1>2 DEF StartRecord, StartRunning
<1> HIDE DEF r
<1>5. OnlyStart(s) /\ start'[s] = r
  BY <1>3, <1>4 DEF TypeInv, TypeOK, OnlyStart
<1> QED
  BY <1>1, <1>2, <1>3, <1>4, <1>5 DEF OnStartSeed, InsertFact, n

LEMMA OnStartIssueEffect ==
  ASSUME TypeInv, NEW s \in StartCall, OnStartIssue(s)
  PROVE  \E t \in Token \ issued :
           /\ OnlyStart(s)
           /\ start[s].pc = "issue" /\ start'[s].pc = "commit"
           /\ start'[s].flow = start[s].flow
           /\ start'[s].dataset = start[s].dataset
           /\ start'[s].token = t
           /\ tokens' = {e \in tokens : e.token # t}
                          \cup {Entry(t, start[s].flow, start[s].dataset)}
           /\ issued' = issued \cup {t}
           /\ UNCHANGED <<graph, flows, term, get, now, restarts, disclosed, dead>>
<1>1. PICK t \in Token \ issued :
        /\ tokens' = IssueToken(tokens, t, start[s].flow, start[s].dataset)
        /\ issued' = issued \cup {t}
        /\ start' = [start EXCEPT ![s] = [@ EXCEPT !.pc = "commit", !.token = t]]
  BY DEF OnStartIssue
<1> DEFINE r == [start[s] EXCEPT !.pc = "commit", !.token = t]
<1>2. start[s] \in StartRecord
  BY DEF TypeInv, TypeOK
<1>3. /\ r \in StartRecord /\ r.pc = "commit" /\ r.token = t
      /\ r.flow = start[s].flow /\ r.dataset = start[s].dataset
  BY <1>2 DEF StartRecord, StartRunning
<1>4. start' = [start EXCEPT ![s] = r]
  BY <1>1
<1> HIDE DEF r
<1>5. OnlyStart(s) /\ start'[s] = r
  BY <1>3, <1>4 DEF TypeInv, TypeOK, OnlyStart
<1> QED
  BY <1>1, <1>3, <1>5 DEF OnStartIssue, IssueToken

-----------------------------------------------------------------------------
(* TERMINATE.                                                              *)

LEMMA TermDispatchEffect ==
  ASSUME TypeOK, NEW x \in TermCall, NEW f \in Flow, TermDispatch(x, f)
  PROVE  /\ OnlyTerm(x)
         /\ term'[x] = [pc |-> "revoke", flow |-> f, ended |-> EndedStarts(f)]
         /\ UNCHANGED <<stores, start, get, now, restarts, history>>
<1>1. EndedStarts(f) \subseteq StartCall
  BY DEF EndedStarts
<1>2. [pc |-> "revoke", flow |-> f, ended |-> EndedStarts(f)] \in TermRecord
  BY <1>1 DEF TermRecord, TermRunning
<1> QED
  BY <1>2 DEF TypeOK, OnlyTerm, TermDispatch

-----------------------------------------------------------------------------
(* GET, step by step.                                                      *)

LEMMA GetSendEffect ==
  ASSUME TypeOK, NEW g \in GetCall, NEW t \in disclosed \cup {None},
         NEW d \in Dataset, GetSend(g, t, d)
  PROVE  /\ OnlyGet(g)
         /\ get'[g] = Request("lookup", t, d, t \in dead)
         /\ UNCHANGED NotGet
<1>1. t \in Token \cup {None}
  BY DEF TypeOK
<1>2. \A late \in BOOLEAN : Request("lookup", t, d, late) \in GetRecord
  BY <1>1 DEF Request, GetRecord, GetRunning
<1>3. (t \in dead) \in BOOLEAN
  OBVIOUS
<1>4. Request("lookup", t, d, t \in dead) \in GetRecord
  BY <1>2, <1>3
<1> QED
  BY <1>4 DEF TypeOK, OnlyGet, GetSend, NotGet

LEMMA AnswerEffect ==
  ASSUME TypeOK, NEW g \in GetCall, NEW code \in Status, Answer(g, code)
  PROVE  /\ OnlyGet(g) /\ SameRequest(g)
         /\ get'[g].pc = "answered" /\ get'[g].status = code
         /\ get'[g].media = get[g].media
         /\ get'[g].lookedUpAt = get[g].lookedUpAt
         /\ get'[g].evaluatedAt = get[g].evaluatedAt
         /\ UNCHANGED NotGet
<1> DEFINE r == [get[g] EXCEPT !.pc = "answered", !.status = code]
<1>1. get[g] \in GetRecord
  BY DEF TypeOK
<1>2. /\ r \in GetRecord /\ r.pc = "answered" /\ r.status = code
      /\ r.token = get[g].token /\ r.dataset = get[g].dataset
      /\ r.late = get[g].late /\ r.media = get[g].media
      /\ r.lookedUpAt = get[g].lookedUpAt /\ r.evaluatedAt = get[g].evaluatedAt
  BY <1>1 DEF GetRecord
<1>3. get' = [get EXCEPT ![g] = r]
  BY DEF Answer
<1> HIDE DEF r
<1> QED
  BY <1>2, <1>3 DEF TypeOK, OnlyGet, SameRequest, Answer, NotGet

LEMMA ContinueEffect ==
  ASSUME TypeOK, NEW g \in GetCall, NEW p \in GetChecked, Continue(g, p)
  PROVE  /\ OnlyGet(g) /\ SameRequest(g)
         /\ get'[g].pc = p /\ get'[g].status = get[g].status
         /\ get'[g].rows = get[g].rows
         /\ get'[g].lookedUpAt = get[g].lookedUpAt
         /\ get'[g].evaluatedAt = get[g].evaluatedAt
         /\ UNCHANGED NotGet
<1> DEFINE r == [get[g] EXCEPT !.pc = p]
<1>1. get[g] \in GetRecord
  BY DEF TypeOK
<1>2. /\ r \in GetRecord /\ r.pc = p /\ r.status = get[g].status
      /\ r.token = get[g].token /\ r.dataset = get[g].dataset
      /\ r.late = get[g].late /\ r.rows = get[g].rows
      /\ r.lookedUpAt = get[g].lookedUpAt /\ r.evaluatedAt = get[g].evaluatedAt
  BY <1>1 DEF GetRecord, GetRunning
<1>3. get' = [get EXCEPT ![g] = r]
  BY DEF Continue
<1> HIDE DEF r
<1> QED
  BY <1>2, <1>3 DEF TypeOK, OnlyGet, SameRequest, Continue, NotGet

(* The lookup finds the token in the store, or ends the request.           *)
LookedUp(g) ==
  /\ get'[g].pc = "header"
  /\ get'[g].status = get[g].status
  /\ get'[g].lookedUpAt = now
  /\ \E e \in tokens : e.token = get[g].token /\ e.dataset = get[g].dataset

Refused(g, codes) ==
  /\ get'[g].pc = "answered"
  /\ get'[g].status \in codes
  /\ get'[g].lookedUpAt = get[g].lookedUpAt

LEMMA GetLookupEffect ==
  ASSUME TypeOK, NEW g \in GetCall, GetLookup(g)
  PROVE  /\ OnlyGet(g) /\ SameRequest(g) /\ get[g].pc = "lookup"
         /\ LookedUp(g) \/ Refused(g, {401, 403})
         /\ UNCHANGED NotGet
<1> DEFINE r == [get[g] EXCEPT !.pc = "header", !.lookedUpAt = now]
<1>1. get[g].pc = "lookup"
  BY DEF GetLookup
<1>2. CASE Answer(g, 401)
  BY <1>1, <1>2, AnswerEffect DEF Status, Refused
<1>3. CASE Answer(g, 403)
  BY <1>1, <1>3, AnswerEffect DEF Status, Refused
<1>4. CASE /\ \E e \in LookupToken(tokens, get[g].token) : e.dataset = get[g].dataset
           /\ get' = [get EXCEPT ![g] = r]
           /\ UNCHANGED <<stores, start, term, now, restarts, history>>
  <2>1. get[g] \in GetRecord /\ now \in Nat
    BY DEF TypeOK
  <2>2. /\ r \in GetRecord /\ r.pc = "header" /\ r.status = get[g].status
        /\ r.token = get[g].token /\ r.dataset = get[g].dataset
        /\ r.late = get[g].late /\ r.lookedUpAt = now
    BY <2>1 DEF GetRecord, GetRunning, GetChecked
  <2> HIDE DEF r
  <2>3. OnlyGet(g) /\ get'[g] = r
    BY <1>4, <2>2 DEF TypeOK, OnlyGet
  <2> QED
    BY <1>1, <1>4, <2>2, <2>3 DEF SameRequest, LookedUp, LookupToken, NotGet
<1> HIDE DEF r
<1> QED
  BY <1>1, <1>2, <1>3, <1>4 DEF GetLookup, r

LEMMA GetPolicyHeaderEffect ==
  ASSUME TypeOK, NEW g \in GetCall, GetPolicyHeader(g)
  PROVE  /\ OnlyGet(g) /\ SameRequest(g) /\ get[g].pc = "header"
         /\ \/ Refused(g, {500})
            \/ /\ get'[g].pc = "rows" /\ get'[g].status = get[g].status
               /\ get'[g].lookedUpAt = get[g].lookedUpAt
               /\ HasPolicyHeader(graph, get[g].dataset)
         /\ UNCHANGED NotGet
<1>1. CASE Answer(g, 500)
  BY <1>1, AnswerEffect DEF GetPolicyHeader, Status, Refused
<1>2. CASE HasPolicyHeader(graph, get[g].dataset) /\ Continue(g, "rows")
  BY <1>2, ContinueEffect DEF GetPolicyHeader, GetChecked
<1> QED
  BY <1>1, <1>2 DEF GetPolicyHeader

LEMMA GetPolicyRowsEffect ==
  ASSUME TypeOK, NEW g \in GetCall, GetPolicyRows(g)
  PROVE  /\ OnlyGet(g) /\ SameRequest(g) /\ get[g].pc = "rows"
         /\ get'[g].pc = "evaluate" /\ get'[g].status = get[g].status
         /\ get'[g].lookedUpAt = get[g].lookedUpAt
         /\ get'[g].rows = PermissionRows(graph, get[g].dataset)
         /\ UNCHANGED NotGet
<1> DEFINE rows == PermissionRows(graph, get[g].dataset)
           r == [get[g] EXCEPT !.pc = "evaluate", !.rows = rows]
<1>1. get[g] \in GetRecord
  BY DEF TypeOK
<1>2. rows \in SUBSET BOOLEAN
  <2> SUFFICES ASSUME NEW b \in rows PROVE b \in BOOLEAN
    OBVIOUS
  <2>1. PICK n \in PermissionNodes(graph, get[g].dataset) :
          b = IsConstrained(graph, get[g].dataset, n)
    BY DEF PermissionRows
  <2>2. b = (<<get[g].dataset, "constraint", n>> \in graph)
    BY <2>1 DEF IsConstrained
  <2>3. (<<get[g].dataset, "constraint", n>> \in graph) \in BOOLEAN
    OBVIOUS
  <2> QED
    BY <2>2, <2>3
<1>3. get' = [get EXCEPT ![g] = r]
  BY DEF GetPolicyRows
<1> HIDE DEF rows
<1>4. /\ r \in GetRecord /\ r.pc = "evaluate" /\ r.status = get[g].status
      /\ r.token = get[g].token /\ r.dataset = get[g].dataset
      /\ r.late = get[g].late /\ r.rows = rows
      /\ r.lookedUpAt = get[g].lookedUpAt
  BY <1>1, <1>2 DEF GetRecord, GetRunning, GetChecked
<1> HIDE DEF r
<1> QED
  BY <1>3, <1>4 DEF TypeOK, OnlyGet, SameRequest, GetPolicyRows, NotGet, rows

LEMMA GetEvaluateEffect ==
  ASSUME TypeOK, NEW g \in GetCall, GetEvaluate(g)
  PROVE  /\ OnlyGet(g) /\ SameRequest(g) /\ get[g].pc = "evaluate"
         /\ \/ Refused(g, {403, 500})
            \/ /\ get'[g].pc = "filePath" /\ get'[g].status = get[g].status
               /\ get'[g].lookedUpAt = get[g].lookedUpAt
               /\ get'[g].evaluatedAt = now
               /\ Allows(get[g].rows, now)
         /\ UNCHANGED NotGet
<1> DEFINE r == [get[g] EXCEPT !.pc = "filePath", !.evaluatedAt = now]
<1>1. get[g].pc = "evaluate"
  BY DEF GetEvaluate
<1>2. CASE Answer(g, 500) \/ Answer(g, 403)
  BY <1>1, <1>2, AnswerEffect DEF Status, Refused
<1>3. CASE /\ Allows(get[g].rows, now) /\ get' = [get EXCEPT ![g] = r]
           /\ UNCHANGED <<stores, start, term, now, restarts, history>>
  <2>1. get[g] \in GetRecord /\ now \in Nat
    BY DEF TypeOK
  <2>2. /\ r \in GetRecord /\ r.pc = "filePath" /\ r.status = get[g].status
        /\ r.token = get[g].token /\ r.dataset = get[g].dataset
        /\ r.late = get[g].late /\ r.evaluatedAt = now
        /\ r.lookedUpAt = get[g].lookedUpAt
    BY <2>1 DEF GetRecord, GetRunning, GetChecked
  <2> HIDE DEF r
  <2> QED
    BY <1>1, <1>3, <2>2 DEF TypeOK, OnlyGet, SameRequest, NotGet
<1> HIDE DEF r
<1> QED
  BY <1>2, <1>3 DEF GetEvaluate, r

LEMMA GetFilePathEffect ==
  ASSUME TypeOK, NEW g \in GetCall, GetFilePath(g)
  PROVE  /\ OnlyGet(g) /\ SameRequest(g) /\ get[g].pc = "filePath"
         /\ \/ Refused(g, {404}) /\ ~HasFilePath(graph, get[g].dataset)
            \/ /\ get'[g].pc = "mediaType" /\ get'[g].status = get[g].status
               /\ get'[g].lookedUpAt = get[g].lookedUpAt
               /\ get'[g].evaluatedAt = get[g].evaluatedAt
         /\ UNCHANGED NotGet
<1>1. CASE ~HasFilePath(graph, get[g].dataset) /\ Answer(g, 404)
  BY <1>1, AnswerEffect DEF GetFilePath, Status, Refused
<1>2. CASE Continue(g, "mediaType")
  BY <1>2, ContinueEffect DEF GetFilePath, GetChecked
<1> QED
  BY <1>1, <1>2 DEF GetFilePath

LEMMA GetMediaTypeEffect ==
  ASSUME TypeOK, NEW g \in GetCall, GetMediaType(g)
  PROVE  /\ OnlyGet(g) /\ SameRequest(g) /\ get[g].pc = "mediaType"
         /\ get'[g].pc = "read" /\ get'[g].status = get[g].status
         /\ get'[g].lookedUpAt = get[g].lookedUpAt
         /\ get'[g].evaluatedAt = get[g].evaluatedAt
         /\ HasMediaType(graph, get[g].dataset) => get'[g].media = "configured"
         /\ UNCHANGED NotGet
<1> DEFINE media == IF HasMediaType(graph, get[g].dataset) THEN "configured"
                                                           ELSE "octet-stream"
           r == [get[g] EXCEPT !.pc = "read", !.media = media]
<1>1. get[g] \in GetRecord
  BY DEF TypeOK
<1>2. /\ media \in Media
      /\ HasMediaType(graph, get[g].dataset) => media = "configured"
  BY DEF Media
<1>3. get' = [get EXCEPT ![g] = r]
  BY DEF GetMediaType
<1> HIDE DEF media
<1>4. /\ r \in GetRecord /\ r.pc = "read" /\ r.status = get[g].status
      /\ r.token = get[g].token /\ r.dataset = get[g].dataset
      /\ r.late = get[g].late /\ r.media = media
      /\ r.lookedUpAt = get[g].lookedUpAt /\ r.evaluatedAt = get[g].evaluatedAt
  BY <1>1, <1>2 DEF GetRecord, GetRunning, GetChecked
<1> HIDE DEF r
<1> QED
  BY <1>2, <1>3, <1>4 DEF TypeOK, OnlyGet, SameRequest, GetMediaType, NotGet

LEMMA GetReadFileEffect ==
  ASSUME TypeOK, NEW g \in GetCall, GetReadFile(g)
  PROVE  /\ OnlyGet(g) /\ SameRequest(g) /\ get[g].pc = "read"
         /\ Refused(g, {200, 500})
         /\ get'[g].media = get[g].media
         /\ get'[g].evaluatedAt = get[g].evaluatedAt
         /\ UNCHANGED NotGet
<1>1. Answer(g, 200) \/ Answer(g, 500)
  BY DEF GetReadFile
<1> QED
  BY <1>1, AnswerEffect DEF GetReadFile, Status, Refused

-----------------------------------------------------------------------------
(* A restart loses the calls that run and leaves the others as they ended. *)

LEMMA RestartEffect ==
  ASSUME TypeOK, Restart
  PROVE  /\ start' \in [StartCall -> StartRecord]
         /\ \A s \in StartCall :
              SameStart(s) /\ start'[s].pc = IF start[s].pc \in StartRunning
                                             THEN "lost" ELSE start[s].pc
         /\ term' \in [TermCall -> TermRecord]
         /\ \A x \in TermCall :
              SameTerm(x) /\ term'[x].pc = IF term[x].pc \in TermRunning
                                           THEN "lost" ELSE term[x].pc
         /\ get' \in [GetCall -> GetRecord]
         /\ \A g \in GetCall :
              /\ SameRequest(g)
              /\ get'[g].pc = IF get[g].pc \in GetRunning THEN "lost" ELSE get[g].pc
              /\ get'[g].status = get[g].status /\ get'[g].media = get[g].media
              /\ get'[g].evaluatedAt = get[g].evaluatedAt
<1>1. ASSUME NEW s \in StartCall
      PROVE  LET r == [start[s] EXCEPT !.pc = "lost"] IN
             /\ r \in StartRecord /\ r.pc = "lost"
             /\ r.flow = start[s].flow /\ r.dataset = start[s].dataset
             /\ r.seeded = start[s].seeded /\ r.token = start[s].token
  <2>1. start[s] \in StartRecord
    BY DEF TypeOK
  <2> QED
    BY <2>1 DEF StartRecord
<1>2. ASSUME NEW x \in TermCall
      PROVE  LET r == [term[x] EXCEPT !.pc = "lost"] IN
             /\ r \in TermRecord /\ r.pc = "lost"
             /\ r.flow = term[x].flow /\ r.ended = term[x].ended
  <2>1. term[x] \in TermRecord
    BY DEF TypeOK
  <2> QED
    BY <2>1 DEF TermRecord
<1>3. ASSUME NEW g \in GetCall
      PROVE  LET r == [get[g] EXCEPT !.pc = "lost"] IN
             /\ r \in GetRecord /\ r.pc = "lost"
             /\ r.token = get[g].token /\ r.dataset = get[g].dataset
             /\ r.late = get[g].late /\ r.status = get[g].status
             /\ r.media = get[g].media /\ r.evaluatedAt = get[g].evaluatedAt
  <2>1. get[g] \in GetRecord
    BY DEF TypeOK
  <2> QED
    BY <2>1 DEF GetRecord
<1> DEFINE LostStart(s) == [start[s] EXCEPT !.pc = "lost"]
           LostTerm(x)  == [term[x] EXCEPT !.pc = "lost"]
           LostGet(g)   == [get[g] EXCEPT !.pc = "lost"]
<1>4. start' = [s \in StartCall |-> IF start[s].pc \in StartRunning
                                    THEN LostStart(s) ELSE start[s]]
  BY DEF Restart, Lost, TypeOK
<1>5. term' = [x \in TermCall |-> IF term[x].pc \in TermRunning
                                  THEN LostTerm(x) ELSE term[x]]
  BY DEF Restart, Lost, TypeOK
<1>6. get' = [g \in GetCall |-> IF get[g].pc \in GetRunning
                                THEN LostGet(g) ELSE get[g]]
  BY DEF Restart, Lost, TypeOK
<1> HIDE DEF LostStart, LostTerm, LostGet
<1>7. \A s \in StartCall :
        /\ LostStart(s) \in StartRecord /\ LostStart(s).pc = "lost"
        /\ LostStart(s).flow = start[s].flow
        /\ LostStart(s).dataset = start[s].dataset
        /\ LostStart(s).seeded = start[s].seeded
        /\ LostStart(s).token = start[s].token
  BY <1>1 DEF LostStart
<1>8. \A x \in TermCall :
        /\ LostTerm(x) \in TermRecord /\ LostTerm(x).pc = "lost"
        /\ LostTerm(x).flow = term[x].flow /\ LostTerm(x).ended = term[x].ended
  BY <1>2 DEF LostTerm
<1>9. \A g \in GetCall :
        /\ LostGet(g) \in GetRecord /\ LostGet(g).pc = "lost"
        /\ LostGet(g).token = get[g].token /\ LostGet(g).dataset = get[g].dataset
        /\ LostGet(g).late = get[g].late /\ LostGet(g).status = get[g].status
        /\ LostGet(g).media = get[g].media
        /\ LostGet(g).evaluatedAt = get[g].evaluatedAt
  BY <1>3 DEF LostGet
<1>10. /\ start' \in [StartCall -> StartRecord]
       /\ \A s \in StartCall :
            SameStart(s) /\ start'[s].pc = IF start[s].pc \in StartRunning
                                           THEN "lost" ELSE start[s].pc
  BY <1>4, <1>7 DEF TypeOK, SameStart
<1>11. /\ term' \in [TermCall -> TermRecord]
       /\ \A x \in TermCall :
            SameTerm(x) /\ term'[x].pc = IF term[x].pc \in TermRunning
                                         THEN "lost" ELSE term[x].pc
  BY <1>5, <1>8 DEF TypeOK, SameTerm
<1>12. /\ get' \in [GetCall -> GetRecord]
       /\ \A g \in GetCall :
            /\ SameRequest(g)
            /\ get'[g].pc = IF get[g].pc \in GetRunning THEN "lost" ELSE get[g].pc
            /\ get'[g].status = get[g].status /\ get'[g].media = get[g].media
            /\ get'[g].evaluatedAt = get[g].evaluatedAt
  BY <1>6, <1>9 DEF TypeOK, SameRequest
<1> QED
  BY <1>10, <1>11, <1>12

-----------------------------------------------------------------------------
(* Type correctness.                                                       *)

(* Whatever get_file does next, it only reads the stores, and the request  *)
(* stays the one that was sent.                                            *)
LEMMA GetStepFrame ==
  ASSUME TypeOK, NEW g \in GetCall, GetStep(g)
  PROVE  /\ OnlyGet(g) /\ SameRequest(g)
         /\ get[g].pc \in GetRunning
         /\ UNCHANGED NotGet
<1>1. CASE GetLookup(g)
  BY <1>1, GetLookupEffect DEF GetRunning
<1>2. CASE GetPolicyHeader(g)
  BY <1>2, GetPolicyHeaderEffect DEF GetRunning, GetChecked
<1>3. CASE GetPolicyRows(g)
  BY <1>3, GetPolicyRowsEffect DEF GetRunning, GetChecked
<1>4. CASE GetEvaluate(g)
  BY <1>4, GetEvaluateEffect DEF GetRunning, GetChecked
<1>5. CASE GetFilePath(g)
  BY <1>5, GetFilePathEffect DEF GetRunning, GetChecked
<1>6. CASE GetMediaType(g)
  BY <1>6, GetMediaTypeEffect DEF GetRunning, GetChecked
<1>7. CASE GetReadFile(g)
  BY <1>7, GetReadFileEffect DEF GetRunning, GetChecked
<1> QED
  BY <1>1, <1>2, <1>3, <1>4, <1>5, <1>6, <1>7 DEF GetStep

LEMMA SeedTripleType ==
  ASSUME NEW d \in Dataset, NEW i \in 1..SeedSteps,
         NEW seeder \in StartCall \cup {"build"}
  PROVE  SeedTriple(d, seeder, i) \in Dataset \X Fact \X (StartCall \cup {Iri, "build"})
BY SeedStepsBound DEF SeedTriple, SeedOrder, NodeOf, Fact

LEMMA BuildOfferType ==
  SeededOffer(Primary, "build") \subseteq Dataset \X Fact \X (StartCall \cup {Iri, "build"})
BY SeedTripleType, ConstantsAssumption DEF SeededOffer

LEMMA TypeInit == Init => TypeInv
<1> SUFFICES ASSUME Init PROVE TypeInv
  OBVIOUS
<1>1. start \in [StartCall -> StartRecord]
  BY SeedStepsBound DEF Init, StartRecord
<1>2. term \in [TermCall -> TermRecord]
  BY DEF Init, TermRecord
<1>3. get \in [GetCall -> GetRecord]
  BY DEF Init, GetRecord, Blank, Request
<1>4. TypeOK
  BY <1>1, <1>2, <1>3, BuildOfferType DEF Init, TypeOK
<1>5. CallsFilledIn
  BY DEF Init, CallsFilledIn, HeldByStart, StartRunning, TermRunning,
         GetRunning, GetChecked, Blank, Request
<1> QED
  BY <1>4, <1>5 DEF TypeInv

(* The parts of TypeInv that are about calls, call by call.                *)
StartFilledIn(s) ==
  /\ start[s].pc \in StartRunning =>
       start[s].flow \in Flow /\ start[s].dataset \in Dataset
  /\ start[s].pc \in {"idle", "check"} => start[s].seeded = 0
  /\ start[s].pc = "seed" => start[s].seeded < SeedSteps
  /\ HeldByStart(s) => start[s].token \in Token

LEMMA StartStepTyped ==
  ASSUME TypeInv, NEW s \in StartCall, OnlyStart(s), StartFilledIn(s)',
         UNCHANGED <<term, get, now, restarts, dead>>,
         tokens' \subseteq [token : Token, flow : Flow, dataset : Dataset],
         graph' \subseteq Dataset \X Fact \X (StartCall \cup {Iri, "build"}),
         flows' \in [Flow -> {"unknown", "started", "completed", "terminated"}],
         issued' \subseteq Token, disclosed' \subseteq Token
  PROVE  TypeInv'
<1>1. TypeOK'
  BY DEF TypeInv, TypeOK, OnlyStart
<1>2. \A c \in StartCall : c # s => StartFilledIn(c)'
  BY DEF TypeInv, CallsFilledIn, StartFilledIn, OnlyStart, HeldByStart
<1>3. CallsFilledIn'
  BY <1>2 DEF TypeInv, CallsFilledIn, StartFilledIn
<1> QED
  BY <1>1, <1>3 DEF TypeInv

LEMMA TermStepTyped ==
  ASSUME TypeInv, NEW x \in TermCall, OnlyTerm(x),
         term'[x].pc \in TermRunning => term'[x].flow \in Flow,
         UNCHANGED <<start, get, graph, now, restarts, issued, disclosed>>,
         tokens' \subseteq tokens, dead' \subseteq Token,
         flows' \in [Flow -> {"unknown", "started", "completed", "terminated"}]
  PROVE  TypeInv'
<1>1. TypeOK'
  BY DEF TypeInv, TypeOK, OnlyTerm
<1>2. CallsFilledIn'
  BY DEF TypeInv, CallsFilledIn, OnlyTerm, HeldByStart
<1> QED
  BY <1>1, <1>2 DEF TypeInv

LEMMA GetStepTyped ==
  ASSUME TypeInv, NEW g \in GetCall, OnlyGet(g), get'[g].dataset \in Dataset,
         UNCHANGED NotGet
  PROVE  TypeInv'
<1>1. TypeOK'
  BY DEF TypeInv, TypeOK, OnlyGet, NotGet, stores, history
<1>2. CallsFilledIn'
  BY DEF TypeInv, CallsFilledIn, OnlyGet, HeldByStart, NotGet
<1> QED
  BY <1>1, <1>2 DEF TypeInv

LEMMA TypeStep == TypeInv /\ [Next]_vars => TypeInv'
<1> SUFFICES ASSUME TypeInv, [Next]_vars PROVE TypeInv'
  OBVIOUS
<1> USE DEF stores, history
<1>t. TypeOK
  BY DEF TypeInv
<1>1. ASSUME NEW s \in StartCall, NEW f \in Flow, NEW d \in Dataset,
             StartDispatch(s, f, d)
      PROVE  TypeInv'
  <2>1. StartFilledIn(s)'
    BY <1>t, <1>1, StartDispatchEffect
       DEF StartFilledIn, HeldByStart, StartRunning, TypeInv, CallsFilledIn
  <2> QED
    BY <1>t, <1>1, <2>1, StartDispatchEffect, StartStepTyped DEF TypeOK
<1>2. ASSUME NEW s \in StartCall, OnStartCheck(s) PROVE TypeInv'
  <2>1. StartFilledIn(s)'
    BY <1>t, <1>2, OnStartCheckEffect, SeedStepsBound
       DEF StartFilledIn, HeldByStart, StartRunning, TypeInv, CallsFilledIn, SameStart
  <2> QED
    BY <1>t, <1>2, <2>1, OnStartCheckEffect, StartStepTyped DEF TypeOK
<1>3. ASSUME NEW s \in StartCall, OnStartSeed(s) PROVE TypeInv'
  <2>1. start[s].dataset \in Dataset /\ start[s].flow \in Flow
    BY <1>3, OnStartSeedEffect DEF TypeInv, CallsFilledIn, StartRunning
  <2>2. StartFilledIn(s)'
    BY <1>3, <2>1, OnStartSeedEffect, SeedStepsBound
       DEF StartFilledIn, HeldByStart, StartRunning
  <2>3. graph' \subseteq Dataset \X Fact \X (StartCall \cup {Iri, "build"})
    BY <1>t, <1>3, <2>1, OnStartSeedEffect, SeedTripleType DEF TypeOK
  <2> QED
    BY <1>t, <1>3, <2>2, <2>3, OnStartSeedEffect, StartStepTyped DEF TypeOK
<1>4. ASSUME NEW s \in StartCall, OnStartSeedFails(s) PROVE TypeInv'
  <2>1. OnlyStart(s) /\ SameStart(s) /\ start'[s].pc = "failed"
    BY <1>t, <1>4, StartMoves DEF OnStartSeedFails
  <2>2. StartFilledIn(s)'
    BY <2>1 DEF StartFilledIn, HeldByStart, StartRunning
  <2> QED
    BY <1>t, <1>4, <2>1, <2>2, StartStepTyped DEF TypeOK, OnStartSeedFails
<1>5. ASSUME NEW s \in StartCall, OnStartIssue(s) PROVE TypeInv'
  <2>1. start[s].dataset \in Dataset /\ start[s].flow \in Flow
    BY <1>5, OnStartIssueEffect DEF TypeInv, CallsFilledIn, StartRunning
  <2>2. StartFilledIn(s)'
    BY <1>5, <2>1, OnStartIssueEffect DEF StartFilledIn, HeldByStart, StartRunning
  <2>3. /\ tokens' \subseteq [token : Token, flow : Flow, dataset : Dataset]
        /\ issued' \subseteq Token
    BY <1>t, <1>5, <2>1, OnStartIssueEffect DEF TypeOK, Entry
  <2> QED
    BY <1>t, <1>5, <2>2, <2>3, OnStartIssueEffect, StartStepTyped DEF TypeOK
<1>6. ASSUME NEW s \in StartCall, StartCommit(s) PROVE TypeInv'
  <2>1. /\ OnlyStart(s) /\ SameStart(s) /\ start'[s].pc = "started"
        /\ start[s].token \in Token
    BY <1>t, <1>6, StartMoves DEF StartCommit, TypeInv, CallsFilledIn, HeldByStart
  <2>2. StartFilledIn(s)'
    BY <2>1 DEF StartFilledIn, HeldByStart, StartRunning, SameStart
  <2> QED
    BY <1>t, <1>6, <2>1, <2>2, StartStepTyped DEF TypeOK, StartCommit
<1>7. ASSUME NEW s \in StartCall, StartAbort(s) PROVE TypeInv'
  <2>1. OnlyStart(s) /\ SameStart(s) /\ start'[s].pc = "failed"
    BY <1>t, <1>7, StartMoves DEF StartAbort
  <2>2. StartFilledIn(s)'
    BY <2>1 DEF StartFilledIn, HeldByStart, StartRunning
  <2> QED
    BY <1>t, <1>7, <2>1, <2>2, StartStepTyped DEF TypeOK, StartAbort
<1>8. ASSUME NEW x \in TermCall, NEW f \in Flow, TermDispatch(x, f) PROVE TypeInv'
  <2>1. OnlyTerm(x) /\ UNCHANGED <<stores, start, get, now, restarts, history>>
    BY <1>t, <1>8, TermDispatchEffect
  <2>2. term'[x] = [pc |-> "revoke", flow |-> f, ended |-> EndedStarts(f)]
    BY <1>t, <1>8, TermDispatchEffect
  <2>3. term'[x].flow \in Flow
    BY <2>2
  <2> QED
    BY <1>t, <2>1, <2>3, TermStepTyped DEF TypeOK
<1>9. ASSUME NEW x \in TermCall, OnTerminate(x) PROVE TypeInv'
  <2>1. OnlyTerm(x) /\ SameTerm(x)
    BY <1>t, <1>9, TermMoves DEF OnTerminate
  <2>2. term[x].flow \in Flow /\ tokens' \subseteq tokens
    BY <1>9 DEF OnTerminate, TypeInv, CallsFilledIn, TermRunning, RevokeFlow
  <2> QED
    BY <1>t, <1>9, <2>1, <2>2, TermStepTyped DEF TypeOK, OnTerminate, SameTerm
<1>10. ASSUME NEW x \in TermCall, TermCommit(x) PROVE TypeInv'
  <2>1. OnlyTerm(x) /\ SameTerm(x) /\ term'[x].pc = "terminated"
    BY <1>t, <1>10, TermMoves DEF TermCommit
  <2>2. Granted(term[x].ended) \subseteq Token
    <3>1. term[x].ended \subseteq StartCall
      BY <1>t DEF TypeOK, TermRecord
    <3> QED
      BY <3>1 DEF TypeInv, CallsFilledIn, HeldByStart, Granted
  <2> QED
    BY <1>t, <1>10, <2>1, <2>2, TermStepTyped DEF TypeOK, TermCommit, TermRunning
<1>11. ASSUME NEW x \in TermCall, TermAbort(x) PROVE TypeInv'
  <2>1. OnlyTerm(x) /\ SameTerm(x) /\ term'[x].pc = "failed"
    BY <1>t, <1>11, TermMoves DEF TermAbort
  <2> QED
    BY <1>t, <1>11, <2>1, TermStepTyped DEF TypeOK, TermAbort, TermRunning
<1>12. ASSUME NEW f \in Flow, SdkComplete(f) PROVE TypeInv'
  <2>1. TypeOK'
    BY <1>12 DEF TypeInv, TypeOK, SdkComplete
  <2>2. CallsFilledIn'
    BY <1>12 DEF TypeInv, CallsFilledIn, HeldByStart, SdkComplete
  <2> QED
    BY <2>1, <2>2 DEF TypeInv
<1>13. ASSUME NEW g \in GetCall, NEW t \in disclosed \cup {None},
              NEW d \in Dataset, GetSend(g, t, d)
       PROVE  TypeInv'
  <2>1. OnlyGet(g) /\ UNCHANGED NotGet
    BY <1>t, <1>13, GetSendEffect
  <2>2. get'[g] = Request("lookup", t, d, t \in dead)
    BY <1>t, <1>13, GetSendEffect
  <2>3. get'[g].dataset \in Dataset
    BY <2>2 DEF Request
  <2> QED
    BY <2>1, <2>3, GetStepTyped
<1>14. ASSUME NEW g \in GetCall, GetStep(g) PROVE TypeInv'
  BY <1>t, <1>14, GetStepFrame, GetStepTyped
     DEF TypeInv, CallsFilledIn, SameRequest
<1>15. CASE Tick
  <2>1. TypeOK'
    BY <1>15 DEF TypeInv, TypeOK, Tick
  <2>2. CallsFilledIn'
    BY <1>15 DEF TypeInv, CallsFilledIn, HeldByStart, Tick
  <2> QED
    BY <2>1, <2>2 DEF TypeInv
<1>16. CASE Restart
  <2>1. TypeOK'
    BY <1>t, <1>16, RestartEffect, BuildOfferType DEF TypeOK, Restart
  <2>2. CallsFilledIn'
    BY <1>t, <1>16, RestartEffect
       DEF TypeInv, CallsFilledIn, HeldByStart, SameStart, SameTerm, SameRequest,
           StartRunning, TermRunning, GetRunning, GetChecked
  <2> QED
    BY <2>1, <2>2 DEF TypeInv
<1>17. CASE UNCHANGED vars
  <2>1. TypeOK'
    BY <1>17 DEF TypeInv, TypeOK, vars
  <2>2. CallsFilledIn'
    BY <1>17 DEF TypeInv, CallsFilledIn, HeldByStart, vars
  <2> QED
    BY <2>1, <2>2 DEF TypeInv
<1> QED
  BY <1>1, <1>2, <1>3, <1>4, <1>5, <1>6, <1>7, <1>8, <1>9, <1>10, <1>11, <1>12,
     <1>13, <1>14, <1>15, <1>16, <1>17
     DEF Next, StartStep, TermStep

(* Every variable of the data plane keeps its type, and a call its fields. *)
THEOREM TypeCorrect == Spec => [](TypeOK /\ CallsFilledIn)
<1>1. Spec => []TypeInv
  BY TypeInit, TypeStep, PTL DEF Spec
<1> QED
  BY <1>1, PTL DEF TypeInv

-----------------------------------------------------------------------------
(***************************************************************************)
(* Revocation is complete and final: proof of EndedStartsRevoked and       *)
(* TerminatedTokensStayDead for any number of concurrent START and         *)
(* TERMINATE calls of one flow.                                            *)
(*                                                                         *)
(* The argument: a TERMINATE answers for STARTs of its own flow that had   *)
(* ended before it, and these stay as they are (EndedOfOwnFlow);           *)
(* revoke_flow takes every entry of the flow out of the store, and an      *)
(* entry with a START's token, whatever became of the START, is filed      *)
(* under that START's flow (StoredUnderOwnFlow); issue draws a fresh       *)
(* token, so none of them comes back.  Of these tokens a client knows the  *)
(* granted ones; they are dead once the TERMINATE is acknowledged, and a   *)
(* request that is sent with a dead token ends at its lookup.              *)
(***************************************************************************)

(* Tokens in the store were drawn by issue, so a fresh one is not there.   *)
StoredTokensIssued == \A e \in tokens : e.token \in issued

(* A START has a token that was drawn by issue, or none yet.               *)
Tokenless == {"idle", "check", "seed", "issue"}

StartTokensIssued ==
  \A s \in StartCall :
    /\ start[s].token \in issued \cup {None}
    /\ start[s].pc \in Tokenless => start[s].token = None

(* The entry a START's token still has in the store is of its own flow.    *)
StoredUnderOwnFlow ==
  \A e \in tokens, s \in StartCall :
    start[s].token = e.token => e.flow = start[s].flow

(* The STARTs a TERMINATE answers for are over, and of its flow.           *)
EndedOfOwnFlow ==
  \A x \in TermCall : term[x].ended \subseteq EndedStarts(term[x].flow)

DisclosedIssued ==
  /\ disclosed \subseteq issued /\ dead \subseteq disclosed
  /\ \A s \in StartCall : start[s].pc = "started" => start[s].token \in disclosed

(* A dead token is never in the store again.                               *)
DeadAreRevoked == \A e \in tokens : e.token \notin dead

(* A request sent with a dead token does not get past the lookup.          *)
LateRequestsStopAtLookup ==
  \A g \in GetCall :
    get[g].late => /\ get[g].token \in dead
                   /\ get[g].pc \notin GetChecked
                   /\ get[g].status # 200

StoreInv == StoredTokensIssued /\ StartTokensIssued /\ StoredUnderOwnFlow
TermInv  == EndedOfOwnFlow /\ EndedStartsRevoked
DeadInv  == DisclosedIssued /\ DeadAreRevoked /\ LateRequestsStopAtLookup

RevocationInv == StoreInv /\ TermInv /\ DeadInv

-----------------------------------------------------------------------------
LEMMA RevocationInit == Init => RevocationInv
<1> SUFFICES ASSUME Init PROVE RevocationInv
  OBVIOUS
<1>1. StoreInv
  BY DEF Init, StoreInv, StoredTokensIssued, StartTokensIssued,
         StoredUnderOwnFlow, Tokenless
<1>2. TermInv
  BY DEF Init, TermInv, EndedOfOwnFlow, EndedStartsRevoked
<1>3. DeadInv
  BY DEF Init, DeadInv, DisclosedIssued, DeadAreRevoked,
         LateRequestsStopAtLookup, Blank, Request
<1> QED
  BY <1>1, <1>2, <1>3 DEF RevocationInv

(* A START that has ended stays as it is; a TERMINATE's STARTs with it.    *)
LEMMA EndedStay ==
  ASSUME RevocationInv, NEW s \in StartCall, OnlyStart(s),
         start[s].pc \notin StartEnded
  PROVE  \A x \in TermCall : \A c \in term[x].ended :
           /\ c \in StartCall /\ c # s /\ start'[c] = start[c]
           /\ start[c].flow = term[x].flow /\ start[c].pc \in StartEnded
<1> SUFFICES ASSUME NEW x \in TermCall, NEW c \in term[x].ended
             PROVE  /\ c \in StartCall /\ c # s /\ start'[c] = start[c]
                    /\ start[c].flow = term[x].flow /\ start[c].pc \in StartEnded
  OBVIOUS
<1>1. c \in EndedStarts(term[x].flow)
  BY DEF RevocationInv, TermInv, EndedOfOwnFlow
<1>2. c \in StartCall /\ start[c].flow = term[x].flow /\ start[c].pc \in StartEnded
  BY <1>1 DEF EndedStarts
<1> QED
  BY <1>2 DEF OnlyStart

(* A step of a START that issues nothing, keeps its token and leaves the   *)
(* store alone; if it is the answer, it discloses the token.               *)
LEMMA QuietStartStep ==
  ASSUME TypeInv, RevocationInv, NEW s \in StartCall, OnlyStart(s),
         start[s].pc \notin StartEnded,
         start'[s].token = start[s].token,
         start'[s].flow = start[s].flow \/ start[s].token = None,
         start'[s].pc \in Tokenless => start[s].pc \in Tokenless,
         \/ UNCHANGED disclosed /\ start'[s].pc # "started"
         \/ start[s].pc = "commit" /\ disclosed' = disclosed \cup {start[s].token},
         UNCHANGED <<tokens, term, get, issued, dead>>
  PROVE  RevocationInv'
<1>1. \A e \in tokens : e.token # None
  BY ConstantsAssumption DEF TypeInv, TypeOK
<1>2. StoreInv'
  <2>1. StoredTokensIssued'
    BY DEF RevocationInv, StoreInv, StoredTokensIssued
  <2>2. StartTokensIssued'
    BY DEF RevocationInv, StoreInv, StartTokensIssued, OnlyStart
  <2>3. StoredUnderOwnFlow'
    BY <1>1 DEF RevocationInv, StoreInv, StoredUnderOwnFlow, OnlyStart
  <2> QED
    BY <2>1, <2>2, <2>3 DEF StoreInv
<1>3. \A x \in TermCall : \A c \in term[x].ended :
        /\ c \in StartCall /\ start'[c] = start[c]
        /\ start[c].flow = term[x].flow /\ start[c].pc \in StartEnded
  BY EndedStay
<1>4. EndedOfOwnFlow'
  BY <1>3 DEF EndedOfOwnFlow, EndedStarts
<1>5. EndedStartsRevoked'
  BY <1>3 DEF RevocationInv, TermInv, EndedStartsRevoked
<1>6. DisclosedIssued'
  <2>1. start[s].pc = "commit" => start[s].token \in issued
    BY ConstantsAssumption DEF TypeInv, CallsFilledIn, HeldByStart, RevocationInv, StoreInv,
           StartTokensIssued
  <2> QED
    BY <2>1 DEF RevocationInv, DeadInv, DisclosedIssued, OnlyStart
<1>7. DeadInv'
  BY <1>6 DEF RevocationInv, DeadInv, DeadAreRevoked, LateRequestsStopAtLookup
<1> QED
  BY <1>2, <1>4, <1>5, <1>7 DEF RevocationInv, TermInv

(* issue: the new token is nobody's.                                       *)
LEMMA IssueStep ==
  ASSUME TypeInv, RevocationInv, NEW s \in StartCall, OnStartIssue(s)
  PROVE  RevocationInv'
<1>1. PICK t \in Token \ issued :
        /\ OnlyStart(s)
        /\ start[s].pc = "issue" /\ start'[s].pc = "commit"
        /\ start'[s].flow = start[s].flow
        /\ start'[s].token = t
        /\ tokens' = {e \in tokens : e.token # t}
                       \cup {Entry(t, start[s].flow, start[s].dataset)}
        /\ issued' = issued \cup {t}
        /\ UNCHANGED <<term, get, disclosed, dead>>
  BY OnStartIssueEffect
<1>2. \A e \in tokens' : \/ e \in tokens
                         \/ e.token = t /\ e.flow = start[s].flow
  BY <1>1 DEF Entry
<1>3. t \notin issued /\ disclosed \subseteq issued /\ dead \subseteq issued
  BY <1>1 DEF RevocationInv, DeadInv, DisclosedIssued
<1>4. \A c \in StartCall : start[c].token # t
  BY <1>3, ConstantsAssumption DEF RevocationInv, StoreInv, StartTokensIssued
<1>5. \A e \in tokens : e.token # t
  BY <1>3 DEF RevocationInv, StoreInv, StoredTokensIssued
<1>6. StoreInv'
  <2>1. StoredTokensIssued'
    BY <1>1, <1>2 DEF RevocationInv, StoreInv, StoredTokensIssued
  <2>2. StartTokensIssued'
    BY <1>1 DEF RevocationInv, StoreInv, StartTokensIssued, Tokenless, OnlyStart
  <2>3. StoredUnderOwnFlow'
    <3> SUFFICES ASSUME NEW e \in tokens', NEW c \in StartCall,
                        start'[c].token = e.token
                 PROVE  e.flow = start'[c].flow
      BY DEF StoredUnderOwnFlow
    <3>1. CASE c = s
      BY <1>1, <1>2, <1>5, <3>1
    <3>2. CASE c # s
      <4>1. start'[c] = start[c] /\ e \in tokens
        BY <1>1, <1>2, <1>4, <3>2 DEF OnlyStart
      <4> QED
        BY <4>1 DEF RevocationInv, StoreInv, StoredUnderOwnFlow
    <3> QED
      BY <3>1, <3>2
  <2> QED
    BY <2>1, <2>2, <2>3 DEF StoreInv
<1>7. \A x \in TermCall : \A c \in term[x].ended :
        /\ c \in StartCall /\ start'[c] = start[c]
        /\ start[c].flow = term[x].flow /\ start[c].pc \in StartEnded
  BY <1>1, EndedStay DEF StartEnded
<1>8. EndedOfOwnFlow'
  BY <1>1, <1>7 DEF EndedOfOwnFlow, EndedStarts
<1>9. EndedStartsRevoked'
  <2> SUFFICES ASSUME NEW x \in TermCall, term[x].pc \notin {"idle", "revoke"},
                      NEW c \in term[x].ended, NEW e \in tokens'
               PROVE  e.token # start[c].token
    BY <1>1, <1>7 DEF EndedStartsRevoked
  <2>1. CASE e \in tokens
    BY <2>1 DEF RevocationInv, TermInv, EndedStartsRevoked
  <2>2. CASE e.token = t
    BY <1>4, <1>7, <2>2
  <2> QED
    BY <1>2, <2>1, <2>2
<1>10. DeadInv'
  <2>1. DisclosedIssued'
    BY <1>1, <1>3 DEF RevocationInv, DeadInv, DisclosedIssued, OnlyStart
  <2>2. DeadAreRevoked'
    BY <1>1, <1>2, <1>3 DEF RevocationInv, DeadInv, DeadAreRevoked
  <2> QED
    BY <1>1, <2>1, <2>2 DEF RevocationInv, DeadInv, LateRequestsStopAtLookup
<1> QED
  BY <1>6, <1>8, <1>9, <1>10 DEF RevocationInv, TermInv

(* revoke_flow takes away every token of the STARTs that the TERMINATE     *)
(* answers for.                                                            *)
LEMMA RevokeStep ==
  ASSUME TypeInv, RevocationInv, NEW x \in TermCall, OnTerminate(x)
  PROVE  RevocationInv'
<1> USE DEF history, stores
<1>1. OnlyTerm(x) /\ SameTerm(x) /\ term'[x].pc = "commit"
  BY TermMoves DEF OnTerminate, TypeInv
<1>2. /\ tokens' = {e \in tokens : e.flow # term[x].flow}
      /\ UNCHANGED <<start, get, issued, disclosed, dead>>
  BY DEF OnTerminate, RevokeFlow
<1>3. StoreInv'
  BY <1>2 DEF RevocationInv, StoreInv, StoredTokensIssued, StartTokensIssued,
              StoredUnderOwnFlow
<1>4. \A c \in TermCall : term'[c].ended = term[c].ended /\ term'[c].flow = term[c].flow
  BY <1>1 DEF OnlyTerm, SameTerm
<1>5. EndedOfOwnFlow'
  BY <1>2, <1>4 DEF RevocationInv, TermInv, EndedOfOwnFlow, EndedStarts
<1>6. EndedStartsRevoked'
  <2> SUFFICES ASSUME NEW c \in TermCall, term'[c].pc \notin {"idle", "revoke"},
                      NEW s \in term[c].ended, NEW e \in tokens'
               PROVE  e.token # start[s].token
    BY <1>2, <1>4 DEF EndedStartsRevoked
  <2>1. CASE c = x
    <3>1. s \in StartCall /\ start[s].flow = term[x].flow
      BY <2>1 DEF RevocationInv, TermInv, EndedOfOwnFlow, EndedStarts
    <3>2. e \in tokens /\ e.flow # term[x].flow
      BY <1>2
    <3> QED
      BY <3>1, <3>2 DEF RevocationInv, StoreInv, StoredUnderOwnFlow
  <2>2. CASE c # x
    BY <1>1, <1>2, <2>2 DEF RevocationInv, TermInv, EndedStartsRevoked, OnlyTerm
  <2> QED
    BY <2>1, <2>2
<1>7. DeadInv'
  BY <1>2 DEF RevocationInv, DeadInv, DisclosedIssued, DeadAreRevoked,
              LateRequestsStopAtLookup
<1> QED
  BY <1>3, <1>5, <1>6, <1>7 DEF RevocationInv, TermInv

(* The rest of TERMINATE: dispatch, acknowledgement, failure.              *)
LEMMA TermStepKeeps ==
  ASSUME TypeInv, RevocationInv, NEW x \in TermCall, OnlyTerm(x),
         term'[x].ended \subseteq EndedStarts(term'[x].flow),
         \/ term'[x].pc = "revoke"
         \/ SameTerm(x) /\ term[x].pc = "commit",
         dead' \in {dead, dead \cup Granted(term[x].ended)},
         dead' = dead \/ term[x].pc = "commit",
         UNCHANGED <<tokens, start, get, issued, disclosed>>
  PROVE  RevocationInv'
<1>1. StoreInv'
  BY DEF RevocationInv, StoreInv, StoredTokensIssued, StartTokensIssued,
         StoredUnderOwnFlow
<1>2. EndedOfOwnFlow'
  BY DEF RevocationInv, TermInv, EndedOfOwnFlow, EndedStarts, OnlyTerm
<1>3. EndedStartsRevoked'
  BY DEF RevocationInv, TermInv, EndedStartsRevoked, OnlyTerm, SameTerm
<1>4. \A t \in Granted(term[x].ended) : \E s \in term[x].ended :
        s \in StartCall /\ start[s].pc = "started" /\ start[s].token = t
  BY DEF RevocationInv, TermInv, EndedOfOwnFlow, EndedStarts, Granted
<1>5. DisclosedIssued'
  BY <1>4 DEF RevocationInv, DeadInv, DisclosedIssued
<1>6. DeadAreRevoked'
  BY <1>4 DEF RevocationInv, DeadInv, DeadAreRevoked, TermInv, EndedStartsRevoked
<1>7. DeadInv'
  BY <1>5, <1>6 DEF RevocationInv, DeadInv, LateRequestsStopAtLookup
<1> QED
  BY <1>1, <1>2, <1>3, <1>7 DEF RevocationInv, TermInv

(* A step of GET touches only its own request.                             *)
LEMMA GetStepKeeps ==
  ASSUME TypeInv, RevocationInv, NEW g \in GetCall, OnlyGet(g), UNCHANGED NotGet,
         get'[g].late => /\ get'[g].token \in dead
                         /\ get'[g].pc \notin GetChecked
                         /\ get'[g].status # 200
  PROVE  RevocationInv'
<1> USE DEF NotGet, stores, history
<1>1. StoreInv'
  BY DEF RevocationInv, StoreInv, StoredTokensIssued, StartTokensIssued,
         StoredUnderOwnFlow
<1>2. TermInv'
  BY DEF RevocationInv, TermInv, EndedOfOwnFlow, EndedStarts, EndedStartsRevoked
<1>3. DeadInv'
  BY DEF RevocationInv, DeadInv, DisclosedIssued, DeadAreRevoked,
         LateRequestsStopAtLookup, OnlyGet
<1> QED
  BY <1>1, <1>2, <1>3 DEF RevocationInv

(* A late request is at its lookup, and its token is not in the store.     *)
LEMMA LateGetStep ==
  ASSUME TypeInv, RevocationInv, NEW g \in GetCall, GetStep(g)
  PROVE  RevocationInv'
<1>1. /\ OnlyGet(g) /\ SameRequest(g) /\ get[g].pc \in GetRunning /\ UNCHANGED NotGet
  BY GetStepFrame DEF TypeInv
<1>2. ASSUME get'[g].late
      PROVE  /\ get'[g].token \in dead
             /\ get'[g].pc \notin GetChecked
             /\ get'[g].status # 200
  <2>1. get[g].token \in dead /\ get[g].pc \notin GetChecked
    BY <1>1, <1>2 DEF RevocationInv, DeadInv, LateRequestsStopAtLookup, SameRequest
  <2>2. GetLookup(g)
    BY <2>1 DEF GetStep, GetPolicyHeader, GetPolicyRows, GetEvaluate, GetFilePath,
                GetMediaType, GetReadFile, GetChecked
  <2>3. ~LookedUp(g)
    BY <2>1 DEF RevocationInv, DeadInv, DeadAreRevoked, LookedUp
  <2>4. Refused(g, {401, 403})
    BY <2>2, <2>3, GetLookupEffect DEF TypeInv
  <2> QED
    BY <1>1, <2>1, <2>4 DEF Refused, SameRequest, GetChecked
<1> QED
  BY <1>1, <1>2, GetStepKeeps

LEMMA RevocationStep == TypeInv /\ RevocationInv /\ [Next]_vars => RevocationInv'
<1> SUFFICES ASSUME TypeInv, RevocationInv, [Next]_vars PROVE RevocationInv'
  OBVIOUS
<1>t. TypeOK
  BY DEF TypeInv
<1>n. \A s \in StartCall : start[s].pc \in Tokenless => start[s].token = None
  BY DEF RevocationInv, StoreInv, StartTokensIssued
<1>1. ASSUME NEW s \in StartCall, NEW f \in Flow, NEW d \in Dataset,
             StartDispatch(s, f, d)
      PROVE  RevocationInv'
  <2>1. /\ OnlyStart(s) /\ start[s].pc = "idle" /\ start'[s].pc = "check"
        /\ start'[s].token = start[s].token
        /\ UNCHANGED <<stores, term, get, now, restarts, history>>
    BY <1>t, <1>1, StartDispatchEffect
  <2>2. start[s].token = None
    BY <1>n, <2>1 DEF Tokenless
  <2> QED
    BY <2>1, <2>2, QuietStartStep DEF StartEnded, Tokenless, stores, history
<1>2. ASSUME NEW s \in StartCall, OnStartCheck(s) PROVE RevocationInv'
  <2>1. /\ OnlyStart(s) /\ SameStart(s) /\ start[s].pc = "check"
        /\ start'[s].pc \in {"issue", "seed", "failed"}
        /\ UNCHANGED <<stores, term, get, now, restarts, history>>
    BY <1>t, <1>2, OnStartCheckEffect
  <2> QED
    BY <2>1, QuietStartStep DEF StartEnded, Tokenless, stores, history, SameStart
<1>3. ASSUME NEW s \in StartCall, OnStartSeed(s) PROVE RevocationInv'
  <2>1. /\ OnlyStart(s) /\ start[s].pc = "seed" /\ start'[s].pc \in {"issue", "seed"}
        /\ start'[s].flow = start[s].flow /\ start'[s].token = start[s].token
        /\ UNCHANGED <<tokens, term, get, now, restarts, history>>
    BY <1>3, OnStartSeedEffect
  <2> QED
    BY <2>1, QuietStartStep DEF StartEnded, Tokenless, history
<1>4. ASSUME NEW s \in StartCall, OnStartSeedFails(s) \/ StartAbort(s)
      PROVE  RevocationInv'
  <2>1. OnlyStart(s) /\ SameStart(s) /\ start'[s].pc = "failed"
    BY <1>t, <1>4, StartMoves DEF OnStartSeedFails, StartAbort
  <2>2. /\ start[s].pc \in {"seed", "commit"}
        /\ UNCHANGED <<tokens, term, get, history>>
    BY <1>4 DEF OnStartSeedFails, StartAbort, stores
  <2> QED
    BY <2>1, <2>2, QuietStartStep DEF StartEnded, Tokenless, SameStart, history
<1>5. ASSUME NEW s \in StartCall, OnStartIssue(s) PROVE RevocationInv'
  BY <1>5, IssueStep
<1>6. ASSUME NEW s \in StartCall, StartCommit(s) PROVE RevocationInv'
  <2>1. OnlyStart(s) /\ SameStart(s) /\ start'[s].pc = "started"
    BY <1>t, <1>6, StartMoves DEF StartCommit
  <2>2. /\ start[s].pc = "commit" /\ disclosed' = disclosed \cup {start[s].token}
        /\ UNCHANGED <<tokens, term, get, issued, dead>>
    BY <1>6 DEF StartCommit
  <2> QED
    BY <2>1, <2>2, QuietStartStep DEF StartEnded, Tokenless, SameStart
<1>7. ASSUME NEW x \in TermCall, NEW f \in Flow, TermDispatch(x, f)
      PROVE  RevocationInv'
  <2>1. /\ OnlyTerm(x)
        /\ term'[x] = [pc |-> "revoke", flow |-> f, ended |-> EndedStarts(f)]
        /\ UNCHANGED <<stores, start, get, history>>
    BY <1>t, <1>7, TermDispatchEffect
  <2>2. term'[x].ended = EndedStarts(f) /\ term'[x].flow = f /\ term'[x].pc = "revoke"
    BY <2>1
  <2> QED
    BY <2>1, <2>2, TermStepKeeps DEF stores, history
<1>8. ASSUME NEW x \in TermCall, OnTerminate(x) PROVE RevocationInv'
  BY <1>8, RevokeStep
<1>9. ASSUME NEW x \in TermCall, TermCommit(x) \/ TermAbort(x)
       PROVE  RevocationInv'
  <2>1. OnlyTerm(x) /\ SameTerm(x)
    BY <1>t, <1>9, TermMoves DEF TermCommit, TermAbort
  <2>2. term'[x].ended \subseteq EndedStarts(term'[x].flow)
    BY <2>1 DEF RevocationInv, TermInv, EndedOfOwnFlow, SameTerm
  <2>3. /\ term[x].pc = "commit"
        /\ dead' \in {dead, dead \cup Granted(term[x].ended)}
        /\ UNCHANGED <<tokens, start, get, issued, disclosed>>
    BY <1>9 DEF TermCommit, TermAbort, stores, history
  <2> QED
    BY <2>1, <2>2, <2>3, TermStepKeeps
<1>10. ASSUME UNCHANGED <<tokens, start, term, get, history>> PROVE RevocationInv'
  BY <1>10 DEF RevocationInv, StoreInv, StoredTokensIssued, StartTokensIssued,
       StoredUnderOwnFlow, TermInv, EndedOfOwnFlow, EndedStarts, EndedStartsRevoked,
       DeadInv, DisclosedIssued, DeadAreRevoked,
       LateRequestsStopAtLookup, history
<1>11. ASSUME NEW g \in GetCall, NEW t \in disclosed \cup {None},
              NEW d \in Dataset, GetSend(g, t, d)
       PROVE  RevocationInv'
  <2>1. OnlyGet(g) /\ UNCHANGED NotGet
    BY <1>t, <1>11, GetSendEffect
  <2>2. get'[g] = Request("lookup", t, d, t \in dead)
    BY <1>t, <1>11, GetSendEffect
  <2>3. /\ get'[g].late = (t \in dead) /\ get'[g].token = t
        /\ get'[g].pc = "lookup" /\ get'[g].status = None
    BY <2>2 DEF Request
  <2>4. None # 200
    BY ConstantsAssumption
  <2> QED
    BY <2>1, <2>3, <2>4, GetStepKeeps DEF GetChecked
<1>12. ASSUME NEW g \in GetCall, GetStep(g) PROVE RevocationInv'
  BY <1>12, LateGetStep
<1>13. CASE Restart
  <2>1. \A s \in StartCall :
          SameStart(s) /\ start'[s].pc = IF start[s].pc \in StartRunning
                                         THEN "lost" ELSE start[s].pc
    BY <1>t, <1>13, RestartEffect
  <2>2. \A x \in TermCall :
          SameTerm(x) /\ term'[x].pc = IF term[x].pc \in TermRunning
                                       THEN "lost" ELSE term[x].pc
    BY <1>t, <1>13, RestartEffect
  <2>3. \A g \in GetCall :
          /\ SameRequest(g)
          /\ get'[g].pc = IF get[g].pc \in GetRunning THEN "lost" ELSE get[g].pc
          /\ get'[g].status = get[g].status
    BY <1>t, <1>13, RestartEffect
  <2>4. tokens' = {} /\ dead' = disclosed /\ UNCHANGED <<issued, disclosed>>
    BY <1>13 DEF Restart
  <2>5. StoreInv'
    BY <2>1, <2>4 DEF RevocationInv, StoreInv, StoredTokensIssued,
       StartTokensIssued, StoredUnderOwnFlow, SameStart, StartRunning, Tokenless
  <2>6. \A c \in StartCall :
          /\ start'[c].flow = start[c].flow
          /\ start[c].pc \in StartEnded => start'[c].pc \in StartEnded
    BY <2>1 DEF SameStart, StartEnded, StartRunning
  <2>7. TermInv'
    <3>1. EndedOfOwnFlow'
      BY <2>2, <2>6 DEF RevocationInv, TermInv, EndedOfOwnFlow, EndedStarts, SameTerm
    <3> QED
      BY <2>4, <3>1 DEF TermInv, EndedStartsRevoked
  <2>8. DeadInv'
    <3>1. DisclosedIssued'
      BY <2>1, <2>4 DEF RevocationInv, DeadInv, DisclosedIssued, SameStart, StartRunning
    <3> QED
      BY <2>3, <2>4, <3>1 DEF RevocationInv, DeadInv, DisclosedIssued, DeadAreRevoked,
         LateRequestsStopAtLookup, SameRequest, GetChecked
  <2> QED
    BY <2>5, <2>7, <2>8 DEF RevocationInv
<1> QED
  BY <1>1, <1>2, <1>3, <1>4, <1>5, <1>6, <1>7, <1>8, <1>9, <1>10, <1>11, <1>12, <1>13
     DEF Next, StartStep, TermStep, SdkComplete, Tick, vars, stores

(* The invariant about dead tokens, of every state of DataPlane.          *)
THEOREM RevocationHolds == Spec => []RevocationInv
<1>1. Spec => []TypeInv
  BY TypeInit, TypeStep, PTL DEF Spec
<1> QED
  BY <1>1, RevocationInit, RevocationStep, PTL DEF Spec

(* After an acknowledged TERMINATE, or a restart, no request that carries  *)
(* a token the terminated flow had been given is ever served.              *)
THEOREM RevocationFinal == Spec => []TerminatedTokensStayDead
<1>1. RevocationInv => TerminatedTokensStayDead
  BY DEF RevocationInv, DeadInv, LateRequestsStopAtLookup, TerminatedTokensStayDead
<1> QED
  BY <1>1, RevocationHolds, PTL

(* A TERMINATE's hook leaves no live token of a START that had ended when  *)
(* it came, answered or not, and none comes back: under any SDK, whatever  *)
(* fails after its hook, is repeated or is sent again.                     *)
THEOREM EndedStartsStayRevoked == Spec => []EndedStartsRevoked
<1>1. RevocationInv => EndedStartsRevoked
  BY DEF RevocationInv, TermInv
<1> QED
  BY <1>1, RevocationHolds, PTL

-----------------------------------------------------------------------------
(***************************************************************************)
(* How long tokens live: proof of GrantedTokensLive.                       *)
(*                                                                         *)
(* The argument: an entry leaves the store by a revocation of its flow or  *)
(* because its token is issued again, and UUIDs do not repeat.             *)
(***************************************************************************)

(* No TERMINATE of f has run its hook.                                     *)
Unrevoked(f) == \A x \in TermCall : term[x].flow = f => term[x].pc = "revoke"

HeldTokensStored ==
  \A s \in StartCall :
    HeldByStart(s) /\ start[s].token \notin dead /\ Unrevoked(start[s].flow) =>
      Entry(start[s].token, start[s].flow, start[s].dataset) \in tokens

(* A TERMINATE that has not been made is no flow's.                        *)
FlowsFilledIn ==
  /\ \A s \in StartCall : HeldByStart(s) => start[s].flow \in Flow
  /\ \A x \in TermCall : term[x].pc = "idle" => term[x].flow = None

GrantedInv == HeldTokensStored /\ FlowsFilledIn

-----------------------------------------------------------------------------
LEMMA GrantedInit == Init => GrantedInv
BY DEF Init, GrantedInv, HeldTokensStored, FlowsFilledIn, HeldByStart

(* A START that holds no token afterwards.                                 *)
LEMMA UnheldStartStep ==
  ASSUME GrantedInv, NEW s \in StartCall, OnlyStart(s),
         start'[s].pc \notin {"commit", "started"},
         UNCHANGED <<tokens, term, dead, disclosed>>
  PROVE  GrantedInv'
BY DEF GrantedInv, HeldTokensStored, FlowsFilledIn, HeldByStart,
       Unrevoked, OnlyStart

LEMMA GrantedIssueStep ==
  ASSUME TypeInv, RevocationInv, GrantedInv, NEW s \in StartCall, OnStartIssue(s)
  PROVE  GrantedInv'
<1>1. PICK t \in Token \ issued :
        /\ OnlyStart(s)
        /\ start[s].pc = "issue" /\ start'[s].pc = "commit"
        /\ start'[s].flow = start[s].flow
        /\ start'[s].dataset = start[s].dataset
        /\ start'[s].token = t
        /\ tokens' = {e \in tokens : e.token # t}
                       \cup {Entry(t, start[s].flow, start[s].dataset)}
        /\ UNCHANGED <<term, disclosed, dead>>
  BY OnStartIssueEffect
<1>2. ASSUME NEW c \in StartCall, c # s, HeldByStart(c),
             Entry(start[c].token, start[c].flow, start[c].dataset) \in tokens
      PROVE  Entry(start[c].token, start[c].flow, start[c].dataset) \in tokens'
  <2>1. start[c].token # t
    BY <1>1, <1>2, ConstantsAssumption DEF RevocationInv, StoreInv, StartTokensIssued
  <2>2. Entry(start[c].token, start[c].flow, start[c].dataset).token = start[c].token
    BY DEF Entry
  <2> QED
    BY <1>1, <1>2, <2>1, <2>2
<1>3. HeldTokensStored'
  BY <1>1, <1>2 DEF GrantedInv, HeldTokensStored, HeldByStart, Unrevoked, OnlyStart
<1>4. start[s].flow \in Flow
  BY <1>1 DEF TypeInv, CallsFilledIn, StartRunning
<1> QED
  BY <1>1, <1>3, <1>4
     DEF GrantedInv, FlowsFilledIn, HeldByStart, OnlyStart

(* A TERMINATE moves on, and revokes nothing of another flow.              *)
LEMMA GrantedTermStep ==
  ASSUME GrantedInv, NEW x \in TermCall, OnlyTerm(x), UNCHANGED <<start, disclosed>>,
         term'[x].pc # "idle", dead \subseteq dead',
         \A e \in tokens : e.flow # term[x].flow => e \in tokens',
         \/ term[x].pc = "idle" /\ UNCHANGED tokens
         \/ term'[x].flow = term[x].flow /\ term'[x].pc # "revoke"
  PROVE  GrantedInv'
<1>1. ASSUME NEW s \in StartCall, HeldByStart(s), start[s].token \notin dead',
             Unrevoked(start[s].flow)'
      PROVE  Entry(start[s].token, start[s].flow, start[s].dataset) \in tokens'
  <2>1. start[s].flow \in Flow /\ start[s].flow # None
    BY <1>1, ConstantsAssumption DEF GrantedInv, FlowsFilledIn
  <2>2. term[x].pc = "idle" => term[x].flow = None
    BY DEF GrantedInv, FlowsFilledIn
  <2>3. \/ term[x].flow # start[s].flow
        \/ UNCHANGED tokens /\ term[x].flow = None
    BY <1>1, <2>2 DEF Unrevoked
  <2>4. term[x].flow # start[s].flow
    BY <2>1, <2>3
  <2>5. Unrevoked(start[s].flow)
    BY <1>1, <2>4 DEF Unrevoked, OnlyTerm
  <2>6. Entry(start[s].token, start[s].flow, start[s].dataset) \in tokens
    BY <1>1, <2>5 DEF GrantedInv, HeldTokensStored
  <2> QED
    BY <2>4, <2>6 DEF Entry
<1>2. HeldTokensStored'
  BY <1>1 DEF HeldTokensStored, HeldByStart, Unrevoked
<1> QED
  BY <1>2 DEF GrantedInv, FlowsFilledIn, HeldByStart, OnlyTerm

LEMMA GrantedRestart ==
  ASSUME TypeOK, RevocationInv, GrantedInv, Restart
  PROVE  GrantedInv'
<1>1. \A s \in StartCall :
        SameStart(s) /\ start'[s].pc = IF start[s].pc \in StartRunning
                                       THEN "lost" ELSE start[s].pc
  BY RestartEffect
<1>2. \A x \in TermCall :
        SameTerm(x) /\ term'[x].pc = IF term[x].pc \in TermRunning
                                     THEN "lost" ELSE term[x].pc
  BY RestartEffect
<1>3. dead' = disclosed /\ disclosed' = disclosed
  BY DEF Restart
<1>4. ASSUME NEW s \in StartCall, HeldByStart(s)'
      PROVE  /\ start[s].pc = "started" /\ start'[s].pc = "started"
             /\ start'[s].token \in dead'
  <2>1. start[s].pc = "started" /\ start'[s].pc = "started"
    BY <1>1, <1>4 DEF HeldByStart, StartRunning
  <2> QED
    BY <1>1, <1>3, <2>1 DEF RevocationInv, DeadInv, DisclosedIssued, SameStart
<1>5. HeldTokensStored'
  BY <1>4 DEF HeldTokensStored
<1>6. FlowsFilledIn'
  BY <1>1, <1>2, <1>4 DEF GrantedInv, FlowsFilledIn, HeldByStart, SameStart, SameTerm
<1> QED
  BY <1>5, <1>6 DEF GrantedInv

LEMMA GrantedStep == TypeInv /\ RevocationInv /\ GrantedInv /\ [Next]_vars => GrantedInv'
<1> SUFFICES ASSUME TypeInv, RevocationInv, GrantedInv, [Next]_vars PROVE GrantedInv'
  OBVIOUS
<1> USE DEF stores, history
<1>t. TypeOK
  BY DEF TypeInv
<1>1. ASSUME NEW s \in StartCall, NEW f \in Flow, NEW d \in Dataset,
             StartDispatch(s, f, d)
      PROVE  GrantedInv'
  BY <1>t, <1>1, StartDispatchEffect, UnheldStartStep
<1>2. ASSUME NEW s \in StartCall, OnStartCheck(s) PROVE GrantedInv'
  BY <1>t, <1>2, OnStartCheckEffect, UnheldStartStep
<1>3. ASSUME NEW s \in StartCall, OnStartSeed(s) PROVE GrantedInv'
  BY <1>3, OnStartSeedEffect, UnheldStartStep
<1>4. ASSUME NEW s \in StartCall, OnStartSeedFails(s) \/ StartAbort(s)
      PROVE  GrantedInv'
  <2>1. OnlyStart(s) /\ start'[s].pc = "failed"
    BY <1>t, <1>4, StartMoves DEF OnStartSeedFails, StartAbort
  <2> QED
    BY <1>4, <2>1, UnheldStartStep DEF OnStartSeedFails, StartAbort
<1>5. ASSUME NEW s \in StartCall, OnStartIssue(s) PROVE GrantedInv'
  BY <1>5, GrantedIssueStep
<1>6. ASSUME NEW s \in StartCall, StartCommit(s) PROVE GrantedInv'
  <2>1. OnlyStart(s) /\ SameStart(s) /\ start'[s].pc = "started"
    BY <1>t, <1>6, StartMoves DEF StartCommit
  <2>2. /\ start[s].pc = "commit" /\ disclosed' = disclosed \cup {start[s].token}
        /\ UNCHANGED <<tokens, term, dead>>
    BY <1>6 DEF StartCommit
  <2> QED
    BY <2>1, <2>2 DEF GrantedInv, HeldTokensStored, FlowsFilledIn,
                      HeldByStart, Unrevoked, OnlyStart, SameStart
<1>7. ASSUME NEW x \in TermCall, NEW f \in Flow, TermDispatch(x, f)
      PROVE  GrantedInv'
  <2>1. /\ OnlyTerm(x)
        /\ term'[x] = [pc |-> "revoke", flow |-> f, ended |-> EndedStarts(f)]
    BY <1>t, <1>7, TermDispatchEffect
  <2>2. term'[x].pc = "revoke"
    BY <2>1
  <2> QED
    BY <1>7, <2>1, <2>2, GrantedTermStep DEF TermDispatch
<1>8. ASSUME NEW x \in TermCall, OnTerminate(x) PROVE GrantedInv'
  <2>1. OnlyTerm(x) /\ SameTerm(x) /\ term'[x].pc = "commit"
    BY <1>t, <1>8, TermMoves DEF OnTerminate
  <2> QED
    BY <1>8, <2>1, GrantedTermStep DEF OnTerminate, RevokeFlow, SameTerm
<1>9. ASSUME NEW x \in TermCall, TermCommit(x) \/ TermAbort(x) PROVE GrantedInv'
  <2>1. OnlyTerm(x) /\ SameTerm(x) /\ term'[x].pc \in {"terminated", "failed"}
    BY <1>t, <1>9, TermMoves DEF TermCommit, TermAbort
  <2> QED
    BY <1>9, <2>1, GrantedTermStep DEF TermCommit, TermAbort, SameTerm
<1>10. ASSUME UNCHANGED <<tokens, start, term, history>> PROVE GrantedInv'
  BY <1>10 DEF GrantedInv, HeldTokensStored, FlowsFilledIn,
               HeldByStart, Unrevoked
<1>11. ASSUME NEW g \in GetCall,
              GetStep(g) \/ \E t \in disclosed \cup {None}, d \in Dataset : GetSend(g, t, d)
       PROVE  GrantedInv'
  BY <1>t, <1>10, <1>11, GetStepFrame, GetSendEffect DEF NotGet
<1>12. CASE Restart
  BY <1>t, <1>12, GrantedRestart
<1> QED
  BY <1>1, <1>2, <1>3, <1>4, <1>5, <1>6, <1>7, <1>8, <1>9, <1>10, <1>11, <1>12
     DEF Next, StartStep, TermStep, SdkComplete, Tick, vars

(* A token that a client holds works until the process ends or the hook of *)
(* a TERMINATE of its flow runs, under any SDK.                            *)
THEOREM GrantedTokensStayLive == Spec => []GrantedTokensLive
<1>1. GrantedInv => GrantedTokensLive
  BY DEF GrantedInv, HeldTokensStored, HeldByStart, Unrevoked, GrantedTokensLive
<1>2. Spec => []TypeInv
  BY TypeInit, TypeStep, PTL DEF Spec
<1> QED
  BY <1>1, <1>2, RevocationHolds, GrantedInit, GrantedStep, PTL DEF Spec

=============================================================================
