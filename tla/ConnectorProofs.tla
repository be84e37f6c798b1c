-------------------------- MODULE ConnectorProofs --------------------------
(***************************************************************************)
(* The calls of FileOfferConnector read as one look at the graph each,     *)
(* however many callers and seedings there are and whatever is seeded.     *)
(* The argument: the store only grows, so what a call has read is still    *)
(* there when its last query completes the Document, and a query that      *)
(* finds nothing decides the answer at that very moment.  The same holds   *)
(* of offers: one that is whole when a call begins is whole when the call  *)
(* reads it, so the call gets all of it (WholeOffersGot).                  *)
(***************************************************************************)
EXTENDS Connector, ConfigGraphReads

(* calls has its shape; the fields nothing depends on are not typed.       *)
CallsShape ==
  /\ calls = [c \in Call |-> calls[c]]
  /\ \A c \in Call :
       /\ calls[c] = [pc |-> calls[c].pc, op |-> calls[c].op,
                      remote_id |-> calls[c].remote_id, read |-> calls[c].read,
                      answer |-> calls[c].answer, seeded |-> calls[c].seeded]
       /\ calls[c].pc \in Reading \cup {"idle", "answered"}
       /\ calls[c].remote_id \in Dataset

(* What a call has read so far is in the graph.                            *)
StillThere(c) ==
  LET id == calls[c].remote_id IN
  /\ calls[c].pc = "filePath"  => calls[c].read = <<>>
  /\ calls[c].pc = "mediaType" => \E path \in file_path(id) : calls[c].read = <<path>>
  /\ calls[c].pc = "header" =>
       \E path \in file_path(id), media \in media_type(id) : calls[c].read = <<path, media>>
  /\ calls[c].pc = "permissions" =>
       \E path \in file_path(id), media \in media_type(id), head \in header(id) :
         calls[c].read = <<path, media, head>>
  /\ calls[c].pc \in Reading => calls[c].answer = Unanswered

ReadsStillThere == CallsShape /\ \A c \in Call : StillThere(c)

-----------------------------------------------------------------------------
(* Nobody has read anything at first.                                     *)
LEMMA InitThere == ASSUME Dataset # {}, Init PROVE ReadsStillThere
BY DEF Init, ReadsStillThere, CallsShape, StillThere, Reading, Unanswered, Failed

(* A step of the graph adds quads and leaves calls alone.                  *)
LEMMA GraphGrows == ASSUME GraphNext PROVE quads \subseteq quads'
BY DEF GraphNext, SeedBegin, SeedInsert, SeedFails

(* A query of a larger store finds at least as much.                      *)
LEMMA ObjectsGrow ==
  ASSUME quads \subseteq quads', NEW subject, NEW predicate
  PROVE  Objects(subject, predicate) \subseteq Objects(subject, predicate)'
BY DEF Objects

(* So do file_path, media_type and the header query.                      *)
LEMMA AnswersGrow ==
  ASSUME quads \subseteq quads', NEW id
  PROVE  /\ file_path(id) \subseteq file_path(id)'
         /\ media_type(id) \subseteq media_type(id)'
         /\ header(id) \subseteq header(id)'
BY ObjectsGrow DEF file_path, media_type, header, Objects

(* A call that is left alone keeps what it has read.                      *)
LEMMA UnchangedKeep ==
  ASSUME ReadsStillThere, quads \subseteq quads', UNCHANGED calls
  PROVE  ReadsStillThere'
<1>1. CallsShape'
  BY DEF ReadsStillThere, CallsShape
<1>2. ASSUME NEW c \in Call PROVE StillThere(c)'
  BY AnswersGrow DEF ReadsStillThere, StillThere
<1> QED
  BY <1>1, <1>2 DEF ReadsStillThere

(* A call of c changes c's record only.                                    *)
LEMMA OneCallChanges ==
  ASSUME ReadsStillThere, UNCHANGED graphVars, NEW c \in Call, NEW r,
         calls' = [calls EXCEPT ![c] = r],
         r = [pc |-> r.pc, op |-> r.op, remote_id |-> r.remote_id, read |-> r.read,
              answer |-> r.answer, seeded |-> r.seeded],
         r.pc \in Reading \cup {"idle", "answered"}, r.remote_id \in Dataset,
         StillThere(c)'
  PROVE  ReadsStillThere'
<1>1. CallsShape'
  BY DEF ReadsStillThere, CallsShape
<1>2. ASSUME NEW b \in Call, b # c PROVE StillThere(b)'
  <2>1. calls'[b] = calls[b]
    BY <1>2 DEF ReadsStillThere, CallsShape
  <2>2. quads' = quads
    BY DEF graphVars
  <2> QED
    BY <1>2, <2>1, <2>2, AnswersGrow DEF ReadsStillThere, StillThere
<1> QED
  BY <1>1, <1>2 DEF ReadsStillThere

(* get begins with nothing read.                                          *)
LEMMA StartKeeps ==
  ASSUME ReadsStillThere, NEW c \in Call, NEW op, NEW kind, NEW id \in Dataset,
         Start(c, op, kind, id)
  PROVE  ReadsStillThere'
<1> DEFINE r == IF kind = "data-offer" THEN CallRecord("filePath", op, id, Unanswered)
                ELSE CallRecord("answered", op, id, Failed("UnsupportedKind"))
<1>1. calls' = [calls EXCEPT ![c] = r] /\ UNCHANGED graphVars
  BY DEF Start
<1>2. calls'[c] = r
  BY <1>1 DEF ReadsStillThere, CallsShape
<1>3. StillThere(c)'
  BY <1>2 DEF StillThere, CallRecord, Reading
<1>4. /\ r = [pc |-> r.pc, op |-> r.op, remote_id |-> r.remote_id, read |-> r.read,
              answer |-> r.answer, seeded |-> r.seeded]
      /\ r.pc \in Reading \cup {"idle", "answered"} /\ r.remote_id \in Dataset
  BY DEF CallRecord, Reading
<1> HIDE DEF r
<1> QED
  BY <1>1, <1>3, <1>4, OneCallChanges

(* push reads nothing.                                                    *)
LEMMA PushKeeps ==
  ASSUME ReadsStillThere, NEW c \in Call, Push(c)
  PROVE  ReadsStillThere'
<1> DEFINE r == CallRecord("answered", "push", calls[c].remote_id, Failed("Unsupported"))
<1>1. calls' = [calls EXCEPT ![c] = r] /\ UNCHANGED graphVars
  BY DEF Push
<1>2. calls'[c] = r
  BY <1>1 DEF ReadsStillThere, CallsShape
<1>3. StillThere(c)'
  BY <1>2 DEF StillThere, CallRecord, Reading
<1>4. /\ r = [pc |-> r.pc, op |-> r.op, remote_id |-> r.remote_id, read |-> r.read,
              answer |-> r.answer, seeded |-> r.seeded]
      /\ r.pc \in Reading \cup {"idle", "answered"} /\ r.remote_id \in Dataset
  BY DEF CallRecord, ReadsStillThere, CallsShape
<1> HIDE DEF r
<1> QED
  BY <1>1, <1>3, <1>4, OneCallChanges

(* A query that found something adds it to what was read.                 *)
LEMMA ProceedKeeps ==
  ASSUME ReadsStillThere, NEW c \in Call, NEW pc \in Reading \cup {"answered"},
         NEW read, NEW answer, Proceed(c, pc, read, answer), UNCHANGED graphVars,
         calls'[c] = [pc |-> pc, op |-> calls[c].op, remote_id |-> calls[c].remote_id,
                      read |-> read, answer |-> answer, seeded |-> calls[c].seeded]
           => StillThere(c)'
  PROVE  ReadsStillThere'
<1> DEFINE r == [pc |-> pc, op |-> calls[c].op, remote_id |-> calls[c].remote_id,
                 read |-> read, answer |-> answer, seeded |-> calls[c].seeded]
<1>1. calls' = [calls EXCEPT ![c] = r]
  BY DEF Proceed
<1>2. calls'[c] = r
  BY <1>1 DEF ReadsStillThere, CallsShape
<1>3. StillThere(c)'
  BY <1>2
<1>4. /\ r = [pc |-> r.pc, op |-> r.op, remote_id |-> r.remote_id, read |-> r.read,
              answer |-> r.answer, seeded |-> r.seeded]
      /\ r.pc \in Reading \cup {"idle", "answered"} /\ r.remote_id \in Dataset
  BY DEF ReadsStillThere, CallsShape
<1> HIDE DEF r
<1> QED
  BY <1>1, <1>3, <1>4, OneCallChanges

(* A call that is over has nothing to keep.                               *)
LEMMA AnsweredKeepsNothing ==
  ASSUME NEW c, calls'[c].pc = "answered" PROVE StillThere(c)'
<1>1. (calls[c].pc \notin Reading)'
  BY DEF Reading
<1> QED
  BY <1>1, Zenon DEF StillThere, Reading

(* Answering a call leaves the others what they have read.                *)
LEMMA AnswerKeeps ==
  ASSUME ReadsStillThere, NEW c \in Call, NEW read, NEW answer,
         Proceed(c, "answered", read, answer), UNCHANGED graphVars
  PROVE  ReadsStillThere'
<1>1. calls'[c].pc = "answered"
  BY DEF Proceed, ReadsStillThere, CallsShape
<1>2. StillThere(c)'
  BY <1>1, AnsweredKeepsNothing
<1> QED
  BY <1>2, ProceedKeeps

(* Either the query fails the call, or it adds what it found.              *)
LEMMA QueryKeeps ==
  ASSUME ReadsStillThere, NEW c \in Call, NEW pc, NEW found, NEW next \in Reading,
         Query(c, pc, found, next),
         \A value \in found :
           calls'[c] = [pc |-> next, op |-> calls[c].op,
                        remote_id |-> calls[c].remote_id,
                        read |-> Append(calls[c].read, value),
                        answer |-> Unanswered, seeded |-> calls[c].seeded]
             => StillThere(c)'
  PROVE  ReadsStillThere'
<1>1. UNCHANGED graphVars
  BY DEF Query
<1>2. CASE Proceed(c, "answered", calls[c].read, Failed("Api"))
  BY <1>1, <1>2, AnswerKeeps
<1>3. ASSUME NEW value \in found,
             Proceed(c, next, Append(calls[c].read, value), Unanswered)
      PROVE  ReadsStillThere'
  BY <1>1, <1>3, ProceedKeeps
<1> QED
  BY <1>2, <1>3 DEF Query

(* The components of a sequence of two.                                   *)
LEMMA AppendToOne ==
  ASSUME NEW x, NEW y PROVE Append(<<x>>, y) = <<x, y>>
<1> DEFINE S == {x, y}
           s == Append(<<x>>, y)
           t == <<x, y>>
<1>1. <<x>> \in Seq(S) /\ Len(<<x>>) = 1
  OBVIOUS
<1>2. s \in Seq(S) /\ Len(s) = 2 /\ s[1] = x /\ s[2] = y
  BY <1>1, AppendProperties
<1>3. t \in Seq(S) /\ Len(t) = 2 /\ t[1] = x /\ t[2] = y
  OBVIOUS
<1> HIDE DEF s, t, S
<1>4. \A i \in 1..Len(s) : i = 1 \/ i = 2
  BY <1>2
<1>5. s = t
  BY <1>2, <1>3, <1>4, SeqEqual
<1> QED
  BY <1>5 DEF s, t

(* The components of a sequence of three.                                 *)
LEMMA AppendToTwo ==
  ASSUME NEW x, NEW y, NEW z PROVE Append(<<x, y>>, z) = <<x, y, z>>
<1> DEFINE S == {x, y, z}
           s == Append(<<x, y>>, z)
           t == <<x, y, z>>
<1>1. <<x, y>> \in Seq(S) /\ Len(<<x, y>>) = 2
  OBVIOUS
<1>2. s \in Seq(S) /\ Len(s) = 3 /\ s[1] = x /\ s[2] = y /\ s[3] = z
  BY <1>1, AppendProperties
<1>3. t \in Seq(S) /\ Len(t) = 3 /\ t[1] = x /\ t[2] = y /\ t[3] = z
  OBVIOUS
<1> HIDE DEF s, t, S
<1>4. \A i \in 1..Len(s) : i = 1 \/ i = 2 \/ i = 3
  BY <1>2
<1>5. s = t
  BY <1>2, <1>3, <1>4, SeqEqual
<1> QED
  BY <1>5 DEF s, t

(* The first query, file_path.                                            *)
LEMMA ReadFilePathKeeps ==
  ASSUME ReadsStillThere, NEW c \in Call, ReadFilePath(c) PROVE ReadsStillThere'
<1> DEFINE id == calls[c].remote_id
<1>1. Query(c, "filePath", file_path(id), "mediaType")
  BY DEF ReadFilePath
<1>2. calls[c].read = <<>> /\ quads' = quads
  BY <1>1 DEF Query, ReadsStillThere, StillThere, graphVars
<1>3. ASSUME NEW value \in file_path(id),
             calls'[c] = [pc |-> "mediaType", op |-> calls[c].op, remote_id |-> id,
                          read |-> Append(calls[c].read, value),
                          answer |-> Unanswered, seeded |-> calls[c].seeded]
      PROVE  StillThere(c)'
  <2>1. calls'[c].read = <<value>>
    BY <1>2, <1>3
  <2>2. value \in file_path(calls[c].remote_id)'
    BY <1>2, <1>3 DEF file_path, Objects
  <2> QED
    BY <1>3, <2>1, <2>2 DEF StillThere, Reading, Unanswered, Failed
<1> QED
  BY <1>1, <1>3, QueryKeeps DEF Reading

(* The second query, media_type.                                          *)
LEMMA ReadMediaTypeKeeps ==
  ASSUME ReadsStillThere, NEW c \in Call, ReadMediaType(c) PROVE ReadsStillThere'
<1> DEFINE id == calls[c].remote_id
<1>1. Query(c, "mediaType", media_type(id), "header")
  BY DEF ReadMediaType
<1>2. PICK path \in file_path(id) : calls[c].read = <<path>>
  BY <1>1 DEF Query, ReadsStillThere, StillThere
<1>3. quads' = quads
  BY <1>1 DEF Query, graphVars
<1>4. ASSUME NEW value \in media_type(id),
             calls'[c] = [pc |-> "header", op |-> calls[c].op, remote_id |-> id,
                          read |-> Append(calls[c].read, value),
                          answer |-> Unanswered, seeded |-> calls[c].seeded]
      PROVE  StillThere(c)'
  <2>1. calls'[c].read = <<path, value>>
    BY <1>2, <1>4, AppendToOne
  <2>2. path \in file_path(calls[c].remote_id)'
        /\ value \in media_type(calls[c].remote_id)'
    BY <1>3, <1>4 DEF file_path, media_type, Objects
  <2> QED
    BY <1>4, <2>1, <2>2 DEF StillThere, Reading, Unanswered, Failed
<1> QED
  BY <1>1, <1>4, QueryKeeps DEF Reading

(* The third query, the header of policy_jsonld.                          *)
LEMMA ReadHeaderKeeps ==
  ASSUME ReadsStillThere, NEW c \in Call, ReadHeader(c) PROVE ReadsStillThere'
<1> DEFINE id == calls[c].remote_id
<1>1. Query(c, "header", header(id), "permissions")
  BY DEF ReadHeader
<1>2. PICK path \in file_path(id), media \in media_type(id) : calls[c].read = <<path, media>>
  BY <1>1 DEF Query, ReadsStillThere, StillThere
<1>3. quads' = quads
  BY <1>1 DEF Query, graphVars
<1>4. ASSUME NEW value \in header(id),
             calls'[c] = [pc |-> "permissions", op |-> calls[c].op, remote_id |-> id,
                          read |-> Append(calls[c].read, value),
                          answer |-> Unanswered, seeded |-> calls[c].seeded]
      PROVE  StillThere(c)'
  <2>1. calls'[c].read = <<path, media, value>>
    BY <1>2, <1>4, AppendToTwo
  <2>2. path \in file_path(calls[c].remote_id)'
        /\ media \in media_type(calls[c].remote_id)'
        /\ value \in header(calls[c].remote_id)'
    BY <1>3, <1>4 DEF file_path, media_type, header, Objects
  <2> QED
    BY <1>4, <2>1, <2>2 DEF StillThere, Reading, Unanswered, Failed
<1> QED
  BY <1>1, <1>4, QueryKeeps DEF Reading

(* The last query, the permissions of policy_jsonld.                      *)
LEMMA ReadPermissionsKeeps ==
  ASSUME ReadsStillThere, NEW c \in Call, ReadPermissions(c) PROVE ReadsStillThere'
<1> DEFINE read == calls[c].read
<1>1. PICK array : Proceed(c, "answered", read,
                     Document(calls[c].remote_id, read[1], read[2], read[3], array))
  BY DEF ReadPermissions
<1>2. UNCHANGED graphVars
  BY DEF ReadPermissions
<1> QED
  BY <1>1, <1>2, AnswerKeeps

(* A step of a seeding takes nothing away that was read.                  *)
LEMMA GraphStepKeeps ==
  ASSUME ReadsStillThere, GraphNext, UNCHANGED calls PROVE ReadsStillThere'
BY GraphGrows, UnchangedKeep

(* By InitThere and the lemmas of the actions.                             *)
THEOREM ReadsStayTrue == Spec => []ReadsStillThere
<1>1. Init => ReadsStillThere
  BY InitThere, PrimaryAssumption
<1>2. ReadsStillThere /\ [Next]_vars => ReadsStillThere'
  <2> SUFFICES ASSUME ReadsStillThere, [Next]_vars PROVE ReadsStillThere'
    OBVIOUS
  <2>1. CASE UNCHANGED vars
    BY <2>1, UnchangedKeep DEF vars, graphVars
  <2>2. CASE GraphNext /\ UNCHANGED calls
    BY <2>2, GraphStepKeeps
  <2>3. ASSUME NEW c \in Call, NEW kind, Pull(c, kind) PROVE ReadsStillThere'
    BY <2>3, PrimaryAssumption, StartKeeps DEF Pull
  <2>4. ASSUME NEW c \in Call, NEW kind, NEW id \in Dataset, Get(c, kind, id)
        PROVE  ReadsStillThere'
    BY <2>4, StartKeeps DEF Get
  <2>5. ASSUME NEW c \in Call, Push(c) PROVE ReadsStillThere'
    BY <2>5, PushKeeps
  <2>6. ASSUME NEW c \in Call,
               ReadFilePath(c) \/ ReadMediaType(c) \/ ReadHeader(c) \/ ReadPermissions(c)
        PROVE  ReadsStillThere'
    BY <2>6, ReadFilePathKeeps, ReadMediaTypeKeeps, ReadHeaderKeeps, ReadPermissionsKeeps
  <2> QED
    BY <2>1, <2>2, <2>3, <2>4, <2>5, <2>6 DEF Next
<1> QED
  BY <1>1, <1>2, PTL DEF Spec

-----------------------------------------------------------------------------
(* The refinement.                                                         *)

(* No call is open at first, here as there.                               *)
LEMMA InitRefines == ASSUME Init PROVE Atomic!AtomicInit
<1>1. ASSUME NEW id \in Dataset PROVE DocumentsOf(id) = {}
  BY DEF Init, GraphInit, DocumentsOf, file_path, Objects
<1>2. AsSeen = [c \in Call |-> Atomic!IdleCall]
  BY DEF Init, AsSeen, Reading, Unanswered, Failed, Atomic!IdleCall, Atomic!NoAnswer
<1> QED
  BY <1>1, <1>2 DEF Atomic!AtomicInit

(* A call's view, by its fields.                                           *)
SeenAs(record) ==
  [phase |-> IF record.pc \in Reading THEN "asked" ELSE record.pc,
   remote_id |-> record.remote_id, answer |-> record.answer]

(* A member of a set that is not empty.                                   *)
LEMMA OneIsSeen ==
  ASSUME ReadsStillThere, NEW c \in Call, NEW r, calls' = [calls EXCEPT ![c] = r]
  PROVE  AsSeen' = [AsSeen EXCEPT ![c] = SeenAs(r)]
BY DEF ReadsStillThere, CallsShape, AsSeen, SeenAs

(* get and pull are calls of AtomicConnector.                             *)
LEMMA StartRefines ==
  ASSUME ReadsStillThere, NEW c \in Call, NEW op, NEW kind, NEW id \in Dataset,
         Start(c, op, kind, id)
  PROVE  Atomic!AtomicNext
<1>1. AsSeen[c].phase # "asked"
  BY DEF Start, AsSeen, Reading, ReadsStillThere, CallsShape
<1>2. CASE kind = "data-offer"
  <2> DEFINE r == CallRecord("filePath", op, id, Unanswered)
  <2>1. calls' = [calls EXCEPT ![c] = r]
    BY <1>2 DEF Start
  <2>2. SeenAs(r) = [phase |-> "asked", remote_id |-> id, answer |-> Atomic!NoAnswer]
    BY DEF SeenAs, CallRecord, Reading, Unanswered, Failed, Atomic!NoAnswer
  <2> HIDE DEF r
  <2>3. Atomic!Request(c, id)
    BY <1>1, <2>1, <2>2, OneIsSeen DEF Atomic!Request
  <2> QED
    BY <2>3 DEF Atomic!AtomicNext
<1>3. CASE kind # "data-offer"
  <2> DEFINE r == CallRecord("answered", op, id, Failed("UnsupportedKind"))
  <2>1. calls' = [calls EXCEPT ![c] = r]
    BY <1>3 DEF Start
  <2>2. SeenAs(r) = [phase |-> "answered", remote_id |-> id,
                     answer |-> Atomic!Error("UnsupportedKind")]
    BY DEF SeenAs, CallRecord, Reading, Failed, Atomic!Error
  <2> HIDE DEF r
  <2>3. Atomic!Refuse(c, id, "UnsupportedKind")
    BY <1>1, <2>1, <2>2, OneIsSeen DEF Atomic!Refuse
  <2> QED
    BY <2>3 DEF Atomic!AtomicNext
<1> QED
  BY <1>2, <1>3

(* push is refused by AtomicConnector.                                    *)
LEMMA PushRefines ==
  ASSUME ReadsStillThere, NEW c \in Call, Push(c) PROVE Atomic!AtomicNext
<1> DEFINE id == calls[c].remote_id
           r == CallRecord("answered", "push", id, Failed("Unsupported"))
<1>1. AsSeen[c].phase # "asked" /\ id \in Dataset
  BY DEF Push, AsSeen, Reading, ReadsStillThere, CallsShape
<1>2. calls' = [calls EXCEPT ![c] = r]
  BY DEF Push
<1>3. SeenAs(r) = [phase |-> "answered", remote_id |-> id,
                   answer |-> Atomic!Error("Unsupported")]
  BY DEF SeenAs, CallRecord, Reading, Failed, Atomic!Error
<1> HIDE DEF r
<1>4. Atomic!Refuse(c, id, "Unsupported")
  BY <1>1, <1>2, <1>3, OneIsSeen DEF Atomic!Refuse
<1> QED
  BY <1>1, <1>4 DEF Atomic!AtomicNext

(* What c returns is an answer the graph gives at this moment.             *)
LEMMA AnswerRefines ==
  ASSUME ReadsStillThere, NEW c \in Call, NEW read, NEW answer,
         Proceed(c, "answered", read, answer), calls[c].pc \in Reading,
         LET documents == DocumentsOf(calls[c].remote_id) IN
         answer \in IF documents = {} THEN {Failed("Api")} ELSE documents
  PROVE  Atomic!AtomicNext
<1> DEFINE id == calls[c].remote_id
           r == [pc |-> "answered", op |-> calls[c].op, remote_id |-> id, read |-> read,
                 answer |-> answer, seeded |-> calls[c].seeded]
           documents == [d \in Dataset |-> DocumentsOf(d)]
<1>1. calls' = [calls EXCEPT ![c] = r]
  BY DEF Proceed
<1>2. AsSeen[c].phase = "asked" /\ AsSeen[c].remote_id = id /\ id \in Dataset
  BY DEF AsSeen, ReadsStillThere, CallsShape
<1>3. SeenAs(r) = [phase |-> "answered", remote_id |-> AsSeen[c].remote_id, answer |-> answer]
  BY <1>2 DEF SeenAs, Reading
<1>4. documents[AsSeen[c].remote_id] = DocumentsOf(id)
  BY <1>2
<1> HIDE DEF r
<1>5. AsSeen' = [AsSeen EXCEPT ![c] =
        [phase |-> "answered", remote_id |-> AsSeen[c].remote_id, answer |-> answer]]
  BY <1>1, <1>3, OneIsSeen
<1>6. Atomic!Respond(c)
  BY <1>2, <1>4, <1>5 DEF Atomic!Respond, Atomic!Error, Failed
<1> QED
  BY <1>6 DEF Atomic!AtomicNext

(* A query that finds something is a step nobody sees; one that finds      *)
(* nothing finds that there is no Document.                                *)
LEMMA QueryRefines ==
  ASSUME ReadsStillThere, NEW c \in Call, NEW pc \in Reading, NEW found,
         NEW next \in Reading, Query(c, pc, found, next),
         found = {} => DocumentsOf(calls[c].remote_id) = {}
  PROVE  Atomic!AtomicNext
<1>1. calls[c].pc \in Reading
  BY DEF Query
<1>2. CASE found = {} /\ Proceed(c, "answered", calls[c].read, Failed("Api"))
  BY <1>1, <1>2, AnswerRefines
<1>3. ASSUME NEW value \in found,
             Proceed(c, next, Append(calls[c].read, value), Unanswered)
      PROVE  Atomic!AtomicNext
  <2> DEFINE r == [pc |-> next, op |-> calls[c].op, remote_id |-> calls[c].remote_id,
                   read |-> Append(calls[c].read, value), answer |-> Unanswered,
                   seeded |-> calls[c].seeded]
  <2>1. calls' = [calls EXCEPT ![c] = r]
    BY <1>3 DEF Proceed
  <2>2. SeenAs(r) = AsSeen[c]
    BY <1>1 DEF SeenAs, AsSeen, ReadsStillThere, StillThere
  <2> HIDE DEF r
  <2>3. AsSeen' = [AsSeen EXCEPT ![c] = AsSeen[c]]
    BY <2>1, <2>2, OneIsSeen
  <2>4. AsSeen = [d \in Call |-> AsSeen[d]]
    BY DEF AsSeen
  <2>5. AsSeen' = AsSeen
    BY <2>3, <2>4
  <2> QED
    BY <2>5 DEF Atomic!AtomicNext, Atomic!GraphChanges
<1> QED
  BY <1>2, <1>3 DEF Query

(* A query but the last is a stutter, or refuses the call.                *)
LEMMA ReadRefines ==
  ASSUME ReadsStillThere, NEW c \in Call,
         ReadFilePath(c) \/ ReadMediaType(c) \/ ReadHeader(c)
  PROVE  Atomic!AtomicNext
<1> DEFINE id == calls[c].remote_id
<1>1. ASSUME file_path(id) = {} \/ media_type(id) = {} \/ header(id) = {}
      PROVE  DocumentsOf(id) = {}
  BY <1>1 DEF DocumentsOf
<1>2. CASE ReadFilePath(c)
  BY <1>1, <1>2, QueryRefines DEF ReadFilePath, Reading
<1>3. CASE ReadMediaType(c)
  BY <1>1, <1>3, QueryRefines DEF ReadMediaType, Reading
<1>4. CASE ReadHeader(c)
  BY <1>1, <1>4, QueryRefines DEF ReadHeader, Reading
<1> QED
  BY <1>2, <1>3, <1>4

(* The last query is the look that answers the call.                      *)
LEMMA ReadPermissionsRefines ==
  ASSUME ReadsStillThere, NEW c \in Call, ReadPermissions(c)
  PROVE  Atomic!AtomicNext
<1> DEFINE id == calls[c].remote_id
           read == calls[c].read
<1>1. calls[c].pc = "permissions"
  BY DEF ReadPermissions
<1>2. PICK array \in permissions_jsonld(id) :
        Proceed(c, "answered", read, Document(id, read[1], read[2], read[3], array))
  BY DEF ReadPermissions
<1>3. PICK path \in file_path(id), media \in media_type(id), head \in header(id) :
        read = <<path, media, head>>
  BY <1>1 DEF ReadsStillThere, StillThere
<1>4. read[1] = path /\ read[2] = media /\ read[3] = head
  BY <1>3
<1>5. Document(id, read[1], read[2], read[3], array) \in DocumentsOf(id)
  BY <1>4 DEF DocumentsOf
<1> QED
  BY <1>1, <1>2, <1>5, AnswerRefines DEF Reading

(* FileOfferConnector's get, pull and push, four queries or none, refine   *)
(* the connector that answers from one look at the graph.                  *)
THEOREM ConnectorIsAtomic == Spec => RefinesAtomicConnector
<1>1. Init => Atomic!AtomicInit
  BY InitRefines
<1>2. ReadsStillThere /\ [Next]_vars
        => [Atomic!AtomicNext]_<<[id \in Dataset |-> DocumentsOf(id)], AsSeen>>
  <2> SUFFICES ASSUME ReadsStillThere, [Next]_vars PROVE Atomic!AtomicNext
    OBVIOUS
  <2>1. CASE UNCHANGED vars \/ (GraphNext /\ UNCHANGED calls)
    <3>1. calls' = calls
      BY <2>1 DEF vars
    <3>2. AsSeen' = AsSeen
      BY <3>1 DEF AsSeen
    <3> QED
      BY <3>2 DEF Atomic!AtomicNext, Atomic!GraphChanges
  <2>2. ASSUME NEW c \in Call, NEW kind, Pull(c, kind) PROVE Atomic!AtomicNext
    BY <2>2, PrimaryAssumption, StartRefines DEF Pull
  <2>3. ASSUME NEW c \in Call, NEW kind, NEW id \in Dataset, Get(c, kind, id)
        PROVE  Atomic!AtomicNext
    BY <2>3, StartRefines DEF Get
  <2>4. ASSUME NEW c \in Call, Push(c) PROVE Atomic!AtomicNext
    BY <2>4, PushRefines
  <2>5. ASSUME NEW c \in Call,
               ReadFilePath(c) \/ ReadMediaType(c) \/ ReadHeader(c) \/ ReadPermissions(c)
        PROVE  Atomic!AtomicNext
    BY <2>5, ReadRefines, ReadPermissionsRefines
  <2> QED
    BY <2>1, <2>2, <2>3, <2>4, <2>5 DEF Next
<1> QED
  BY <1>1, <1>2, ReadsStayTrue, PTL DEF Spec, RefinesAtomicConnector, Atomic!AtomicSpec

-----------------------------------------------------------------------------
(* What a call is given of an offer that was wholly seeded before it: the  *)
(* seeding that completed is still there, so no query finds nothing, and   *)
(* its every permission is in the rows.  Copies that cannot mix now could  *)
(* not when the rows were read, as seedings of a dataset only begin.       *)

GotWhole(c) ==
  calls[c].pc = "answered" /\ calls[c].remote_id \in calls[c].seeded
    /\ CopiesCannotMix(calls[c].remote_id)
    /\ calls[c].answer \notin {Failed("UnsupportedKind"), Failed("Unsupported")} =>
      /\ IsDocument(calls[c].answer)
      /\ calls[c].answer.filePath = offer.file_path
      /\ calls[c].answer.mediaType = offer.media_type
      /\ ToSet(offer.permissions) \subseteq ToSet(calls[c].answer.permission)

GotInvariant ==
  \A c \in Call : calls[c].seeded \subseteq WhollySeeded /\ GotWhole(c)

(* No call has got anything at first.                                     *)
LEMMA GotInit == ASSUME Init PROVE GotInvariant
BY DEF Init, GotInvariant, GotWhole

(* Seedings begin and are completed, and that is never undone.             *)
LEMMA SeedingsGrow ==
  ASSUME StoreInvariant, StoreInvariant', GraphNext
  PROVE  /\ offer' = offer
         /\ WhollySeeded \subseteq WhollySeeded'
         /\ \A d : SeedersOf(d) \subseteq SeedersOf(d)'
<1>1. offer' = offer
  BY DEF GraphNext, SeedBegin, SeedInsert, SeedFails
<1>2. PICK s \in Seeder :
        /\ seeding[s].pc \in {"idle", "seeding"}
        /\ \A r \in Seeder : r # s => seeding'[r] = seeding[r]
        /\ seeding[s].pc = "seeding" =>
             seeding'[s].pc # "idle" /\ seeding'[s].dataset = seeding[s].dataset
  <2>1. \A r \in Seeder : seeding[r] \in [pc : {"idle", "seeding", "done", "failed"},
                                          dataset : Dataset, inserted : Nat]
        /\ seeding = [q \in Seeder |-> seeding[q]]
    BY DEF StoreInvariant
  <2> QED
    BY <2>1 DEF GraphNext, SeedBegin, SeedInsert, SeedFails
<1>3. WhollySeeded \subseteq WhollySeeded'
  BY <1>2 DEF WhollySeeded
<1>4. ASSUME NEW d PROVE SeedersOf(d) \subseteq SeedersOf(d)'
  BY <1>2 DEF SeedersOf
<1> QED
  BY <1>1, <1>3, <1>4

(* An offer whose copies cannot mix stays one.                            *)
LEMMA MixingStays ==
  ASSUME StoreInvariant', offer' = offer, NEW d, SeedersOf(d) \subseteq SeedersOf(d)',
         CopiesCannotMix(d)'
  PROVE  CopiesCannotMix(d)
<1>1. PICK S, T : S = SeedersOf(d) /\ T = SeedersOf(d)'
  OBVIOUS
<1>2. IsFiniteSet(T)
  BY <1>1, FS_Subset DEF StoreInvariant, SeedersOf, Begun
<1>3. IsFiniteSet(S) /\ Cardinality(S) <= Cardinality(T)
      /\ Cardinality(S) \in Nat /\ Cardinality(T) \in Nat
  BY <1>1, <1>2, FS_Subset, FS_CardinalityType
<1>4. \/ Cardinality(T) <= 1
      \/ \A i \in DOMAIN offer.permissions : Len(offer.permissions[i].constraints) <= 1
  BY <1>1 DEF CopiesCannotMix
<1> QED
  BY <1>1, <1>3, <1>4 DEF CopiesCannotMix

(* A step of a seeding: what was wholly seeded stays so.                  *)
LEMMA GraphStepGot ==
  ASSUME StoreInvariant, StoreInvariant', GraphNext, UNCHANGED calls, GotInvariant
  PROVE  GotInvariant'
<1>1. /\ offer' = offer /\ WhollySeeded \subseteq WhollySeeded'
      /\ \A d : SeedersOf(d) \subseteq SeedersOf(d)'
  BY SeedingsGrow
<1>2. ASSUME NEW c \in Call PROVE (calls[c].seeded \subseteq WhollySeeded /\ GotWhole(c))'
  <2>1. CopiesCannotMix(calls[c].remote_id)' => CopiesCannotMix(calls[c].remote_id)
    <3>1. PICK d : d = calls[c].remote_id
      OBVIOUS
    <3>2. SeedersOf(d) \subseteq SeedersOf(d)'
      BY <1>1
    <3>3. CopiesCannotMix(d)' => CopiesCannotMix(d)
      BY <1>1, <3>2, MixingStays
    <3> QED
      BY <3>1, <3>3 DEF CopiesCannotMix, SeedersOf
  <2> QED
    BY <1>1, <2>1 DEF GotInvariant, GotWhole
<1> QED
  BY <1>2 DEF GotInvariant

(* A call of c leaves the others as they are.                              *)
LEMMA OneCallGot ==
  ASSUME CallsShape, GotInvariant, UNCHANGED graphVars, NEW c \in Call, NEW r,
         calls' = [calls EXCEPT ![c] = r],
         r.seeded \subseteq WhollySeeded, GotWhole(c)'
  PROVE  GotInvariant'
<1>1. UNCHANGED <<offer, quads, seeding>>
  BY DEF graphVars
<1>2. WhollySeeded' = WhollySeeded
  BY <1>1 DEF WhollySeeded
<1>3. ASSUME NEW b \in Call PROVE (calls[b].seeded \subseteq WhollySeeded /\ GotWhole(b))'
  <2>1. CASE b = c
    BY <1>2, <2>1 DEF CallsShape
  <2>2. CASE b # c
    <3>1. calls'[b] = calls[b]
      BY <2>2 DEF CallsShape
    <3> QED
      BY <1>1, <1>2, <3>1 DEF GotInvariant, GotWhole, CopiesCannotMix, SeedersOf
  <2> QED
    BY <2>1, <2>2
<1> QED
  BY <1>3 DEF GotInvariant

(* get notes the completed seedings when it begins.                       *)
LEMMA StartGot ==
  ASSUME CallsShape, GotInvariant, NEW c \in Call, NEW op, NEW kind, NEW id, Start(c, op, kind, id)
  PROVE  GotInvariant'
<1> DEFINE r == IF kind = "data-offer" THEN CallRecord("filePath", op, id, Unanswered)
                ELSE CallRecord("answered", op, id, Failed("UnsupportedKind"))
<1>1. calls' = [calls EXCEPT ![c] = r] /\ UNCHANGED graphVars
  BY DEF Start
<1>2. calls'[c] = r
  BY <1>1 DEF CallsShape
<1>3. r.seeded \subseteq WhollySeeded
  BY DEF CallRecord
<1>4. r.pc # "answered" \/ r.answer = Failed("UnsupportedKind")
  BY DEF CallRecord
<1>5. GotWhole(c)'
  BY <1>2, <1>4 DEF GotWhole, Failed
<1> HIDE DEF r
<1> QED
  BY <1>1, <1>3, <1>5, OneCallGot

(* push gets nothing.                                                     *)
LEMMA PushGot ==
  ASSUME CallsShape, GotInvariant, NEW c \in Call, Push(c) PROVE GotInvariant'
<1> DEFINE r == CallRecord("answered", "push", calls[c].remote_id, Failed("Unsupported"))
<1>1. calls' = [calls EXCEPT ![c] = r] /\ UNCHANGED graphVars
  BY DEF Push
<1>2. calls'[c] = r /\ r.seeded \subseteq WhollySeeded /\ r.answer = Failed("Unsupported")
  BY <1>1 DEF CallsShape, CallRecord
<1>3. GotWhole(c)'
  BY <1>2 DEF GotWhole, Failed
<1> HIDE DEF r
<1> QED
  BY <1>1, <1>2, <1>3, OneCallGot

(* A query but the last, of a call that goes on.                          *)
LEMMA ProceedGot ==
  ASSUME CallsShape, GotInvariant, NEW c \in Call, NEW pc, NEW read, NEW answer,
         Proceed(c, pc, read, answer), UNCHANGED graphVars,
         pc = "answered" /\ calls[c].remote_id \in calls[c].seeded
           /\ CopiesCannotMix(calls[c].remote_id) =>
             /\ IsDocument(answer)
             /\ answer.filePath = offer.file_path
             /\ answer.mediaType = offer.media_type
             /\ ToSet(offer.permissions) \subseteq ToSet(answer.permission)
  PROVE  GotInvariant'
<1> DEFINE r == [pc |-> pc, op |-> calls[c].op, remote_id |-> calls[c].remote_id,
                 read |-> read, answer |-> answer, seeded |-> calls[c].seeded]
<1>1. calls' = [calls EXCEPT ![c] = r]
  BY DEF Proceed
<1>2. calls'[c] = r
  BY <1>1 DEF CallsShape
<1>3. r.seeded \subseteq WhollySeeded
  BY DEF GotInvariant
<1>4. GotWhole(c)'
  <2>1. UNCHANGED <<offer, quads, seeding>>
    BY DEF graphVars
  <2>2. CopiesCannotMix(calls[c].remote_id)' => CopiesCannotMix(calls[c].remote_id)
    BY <1>2, <2>1 DEF CopiesCannotMix, SeedersOf
  <2> QED
    BY <1>2, <2>1, <2>2 DEF GotWhole, IsDocument
<1> HIDE DEF r
<1> QED
  BY <1>1, <1>3, <1>4, OneCallGot

(* What a wholly seeded dataset has in the graph.                          *)
LEMMA SeededIsFound ==
  ASSUME StoreInvariant, NEW id \in WhollySeeded
  PROVE  /\ file_path(id) = {offer.file_path}
         /\ media_type(id) = {offer.media_type}
         /\ header(id) # {}
         /\ \E s \in SeedersOf(id) : seeding[s].pc = "done"
<1>1. PICK s \in Seeder : seeding[s].pc = "done" /\ seeding[s].dataset = id
  BY DEF WhollySeeded
<1>2. s \in SeedersOf(id) /\ D(s) = id
  BY <1>1 DEF SeedersOf, D
<1> QED
  BY <1>1, <1>2, HeaderIsRead

(* A query of a wholly seeded dataset finds something.                    *)
LEMMA QueryGot ==
  ASSUME CallsShape, GotInvariant, NEW c \in Call, NEW pc, NEW found, NEW next \in Reading,
         Query(c, pc, found, next),
         calls[c].remote_id \in WhollySeeded => found # {}
  PROVE  GotInvariant'
<1>1. UNCHANGED graphVars
  BY DEF Query
<1>2. CASE found = {} /\ Proceed(c, "answered", calls[c].read, Failed("Api"))
  <2>1. calls[c].remote_id \notin calls[c].seeded
    BY <1>2 DEF GotInvariant
  <2> QED
    BY <1>1, <1>2, <2>1, ProceedGot
<1>3. ASSUME NEW value \in found,
             Proceed(c, next, Append(calls[c].read, value), Unanswered)
      PROVE  GotInvariant'
  <2>1. next # "answered"
    BY DEF Reading
  <2> QED
    BY <1>1, <1>3, <2>1, ProceedGot
<1> QED
  BY <1>2, <1>3 DEF Query

(* The first three queries.                                               *)
LEMMA ReadGot ==
  ASSUME StoreInvariant, CallsShape, GotInvariant, NEW c \in Call,
         ReadFilePath(c) \/ ReadMediaType(c) \/ ReadHeader(c)
  PROVE  GotInvariant'
<1> DEFINE id == calls[c].remote_id
<1>1. id \in WhollySeeded => file_path(id) # {} /\ media_type(id) # {} /\ header(id) # {}
  BY SeededIsFound
<1>2. CASE ReadFilePath(c)
  BY <1>1, <1>2, QueryGot DEF ReadFilePath, Reading
<1>3. CASE ReadMediaType(c)
  BY <1>1, <1>3, QueryGot DEF ReadMediaType, Reading
<1>4. CASE ReadHeader(c)
  BY <1>1, <1>4, QueryGot DEF ReadHeader, Reading
<1> QED
  BY <1>2, <1>3, <1>4

(* The last query finds every permission of the offer seeded.             *)
LEMMA ReadPermissionsGot ==
  ASSUME StoreInvariant, ReadsStillThere, GotInvariant, NEW c \in Call, ReadPermissions(c)
  PROVE  GotInvariant'
<1> DEFINE id == calls[c].remote_id
           read == calls[c].read
<1>1. calls[c].pc = "permissions" /\ UNCHANGED graphVars
  BY DEF ReadPermissions
<1>2. PICK array \in permissions_jsonld(id) :
        Proceed(c, "answered", read, Document(id, read[1], read[2], read[3], array))
  BY DEF ReadPermissions
<1>3. PICK path \in file_path(id), media \in media_type(id), head \in header(id) :
        read = <<path, media, head>>
  BY <1>1 DEF ReadsStillThere, StillThere
<1>4. PICK answer : answer = Document(id, path, media, head, array)
  OBVIOUS
<1>5. Proceed(c, "answered", read, answer)
  BY <1>2, <1>3, <1>4
<1>6. /\ IsDocument(answer) /\ answer.filePath = path
      /\ answer.mediaType = media /\ answer.permission = array
  <2>1. "filePath" \in DOMAIN answer
    BY <1>4 DEF Document
  <2> QED
    BY <1>4, <2>1 DEF Document, IsDocument
<1>7. ASSUME id \in calls[c].seeded, CopiesCannotMix(id)
      PROVE  /\ path = offer.file_path /\ media = offer.media_type
             /\ ToSet(offer.permissions) \subseteq ToSet(array)
  <2>1. id \in WhollySeeded
    BY <1>7 DEF GotInvariant
  <2>2. PICK s \in SeedersOf(id) : seeding[s].pc = "done"
    BY <2>1, SeededIsFound
  <2>3. ToSet(offer.permissions) \subseteq ToSet(array)
    BY <1>2, <1>7, <2>2, CompletedIsInAnswer
  <2> QED
    BY <1>3, <2>1, <2>3, SeededIsFound
<1> QED
  BY <1>1, <1>5, <1>6, <1>7, ProceedGot DEF ReadsStillThere

(* Every step of Connector keeps GotInvariant.                            *)
LEMMA GotStep ==
  StoreInvariant /\ StoreInvariant' /\ ReadsStillThere /\ GotInvariant /\ [Next]_vars => GotInvariant'
<1> SUFFICES ASSUME StoreInvariant, StoreInvariant', ReadsStillThere, GotInvariant, [Next]_vars
             PROVE  GotInvariant'
  OBVIOUS
<1>1. CASE UNCHANGED vars
  <2>1. UNCHANGED <<offer, quads, seeding, calls>>
    BY <1>1 DEF vars, graphVars
  <2> QED
    BY <2>1 DEF GotInvariant, GotWhole, WhollySeeded, CopiesCannotMix, SeedersOf
<1>2. CASE GraphNext /\ UNCHANGED calls
  BY <1>2, GraphStepGot
<1>3. ASSUME NEW c \in Call, NEW kind, Pull(c, kind) PROVE GotInvariant'
  BY <1>3, StartGot DEF Pull, ReadsStillThere
<1>4. ASSUME NEW c \in Call, NEW kind, NEW id \in Dataset, Get(c, kind, id) PROVE GotInvariant'
  BY <1>4, StartGot DEF Get, ReadsStillThere
<1>5. ASSUME NEW c \in Call, Push(c) PROVE GotInvariant'
  BY <1>5, PushGot DEF ReadsStillThere
<1>6. ASSUME NEW c \in Call,
             ReadFilePath(c) \/ ReadMediaType(c) \/ ReadHeader(c) \/ ReadPermissions(c)
      PROVE  GotInvariant'
  BY <1>6, ReadGot, ReadPermissionsGot DEF ReadsStillThere
<1> QED
  BY <1>1, <1>2, <1>3, <1>4, <1>5, <1>6 DEF Next

(* A get or pull of an offer that was wholly seeded when it was called     *)
(* yields that offer with every permission whole, for any number of        *)
(* callers and of other seedings, complete, going on or failed.            *)
THEOREM WholeOffersGot == Spec => []WholeOffersAreGot
<1>1. Init => StoreInvariant /\ GotInvariant
  BY StoreInvariantInit, GotInit DEF Init
<1>2. StoreInvariant /\ [Next]_vars => StoreInvariant'
  <2>1. [Next]_vars => [GraphNext]_graphVars
    BY DEF Next, vars, Pull, Get, Start, Push, Query, ReadFilePath, ReadMediaType, ReadHeader,
           ReadPermissions
  <2> QED
    BY <2>1, StoreInvariantStep
<1>3. GotInvariant => WholeOffersAreGot
  BY DEF GotInvariant, GotWhole, WholeOffersAreGot
<1> QED
  BY <1>1, <1>2, <1>3, GotStep, ReadsStayTrue, PTL DEF Spec
=============================================================================
