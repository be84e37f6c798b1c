----------------------------- MODULE Connector -----------------------------
(***************************************************************************)
(* FileOfferConnector, contreforts-connector/src/lib.rs, over the          *)
(* configuration graph that seedings write to at the same time.  get makes *)
(* four queries, each on a snapshot of its own.                            *)
(***************************************************************************)
EXTENDS ConfigGraph

CONSTANTS
  Call,                 \* callers, each with one call at a time
  PRIMARY_OFFER_ID

ASSUME PrimaryAssumption == PRIMARY_OFFER_ID \in Dataset

VARIABLE calls

vars == <<graphVars, calls>>

Kind == {"data-offer", "other"}     \* DATA_OFFER_KIND, and any other one

Reading == {"filePath", "mediaType", "header", "permissions"}

WhollySeeded == {seeding[s].dataset : s \in {r \in Seeder : seeding[r].pc = "done"}}

(* A call of the operation op; seeded is history: the datasets that were   *)
(* wholly in the graph when it was made.                                   *)
CallRecord(pc, op, id, answer) ==
  [pc |-> pc, op |-> op, remote_id |-> id, read |-> <<>>, answer |-> answer,
   seeded |-> WhollySeeded]

Failed(name) == [error |-> name]
Unanswered   == Failed("none")

Init ==
  /\ GraphInit
  /\ calls = [c \in Call |->
       [pc |-> "idle", op |-> "none", remote_id |-> CHOOSE d \in Dataset : TRUE,
        read |-> <<>>, answer |-> Unanswered, seeded |-> {}]]

(* require_data_offer_kind, and on to the queries of get.                  *)
Start(c, op, kind, id) ==
  /\ calls[c].pc \notin Reading
  /\ calls' = [calls EXCEPT ![c] =
       IF kind = "data-offer" THEN CallRecord("filePath", op, id, Unanswered)
       ELSE CallRecord("answered", op, id, Failed("UnsupportedKind"))]
  /\ UNCHANGED graphVars

Get(c, kind, id) == Start(c, "get", kind, id)
Pull(c, kind)    == Start(c, "pull", kind, PRIMARY_OFFER_ID)

Push(c) ==
  /\ calls[c].pc \notin Reading
  /\ calls' = [calls EXCEPT ![c] =
       CallRecord("answered", "push", calls[c].remote_id, Failed("Unsupported"))]
  /\ UNCHANGED graphVars

(* The call of c goes on, or returns an answer.                            *)
Proceed(c, pc, read, answer) ==
  calls' = [calls EXCEPT ![c] =
    [pc |-> pc, op |-> @.op, remote_id |-> @.remote_id, read |-> read,
     answer |-> answer, seeded |-> @.seeded]]

(* One query: the first solution is kept, and without one the call ends    *)
(* with the NotFound as an Api error.                                      *)
Query(c, pc, found, next) ==
  /\ calls[c].pc = pc
  /\ \/ found = {} /\ Proceed(c, "answered", calls[c].read, Failed("Api"))
     \/ \E value \in found :
          Proceed(c, next, Append(calls[c].read, value), Unanswered)
  /\ UNCHANGED graphVars

(* get_file's default for a media type that is not there.                  *)
ReadMediaTypeOrDefault(c) ==
  LET found == media_type(calls[c].remote_id) IN
  Query(c, "mediaType", IF found = {} THEN {"octet-stream"} ELSE found, "header")

ReadFilePath(c) ==
  Query(c, "filePath", file_path(calls[c].remote_id), "mediaType")

ReadMediaType(c) ==
  Query(c, "mediaType", media_type(calls[c].remote_id), "header")

ReadHeader(c) ==
  Query(c, "header", header(calls[c].remote_id), "permissions")

Document(id, path, media, head, array) ==
  [remote_id |-> id, filePath |-> path, mediaType |-> media, header |-> head,
   permission |-> array]

(* The rows query; the Document is put together from all four.             *)
ReadPermissions(c) ==
  /\ calls[c].pc = "permissions"
  /\ \E array \in permissions_jsonld(calls[c].remote_id) :
       LET read == calls[c].read IN
       Proceed(c, "answered", read,
               Document(calls[c].remote_id, read[1], read[2], read[3], array))
  /\ UNCHANGED graphVars

Next ==
  \/ GraphNext /\ UNCHANGED calls
  \/ \E c \in Call :
       \/ \E kind \in Kind : Pull(c, kind) \/ \E id \in Dataset : Get(c, kind, id)
       \/ Push(c)
       \/ ReadFilePath(c) \/ ReadMediaType(c) \/ ReadHeader(c) \/ ReadPermissions(c)

Spec == Init /\ [][Next]_vars

-----------------------------------------------------------------------------
(* Properties.                                                             *)

AsSeen ==
  [c \in Call |->
     [phase |-> IF calls[c].pc \in Reading THEN "asked" ELSE calls[c].pc,
      remote_id |-> calls[c].remote_id, answer |-> calls[c].answer]]

(* What get would answer if nothing happened during the call.              *)
DocumentsOf(id) ==
  {Document(id, path, media, head, array) :
     path \in file_path(id), media \in media_type(id), head \in header(id),
     array \in permissions_jsonld(id)}

Atomic == INSTANCE AtomicConnector
            WITH documents <- [id \in Dataset |-> DocumentsOf(id)], call <- AsSeen

(* get reads an offer in four queries while seedings go on between them,   *)
(* yet each call answers as if it had looked at the graph once: nothing a  *)
(* Document says was true only at different times.                         *)
RefinesAtomicConnector == Atomic!AtomicSpec

IsDocument(answer) == DOMAIN answer # {"error"}

(* A get (or a pull) of an offer that was wholly seeded when it was called *)
(* yields that offer, its every permission with all constraints, whatever  *)
(* other seedings of the same dataset are doing or have failed to do, as   *)
(* long as the constraints of their copies cannot mix.                     *)
WholeOffersAreGot ==
  \A c \in Call :
    calls[c].pc = "answered" /\ calls[c].remote_id \in calls[c].seeded
      /\ CopiesCannotMix(calls[c].remote_id)
      /\ calls[c].answer \notin {Failed("UnsupportedKind"), Failed("Unsupported")} =>
        /\ IsDocument(calls[c].answer)
        /\ calls[c].answer.filePath = offer.file_path
        /\ calls[c].answer.mediaType = offer.media_type
        /\ ToSet(offer.permissions) \subseteq ToSet(calls[c].answer.permission)

(* The graph holds one offer, and pull returns it: a pull of data offers   *)
(* that is made when the offer is wholly seeded yields a Document.         *)
PullReturnsTheOffer ==
  \A c \in Call :
    calls[c].pc = "answered" /\ calls[c].op = "pull" /\ calls[c].seeded # {}
      /\ calls[c].answer # Failed("UnsupportedKind") =>
        IsDocument(calls[c].answer)
=============================================================================
