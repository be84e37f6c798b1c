-------------------------- MODULE AtomicConnector --------------------------
(***************************************************************************)
(* What Contreforts may expect of a connector to the configuration graph:  *)
(* a call is refused for what it is, or answered from the graph as it is   *)
(* at one instant between the call and its return.  documents is the       *)
(* graph's side of it, an input that changes as it likes.                  *)
(***************************************************************************)
CONSTANTS
  Dataset,      \* dataset ids
  Call          \* callers, each with one call at a time

VARIABLES
  documents,    \* the Documents that one look at the graph may yield, by id
  call          \* each caller's latest call: phase, remote_id and answer

NoAnswer    == [error |-> "none"]
Error(name) == [error |-> name]

IdleCall == [phase |-> "idle", remote_id |-> CHOOSE d \in Dataset : TRUE,
             answer |-> NoAnswer]

(* The graph may change at any time, and that by itself answers nothing.   *)
GraphChanges == UNCHANGED call

Refuse(c, id, name) ==
  /\ call[c].phase # "asked"
  /\ call' = [call EXCEPT ![c] = [phase |-> "answered", remote_id |-> id,
                                  answer |-> Error(name)]]

Request(c, id) ==
  /\ call[c].phase # "asked"
  /\ call' = [call EXCEPT ![c] = [phase |-> "asked", remote_id |-> id,
                                  answer |-> NoAnswer]]

Respond(c) ==
  LET found == documents[call[c].remote_id] IN
  /\ call[c].phase = "asked"
  /\ \E answer \in IF found = {} THEN {Error("Api")} ELSE found :
       call' = [call EXCEPT ![c] =
         [phase |-> "answered", remote_id |-> @.remote_id, answer |-> answer]]

AtomicInit ==
  /\ documents = [d \in Dataset |-> {}]
  /\ call = [c \in Call |-> IdleCall]

AtomicNext ==
  \/ GraphChanges
  \/ \E c \in Call :
       \/ Respond(c)
       \/ \E id \in Dataset :
            Request(c, id) \/ \E name \in {"UnsupportedKind", "Unsupported"} : Refuse(c, id, name)

AtomicSpec == AtomicInit /\ [][AtomicNext]_<<documents, call>>
=============================================================================
