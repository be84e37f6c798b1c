---------------------------- MODULE AccessControl ----------------------------
(***************************************************************************)
(* What the data plane promises, whatever the order in which its calls     *)
(* touch the shared stores: a request is served only if at ONE instant     *)
(* while it was pending its token was live for the dataset it names and    *)
(* the offer's deadline had not passed; a revocation takes all tokens of   *)
(* its flow away at once; a token is granted once and never comes back.    *)
(* dataplane/src/public.rs reads these facts at different moments; module  *)
(* DataPlane shows that it still implements this specification.            *)
(***************************************************************************)
EXTENDS Naturals

CONSTANTS
  Client, Flow, Token, Dataset,
  Offered,               \* the datasets that may be granted
  NotAfter, NoDeadline,  \* the offer's deadline, if it has one
  None

VARIABLES
  live,      \* the grants in force
  minted,    \* every token ever granted
  clock,
  request    \* each client's latest request

acvars == <<live, minted, clock, request>>

Granting(t, f, d) == [token |-> t, flow |-> f, dataset |-> d]

Open(c)  == request[c].phase \in {"pending", "authorised"}
Expired  == NotAfter # NoDeadline /\ clock > NotAfter
MayRead(c) == \E e \in live : /\ e.token = request[c].token
                              /\ e.dataset = request[c].dataset

Init ==
  /\ live = {} /\ minted = {} /\ clock = 0
  /\ request = [c \in Client |->
                  [phase |-> "idle", token |-> None, dataset |-> None]]

Grant(t, f, d) ==
  /\ t \notin minted
  /\ live' = live \cup {Granting(t, f, d)}
  /\ minted' = minted \cup {t}
  /\ UNCHANGED <<clock, request>>

Revoke(f) ==
  /\ live' = {e \in live : e.flow # f}
  /\ UNCHANGED <<minted, clock, request>>

(* The service forgets everything it granted and drops its requests.       *)
Reset ==
  /\ live' = {}
  /\ request' = [c \in Client |-> IF Open(c)
                   THEN [request[c] EXCEPT !.phase = "refused"] ELSE request[c]]
  /\ UNCHANGED <<minted, clock>>

Advance ==
  /\ clock' = clock + 1
  /\ UNCHANGED <<live, minted, request>>

Send(c, t, d) ==
  /\ ~Open(c)
  /\ request' = [request EXCEPT ![c] =
                   [phase |-> "pending", token |-> t, dataset |-> d]]
  /\ UNCHANGED <<live, minted, clock>>

Move(c, phase) ==
  /\ request' = [request EXCEPT ![c].phase = phase]
  /\ UNCHANGED <<live, minted, clock>>

Authorise(c) ==
  request[c].phase = "pending" /\ MayRead(c) /\ ~Expired /\ Move(c, "authorised")

Serve(c) == request[c].phase = "authorised" /\ Move(c, "served")

Refuse(c) == Open(c) /\ Move(c, "refused")

Next ==
  \/ \E t \in Token, f \in Flow, d \in Offered : Grant(t, f, d)
  \/ \E f \in Flow : Revoke(f)
  \/ Reset
  \/ Advance
  \/ \E c \in Client :
       \/ \E t \in Token \cup {None}, d \in Dataset : Send(c, t, d)
       \/ Authorise(c) \/ Serve(c) \/ Refuse(c)

Spec == Init /\ [][Next]_acvars
=============================================================================
