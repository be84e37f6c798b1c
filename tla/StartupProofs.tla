---------------------------- MODULE StartupProofs ----------------------------
(***************************************************************************)
(* Theorems about Startup, for any set of ports, any kinds of control      *)
(* plane and any number of runs: the type invariant and the three safety   *)
(* invariants about addresses and registrations.                           *)
(*                                                                         *)
(* The argument: from the bind on, a listener has the port that was        *)
(* configured, or any port if that was 0; what is sent to a control plane  *)
(* is sent by the last step of build that can still meet an error, names   *)
(* the port bound by then, and stays marked with its run for ever.         *)
(***************************************************************************)
EXTENDS Startup, TLAPS

PublicBound    == {"sdk", "bindSignaling", "register", "awaiting", "serving"}
SignalingBound == {"register", "awaiting", "serving"}

PublicAddress ==
  phase \in PublicBound =>
    /\ listener.public \in Port
    /\ config.publicPort \in {Zero, listener.public}
    /\ \/ tokenBase = listener.public
       \/ tokenBase = "proxy" /\ config.override /\ config.publicPort # Zero

SignalingAddress ==
  phase \in SignalingBound =>
    /\ listener.signaling \in Port
    /\ config.signalingPort \in {Zero, listener.signaling}

(* Every registration a control plane has, or has still to handle.         *)
Sent == puts \cup ({record} \ {None})

SentInOrder ==
  \A put \in Sent :
    /\ put.run <= run
    /\ put.run = run => phase \in {"awaiting", "serving", "stopped"}
    /\ put.run = run /\ phase # "stopped" => put.endpoint = listener.signaling
    /\ config.signalingPort \in {Zero, put.endpoint}

StartupInv == StartupTypeOK /\ PublicAddress /\ SignalingAddress /\ SentInOrder

-----------------------------------------------------------------------------
LEMMA StartupInit == Init => StartupInv
BY StartupAssumption
   DEF Init, StartupInv, StartupTypeOK, PublicAddress, SignalingAddress, SentInOrder,
       Sent, NoListeners, PublicBound, SignalingBound, Building, Ended

(* build goes on without a listener, a message or a change of address.     *)
LEMMA StepKeeps ==
  ASSUME StartupInv, NEW from, NEW to, Step(from, to),
         from \in Building, to \in Building \cup {"serving"},
         to \in PublicBound => from \in PublicBound,
         to \in SignalingBound => from \in SignalingBound,
         from \in {"awaiting", "serving"} => to \in {"awaiting", "serving"},
         callback' \in Port \cup {Zero, None},
         UNCHANGED <<config, run, listener, tokenBase, held, network>>
  PROVE  StartupInv'
<1>1. phase = from /\ phase' = to
      /\ UNCHANGED <<config, run, listener, tokenBase, held, puts, record, reply, probe>>
  BY DEF Step, network
<1>2. StartupTypeOK'
  BY <1>1 DEF StartupInv, StartupTypeOK, Put
<1>3. PublicAddress' /\ SignalingAddress'
  BY <1>1 DEF StartupInv, PublicAddress, SignalingAddress
<1>4. SentInOrder'
  <2>1. from # "stopped" /\ to # "stopped"
    BY DEF Building
  <2> QED
    BY <1>1, <2>1 DEF StartupInv, SentInOrder, Sent
<1> QED
  BY <1>2, <1>3, <1>4 DEF StartupInv

(* Nothing was sent by a run that still can abort.                         *)
LEMMA AbortKeeps ==
  ASSUME StartupInv, Abort, phase \notin {"awaiting", "serving", "stopped"}
  PROVE  StartupInv'
<1>1. phase' = "aborted" /\ listener' = NoListeners
      /\ UNCHANGED <<config, run, tokenBase, callback, held, puts, record, reply, probe>>
  BY DEF Abort, network
<1>2. StartupTypeOK'
  BY <1>1 DEF StartupInv, StartupTypeOK, NoListeners, Ended, Put
<1> QED
  BY <1>1, <1>2 DEF StartupInv, PublicAddress, SignalingAddress, SentInOrder, Sent,
                    PublicBound, SignalingBound

LEMMA BindPublicKeeps == ASSUME StartupInv, BindPublic PROVE StartupInv'
<1>1. CASE phase = "bindPublic" /\ Abort
  BY <1>1, AbortKeeps
<1>2. ASSUME NEW p \in Bindable(config.publicPort),
             Step("bindPublic", "sdk"),
             listener' = [listener EXCEPT !.public = p],
             tokenBase' = PublicBaseUrl(p),
             UNCHANGED <<config, run, callback, held, network>>
      PROVE  StartupInv'
  <2>1. p \in Port /\ config.publicPort \in {Zero, p}
    BY <1>2 DEF Bindable
  <2>2. /\ listener' \in [public : Port \cup {None}, signaling : Port \cup {None}]
        /\ listener'.public = p
    BY <1>2, <2>1 DEF StartupInv, StartupTypeOK
  <2>3. \/ tokenBase' = p
        \/ tokenBase' = "proxy" /\ config.override /\ config.publicPort # Zero
    BY <1>2 DEF PublicBaseUrl
  <2>4. phase = "bindPublic" /\ phase' = "sdk"
    BY <1>2 DEF Step
  <2>5. StartupTypeOK'
    BY <1>2, <2>1, <2>2, <2>3, <2>4
       DEF StartupInv, StartupTypeOK, network, Building, Put
  <2> QED
    BY <1>2, <2>1, <2>2, <2>3, <2>4, <2>5
       DEF StartupInv, PublicAddress, SignalingAddress, SentInOrder, Sent, network,
           SignalingBound
<1> QED
  BY <1>1, <1>2 DEF BindPublic

LEMMA BindSignalingKeeps == ASSUME StartupInv, BindSignaling PROVE StartupInv'
<1>1. CASE phase = "bindSignaling" /\ Abort
  BY <1>1, AbortKeeps
<1>2. ASSUME NEW p \in Bindable(config.signalingPort),
             phase = "bindSignaling", phase' \in {"serving", "register"},
             listener' = [listener EXCEPT !.signaling = p],
             UNCHANGED <<config, run, tokenBase, callback, held, network>>
      PROVE  StartupInv'
  <2>1. p \in Port /\ config.signalingPort \in {Zero, p}
    BY <1>2 DEF Bindable
  <2>2. /\ listener' \in [public : Port \cup {None}, signaling : Port \cup {None}]
        /\ listener'.public = listener.public /\ listener'.signaling = p
    BY <1>2, <2>1 DEF StartupInv, StartupTypeOK
  <2>3. StartupTypeOK'
    BY <1>2, <2>1, <2>2 DEF StartupInv, StartupTypeOK, network, Building, Put
  <2> QED
    BY <1>2, <2>1, <2>2, <2>3
       DEF StartupInv, PublicAddress, SignalingAddress, SentInOrder, Sent, network,
           PublicBound
<1> QED
  BY <1>1, <1>2 DEF BindSignaling, Step

(* The PUT names the port that is bound.                                   *)
LEMMA SendPutKeeps == ASSUME StartupInv, SendPut PROVE StartupInv'
<1>1. CASE /\ Step("register", "serving")
           /\ UNCHANGED <<config, run, listener, tokenBase, callback, held, network>>
  BY <1>1, StepKeeps DEF PublicBound, SignalingBound, Building, StartupInv, StartupTypeOK
<1> DEFINE put == [run |-> run, endpoint |-> SignalingBaseUrl(listener.signaling)]
<1>2. CASE /\ phase = "register" /\ phase' = "awaiting"
           /\ puts' = puts \cup {put}
           /\ UNCHANGED <<config, run, listener, tokenBase, callback, held, record, reply, probe>>
  <2>1. /\ listener.signaling \in Port
        /\ config.signalingPort \in {Zero, listener.signaling}
    BY <1>2 DEF StartupInv, SignalingAddress, SignalingBound
  <2>2. put \in Put /\ put.run = run /\ put.endpoint = listener.signaling
    BY <2>1 DEF StartupInv, StartupTypeOK, Put, SignalingBaseUrl
  <2> HIDE DEF put
  <2>3. StartupTypeOK'
    BY <1>2, <2>2 DEF StartupInv, StartupTypeOK, Building, Put
  <2>4. SentInOrder'
    BY <1>2, <2>1, <2>2 DEF StartupInv, StartupTypeOK, SentInOrder, Sent
  <2> QED
    BY <1>2, <2>3, <2>4
       DEF StartupInv, PublicAddress, SignalingAddress, PublicBound, SignalingBound
<1> QED
  BY <1>1, <1>2 DEF SendPut

LEMMA StopKeeps == ASSUME StartupInv, Stop PROVE StartupInv'
<1>1. StartupTypeOK'
  BY DEF StartupInv, StartupTypeOK, Stop, NoListeners, network, Ended, Put
<1> QED
  BY <1>1 DEF StartupInv, PublicAddress, SignalingAddress, SentInOrder, Sent, Stop,
              network, PublicBound, SignalingBound

LEMMA RunAgainKeeps == ASSUME StartupInv, RunAgain PROVE StartupInv'
<1>1. StartupTypeOK'
  BY DEF StartupInv, StartupTypeOK, RunAgain, Building, Put
<1>2. \A put \in Sent : put.run \in Nat
  BY DEF StartupInv, StartupTypeOK, Sent, Put
<1>3. SentInOrder'
  BY <1>2 DEF StartupInv, StartupTypeOK, SentInOrder, Sent, RunAgain
<1> QED
  BY <1>1, <1>3 DEF StartupInv, PublicAddress, SignalingAddress, RunAgain,
                    PublicBound, SignalingBound

(* A control plane knows nothing it was not sent.                          *)
LEMMA CpHandleKeeps ==
  ASSUME StartupInv, NEW put \in puts, CpHandle(put)
  PROVE  StartupInv'
<1>1. /\ puts' \subseteq puts
      /\ record' \in {put, record}
      /\ reply' \in {"ok", "broken", "rejected", reply}
      /\ UNCHANGED <<config, run, phase, listener, tokenBase, callback, held, probe>>
  BY DEF CpHandle, process
<1>2. Sent' \subseteq Sent
  BY <1>1 DEF Sent
<1>3. StartupTypeOK'
  BY <1>1 DEF StartupInv, StartupTypeOK, Put
<1> QED
  BY <1>1, <1>2, <1>3
     DEF StartupInv, PublicAddress, SignalingAddress, SentInOrder

LEMMA StartupStep == StartupInv /\ [Next]_vars => StartupInv'
<1> SUFFICES ASSUME StartupInv, [Next]_vars PROVE StartupInv'
  OBVIOUS
<1>c. callback \in Port \cup {Zero, None} /\ config.signalingPort \in Port \cup {Zero}
  BY DEF StartupInv, StartupTypeOK
<1>1. CASE SeedGraph
  BY <1>c, <1>1, StepKeeps, AbortKeeps
     DEF SeedGraph, PublicBound, SignalingBound, Building
<1>2. CASE ProbeConnector
  BY <1>c, <1>2, StepKeeps DEF ProbeConnector, PublicBound, SignalingBound, Building
<1>3. CASE BuildSdk
  BY <1>c, <1>3, StepKeeps, AbortKeeps
     DEF BuildSdk, PublicBound, SignalingBound, Building
<1>4. CASE RegistrationReturns
  BY <1>c, <1>4, StepKeeps
     DEF RegistrationReturns, PublicBound, SignalingBound, Building
<1>5. CASE UNCHANGED vars
  BY <1>5 DEF StartupInv, StartupTypeOK, PublicAddress, SignalingAddress,
              SentInOrder, Sent, vars, process, network, Put
<1>6. ASSUME UNCHANGED <<config, process, puts, record, reply>>,
             held' \subseteq Port, probe' \in {"queued", "answered", None}
      PROVE  StartupInv'
  BY <1>6 DEF StartupInv, StartupTypeOK, PublicAddress, SignalingAddress,
              SentInOrder, Sent, process, Put
<1>7. CASE ServeQueued
  BY <1>6, <1>7 DEF ServeQueued, StartupInv, StartupTypeOK
<1>8. ASSUME NEW put, CpCall(put) PROVE StartupInv'
  BY <1>6, <1>8 DEF CpCall, StartupInv, StartupTypeOK
<1>9. ASSUME NEW p \in Port, OtherProcess(p) PROVE StartupInv'
  BY <1>6, <1>9 DEF OtherProcess, StartupInv, StartupTypeOK, network
<1> QED
  BY <1>1, <1>2, <1>3, <1>4, <1>5, <1>7, <1>8, <1>9, BindPublicKeeps,
     BindSignalingKeeps, SendPutKeeps, StopKeeps, RunAgainKeeps, CpHandleKeeps
     DEF Next, BuildStep, CpStep

(* The inductive invariant of the process and its registrations, over all  *)
(* its runs.                                                               *)
THEOREM StartupInvHolds == Spec => []StartupInv
BY StartupInit, StartupStep, PTL DEF Spec

(* Every variable keeps its type; no PUT ever names port 0.                *)
THEOREM StartupTypeCorrect == Spec => []StartupTypeOK
<1>1. StartupInv => StartupTypeOK
  BY DEF StartupInv
<1> QED
  BY <1>1, StartupInvHolds, PTL

(* The addresses in tokens lead to the public listener of this run.        *)
THEOREM AddressesReachListener == Spec => []TokensPointAtListener
<1>1. StartupInv => TokensPointAtListener
  BY DEF StartupInv, PublicAddress, PublicBound, TokensPointAtListener
<1> QED
  BY <1>1, StartupInvHolds, PTL

(* What a control plane has of this run, or of any run with a fixed port,  *)
(* names the signaling listener.                                           *)
THEOREM RegistrationsNameListener == Spec => []RegistrationNamesListener
<1>1. StartupInv => RegistrationNamesListener
  BY StartupAssumption
     DEF StartupInv, SentInOrder, Sent, SignalingAddress, SignalingBound,
         RegistrationNamesListener
<1> QED
  BY <1>1, StartupInvHolds, PTL

(* A run whose build fails has told no control plane about itself.         *)
THEOREM FailedRunsAreUnknown == Spec => []NoPhantomRegistration
<1>1. StartupInv => NoPhantomRegistration
  BY DEF StartupInv, SentInOrder, Sent, NoPhantomRegistration
<1> QED
  BY <1>1, StartupInvHolds, PTL
=============================================================================
