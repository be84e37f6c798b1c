------------------------------- MODULE Startup -------------------------------
(***************************************************************************)
(* The life of the data-plane process: build (dataplane/src/lib.rs) step   *)
(* by step, its self-registration with a control plane                     *)
(* (dataplane/src/registration.rs), serve, the end of the process and its  *)
(* next run.  Other processes take and free ports meanwhile, and the       *)
(* control plane receives the PUTs, possibly after their sender is gone.   *)
(***************************************************************************)
EXTENDS Naturals

CONSTANTS
  Port,           \* the ports of this host
  Zero,           \* the configured port 0: the OS picks one
  None,
  ControlPlane,   \* the kinds of control plane there may be, see CpKind
  MaxRuns         \* bound: runs of the process

(* answers: every PUT is answered, with any status.  probes: answers a PUT *)
(* only when a call it made to the endpoint has been answered.  silent:    *)
(* accepts PUTs and need not answer.  down: nothing listens at its URL.    *)
(* unset: CONTROL_PLANE_URL is not set.                                    *)
CpKind == {"answers", "probes", "silent", "down", "unset"}

ASSUME StartupAssumption ==
  /\ Zero \notin Port /\ None \notin Port \cup {Zero}
  /\ ControlPlane \subseteq CpKind
  /\ MaxRuns \in Nat

VARIABLES
  config,      \* the ports configured, and the control plane
  run,         \* which run of main this is
  phase,       \* the next step of build, or how the run ended
  listener,    \* the ports this process listens on
  tokenBase,   \* public_base_url, as the handler was given it
  callback,    \* the port in the URL of the SDK's own control plane
  held,        \* ports other processes listen on
  puts,        \* registrations sent and not yet handled
  record,      \* the control plane's entry for this data plane's id
  reply,       \* the control plane's answer to this run's PUT
  probe        \* a call in the signaling listener's backlog

process == <<run, phase, listener, tokenBase, callback>>
network == <<puts, record, reply, probe>>
vars == <<config, process, held, network>>

Building == {"seed", "connector", "bindPublic", "sdk", "bindSignaling",
             "register", "awaiting"}
Ended    == {"aborted", "stopped"}
NoListeners == [public |-> None, signaling |-> None]

Init ==
  /\ config \in [publicPort : Port \cup {Zero}, signalingPort : Port \cup {Zero},
                 override : BOOLEAN,    \* PUBLIC_BASE_URL names a proxy
                 controlPlane : ControlPlane]
  /\ run = 1
  /\ phase = "seed"
  /\ listener = NoListeners
  /\ tokenBase = None /\ callback = None
  /\ held \in SUBSET Port
  /\ puts = {} /\ record = None /\ reply = None /\ probe = None

-----------------------------------------------------------------------------
(* build.                                                                  *)

Step(from, to) == phase = from /\ phase' = to

(* An error that `?` hands to main: the process exits, and the OS closes   *)
(* what it had bound.                                                      *)
Abort ==
  /\ phase' = "aborted"
  /\ listener' = NoListeners
  /\ UNCHANGED <<config, run, tokenBase, callback, held, network>>

SeedGraph ==
  \/ /\ Step("seed", "connector")
     /\ UNCHANGED <<config, run, listener, tokenBase, callback, held, network>>
  \/ phase = "seed" /\ Abort

(* The round trip through the connector is logged, whatever comes of it.   *)
ProbeConnector ==
  /\ Step("connector", "bindPublic")
  /\ UNCHANGED <<config, run, listener, tokenBase, callback, held, network>>

Free(p) == p \notin held \cup {listener.public, listener.signaling}

(* The ports a bind to the configured port may yield.                      *)
Bindable(port) == {p \in Port : Free(p) /\ port \in {Zero, p}}

(* A base URL taken from the configured port, 0 included.                  *)
PublicBaseUrlAsConfigured(p) ==
  IF config.override THEN "proxy" ELSE config.publicPort

PublicBaseUrl(p) ==
  IF config.publicPort # Zero /\ config.override THEN "proxy" ELSE p

(* The public listener comes first, so that the handler gets its URL.      *)
BindPublic ==
  \/ /\ Step("bindPublic", "sdk")
     /\ \E p \in Bindable(config.publicPort) :
          /\ listener' = [listener EXCEPT !.public = p]
          /\ tokenBase' = PublicBaseUrl(p)
     /\ UNCHANGED <<config, run, callback, held, network>>
  \/ phase = "bindPublic" /\ Abort

(* Handler, repositories, SDK and routers.  The SDK's control plane is at  *)
(* the configured signaling port, which is not bound yet; 0 stays 0.       *)
BuildSdk ==
  \/ /\ Step("sdk", "bindSignaling")
     /\ callback' = config.signalingPort
     /\ UNCHANGED <<config, run, listener, tokenBase, held, network>>
  \/ phase = "sdk" /\ Abort

BindSignaling ==
  \/ /\ Step("bindSignaling",
             IF config.controlPlane = "unset" THEN "serving" ELSE "register")
     /\ \E p \in Bindable(config.signalingPort) :
          listener' = [listener EXCEPT !.signaling = p]
     /\ UNCHANGED <<config, run, tokenBase, callback, held, network>>
  \/ phase = "bindSignaling" /\ Abort

-----------------------------------------------------------------------------
(* Registration.                                                           *)

(* A registration that names the configured port, 0 included.              *)
SignalingBaseUrlAsConfigured(p) == config.signalingPort

SignalingBaseUrl(p) == p

(* A registration that tries again until somebody listens.                 *)
SendPutRetries ==
  /\ phase = "register"
  /\ config.controlPlane # "down"
  /\ phase' = "awaiting"
  /\ puts' = puts \cup {[run |-> run, endpoint |-> SignalingBaseUrl(listener.signaling)]}
  /\ UNCHANGED <<config, run, listener, tokenBase, callback, held, record, reply, probe>>

(* register_with_control_plane sends its PUT, or fails to connect: a       *)
(* warning, and build goes on.                                             *)
SendPut ==
  \/ /\ phase = "register" /\ config.controlPlane # "down"
     /\ phase' = "awaiting"
     /\ puts' = puts \cup {[run |-> run, endpoint |-> SignalingBaseUrl(listener.signaling)]}
     /\ UNCHANGED <<config, run, listener, tokenBase, callback, held, record, reply, probe>>
  \/ /\ Step("register", "serving")
     /\ UNCHANGED <<config, run, listener, tokenBase, callback, held, network>>

(* A registration whose failure is handed to main.                         *)
RegistrationReturnsFatal ==
  /\ phase = "awaiting"
  /\ reply # None
  /\ IF reply = "ok"
     THEN /\ phase' = "serving"
          /\ UNCHANGED <<config, run, listener, tokenBase, callback, held, network>>
     ELSE Abort

(* A registration that waits for a success.                                *)
RegistrationReturnsOkOnly ==
  /\ reply = "ok"
  /\ Step("awaiting", "serving")
  /\ UNCHANGED <<config, run, listener, tokenBase, callback, held, network>>

(* Ok, an error status and a broken connection alike end in Ok(App).  The  *)
(* client has no timeout: without a reply nothing happens here.            *)
RegistrationReturns ==
  /\ reply # None
  /\ Step("awaiting", "serving")
  /\ UNCHANGED <<config, run, listener, tokenBase, callback, held, network>>

-----------------------------------------------------------------------------
(* serve, and the end of a run.                                            *)

(* Requests queued since the bind are answered once serve runs.            *)
ServeQueued ==
  /\ phase = "serving"
  /\ probe = "queued"
  /\ probe' = "answered"
  /\ UNCHANGED <<config, process, held, puts, record, reply>>

(* ctrl-c, a server error, or a kill in the middle of build.  Nothing      *)
(* deregisters; a PUT that is under way may still arrive.                  *)
Stop ==
  /\ phase \in Building \cup {"serving"}
  /\ phase' = "stopped"
  /\ listener' = NoListeners
  /\ UNCHANGED <<config, run, tokenBase, callback, held, network>>

RunAgain ==
  /\ phase \in Ended
  /\ run < MaxRuns
  /\ run' = run + 1
  /\ phase' = "seed"
  /\ tokenBase' = None /\ callback' = None
  /\ reply' = None
  /\ probe' = None
  /\ UNCHANGED <<config, listener, held, puts, record>>

-----------------------------------------------------------------------------
(* The environment.                                                        *)

OtherProcess(p) ==
  /\ \/ Free(p) /\ held' = held \cup {p}
     \/ p \in held /\ held' = held \ {p}
  /\ UNCHANGED <<config, process, network>>

(* A control plane calls an endpoint it was given, now or in an earlier    *)
(* run; the connection waits in the backlog of whoever listens there.      *)
CpCall(put) ==
  /\ put.endpoint = listener.signaling
  /\ probe = None
  /\ probe' = "queued"
  /\ UNCHANGED <<config, process, held, puts, record, reply>>

(* The PUT is accepted, accepted with the answer lost, or rejected.  The   *)
(* answer reaches only the run that sent the PUT.                          *)
CpHandle(put) ==
  /\ config.controlPlane = "probes" /\ put.run = run /\ phase \notin Ended
       => probe = "answered"
  /\ puts' = puts \ {put}
  /\ \E outcome \in {"ok", "broken", "rejected"} :
       /\ \/ outcome # "rejected" /\ record' = put
          \/ outcome # "ok" /\ record' = record
       /\ reply' = IF put.run = run THEN outcome ELSE reply
  /\ UNCHANGED <<config, process, held, probe>>

BuildStep ==
  \/ SeedGraph \/ ProbeConnector \/ BindPublic \/ BuildSdk \/ BindSignaling
  \/ SendPut \/ RegistrationReturns \/ ServeQueued

CpStep ==
  \/ \E put \in puts : CpHandle(put)
  \/ \E put \in puts \cup ({record} \ {None}) : CpCall(put)

Next ==
  \/ BuildStep
  \/ Stop
  \/ RunAgain
  \/ CpStep
  \/ \E p \in Port : OtherProcess(p)

Spec == Init /\ [][Next]_vars

(* The process runs, and every control plane but a silent one gets on.     *)
FairSpec ==
  /\ Spec
  /\ WF_vars(BuildStep)
  /\ WF_vars(config.controlPlane # "silent" /\ CpStep)

-----------------------------------------------------------------------------
(* Properties.                                                             *)

Put == [run : Nat, endpoint : Port]

(* Every variable keeps its type; above all, an endpoint sent to a control *)
(* plane is a real port, not the configured 0 (the SDK's own control plane *)
(* is at the configured one).                                              *)
StartupTypeOK ==
  /\ config \in [publicPort : Port \cup {Zero}, signalingPort : Port \cup {Zero},
                 override : BOOLEAN, controlPlane : ControlPlane]
  /\ run \in Nat
  /\ phase \in Building \cup Ended \cup {"serving"}
  /\ listener \in [public : Port \cup {None}, signaling : Port \cup {None}]
  /\ tokenBase \in Port \cup {"proxy", None}
  /\ callback \in Port \cup {Zero, None}
  /\ held \subseteq Port
  /\ puts \subseteq Put
  /\ record \in Put \cup {None}
  /\ reply \in {"ok", "broken", "rejected", None}
  /\ probe \in {"queued", "answered", None}

(* The URL in every DataAddress leads to this process: it names the port   *)
(* of the public listener, or PUBLIC_BASE_URL's proxy in front of it, and  *)
(* the proxy only if the port is the one the operator configured.          *)
TokensPointAtListener ==
  phase = "serving" =>
    \/ tokenBase = listener.public
    \/ /\ tokenBase = "proxy" /\ config.override
       /\ config.publicPort = listener.public

(* The entry a control plane holds names the signaling listener: always    *)
(* for an entry of this run, and with a fixed SIGNALING_PORT even for one  *)
(* of an earlier run whose PUT arrived late or was never followed.         *)
RegistrationNamesListener ==
  \/ phase \notin {"awaiting", "serving"}
  \/ record = None
  \/ record.run # run /\ config.signalingPort = Zero
  \/ record.endpoint = listener.signaling

(* No control plane hears of a run whose build then fails: registration is *)
(* the last step that could, and its own errors are not fatal.             *)
NoPhantomRegistration ==
  phase = "aborted" =>
    /\ \A put \in puts : put.run # run
    /\ record # None => record.run # run

(* Registration is optional and non-fatal: whatever becomes of it, the     *)
(* data plane goes on to serve unless somebody stops it.                   *)
RegistrationNeverBlocksServing ==
  phase = "register" ~> phase \in {"serving", "stopped"}

(* A control plane may call as soon as it has the endpoint, and the socket *)
(* accepts while build still runs: such a call is answered in the end,     *)
(* unless the process ends first.                                          *)
EarlyCallsAnswered == probe = "queued" ~> probe # "queued" \/ phase \in Ended
=============================================================================
