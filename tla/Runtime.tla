------------------------------ MODULE Runtime -------------------------------
(***************************************************************************)
(* The life of a process: main reads the settings, Run opens what it needs *)
(* and defers the closing of each, the components run until a signal or a  *)
(* failing server cancels their context, and the deferred closes run in    *)
(* reverse.  The worker process runs the consumer (the session and pool of *)
(* Dispatch), the relay, two samplers and the health server in one         *)
(* errgroup; the API process runs its server alone.  The samplers, which   *)
(* run the same code, are one component here: they have returned when both *)
(* have.                                                                   *)
(***************************************************************************)
EXTENDS Dispatch, Config

CONSTANTS
    Settings,    \* settings a process may find in its environment
    MaxRequests  \* bound: HTTP requests served at the same time

VARIABLES
    process,     \* "worker" or "api"
    settings,    \* the settings Load finds
    stage,       \* where main and Run are
    defers,      \* the deferred closes, the last one to run first
    expired,     \* StartupTimeout has passed
    signalled,   \* SIGINT or SIGTERM has cancelled the outer context
    outcome,     \* why Run returns early, or how the server ended
    loops,       \* the loops that have not returned
    server,      \* serving, draining, stopped
    requests     \* handlers of the server that are running

runtime == <<process, settings, stage, defers, expired, signalled, outcome,
             loops, server, requests>>
rvars == <<vars, runtime>>

Loops == {"relay", "samplers"}

RuntimeInit ==
    /\ Init
    /\ process \in {"worker", "api"}
    /\ settings \in {c \in Settings : c.requireRabbitMQ = (process = "worker")}
    /\ prefetch = settings.prefetch /\ Concurrency = settings.concurrency
    /\ stage = "load" /\ defers = <<>>
    /\ expired = FALSE /\ signalled = FALSE /\ outcome = "none"
    /\ loops = {}
    /\ server = "stopped" /\ requests = 0

-----------------------------------------------------------------------------
(* Starting.                                                               *)

(* Run returns an error: nothing is left to do but the deferred closes.    *)
Return(why) == stage' = "close" /\ outcome' = why

Unstarted == <<vars, process, settings, expired, signalled, loops, server, requests>>

(* main: Load, and for the API the checks Run makes before it opens        *)
(* anything.                                                               *)
Load ==
    /\ stage = "load"
    /\ IF Accepted(settings) /\ (process = "api" => ApiAccepted(settings))
       THEN stage' = "telemetry" /\ UNCHANGED outcome
       ELSE Return("settings")
    /\ UNCHANGED <<Unstarted, defers>>

(* telemetry.New, then the instruments.                                    *)
OpenTelemetry ==
    /\ stage = "telemetry"
    /\ \/ stage' = "db" /\ defers' = <<"telemetry">> /\ UNCHANGED outcome
       \/ Return("telemetry") /\ defers' \in {<<>>, <<"telemetry">>}
    /\ UNCHANGED Unstarted

(* startupCtx is done: its deadline has passed or a signal came.           *)
StartupOver == expired \/ signalled

StartupExpires ==
    /\ stage \in {"db", "dbWait", "broker", "brokerWait", "warm"}
    /\ ~expired
    /\ expired' = TRUE
    /\ UNCHANGED <<vars, process, settings, stage, defers, signalled, outcome,
                   loops, server, requests>>

(* retry.Do around database.Open: an attempt needs a live context, a       *)
(* failed one waits for its timer.                                         *)
OpenDatabase ==
    /\ stage = "db"
    /\ \/ /\ ~StartupOver
          /\ stage' = IF process = "worker" THEN "broker" ELSE "warm"
          /\ defers' = Append(defers, "db") /\ UNCHANGED outcome
       \/ ~StartupOver /\ Return("telemetry") /\ defers' = Append(defers, "db")
       \/ stage' = "dbWait" /\ UNCHANGED <<defers, outcome>>
    /\ UNCHANGED Unstarted

ConnectBroker ==
    /\ stage = "broker"
    /\ \/ ~StartupOver /\ stage' = "warm"
          /\ defers' = defers \o <<"broker", "consumerBroker", "republishBroker", "samplingBroker">>
       \/ stage' = "brokerWait" /\ UNCHANGED defers
    /\ UNCHANGED <<Unstarted, outcome>>

RetryTimer ==
    /\ \/ stage = "dbWait" /\ stage' = "db"
       \/ stage = "brokerWait" /\ stage' = "broker"
    /\ UNCHANGED <<Unstarted, defers, outcome>>

(* Bug: a worker without its broker does not start.                        *)
giveUpOnBoth ==
    /\ StartupOver
    /\ stage \in {"dbWait", "brokerWait"} /\ Return("postgres") /\ UNCHANGED defers
    /\ UNCHANGED Unstarted

(* Without PostgreSQL Run fails; "the broker is not required to boot".     *)
RetryGivesUp ==
    /\ StartupOver
    /\ \/ stage = "dbWait" /\ Return("postgres") /\ UNCHANGED defers
       \/ /\ stage = "brokerWait" /\ stage' = "warm" /\ UNCHANGED outcome
          /\ defers' = defers \o <<"broker", "consumerBroker", "republishBroker", "samplingBroker">>
    /\ UNCHANGED Unstarted

(* The worker: Warm, whatever it returns, InstanceIdentity and the wiring; *)
(* then the group starts and startupCtx no longer matters.                 *)
StartGroup ==
    /\ stage = "warm" /\ process = "worker"
    /\ expired' = FALSE
    /\ defers' = Append(defers, "publisher")
    /\ \/ /\ stage' = "run"
          /\ server' = "serving" /\ loops' = Loops
          /\ cancelled' = signalled
          /\ UNCHANGED outcome
       \/ Return("identity") /\ UNCHANGED <<server, loops, cancelled>>
    /\ UNCHANGED <<disp, st, errors, open, queue, unacked, pushed, prefetch, process, settings,
                   signalled, requests>>

(* The API: the services are wired and the server runs, alone.             *)
StartServer ==
    /\ stage = "warm" /\ process = "api"
    /\ expired' = FALSE
    /\ stage' = "run"
    /\ server' = "serving" /\ disp' = "stopped"
    /\ cancelled' = signalled
    /\ UNCHANGED <<st, errors, open, queue, unacked, pushed, prefetch, process, settings,
                   defers, signalled, outcome, loops, requests>>

-----------------------------------------------------------------------------
(* Running.                                                                *)

(* The consumer's steps, which Dispatch describes.                         *)
On(A) == stage = "run" /\ A /\ UNCHANGED runtime

Consume ==
    \/ Push \/ ChannelDies
    \/ OpenSession \/ Take \/ SeeError \/ SeeClosed \/ SeeCancel \/ SessionOver
    \/ \E w \in Workers : WorkerStep(w)

Quiet == <<vars, process, settings, stage, defers, expired, signalled, outcome>>

(* A loop returns nil when it sees the context, between two rounds or in   *)
(* one: a relay cycle or a sample that fails then is a shutdown.           *)
LoopStops(l) ==
    /\ l \in loops /\ cancelled
    /\ loops' = loops \ {l}
    /\ UNCHANGED <<Quiet, server, requests>>

RequestArrives ==
    /\ server = "serving" /\ requests < MaxRequests
    /\ requests' = requests + 1
    /\ UNCHANGED <<Quiet, loops, server>>

RequestEnds ==
    /\ requests > 0
    /\ requests' = requests - 1
    /\ UNCHANGED <<Quiet, loops, server>>

(* Listening or serving fails: the one error that can end the group.       *)
ServeFails ==
    /\ stage = "run" /\ server = "serving"
    /\ server' = "stopped" /\ cancelled' = TRUE /\ outcome' = "server"
    /\ UNCHANGED <<disp, st, errors, open, queue, unacked, pushed, prefetch, process,
                   settings, stage, defers, expired, signalled, loops, requests>>

ServerDrains ==
    /\ server = "serving" /\ cancelled
    /\ server' = "draining"
    /\ UNCHANGED <<Quiet, loops, requests>>

(* Bug: Shutdown has no deadline.                                          *)
drainForever ==
    /\ server = "draining"
    /\ requests = 0 /\ UNCHANGED outcome
    /\ server' = "stopped"
    /\ UNCHANGED <<vars, process, settings, stage, defers, expired, signalled, loops, requests>>

(* Shutdown waits for the handlers; at its deadline Close gives up on      *)
(* them and Run reports it.                                                *)
ServerStops ==
    /\ server = "draining"
    /\ \/ requests = 0 /\ UNCHANGED outcome
       \/ requests > 0 /\ outcome' = "server"
    /\ server' = "stopped"
    /\ UNCHANGED <<vars, process, settings, stage, defers, expired, signalled, loops, requests>>

-----------------------------------------------------------------------------
(* Stopping.                                                               *)

(* The first signal; once the components' context is cancelled, or Run     *)
(* returns anyway, a signal changes nothing.                               *)
Signal ==
    /\ stage \notin {"load", "close", "exited"}
    /\ ~signalled /\ ~cancelled
    /\ signalled' = TRUE
    /\ cancelled' = (stage = "run")
    /\ UNCHANGED <<disp, st, errors, open, queue, unacked, pushed, prefetch, process,
                   settings, stage, defers, expired, outcome, loops, server, requests>>

(* Bug: Run returns when its server does.                                  *)
waitForServer ==
    /\ stage = "run"
    /\ server = "stopped"
    /\ stage' = "close"
    /\ UNCHANGED <<Unstarted, defers, outcome>>

(* group.Wait: every component has returned.                               *)
GroupReturns ==
    /\ stage = "run"
    /\ server = "stopped" /\ disp = "stopped" /\ loops = {}
    /\ stage' = "close"
    /\ UNCHANGED <<Unstarted, defers, outcome>>

CloseLast ==
    /\ stage = "close" /\ defers # <<>>
    /\ defers' = SubSeq(defers, 1, Len(defers) - 1)
    /\ UNCHANGED <<Unstarted, stage, outcome>>

(* main returns, and with it goes whatever still runs.                     *)
ProcessExits ==
    /\ stage = "close" /\ defers = <<>>
    /\ stage' = "exited" /\ requests' = 0
    /\ UNCHANGED <<vars, process, settings, defers, expired, signalled, outcome,
                   loops, server>>

RuntimeNext ==
    \/ Load \/ OpenTelemetry \/ StartupExpires \/ OpenDatabase \/ ConnectBroker
    \/ RetryTimer \/ RetryGivesUp \/ StartGroup \/ StartServer
    \/ On(Consume)
    \/ \E l \in Loops : LoopStops(l)
    \/ RequestArrives \/ RequestEnds \/ ServeFails \/ ServerDrains \/ ServerStops
    \/ Signal \/ GroupReturns \/ CloseLast \/ ProcessExits

RuntimeSpec == RuntimeInit /\ [][RuntimeNext]_rvars

(***************************************************************************)
(* Timers fire, attempts and rounds have deadlines and end, goroutines are *)
(* scheduled, and a select with two ready cases does not always prefer the *)
(* same one.  Nothing says that an attempt succeeds, that a request ends   *)
(* or that a signal comes.                                                 *)
(***************************************************************************)
RuntimeFairness ==
    /\ WF_rvars(Load) /\ WF_rvars(OpenTelemetry) /\ WF_rvars(StartupExpires)
    /\ WF_rvars(OpenDatabase) /\ WF_rvars(ConnectBroker) /\ WF_rvars(RetryTimer)
    /\ SF_rvars(RetryGivesUp) /\ WF_rvars(StartGroup) /\ WF_rvars(StartServer)
    /\ WF_rvars(On(Push)) /\ WF_rvars(On(OpenSession)) /\ WF_rvars(On(SessionOver))
    /\ SF_rvars(On(Take)) /\ SF_rvars(On(SeeError)) /\ SF_rvars(On(SeeClosed))
    /\ SF_rvars(On(SeeCancel))
    /\ \A w \in Workers :
          /\ WF_rvars(On(Handoff(w))) /\ WF_rvars(On(Succeed(w) \/ HandleFails(w)))
          /\ WF_rvars(On(Report(w))) /\ WF_rvars(On(Exit(w)))
    /\ \A l \in Loops : WF_rvars(LoopStops(l))
    /\ WF_rvars(ServerDrains) /\ WF_rvars(ServerStops)
    /\ WF_rvars(GroupReturns) /\ WF_rvars(CloseLast) /\ WF_rvars(ProcessExits)

RuntimeLiveSpec == RuntimeSpec /\ RuntimeFairness

-----------------------------------------------------------------------------
(* Properties.                                                             *)

Opened == {defers[i] : i \in DOMAIN defers}

(* No component works on a connection that is closed or was never opened,  *)
(* from the first round to the last close; a publisher is closed before    *)
(* the connection under it.  Only a handler that outlives its server,      *)
(* because the drain ran out or Serve itself failed, may still find the    *)
(* pool closed.                                                            *)
NothingUsedAfterClose ==
    /\ "relay" \in loops => {"db", "broker", "publisher"} \subseteq Opened
    /\ "samplers" \in loops => {"db", "samplingBroker"} \subseteq Opened
    /\ (stage \in {"run", "close"} /\ disp \notin {"stopped", "backoff"})
          => {"db", "consumerBroker", "republishBroker"} \subseteq Opened
    /\ (requests > 0 /\ server # "stopped")
          => {"db"} \cup (IF process = "worker" THEN {"broker"} ELSE {}) \subseteq Opened
    /\ "publisher" \in Opened => "broker" \in Opened
    /\ Opened # {} => "telemetry" \in Opened

(* "The broker is not required to boot": once PostgreSQL is open a worker  *)
(* comes up, however long the broker stays away.                           *)
BrokerNotRequired == (stage = "broker") ~> (stage = "run" \/ outcome = "identity")

(* "Whichever stops first takes the others down with it": after a signal,  *)
(* at any moment of startup or of service, or a failing server, every      *)
(* component stops and the process exits, even if a request never ends.    *)
ProcessStops == (signalled \/ outcome # "none") ~> (stage = "exited")

=============================================================================
