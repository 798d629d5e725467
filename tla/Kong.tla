-------------------------------- MODULE Kong --------------------------------
(***************************************************************************)
(* KongService (src/src/shared/core/kong/kong.service.ts): every instance  *)
(* registers the service and its route with the gateway when it boots, by  *)
(* look-ups and writes that other instances may come between.  The gateway *)
(* is external: names are unique and PATCH of a missing object is 404.     *)
(***************************************************************************)
EXTENDS Naturals, FiniteSets

CONSTANTS
  Instances,  \* instances of the application
  Config,     \* instance |-> the host, port and path it is configured with
  MaxFaults,  \* bound: failed calls, lost answers and restarts
  None        \* nothing there

KongAssumption ==
  /\ DOMAIN Config = Instances
  /\ \A i \in Instances : Config[i] # None
  /\ Instances # {} /\ None \notin Instances /\ MaxFaults \in Nat

VARIABLES
  service,   \* the configuration of the service, or None
  route,     \* the configuration of `<name>-route`, or None
  foreign,   \* the service has a route of another name
  phase,     \* where each instance is in registerService
  faults,    \* failed calls, lost answers and restarts so far
  last,      \* history: the instance that booted last
  overlap    \* history: two instances have been registering at the same time

kongVars == <<service, route, foreign, phase, faults, last, overlap>>

-----------------------------------------------------------------------------

Configs == {Config[i] : i \in Instances}
Ended == {"down", "done", "failed"}
Registering(i) == phase[i] \notin Ended
In(i, p) == phase[i] = p
Goto(i, p) == phase' = [phase EXCEPT ![i] = p]
Gateway == <<service, route, foreign>>

Fault == faults < MaxFaults /\ faults' = faults + 1

\* The answer comes, or is lost; registerService logs an error and gives up.
Reply(i, p) ==
  /\ \/ Goto(i, p) /\ UNCHANGED faults
     \/ Goto(i, "failed") /\ Fault
  /\ UNCHANGED <<foreign, last, overlap>>

\* onModuleInit.
Boot(i) ==
  /\ In(i, "down")
  /\ Goto(i, "check")
  /\ last' = i
  /\ overlap' = (overlap \/ \E j \in Instances : Registering(j))
  /\ UNCHANGED <<Gateway, faults>>

\* 404 is an answer.
AfterCheck(i) == IF service = None THEN "create" ELSE "update"

CheckServiceExists(i) ==
  /\ In(i, "check")
  /\ Reply(i, AfterCheck(i))
  /\ UNCHANGED <<service, route>>

\* POST of a name that another instance has taken is 409.
CreateService(i) ==
  /\ In(i, "create")
  /\ service' = IF service = None THEN Config[i] ELSE service
  /\ UNCHANGED route
  /\ Reply(i, IF service = None THEN "routes" ELSE "failed")

UpdateService(i) ==
  /\ In(i, "update")
  /\ service' = Config[i] /\ UNCHANGED route
  /\ Reply(i, "routes")

\* Only a missing route is written, an old one is left.
AddOnly(i) == IF route # None \/ foreign THEN "done" ELSE "add"

\* Any route of the service counts, one of another name as well.
AfterRoutes(i) == IF route # None \/ foreign THEN "patch" ELSE "add"

GetServiceRoutes(i) ==
  /\ In(i, "routes")
  /\ Reply(i, AfterRoutes(i))
  /\ UNCHANGED <<service, route>>

AddRoute(i) ==
  /\ In(i, "add")
  /\ route' = IF route = None THEN Config[i] ELSE route
  /\ UNCHANGED service
  /\ Reply(i, IF route = None THEN "done" ELSE "failed")

\* PATCH of the own route, by its name.
PatchRoute(i) ==
  /\ In(i, "patch")
  /\ route' = IF route # None THEN Config[i] ELSE None
  /\ UNCHANGED service
  /\ Reply(i, IF route # None THEN "done" ELSE "failed")

\* A call fails and has no effect, or the process ends; it may be restarted.
Interrupt(i) ==
  /\ Fault
  /\ \/ Registering(i) /\ Goto(i, "failed")
     \/ ~In(i, "down") /\ Goto(i, "down")
  /\ UNCHANGED <<Gateway, last, overlap>>

\* An operator adds a route of another name.
AddForeignRoute ==
  /\ service # None /\ ~foreign
  /\ foreign' = TRUE
  /\ UNCHANGED <<service, route, phase, faults, last, overlap>>

KongInit ==
  /\ service = None /\ route = None /\ foreign = FALSE
  /\ phase = [i \in Instances |-> "down"]
  /\ faults = 0 /\ last = None /\ overlap = FALSE

Register(i) ==
  \/ Boot(i) \/ CheckServiceExists(i)
  \/ CreateService(i) \/ UpdateService(i)
  \/ GetServiceRoutes(i) \/ AddRoute(i) \/ PatchRoute(i)
  \/ Interrupt(i)

KongNext == (\E i \in Instances : Register(i)) \/ AddForeignRoute

-----------------------------------------------------------------------------
(* What holds.                                                             *)

KongTypeOK ==
  /\ {service, route} \subseteq Configs \cup {None}
  /\ {foreign, overlap} \subseteq BOOLEAN
  /\ phase \in [Instances ->
       Ended \cup {"check", "create", "update", "routes", "add", "patch"}]
  /\ faults \in 0..MaxFaults /\ last \in Instances \cup {None}

\* An instance that reports success has the service and the route of its own
\* name in the gateway, whoever wrote them and whatever other routes exist.
DoneMeansServed ==
  (\E i \in Instances : In(i, "done")) => service # None /\ route # None

\* Instances that boot together on an empty gateway do not all lose: once
\* everyone has ended, without faults and routes of others, one has succeeded.
OneRegisters ==
  /\ \A i \in Instances : phase[i] \in {"done", "failed"}
  /\ faults = 0 /\ ~foreign
  => \E i \in Instances : In(i, "done")

\* Deployments one after the other leave the configuration of the last, if it
\* succeeds: of the service and of the route, never a mixture.
LastDeployed ==
  ~overlap /\ last # None /\ In(last, "done")
  => service = Config[last] /\ route = Config[last]
=============================================================================
