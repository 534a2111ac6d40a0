----------------------------- MODULE LinkControl -----------------------------
(***************************************************************************)
(* A network manager which keeps one link of site agents running            *)
(* (src/KeyManagement/SDN/NetworkManager.cpp, Sites/SiteAgent.cpp).  Each    *)
(* agent tells the manager which of its devices are registered; when all    *)
(* devices of the link are, the manager has the first agent start its node, *)
(* which has the next one start, and so on along the path; when a device    *)
(* goes, EndKeyExchange takes the same way.  The manager holds its lock     *)
(* from the first line of a handler to its last, that walk included.        *)
(*                                                                         *)
(* The sites of the path are 1..N; hop h joins site h to site h+1, with a    *)
(* device at each end.                                                      *)
(***************************************************************************)
EXTENDS Naturals

CONSTANTS
  N,           \* how many sites the path has
  MaxChanges,  \* bound: how often devices register or unregister
  MaxStops,    \* bound: how often agents are stopped
  MaxLost      \* bound: how many RPCs do not get through

ASSUME PathAssumption == N \in Nat /\ N >= 2
ASSUME LimitAssumption == MaxChanges \in Nat /\ MaxStops \in Nat /\ MaxLost \in Nat

Sites   == 1..N
Hops    == 1..(N - 1)
Devices == Hops \X {"first", "second"}

SiteOf(d)    == IF d[2] = "first" THEN d[1] ELSE d[1] + 1
DevicesOf(s) == {d \in Devices : SiteOf(d) = s}
First(s)     == <<s, "first">>       \* the device of site s towards the next site
Second(s)    == <<s - 1, "second">>  \* its device towards the previous one

VARIABLES
  agent,       \* [Sites -> "up", "stopping" (in ~SiteAgent) or "down"]
  listed,      \* siteDetails: the devices registered with their agents
  inUse,       \* devicesInUse of all agents
  knowsNext,   \* the sites with a channel to the next one in otherSites
  thread,      \* [Sites -> where RegisterWithNetMan is]
  registerOk,  \* [Sites -> registerResult.ok()]
  told,        \* [Sites -> siteDetailsCopy]
  registered,  \* the manager's sites
  ready,       \* link.sites: the devices flagged as ready
  active,      \* link.active
  serving,     \* the site whose call holds sitesMutex, or 0
  walk,        \* the StartNode or EndKeyExchange on its way along the path
  changes, stops, lost,  \* how much of the bounds is used
  disturbed    \* history: a device unregistered, an agent stopped or an RPC was lost

agents  == <<agent, listed, inUse, knowsNext>>
threads == <<thread, registerOk, told>>
manager == <<registered, ready, active, serving>>
bounds  == <<changes, stops, lost, disturbed>>
vars    == <<agents, threads, manager, walk, bounds>>

\* kind, the site it is at, the stage there, the result on the way back, and the
\* sites which are calling their next site for the second time.
WalkFrom(k) == [kind |-> k, at |-> 1, phase |-> "arrive", ok |-> FALSE, again |-> {}]
NoWalk      == WalkFrom("none")

Walk == [kind : {"none", "start", "end"}, at : Sites,
         phase : {"arrive", "first", "back"}, ok : BOOLEAN, again : SUBSET Sites]

To(s, p)       == walk' = [walk EXCEPT !.at = s, !.phase = p]
BackTo(s, res) == walk' = [walk EXCEPT !.at = s, !.phase = "back", !.ok = res]

-----------------------------------------------------------------------------
(* Devices come and go: RegisterDevice, UnregisterDevice.  Both wait for      *)
(* siteDetailsMutex, which the registering thread holds from its look at the  *)
(* condition until it sleeps, and both wake it.                               *)

Notified(s) == IF thread[s] = "asleep" THEN [thread EXCEPT ![s] = "look"] ELSE thread

RegisterDevice(d) ==
  LET s == SiteOf(d)
  IN  /\ changes < MaxChanges /\ changes' = changes + 1
      /\ agent[s] = "up" /\ thread[s] # "dozing"
      /\ d \notin listed
      /\ listed' = listed \union {d}
      /\ thread' = Notified(s)
      /\ UNCHANGED <<agent, inUse, knowsNext, registerOk, told, manager, walk,
                     stops, lost, disturbed>>

UnregisterDevice(d) ==
  LET s == SiteOf(d)
  IN  /\ changes < MaxChanges /\ changes' = changes + 1
      /\ agent[s] = "up" /\ thread[s] # "dozing"
      /\ d \in listed
      /\ listed' = listed \ {d}
      /\ thread' = Notified(s)
      /\ disturbed' = TRUE
      /\ UNCHANGED <<agent, inUse, knowsNext, registerOk, told, manager, walk,
                     stops, lost>>

-----------------------------------------------------------------------------
(* The thread of RegisterWithNetMan: sleep until the details differ from what *)
(* was last sent, send them, try again when that failed; unregister on        *)
(* shutdown.                                                                  *)

MyDevices(s) == listed \intersect DevicesOf(s)

\* The condition holds, or the last attempt failed.
LookAndCall(s) ==
  /\ thread[s] = "look"
  /\ ~registerOk[s] \/ MyDevices(s) # told[s] \/ agent[s] = "stopping"
  /\ told' = [told EXCEPT ![s] = MyDevices(s)]
  /\ thread' = [thread EXCEPT ![s] = IF agent[s] = "stopping" THEN "leaving" ELSE "calling"]
  /\ UNCHANGED <<agents, registerOk, manager, walk, bounds>>

\* It does not: the thread is about to wait, and then waits.
LookAndDoze(s) ==
  /\ thread[s] = "look"
  /\ registerOk[s] /\ MyDevices(s) = told[s] /\ agent[s] = "up"
  /\ thread' = [thread EXCEPT ![s] = "dozing"]
  /\ UNCHANGED <<agents, registerOk, told, manager, walk, bounds>>

FallAsleep(s) ==
  /\ thread[s] = "dozing"
  /\ thread' = [thread EXCEPT ![s] = "asleep"]
  /\ UNCHANGED <<agents, registerOk, told, manager, walk, bounds>>

\* Mutant: the thread ends when the manager could not be reached.
AfterCall_GivesUp(s, result) ==
  /\ registerOk' = [registerOk EXCEPT ![s] = result]
  /\ thread' = [thread EXCEPT ![s] = IF agent[s] = "stopping" \/ ~result THEN "done" ELSE "look"]

\* while(!shutdown), after the call has returned: a thread which was still
\* registering when the shutdown began ends here as well, without unregistering.
AfterCall(s, result) ==
  /\ registerOk' = [registerOk EXCEPT ![s] = result]
  /\ thread' = [thread EXCEPT ![s] = IF agent[s] = "stopping" THEN "done" ELSE "look"]

\* The manager cannot be reached.
CallFails(s) ==
  /\ lost < MaxLost /\ lost' = lost + 1
  /\ thread[s] \in {"calling", "leaving"} /\ serving # s
  /\ AfterCall(s, FALSE)
  /\ UNCHANGED <<agents, told, manager, walk, changes, stops, disturbed>>

ThreadStep(s) == LookAndCall(s) \/ LookAndDoze(s) \/ FallAsleep(s)

-----------------------------------------------------------------------------
(* An agent stops: ~SiteAgent returns the devices in use, joins the thread    *)
(* and shuts the server down, which waits for the handlers it is running.     *)

StopAgent(s) ==
  /\ stops < MaxStops /\ stops' = stops + 1
  /\ agent[s] = "up"
  /\ agent' = [agent EXCEPT ![s] = "stopping"]
  /\ inUse' = inUse \ DevicesOf(s)
  /\ thread' = Notified(s)
  /\ disturbed' = TRUE
  /\ UNCHANGED <<listed, knowsNext, registerOk, told, manager, walk, changes, lost>>

\* The walk has entered the handler of site s and not left it.
Handling(s) ==
  /\ walk.kind # "none"
  /\ s < walk.at \/ (s = walk.at /\ walk.phase # "arrive")

AgentDown(s) ==
  /\ agent[s] = "stopping" /\ thread[s] = "done"
  /\ ~Handling(s)
  /\ agent' = [agent EXCEPT ![s] = "down"]
  /\ listed' = listed \ DevicesOf(s)
  /\ inUse' = inUse \ DevicesOf(s)
  /\ knowsNext' = knowsNext \ {s}
  /\ UNCHANGED <<threads, manager, walk, bounds>>

StartAgent(s) ==
  /\ agent[s] = "down"
  /\ agent' = [agent EXCEPT ![s] = "up"]
  /\ thread' = [thread EXCEPT ![s] = "look"]
  /\ registerOk' = [registerOk EXCEPT ![s] = FALSE]
  /\ told' = [told EXCEPT ![s] = {}]
  /\ UNCHANGED <<listed, inUse, knowsNext, manager, walk, bounds>>

-----------------------------------------------------------------------------
(* The manager's handlers. *)

\* Mutant: devices which are listed now are ready, those which have gone stay so.
Flags_OnlySet(s) == ready \union told[s]

\* The required devices of the site which it has sent.
Flags(s) == (ready \ DevicesOf(s)) \union told[s]

\* RegisterSite, and CheckLink: start the link when it has become ready, stop it
\* when it is no longer.
RegisterSite(s) ==
  LET allDevicesReady == Flags(s) = Devices
  IN  /\ thread[s] = "calling" /\ serving = 0
      /\ registered' = registered \union {s}
      /\ ready' = Flags(s)
      /\ IF allDevicesReady # active
         THEN /\ walk' = WalkFrom(IF allDevicesReady THEN "start" ELSE "end")
              /\ serving' = s
              /\ UNCHANGED <<thread, registerOk>>
         ELSE AfterCall(s, TRUE) /\ UNCHANGED <<walk, serving>>
      /\ UNCHANGED <<agents, told, active, bounds>>

\* UnregisterSite.  The loop which should clear the flags works on copies, so
\* ready stays; the link is stopped whether it is active or not.
UnregisterSite(s) ==
  /\ thread[s] = "leaving" /\ serving = 0
  /\ IF s \in registered
     THEN /\ registered' = registered \ {s}
          /\ walk' = WalkFrom("end")
          /\ serving' = s
          /\ UNCHANGED <<thread, registerOk>>
     ELSE AfterCall(s, FALSE) /\ UNCHANGED <<registered, serving, walk>>
  /\ UNCHANGED <<agents, told, ready, active, bounds>>

\* link.active after StartLink or StopLink.
Outcome(res) == IF res THEN walk.kind = "start" ELSE active

\* The first agent has answered; the handler ends and its caller goes on.
EndWalk(res) ==
  /\ active' = Outcome(res)
  /\ walk' = NoWalk
  /\ serving' = 0
  /\ AfterCall(serving, TRUE)

\* Return from site s to the site which called it.
Return(s, res) ==
  IF s = 1
  THEN EndWalk(res) /\ UNCHANGED <<told, registered, ready>>
  ELSE /\ walk' = [walk EXCEPT !.at = s - 1, !.phase = "back", !.ok = res, !.again = @ \ {s}]
       /\ UNCHANGED <<threads, manager>>

-----------------------------------------------------------------------------
(* StartNode along the path.  At each site: the hop towards the previous site *)
(* (PrepHop; its result is lost to a second variable called result), then the *)
(* hop towards the next one (PrepHop and ForwardOnStartNode).                 *)

CanPrep(d) == d \in inUse \/ d \in listed

\* Mutant: the last site looks for a next one.
StartSecond_PastTheEnd(s) ==
  /\ walk.kind = "start" /\ walk.at = s /\ walk.phase = "arrive"
  /\ agent[s] # "down"
  /\ inUse' = IF s > 1 /\ CanPrep(Second(s)) THEN inUse \union {Second(s)} ELSE inUse
  /\ To(s, "first")
  /\ UNCHANGED <<agent, listed, knowsNext, threads, manager, bounds>>

StartSecond(s) ==
  /\ walk.kind = "start" /\ walk.at = s /\ walk.phase = "arrive"
  /\ agent[s] # "down"
  /\ inUse' = IF s > 1 /\ CanPrep(Second(s)) THEN inUse \union {Second(s)} ELSE inUse
  /\ IF s < N THEN To(s, "first") ELSE BackTo(s - 1, TRUE)
  /\ UNCHANGED <<agent, listed, knowsNext, threads, manager, bounds>>

StartFirst(s) ==
  /\ walk.kind = "start" /\ walk.at = s /\ walk.phase = "first"
  /\ \/ /\ CanPrep(First(s))
        /\ inUse' = inUse \union {First(s)}
        /\ knowsNext' = knowsNext \union {s}
        /\ To(s + 1, "arrive")
     \/ /\ ~CanPrep(First(s))
        /\ BackTo(s, FALSE)
        /\ UNCHANGED <<inUse, knowsNext>>
  /\ UNCHANGED <<agent, listed, threads, manager, bounds>>

\* Mutant: a hop which failed is left in use.
StartBack_KeepsDevice(s) ==
  /\ walk.kind = "start" /\ walk.at = s /\ walk.phase = "back"
  /\ Return(s, walk.ok \/ s < N - 1)
  /\ UNCHANGED <<agents, bounds>>

\* The hop of site s has its result: a failed one returns its device.  The loop
\* goes on with the hops which are not of this site, and their result replaces it.
StartBack(s) ==
  /\ walk.kind = "start" /\ walk.at = s /\ walk.phase = "back"
  /\ inUse' = IF walk.ok THEN inUse ELSE inUse \ {First(s)}
  /\ Return(s, walk.ok \/ s < N - 1)
  /\ UNCHANGED <<agent, listed, knowsNext, bounds>>

-----------------------------------------------------------------------------
(* EndKeyExchange along the path: StopNode for the site's devices, then the   *)
(* next site if there is a channel to it, whose result replaces the site's.   *)

LastDevice(s) == IF s < N THEN First(s) ELSE Second(s)

EndHere(s) ==
  /\ walk.kind = "end" /\ walk.at = s /\ walk.phase = "arrive"
  /\ agent[s] # "down"
  /\ inUse' = inUse \ DevicesOf(s)
  /\ IF s < N /\ s \in knowsNext
     THEN To(s + 1, "arrive") /\ UNCHANGED <<threads, manager>>
     ELSE Return(s, LastDevice(s) \in inUse)
  /\ UNCHANGED <<agent, listed, knowsNext, bounds>>

\* A site in the middle finds callNextNode still set at the hop after its own two
\* and calls the next site again.
CallsAgain(s) == s > 1 /\ s < N - 1 /\ s \notin walk.again

EndBack(s) ==
  /\ walk.kind = "end" /\ walk.at = s /\ walk.phase = "back"
  /\ \/ /\ CallsAgain(s)
        /\ walk' = [walk EXCEPT !.at = s + 1, !.phase = "arrive", !.again = @ \union {s}]
        /\ UNCHANGED <<threads, manager>>
     \/ ~CallsAgain(s) /\ Return(s, walk.ok)
  /\ UNCHANGED <<agents, bounds>>

\* Mutant: calls wait for a connection, so one to a stopped agent never returns.
Unreachable_WaitsForReady(s) ==
  /\ walk.kind # "none" /\ walk.at = s /\ walk.phase = "arrive"
  /\ lost < MaxLost /\ lost' = lost + 1
  /\ disturbed' = TRUE
  /\ Return(s, FALSE)
  /\ UNCHANGED <<agents, changes, stops>>

\* The next call of the walk does not get through.
Unreachable(s) ==
  /\ walk.kind # "none" /\ walk.at = s /\ walk.phase = "arrive"
  /\ \/ agent[s] = "down" /\ UNCHANGED lost
     \/ lost < MaxLost /\ lost' = lost + 1
  /\ disturbed' = TRUE
  /\ Return(s, FALSE)
  /\ UNCHANGED <<agents, changes, stops>>

WalkStep(s) == StartSecond(s) \/ StartFirst(s) \/ StartBack(s) \/ EndHere(s) \/ EndBack(s)

-----------------------------------------------------------------------------
Init ==
  /\ agent      = [s \in Sites |-> "up"]
  /\ listed     = {}
  /\ inUse      = {}
  /\ knowsNext  = {}
  /\ thread     = [s \in Sites |-> "look"]
  /\ registerOk = [s \in Sites |-> FALSE]
  /\ told       = [s \in Sites |-> {}]
  /\ registered = {}
  /\ ready      = {}
  /\ active     = FALSE
  /\ serving    = 0
  /\ walk       = NoWalk
  /\ changes    = 0
  /\ stops      = 0
  /\ lost       = 0
  /\ disturbed  = FALSE

Handler(s) == RegisterSite(s) \/ UnregisterSite(s)

Next ==
  \/ \E d \in Devices : RegisterDevice(d) \/ UnregisterDevice(d)
  \/ \E s \in Sites :
       \/ StopAgent(s) \/ AgentDown(s) \/ StartAgent(s)
       \/ ThreadStep(s) \/ CallFails(s)
       \/ Handler(s)
       \/ WalkStep(s) \/ Unreachable(s)

Spec == Init /\ [][Next]_vars

\* Threads run and RPCs are answered or fail; a call which waits for the
\* manager's lock gets it in the end.
Fairness ==
  \A s \in Sites :
    /\ WF_vars(ThreadStep(s))
    /\ SF_vars(Handler(s))
    /\ WF_vars(WalkStep(s))
    /\ WF_vars(Unreachable(s))
    /\ WF_vars(AgentDown(s))

LiveSpec == Spec /\ Fairness

-----------------------------------------------------------------------------
(* Properties *)

TypeOK ==
  /\ agent \in [Sites -> {"up", "stopping", "down"}]
  /\ listed \subseteq Devices
  /\ inUse \subseteq Devices
  /\ knowsNext \subseteq Sites
  /\ thread \in [Sites -> {"look", "dozing", "asleep", "calling", "leaving", "done"}]
  /\ registerOk \in [Sites -> BOOLEAN]
  /\ told \in [Sites -> SUBSET Devices]
  /\ registered \subseteq Sites
  /\ ready \subseteq Devices
  /\ active \in BOOLEAN
  /\ serving \in 0..N
  /\ walk \in Walk
  /\ walk.phase = "first" => walk.at < N
  /\ (serving = 0) = (walk.kind = "none")
  /\ disturbed \in BOOLEAN

LinkUp == active /\ inUse = Devices

\* While the manager takes the link for stopped no agent has a device of it in use:
\* nothing exchanges keys which nobody will ever end.  This relates the manager's
\* flag, set from one result, to what all agents on the path did, when any of
\* them may have been stopped, restarted or out of reach.
NothingRunsUnmanaged ==
  (walk.kind = "none" /\ ~active) => inUse = {}

\* The manager decides on what the agents told it: outside of a registration,
\* and until a site unregisters, the flags of a site are what it sent last.
FlagsAreAsTold ==
  \A s \in registered :
    (registerOk[s] /\ thread[s] \in {"look", "dozing", "asleep"}) =>
      ready \intersect DevicesOf(s) = told[s]

\* A registration or a shutdown is never stuck behind the manager's lock, which
\* is held while agents, the caller's own among them, are called.
EveryCallReturns ==
  \A s \in Sites : (thread[s] \in {"calling", "leaving"}) ~> (thread[s] \notin {"calling", "leaving"})

\* When all devices of the link are registered it comes up, in whatever order
\* agents and devices registered and however often a registration failed.
LinkComesUp ==
  (listed = Devices /\ ~disturbed) ~> (LinkUp \/ disturbed)
==============================================================================
