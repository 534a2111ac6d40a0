-------------------------- MODULE LinkControlProofs --------------------------
(***************************************************************************)
(* Theorems about one link, for a path of any length, any number of changes,*)
(* stops and lost calls.                                                    *)
(***************************************************************************)
EXTENDS LinkControl, TLAPS

\* Every step is one of these; the lemma names them once for the step proofs.
LEMMA Actions ==
  ASSUME Next
  PROVE  \/ \E d \in Devices : RegisterDevice(d)
         \/ \E d \in Devices : UnregisterDevice(d)
         \/ \E s \in Sites : LookAndCall(s)
         \/ \E s \in Sites : LookAndDoze(s)
         \/ \E s \in Sites : FallAsleep(s)
         \/ \E s \in Sites : CallFails(s)
         \/ \E s \in Sites : StopAgent(s)
         \/ \E s \in Sites : AgentDown(s)
         \/ \E s \in Sites : StartAgent(s)
         \/ \E s \in Sites : RegisterSite(s)
         \/ \E s \in Sites : UnregisterSite(s)
         \/ \E s \in Sites : StartSecond(s)
         \/ \E s \in Sites : StartFirst(s)
         \/ \E s \in Sites : StartBack(s)
         \/ \E s \in Sites : EndHere(s)
         \/ \E s \in Sites : EndBack(s)
         \/ \E s \in Sites : Unreachable(s)
  BY DEF Next, ThreadStep, Handler, WalkStep

\* Where the devices are: every site has one towards each neighbour.
LEMMA SiteFacts ==
  /\ \A d \in Devices : SiteOf(d) \in Sites
  /\ \A s \in Sites : s < N => First(s) \in Devices /\ SiteOf(First(s)) = s
  /\ \A s \in Sites : s > 1 => Second(s) \in Devices /\ SiteOf(Second(s)) = s
  /\ \A d \in Devices : SiteOf(d) = 1 => d = First(1)
  /\ 1 \in Sites /\ N \in Sites /\ N >= 2
  BY PathAssumption DEF Devices, Hops, Sites, SiteOf, First, Second

LEMMA OwnDevices ==
  /\ \A s \in Sites : DevicesOf(s) \subseteq Devices
  /\ \A s \in Sites, d \in Devices : d \in DevicesOf(s) <=> SiteOf(d) = s
  /\ \A s, t \in Sites : s # t => DevicesOf(s) \intersect DevicesOf(t) = {}
  BY DEF DevicesOf

-----------------------------------------------------------------------------
(* Types *)

ThreadStates == {"look", "dozing", "asleep", "calling", "leaving", "done"}

\* The types of the variables by themselves, for the steps which change them.
Types ==
  /\ agent \in [Sites -> {"up", "stopping", "down"}]
  /\ inUse \subseteq Devices
  /\ knowsNext \subseteq Sites
  /\ thread \in [Sites -> ThreadStates]
  /\ registerOk \in [Sites -> BOOLEAN]
  /\ active \in BOOLEAN
  /\ serving \in 0..N
  /\ walk \in Walk
  /\ walk.phase = "first" => walk.at < N
  /\ (serving = 0) = (walk.kind = "none")

\* The parts of a walk.
LEMMA WalkParts ==
  ASSUME walk \in Walk
  PROVE  /\ walk.kind \in {"none", "start", "end"} /\ walk.at \in Sites
         /\ walk.phase \in {"arrive", "first", "back"} /\ walk.ok \in BOOLEAN
         /\ walk.again \subseteq Sites
  BY DEF Walk

LEMMA FreshWalk ==
  /\ \A k \in {"none", "start", "end"} :
       /\ WalkFrom(k) \in Walk
       /\ WalkFrom(k).kind = k /\ WalkFrom(k).at = 1 /\ WalkFrom(k).phase = "arrive"
       /\ ~WalkFrom(k).ok
  /\ NoWalk = WalkFrom("none")
  BY SiteFacts DEF WalkFrom, NoWalk, Walk

\* Moving a walk changes its place and stage, and keeps its kind.
LEMMA ToParts ==
  ASSUME walk \in Walk, NEW s \in Sites, NEW p \in {"arrive", "first", "back"}, To(s, p)
  PROVE  /\ walk' \in Walk /\ walk'.kind = walk.kind
         /\ walk'.at = s /\ walk'.phase = p /\ walk'.ok = walk.ok
  BY DEF To, Walk

LEMMA BackToParts ==
  ASSUME walk \in Walk, NEW s \in Sites, NEW r \in BOOLEAN, BackTo(s, r)
  PROVE  /\ walk' \in Walk /\ walk'.kind = walk.kind
         /\ walk'.at = s /\ walk'.phase = "back" /\ walk'.ok = r
  BY DEF BackTo, Walk

\* What a handler's end does to the manager and to the thread which called it.
LEMMA EndWalkParts ==
  ASSUME Types, NEW r \in BOOLEAN, EndWalk(r), walk.kind # "none"
  PROVE  /\ serving \in Sites /\ serving' = 0
         /\ walk' = NoWalk /\ walk' \in Walk
         /\ walk'.kind = "none" /\ walk'.phase = "arrive"
         /\ active' = (IF r THEN walk.kind = "start" ELSE active) /\ active' \in BOOLEAN
         /\ thread' \in [Sites -> ThreadStates]
         /\ registerOk' \in [Sites -> BOOLEAN]
<1>1. serving \in Sites
  BY SiteFacts DEF Types, Sites
<1>2. thread' \in [Sites -> ThreadStates] /\ registerOk' \in [Sites -> BOOLEAN]
  BY <1>1 DEF EndWalk, AfterCall, Types, ThreadStates
<1>3. active' = (IF r THEN walk.kind = "start" ELSE active) /\ active' \in BOOLEAN
  BY DEF EndWalk, Outcome, Types
<1>4. QED
  BY <1>1, <1>2, <1>3, FreshWalk DEF EndWalk

\* Returning from a site either ends the handler or goes back one site.
LEMMA ReturnParts ==
  ASSUME Types, NEW s \in Sites, NEW r \in BOOLEAN, Return(s, r), walk.kind # "none"
  PROVE  /\ told' = told /\ registered' = registered /\ ready' = ready
         /\ \/ s = 1 /\ EndWalk(r)
            \/ /\ s # 1 /\ s - 1 \in Sites
               /\ walk' \in Walk /\ walk'.kind = walk.kind
               /\ walk'.at = s - 1 /\ walk'.phase = "back" /\ walk'.ok = r
               /\ UNCHANGED <<active, serving, thread, registerOk>>
<1>1. CASE s = 1
  BY <1>1 DEF Return
<1>2. CASE s # 1
  <2>1. s - 1 \in Sites
    BY <1>2, PathAssumption DEF Sites
  <2>2. walk' \in Walk /\ walk'.kind = walk.kind
        /\ walk'.at = s - 1 /\ walk'.phase = "back" /\ walk'.ok = r
    <3>1. walk' = [walk EXCEPT !.at = s - 1, !.phase = "back", !.ok = r,
                               !.again = walk.again \ {s}]
      BY <1>2 DEF Return
    <3>2. /\ walk = [kind |-> walk.kind, at |-> walk.at, phase |-> walk.phase,
                     ok |-> walk.ok, again |-> walk.again]
          /\ walk.kind \in {"none", "start", "end"} /\ walk.again \subseteq Sites
      BY DEF Types, Walk
    <3>3. walk' = [kind |-> walk.kind, at |-> s - 1, phase |-> "back",
                   ok |-> r, again |-> walk.again \ {s}]
      BY <3>1, <3>2
    <3>4. walk.again \ {s} \in SUBSET Sites
      BY <3>2
    <3>5. QED
      BY <2>1, <3>2, <3>3, <3>4 DEF Walk
  <2>3. QED
    BY <1>2, <2>1, <2>2 DEF Return, threads, manager
<1>3. QED
  BY <1>1, <1>2

\* The second call of a site in the middle.
LEMMA AgainParts ==
  ASSUME walk \in Walk, NEW s \in Sites, CallsAgain(s),
         walk' = [walk EXCEPT !.at = s + 1, !.phase = "arrive", !.again = @ \union {s}]
  PROVE  /\ s + 1 \in Sites
         /\ walk' \in Walk /\ walk'.kind = walk.kind
         /\ walk'.at = s + 1 /\ walk'.phase = "arrive"
<1>1. s + 1 \in Sites
  BY PathAssumption DEF CallsAgain, Sites
<1>2. /\ walk = [kind |-> walk.kind, at |-> walk.at, phase |-> walk.phase,
                 ok |-> walk.ok, again |-> walk.again]
      /\ walk.kind \in {"none", "start", "end"} /\ walk.ok \in BOOLEAN
      /\ walk.again \subseteq Sites
  BY DEF Walk
<1>3. walk' = [kind |-> walk.kind, at |-> s + 1, phase |-> "arrive",
               ok |-> walk.ok, again |-> walk.again \union {s}]
  BY <1>2
<1>4. walk.again \union {s} \in SUBSET Sites
  BY <1>2
<1>5. QED
  BY <1>1, <1>2, <1>3, <1>4 DEF Walk

\* TypeOK is Types and the rest.
LEMMA TypeParts ==
  TypeOK <=> /\ Types
             /\ listed \subseteq Devices
             /\ told \in [Sites -> SUBSET Devices]
             /\ registered \subseteq Sites
             /\ ready \subseteq Devices
             /\ disturbed \in BOOLEAN
  BY DEF TypeOK, Types, ThreadStates

LEMMA NotifiedType ==
  ASSUME Types, NEW s \in Sites
  PROVE  Notified(s) \in [Sites -> ThreadStates]
  BY DEF Notified, Types, ThreadStates

LEMMA AfterCallType ==
  ASSUME Types, NEW s \in Sites, NEW r \in BOOLEAN, AfterCall(s, r)
  PROVE  thread' \in [Sites -> ThreadStates] /\ registerOk' \in [Sites -> BOOLEAN]
  BY DEF AfterCall, Types, ThreadStates

\* The walk after a return, for the type invariant.
LEMMA ReturnType ==
  ASSUME Types, NEW s \in Sites, NEW r \in BOOLEAN, Return(s, r), walk.kind # "none"
  PROVE  /\ thread' \in [Sites -> ThreadStates] /\ registerOk' \in [Sites -> BOOLEAN]
         /\ active' \in BOOLEAN /\ serving' \in 0..N /\ walk' \in Walk
         /\ walk'.phase # "first"
         /\ (serving' = 0) = (walk'.kind = "none")
         /\ told' = told /\ registered' = registered /\ ready' = ready
<1>1. CASE EndWalk(r)
  BY <1>1, EndWalkParts, ReturnParts, PathAssumption
<1>2. CASE walk'.kind = walk.kind /\ walk'.phase = "back" /\ walk' \in Walk
           /\ UNCHANGED <<active, serving, thread, registerOk>>
  BY <1>2, ReturnParts DEF Types
<1>3. QED
  BY <1>1, <1>2, ReturnParts

\* Every step keeps the types.
LEMMA TypeStep ==
  ASSUME TypeOK, Next
  PROVE  TypeOK'
<1> USE TypeParts
<1> DEFINE Rest == /\ listed \subseteq Devices
                   /\ told \in [Sites -> SUBSET Devices]
                   /\ registered \subseteq Sites
                   /\ ready \subseteq Devices
                   /\ disturbed \in BOOLEAN
<1>0. SUFFICES Types' /\ Rest'
  BY DEF TypeOK, Types, ThreadStates
<1>1. ASSUME NEW d \in Devices, RegisterDevice(d) PROVE Types' /\ Rest'
  BY <1>1, SiteFacts, NotifiedType DEF RegisterDevice, manager, Types
<1>2. ASSUME NEW d \in Devices, UnregisterDevice(d) PROVE Types' /\ Rest'
  BY <1>2, SiteFacts, NotifiedType DEF UnregisterDevice, manager, Types
<1>3. ASSUME NEW s \in Sites, LookAndCall(s) PROVE Types' /\ Rest'
  BY <1>3 DEF LookAndCall, MyDevices, agents, manager, bounds, Types, ThreadStates
<1>4. ASSUME NEW s \in Sites, LookAndDoze(s) PROVE Types' /\ Rest'
  BY <1>4 DEF LookAndDoze, agents, manager, bounds, Types, ThreadStates
<1>5. ASSUME NEW s \in Sites, FallAsleep(s) PROVE Types' /\ Rest'
  BY <1>5 DEF FallAsleep, agents, manager, bounds, Types, ThreadStates
<1>6. ASSUME NEW s \in Sites, CallFails(s) PROVE Types' /\ Rest'
  BY <1>6, AfterCallType DEF CallFails, agents, manager, Types
<1>7. ASSUME NEW s \in Sites, StopAgent(s) PROVE Types' /\ Rest'
  BY <1>7, NotifiedType DEF StopAgent, manager, Types
<1>8. ASSUME NEW s \in Sites, AgentDown(s) PROVE Types' /\ Rest'
  BY <1>8 DEF AgentDown, threads, manager, bounds, Types
<1>9. ASSUME NEW s \in Sites, StartAgent(s) PROVE Types' /\ Rest'
  BY <1>9 DEF StartAgent, manager, bounds, Types, ThreadStates
<1>10. ASSUME NEW s \in Sites, RegisterSite(s) PROVE Types' /\ Rest'
  <2>1. Rest'
    BY <1>10 DEF RegisterSite, Flags, agents, bounds
  <2>2. UNCHANGED <<agent, inUse, knowsNext, active>>
    BY <1>10 DEF RegisterSite, agents
  <2>3. CASE /\ \E k \in {"start", "end"} : walk' = WalkFrom(k)
             /\ serving' = s /\ UNCHANGED <<thread, registerOk>>
    BY <2>1, <2>2, <2>3, FreshWalk, PathAssumption DEF Types, Sites
  <2>4. CASE AfterCall(s, TRUE) /\ UNCHANGED <<walk, serving>>
    BY <2>1, <2>2, <2>4, AfterCallType DEF Types
  <2>5. QED
    BY <1>10, <2>1, <2>3, <2>4 DEF RegisterSite
<1>11. ASSUME NEW s \in Sites, UnregisterSite(s) PROVE Types' /\ Rest'
  <2>1. Rest'
    BY <1>11 DEF UnregisterSite, agents, bounds
  <2>2. UNCHANGED <<agent, inUse, knowsNext, active>>
    BY <1>11 DEF UnregisterSite, agents
  <2>3. CASE walk' = WalkFrom("end") /\ serving' = s /\ UNCHANGED <<thread, registerOk>>
    BY <2>1, <2>2, <2>3, FreshWalk, PathAssumption DEF Types, Sites
  <2>4. CASE AfterCall(s, FALSE) /\ UNCHANGED <<walk, serving>>
    BY <2>1, <2>2, <2>4, AfterCallType DEF Types
  <2>5. QED
    BY <1>11, <2>1, <2>3, <2>4 DEF UnregisterSite
<1>12. ASSUME NEW s \in Sites, StartSecond(s) PROVE Types' /\ Rest'
  <2>1. inUse' \subseteq Devices
    BY <1>12, SiteFacts DEF StartSecond, Types
  <2>2. UNCHANGED <<agent, listed, knowsNext, threads, manager, bounds>>
    BY <1>12 DEF StartSecond
  <2>3. CASE s < N /\ To(s, "first")
    BY <2>1, <2>2, <2>3, ToParts DEF threads, manager, bounds, Types
  <2>4. CASE ~(s < N) /\ BackTo(s - 1, TRUE)
    <3>1. s - 1 \in Sites
      BY <2>4, PathAssumption DEF Sites
    <3>2. QED
      BY <2>1, <2>2, <2>4, <3>1, BackToParts DEF threads, manager, bounds, Types
  <2>5. QED
    BY <1>12, <2>3, <2>4 DEF StartSecond
<1>13. ASSUME NEW s \in Sites, StartFirst(s) PROVE Types' /\ Rest'
  <2>1. inUse' \subseteq Devices /\ knowsNext' \subseteq Sites /\ s < N /\ s + 1 \in Sites
    <3>1. s < N
      BY <1>13 DEF StartFirst, Types
    <3>2. s + 1 \in Sites
      BY <3>1, PathAssumption DEF Sites
    <3>3. inUse' \subseteq Devices /\ knowsNext' \subseteq Sites
      BY <1>13, <3>1, SiteFacts DEF StartFirst, Types
    <3>4. QED
      BY <3>1, <3>2, <3>3
  <2>2. UNCHANGED <<agent, listed, threads, manager, bounds>>
    BY <1>13 DEF StartFirst
  <2>3. CASE To(s + 1, "arrive")
    BY <2>1, <2>2, <2>3, ToParts DEF threads, manager, bounds, Types
  <2>4. CASE BackTo(s, FALSE)
    BY <2>1, <2>2, <2>4, BackToParts DEF threads, manager, bounds, Types
  <2>5. QED
    BY <1>13, <2>3, <2>4 DEF StartFirst
<1>14. ASSUME NEW s \in Sites, StartBack(s) PROVE Types' /\ Rest'
  <2>1. (walk.ok \/ s < N - 1) \in BOOLEAN
    OBVIOUS
  <2>2. QED
    BY <1>14, <2>1, ReturnType DEF StartBack, bounds, Types
<1>15. ASSUME NEW s \in Sites, EndHere(s) PROVE Types' /\ Rest'
  <2>1. CASE s < N /\ To(s + 1, "arrive") /\ UNCHANGED <<threads, manager>>
    <3>1. s + 1 \in Sites
      BY <2>1, PathAssumption DEF Sites
    <3>2. QED
      BY <1>15, <2>1, <3>1, ToParts DEF EndHere, threads, manager, bounds, Types
  <2>2. CASE Return(s, LastDevice(s) \in inUse)
    <3>1. (LastDevice(s) \in inUse) \in BOOLEAN
      OBVIOUS
    <3>2. QED
      BY <1>15, <2>2, <3>1, ReturnType DEF EndHere, bounds, Types
  <2>3. QED
    BY <1>15, <2>1, <2>2 DEF EndHere
<1>16. ASSUME NEW s \in Sites, EndBack(s) PROVE Types' /\ Rest'
  <2>1. CASE /\ CallsAgain(s)
             /\ walk' = [walk EXCEPT !.at = s + 1, !.phase = "arrive", !.again = @ \union {s}]
             /\ UNCHANGED <<threads, manager>>
    BY <1>16, <2>1, AgainParts DEF EndBack, threads, manager, agents, bounds, Types
  <2>2. CASE Return(s, walk.ok)
    BY <1>16, <2>2, ReturnType, WalkParts DEF EndBack, agents, bounds, Types
  <2>3. QED
    BY <1>16, <2>1, <2>2 DEF EndBack
<1>17. ASSUME NEW s \in Sites, Unreachable(s) PROVE Types' /\ Rest'
  BY <1>17, ReturnType DEF Unreachable, agents, Types
<1>18. QED
  BY <1>1, <1>2, <1>3, <1>4, <1>5, <1>6, <1>7, <1>8, <1>9, <1>10, <1>11, <1>12,
     <1>13, <1>14, <1>15, <1>16, <1>17, Actions

\* Whatever registers, stops or fails, the state keeps its types (TypeOK): a walk
\* stays on the path, and the manager's lock is held exactly while one is on its way.
THEOREM LinkTypeCorrect == Spec => []TypeOK
<1>1. Init => TypeOK
  <2>1. SUFFICES ASSUME Init PROVE TypeOK
    OBVIOUS
  <2>2. walk = NoWalk /\ walk \in Walk /\ walk.kind = "none" /\ walk.phase = "arrive"
    BY <2>1, FreshWalk DEF Init
  <2>3. QED
    <3>1. serving = 0 /\ 0 \in 0..N
      BY <2>1, PathAssumption DEF Init
    <3>2. (serving = 0) = (walk.kind = "none")
      BY <2>2, <3>1
    <3>3. /\ agent \in [Sites -> {"up", "stopping", "down"}]
          /\ thread \in [Sites -> {"look", "dozing", "asleep", "calling", "leaving", "done"}]
          /\ registerOk \in [Sites -> BOOLEAN]
          /\ told \in [Sites -> SUBSET Devices]
      BY <2>1 DEF Init
    <3>4. QED
      BY <2>1, <2>2, <3>1, <3>2, <3>3 DEF Init, TypeOK
<1>2. TypeOK /\ [Next]_vars => TypeOK'
  <2>1. CASE Next
    BY <2>1, TypeStep
  <2>2. CASE UNCHANGED vars
    BY <2>2 DEF vars, agents, threads, manager, bounds, TypeOK
  <2>3. QED
    BY <2>1, <2>2
<1>3. QED
  BY <1>1, <1>2, PTL DEF Spec

-----------------------------------------------------------------------------
(* A link taken for stopped runs nowhere.  NothingRunsUnmanaged speaks of the  *)
(* moments between walks; what carries it over a walk is where on the path a   *)
(* device can be in use while the walk is at a given site.                     *)

\* A site which uses its device towards the next site has a channel to that site,
\* so EndKeyExchange goes on there.
ChannelsKept == \A s \in Sites : First(s) \in inUse => s \in knowsNext

\* Before a walk to start the link, nothing is in use; it leaves devices behind it.
\* Only on a path of two sites can a failure reach the manager after that.
StartInv ==
  walk.kind = "start" =>
    /\ ~active
    /\ walk.phase = "arrive" => \A d \in inUse : SiteOf(d) < walk.at
    /\ walk.phase = "first" => \A d \in inUse : SiteOf(d) <= walk.at
    /\ (walk.phase = "back" /\ ~walk.ok /\ N = 2) => \A d \in inUse : SiteOf(d) <= 1

\* A walk to end the link leaves nothing in use behind it, and is successful only
\* when it has been everywhere.
EndInv ==
  walk.kind = "end" =>
    /\ walk.phase # "first"
    /\ ~active => inUse = {}
    /\ walk.phase = "arrive" => \A d \in inUse : SiteOf(d) >= walk.at
    /\ walk.phase = "back" => \A d \in inUse : SiteOf(d) > walk.at
    /\ (walk.phase = "back" /\ walk.ok) => inUse = {}

WalkInv == ChannelsKept /\ StartInv /\ EndInv /\ NothingRunsUnmanaged

\* The devices towards the neighbours are different devices.
LEMMA FirstFacts ==
  /\ \A s, t \in Sites : First(s) # Second(t)
  /\ \A s, t \in Sites : First(s) = First(t) => s = t
  BY DEF First, Second, Sites

\* A device which is a site's device towards the next site belongs to it.
LEMMA FirstOwner == \A s \in Sites : First(s) \in Devices => SiteOf(First(s)) = s
  BY DEF First, SiteOf

\* Steps which neither move the walk nor start a device.
LEMMA WalkInvKept ==
  ASSUME WalkInv, UNCHANGED <<walk, active>>, inUse' \subseteq inUse,
         \A s \in Sites : First(s) \in inUse' => s \in knowsNext'
  PROVE  WalkInv'
<1>1. ChannelsKept'
  BY DEF ChannelsKept
<1>2. StartInv'
  BY DEF WalkInv, StartInv
<1>3. EndInv'
  BY DEF WalkInv, EndInv
<1>4. NothingRunsUnmanaged'
  BY DEF WalkInv, NothingRunsUnmanaged
<1>5. QED
  BY <1>1, <1>2, <1>3, <1>4 DEF WalkInv

\* A walk which ends: with success at its goal, or with nothing in use if the link
\* is not active.
LEMMA WalkInvEnds ==
  ASSUME Types, WalkInv, NEW r \in BOOLEAN, EndWalk(r), walk.kind # "none",
         ChannelsKept',
         ((IF r THEN walk.kind = "start" ELSE active) = FALSE) => inUse' = {}
  PROVE  WalkInv'
<1>1. walk'.kind = "none" /\ active' = (IF r THEN walk.kind = "start" ELSE active)
  BY EndWalkParts
<1>2. QED
  BY <1>1 DEF WalkInv, StartInv, EndInv, NothingRunsUnmanaged

\* Every step keeps WalkInv.
LEMMA WalkStepInv ==
  ASSUME TypeOK, WalkInv, Next
  PROVE  WalkInv'
<1>0. Types
  BY TypeParts
<1>1. ASSUME NEW d \in Devices, RegisterDevice(d) PROVE WalkInv'
  BY <1>1, WalkInvKept DEF RegisterDevice, manager, WalkInv, ChannelsKept
<1>2. ASSUME NEW d \in Devices, UnregisterDevice(d) PROVE WalkInv'
  BY <1>2, WalkInvKept DEF UnregisterDevice, manager, WalkInv, ChannelsKept
<1>3. ASSUME NEW s \in Sites, LookAndCall(s) PROVE WalkInv'
  BY <1>3, WalkInvKept DEF LookAndCall, agents, manager, WalkInv, ChannelsKept
<1>4. ASSUME NEW s \in Sites, LookAndDoze(s) PROVE WalkInv'
  BY <1>4, WalkInvKept DEF LookAndDoze, agents, manager, WalkInv, ChannelsKept
<1>5. ASSUME NEW s \in Sites, FallAsleep(s) PROVE WalkInv'
  BY <1>5, WalkInvKept DEF FallAsleep, agents, manager, WalkInv, ChannelsKept
<1>6. ASSUME NEW s \in Sites, CallFails(s) PROVE WalkInv'
  BY <1>6, WalkInvKept DEF CallFails, agents, manager, WalkInv, ChannelsKept
<1>7. ASSUME NEW s \in Sites, StopAgent(s) PROVE WalkInv'
  BY <1>7, WalkInvKept DEF StopAgent, manager, WalkInv, ChannelsKept
<1>8. ASSUME NEW s \in Sites, AgentDown(s) PROVE WalkInv'
  <2>1. inUse' = inUse \ DevicesOf(s) /\ knowsNext' = knowsNext \ {s}
        /\ UNCHANGED <<walk, active>>
    BY <1>8 DEF AgentDown, manager
  <2>2. ASSUME NEW t \in Sites, First(t) \in inUse' PROVE t \in knowsNext'
    <3>1. t \in knowsNext /\ First(t) \in Devices
      BY <1>0, <2>1, <2>2 DEF WalkInv, ChannelsKept, Types
    <3>2. t # s
      BY <2>1, <2>2, <3>1, FirstOwner, OwnDevices
    <3>3. QED
      BY <2>1, <3>1, <3>2
  <2>3. QED
    BY <2>1, <2>2, WalkInvKept
<1>9. ASSUME NEW s \in Sites, StartAgent(s) PROVE WalkInv'
  BY <1>9, WalkInvKept DEF StartAgent, manager, WalkInv, ChannelsKept
<1>10. ASSUME NEW s \in Sites, RegisterSite(s) PROVE WalkInv'
  <2>1. UNCHANGED <<inUse, knowsNext, active>> /\ walk.kind = "none"
    BY <1>0, <1>10 DEF RegisterSite, agents, Types
  <2>2. CASE UNCHANGED walk
    BY <2>1, <2>2, WalkInvKept DEF WalkInv, ChannelsKept
  <2>3. CASE walk' = WalkFrom("start") /\ ~active
    BY <2>1, <2>3, FreshWalk
       DEF WalkInv, ChannelsKept, StartInv, EndInv, NothingRunsUnmanaged
  <2>4. CASE walk' = WalkFrom("end") /\ active
    <3>1. \A d \in inUse : SiteOf(d) >= 1
      BY <1>0, SiteFacts DEF Types, Sites
    <3>2. QED
      BY <2>1, <2>4, <3>1, FreshWalk
         DEF WalkInv, ChannelsKept, StartInv, EndInv, NothingRunsUnmanaged
  <2>5. active \in BOOLEAN
    BY <1>0 DEF Types
  <2>6. QED
    BY <1>10, <2>2, <2>3, <2>4, <2>5 DEF RegisterSite
<1>11. ASSUME NEW s \in Sites, UnregisterSite(s) PROVE WalkInv'
  <2>1. UNCHANGED <<inUse, knowsNext, active>> /\ walk.kind = "none"
    BY <1>0, <1>11 DEF UnregisterSite, agents, Types
  <2>2. CASE UNCHANGED walk
    BY <2>1, <2>2, WalkInvKept DEF WalkInv, ChannelsKept
  <2>3. CASE walk' = WalkFrom("end")
    <3>1. \A d \in inUse : SiteOf(d) >= 1
      BY <1>0, SiteFacts DEF Types, Sites
    <3>2. QED
      BY <2>1, <2>3, <3>1, FreshWalk
         DEF WalkInv, ChannelsKept, StartInv, EndInv, NothingRunsUnmanaged
  <2>4. QED
    BY <1>11, <2>2, <2>3 DEF UnregisterSite
<1>12. ASSUME NEW s \in Sites, StartSecond(s) PROVE WalkInv'
  <2>1. inUse' \subseteq inUse \union {Second(s)} /\ (s > 1 \/ inUse' = inUse)
    BY <1>12 DEF StartSecond
  <2>2. walk.kind = "start" /\ walk.at = s /\ walk.phase = "arrive"
        /\ UNCHANGED <<knowsNext, active>>
    BY <1>12 DEF StartSecond, manager
  <2>3. ChannelsKept'
    BY <2>1, <2>2, FirstFacts DEF WalkInv, ChannelsKept
  <2>4. CASE To(s, "first")
    <3>1. walk'.kind = "start" /\ walk'.at = s /\ walk'.phase = "first"
      BY <1>0, <2>2, <2>4, ToParts DEF Types
    <3>2. \A d \in inUse' : SiteOf(d) <= s
      BY <1>0, <2>1, <2>2, SiteFacts DEF WalkInv, StartInv, Types, Sites
    <3>3. QED
      BY <2>2, <2>3, <3>1, <3>2 DEF WalkInv, StartInv, EndInv, NothingRunsUnmanaged
  <2>5. CASE ~(s < N) /\ BackTo(s - 1, TRUE)
    <3>1. s - 1 \in Sites
      BY <2>5, PathAssumption DEF Sites
    <3>2. walk'.kind = "start" /\ walk'.phase = "back" /\ walk'.ok
      BY <1>0, <2>2, <2>5, <3>1, BackToParts DEF Types
    <3>3. QED
      BY <2>2, <2>3, <3>2 DEF WalkInv, StartInv, EndInv, NothingRunsUnmanaged
  <2>6. QED
    BY <1>12, <2>4, <2>5 DEF StartSecond
<1>13. ASSUME NEW s \in Sites, StartFirst(s) PROVE WalkInv'
  <2>1. walk.kind = "start" /\ walk.at = s /\ walk.phase = "first" /\ UNCHANGED active
    BY <1>13 DEF StartFirst, manager
  <2>2. s < N
    BY <1>0, <2>1 DEF Types
  <2>3. \A d \in inUse : SiteOf(d) <= s
    BY <2>1 DEF WalkInv, StartInv
  <2>4. CASE inUse' = inUse \union {First(s)} /\ knowsNext' = knowsNext \union {s}
             /\ To(s + 1, "arrive")
    <3>1. s + 1 \in Sites
      BY <2>2, PathAssumption DEF Sites
    <3>2. walk'.kind = "start" /\ walk'.at = s + 1 /\ walk'.phase = "arrive"
      BY <1>0, <2>1, <2>4, <3>1, ToParts DEF Types
    <3>3. ChannelsKept'
      BY <2>4, FirstFacts DEF WalkInv, ChannelsKept
    <3>4. \A d \in inUse' : SiteOf(d) <= s
      BY <2>2, <2>3, <2>4, SiteFacts DEF Sites
    <3>5. \A d \in inUse' : SiteOf(d) \in Sites
      BY <1>0, <2>2, <2>4, SiteFacts DEF Types
    <3>6. \A d \in inUse' : SiteOf(d) < s + 1
      BY <3>4, <3>5 DEF Sites
    <3>7. QED
      BY <2>1, <3>2, <3>3, <3>6 DEF WalkInv, StartInv, EndInv, NothingRunsUnmanaged
  <2>5. CASE UNCHANGED <<inUse, knowsNext>> /\ BackTo(s, FALSE)
    <3>1. walk'.kind = "start" /\ walk'.phase = "back"
      BY <1>0, <2>1, <2>5, BackToParts DEF Types
    <3>2. N = 2 => \A d \in inUse : SiteOf(d) <= 1
      BY <2>2, <2>3 DEF Sites
    <3>3. QED
      BY <2>1, <2>5, <3>1, <3>2
         DEF WalkInv, ChannelsKept, StartInv, EndInv, NothingRunsUnmanaged
  <2>6. QED
    BY <1>13, <2>4, <2>5 DEF StartFirst
<1>14. ASSUME NEW s \in Sites, StartBack(s) PROVE WalkInv'
  <2> DEFINE r == walk.ok \/ s < N - 1
  <2>1. walk.kind = "start" /\ walk.at = s /\ walk.phase = "back" /\ Return(s, r)
        /\ UNCHANGED knowsNext /\ r \in BOOLEAN
    BY <1>14 DEF StartBack
  <2>2. inUse' \subseteq inUse /\ (~walk.ok => inUse' = inUse \ {First(s)})
    BY <1>14 DEF StartBack
  <2>3. ChannelsKept'
    BY <2>1, <2>2 DEF WalkInv, ChannelsKept
  <2>4. CASE s = 1 /\ EndWalk(r)
    <3>1. ~r => inUse' = {}
      <4>1. SUFFICES ASSUME ~r PROVE inUse' = {}
        OBVIOUS
      <4>2. N = 2 /\ ~walk.ok
        BY <2>4, <4>1, PathAssumption
      <4>3. \A d \in inUse : SiteOf(d) <= 1
        BY <2>1, <4>2 DEF WalkInv, StartInv
      <4>4. \A d \in inUse : d = First(1)
        BY <1>0, <4>3, SiteFacts DEF Types, Sites
      <4>5. QED
        BY <2>2, <2>4, <4>2, <4>4
    <3>2. QED
      BY <1>0, <2>1, <2>3, <2>4, <3>1, WalkInvEnds
  <2>5. CASE /\ walk'.kind = walk.kind /\ walk'.phase = "back" /\ walk'.ok = r
             /\ UNCHANGED active
    BY <2>1, <2>2, <2>3, <2>5 DEF WalkInv, StartInv, EndInv, NothingRunsUnmanaged
  <2>6. QED
    BY <1>0, <2>1, <2>4, <2>5, ReturnParts
<1>15. ASSUME NEW s \in Sites, EndHere(s) PROVE WalkInv'
  <2>1. walk.kind = "end" /\ walk.at = s /\ walk.phase = "arrive"
        /\ UNCHANGED knowsNext /\ inUse' = inUse \ DevicesOf(s)
    BY <1>15 DEF EndHere
  <2>2. ChannelsKept'
    BY <2>1 DEF WalkInv, ChannelsKept
  <2>3. \A d \in inUse' : SiteOf(d) > s /\ SiteOf(d) \in Sites
    BY <1>0, <2>1, SiteFacts, OwnDevices DEF WalkInv, EndInv, Types, Sites
  <2>4. ~active => inUse' = {}
    BY <2>1 DEF WalkInv, EndInv
  <2>5. CASE s < N /\ To(s + 1, "arrive") /\ UNCHANGED manager
    <3>1. s + 1 \in Sites
      BY <2>5, PathAssumption DEF Sites
    <3>2. walk'.kind = "end" /\ walk'.at = s + 1 /\ walk'.phase = "arrive"
      BY <1>0, <2>1, <2>5, <3>1, ToParts DEF Types
    <3>3. \A d \in inUse' : SiteOf(d) >= s + 1
      BY <2>3 DEF Sites
    <3>4. QED
      BY <2>2, <2>4, <2>5, <3>2, <3>3
         DEF manager, WalkInv, StartInv, EndInv, NothingRunsUnmanaged
  <2>6. CASE ~(s < N /\ s \in knowsNext) /\ Return(s, LastDevice(s) \in inUse)
    <3> DEFINE r == LastDevice(s) \in inUse
    <3>1. r \in BOOLEAN
      OBVIOUS
    <3>2. r => inUse' = {}
      <4>1. CASE s < N
        BY <2>6, <4>1 DEF LastDevice, WalkInv, ChannelsKept
      <4>2. CASE ~(s < N)
        BY <2>3, <4>2, PathAssumption DEF Sites
      <4>3. QED
        BY <4>1, <4>2
    <3>3. CASE EndWalk(r)
      BY <1>0, <2>1, <2>2, <2>4, <3>1, <3>2, <3>3, WalkInvEnds
    <3>4. CASE /\ walk'.kind = walk.kind /\ walk'.phase = "back" /\ walk'.ok = r
               /\ walk'.at = s - 1 /\ UNCHANGED active
      <4>1. \A d \in inUse' : SiteOf(d) > s - 1
        BY <2>3 DEF Sites
      <4>2. QED
        BY <2>1, <2>2, <2>4, <3>2, <3>4, <4>1
           DEF WalkInv, StartInv, EndInv, NothingRunsUnmanaged
    <3>5. QED
      BY <1>0, <2>1, <2>6, <3>1, <3>3, <3>4, ReturnParts
  <2>7. QED
    BY <1>15, <2>5, <2>6 DEF EndHere
<1>16. ASSUME NEW s \in Sites, EndBack(s) PROVE WalkInv'
  <2>1. walk.kind = "end" /\ walk.at = s /\ walk.phase = "back"
        /\ UNCHANGED <<inUse, knowsNext>>
    BY <1>16 DEF EndBack, agents
  <2>2. ChannelsKept'
    BY <2>1 DEF WalkInv, ChannelsKept
  <2>3. /\ \A d \in inUse : SiteOf(d) > s /\ SiteOf(d) \in Sites
        /\ ~active => inUse = {}
        /\ walk.ok => inUse = {}
    BY <1>0, <2>1, SiteFacts DEF WalkInv, EndInv, Types
  <2>4. CASE /\ CallsAgain(s)
             /\ walk' = [walk EXCEPT !.at = s + 1, !.phase = "arrive", !.again = @ \union {s}]
             /\ UNCHANGED manager
    <3>1. walk'.kind = "end" /\ walk'.at = s + 1 /\ walk'.phase = "arrive"
      BY <1>0, <2>1, <2>4, AgainParts DEF Types
    <3>2. \A d \in inUse : SiteOf(d) >= s + 1
      BY <2>3 DEF Sites
    <3>3. QED
      BY <2>1, <2>2, <2>3, <2>4, <3>1, <3>2
         DEF manager, WalkInv, StartInv, EndInv, NothingRunsUnmanaged
  <2>5. CASE Return(s, walk.ok)
    <3>1. walk.ok \in BOOLEAN
      BY <1>0, WalkParts DEF Types
    <3>2. CASE EndWalk(walk.ok)
      BY <1>0, <2>1, <2>2, <2>3, <3>1, <3>2, WalkInvEnds
    <3>3. CASE /\ walk'.kind = walk.kind /\ walk'.phase = "back" /\ walk'.ok = walk.ok
               /\ walk'.at = s - 1 /\ UNCHANGED active
      <4>1. \A d \in inUse : SiteOf(d) > s - 1
        BY <2>3 DEF Sites
      <4>2. QED
        BY <2>1, <2>2, <2>3, <3>3, <4>1
           DEF WalkInv, StartInv, EndInv, NothingRunsUnmanaged
    <3>4. QED
      BY <1>0, <2>1, <2>5, <3>1, <3>2, <3>3, ReturnParts
  <2>6. QED
    BY <1>16, <2>4, <2>5 DEF EndBack
<1>17. ASSUME NEW s \in Sites, Unreachable(s) PROVE WalkInv'
  <2>1. walk.kind # "none" /\ walk.at = s /\ walk.phase = "arrive"
        /\ UNCHANGED <<inUse, knowsNext>> /\ Return(s, FALSE)
    BY <1>17 DEF Unreachable, agents
  <2>2. ChannelsKept'
    BY <2>1 DEF WalkInv, ChannelsKept
  <2>3. walk.kind = "start" \/ walk.kind = "end"
    BY <1>0, <2>1, WalkParts DEF Types
  <2>4. CASE s = 1 /\ EndWalk(FALSE)
    <3>1. ~active => inUse = {}
      <4>1. CASE walk.kind = "start"
        BY <1>0, <2>1, <2>4, <4>1, SiteFacts DEF WalkInv, StartInv, Types, Sites
      <4>2. CASE walk.kind = "end"
        BY <4>2 DEF WalkInv, EndInv
      <4>3. QED
        BY <2>3, <4>1, <4>2
    <3>2. QED
      BY <1>0, <2>1, <2>2, <2>4, <3>1, WalkInvEnds
  <2>5. CASE /\ walk'.kind = walk.kind /\ walk'.phase = "back" /\ walk'.ok = FALSE
             /\ walk'.at = s - 1 /\ UNCHANGED active
    <3>1. \A d \in inUse : SiteOf(d) \in Sites
      BY <1>0, SiteFacts DEF Types
    <3>2. CASE walk.kind = "start"
      <4>1. N = 2 => \A d \in inUse : SiteOf(d) <= 1
        BY <2>1, <3>1, <3>2 DEF WalkInv, StartInv, Sites
      <4>2. QED
        BY <2>1, <2>2, <2>5, <3>2, <4>1
           DEF WalkInv, StartInv, EndInv, NothingRunsUnmanaged
    <3>3. CASE walk.kind = "end"
      <4>1. \A d \in inUse : SiteOf(d) > s - 1
        BY <2>1, <3>1, <3>3 DEF WalkInv, EndInv, Sites
      <4>2. QED
        BY <2>1, <2>2, <2>5, <3>3, <4>1
           DEF WalkInv, StartInv, EndInv, NothingRunsUnmanaged
    <3>4. QED
      BY <2>3, <3>2, <3>3
  <2>6. QED
    BY <1>0, <2>1, <2>4, <2>5, ReturnParts
<1>18. QED
  BY <1>1, <1>2, <1>3, <1>4, <1>5, <1>6, <1>7, <1>8, <1>9, <1>10, <1>11, <1>12,
     <1>13, <1>14, <1>15, <1>16, <1>17, Actions

\* While the manager takes the link for stopped, no agent of the path has a device
\* of it in use (NothingRunsUnmanaged): for any path, whatever stopped, restarted,
\* registered or could not be reached on the way.
THEOREM NothingLeftRunning == Spec => []NothingRunsUnmanaged
<1>1. Init => WalkInv
  BY FreshWalk DEF Init, WalkInv, ChannelsKept, StartInv, EndInv, NothingRunsUnmanaged
<1>2. TypeOK /\ WalkInv /\ [Next]_vars => WalkInv'
  <2>1. CASE Next
    BY <2>1, WalkStepInv
  <2>2. CASE UNCHANGED vars
    BY <2>2 DEF vars, agents, threads, manager, bounds,
                WalkInv, ChannelsKept, StartInv, EndInv, NothingRunsUnmanaged
  <2>3. QED
    BY <2>1, <2>2
<1>3. WalkInv => NothingRunsUnmanaged
  BY DEF WalkInv
<1>4. QED
  BY <1>1, <1>2, <1>3, LinkTypeCorrect, PTL DEF Spec

-----------------------------------------------------------------------------
(* The manager's flags are what the agents told it.  Between the moment a      *)
(* handler sets the flags and the moment its caller goes on, agents are        *)
(* called; the caller is kept waiting all that time, so nothing it tells can   *)
(* overtake.                                                                   *)

Awake == {"look", "dozing", "asleep"}

ToldOwn == \A s \in Sites : told[s] \subseteq DevicesOf(s)

\* The thread whose call the manager is serving waits for it.
CallerWaits == serving # 0 => thread[serving] \in {"calling", "leaving"}

DownIsDone == \A s \in Sites : agent[s] = "down" => thread[s] = "done"

\* The handler has set the flags of the site it serves.
FlagsServed == \A s \in registered : s = serving => ready \intersect DevicesOf(s) = told[s]

FlagsInv == ToldOwn /\ CallerWaits /\ DownIsDone /\ FlagsServed /\ FlagsAreAsTold

\* Steps of devices, agents and walks, which end no call and tell nothing.
LEMMA FlagsInvKept ==
  ASSUME TypeOK, FlagsInv, DownIsDone',
         UNCHANGED <<ready, registered, serving, told, registerOk>>,
         \A t \in Sites : thread[t] \in {"calling", "leaving"} => thread'[t] = thread[t],
         \A t \in Sites : thread'[t] \in Awake => thread[t] \in Awake
  PROVE  FlagsInv'
<1>1. registered \subseteq Sites /\ (serving # 0 => serving \in Sites)
  BY SiteFacts DEF TypeOK, Sites
<1>2. ToldOwn' /\ FlagsServed'
  BY DEF FlagsInv, ToldOwn, FlagsServed
<1>3. CallerWaits'
  BY <1>1 DEF FlagsInv, CallerWaits
<1>4. FlagsAreAsTold'
  BY <1>1 DEF FlagsInv, FlagsAreAsTold, Awake
<1>5. QED
  BY <1>2, <1>3, <1>4 DEF FlagsInv

\* One call ends, or one agent starts anew: only the thread of s changes.
LEMMA FlagsInvOther ==
  ASSUME TypeOK, FlagsInv, NEW s \in Sites, s # serving, DownIsDone', ToldOwn',
         UNCHANGED <<ready, registered, serving>>,
         \A t \in Sites : t # s => /\ thread'[t] = thread[t] /\ told'[t] = told[t]
                                   /\ registerOk'[t] = registerOk[t],
         registerOk'[s] => thread'[s] \notin Awake
  PROVE  FlagsInv'
<1>1. registered \subseteq Sites /\ (serving # 0 => serving \in Sites)
  BY SiteFacts DEF TypeOK, Sites
<1>2. FlagsServed' /\ CallerWaits'
  BY <1>1 DEF FlagsInv, FlagsServed, CallerWaits
<1>3. FlagsAreAsTold'
  BY <1>1 DEF FlagsInv, FlagsAreAsTold, Awake
<1>4. QED
  BY <1>2, <1>3 DEF FlagsInv

\* The end of a handler: its caller goes on with the flags it was told about.
LEMMA FlagsInvEnds ==
  ASSUME TypeOK, FlagsInv, NEW r \in BOOLEAN, EndWalk(r), walk.kind # "none",
         UNCHANGED <<told, registered, ready, agent>>
  PROVE  FlagsInv'
<1>1. serving \in Sites /\ serving' = 0 /\ 0 \notin Sites /\ registered \subseteq Sites
  BY EndWalkParts, TypeParts DEF TypeOK, Sites
<1>2. thread[serving] # "done"
  BY <1>1 DEF FlagsInv, CallerWaits, Sites
<1>3. /\ thread' = [thread EXCEPT ![serving] = IF agent[serving] = "stopping" THEN "done" ELSE "look"]
      /\ registerOk' = [registerOk EXCEPT ![serving] = TRUE]
  BY DEF EndWalk, AfterCall
<1>4. thread \in [Sites -> ThreadStates] /\ registerOk \in [Sites -> BOOLEAN]
  BY TypeParts DEF Types
<1>5. ToldOwn' /\ FlagsServed' /\ CallerWaits'
  BY <1>1 DEF FlagsInv, ToldOwn, FlagsServed, CallerWaits
<1>6. DownIsDone'
  BY <1>1, <1>2, <1>3, <1>4 DEF FlagsInv, DownIsDone
<1>7. FlagsAreAsTold'
  BY <1>1, <1>3, <1>4 DEF FlagsInv, FlagsServed, FlagsAreAsTold
<1>8. QED
  BY <1>5, <1>6, <1>7 DEF FlagsInv

\* A return on the path, which ends the handler or tells nobody anything.
LEMMA FlagsInvReturns ==
  ASSUME TypeOK, FlagsInv, NEW s \in Sites, NEW r \in BOOLEAN, Return(s, r),
         walk.kind # "none", UNCHANGED agent
  PROVE  FlagsInv'
<1>1. UNCHANGED <<told, registered, ready>>
  BY ReturnParts, TypeParts
<1>2. CASE EndWalk(r)
  BY <1>1, <1>2, FlagsInvEnds
<1>3. CASE UNCHANGED <<serving, thread, registerOk>>
  BY <1>1, <1>3, FlagsInvKept DEF FlagsInv, DownIsDone
<1>4. QED
  BY <1>2, <1>3, ReturnParts, TypeParts

\* A stopping or running agent which wakes its thread.
LEMMA NotifiedKeeps ==
  ASSUME TypeOK, NEW s \in Sites, thread' = Notified(s)
  PROVE  /\ \A t \in Sites : t # s => thread'[t] = thread[t]
         /\ \A t \in Sites : thread[t] \in {"calling", "leaving"} => thread'[t] = thread[t]
         /\ \A t \in Sites : thread'[t] \in Awake => thread[t] \in Awake
  BY DEF Notified, TypeOK, Awake

\* Every step keeps FlagsInv.
LEMMA FlagsStep ==
  ASSUME TypeOK, FlagsInv, Next
  PROVE  FlagsInv'
<1>0. /\ thread \in [Sites -> ThreadStates] /\ registerOk \in [Sites -> BOOLEAN]
      /\ agent \in [Sites -> {"up", "stopping", "down"}]
      /\ told \in [Sites -> SUBSET Devices] /\ registered \subseteq Sites
  BY TypeParts DEF Types
<1>1. ASSUME NEW d \in Devices, RegisterDevice(d) PROVE FlagsInv'
  <2>1. SiteOf(d) \in Sites /\ thread' = Notified(SiteOf(d)) /\ agent[SiteOf(d)] = "up"
        /\ UNCHANGED <<agent, ready, registered, serving, told, registerOk>>
    BY <1>1, SiteFacts DEF RegisterDevice, manager
  <2>2. DownIsDone'
    BY <2>1, NotifiedKeeps DEF FlagsInv, DownIsDone
  <2>3. QED
    BY <2>1, <2>2, NotifiedKeeps, FlagsInvKept
<1>2. ASSUME NEW d \in Devices, UnregisterDevice(d) PROVE FlagsInv'
  <2>1. SiteOf(d) \in Sites /\ thread' = Notified(SiteOf(d)) /\ agent[SiteOf(d)] = "up"
        /\ UNCHANGED <<agent, ready, registered, serving, told, registerOk>>
    BY <1>2, SiteFacts DEF UnregisterDevice, manager
  <2>2. DownIsDone'
    BY <2>1, NotifiedKeeps DEF FlagsInv, DownIsDone
  <2>3. QED
    BY <2>1, <2>2, NotifiedKeeps, FlagsInvKept
<1>3. ASSUME NEW s \in Sites, LookAndCall(s) PROVE FlagsInv'
  <2>1. /\ thread[s] = "look"
        /\ told' = [told EXCEPT ![s] = MyDevices(s)]
        /\ thread' = [thread EXCEPT ![s] = IF agent[s] = "stopping" THEN "leaving" ELSE "calling"]
        /\ UNCHANGED <<agent, registerOk, ready, registered, serving>>
    BY <1>3 DEF LookAndCall, agents, manager
  <2>2. s # serving /\ agent[s] # "down"
    BY <1>0, <2>1 DEF FlagsInv, CallerWaits, DownIsDone, Sites
  <2>3. DownIsDone'
    BY <1>0, <2>1, <2>2 DEF FlagsInv, DownIsDone
  <2>4. ToldOwn'
    BY <1>0, <2>1 DEF FlagsInv, ToldOwn, MyDevices
  <2>5. thread'[s] \notin Awake
    BY <1>0, <2>1 DEF Awake
  <2>6. QED
    BY <1>0, <2>1, <2>2, <2>3, <2>4, <2>5, FlagsInvOther
<1>4. ASSUME NEW s \in Sites, LookAndDoze(s) PROVE FlagsInv'
  BY <1>0, <1>4, FlagsInvKept
     DEF LookAndDoze, agents, manager, FlagsInv, DownIsDone, Awake
<1>5. ASSUME NEW s \in Sites, FallAsleep(s) PROVE FlagsInv'
  BY <1>0, <1>5, FlagsInvKept
     DEF FallAsleep, agents, manager, FlagsInv, DownIsDone, Awake
<1>6. ASSUME NEW s \in Sites, CallFails(s) PROVE FlagsInv'
  <2>1. /\ thread[s] \in {"calling", "leaving"} /\ serving # s
        /\ registerOk' = [registerOk EXCEPT ![s] = FALSE]
        /\ thread' = [thread EXCEPT ![s] = IF agent[s] = "stopping" THEN "done" ELSE "look"]
        /\ UNCHANGED <<agent, told, ready, registered, serving>>
    BY <1>6 DEF CallFails, AfterCall, agents, manager
  <2>2. DownIsDone' /\ ToldOwn'
    BY <1>0, <2>1 DEF FlagsInv, DownIsDone, ToldOwn
  <2>3. ~registerOk'[s]
    BY <1>0, <2>1
  <2>4. QED
    BY <1>0, <2>1, <2>2, <2>3, FlagsInvOther
<1>7. ASSUME NEW s \in Sites, StopAgent(s) PROVE FlagsInv'
  <2>1. thread' = Notified(s) /\ agent' = [agent EXCEPT ![s] = "stopping"]
        /\ UNCHANGED <<ready, registered, serving, told, registerOk>>
    BY <1>7 DEF StopAgent, manager
  <2>2. DownIsDone'
    BY <1>0, <2>1, NotifiedKeeps DEF FlagsInv, DownIsDone
  <2>3. QED
    BY <2>1, <2>2, NotifiedKeeps, FlagsInvKept
<1>8. ASSUME NEW s \in Sites, AgentDown(s) PROVE FlagsInv'
  BY <1>0, <1>8, FlagsInvKept DEF AgentDown, threads, manager, FlagsInv, DownIsDone
<1>9. ASSUME NEW s \in Sites, StartAgent(s) PROVE FlagsInv'
  <2>1. /\ agent[s] = "down" /\ agent' = [agent EXCEPT ![s] = "up"]
        /\ thread' = [thread EXCEPT ![s] = "look"]
        /\ registerOk' = [registerOk EXCEPT ![s] = FALSE]
        /\ told' = [told EXCEPT ![s] = {}]
        /\ UNCHANGED <<ready, registered, serving>>
    BY <1>9 DEF StartAgent, manager
  <2>2. s # serving
    BY <1>0, <2>1 DEF FlagsInv, CallerWaits, DownIsDone, Sites
  <2>3. DownIsDone' /\ ToldOwn' /\ ~registerOk'[s]
    BY <1>0, <2>1 DEF FlagsInv, DownIsDone, ToldOwn
  <2>4. QED
    BY <1>0, <2>1, <2>2, <2>3, FlagsInvOther
<1>10. ASSUME NEW s \in Sites, RegisterSite(s) PROVE FlagsInv'
  <2>1. /\ thread[s] = "calling" /\ serving = 0
        /\ registered' = registered \union {s} /\ ready' = Flags(s)
        /\ UNCHANGED <<agent, told>>
    BY <1>10 DEF RegisterSite, agents
  <2>2. /\ ready' \intersect DevicesOf(s) = told[s]
        /\ \A t \in Sites : t # s => ready' \intersect DevicesOf(t) = ready \intersect DevicesOf(t)
    BY <2>1, OwnDevices DEF Flags, FlagsInv, ToldOwn
  <2>3. CASE serving' = s /\ UNCHANGED <<thread, registerOk>>
    <3>1. ToldOwn' /\ DownIsDone' /\ CallerWaits' /\ FlagsServed'
      BY <1>0, <2>1, <2>2, <2>3
         DEF FlagsInv, ToldOwn, DownIsDone, CallerWaits, FlagsServed
    <3>2. FlagsAreAsTold'
      BY <1>0, <2>1, <2>2, <2>3 DEF FlagsInv, FlagsAreAsTold
    <3>3. QED
      BY <3>1, <3>2 DEF FlagsInv
  <2>4. CASE AfterCall(s, TRUE) /\ UNCHANGED serving
    <3>1. /\ registerOk' = [registerOk EXCEPT ![s] = TRUE]
          /\ thread' = [thread EXCEPT ![s] = IF agent[s] = "stopping" THEN "done" ELSE "look"]
      BY <2>4 DEF AfterCall
    <3>2. ToldOwn' /\ DownIsDone' /\ CallerWaits'
      BY <1>0, <2>1, <2>4, <3>1 DEF FlagsInv, ToldOwn, DownIsDone, CallerWaits
    <3>3. FlagsServed'
      BY <1>0, <2>1, <2>4 DEF FlagsServed, Sites
    <3>4. FlagsAreAsTold'
      BY <1>0, <2>1, <2>2, <3>1 DEF FlagsInv, FlagsAreAsTold
    <3>5. QED
      BY <3>2, <3>3, <3>4 DEF FlagsInv
  <2>5. QED
    BY <1>10, <2>3, <2>4 DEF RegisterSite
<1>11. ASSUME NEW s \in Sites, UnregisterSite(s) PROVE FlagsInv'
  <2>1. thread[s] = "leaving" /\ serving = 0 /\ UNCHANGED <<agent, told, ready>>
    BY <1>11 DEF UnregisterSite, agents
  <2>2. CASE /\ registered' = registered \ {s} /\ serving' = s
             /\ UNCHANGED <<thread, registerOk>>
    BY <1>0, <2>1, <2>2
       DEF FlagsInv, ToldOwn, DownIsDone, CallerWaits, FlagsServed, FlagsAreAsTold
  <2>3. CASE AfterCall(s, FALSE) /\ UNCHANGED <<registered, serving>>
    <3>1. /\ registerOk' = [registerOk EXCEPT ![s] = FALSE]
          /\ thread' = [thread EXCEPT ![s] = IF agent[s] = "stopping" THEN "done" ELSE "look"]
      BY <2>3 DEF AfterCall
    <3>2. ToldOwn' /\ DownIsDone' /\ s # serving /\ ~registerOk'[s]
      BY <1>0, <2>1, <3>1 DEF FlagsInv, ToldOwn, DownIsDone, Sites
    <3>3. QED
      BY <1>0, <2>1, <2>3, <3>1, <3>2, FlagsInvOther
  <2>4. QED
    BY <1>11, <2>2, <2>3 DEF UnregisterSite
<1>12. ASSUME NEW s \in Sites, StartSecond(s) PROVE FlagsInv'
  BY <1>12, FlagsInvKept DEF StartSecond, threads, manager, FlagsInv, DownIsDone
<1>13. ASSUME NEW s \in Sites, StartFirst(s) PROVE FlagsInv'
  BY <1>13, FlagsInvKept DEF StartFirst, threads, manager, FlagsInv, DownIsDone
<1>14. ASSUME NEW s \in Sites, StartBack(s) PROVE FlagsInv'
  <2>1. (walk.ok \/ s < N - 1) \in BOOLEAN
    OBVIOUS
  <2>2. QED
    BY <1>14, <2>1, FlagsInvReturns DEF StartBack
<1>15. ASSUME NEW s \in Sites, EndHere(s) PROVE FlagsInv'
  <2>1. (LastDevice(s) \in inUse) \in BOOLEAN
    OBVIOUS
  <2>2. CASE Return(s, LastDevice(s) \in inUse)
    BY <1>15, <2>1, <2>2, FlagsInvReturns DEF EndHere
  <2>3. CASE UNCHANGED <<threads, manager>>
    BY <1>15, <2>3, FlagsInvKept DEF EndHere, threads, manager, FlagsInv, DownIsDone
  <2>4. QED
    BY <1>15, <2>2, <2>3 DEF EndHere
<1>16. ASSUME NEW s \in Sites, EndBack(s) PROVE FlagsInv'
  <2>1. walk.ok \in BOOLEAN
    BY WalkParts DEF TypeOK
  <2>2. CASE Return(s, walk.ok)
    BY <1>16, <2>1, <2>2, FlagsInvReturns DEF EndBack, agents
  <2>3. CASE UNCHANGED <<threads, manager>>
    BY <1>16, <2>3, FlagsInvKept DEF EndBack, agents, threads, manager, FlagsInv, DownIsDone
  <2>4. QED
    BY <1>16, <2>2, <2>3 DEF EndBack
<1>17. ASSUME NEW s \in Sites, Unreachable(s) PROVE FlagsInv'
  BY <1>17, FlagsInvReturns DEF Unreachable, agents
<1>18. QED
  BY <1>1, <1>2, <1>3, <1>4, <1>5, <1>6, <1>7, <1>8, <1>9, <1>10, <1>11, <1>12,
     <1>13, <1>14, <1>15, <1>16, <1>17, Actions

\* The manager decides on what the agents told it (FlagsAreAsTold): while handlers
\* call agents, agents register, stop and start, and calls are lost, no flag is
\* older or newer than what the agent last sent.
THEOREM FlagsFollowAgents == Spec => []FlagsAreAsTold
<1>1. Init => FlagsInv
  BY DEF Init, FlagsInv, ToldOwn, CallerWaits, DownIsDone, FlagsServed, FlagsAreAsTold
<1>2. TypeOK /\ FlagsInv /\ [Next]_vars => FlagsInv'
  <2>1. CASE Next
    BY <2>1, FlagsStep
  <2>2. CASE UNCHANGED vars
    BY <2>2 DEF vars, agents, threads, manager, bounds, FlagsInv, ToldOwn,
                CallerWaits, DownIsDone, FlagsServed, FlagsAreAsTold
  <2>3. QED
    BY <2>1, <2>2
<1>3. FlagsInv => FlagsAreAsTold
  BY DEF FlagsInv
<1>4. QED
  BY <1>1, <1>2, <1>3, LinkTypeCorrect, PTL DEF Spec
==============================================================================
