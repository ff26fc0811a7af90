---------------------------- MODULE NodeNetworks ----------------------------
(***************************************************************************)
(* Network membership in the node runtime (src/node/Node.cpp).            *)
(*                                                                         *)
(* `nets` is Node::_networks (nwid -> SharedPtr<Network>), guarded by      *)
(* _networks_m.  Every Network object ever created is an element of Objs;  *)
(* `objs` keeps what the node relies on of each: its nwid, whether        *)
(* destroy() was called, and its config state.                             *)
(*                                                                         *)
(* Host threads call join, leave, processVirtualNetworkFrame and           *)
(* multicastSubscribe/Unsubscribe concurrently; a background thread runs  *)
(* the network part of processBackgroundTasks.  A call that takes          *)
(* _networks_m more than once, or that keeps a SharedPtr<Network> after    *)
(* releasing it, is split into one step per lock section.                  *)
(*                                                                         *)
(* Network itself is not in this repository: the config arriving from the *)
(* controller (which also persists it) and the config ageing past          *)
(* ZT_NETWORK_AUTOCONF_DELAY are environment actions.                      *)
(***************************************************************************)
EXTENDS Naturals, FiniteSets, Functions, TLC

CONSTANTS
    Nwids,            \* network ids the host joins and leaves
    ControlThreads,   \* host threads that call join and leave
    DataThreads,      \* host threads that pass frames and multicast subscriptions
    Objs              \* identities of the Network objects join may create

ASSUME ControlThreads \cap DataThreads = {}

Threads == ControlThreads \cup DataThreads

VARIABLES
    nets,           \* _networks: nwid ~> object
    objs,           \* object -> [nwid, destroyed, cfg]; only created ones
    persisted,      \* nwids with a NETWORK_CONFIG state object
    destroyCount,   \* object -> number of CONFIG_DESTROY callbacks posted for it
    requested,      \* objects asked to requestConfiguration since their config changed
    cl,             \* per host thread: the call in progress
    bg,             \* the background thread: "idle" or "requesting"
    needConfig      \* processBackgroundTasks' local needConfig vector

vars == <<nets, objs, persisted, destroyCount, requested, cl, bg, needConfig>>

Idle == [pc |-> "idle", n |-> CHOOSE n \in Nwids : TRUE, o |-> CHOOSE o \in Objs : TRUE]

Live == Range(nets)

Init ==
    /\ nets = <<>>
    /\ objs = <<>>
    /\ persisted = {}
    /\ destroyCount = <<>>
    /\ requested = {}
    /\ cl = [t \in Threads |-> Idle]
    /\ bg = "idle"
    /\ needConfig = {}

-----------------------------------------------------------------------------
(* Mutant: the `if (!nw)` test dropped; join replaces an existing one.    *)
joinNoNullCheck(t, n) ==
    /\ t \in ControlThreads
    /\ cl[t].pc = "idle"
    /\ \E o \in Objs \ DOMAIN objs :
          /\ nets' = (n :> o) @@ nets
          /\ objs' = objs @@ (o :> [nwid |-> n, destroyed |-> FALSE,
                                    cfg |-> "none"])
          /\ destroyCount' = destroyCount @@ (o :> 0)
    /\ UNCHANGED <<persisted, requested, cl, bg, needConfig>>

(* Node::join: under _networks_m, create the Network unless one is there.  *)
join(t, n) ==
    /\ t \in ControlThreads
    /\ cl[t].pc = "idle"
    /\ IF n \in DOMAIN nets
         THEN UNCHANGED <<nets, objs, destroyCount>>
         ELSE \E o \in Objs \ DOMAIN objs :
                 /\ nets' = nets @@ (n :> o)
                 /\ objs' = objs @@ (o :> [nwid |-> n, destroyed |-> FALSE,
                                           cfg |-> "none"])
                 /\ destroyCount' = destroyCount @@ (o :> 0)
    /\ UNCHANGED <<persisted, requested, cl, bg, needConfig>>

(* Node::leave, first section: return OK if absent, else destroy() it.    *)
leaveDestroy(t, n) ==
    /\ t \in ControlThreads
    /\ cl[t].pc = "idle"
    /\ n \in DOMAIN nets
    /\ objs' = [objs EXCEPT ![nets[n]].destroyed = TRUE]
    /\ cl' = [cl EXCEPT ![t] = [Idle EXCEPT !.pc = "leaveNotify", !.n = n, !.o = nets[n]]]
    /\ UNCHANGED <<nets, persisted, destroyCount, requested, bg, needConfig>>

(* Mutant: the callback is posted but the call does not move on.          *)
leaveNotifyRepeat(t) ==
    /\ cl[t].pc = "leaveNotify"
    /\ destroyCount' = [destroyCount EXCEPT ![cl[t].o] = @ + 1]
    /\ UNCHANGED <<nets, objs, persisted, requested, cl, bg, needConfig>>

(* Unlocked: configureVirtualNetworkPort(..., CONFIG_DESTROY, ...).        *)
leaveNotify(t) ==
    /\ cl[t].pc = "leaveNotify"
    /\ destroyCount' = [destroyCount EXCEPT ![cl[t].o] = @ + 1]
    /\ cl' = [cl EXCEPT ![t].pc = "leaveErase"]
    /\ UNCHANGED <<nets, objs, persisted, requested, bg, needConfig>>

(* Second section: _networks.erase(nwid), whatever object is there now.    *)
leaveErase(t) ==
    /\ cl[t].pc = "leaveErase"
    /\ nets' = Restrict(nets, DOMAIN nets \ {cl[t].n})
    /\ cl' = [cl EXCEPT ![t].pc = "leaveDelete"]
    /\ UNCHANGED <<objs, persisted, destroyCount, requested, bg, needConfig>>

(* stateObjectDelete(NETWORK_CONFIG, {nwid, 0}).                           *)
leaveDelete(t) ==
    /\ cl[t].pc = "leaveDelete"
    /\ persisted' = persisted \ {cl[t].n}
    /\ cl' = [cl EXCEPT ![t] = Idle]
    /\ UNCHANGED <<nets, objs, destroyCount, requested, bg, needConfig>>

-----------------------------------------------------------------------------
(* processVirtualNetworkFrame, multicastSubscribe, multicastUnsubscribe:   *)
(* this->network(nwid) takes the SharedPtr under _networks_m (or returns   *)
(* NETWORK_NOT_FOUND), then the call uses it with no lock held.            *)
lookup(t, op, n) ==
    /\ t \in DataThreads
    /\ cl[t].pc = "idle"
    /\ n \in DOMAIN nets
    /\ cl' = [cl EXCEPT ![t] = [pc |-> op, n |-> n, o |-> nets[n]]]
    /\ UNCHANGED <<nets, objs, persisted, destroyCount, requested, bg, needConfig>>

(* RR->sw->onLocalEthernet(tptr, nw, ...).                                 *)
frameDeliver(t) ==
    /\ cl[t].pc = "frame"
    /\ cl' = [cl EXCEPT ![t] = Idle]
    /\ UNCHANGED <<nets, objs, persisted, destroyCount, requested, bg, needConfig>>

(* nw->multicastSubscribe / nw->multicastUnsubscribe (the group set       *)
(* itself lives in Network and no property reads it).                      *)
multicastApply(t) ==
    /\ cl[t].pc = "multicast"
    /\ cl' = [cl EXCEPT ![t] = Idle]
    /\ UNCHANGED <<nets, objs, persisted, destroyCount, requested, bg, needConfig>>

-----------------------------------------------------------------------------
(* Mutant: collect only networks that never had a config (the autoconf    *)
(* refresh dropped).                                                       *)
collectNeedConfigNoRefresh ==
    /\ bg = "idle"
    /\ needConfig' = {o \in Live : objs[o].cfg = "none"}
    /\ bg' = "requesting"
    /\ UNCHANGED <<nets, objs, persisted, destroyCount, requested, cl>>

(* processBackgroundTasks, ping-check branch: under _networks_m collect    *)
(* every network whose config is absent or older than the autoconf delay  *)
(* (and call sendUpdatesToMembers, which keeps no state the node reads).   *)
collectNeedConfig ==
    /\ bg = "idle"
    /\ needConfig' = {o \in Live : objs[o].cfg \in {"none", "aged"}}
    /\ bg' = "requesting"
    /\ UNCHANGED <<nets, objs, persisted, destroyCount, requested, cl>>

(* Then, unlocked, requestConfiguration(tptr) on each of them.            *)
requestConfiguration ==
    /\ bg = "requesting"
    /\ IF needConfig = {}
         THEN /\ bg' = "idle"
              /\ UNCHANGED <<requested, needConfig>>
         ELSE \E o \in needConfig :
                 /\ requested' = requested \cup {o}
                 /\ needConfig' = needConfig \ {o}
                 /\ UNCHANGED bg
    /\ UNCHANGED <<nets, objs, persisted, destroyCount, cl>>

-----------------------------------------------------------------------------
(* Environment: the controller answers a request (Network::setConfiguration *)
(* stores and persists it); a config ages past ZT_NETWORK_AUTOCONF_DELAY.  *)
configArrives(o) ==
    /\ o \in requested
    /\ ~objs[o].destroyed
    /\ objs' = [objs EXCEPT ![o].cfg = "fresh"]
    /\ persisted' = persisted \cup {objs[o].nwid}
    /\ requested' = requested \ {o}
    /\ UNCHANGED <<nets, destroyCount, cl, bg, needConfig>>

configAges(o) ==
    /\ objs[o].cfg = "fresh"
    /\ objs' = [objs EXCEPT ![o].cfg = "aged"]
    /\ UNCHANGED <<nets, persisted, destroyCount, requested, cl, bg, needConfig>>

-----------------------------------------------------------------------------
HostCall(t) ==
    \/ \E n \in Nwids : join(t, n) \/ leaveDestroy(t, n)
    \/ \E n \in Nwids : lookup(t, "frame", n) \/ lookup(t, "multicast", n)

InCall(t) ==
    \/ leaveNotify(t) \/ leaveErase(t) \/ leaveDelete(t)
    \/ frameDeliver(t) \/ multicastApply(t)

Next ==
    \/ \E t \in Threads : HostCall(t) \/ InCall(t)
    \/ collectNeedConfig \/ requestConfiguration
    \/ \E o \in DOMAIN objs : configArrives(o) \/ configAges(o)

(* A call in progress runs to its end.  The host calls                     *)
(* processBackgroundTasks again by the deadline it was given, so the       *)
(* background thread is weakly fair too.  Host calls and the controller's  *)
(* answers are not.                                                        *)
Fairness ==
    /\ \A t \in Threads : WF_vars(InCall(t))
    /\ WF_vars(collectNeedConfig \/ requestConfiguration)

Spec == Init /\ [][Next]_vars /\ Fairness

-----------------------------------------------------------------------------
(* Properties *)

TypeOK ==
    /\ nets \in [DOMAIN nets -> Objs] /\ DOMAIN nets \subseteq Nwids
    /\ DOMAIN objs \subseteq Objs /\ DOMAIN destroyCount = DOMAIN objs
    /\ \A o \in DOMAIN objs :
          /\ objs[o].nwid \in Nwids /\ objs[o].destroyed \in BOOLEAN
          /\ objs[o].cfg \in {"none", "fresh", "aged"}
          /\ destroyCount[o] \in 0..Cardinality(ControlThreads)
    /\ Live \subseteq DOMAIN objs
    /\ persisted \subseteq Nwids /\ requested \subseteq DOMAIN objs
    /\ bg \in {"idle", "requesting"} /\ needConfig \subseteq DOMAIN objs

(* A Network that is no longer in _networks was destroyed by leave before  *)
(* being dropped: leave's erase(nwid) never removes a membership it did    *)
(* not destroy (whose port the host was never told to tear down).          *)
ErasedNetworksWereDestroyed ==
    \A o \in DOMAIN objs \ Live : objs[o].destroyed /\ destroyCount[o] >= 1

(* A joined network whose config is missing or older than the autoconf     *)
(* delay is eventually asked to requestConfiguration by                     *)
(* processBackgroundTasks, unless it is left first.                         *)
ConfigEventuallyRequested ==
    \A o \in Objs :
        (o \in Live /\ objs[o].cfg \in {"none", "aged"} /\ o \notin requested)
            ~> (o \in requested \/ o \notin Live)

=============================================================================
