--------------------------- MODULE NodeBackground ---------------------------
(***************************************************************************)
(* The periodic tick of the node runtime: Node::processBackgroundTasks and *)
(* the _PingPeersThatNeedPing closure (src/node/Node.cpp), with the        *)
(* processWirePacket calls that move an upstream's last-receive time.      *)
(*                                                                         *)
(* The host reads its clock, then calls; a tick runs under                 *)
(* _backgroundTasksLock in the steps below, and a packet handled on another *)
(* thread may update a peer between them.  Times are the code's uint64_t   *)
(* values: a difference is taken modulo TimeModulus, which stands for     *)
(* 2^64 (it exceeds every time the model reaches, so a difference that     *)
(* does not wrap keeps its value and one that wraps is huge).              *)
(*                                                                         *)
(* The networks part of the ping check (needConfig, requestConfiguration)  *)
(* is modelled in NodeNetworks.  Sending HELLOs, keepalives and WHOIS      *)
(* changes no state of the node and is left out.                           *)
(***************************************************************************)
EXTENDS Naturals, FiniteSets, FiniteSetsExt

CONSTANTS
    TickThreads,         \* host threads calling processBackgroundTasks
    Upstreams,           \* upstream peers (roots, moons) of the topology
    AmRoot,              \* RR->topology->amRoot()
    PingCheckInterval,   \* ZT_PING_CHECK_INVERVAL
    HousekeepingPeriod,  \* ZT_HOUSEKEEPING_PERIOD
    ActivityTimeout,     \* ZT_PEER_ACTIVITY_TIMEOUT
    Granularity,         \* ZT_CORE_TIMER_TASK_GRANULARITY
    TimerDelays,         \* values RR->sw->doTimerTasks may return
    StartTime,           \* the host clock when the node is built
    MaxTime,             \* bound on the host clock
    TimeModulus,         \* 2^64, scaled down
    NoThread             \* the lock is free

ASSUME NoThread \notin TickThreads

ASSUME /\ AmRoot \in BOOLEAN
       /\ {PingCheckInterval, HousekeepingPeriod, ActivityTimeout, Granularity} \subseteq Nat \ {0}
       /\ TimerDelays \subseteq Nat
       /\ StartTime >= PingCheckInterval /\ StartTime >= HousekeepingPeriod /\ StartTime <= MaxTime
       /\ MaxTime + PingCheckInterval + Max(TimerDelays \cup {Granularity}) < TimeModulus

VARIABLES
    clock,               \* the host's clock
    lastPingCheck,       \* _lastPingCheck
    lastHousekeepingRun, \* _lastHousekeepingRun
    online,              \* _online
    lastEvent,           \* the last of ZT_EVENT_ONLINE / ZT_EVENT_OFFLINE posted
    lastReceive,         \* upstream -> Peer::lastReceive()
    deadline,            \* *nextBackgroundTaskDeadline, as the host last read it
    lockHolder,          \* _backgroundTasksLock
    tk,                  \* per tick thread: [pc, now, timeUntilNextPingCheck]
    upstreamRecent       \* history: at the last ping check an upstream had been
                         \* heard within ActivityTimeout of the tick's `now`

vars == <<clock, lastPingCheck, lastHousekeepingRun, online, lastEvent, lastReceive,
          deadline, lockHolder, tk, upstreamRecent>>

(* uint64_t subtraction. *)
Diff(a, b) == (a - b) % TimeModulus

MaxOf(a, b) == IF a >= b THEN a ELSE b
MinOf(a, b) == IF a <= b THEN a ELSE b

TickIdle == [pc |-> "idle", now |-> 0, tu |-> PingCheckInterval]

(* The constructor: _lastPingCheck(0), _lastHousekeepingRun(0),            *)
(* _online = false, with the host clock long past 0; no peer has been     *)
(* heard from.  The host owes its first call at once.                      *)
Init ==
    /\ clock = StartTime
    /\ lastPingCheck = 0
    /\ lastHousekeepingRun = 0
    /\ online = FALSE
    /\ lastEvent = "none"
    /\ lastReceive = [u \in Upstreams |-> 0]
    /\ deadline = 0
    /\ lockHolder = NoThread
    /\ tk = [t \in TickThreads |-> TickIdle]
    /\ upstreamRecent = FALSE

-----------------------------------------------------------------------------
(* The host clock advances.  The host does not sleep past the deadline the *)
(* node returned: once there, time passes only while a call it has made is *)
(* in progress.                                                            *)
advanceClock ==
    /\ clock < MaxTime
    /\ clock < deadline \/ \E t \in TickThreads : tk[t].pc # "idle"
    /\ clock' = clock + 1
    /\ UNCHANGED <<lastPingCheck, lastHousekeepingRun, online, lastEvent, lastReceive,
                   deadline, lockHolder, tk, upstreamRecent>>

(* processWirePacket(now) from an upstream: the packet reaches the Peer,   *)
(* which records it as received at `now`.                                  *)
processWirePacket(u) ==
    /\ lastReceive' = [lastReceive EXCEPT ![u] = clock]
    /\ UNCHANGED <<clock, lastPingCheck, lastHousekeepingRun, online, lastEvent,
                   deadline, lockHolder, tk, upstreamRecent>>

(* A host thread reads the clock and calls processBackgroundTasks.         *)
callTick(t) ==
    /\ tk[t].pc = "idle"
    /\ tk' = [tk EXCEPT ![t] = [TickIdle EXCEPT !.pc = "lock", !.now = clock]]
    /\ UNCHANGED <<clock, lastPingCheck, lastHousekeepingRun, online, lastEvent,
                   lastReceive, deadline, lockHolder, upstreamRecent>>

(* Mutant: timeUntilNextPingCheck is reduced on both branches.            *)
pingCheckTestSubtractAlways(t) ==
    LET now == tk[t].now
        elapsed == Diff(now, lastPingCheck)
    IN /\ tk[t].pc = "lock"
       /\ lockHolder = NoThread
       /\ lockHolder' = t
       /\ IF elapsed >= PingCheckInterval
            THEN /\ lastPingCheck' = now
                 /\ tk' = [tk EXCEPT ![t].pc = "pingPeers",
                                     ![t].tu = Diff(PingCheckInterval, elapsed)]
            ELSE /\ tk' = [tk EXCEPT ![t].pc = "housekeeping",
                                     ![t].tu = PingCheckInterval - elapsed]
                 /\ UNCHANGED lastPingCheck
       /\ UNCHANGED <<clock, lastHousekeepingRun, online, lastEvent, lastReceive,
                      deadline, upstreamRecent>>

(* Take _backgroundTasksLock; if ZT_PING_CHECK_INVERVAL has elapsed since  *)
(* _lastPingCheck, start the ping check, else shorten the time to the next. *)
pingCheckTest(t) ==
    LET now == tk[t].now
        elapsed == Diff(now, lastPingCheck)
    IN /\ tk[t].pc = "lock"
       /\ lockHolder = NoThread
       /\ lockHolder' = t
       /\ IF elapsed >= PingCheckInterval
            THEN /\ lastPingCheck' = now
                 /\ tk' = [tk EXCEPT ![t].pc = "pingPeers"]
            ELSE /\ tk' = [tk EXCEPT ![t].pc = "housekeeping",
                                     ![t].tu = PingCheckInterval - elapsed]
                 /\ UNCHANGED lastPingCheck
       /\ UNCHANGED <<clock, lastHousekeepingRun, online, lastEvent, lastReceive,
                      deadline, upstreamRecent>>

(* The upstream peers are visited (pinged, and their greatest lastReceive  *)
(* kept); _online is recomputed and its change posted as an event.         *)
LastReceiveFromUpstream == Max({0} \cup {lastReceive[u] : u \in Upstreams})

pingPeers(t) ==
    LET now == tk[t].now
        newOnline == Diff(now, LastReceiveFromUpstream) < ActivityTimeout \/ AmRoot
    IN /\ tk[t].pc = "pingPeers"
       /\ online' = newOnline
       /\ lastEvent' = IF online # newOnline
                         THEN IF newOnline THEN "ONLINE" ELSE "OFFLINE"
                         ELSE lastEvent
       /\ upstreamRecent' = \E u \in Upstreams : lastReceive[u] + ActivityTimeout > now
       /\ tk' = [tk EXCEPT ![t].pc = "housekeeping"]
       /\ UNCHANGED <<clock, lastPingCheck, lastHousekeepingRun, lastReceive,
                      deadline, lockHolder>>

(* Run the topology, self-awareness and multicaster housekeeping if       *)
(* ZT_HOUSEKEEPING_PERIOD has elapsed.                                     *)
housekeeping(t) ==
    LET now == tk[t].now IN
    /\ tk[t].pc = "housekeeping"
    /\ lastHousekeepingRun' =
          IF Diff(now, lastHousekeepingRun) >= HousekeepingPeriod THEN now ELSE lastHousekeepingRun
    /\ tk' = [tk EXCEPT ![t].pc = "deadline"]
    /\ UNCHANGED <<clock, lastPingCheck, online, lastEvent, lastReceive, deadline,
                   lockHolder, upstreamRecent>>

(* Mutant: the deadline is taken from the switch's timers alone.           *)
setDeadlineTimersOnly(t) ==
    /\ tk[t].pc = "deadline"
    /\ \E d \in TimerDelays :
          deadline' = (tk[t].now + MaxOf(d, Granularity)) % TimeModulus
    /\ lockHolder' = NoThread
    /\ tk' = [tk EXCEPT ![t] = TickIdle]
    /\ UNCHANGED <<clock, lastPingCheck, lastHousekeepingRun, online, lastEvent,
                   lastReceive, upstreamRecent>>

(* *nextBackgroundTaskDeadline = now + max(min(timeUntilNextPingCheck,     *)
(* doTimerTasks()), GRANULARITY); the lock is released on return.          *)
setDeadline(t) ==
    /\ tk[t].pc = "deadline"
    /\ \E d \in TimerDelays :
          deadline' = (tk[t].now + MaxOf(MinOf(tk[t].tu, d), Granularity)) % TimeModulus
    /\ lockHolder' = NoThread
    /\ tk' = [tk EXCEPT ![t] = TickIdle]
    /\ UNCHANGED <<clock, lastPingCheck, lastHousekeepingRun, online, lastEvent,
                   lastReceive, upstreamRecent>>

(* catch(...) in the ping check, the housekeeping or doTimerTasks: return  *)
(* ZT_RESULT_FATAL_ERROR_INTERNAL, the lock released, no deadline written. *)
(* Housekeeping throws only when it is due, after _lastHousekeepingRun was *)
(* set to now.                                                             *)
tickFails(t) ==
    LET now == tk[t].now
        pc  == tk[t].pc
    IN /\ pc \in {"pingPeers", "housekeeping", "deadline"}
       /\ pc = "housekeeping" => Diff(now, lastHousekeepingRun) >= HousekeepingPeriod
       /\ lastHousekeepingRun' = IF pc = "housekeeping" THEN now ELSE lastHousekeepingRun
       /\ lockHolder' = NoThread
       /\ tk' = [tk EXCEPT ![t] = TickIdle]
       /\ UNCHANGED <<clock, lastPingCheck, online, lastEvent, lastReceive, deadline,
                      upstreamRecent>>

-----------------------------------------------------------------------------
TickStep(t) ==
    \/ pingCheckTest(t) \/ pingPeers(t) \/ housekeeping(t) \/ setDeadline(t)

Next ==
    \/ advanceClock
    \/ \E u \in Upstreams : processWirePacket(u)
    \/ \E t \in TickThreads : callTick(t) \/ TickStep(t) \/ tickFails(t)

(* A tick in progress runs to its end (the exceptions are not fair).       *)
Fairness == \A t \in TickThreads : WF_vars(TickStep(t))

Spec == Init /\ [][Next]_vars /\ Fairness

-----------------------------------------------------------------------------
(* Properties *)

Times == 0..(TimeModulus - 1)

TypeOK ==
    /\ clock \in StartTime..MaxTime
    /\ {lastPingCheck, lastHousekeepingRun, deadline} \subseteq Times
    /\ online \in BOOLEAN /\ upstreamRecent \in BOOLEAN
    /\ lastEvent \in {"none", "ONLINE", "OFFLINE"}
    /\ lastReceive \in [Upstreams -> 0..MaxTime]
    /\ lockHolder \in TickThreads \cup {NoThread}
    /\ \A t \in TickThreads :
          /\ tk[t].pc \in {"idle", "lock", "pingPeers", "housekeeping", "deadline"}
          /\ tk[t].now \in 0..MaxTime /\ tk[t].tu \in 1..PingCheckInterval
          /\ (tk[t].pc \in {"pingPeers", "housekeeping", "deadline"}) <=> lockHolder = t

(* A ping check is never put off by more than the timer granularity: the   *)
(* deadline processBackgroundTasks last returned, whatever the switch's     *)
(* timers asked for, lies at most ZT_CORE_TIMER_TASK_GRANULARITY past       *)
(* _lastPingCheck + ZT_PING_CHECK_INVERVAL.                                 *)
PingCheckTimely ==
    deadline <= lastPingCheck + PingCheckInterval + Granularity

(* After a ping check, the node counts as online if an upstream was heard  *)
(* within ZT_PEER_ACTIVITY_TIMEOUT of the tick's time.                      *)
OnlineWhenUpstreamHeard == upstreamRecent => online

=============================================================================
