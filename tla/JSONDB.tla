------------------------------- MODULE JSONDB -------------------------------
(***************************************************************************)
(* The controller store of src/controller/JSONDB.cpp.                      *)
(*                                                                         *)
(* An in-memory shadow `networks` of network and member records, kept     *)
(* beside a persisted copy (`diskNet`, `diskMem`: the controller.d files,  *)
(* the HTTP harness, or the IPC peer), a reverse index `members` from a    *)
(* member id to the networks it belongs to, and a derived per-network      *)
(* summary recomputed by a worker thread (threadMain) from a to-do set.    *)
(*                                                                         *)
(* Client threads call saveNetwork, saveNetworkMember, eraseNetwork and    *)
(* eraseNetworkMember.  Each call is split into the steps the code takes   *)
(* under different locks (or none): the persisted write, the update of    *)
(* the shadow under _networks_m, and the scheduling of a recompute under   *)
(* _summaryThread_m.  Other threads may act between any two steps.         *)
(*                                                                         *)
(* _networks_m is held by the constructor until the data is ready; it is   *)
(* modelled by `dataReady`: every step that takes _networks_m requires it. *)
(*                                                                         *)
(* Data is abstracted: a network config is a model value, a member record  *)
(* is a record of the three fields the summary reads.                      *)
(***************************************************************************)
EXTENDS Naturals, FiniteSets, FiniteSetsExt, Functions, TLC

CONSTANTS
    Modes,          \* the storage modes basePath may select: "fs", "http", "ipc"
    Nwids,          \* network ids
    Mids,           \* member (node) ids
    Configs,        \* network configs a client may save
    EmptyConfig,    \* the config of a network created by operator[] (empty msgpack)
    MemberConfigs,  \* member records a client may save
    Threads,        \* client threads calling the store
    InitDiskNet,    \* persisted networks at startup: a function Nwids ~> Configs
    InitDiskMem,    \* persisted members at startup: a function Nwids \X Mids ~> MemberConfigs
    MayStartEmpty,  \* the base path may also hold no network at startup
    MaxInput,       \* bound on IPC messages read from the input stream
    WritesMayFail   \* a write or removal of a persisted object may fail

ASSUME Modes \subseteq {"fs", "http", "ipc"}
ASSUME EmptyConfig \notin Configs
ASSUME MaxInput \in Nat /\ WritesMayFail \in BOOLEAN /\ MayStartEmpty \in BOOLEAN

VARIABLES
    mode,               \* _httpAddr / _rawInput state: the mode, fixed by the constructor
    networks,           \* _networks: nwid -> [config, members, summaryInfo]
    members,            \* _members: mid -> set of nwids
    summaryThreadToDo,  \* _summaryThreadToDo (a vector without duplicates)
    summaryThread,      \* TRUE once the worker thread has been started
    summaryThreadRun,   \* _summaryThreadRun
    dataReady,          \* _dataReady; FALSE while the constructor holds _networks_m
    wpc,                \* the worker's position: "loop", "compute", "exited"
    todo,               \* the worker's local todo vector
    diskNet,            \* persisted network objects
    diskMem,            \* persisted member objects, keyed <<nwid, mid>>
    lost,               \* history: objects (<<nwid>> or <<nwid, mid>>) whose
                        \* last write or removal failed
    cl,                 \* per client thread: the call in progress
    inputRead,          \* number of IPC messages read so far
    inputEof            \* the IPC input stream has reached its end

vars == <<mode, networks, members, summaryThreadToDo, summaryThread, summaryThreadRun,
          dataReady, wpc, todo, diskNet, diskMem, lost, cl, inputRead, inputEof>>

-----------------------------------------------------------------------------
(* Partial functions                                                       *)

Put(f, k, v) == [x \in DOMAIN f \cup {k} |-> IF x = k THEN v ELSE f[x]]
Drop(f, k) == Restrict(f, DOMAIN f \ {k})

(* NetworkSummaryInfo, default constructed, and as threadMain computes it  *)
(* from a member map (activeMemberCount and allocatedIps are left out).   *)
ZeroSummary == [authorizedMemberCount |-> 0, totalMemberCount |-> 0,
                activeBridges |-> {}, mostRecentDeauthTime |-> 0]

(* Mutant: the member count is one too many.                               *)
SummarizeCountOff(mem) ==
    [authorizedMemberCount |-> Cardinality({m \in DOMAIN mem : mem[m].authorized}),
     totalMemberCount      |-> Cardinality(DOMAIN mem) + 1,
     activeBridges         |-> {m \in DOMAIN mem : mem[m].authorized /\ mem[m].activeBridge},
     mostRecentDeauthTime  |-> 0]

Summarize(mem) ==
    LET ids  == DOMAIN mem
        auth == {m \in ids : mem[m].authorized}
    IN [authorizedMemberCount |-> Cardinality(auth),
        totalMemberCount      |-> Cardinality(ids),
        activeBridges         |-> {m \in auth : mem[m].activeBridge},
        mostRecentDeauthTime  |-> Max({mem[m].lastDeauthorizedTime : m \in ids \ auth} \cup {0})]

NewNW == [config |-> EmptyConfig, members |-> <<>>, summaryInfo |-> ZeroSummary]

(* _networks[nwid]: the record, created empty by operator[] when absent.   *)
NW(n) == IF n \in DOMAIN networks THEN networks[n] ELSE NewNW

(* _load: what the constructor reads back from the persisted copy.  A      *)
(* member object creates its network (with an empty config) as _add does. *)
Load(dn, dm) ==
    [n \in DOMAIN dn \cup {k[1] : k \in DOMAIN dm} |->
        [config      |-> IF n \in DOMAIN dn THEN dn[n] ELSE EmptyConfig,
         members     |-> [m \in {k[2] : k \in {j \in DOMAIN dm : j[1] = n}} |-> dm[<<n, m>>]],
         summaryInfo |-> ZeroSummary]]

IndexOf(nws) == [m \in Mids |-> {n \in DOMAIN nws : m \in DOMAIN nws[n].members}]

Idle == [pc |-> "idle", n |-> CHOOSE n \in Nwids : TRUE, m |-> CHOOSE m \in Mids : TRUE,
         val |-> EmptyConfig, pending |-> {}, next |-> "idle"]

IpcMessages ==
    [type : {"network"}, n : Nwids, c : Configs]
    \cup [type : {"member"}, n : Nwids, m : Mids, v : MemberConfigs]

(* What the base path holds when the constructor runs in mode md: the      *)
(* given objects, or, when MayStartEmpty, nothing (the first save then     *)
(* starts the worker from _recomputeSummaryInfo).  IPC mode loads nothing, *)
(* so one start is enough there.                                           *)
StartDisks(md) ==
    {[net |-> InitDiskNet, mem |-> InitDiskMem]}
    \cup (IF MayStartEmpty /\ md # "ipc" THEN {[net |-> <<>>, mem |-> <<>>]} ELSE {})

-----------------------------------------------------------------------------
(* Mutant: the startup lock is released at once in IPC mode too.           *)
InitReadyEarly ==
    /\ mode \in Modes
    /\ \E d \in StartDisks(mode) :
       LET loaded == IF mode = "ipc" THEN <<>> ELSE Load(d.net, d.mem)
       IN /\ networks = loaded
          /\ members = IndexOf(loaded)
          /\ summaryThreadToDo = DOMAIN loaded
          /\ summaryThread = (mode = "ipc" \/ DOMAIN loaded # {})
          /\ summaryThreadRun = TRUE
          /\ dataReady = (DOMAIN loaded = {})
          /\ wpc = "loop"
          /\ todo = {}
          /\ diskNet = d.net
          /\ diskMem = d.mem
          /\ lost = {}
          /\ cl = [t \in Threads |-> Idle]
          /\ inputRead = 0
          /\ inputEof = FALSE

(* JSONDB::JSONDB: the data is loaded and every loaded network scheduled;  *)
(* the worker is started if there is something to do (always in IPC mode, *)
(* where it also reads the input), else the lock is released at once.     *)
Init ==
    /\ mode \in Modes
    /\ \E d \in StartDisks(mode) :
       LET loaded == IF mode = "ipc" THEN <<>> ELSE Load(d.net, d.mem)
       IN /\ networks = loaded
          /\ members = IndexOf(loaded)
          /\ summaryThreadToDo = DOMAIN loaded
          /\ summaryThread = (mode = "ipc" \/ DOMAIN loaded # {})
          /\ summaryThreadRun = TRUE
          /\ dataReady = (mode # "ipc" /\ DOMAIN loaded = {})
          /\ wpc = "loop"
          /\ todo = {}
          /\ diskNet = d.net
          /\ diskMem = d.mem
          /\ lost = {}
          /\ cl = [t \in Threads |-> Idle]
          /\ inputRead = 0
          /\ inputEof = FALSE

-----------------------------------------------------------------------------
(* Client steps                                                            *)

Begin(t, pc, n, m, val) ==
    /\ summaryThreadRun                      \* no call after ~JSONDB
    /\ cl[t].pc = "idle"
    /\ cl' = [cl EXCEPT ![t] = [Idle EXCEPT !.pc = pc, !.n = n, !.m = m, !.val = val]]

Goto(t, pc) == cl' = [cl EXCEPT ![t].pc = pc]

ClientVars == <<networks, members, summaryThreadToDo, summaryThread>>
WorkerVars == <<mode, summaryThreadRun, dataReady, wpc, todo, inputRead, inputEof>>

(* writeRaw: the object reaches the persisted copy (a file, an HTTP PUT    *)
(* answered 200, a whole line on the output stream) or, when writeFile,    *)
(* the PUT or write() fails, the copy is left as it was.  Callers ignore   *)
(* the result and update the shadow either way; so do the callers of       *)
(* OSUtils::rm and Http::DEL.  `lost` records which objects that leaves    *)
(* behind.                                                                 *)
Outcomes == IF WritesMayFail THEN BOOLEAN ELSE {TRUE}

Persist(ok, k) == lost' = IF ok THEN lost \ {k} ELSE lost \cup {k}

WriteRaw(ok, store, k, obj) == IF ok THEN Put(store, k, obj) ELSE store

(* saveNetwork: writeRaw("network/<nwid>") comes first, unlocked.          *)
SaveNetworkWrite(t, n, c) ==
    /\ Begin(t, "saveNetwork", n, CHOOSE m \in Mids : TRUE, c)
    /\ \E ok \in Outcomes : diskNet' = WriteRaw(ok, diskNet, n, c) /\ Persist(ok, <<n>>)
    /\ UNCHANGED <<ClientVars, WorkerVars, diskMem>>

(* _networks[networkId].config = ...; under _networks_m.                   *)
SaveNetworkStore(t) ==
    LET n == cl[t].n IN
    /\ cl[t].pc = "saveNetwork"
    /\ dataReady
    /\ networks' = Put(networks, n, [NW(n) EXCEPT !.config = cl[t].val])
    /\ Goto(t, "schedule")
    /\ UNCHANGED <<members, summaryThreadToDo, summaryThread, WorkerVars, diskNet, diskMem, lost>>

(* Callers save a member only of a network they have just read (the       *)
(* controller looks the network up first); the read is not held across    *)
(* the call, so the network may be erased before the member is stored.    *)
SaveNetworkMemberWrite(t, n, m, v) ==
    /\ n \in DOMAIN networks
    /\ Begin(t, "saveMember", n, m, v)
    /\ \E ok \in Outcomes :
          diskMem' = WriteRaw(ok, diskMem, <<n, m>>, v) /\ Persist(ok, <<n, m>>)
    /\ UNCHANGED <<ClientVars, WorkerVars, diskNet>>

(* Mutant: the member is stored but no recompute is scheduled.             *)
SaveNetworkMemberStoreNoSchedule(t) ==
    LET n == cl[t].n
        m == cl[t].m
    IN /\ cl[t].pc = "saveMember"
       /\ dataReady
       /\ networks' = Put(networks, n, [NW(n) EXCEPT !.members = Put(@, m, cl[t].val)])
       /\ members' = [members EXCEPT ![m] = @ \cup {n}]
       /\ cl' = [cl EXCEPT ![t] = Idle]
       /\ UNCHANGED <<summaryThreadToDo, summaryThread, WorkerVars, diskNet, diskMem, lost>>

(* Mutant: the member map is replaced by the one saved member.            *)
SaveNetworkMemberStoreReplace(t) ==
    LET n == cl[t].n
        m == cl[t].m
    IN /\ cl[t].pc = "saveMember"
       /\ dataReady
       /\ networks' = Put(networks, n, [NW(n) EXCEPT !.members = (m :> cl[t].val)])
       /\ members' = [members EXCEPT ![m] = @ \cup {n}]
       /\ Goto(t, "schedule")
       /\ UNCHANGED <<summaryThreadToDo, summaryThread, WorkerVars, diskNet, diskMem, lost>>

SaveNetworkMemberStore(t) ==
    LET n == cl[t].n
        m == cl[t].m
    IN /\ cl[t].pc = "saveMember"
       /\ dataReady
       /\ networks' = Put(networks, n, [NW(n) EXCEPT !.members = Put(@, m, cl[t].val)])
       /\ members' = [members EXCEPT ![m] = @ \cup {n}]
       /\ Goto(t, "schedule")
       /\ UNCHANGED <<summaryThreadToDo, summaryThread, WorkerVars, diskNet, diskMem, lost>>

(* Mutant: the network is queued, but a worker not yet started stays so.   *)
RecomputeSummaryInfoNoStart(n) ==
    /\ summaryThreadToDo' = summaryThreadToDo \cup {n}
    /\ UNCHANGED summaryThread

(* _recomputeSummaryInfo: queue the network once, start the worker.        *)
RecomputeSummaryInfo(n) ==
    /\ summaryThreadToDo' = summaryThreadToDo \cup {n}
    /\ summaryThread' = TRUE

Schedule(t) ==
    /\ cl[t].pc = "schedule"
    /\ RecomputeSummaryInfo(cl[t].n)
    /\ cl' = [cl EXCEPT ![t] = Idle]
    /\ UNCHANGED <<networks, members, WorkerVars, diskNet, diskMem, lost>>

(* eraseNetworkMember: the file or HTTP DELETE first (nothing in IPC mode).*)
RemoveMemberObject(n, m) ==
    IF mode = "ipc" THEN UNCHANGED <<diskMem, lost>>
    ELSE \E ok \in Outcomes :
           /\ diskMem' = IF ok THEN Drop(diskMem, <<n, m>>) ELSE diskMem
           /\ Persist(ok, <<n, m>>)

EraseNetworkMemberRemove(t, n, m) ==
    /\ Begin(t, "eraseMember", n, m, EmptyConfig)
    /\ RemoveMemberObject(n, m)
    /\ UNCHANGED <<ClientVars, WorkerVars, diskNet>>

(* Mutant: the recomputeSummaryInfo flag is ignored.                       *)
EraseNetworkMemberStoreNoRecompute(t) ==
    LET n == cl[t].n
        m == cl[t].m
    IN /\ cl[t].pc = "eraseMember"
       /\ dataReady
       /\ members' = [members EXCEPT ![m] = @ \ {n}]
       /\ networks' = IF n \in DOMAIN networks /\ m \in DOMAIN networks[n].members
                        THEN [networks EXCEPT ![n].members = Drop(@, m)]
                        ELSE networks
       /\ Goto(t, cl[t].next)
       /\ UNCHANGED <<summaryThreadToDo, summaryThread, WorkerVars, diskNet, diskMem, lost>>

(* Mutant: the _members index entry is left behind.                        *)
EraseNetworkMemberStoreKeepIndex(t) ==
    LET n == cl[t].n
        m == cl[t].m
        present == n \in DOMAIN networks /\ m \in DOMAIN networks[n].members
    IN /\ cl[t].pc = "eraseMember"
       /\ dataReady
       /\ networks' = IF present
                        THEN [networks EXCEPT ![n].members = Drop(@, m)]
                        ELSE networks
       /\ IF present /\ cl[t].next = "idle"
            THEN RecomputeSummaryInfo(n)
            ELSE UNCHANGED <<summaryThreadToDo, summaryThread>>
       /\ Goto(t, cl[t].next)
       /\ UNCHANGED <<members, WorkerVars, diskNet, diskMem, lost>>

(* Under _networks_m: the index entry goes first, then the early returns,  *)
(* then the erase and, if asked for, _recomputeSummaryInfo.  The caller    *)
(* is the API (next = "idle", recompute) or eraseNetwork (no recompute).   *)
EraseNetworkMemberStore(t) ==
    LET n == cl[t].n
        m == cl[t].m
        recompute == cl[t].next = "idle"
        present == n \in DOMAIN networks /\ m \in DOMAIN networks[n].members
    IN /\ cl[t].pc = "eraseMember"
       /\ dataReady
       /\ members' = [members EXCEPT ![m] = @ \ {n}]
       /\ networks' = IF present
                        THEN [networks EXCEPT ![n].members = Drop(@, m)]
                        ELSE networks
       /\ IF present /\ recompute
            THEN RecomputeSummaryInfo(n)
            ELSE UNCHANGED <<summaryThreadToDo, summaryThread>>
       /\ Goto(t, cl[t].next)
       /\ UNCHANGED <<WorkerVars, diskNet, diskMem, lost>>

(* Mutant: members are not cascaded in any mode.                           *)
EraseNetworkBeginNoCascade(t, n) ==
    /\ summaryThreadRun
    /\ cl[t].pc = "idle"
    /\ mode # "http" => dataReady
    /\ IF mode # "http" /\ n \notin DOMAIN networks
         THEN cl' = [cl EXCEPT ![t] = Idle]
         ELSE cl' = [cl EXCEPT ![t] = [Idle EXCEPT !.pc = "eraseNetMembers", !.n = n]]
    /\ UNCHANGED <<ClientVars, WorkerVars, diskNet, diskMem, lost>>

(* eraseNetwork: outside HTTP mode, collect the member ids under the lock  *)
(* (returning at once if the network is absent) and erase each one; in    *)
(* HTTP mode the harness cascades, so go straight to the DELETE.           *)
EraseNetworkBegin(t, n) ==
    /\ summaryThreadRun
    /\ cl[t].pc = "idle"
    /\ mode # "http" => dataReady
    /\ IF mode # "http" /\ n \notin DOMAIN networks
         THEN cl' = [cl EXCEPT ![t] = Idle]
         ELSE cl' = [cl EXCEPT ![t] = [Idle EXCEPT
                        !.pc = "eraseNetMembers", !.n = n,
                        !.pending = IF mode = "http" THEN {} ELSE DOMAIN networks[n].members]]
    /\ UNCHANGED <<ClientVars, WorkerVars, diskNet, diskMem, lost>>

EraseNetworkNextMember(t) ==
    /\ cl[t].pc = "eraseNetMembers"
    /\ \E m \in cl[t].pending :
          /\ RemoveMemberObject(cl[t].n, m)
          /\ cl' = [cl EXCEPT ![t].pc = "eraseMember", ![t].m = m,
                              ![t].pending = @ \ {m}, ![t].next = "eraseNetMembers"]
    /\ UNCHANGED <<ClientVars, WorkerVars, diskNet>>

(* The network object: removed from disk in FS mode, DELETEd in HTTP mode  *)
(* (the harness deletes its members with it), left alone in IPC mode.     *)
EraseNetworkRemove(t) ==
    LET n == cl[t].n IN
    /\ cl[t].pc = "eraseNetMembers"
    /\ cl[t].pending = {}
    /\ IF mode = "ipc" THEN UNCHANGED <<diskNet, diskMem, lost>>
       ELSE \E ok \in Outcomes :
              /\ diskNet' = IF ok THEN Drop(diskNet, n) ELSE diskNet
              /\ diskMem' = IF ok /\ mode = "http"
                              THEN Restrict(diskMem, {k \in DOMAIN diskMem : k[1] # n})
                              ELSE diskMem
              /\ Persist(ok, <<n>>)
    /\ Goto(t, "eraseNetStore")
    /\ UNCHANGED <<ClientVars, WorkerVars>>

EraseNetworkStore(t) ==
    /\ cl[t].pc = "eraseNetStore"
    /\ dataReady
    /\ networks' = Drop(networks, cl[t].n)
    /\ cl' = [cl EXCEPT ![t] = Idle]
    /\ UNCHANGED <<members, summaryThreadToDo, summaryThread, WorkerVars, diskNet, diskMem, lost>>

-----------------------------------------------------------------------------
(* Worker thread: JSONDB::threadMain                                       *)

(* IPC mode: a complete message read from the input releases the gate on  *)
(* the first one and is applied by _add (which never schedules a          *)
(* recompute).                                                             *)
IpcRead(msg) ==
    LET n == msg.n IN
    /\ mode = "ipc"
    /\ summaryThread /\ summaryThreadRun /\ wpc = "loop"
    /\ ~inputEof
    /\ inputRead < MaxInput
    /\ inputRead' = inputRead + 1
    /\ dataReady' = TRUE
    /\ IF msg.type = "network"
         THEN /\ networks' = Put(networks, n, [NW(n) EXCEPT !.config = msg.c])
              /\ UNCHANGED members
         ELSE /\ networks' = Put(networks, n, [NW(n) EXCEPT !.members = Put(@, msg.m, msg.v)])
              /\ members' = [members EXCEPT ![msg.m] = @ \cup {n}]
    /\ UNCHANGED <<mode, summaryThreadToDo, summaryThread, summaryThreadRun, wpc, todo,
                   diskNet, diskMem, lost, cl, inputEof>>

(* The writer of the IPC input closes it (the harness exits or closes the *)
(* pipe).                                                                  *)
IpcEof ==
    /\ mode = "ipc"
    /\ ~inputEof
    /\ inputEof' = TRUE
    /\ UNCHANGED <<mode, networks, members, summaryThreadToDo, summaryThread, summaryThreadRun,
                   dataReady, wpc, todo, inputRead, diskNet, diskMem, lost, cl>>

(* Swap the to-do vector out under _summaryThread_m; release the startup   *)
(* lock if the data was not yet ready.  In IPC mode the loop gets here     *)
(* only when select() times out or a whole message was read.  At the end  *)
(* of the input, select() reports it readable at once and read() returns  *)
(* 0, so no message is got and the loop goes back to select().            *)
WorkerSwap ==
    /\ summaryThread /\ summaryThreadRun /\ wpc = "loop"
    /\ mode = "ipc" => ~inputEof
    /\ summaryThreadToDo # {}
    /\ todo' = summaryThreadToDo
    /\ summaryThreadToDo' = {}
    /\ dataReady' = TRUE
    /\ wpc' = "compute"
    /\ UNCHANGED <<mode, networks, members, summaryThread, summaryThreadRun, inputRead, inputEof,
                   diskNet, diskMem, lost, cl>>

(* The loop at the end of the IPC input: select() returns at once, read() *)
(* returns 0, `continue`; nothing changes.                                *)
WorkerSpin ==
    /\ mode = "ipc" /\ inputEof
    /\ summaryThread /\ summaryThreadRun /\ wpc = "loop"
    /\ UNCHANGED vars

(* Recompute the summary of every network of todo that still exists, all   *)
(* under _networks_m.                                                      *)
WorkerCompute ==
    /\ wpc = "compute"
    /\ dataReady
    /\ networks' = [n \in DOMAIN networks |->
                      IF n \in todo
                        THEN [networks[n] EXCEPT !.summaryInfo = Summarize(networks[n].members)]
                        ELSE networks[n]]
    /\ todo' = {}
    /\ wpc' = "loop"
    /\ UNCHANGED <<mode, members, summaryThreadToDo, summaryThread, summaryThreadRun, dataReady,
                   inputRead, inputEof, diskNet, diskMem, lost, cl>>

(* ~JSONDB: stop the worker (callers have returned) and join it.           *)
Shutdown ==
    /\ summaryThreadRun
    /\ \A t \in Threads : cl[t].pc = "idle"
    /\ summaryThreadRun' = FALSE
    /\ UNCHANGED <<mode, networks, members, summaryThreadToDo, summaryThread, dataReady, wpc,
                   todo, inputRead, inputEof, diskNet, diskMem, lost, cl>>

WorkerExit ==
    /\ summaryThread /\ ~summaryThreadRun /\ wpc = "loop"
    /\ wpc' = "exited"
    /\ UNCHANGED <<mode, networks, members, summaryThreadToDo, summaryThread, summaryThreadRun,
                   dataReady, todo, inputRead, inputEof, diskNet, diskMem, lost, cl>>

(* The store has been destroyed and its worker joined.                     *)
Terminated ==
    /\ ~summaryThreadRun
    /\ wpc = "exited" \/ ~summaryThread
    /\ UNCHANGED vars

-----------------------------------------------------------------------------
ClientStep(t) ==
    \/ \E n \in Nwids, c \in Configs : SaveNetworkWrite(t, n, c)
    \/ SaveNetworkStore(t)
    \/ \E n \in Nwids, m \in Mids, v \in MemberConfigs : SaveNetworkMemberWrite(t, n, m, v)
    \/ SaveNetworkMemberStore(t)
    \/ Schedule(t)
    \/ \E n \in Nwids, m \in Mids : EraseNetworkMemberRemove(t, n, m)
    \/ EraseNetworkMemberStore(t)
    \/ \E n \in Nwids : EraseNetworkBegin(t, n)
    \/ EraseNetworkNextMember(t)
    \/ EraseNetworkRemove(t)
    \/ EraseNetworkStore(t)

WorkerStep ==
    \/ \E msg \in IpcMessages : IpcRead(msg)
    \/ IpcEof
    \/ WorkerSpin
    \/ WorkerSwap
    \/ WorkerCompute
    \/ WorkerExit

Next ==
    \/ \E t \in Threads : ClientStep(t)
    \/ WorkerStep
    \/ Shutdown
    \/ Terminated

(* A call in progress runs to its end, and the worker thread, which only   *)
(* sleeps 25 ms between iterations, keeps running: both are weakly fair.   *)
(* Starting a call is up to the caller and is not fair.                    *)
InCall(t) ==
    \/ SaveNetworkStore(t) \/ SaveNetworkMemberStore(t) \/ Schedule(t)
    \/ EraseNetworkMemberStore(t) \/ EraseNetworkNextMember(t)
    \/ EraseNetworkRemove(t) \/ EraseNetworkStore(t)

Fairness ==
    /\ \A t \in Threads : WF_vars(InCall(t))
    /\ WF_vars(WorkerSwap \/ WorkerCompute \/ WorkerExit)

Spec == Init /\ [][Next]_vars /\ Fairness

-----------------------------------------------------------------------------
(* Properties                                                              *)

TypeOK ==
    /\ DOMAIN networks \subseteq Nwids
    /\ \A n \in DOMAIN networks :
          /\ networks[n].config \in Configs \cup {EmptyConfig}
          /\ DOMAIN networks[n].members \subseteq Mids
          /\ \A m \in DOMAIN networks[n].members : networks[n].members[m] \in MemberConfigs
          /\ networks[n].summaryInfo.totalMemberCount \in 0..Cardinality(Mids)
          /\ networks[n].summaryInfo.authorizedMemberCount
                \in 0..networks[n].summaryInfo.totalMemberCount
    /\ members \in [Mids -> SUBSET Nwids]
    /\ summaryThreadToDo \subseteq Nwids /\ todo \subseteq Nwids
    /\ wpc \in {"loop", "compute", "exited"}
    /\ \A t \in Threads : cl[t].pending \subseteq Mids
    /\ inputRead \in 0..MaxInput /\ inputEof \in BOOLEAN
    /\ lost \subseteq {<<n>> : n \in Nwids} \cup (Nwids \X Mids)

(* A recompute of network n is owed: queued, taken by the worker, about to *)
(* be queued by a client, or n is being erased.                            *)
Pending(n) ==
    \/ n \in summaryThreadToDo
    \/ n \in todo
    \/ \E t \in Threads :
          /\ cl[t].n = n
          /\ \/ cl[t].pc \in {"schedule", "eraseNetMembers", "eraseNetStore"}
             \/ cl[t].pc = "eraseMember" /\ cl[t].next = "eraseNetMembers"

Stale(n) == networks[n].summaryInfo # Summarize(networks[n].members)

(* Summary recoverability (threadMain, _recomputeSummaryInfo): the summary *)
(* of every network equals the one computed afresh from its members,      *)
(* unless a recompute of that network is still owed.  Every change to a   *)
(* member map must therefore be followed by a scheduled recompute.        *)
SummaryConsistent ==
    \A n \in DOMAIN networks : ~Pending(n) => ~Stale(n)

(* A summary that is out of date is eventually recomputed (or its network *)
(* erased, or the store destroyed): the worker is started when needed and *)
(* the startup lock does not keep it from computing. Not claimed in IPC   *)
(* mode, where _add never schedules a recompute (SummaryConsistent fails  *)
(* there at once).                                                        *)
StaleSummaryEventuallyRecomputed ==
    \A n \in Nwids :
        (mode # "ipc" /\ n \in DOMAIN networks /\ Stale(n))
            ~> (n \notin DOMAIN networks \/ ~Stale(n) \/ ~summaryThreadRun)

(* Every recompute a call schedules is taken by the worker (unless the     *)
(* store is destroyed): the spec's summaries are "recomputed on-demand by  *)
(* a background worker after any mutation", in every mode.                *)
ScheduledRecomputeTaken ==
    \A n \in Nwids :
        n \in summaryThreadToDo ~> (n \notin summaryThreadToDo \/ ~summaryThreadRun)

(* The reverse index _members names exactly the networks whose member map *)
(* holds the member: saveNetworkMember, eraseNetworkMember, eraseNetwork   *)
(* keep the two maps in step.  Not claimed in IPC mode, where _add applies *)
(* input-stream records beside the calls of the clients.                  *)
MembersIndexConsistent == mode # "ipc" => members = IndexOf(networks)

(* With no call in progress, reloading the persisted objects (_load) gives *)
(* back the shadow except where a failed write or removal left its object  *)
(* behind: every member object whose last write or removal succeeded is   *)
(* reloaded as the shadow holds it, and every network none of whose       *)
(* objects was lost is reloaded (or absent) with the shadow's config and   *)
(* members.  A failure stays confined to its object, and the next          *)
(* successful write of the object repairs it.  This is a filesystem-mode   *)
(* property: in IPC mode the dataset is read from the input stream, never  *)
(* from what was written.                                                  *)
Shadow(nws) == [n \in DOMAIN nws |-> [config |-> nws[n].config, members |-> nws[n].members]]

MembersOf(s, n) == IF n \in DOMAIN s THEN s[n].members ELSE <<>>

LostNetworks == {k[1] : k \in lost}

DiskMatchesMemory ==
    mode = "fs" /\ (\A t \in Threads : cl[t].pc = "idle")
        => LET reloaded == Shadow(Load(diskNet, diskMem))
               shadow == Shadow(networks)
           IN /\ \A n \in Nwids \ LostNetworks :
                    /\ n \in DOMAIN reloaded <=> n \in DOMAIN shadow
                    /\ n \in DOMAIN shadow => reloaded[n] = shadow[n]
              /\ \A n \in Nwids, m \in Mids : <<n, m>> \notin lost =>
                    LET r == MembersOf(reloaded, n)
                        v == MembersOf(shadow, n)
                    IN /\ m \in DOMAIN r <=> m \in DOMAIN v
                       /\ m \in DOMAIN v => r[m] = v[m]

(* The shadow, as readers see it through getNetwork and getNetworkMember, *)
(* changes only as JSONDBStore allows: each save or erase takes effect in  *)
(* one step under _networks_m, a member saved into a network erased in the *)
(* meantime re-creates it with an empty config, and eraseNetwork's member  *)
(* erasures are erasures of single members.  The summary and the persisted *)
(* copy are not part of the mapping.                                       *)
AbstractStore == INSTANCE JSONDBStore WITH
    store <- Shadow(networks),
    InitStore <- Shadow(Load(InitDiskNet, InitDiskMem))

ImplementsStore == AbstractStore!Spec

(* In IPC mode the startup lock is released only by the first message read *)
(* from the input: no reader sees the store before the dataset arrives.    *)
ReadyOnlyAfterInput ==
    mode = "ipc" /\ dataReady => inputRead > 0

=============================================================================
