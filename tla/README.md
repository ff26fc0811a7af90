# TLA+ models of the ZeroTier node runtime and controller store

This directory holds TLA+ models of the sources under `src/`. TLC checks them.
Every module translates the code, not the prose of `spec.md`. The one exception is
an operator marked `spec_modelled` in `PROJECT.json`: its code is not in this
repository, so it is modelled from the spec. `PROJECT.json` maps each definition
to the source lines it models. It also lists every run, mutant, finding and hazard.

## 1. Inventory

### The sources

| File | What it is |
|------|------------|
| `src/node/Node.cpp` | The node runtime (`Node`) and its C API bindings. |
| `src/node/RuntimeEnvironment.hpp` | The bundle of pointers to the node's subcomponents, plus the identity strings. |
| `src/node/CertificateOfMembership.hpp` | The certificate of membership (COM): its qualifiers and binary (de)serialisation. |
| `src/controller/JSONDB.cpp` | The controller's store of networks and members, with a derived per-network summary. |

`Switch`, `Topology`, `Peer`, `Path`, `Network`, `Multicaster`, `SelfAwareness`,
`Trace`, `Mutex`, `Identity` and the controller itself (`EmbeddedNetworkController`)
are not in this repository. The models treat them as the environment.

### Components, their state and operations

**A. Controller store: `JSONDB`** (`JSONDB.cpp`)
- *State:*
  - `_networks`: nwid → {config as msgpack, members: mid → msgpack, summaryInfo}.
  - `_members`: a reverse index, mid → set of nwids.
  - `_summaryThreadToDo`: the networks waiting for a summary recompute.
  - The worker thread, `_summaryThreadRun` and `_dataReady`.
  - The persisted copy, in one of three modes: files under `controller.d`, an HTTP
    harness reached by PUT/DELETE, or newline-delimited JSON on stdin/stdout (IPC).
- *Operations:*
  - The constructor: loads the data, then holds `_networks_m` until the data is ready.
  - `saveNetwork`, `saveNetworkMember`, `eraseNetwork`, `eraseNetworkMember`.
  - Reads: `hasNetwork`, `getNetwork`, `getNetworkMember`, `getNetworkAndMember`
    and `getNetworkSummaryInfo`.
  - The worker `threadMain`. It swaps out the to-do set and recomputes summaries. In
    IPC mode it also reads input records and applies them with `_add`.
  - The destructor.
- *Interaction:*
  - Client threads (the controller) call the store concurrently with the worker.
  - Each mutating call has three steps, and other threads can act between any two:
    1. the persisted write, which holds no lock;
    2. the shadow update, under `_networks_m`;
    3. the scheduling of a recompute, under `_summaryThread_m`.
- *What makes it correct:*
  - A summary can always be recomputed from the members, unless a recompute is owed.
  - A stale summary is eventually recomputed.
  - The `_members` index matches the member maps.
  - A restart that reloads the persisted copy rebuilds the shadow.
  - The readiness lock opens only when the data has arrived.

**B. Node network membership** (`Node::join`, `leave`, `processVirtualNetworkFrame`,
`multicastSubscribe`/`Unsubscribe`, `networkConfig`, `networks`,
`shouldUsePathForZeroTierTraffic`)
- *State:*
  - `_networks`: nwid → `Network`, guarded by `_networks_m`.
  - The host's tap ports, which it learns about through `virtualNetworkConfig`
    callbacks.
  - The persisted `NETWORK_CONFIG` objects.
- *Interaction:*
  - `join` is idempotent.
  - `leave` takes three steps. It destroys the network under the lock. It releases
    the lock and calls the host with `CONFIG_DESTROY`. Then it re-takes the lock,
    erases the network, and deletes the persisted config.
- *What makes it correct:*
  - One `CONFIG_DESTROY` per destroyed network.
  - No membership survives a completed `leave`.
  - No persisted config is deleted out from under a newer join.

**C. Node background tasks** (`processBackgroundTasks`, `_PingPeersThatNeedPing`)
- *State:*
  - `_lastPingCheck`, `_lastHousekeepingRun`, `_online`.
  - `_now`, which every entry point writes without a lock.
  - The peers' last-receive times (owned by `Peer`, which is not in `src/`).
- *Interaction:*
  - Each tick is serialised by `_backgroundTasksLock`.
  - A tick collects the networks that need config under `_networks_m` and requests
    the config after releasing the lock.
  - It pings upstreams on both address families and WHOISes the upstreams that have
    no peer.
  - It computes `_online` with unsigned arithmetic, runs housekeeping, and computes
    the next deadline.
- *What makes it correct:*
  - ONLINE/OFFLINE is posted exactly once per transition (not a property: the
    code writes both from the same value in one step).
  - The node is online when an upstream was heard within the timeout.
  - Ping checks are spaced by the interval (not checked: it fails with concurrent
    ticks, which the spec allows; see section 5).
  - The deadline is at least `now + TIMER_GRANULARITY` (the model checks an upper
    bound on it instead, `PingCheckTimely`).

**D. Node construction and identity persistence** (the `Node` constructor and
destructor, `RuntimeEnvironment`)
- *State:*
  - The `IDENTITY_SECRET` and `IDENTITY_PUBLIC` state objects.
  - The subcomponent pointers.
- *Hard parts:*
  - A crash between the two puts.
  - A subcomponent constructor that throws, after which the handler deletes the
    pointer `t`, which was never initialised.

**E. Embedded controller hooks** (`ncSendConfig`, `ncSendRevocation`, `ncSendError`)
- These route to the local network, or they chunk, sign and send packets.
- *Hard parts:*
  - Chunk coverage and the non-zero `configUpdateId`.
  - Error-code mapping.
  - Dropping an error for `requestPacketId == 0`.
  - `prng()` is called without a lock.

**F. Certificate of membership** (`CertificateOfMembership.hpp`)
- *State:* up to 8 qualifiers `(id, value, maxDelta)`, `_signedBy` and `_signature`.
- *Operations:*
  - The constructor from the required fields.
  - `serialize` and `deserialize`.
  - `operator==`.
  - The `timestamp`, `issuedTo` and `networkId` lookups.
  - `agreesWith`, `sign`, `verify` and `setQualifier` are declared here, but their
    bodies are not in `src/`.
- *Hard parts:*
  - The ordering check on decode.
  - The overflow at 8 qualifiers.
  - The partial state left behind when a decode fails.

**G. Small node operations**
- `addLocalInterfaceAddress` and `clearLocalInterfaceAddresses` (a set insert under
  `_directPaths_m`).
- `prng` (xorshift128+).
- `sendUserMessage`, `status`, `peers`, `address`.
- `setTrustedPaths`, `orbit`, `deorbit` and `setNetconfMaster` (these only forward).
- The C API bindings, which map exceptions to result codes (`ZT_Node_new` and `ZT_Node_delete` are modelled in `NodeConstruction`).

### Behaviours that are hard to test

These are listed at their lines under `hazards` in `PROJECT.json`. The main ones:
- Calls whose lock sections are split: `JSONDB` saves and erases, `Node::leave`, and
  the background tick's collection of networks that need config.
- A worker thread that swaps out work and processes it later.
- A lock taken by one thread and released by another: the JSONDB readiness lock.
- Unsigned time arithmetic fed by timestamps from several host threads.
- Crashes between related persisted writes.
- Exceptions in the middle of a construction or a decode.

## 2. Plan

The modules, in order. The most important concurrent behaviour comes first.

1. **`JSONDB`** (done). The store with client threads, the worker, the IPC reader,
   the startup lock and the destructor.
2. **`NodeNetworks`** (done). `join`, `leave` (in its three steps), frames,
   multicast, and the tick's collection of networks that need config, with
   concurrent host threads. See section 4.
3. **`NodeBackground`** (done, section 5). `processBackgroundTasks` with `_PingPeersThatNeedPing`,
   with concurrent `processWirePacket` calls that update peer receive times. Time is
   a bounded natural number, and the code's unsigned subtraction is modelled modulo
   a named constant. Properties:
   - the node is online when an upstream was heard recently;
   - the deadline never lies more than the granularity past the next ping check
     (an upper bound; the granularity floor itself is not a property).
4. **`COM`** (done, section 6). `serialize` and `deserialize` as operators, with
   the qualifier loop RECURSIVE, and a sender, a forging peer and a receiver.
5. **`NodeConstruction`** (done, section 7). The constructor's identity
   load/generate/persist, with crashes between puts, and sub-construction failure
   with its cleanup.
6. **`NodeControllerHooks`** (done, section 8). `ncSendConfig` chunking, `ncSendError`
   routing and mapping, and `ncSendRevocation`, with the unlocked `prng()`.
7. **Abstract specifications and refinement**:
   - `NodeLifecycle` (done, section 7): `NodeConstruction` implements it.
   - `JSONDBStore` (done, section 3): the store as readers see it, changed by whole
     operations. `JSONDB` implements it under `store <- Shadow(networks)`.
   - `NodeNetworksAbstract`: atomic join and leave (not done yet).
   Each is checked as a `PROPERTY` through `INSTANCE ... WITH`.

## 3. The `JSONDB` model

### State

| Variable | Code |
|----------|------|
| `networks` | `_networks`. The config is a model value (`EmptyConfig` when `operator[]` created the entry). A member is a record of the fields the summary reads. |
| `members` | `_members` |
| `summaryThreadToDo`, `todo` | `_summaryThreadToDo` and the worker's local vector. The code removes duplicates, so both are sets. |
| `summaryThread`, `summaryThreadRun`, `wpc` | The worker thread: whether it has started, its run flag, and where it is in its loop. |
| `dataReady` | `_dataReady`. While it is FALSE the constructor holds `_networks_m`, so every step that locks `_networks_m` is guarded by it. |
| `diskNet`, `diskMem` | The persisted copy: files, the HTTP harness, or what was written to the IPC output. |
| `lost` | History: the objects whose last `writeRaw`, `OSUtils::rm` or `Http::DEL` failed. |
| `cl` | Each client thread's call in progress: its program counter and arguments. |
| `inputRead` | The number of IPC records read, bounded by `MaxInput`. |
| `inputEof` | Whether the writer of the IPC input has closed it. |
| `mode` | The storage mode `basePath` selects in the constructor (`"fs"`, `"http"`, `"ipc"`). It is chosen from the constant set `Modes` in `Init` and never changes, so one run can cover several modes. |

### Actions

Each client call is one action per lock section:
- `saveNetwork`: `SaveNetworkWrite`, then `SaveNetworkStore`, then `Schedule`.
- `saveNetworkMember`: `SaveNetworkMemberWrite`, then `SaveNetworkMemberStore`, then
  `Schedule`.
- `eraseNetworkMember`: `EraseNetworkMemberRemove`, then `EraseNetworkMemberStore`.
  The recompute is queued inside the locked section, as in the code.
- `eraseNetwork`: `EraseNetworkBegin` takes the member snapshot under the lock. Then
  `EraseNetworkNextMember` and `EraseNetworkMemberStore` run once per member, then
  `EraseNetworkRemove` and `EraseNetworkStore`. In HTTP mode the member loop is
  skipped and the DELETE cascades in the harness.

The worker's actions:
- `IpcRead`, in IPC mode: one complete record is applied with `_add`, and the first
  one releases the lock.
- `WorkerSwap`: the to-do set is swapped out, and the lock is released if the data
  was not ready.
- `WorkerCompute`: under the lock.
- `WorkerExit`.
- `IpcEof`: the process feeding the IPC input closes it. After that `IpcRead` is
  disabled, and `WorkerSwap` is too: at end of input `select()` reports the
  descriptor readable and `read()` returns 0, so the loop `continue`s before the
  swap. `WorkerSpin` is that busy loop, a step that changes nothing.

`Shutdown` is the destructor. `Terminated` is the stopped store.

### Abstractions

- `Summarize` keeps `authorizedMemberCount`, `totalMemberCount`, `activeBridges` (a
  set, where the code keeps a sorted vector) and `mostRecentDeauthTime`. It leaves
  out `activeMemberCount`, which depends on the worker's wall clock, and
  `allocatedIps`, which depends on IP parsing.
- The startup load is one atomic step. See the deadlock hazard at `JSONDB.cpp:463`.
- The base path holds network `n1` with member `m1` at startup. With
  `MayStartEmpty` (the sequential run) it may also hold nothing in filesystem
  mode. Then the constructor releases the lock without starting the worker, and
  the first save starts it from `_recomputeSummaryInfo` (`JSONDB.cpp:536`).
- A client saves a member only of a network it has just read, as the controller
  does. The read is not held across the call.
- Writes and removals of persisted objects may fail when `WritesMayFail` is `TRUE`
  (the sequential run). A failed one leaves the persisted copy as it was, and the
  caller updates the shadow anyway: `writeRaw`'s result and the removal results
  are ignored. The concurrent runs keep writes succeeding to bound their size.

### The abstract specification

`JSONDBStore` is what the store promises a reader of `getNetwork` and
`getNetworkMember`. Its one variable `store` maps a network id to a config and a
member map. It changes only by a whole operation: save a network, save a member
(which creates an absent network with `EmptyConfig`, as `operator[]` does), erase a
member, or erase a network. It starts as the data loaded from disk, or empty in IPC
mode. The mapping is `store <- Shadow(networks)`, which forgets the summary, the
scheduling flags, the index and the disk. `ImplementsStore` checks that every step
of `JSONDB` is a step of `JSONDBStore` or leaves the shadow unchanged. Each member
erasure inside `eraseNetwork` is an `EraseMember` step, and an IPC record is a
save. The mutant `SaveNetworkMemberStoreReplace` replaces the member map with the
one saved member, and breaks the property. The property is checked in
`jsondb_sequential`: in `jsondb_concurrent` it doubles the run to over three
minutes.

### Fairness

- A call in progress (`InCall`) is weakly fair: a thread inside a store call
  finishes it.
- The worker is weakly fair on `WorkerSwap`, `WorkerCompute` and `WorkerExit`. It only sleeps 25 ms per iteration. `WorkerSpin` is a stuttering step and needs no fairness; `IpcEof` is not fair, because the writer decides when it closes.
- Starting a call and reading IPC input are not fair: the host decides when they
  happen.

### Runs

All runs use one network `n1`, which is persisted at startup with config `c1` and
one authorized bridge member `m1`. There are two member records: authorized with a
bridge, and deauthorized at time 5. One or two client threads run beside the worker.
With one network and two members, every order of save, erase and recompute of the
same network happens, and the member-map and index properties can see a member that
survives or disappears.

| Run | Expect | What it shows |
|-----|--------|---------------|
| `jsondb_concurrent` | pass | Filesystem or HTTP mode, two clients and the worker, two member ids: `TypeOK` and `SummaryConsistent` hold (3.2M states, about 2 minutes). Liveness is not checked here: with two clients the temporal check takes longer than the run allows. |
| `jsondb_sequential` | pass | One client, in filesystem and IPC mode (the mode is chosen in the initial state), a base path that may start empty, and writes and removals that may fail: the `_members` index stays consistent; reloading from disk gives back the shadow in every network that no failed write or removal touched (`DiskMatchesMemory`); in IPC mode the readiness lock opens only on the first input record; in filesystem mode a stale summary is eventually recomputed (`StaleSummaryEventuallyRecomputed`; IPC mode is excluded, see below); and the shadow implements `JSONDBStore` (`ImplementsStore`). `MaxInput` is 1 here. About 540,000 states in about a minute. |
| `jsondb_ipc_eof` | violation | IPC mode with an input its writer closes: a recompute that a client save schedules is never taken (`ScheduledRecomputeTaken`), because after end of input the worker spins in `select()`/`read()` and never reaches the swap (`JSONDB.cpp:357`). |

The violation is recorded as a finding in `PROJECT.json`. Four more observations are kept as hazard notes instead of runs. With `Modes = {"ipc"}`, TLC finds `SummaryConsistent` violated: a record applied from the IPC input (`_add`) never schedules a summary recompute, which is also why the liveness property excludes IPC mode. With `Threads = {t1, t2}` in filesystem mode, TLC finds `DiskMatchesMemory` violated, because `saveNetworkMember` writes the file outside the lock that updates the shadow. And with `Modes = {"http"}`, TLC finds `MembersIndexConsistent` violated after one `eraseNetwork`, because in HTTP mode the code leaves member deletion to the harness and never updates `_members`. With `Threads = {t1, t2}` in filesystem mode, a member saved while another client runs `eraseNetwork` stays in `_members` (and on disk) for an erased network. Finally, in IPC mode the constructor locks `_networks_m` and the worker thread unlocks it (`JSONDB.cpp:343`), which is undefined for `std::mutex`; the model treats the lock as a flag, and `ReadyOnlyAfterInput` checks that only the first record opens it.

## 4. The `NodeNetworks` model

`NodeNetworks.tla` models the network membership part of `src/node/Node.cpp`.
`MC_NodeNetworks.tla` instantiates it.

### State

| Variable | Code |
|----------|------|
| `nets` | `Node::_networks`, nwid to `SharedPtr<Network>`, guarded by `_networks_m` |
| `objs` | every `Network` object created so far: its nwid, whether `destroy()` was called, and its config state (`none`, `fresh`, or `aged` past `ZT_NETWORK_AUTOCONF_DELAY`) |
| `persisted` | the nwids with a `NETWORK_CONFIG` state object at the host |
| `destroyCount` | the `CONFIG_DESTROY` callbacks posted for each object |
| `requested` | the objects on which `requestConfiguration` was called and not yet answered |
| `cl`, `bg`, `needConfig` | the call in progress on each host thread; the background tick's step and its local `needConfig` vector |

A `Network` object is a model value from `Objs`, so a rejoin creates a new object.
This lets the properties tell the old membership from the new one.

### Actions

- **`join`** is one step under the lock. It creates a `Network` only if the map
  slot is empty.
- **`leave`** has four steps, as the code does:
  1. `leaveDestroy`: look up, `destroy()`, under the lock;
  2. `leaveNotify`: the unlocked `CONFIG_DESTROY` callback;
  3. `leaveErase`: `_networks.erase(nwid)` under the lock again, by id;
  4. `leaveDelete`: `stateObjectDelete(NETWORK_CONFIG)`, unlocked.
- **`lookup` / `frameDeliver` / `multicastApply`**: `processVirtualNetworkFrame`
  and `multicastSubscribe`/`Unsubscribe`. Each takes the `SharedPtr` under the lock,
  then uses it after the lock is released. `NETWORK_NOT_FOUND` changes nothing.
- **`collectNeedConfig` / `requestConfiguration`**: the ping-check branch of
  `processBackgroundTasks`. It collects, under the lock, the networks with no config
  or an aged one. It then calls `requestConfiguration` on each of them, unlocked.
- **Environment** (`Network` is not under `src/`):
  - `configArrives`: the controller answers a request; the config is stored and
    persisted.
  - `configAges`: the config ages past the autoconf delay.

### Fairness

- A call in progress is weakly fair.
- The tick is weakly fair, because the host calls `processBackgroundTasks` by the
  deadline it returns.
- Host calls and controller answers are not fair.

### Runs

The runs use one network id, two Network objects in the violation runs and three in
the pass run. That allows join, leave, rejoin, leave and rejoin, and one data thread.

| Run | Expect | What it shows |
|-----|--------|---------------|
| `nodenet_one_control` | pass | `join` and `leave` come from one host thread, as the service's control API does. Every network dropped from the map was destroyed and announced (`ErasedNetworksWereDestroyed`). Every network that needs config is eventually asked to request it. |
| `nodenet_erase_other` | violation | Two host threads: thread A leaves; B leaves the same network and rejoins; A's `erase(nwid)` then removes B's new membership. That `Network` is never destroyed, and the host is never told. |

Properties about the unlocked windows of `leave()` mean something only with two
control threads, and with two they fail. A `join` between another thread's erase
and its `stateObjectDelete` keeps the membership but loses its persisted config,
through the same window as `nodenet_erase_other`; the hazard at `Node.cpp:348`
records it, and no pass run claims it.

Two more races are recorded as hazards in `PROJECT.json` and are not checked by
runs:
- **Double `CONFIG_DESTROY`.** With two threads calling `leave`, both leaves destroy
  the same object and each posts `CONFIG_DESTROY`.
- **Frames and config requests reaching a destroyed `Network`.** The
  lookup-then-use window is modelled, but whether that reach does harm is decided
  in `Switch` and `Network`, which are not in `src/`.

## 5. The `NodeBackground` model

`NodeBackground.tla` models `Node::processBackgroundTasks` and the part of
`_PingPeersThatNeedPing` that feeds the online status (`src/node/Node.cpp`
175-310), with `processWirePacket` on other host threads.
`MC_NodeBackground.tla` instantiates it.

### State

| Variable | Code |
|----------|------|
| `clock` | The host's clock, the `now` it passes to every call. It starts at `StartTime` and is bounded by `MaxTime`. |
| `lastPingCheck`, `lastHousekeepingRun` | `_lastPingCheck`, `_lastHousekeepingRun`, 0 after construction |
| `online`, `lastEvent` | `_online` and the last `ZT_EVENT_ONLINE`/`OFFLINE` posted |
| `lastReceive` | `Peer::lastReceive()` of each upstream, set by `processWirePacket` |
| `deadline` | `*nextBackgroundTaskDeadline` |
| `lockHolder` | `_backgroundTasksLock` |
| `tk` | Each host thread's tick in progress: its step, its `now` and its `timeUntilNextPingCheck` |
| `upstreamRecent` | A history variable: whether, at the tick's `now`, some upstream had been heard within the activity timeout |

### Time

`uint64_t` subtraction is `Diff(a, b) == (a - b) % TimeModulus`. `TimeModulus` is
larger than any time the run reaches, so a difference wraps only when its first
argument is the smaller one, as in the code. A tick takes `now` before it takes the
lock (`callTick`), and the clock goes on while it waits or runs, so a packet handled
on another thread can carry a later time than the tick's `now`. Between ticks the
host sleeps until the deadline: the clock moves past `deadline` only while a tick
is in progress.

### Actions

`callTick` (takes `now`); `pingCheckTest` (takes the lock, tests the interval and
sets `_lastPingCheck`, or reduces `timeUntilNextPingCheck`); `pingPeers` (the
maximum upstream receive time, the new `_online`, and the event on a change; the
`needConfig` collection before it is modelled in `NodeNetworks`); `housekeeping`;
`setDeadline` (`now + max(min(timeUntilNextPingCheck, doTimerTasks), GRANULARITY)`,
with `doTimerTasks` chosen from `TimerDelays`, and the lock released); `tickFails`
(an exception in any of the three try blocks returns with the lock released and no
deadline written; housekeeping throws only when due, after `_lastHousekeepingRun`
was set); `processWirePacket`; `advanceClock`.

### Fairness

Each tick step is weakly fair: a thread that has entered `processBackgroundTasks`
finishes it. Host calls, packets and the clock are not fair.

### Runs

One upstream, `ZT_PING_CHECK_INVERVAL` = 2, housekeeping period 3, activity timeout
2, granularity 1, timer delays {0, 1, 4}, times up to 8 modulo 16. These values make
every branch happen: the interval elapsed and not, housekeeping due and not, the
deadline set by the ping check, by the timers, and by the granularity floor, and
the node going online and offline.

| Run | Expect | What it shows |
|-----|--------|---------------|
| `nodebg_tick` | pass | One host thread ticks while packets arrive, and any step of the tick may throw: the deadline is never later than the next ping check plus the granularity (`PingCheckTimely`). |
| `nodebg_online_wrap` | violation | A packet handled after the tick took `now` makes `now - lastReceiveFromUpstream` wrap; the node goes offline although an upstream was just heard. |

No pass run claims that ping checks are an interval apart: the spec allows concurrent ticks, and with `TickThreads = {k1, k2}` the caller with the older `now` gets the lock second, `now - _lastPingCheck` wraps, and it runs a second ping check and moves `_lastPingCheck` back, though the spec says concurrent ticks degenerate to one. This is recorded as a note on the `Node.cpp:247` hazard in `PROJECT.json`.

## 6. The `COM` model

`COM.tla` models `CertificateOfMembership` (`src/node/CertificateOfMembership.hpp`).
`MC_COM.tla` instantiates it.

### State and operators

| Definition | Code |
|------------|------|
| `sender` | The controller's certificate: `q` is `_qualifiers[0.._qualifierCount-1]`, plus `_signedBy` and `_signature`. |
| `receiver` | The object a peer decodes into. It is either fresh or the one it already holds. |
| `wire`, `origin` | The buffer in transit. It is the sender's encoding, a forged encoding, or a truncated copy of the sender's. |
| `result` | `"ok"` or the exception of the last `deserialize`. It is `"none"` while a new buffer waits. |
| `ops` | The number of `setQualifier` and `sign` calls since construction. It is bounded by `MaxSenderOps`. |
| `EmptyCom`, `Construct` | The default constructor (`memset`) and the constructor from timestamp, network id and issued-to. |
| `Serialize` | `serialize`. Its fields come in append order. |
| `ReadQuals`, `Deserialize` | `deserialize`. `ReadQuals` is the `RECURSIVE` qualifier loop. Every `throw` is a result, and a failure keeps what the code had written before it threw. |
| `ComEquals` | `operator==`: signer, count, every qualifier, and the signature bytes. |
| `SetQualifierOf`, `Sign` | `setQualifier` and `sign`. Their bodies are in `CertificateOfMembership.cpp`, outside `src/`, so they are modelled from the header comment and the spec (`spec_modelled`). |

A buffer is a sequence of fields, not of bytes. Every field of `Buffer` has a fixed
width, so the code's byte offsets (`p + 8`, `p + 16`, `p += 24`) become field
offsets. A truncation cuts the buffer at a field boundary. The signature is
abstracted to the signer and the qualifiers it covers. `MaxU64` stands for the
`ISSUED_TO` maxDelta `0xffffffffffffffff`. The sender does not change while its
buffer is in transit. `serialize` copies, so that loses no behaviour.

### Run

`com_codec` passes, with 690,646 distinct states. The bounds are:
- values {0, 1} and maxDelta values {0, 1};
- one network id and one member;
- `setQualifier` on the timestamp id and on a user id (3);
- at most 3 qualifiers, standing for `ZT_NETWORK_COM_MAX_QUALIFIERS` = 8;
- two sender operations;
- forged encodings of up to 4 qualifiers over ids {1, 3}. These include repeated,
  descending and too many ids.

The sender starts from an empty certificate, so `setQualifier` inserts and sorts.
After the three-field constructor it finds the certificate full.

It checks three properties:
- `RoundTrip`: an action property. Decoding the sender's own buffer without an
  exception gives a certificate `operator==` to the sender's when it is signed.
  When it is unsigned, the decoded certificate has the same qualifiers and a null
  signer.
- `DecodedIdsOrdered`: an accepted buffer has non-decreasing ids and fits the
  maximum.
- `TypeOK`.

Three observations are recorded as hazards in `PROJECT.json`. TLC confirmed each one
with a stronger form of a property:
- **Repeated ids are accepted.** Ids only have to be non-decreasing, so the
  encoding `<<1, 1>>` decodes. The spec says it fails with `BAD_ENCODING`.
- **A truncated decode keeps a signer.** When a buffer ends before its signature,
  `_signedBy` is already set.
- **`operator==` reads stale signature bytes.** It compares the signature bytes
  even of unsigned certificates, so an unsigned copy can differ from its original.

## 7. The `NodeConstruction` model

`NodeConstruction.tla` models `Node::Node` and `Node::~Node` (`src/node/Node.cpp`
57-137), with the C bindings `ZT_Node_new` and `ZT_Node_delete` (688-708) the host
calls them through. It also models the fields of `RuntimeEnvironment`
(`src/node/RuntimeEnvironment.hpp`) that they set. The host's state store
outlives the process, so the model runs the node through up to `MaxStarts`
constructions.

### State

| Variable | Code |
|----------|------|
| `secretStore`, `publicStore` | The host's `IDENTITY_SECRET` and `IDENTITY_PUBLIC` objects. The public objects are keyed by address. |
| `pc` | How far the constructor has got. Steps are split at each `stateObjectGet` and `stateObjectPut`. |
| `identity` | `RR->identity`. An identity stands for itself and its address. |
| `built`, `next` | The subcomponent pointers set so far, and the next `new` of the try block. |
| `starts`, `firstUp` | The construction count, and a history variable holding the identity of the first `EVENT_UP`. |
| `handle`, `result` | The host's `ZT_Node *` (`null`, `node`, or `freed` after `ZT_Node_delete`), and what the last `ZT_Node_new` returned. |

An object's contents are abstracted to what the constructor's checks can tell
apart:

- `none`: `n <= 0`.
- `full`: the exact string.
- `torn`: a prefix of the string. `fromString` rejects it, and `memcmp` over `n`
  bytes finds no difference.
- `garbled`: a string of the same length with different bytes.
- `oversized`: `n >= sizeof(publicIdentityStr)`.

### Actions

- **Loading and creating the identity.** `getSecret` loads the identity, or falls
  to `generate` when the object is missing or does not parse. `generate` is
  followed by `putSecret` and `putPublic`. A loaded identity goes through
  `getPublic` instead, which rewrites the public object only when it is
  `garbled`.
- **Starting.** `Start` is `ZT_Node_new` setting `*node = 0` and the constructor
  running to its version check. A version other than 0 (`CallbackVersions`) throws
  the integer `ZT_EXCEPTION_INVALID_ARGUMENT`, which only `catch ( ... )` takes, so
  the host gets `FATAL_ERROR_INTERNAL`. The spec's result codes include
  `INVALID_ARGUMENT`, but the code never returns it here.
- **Building the subcomponents.** `construct` builds one subcomponent and
  `constructFails` is a `new` that throws. `cleanup` is the catch block, which
  deletes all five and rethrows. `ZT_Node_new` maps the exception to
  `OUT_OF_MEMORY`, `DATA_STORE_FAILED` or `INTERNAL` (`ConstructErrors`). Which one
  a subcomponent throws is decided outside `src/`, so any of them is possible.
- **Up and down.** `postUp` posts `EVENT_UP`, and `ZT_Node_new` then stores the
  node in `*node` and returns `OK`. `destroy` is `ZT_Node_delete` running `~Node`;
  the host's pointer is left dangling.
- **Environment faults:**
  - `Crash` kills the process between any two steps.
  - `CrashInPut` kills it inside a put and leaves a torn object.
  - `DamagePublic` alters a public object while the node is down.

### Not modelled

- The PRNG seed and the reply tables: the constructor sets them, but nothing here
  reads them.
- The uninitialised `RR->t`. The hazard note in `PROJECT.json` explains why.

### The abstract specification

`NodeLifecycle.tla` states what construction promises the host. It has no store,
no steps and no faults. A node goes `Up` and `Down`. It is a new identity the
first time it comes up, and the owned identity every time after.
`NodeConstruction` instantiates it under this refinement mapping:

- `up` is `pc = "up"`, so the node is up from `EVENT_UP` until `~Node` or a crash.
- `owned` is the history variable `firstUp`.
- `current` is `identity` while the node is up, and `"none"` otherwise.

Every other step of the constructor, a failed start and a crash before
`EVENT_UP` included, is a stuttering step of the abstract specification. The
property `ImplementsLifecycle == Lifecycle!Spec` is checked in
`nodecons_restarts`.

### Runs

| Run | Expect | What it shows |
|-----|--------|---------------|
| `nodecons_restarts` | pass | Three starts, with crashes, torn puts and damage. The constructor implements the abstract `NodeLifecycle` (`ImplementsLifecycle`): the node always comes up with its first identity. `EVENT_UP` is posted only when all five subcomponents exist and the secret is where the next start reads it (`UpOnlyWhenBuilt`). No subcomponent is left after a failed start or a destroy (`NoLeakWhenStopped`). The host holds a pointer only to a complete running node, and none after a failed call (`HostViewConsistent`). |
| `nodecons_public_lost` | violation | The process dies between the two puts. Every later start comes up without a public identity object, because the rewrite needs an existing object that differs. The spec says both forms are persisted. |

`HostViewConsistent` relates the host's pointer to the node: a pointer the host
holds is to a complete node that is up, and after a failed call the host holds
no pointer at all. Its mutant drops `*node = 0`: TLC then finds a host that
deleted its node, called `ZT_Node_new` with a bad version, and was left with the
dangling pointer beside an error code.

**Bounds.** Two identities are enough for a regenerated identity to differ from the
first. Three starts cover a crash in the first start, a recovering second start,
and one more restart after damage. `CHECK_DEADLOCK` is off because nothing runs
after the host's last destroy.

**Host behaviour.** The secret is put with id `{address,0}` but read with id
`{0,0}`. The runs model a host that ignores the secret's id
(`SecretKeyedById = FALSE`). With `TRUE`, TLC finds `UpOnlyWhenBuilt` violated,
which is recorded as a hazard.

## 8. The `NodeControllerHooks` model

`NodeControllerHooks.tla` models the three hooks the embedded controller calls:
`ncSendConfig`, `ncSendRevocation` and `ncSendError` (`src/node/Node.cpp`
576-683). It also models `Node::prng` (549-559), which `ncSendConfig` shares
with the upstream ping of `processBackgroundTasks` (lines 200 and 210).

### State

| Variable | Code |
|----------|------|
| `prngState` | `_prngState`, as the number of steps from the seed. Outputs are the constant sequence `PrngOutputs`. |
| `th` | Per thread, the call in progress: destination, network, request id, dictionary size, the PRNG state read, and a transfer number. |
| `wire` | The packets handed to `RR->sw->send`, reduced to the fields a property reads. |
| `delivered` | What the hooks applied to local `Network` objects (`setConfiguration`, `addCredential`, `setNotFound`, `setAccessDenied`). |
| `calls` | Hook calls and ping draws, bounded by `MaxCalls`. |

### Actions

- **`ncSendConfig`.** To this node, it delivers locally if the network is joined.
  Otherwise `toDictionary` is called, which may fail and send nothing, and then
  the call goes on to `prng()`.
- **`prng()`.** `prngRead` and `prngWrite` are the read and the write halves.
  Two callers can read the same state, and a late write rewinds it.
- **`sendChunks`.** It applies the zero-to-one fix, then runs the chunk loop
  (the RECURSIVE `ChunkList`) and sends an OK or a NETWORK_CONFIG per chunk.
- **`ncSendRevocation` and `ncSendError`.** Each branches on local or remote.
  `ncSendError` sends nothing for a remote destination with no request id.
- **`pingDraw`.** The ping closure's call of `prng()`.

### Runs

| Run | Expect | What it shows |
|-----|--------|---------------|
| `nchooks_one_controller` | pass | One controller thread and one ping thread. `TransferChunksTile`: every transfer's chunks carry one nonzero id and cover the dictionary exactly once, for sizes that are and are not multiples of `ChunkMax`. `WireRouting`: nothing goes on the wire to this node, and every OK or ERROR answers a request. `TypeOK` includes that local hooks reach only joined networks. 396k states. |
| `nchooks_prng_race` | violation | The ping thread reads `_prngState`, then `ncSendConfig` advances it twice, then the ping thread's write moves it back. The next transfer gets the id of the previous one, though the spec says the id is fresh. |

**Bounds.**
- `MaxCalls = 4` is the smallest bound at which the rewind can produce a
  duplicate.
- `PrngOutputs` holds distinct values, as xorshift128+ gives over a few calls.
  It includes a 0, so the zero-to-one fix is exercised.
- Dictionary sizes 2 and 3 with `ChunkMax = 2` give a single full chunk and a
  short final chunk.

**Fairness.** A call in progress runs to its end, since the code blocks on
nothing. No liveness property is checked.

## 9. What is not modelled, and why

- **Reads** (`get*`, `hasNetwork`, `peers`, `status`, `networks`) change no state.
  The properties state what a read would return, as invariants over the state.
- **The wire protocol, cryptography, `Switch` and `Topology`** are outside `src/`.
  They are the environment of the node modules.
- **JSONDB's wall-clock summary fields and HTTP timeouts.** A timed-out PUT is a
  failed write, which the sequential run covers (`WritesMayFail`); the timeout
  itself and `activeMemberCount`'s clock are not modelled.
- **`agreesWith` and `verify`** of the certificate of membership: their bodies are
  in `CertificateOfMembership.cpp`, which is not under `src/`, and `verify` needs
  the topology's identity lookup. The read-only accessors `timestamp`, `issuedTo`
  and `networkId` change no state.
- **`RuntimeEnvironment.hpp`** beyond its constructor and destructor, which
  `NodeConstruction` models: it is a struct of pointers to the node's
  subsystems, with no behaviour of its own.
- **The unlocked store of `_now`** at the top of `processWirePacket`,
  `processVirtualNetworkFrame` and `processBackgroundTasks`: concurrent host
  calls race on it, but its readers are in `Switch` and `Peer`. It is listed as a
  hazard without a property.
