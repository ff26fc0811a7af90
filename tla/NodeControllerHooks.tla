------------------------- MODULE NodeControllerHooks -------------------------
(***************************************************************************)
(* The hooks through which the embedded network controller answers         *)
(* members: Node::ncSendConfig, Node::ncSendRevocation and                 *)
(* Node::ncSendError (src/node/Node.cpp), with Node::prng, which           *)
(* ncSendConfig shares with the upstream ping of processBackgroundTasks.   *)
(*                                                                         *)
(* The controller calls the hooks from its own threads.  A hook addressed *)
(* to this node goes to the local Network (which is not in this           *)
(* repository: what reaches it is recorded in `delivered`).  Any other    *)
(* destination gets packets through RR->sw->send, recorded in `wire`.     *)
(*                                                                         *)
(* prng() reads and writes _prngState with no lock.  Its state is         *)
(* abstracted to how many steps it has advanced from the seed, and its    *)
(* outputs to the constant sequence PrngOutputs.  A call is split into    *)
(* its read and its write, so two unsynchronised calls can read the same  *)
(* state, and a late write can move the state back.                       *)
(***************************************************************************)
EXTENDS Naturals, Sequences, FiniteSets, SequencesExt

CONSTANTS
    ControllerThreads, \* controller threads calling the nc* hooks
    Pingers,           \* threads of processBackgroundTasks calling prng()
    Self,              \* RR->identity.address()
    Peers,             \* other member addresses
    Nwids,             \* network ids the controller answers for
    Joined,            \* networks this node has joined (network(nwid) # 0)
    RequestIds,        \* packet ids of NETWORK_CONFIG_REQUESTs; 0 is none
    DictSizes,         \* values of dconf->sizeBytes() after toDictionary
    ChunkMax,          \* ZT_UDP_DEFAULT_PAYLOAD_MTU - (ZT_PACKET_IDX_PAYLOAD + 256)
    ErrorCodes,        \* NetworkController::ErrorCode values
    PrngOutputs,       \* successive values prng() returns from the seed
    MaxCalls           \* bound on hook calls and ping draws

ASSUME /\ Self \notin Peers /\ Joined \subseteq Nwids /\ 0 \in RequestIds
       /\ DictSizes \subseteq Nat \ {0} /\ ChunkMax \in Nat \ {0}
       /\ ControllerThreads \cap Pingers = {}
       /\ Len(PrngOutputs) >= MaxCalls

Dests == {Self} \cup Peers
PrngCallers == ControllerThreads \cup Pingers

VARIABLES
    prngState,   \* _prngState: the number of steps from the seed
    th,          \* per thread: the call in progress
    wire,        \* packets handed to RR->sw->send
    delivered,   \* what the hooks applied to local Networks
    calls        \* hook calls and ping draws so far

vars == <<prngState, th, wire, delivered, calls>>

Idle == [pc |-> "idle", dest |-> Self, nwid |-> CHOOSE n \in Nwids : TRUE,
         rid |-> 0, size |-> 0, k |-> 0, tx |-> 0]

(* A packet: the fields of the code's Packet that a property reads.        *)
(* inRe is the request packet id of an OK or ERROR; id, total, index and  *)
(* len are the config chunk's configUpdateId, totalSize, chunkIndex and   *)
(* chunkLen; tx numbers the ncSendConfig call that sent it (a history     *)
(* field, not on the wire).                                                *)
Packet(verb, dest, nwid, inRe, code, id, total, index, len, tx) ==
    [verb |-> verb, dest |-> dest, nwid |-> nwid, inRe |-> inRe, code |-> code,
     id |-> id, total |-> total, index |-> index, len |-> len, tx |-> tx]

MinOf(a, b) == IF a <= b THEN a ELSE b

(* The chunk loop of ncSendConfig: from chunkIndex, chunks of             *)
(* min(totalSize - chunkIndex, ChunkMax) bytes until chunkIndex reaches    *)
(* totalSize.                                                              *)
RECURSIVE ChunkListLong(_, _)
ChunkListLong(total, idx) ==
    IF idx < total
      THEN LET len == MinOf(total - idx + 1, ChunkMax) IN
           <<[index |-> idx, len |-> len]>> \o ChunkListLong(total, idx + len)
      ELSE <<>>

RECURSIVE ChunkList(_, _)
ChunkList(total, idx) ==
    IF idx < total
      THEN LET len == MinOf(total - idx, ChunkMax) IN
           <<[index |-> idx, len |-> len]>> \o ChunkList(total, idx + len)
      ELSE <<>>

Init ==
    /\ prngState = 0
    /\ th = [t \in PrngCallers |-> Idle]
    /\ wire = {}
    /\ delivered = {}
    /\ calls = 0

Call(t) ==
    /\ th[t].pc = "idle"
    /\ calls < MaxCalls
    /\ calls' = calls + 1

-----------------------------------------------------------------------------
(* Node::prng, read half: x = _prngState[0], y = _prngState[1].           *)
prngRead(t) ==
    /\ th[t].pc = "prngRead"
    /\ th' = [th EXCEPT ![t].k = prngState, ![t].pc = "prngWrite"]
    /\ UNCHANGED <<prngState, wire, delivered, calls>>

(* Write half: _prngState = {y, z} from what was read; the result is      *)
(* z + y.  ncSendConfig goes on to send its chunks; a pinger is done.     *)
prngWrite(t) ==
    /\ th[t].pc = "prngWrite"
    /\ prngState' = th[t].k + 1
    /\ th' = [th EXCEPT ![t].pc = IF t \in Pingers THEN "idle" ELSE "sendChunks"]
    /\ UNCHANGED <<wire, delivered, calls>>

(* _PingPeersThatNeedPing draws a start index from prng() for an upstream *)
(* with stable endpoints.                                                  *)
pingDraw(t) ==
    /\ Call(t)
    /\ th' = [th EXCEPT ![t].pc = "prngRead"]
    /\ UNCHANGED <<prngState, wire, delivered>>

-----------------------------------------------------------------------------
(* ncSendConfig without `if (!n) return;`.                                 *)
ncSendConfigNoNullCheck(t, dest, n, rid) ==
    /\ Call(t)
    /\ IF dest = Self
         THEN /\ delivered' = delivered \cup {[nwid |-> n, what |-> "config"]}
              /\ UNCHANGED th
         ELSE /\ \E ok \in BOOLEAN, size \in DictSizes :
                   th' = IF ok THEN [th EXCEPT ![t] = [Idle EXCEPT !.pc = "prngRead", !.dest = dest,
                                                       !.nwid = n, !.rid = rid, !.size = size,
                                                       !.tx = calls + 1]]
                               ELSE th
              /\ UNCHANGED delivered
    /\ UNCHANGED <<prngState, wire>>

(* ncSendConfig.  To this node: network(nwid)->setConfiguration(nc, true) *)
(* if it is joined.  Otherwise toDictionary, which may fail and send       *)
(* nothing, and then prng() for the configUpdateId.                        *)
ncSendConfig(t, dest, n, rid) ==
    /\ Call(t)
    /\ IF dest = Self
         THEN /\ delivered' = IF n \in Joined THEN delivered \cup {[nwid |-> n, what |-> "config"]}
                                              ELSE delivered
              /\ UNCHANGED th
         ELSE /\ \E ok \in BOOLEAN, size \in DictSizes :
                   th' = IF ok THEN [th EXCEPT ![t] = [Idle EXCEPT !.pc = "prngRead", !.dest = dest,
                                                       !.nwid = n, !.rid = rid, !.size = size,
                                                       !.tx = calls + 1]]
                               ELSE th
              /\ UNCHANGED delivered
    /\ UNCHANGED <<prngState, wire>>

(* The configUpdateId (0 is made 1), then one packet per chunk: an OK to  *)
(* the request if there is one, else NETWORK_CONFIG.                       *)
sendChunks(t) ==
    /\ th[t].pc = "sendChunks"
    /\ LET c == th[t]
           z == PrngOutputs[c.k + 1]
           id == IF z = 0 THEN 1 ELSE z
           verb == IF c.rid # 0 THEN "OK" ELSE "NETWORK_CONFIG"
       IN wire' = wire \cup {Packet(verb, c.dest, c.nwid, c.rid, "none", id, c.size,
                                    ch.index, ch.len, c.tx) : ch \in ToSet(ChunkList(c.size, 0))}
    /\ th' = [th EXCEPT ![t] = Idle]
    /\ UNCHANGED <<prngState, delivered, calls>>

(* ncSendRevocation: to this node, addCredential on the joined network;   *)
(* otherwise one NETWORK_CREDENTIALS packet carrying the revocation.      *)
ncSendRevocation(t, dest, n) ==
    /\ Call(t)
    /\ IF dest = Self
         THEN /\ delivered' = IF n \in Joined THEN delivered \cup {[nwid |-> n, what |-> "revocation"]}
                                              ELSE delivered
              /\ UNCHANGED wire
         ELSE /\ wire' = wire \cup {Packet("NETWORK_CREDENTIALS", dest, n, 0, "none", 0, 0, 0, 0, 0)}
              /\ UNCHANGED delivered
    /\ UNCHANGED <<prngState, th>>

(* What ncSendError does to a local Network, and the ERROR code it puts    *)
(* on the wire.                                                            *)
LocalErrorEffect(code) ==
    CASE code \in {"OBJECT_NOT_FOUND", "INTERNAL_SERVER_ERROR"} -> "notFound"
      [] code = "ACCESS_DENIED" -> "accessDenied"
      [] OTHER -> "none"

WireErrorCode(code) ==
    IF code = "ACCESS_DENIED" THEN "NETWORK_ACCESS_DENIED" ELSE "OBJ_NOT_FOUND"

(* ncSendError without the requestPacketId test.                           *)
ncSendErrorUnsolicited(t, dest, n, rid, code) ==
    /\ Call(t)
    /\ IF dest = Self
         THEN /\ delivered' = IF n \in Joined /\ LocalErrorEffect(code) # "none"
                                THEN delivered \cup {[nwid |-> n, what |-> LocalErrorEffect(code)]}
                                ELSE delivered
              /\ UNCHANGED wire
         ELSE /\ wire' = wire \cup {Packet("ERROR", dest, n, rid, WireErrorCode(code), 0, 0, 0, 0, 0)}
              /\ UNCHANGED delivered
    /\ UNCHANGED <<prngState, th>>

(* ncSendError: to this node, setNotFound or setAccessDenied on the joined *)
(* network; otherwise an ERROR answering the request, and nothing when     *)
(* there is no request to answer.                                          *)
ncSendError(t, dest, n, rid, code) ==
    /\ Call(t)
    /\ IF dest = Self
         THEN /\ delivered' = IF n \in Joined /\ LocalErrorEffect(code) # "none"
                                THEN delivered \cup {[nwid |-> n, what |-> LocalErrorEffect(code)]}
                                ELSE delivered
              /\ UNCHANGED wire
         ELSE /\ wire' = IF rid # 0
                           THEN wire \cup {Packet("ERROR", dest, n, rid, WireErrorCode(code), 0, 0, 0, 0, 0)}
                           ELSE wire
              /\ UNCHANGED delivered
    /\ UNCHANGED <<prngState, th>>

Next ==
    \/ \E t \in ControllerThreads, d \in Dests, n \in Nwids :
          \/ \E r \in RequestIds : ncSendConfig(t, d, n, r)
          \/ ncSendRevocation(t, d, n)
          \/ \E r \in RequestIds, e \in ErrorCodes : ncSendError(t, d, n, r, e)
    \/ \E t \in Pingers : pingDraw(t)
    \/ \E t \in PrngCallers : prngRead(t) \/ prngWrite(t) \/ sendChunks(t)

(* Every call in progress runs to its end: the code blocks on nothing.   *)
Fairness == \A t \in PrngCallers : WF_vars(prngRead(t) \/ prngWrite(t) \/ sendChunks(t))

Spec == Init /\ [][Next]_vars /\ Fairness

-----------------------------------------------------------------------------
(* Properties *)

Chunks == {p \in wire : p.verb \in {"OK", "NETWORK_CONFIG"}}
Bytes(p) == p.index .. (p.index + p.len - 1)

TypeOK ==
    /\ prngState \in 0..MaxCalls
    /\ \A t \in PrngCallers :
          /\ th[t].pc \in {"idle", "prngRead", "prngWrite", "sendChunks"}
          /\ th[t].k \in 0..MaxCalls - 1 /\ th[t].dest \in Dests
    /\ \A p \in wire : p.dest \in Dests /\ p.nwid \in Nwids /\ p.inRe \in RequestIds
    /\ \A d \in delivered : d.nwid \in Joined
    /\ calls \in 0..MaxCalls

(* One ncSendConfig transfer is a config a member can put back together:  *)
(* its chunks all carry one nonzero configUpdateId and the same totalSize,  *)
(* none is longer than the payload allows, and together they cover bytes   *)
(* 0 .. totalSize-1 once each, whatever the size relative to ChunkMax.     *)
TransferChunksTile ==
    \A x \in {p.tx : p \in Chunks} :
        LET cs == {p \in Chunks : p.tx = x}
            one == CHOOSE p \in cs : TRUE
        IN /\ \A p \in cs : p.id = one.id /\ p.total = one.total /\ p.id # 0
                            /\ p.len \in 1..ChunkMax
           /\ \A p, q \in cs : p # q => Bytes(p) \cap Bytes(q) = {}
           /\ UNION {Bytes(p) : p \in cs} = 0 .. (one.total - 1)

(* The hooks' routing: nothing addressed to this node goes on the wire     *)
(* (it is applied to the local network instead), every OK or ERROR answers *)
(* a request the member made, and a config pushed with no request is a     *)
(* NETWORK_CONFIG.                                                          *)
WireRouting ==
    \A p \in wire :
        /\ p.dest # Self
        /\ p.verb \in {"OK", "ERROR"} <=> p.inRe # 0

(* The spec: "A fresh random configUpdateId (non-zero) is attached to      *)
(* every chunk in a transfer".  Two transfers never share a                 *)
(* configUpdateId, so a member never mixes the chunks of two configs.       *)
TransferIdsFresh ==
    \A p, q \in Chunks : p.tx # q.tx => p.id # q.id

=============================================================================
