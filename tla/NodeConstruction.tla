-------------------------- MODULE NodeConstruction --------------------------
(***************************************************************************)
(* Building and destroying the node runtime: Node::Node and Node::~Node    *)
(* (src/node/Node.cpp) with the RuntimeEnvironment they fill in            *)
(* (src/node/RuntimeEnvironment.hpp), across restarts of the host process. *)
(*                                                                         *)
(* The host's state store outlives the process.  The constructor reads     *)
(* and writes it through stateObjectGet / stateObjectPut; the steps below  *)
(* are split at those calls, because the process may die between two of   *)
(* them, and a put the process dies in may leave a torn (truncated) object *)
(* behind.  The store may also be damaged while the node is down.          *)
(*                                                                         *)
(* An identity stands for itself and its 40-bit address.  An object's     *)
(* contents are abstracted to how the constructor's checks see them:       *)
(*   "none"      stateObjectGet returns n <= 0;                            *)
(*   "full"      the exact string the identity formats to;                 *)
(*   "torn"      a strict prefix of it (fromString fails; memcmp over n    *)
(*               bytes finds no difference);                               *)
(*   "garbled"   as long as the buffer allows, but different bytes;        *)
(*   "oversized" at least sizeof(publicIdentityStr) bytes.                 *)
(* The secret object holds "none", "torn" or a whole identity.             *)
(***************************************************************************)
EXTENDS Naturals, Sequences, FiniteSets

CONSTANTS
    Identities,        \* identities Identity::generate may produce
    SecretKeyedById,   \* the host keys IDENTITY_SECRET by its id, as it does
                       \* every other object type
    CallbackVersions,  \* values of callbacks->version the host may pass
    MaxStarts          \* bound on the host constructing a Node

ASSUME SecretKeyedById \in BOOLEAN /\ MaxStarts \in Nat \ {0}

(* The subcomponents in the order the constructor builds them. *)
Components == <<"t", "sw", "mc", "topology", "sa">>
AllComponents == {Components[i] : i \in 1..Len(Components)}

PublicContents == {"none", "full", "torn", "garbled", "oversized"}
SecretContents == {"none", "torn"} \cup Identities

(* Where a secret put with id {addr,0} lands, and where the get with id    *)
(* {0,0} looks.  "zero" is the id {0,0}.                                   *)
SecretKeys == {"zero"} \cup Identities
SecretSlot(i) == IF SecretKeyedById THEN i ELSE "zero"

VARIABLES
    secretStore,   \* the host's IDENTITY_SECRET objects
    publicStore,   \* the host's IDENTITY_PUBLIC objects, by address
    pc,            \* where the constructor or destructor is
    identity,      \* RR->identity ("none" before it is loaded or generated)
    built,         \* subcomponents RR points at
    next,          \* index in Components of the next one to build
    starts,        \* constructions so far
    firstUp,       \* history: the identity of the first EVENT_UP
    handle,        \* the host's ZT_Node pointer: "null", "node", or "freed"
                   \* once ZT_Node_delete has run
    result         \* what the last ZT_Node_new returned ("none" before one)

vars == <<secretStore, publicStore, pc, identity, built, next, starts, firstUp, handle, result>>

(* A fresh install: the store is empty and no process runs. *)
Init ==
    /\ secretStore = [k \in SecretKeys |-> "none"]
    /\ publicStore = [i \in Identities |-> "none"]
    /\ pc = "off"
    /\ identity = "none"
    /\ built = {}
    /\ next = 1
    /\ starts = 0
    /\ firstUp = "none"
    /\ handle = "null"
    /\ result = "none"

Stopped == pc' = "off" /\ identity' = "none" /\ built' = {} /\ next' = 1

-----------------------------------------------------------------------------
(* The host calls ZT_Node_new, which sets *node = 0 and constructs a Node: *)
(* the member initialisers and the RuntimeEnvironment constructor set      *)
(* every subcomponent pointer but t to 0, the version check passes, the    *)
(* PRNG is seeded and the reply tables cleared.                            *)
StartKeepsHandle ==
    /\ pc = "off"
    /\ starts < MaxStarts
    /\ starts' = starts + 1
    /\ \E version \in CallbackVersions :
         IF version = 0
           THEN pc' = "getSecret" /\ result' = "none"
           ELSE pc' = "off" /\ result' = "INTERNAL"
    /\ UNCHANGED <<secretStore, publicStore, identity, built, next, firstUp, handle>>

(* A callbacks->version other than 0 throws ZT_EXCEPTION_INVALID_ARGUMENT,  *)
(* a plain integer, which only ZT_Node_new's catch ( ... ) takes:          *)
(* the host gets FATAL_ERROR_INTERNAL and no node.                         *)
Start ==
    /\ pc = "off"
    /\ starts < MaxStarts
    /\ starts' = starts + 1
    /\ handle' = "null"
    /\ \E version \in CallbackVersions :
         IF version = 0
           THEN pc' = "getSecret" /\ result' = "none"
           ELSE pc' = "off" /\ result' = "INTERNAL"
    /\ UNCHANGED <<secretStore, publicStore, identity, built, next, firstUp>>

(* stateObjectGet(IDENTITY_SECRET, {0,0}).  A whole identity is loaded;    *)
(* nothing, or a string fromString rejects (n = -1), means generating one. *)
getSecretAlwaysGenerates ==
    /\ pc = "getSecret"
    /\ pc' = "generate"
    /\ UNCHANGED <<secretStore, publicStore, identity, built, next, starts, firstUp, handle, result>>

getSecretNoParseCheck ==
    /\ pc = "getSecret"
    /\ LET s == secretStore["zero"] IN
         IF s # "none"
           THEN identity' = s /\ pc' = "getPublic"
           ELSE pc' = "generate" /\ UNCHANGED identity
    /\ UNCHANGED <<secretStore, publicStore, built, next, starts, firstUp, handle, result>>

getSecret ==
    /\ pc = "getSecret"
    /\ LET s == secretStore["zero"] IN
         IF s \in Identities
           THEN identity' = s /\ pc' = "getPublic"
           ELSE pc' = "generate" /\ UNCHANGED identity
    /\ UNCHANGED <<secretStore, publicStore, built, next, starts, firstUp, handle, result>>

(* RR->identity.generate() and the two toString calls. *)
generate ==
    /\ pc = "generate"
    /\ \E i \in Identities : identity' = i
    /\ pc' = "putSecret"
    /\ UNCHANGED <<secretStore, publicStore, built, next, starts, firstUp, handle, result>>

(* stateObjectPut(IDENTITY_SECRET, {address,0}, secretIdentityStr). *)
putSecret ==
    /\ pc = "putSecret"
    /\ secretStore' = [secretStore EXCEPT ![SecretSlot(identity)] = identity]
    /\ pc' = "putPublic"
    /\ UNCHANGED <<publicStore, identity, built, next, starts, firstUp, handle, result>>

(* stateObjectPut(IDENTITY_PUBLIC, {address,0}, publicIdentityStr). *)
putPublic ==
    /\ pc \in {"putPublic", "rewritePublic"}
    /\ publicStore' = [publicStore EXCEPT ![identity] = "full"]
    /\ pc' = "construct"
    /\ UNCHANGED <<secretStore, identity, built, next, starts, firstUp, handle, result>>

(* The loaded identity: stateObjectGet(IDENTITY_PUBLIC, {address,0}).  It  *)
(* is rewritten only when 0 < n < sizeof(publicIdentityStr) and the first  *)
(* n bytes differ from the identity's public string.                       *)
getPublic ==
    /\ pc = "getPublic"
    /\ pc' = IF publicStore[identity] = "garbled" THEN "rewritePublic" ELSE "construct"
    /\ UNCHANGED <<secretStore, publicStore, identity, built, next, starts, firstUp, handle, result>>

(* One `new` of the try block succeeds. *)
construct ==
    /\ pc = "construct"
    /\ built' = built \cup {Components[next]}
    /\ IF next = Len(Components)
         THEN pc' = "postUp" /\ UNCHANGED next
         ELSE next' = next + 1 /\ UNCHANGED pc
    /\ UNCHANGED <<secretStore, publicStore, identity, starts, firstUp, handle, result>>

(* One `new` throws (allocation failure, or a constructor throwing). *)
constructFails ==
    /\ pc = "construct"
    /\ pc' = "cleanup"
    /\ UNCHANGED <<secretStore, publicStore, identity, built, next, starts, firstUp, handle, result>>

(* The catch block deletes sa, topology, mc, sw and t, and rethrows;      *)
(* deleting a pointer still 0 does nothing.  ZT_Node_new maps what it      *)
(* catches: bad_alloc to FATAL_ERROR_OUT_OF_MEMORY, runtime_error to       *)
(* FATAL_ERROR_DATA_STORE_FAILED, anything else to FATAL_ERROR_INTERNAL.   *)
(* Which one a subcomponent constructor throws is not in src/, so any.     *)
ConstructErrors == {"OOM", "DATA_STORE", "INTERNAL"}

cleanupSwallows ==
    /\ pc = "cleanup"
    /\ pc' = "postUp" /\ built' = {}
    /\ UNCHANGED <<secretStore, publicStore, identity, next, starts, firstUp, handle, result>>

cleanupKeepT ==
    /\ pc = "cleanup"
    /\ pc' = "off" /\ identity' = "none" /\ built' = built \cap {"t"} /\ next' = 1
    /\ UNCHANGED <<secretStore, publicStore, starts, firstUp, handle, result>>

cleanup ==
    /\ pc = "cleanup"
    /\ Stopped
    /\ \E r \in ConstructErrors : result' = r
    /\ UNCHANGED <<secretStore, publicStore, starts, firstUp, handle>>

(* postEvent(EVENT_UP); the constructor returns, and ZT_Node_new stores   *)
(* the node in *node and returns ZT_RESULT_OK.                             *)
postUp ==
    /\ pc = "postUp"
    /\ pc' = "up"
    /\ firstUp' = IF firstUp = "none" THEN identity ELSE firstUp
    /\ handle' = "node" /\ result' = "OK"
    /\ UNCHANGED <<secretStore, publicStore, identity, built, next, starts>>

(* The host calls ZT_Node_delete: ~Node clears _networks, deletes the     *)
(* five subcomponents, and ~RuntimeEnvironment burns secretIdentityStr.    *)
(* The host's pointer is left dangling.                                    *)
destroy ==
    /\ pc = "up"
    /\ Stopped
    /\ handle' = "freed"
    /\ UNCHANGED <<secretStore, publicStore, starts, firstUp, result>>

-----------------------------------------------------------------------------
(* Faults of the environment. *)

(* The process dies, the host's memory with it; the store keeps what was  *)
(* put before.                                                             *)
Crash ==
    /\ pc # "off"
    /\ Stopped
    /\ handle' = "null" /\ result' = "none"
    /\ UNCHANGED <<secretStore, publicStore, starts, firstUp>>

(* The process dies inside a put, leaving a prefix of the object. *)
CrashInPut ==
    /\ pc \in {"putSecret", "putPublic", "rewritePublic"}
    /\ IF pc = "putSecret"
         THEN /\ secretStore' = [secretStore EXCEPT ![SecretSlot(identity)] = "torn"]
              /\ UNCHANGED publicStore
         ELSE /\ publicStore' = [publicStore EXCEPT ![identity] = "torn"]
              /\ UNCHANGED secretStore
    /\ Stopped
    /\ handle' = "null" /\ result' = "none"
    /\ UNCHANGED <<starts, firstUp>>

(* While the node is down, a public object on disk is damaged. *)
DamagePublic ==
    /\ pc = "off"
    /\ \E i \in Identities, c \in {"garbled", "oversized"} :
         /\ publicStore[i] = "full"
         /\ publicStore' = [publicStore EXCEPT ![i] = c]
    /\ UNCHANGED <<secretStore, pc, identity, built, next, starts, firstUp, handle, result>>

Next ==
    \/ Start \/ getSecret \/ generate \/ putSecret \/ putPublic \/ getPublic
    \/ construct \/ constructFails \/ cleanup \/ postUp \/ destroy
    \/ Crash \/ CrashInPut \/ DamagePublic

Spec == Init /\ [][Next]_vars

-----------------------------------------------------------------------------
(* Properties. *)

TypeOK ==
    /\ secretStore \in [SecretKeys -> SecretContents]
    /\ publicStore \in [Identities -> PublicContents]
    /\ pc \in {"off", "getSecret", "generate", "putSecret", "putPublic", "getPublic",
               "rewritePublic", "construct", "cleanup", "postUp", "up"}
    /\ identity \in Identities \cup {"none"}
    /\ built \subseteq AllComponents
    /\ next \in 1..Len(Components)
    /\ starts \in 0..MaxStarts
    /\ firstUp \in Identities \cup {"none"}
    /\ handle \in {"null", "node", "freed"}
    /\ result \in {"none", "OK"} \cup ConstructErrors

(* The node owns one identity for its lifetime (spec: "loss of the secret  *)
(* ends the node"): however the host restarts it, and wherever a crash or  *)
(* a torn put falls, the constructor implements NodeLifecycle, in which    *)
(* every EVENT_UP after the first comes with the identity of the first.    *)
(* This rests on the constructor writing the secret only when the get at   *)
(* {0,0} found none, and on the put landing where that get looks.  The     *)
(* node is up from EVENT_UP until ~Node or a crash.                        *)
Lifecycle == INSTANCE NodeLifecycle WITH
    up <- (pc = "up"),
    owned <- firstUp,
    current <- IF pc = "up" THEN identity ELSE "none"

ImplementsLifecycle == Lifecycle!Spec

(* EVENT_UP is posted only for a complete node: every subcomponent of the  *)
(* try block exists, and the secret of the node's identity is in the      *)
(* store where the next construction will read it.                         *)
UpOnlyWhenBuilt ==
    pc \in {"postUp", "up"} =>
        /\ built = AllComponents
        /\ secretStore["zero"] = identity

(* No subcomponent outlives a construction that threw or a destroyed node: *)
(* the catch block and ~Node each delete all five.                         *)
NoLeakWhenStopped ==
    pc = "off" => built = {}

(* What the host holds after ZT_Node_new agrees with what it was told.    *)
(* A handle it holds points to a complete node that is up, and after a     *)
(* failed call (a bad callback version, or a subcomponent that threw) it   *)
(* holds no pointer at all: not the one it was given for the node it       *)
(* deleted before, and not one to a half-built node.                       *)
HostViewConsistent ==
    /\ handle = "node" => pc = "up" /\ built = AllComponents
    /\ result \in ConstructErrors => handle = "null" /\ pc = "off"

(* The spec's construct: "loads or generates identity (persisting both     *)
(* forms via state callbacks)".  Whenever the node is up, the store holds  *)
(* the full public form of its identity under its address.                 *)
PublicIdentityPersisted ==
    pc = "up" => publicStore[identity] = "full"

=============================================================================
