-------------------------------- MODULE COM --------------------------------
(***************************************************************************)
(* CertificateOfMembership (src/node/CertificateOfMembership.hpp): the     *)
(* certificate a controller issues, its binary encoding and decoding, and  *)
(* the object a receiver decodes into.                                     *)
(*                                                                         *)
(* A certificate is a sequence of qualifiers (id, value, maxDelta), a      *)
(* signer address and a signature. The buffer is a sequence of fields in   *)
(* the order serialize appends them: the tag 1, the u16 count, three u64   *)
(* per qualifier, the signer address and, when signed, the signature. A    *)
(* field stands for its bytes: Buffer's big-endian layout is fixed-width,  *)
(* so the byte offsets of the code (p + 8, p + 16, p += 24) are field      *)
(* offsets here, and truncating a buffer cuts it at a field boundary.      *)
(* The signature is abstracted to the signer and the qualifiers it covers. *)
(*                                                                         *)
(* The sender builds a certificate with the three-field constructor,       *)
(* changes it with setQualifier and signs it; the buffer in transit is the *)
(* sender's encoding, a peer's forged encoding of any qualifier list, or a *)
(* truncated copy; the receiver decodes it into a fresh object or into the *)
(* one it already holds.                                                   *)
(***************************************************************************)
EXTENDS Naturals, Sequences, SequencesExt

CONSTANTS
    Values,         \* qualifier values, network ids and addresses
    Deltas,         \* maxDelta values the controller chooses
    MaxU64,         \* 0xffffffffffffffffULL, the ISSUED_TO maxDelta
    ExtraIds,       \* qualifier ids above the reserved ones
    SetIds,         \* qualifier ids the controller sets after construction
    NetworkIds,     \* network ids certificates are issued for
    Members,        \* addresses certificates are issued to
    ForgedIds,      \* qualifier ids a peer's forged encoding carries
    Signers,        \* addresses of identities that sign certificates
    NullAddress,    \* the zero Address
    MaxQualifiers,  \* ZT_NETWORK_COM_MAX_QUALIFIERS
    MaxSenderOps    \* bound on setQualifier and sign calls per certificate

ASSUME /\ Values \subseteq Nat /\ Deltas \subseteq Nat /\ MaxU64 \in Nat
       /\ \A v \in Values \cup Deltas : v < MaxU64
       /\ NullAddress \notin Signers /\ NullAddress \in Values
       /\ ExtraIds \subseteq Nat \ {0, 1, 2} /\ ForgedIds \subseteq Nat
       /\ NetworkIds \subseteq Values /\ Members \subseteq Values
       /\ MaxQualifiers \in 3..65535 /\ MaxSenderOps \in Nat

VARIABLES
    sender,     \* the issuing side's CertificateOfMembership
    ops,        \* setQualifier and sign calls since it was constructed
    wire,       \* the buffer in transit (<<>> when none)
    origin,     \* "sender", "forged" or "truncated": where wire came from
    receiver,   \* the receiving side's object
    result      \* "none" until wire is decoded; then "ok" or the exception

vars == <<sender, ops, wire, origin, receiver, result>>

(* enum ReservedId *)
COM_RESERVED_ID_TIMESTAMP == 0
COM_RESERVED_ID_NETWORK_ID == 1
COM_RESERVED_ID_ISSUED_TO == 2

Ids == {COM_RESERVED_ID_TIMESTAMP, COM_RESERVED_ID_NETWORK_ID,
        COM_RESERVED_ID_ISSUED_TO} \cup ExtraIds

(* The signature bytes: zeroed, or made by a signer over qualifiers.        *)
ZeroSig == [by |-> NullAddress, over |-> <<>>]
SigOf(q, s) == [by |-> s, over |-> q]

Qualifier(id, v, d) == [id |-> id, value |-> v, maxDelta |-> d]

(* CertificateOfMembership(): memset to zero.                              *)
EmptyCom == [q |-> <<>>, signedBy |-> NullAddress, sig |-> ZeroSig]

(* CertificateOfMembership(timestamp, timestampMaxDelta, nwid, issuedTo).  *)
Construct(ts, tsDelta, nwid, issuedTo) ==
    [q |-> <<Qualifier(COM_RESERVED_ID_TIMESTAMP, ts, tsDelta),
             Qualifier(COM_RESERVED_ID_NETWORK_ID, nwid, 0),
             Qualifier(COM_RESERVED_ID_ISSUED_TO, issuedTo, MaxU64)>>,
     signedBy |-> NullAddress, sig |-> ZeroSig]

(* serialize(b): the fields in append order.                               *)
Serialize(c) ==
    <<1, Len(c.q)>>
    \o FlattenSeq([i \in DOMAIN c.q |-> <<c.q[i].id, c.q[i].value, c.q[i].maxDelta>>])
    \o <<c.signedBy>>
    \o (IF c.signedBy # NullAddress THEN <<c.sig>> ELSE <<>>)

(* Mutant: the id order check is left out.                                *)
RECURSIVE ReadQualsNoOrderCheck(_, _, _, _, _)
ReadQualsNoOrderCheck(b, p, left, lastId, qs) ==
    LET stop(e) == [err |-> e, q |-> qs, p |-> p]
    IN IF left = 0 THEN stop("none")
       ELSE IF p > Len(b) THEN stop("OUT_OF_BOUNDS")
       ELSE IF Len(qs) >= MaxQualifiers THEN stop("OVERFLOW")
       ELSE IF p + 2 > Len(b) THEN stop("OUT_OF_BOUNDS")
       ELSE ReadQualsNoOrderCheck(b, p + 3, left - 1, b[p],
                      Append(qs, Qualifier(b[p], b[p + 1], b[p + 2])))

(* Mutant: the ZT_NETWORK_COM_MAX_QUALIFIERS check is left out.            *)
RECURSIVE ReadQualsNoOverflowCheck(_, _, _, _, _)
ReadQualsNoOverflowCheck(b, p, left, lastId, qs) ==
    LET stop(e) == [err |-> e, q |-> qs, p |-> p]
    IN IF left = 0 THEN stop("none")
       ELSE IF p > Len(b) THEN stop("OUT_OF_BOUNDS")
       ELSE IF b[p] < lastId THEN stop("BAD_ENCODING")
       ELSE IF p + 2 > Len(b) THEN stop("OUT_OF_BOUNDS")
       ELSE ReadQualsNoOverflowCheck(b, p + 3, left - 1, b[p],
                      Append(qs, Qualifier(b[p], b[p + 1], b[p + 2])))

(* Mutant: value and maxDelta are read from swapped offsets.               *)
RECURSIVE ReadQualsSwapped(_, _, _, _, _)
ReadQualsSwapped(b, p, left, lastId, qs) ==
    LET stop(e) == [err |-> e, q |-> qs, p |-> p]
    IN IF left = 0 THEN stop("none")
       ELSE IF p > Len(b) THEN stop("OUT_OF_BOUNDS")
       ELSE IF b[p] < lastId THEN stop("BAD_ENCODING")
       ELSE IF Len(qs) >= MaxQualifiers THEN stop("OVERFLOW")
       ELSE IF p + 2 > Len(b) THEN stop("OUT_OF_BOUNDS")
       ELSE ReadQualsSwapped(b, p + 3, left - 1, b[p],
                      Append(qs, Qualifier(b[p], b[p + 2], b[p + 1])))

(* The qualifier loop of deserialize, from field p with `left` qualifiers  *)
(* still to read. Buffer::at throws when a read runs past the end; the id  *)
(* is read and checked before the value and maxDelta, and a failure keeps  *)
(* the qualifiers already stored.                                          *)
RECURSIVE ReadQuals(_, _, _, _, _)
ReadQuals(b, p, left, lastId, qs) ==
    LET stop(e) == [err |-> e, q |-> qs, p |-> p]
    IN IF left = 0 THEN stop("none")
       ELSE IF p > Len(b) THEN stop("OUT_OF_BOUNDS")
       ELSE IF b[p] < lastId THEN stop("BAD_ENCODING")
       ELSE IF Len(qs) >= MaxQualifiers THEN stop("OVERFLOW")
       ELSE IF p + 2 > Len(b) THEN stop("OUT_OF_BOUNDS")
       ELSE ReadQuals(b, p + 3, left - 1, b[p],
                      Append(qs, Qualifier(b[p], b[p + 1], b[p + 2])))

(* deserialize(b) into the object c: the count and signer are cleared      *)
(* first, and an exception leaves whatever was written before it.          *)
(* The signature is overwritten only when the buffer carries a signer.     *)
Deserialize(c, b) ==
    LET cleared == [c EXCEPT !.q = <<>>, !.signedBy = NullAddress]
        fail(obj, e) == [obj |-> obj, err |-> e]
    IN IF Len(b) < 1 THEN fail(cleared, "OUT_OF_BOUNDS")
       ELSE IF b[1] # 1 THEN fail(cleared, "INVALID_TYPE")
       ELSE IF Len(b) < 2 THEN fail(cleared, "OUT_OF_BOUNDS")
       ELSE
         LET rq == ReadQuals(b, 3, b[2], 0, <<>>)
             withQ == [cleared EXCEPT !.q = rq.q]
         IN IF rq.err # "none" THEN fail(withQ, rq.err)
            ELSE IF rq.p > Len(b) THEN fail(withQ, "OUT_OF_BOUNDS")
            ELSE LET signer == b[rq.p]
                     withS == [withQ EXCEPT !.signedBy = signer]
                 IN IF signer = NullAddress THEN fail(withS, "ok")
                    ELSE IF rq.p + 1 > Len(b) THEN fail(withS, "OUT_OF_BOUNDS")
                    ELSE fail([withS EXCEPT !.sig = b[rq.p + 1]], "ok")

----------------------------------------------------------------------------
(* setQualifier (CertificateOfMembership.cpp): update the qualifier with   *)
(* this id, or append one and sort while there is room; signedBy is set    *)
(* to null and the signature bytes are left as they were.                  *)
SetQualifierOf(c, id, v, d) ==
    LET at == {i \in DOMAIN c.q : c.q[i].id = id}
        ins == SortSeq(Append(c.q, Qualifier(id, v, d)),
                       LAMBDA x, y : x.id < y.id)
    IN [c EXCEPT !.signedBy = NullAddress,
                 !.q = IF at # {}
                         THEN [i \in DOMAIN c.q |->
                                 IF i \in at THEN Qualifier(id, v, d) ELSE c.q[i]]
                         ELSE IF Len(c.q) < MaxQualifiers THEN ins ELSE c.q]

(* operator==: signer, qualifier count, every qualifier field, and the     *)
(* signature bytes, compared whether or not the certificate is signed.     *)
ComEquals(a, b) ==
    /\ a.signedBy = b.signedBy
    /\ Len(a.q) = Len(b.q)
    /\ \A i \in DOMAIN a.q : a.q[i] = b.q[i]
    /\ a.sig = b.sig

Init ==
    /\ sender = EmptyCom
    /\ ops = 0
    /\ wire = <<>>
    /\ origin = "sender"
    /\ receiver = EmptyCom
    /\ result = "none"

(* The controller issues a new certificate for a member.                   *)
NewCom(ts, tsDelta, nwid, issuedTo) ==
    /\ wire = <<>>
    /\ sender' = Construct(ts, tsDelta, nwid, issuedTo)
    /\ ops' = 0
    /\ UNCHANGED <<wire, origin, receiver, result>>

SetQualifier(id, v, d) ==
    /\ wire = <<>>
    /\ ops < MaxSenderOps
    /\ sender' = SetQualifierOf(sender, id, v, d)
    /\ ops' = ops + 1
    /\ UNCHANGED <<wire, origin, receiver, result>>

(* sign(with) (CertificateOfMembership.cpp): the signature over the        *)
(* qualifiers and the signer's address.                                    *)
Sign(s) ==
    /\ wire = <<>>
    /\ ops < MaxSenderOps
    /\ sender' = [sender EXCEPT !.signedBy = s, !.sig = SigOf(sender.q, s)]
    /\ ops' = ops + 1
    /\ UNCHANGED <<wire, origin, receiver, result>>

(* The sender's encoding is put on the wire.                               *)
Send ==
    /\ wire = <<>>
    /\ wire' = Serialize(sender)
    /\ origin' = "sender"
    /\ result' = "none"
    /\ UNCHANGED <<sender, ops, receiver>>

(* A peer sends the encoding of an arbitrary, unsigned qualifier list.     *)
Forge(qs) ==
    /\ wire = <<>>
    /\ wire' = Serialize([EmptyCom EXCEPT !.q = qs])
    /\ origin' = "forged"
    /\ result' = "none"
    /\ UNCHANGED <<sender, ops, receiver>>

(* The sender's buffer ends early (a short packet).                        *)
Truncate(k) ==
    /\ origin = "sender"
    /\ k < Len(wire)
    /\ wire' = SubSeq(wire, 1, k)
    /\ origin' = "truncated"
    /\ result' = "none"
    /\ UNCHANGED <<sender, ops, receiver>>

(* The receiver decodes the buffer, into a new object (the Buffer          *)
(* constructor, or a local declared for it) or into the one it holds. The *)
(* buffer is consumed.                                                     *)
Receive(fresh) ==
    /\ wire # <<>>
    /\ LET d == Deserialize(IF fresh THEN EmptyCom ELSE receiver, wire)
       IN /\ receiver' = d.obj
          /\ result' = d.err
    /\ wire' = <<>>
    /\ UNCHANGED <<sender, ops, origin>>

ForgedQualifiers == {Qualifier(id, 0, 0) : id \in ForgedIds}

Next ==
    \/ \E ts \in Values, d \in Deltas, n \in NetworkIds, a \in Members : NewCom(ts, d, n, a)
    \/ \E id \in SetIds, v \in Values, d \in Deltas : SetQualifier(id, v, d)
    \/ \E s \in Signers : Sign(s)
    \/ Send
    \/ \E qs \in BoundedSeq(ForgedQualifiers, MaxQualifiers + 1) : Forge(qs)
    \/ \E k \in 1..(Len(wire) - 1) : Truncate(k)
    \/ \E fresh \in BOOLEAN : Receive(fresh)

Spec == Init /\ [][Next]_vars

----------------------------------------------------------------------------
(* Every certificate object holds at most ZT_NETWORK_COM_MAX_QUALIFIERS    *)
(* qualifiers of the modelled ids, and the buffer in transit is of the     *)
(* serialized layout.                                                      *)
TypeOK ==
    /\ \A c \in {sender, receiver} :
         /\ Len(c.q) <= MaxQualifiers
         /\ \A i \in DOMAIN c.q : c.q[i].id \in Ids \cup ForgedIds
         /\ c.signedBy \in Signers \cup {NullAddress}
    /\ ops \in 0..MaxSenderOps
    /\ result \in {"none", "ok", "OUT_OF_BOUNDS", "INVALID_TYPE",
                   "BAD_ENCODING", "OVERFLOW"}
    /\ origin \in {"sender", "forged", "truncated"}

(* A certificate decoded without an exception from the sender's encoding   *)
(* is operator== to the sender's when it is signed, into a fresh object or *)
(* the one the receiver held; unsigned, it has the sender's qualifiers and *)
(* null signer (its signature bytes are not on the wire): serialize and    *)
(* deserialize agree on the layout.                                        *)
RoundTrip ==
    [][(origin = "sender" /\ wire # <<>> /\ wire' = <<>> /\ result' = "ok") =>
         IF sender.signedBy # NullAddress
           THEN ComEquals(receiver', sender)
           ELSE receiver'.q = sender.q /\ receiver'.signedBy = NullAddress]_vars

(* deserialize accepts a buffer only when its qualifier ids do not         *)
(* decrease and fit ZT_NETWORK_COM_MAX_QUALIFIERS, which agreesWith's      *)
(* single pass over both certificates relies on.                           *)
DecodedIdsOrdered ==
    result = "ok" =>
        /\ Len(receiver.q) <= MaxQualifiers
        /\ \A i, j \in DOMAIN receiver.q : i < j => receiver.q[i].id <= receiver.q[j].id

============================================================================
