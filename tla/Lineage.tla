------------------------------- MODULE Lineage -------------------------------
(***************************************************************************)
(* Key rotation under a stable node id (rotation.rs and the lineage calls  *)
(* of api.rs): a node that rotates, recovers, crashes and restarts, the    *)
(* host that stores its lineage, and peers that pin it and apply the       *)
(* rotation records they receive in any order and any number of times.     *)
(*                                                                         *)
(* Every call holds the engine's mutex, then the lineage's, for as long as *)
(* it changes either, so each is one action.  Only install, the end of     *)
(* gossip_init, sets the engine first and the lineage afterwards, holding  *)
(* no mutex in between, and is two.                                        *)
(*                                                                         *)
(* Data abstraction: a key pair is its name; seeds stand for the pair they *)
(* generate; a commitment to a signing key is the key (collision freedom); *)
(* a digest is the tuple of its inputs; a signature over the signing input *)
(* of the record it is part of is the key that made it.  Key lengths and   *)
(* versions are always valid between nodes of this program, and the epoch  *)
(* label, which nothing compares, is left out.                             *)
(***************************************************************************)
EXTENDS Integers, Sequences, FiniteSets

CONSTANTS
    Peer,         \* peers that pin the node's lineage
    KemSeed,      \* KEM seeds of the node's host
    SigSeed,      \* signing seeds of the node's host
    First,        \* the seeds the node starts with
    Committed,    \* signing seeds the host commits to in advance
    Restarted,    \* signing seeds a host calls gossip_init with
    Time,         \* readings of the wall clock
    MaxRecords,   \* records that fit in MAX_LINEAGE_BYTES
    Careful,      \* the host persists before anything leaves, recovers a
                  \* stopped node only and restarts from what it persisted
    Hasty,        \* other threads of the host call before gossip_init returns
    MaxSequence,  \* bound: rotations of one lineage
    MaxSent,      \* bound: different lineages sent
    MaxGenerated, \* bound: calls of gossip_rotate_keys
    MaxEnvelopes, \* bound: envelopes of the node
    MaxVerified   \* bound: envelopes each peer verifies

ASSUME SeedAssumption == /\ First \in [kem : KemSeed, sig : SigSeed]
                         /\ Committed \cup Restarted \subseteq SigSeed

ASSUME LineageBoundAssumption ==
    /\ MaxRecords \in Nat
    /\ Careful \in BOOLEAN /\ Hasty \in BOOLEAN
    /\ MaxSequence \in Nat
    /\ MaxSent \in Nat
    /\ MaxGenerated \in Nat
    /\ MaxEnvelopes \in Nat /\ MaxVerified \in Nat

VARIABLES
    identity,   \* GossipEngine.identity, or NoEngine
    lineage,    \* LINEAGE, or NoLineage
    installing, \* the lineage install has still to store, or NoLineage
    overtaken,  \* history: gossip_rotate_keys ran during this install
    disk,       \* the encoded lineage the host has stored
    sent,       \* encoded lineages sent to the peers
    pinned,     \* pinned[p]: the lineage peer p holds
    generated,  \* key pairs gossip_rotate_keys has generated
    envelopes,  \* envelopes the node has signed
    heard,      \* heard[p]: history, the envelopes p has accepted
    stats       \* stats[p]: the message counters of peer p's GossipStats

host == <<disk, sent, generated>>
talk == <<envelopes, heard, stats>>
vars == <<identity, lineage, installing, overtaken, pinned, host, talk>>

-----------------------------------------------------------------------------
(* Values *)

Generated == {"generated"} \X Nat

\* A pair that is drawn afresh is none that a seed stands for.
ASSUME FreshAssumption == \A kem \in KemSeed : kem \notin Generated

KemKey == KemSeed \cup Generated
SigKey == SigSeed \cup Generated
NoCommitment == <<"none">>
NoSignature == <<"empty">>

NodeId == [kem : KemKey, sig : SigKey]
derive_node_id(kem, sig) == [kem |-> kem, sig |-> sig]

NoEngine == [running |-> FALSE]
NodeIdentity == [running : {TRUE}, node_id : NodeId, kem : KemKey, sig : SigKey]

KeyState == [sequence : Nat, kem : KemKey, sig : SigKey,
             next_key_commitment : SigKey \cup {NoCommitment}]

Digest == [node_id : NodeId, state : KeyState]
digest(id, state) == [node_id |-> id, state |-> state]

KeyRotation == [node_id : NodeId, sequence : Nat, prev_state_digest : Digest,
                kem : KemKey, sig : SigKey,
                next_key_commitment : SigKey \cup {NoCommitment},
                timestamp : Time, authorization : SigKey \cup {NoSignature},
                possession : SigKey]

NoLineage == [held |-> FALSE]
KeyLineage == [held : {TRUE}, node_id : NodeId, inception : KeyState,
               rotations : Seq(KeyRotation), current : KeyState]

LineageWire == [kem : KemKey, sig : SigKey, rotations : Seq(KeyRotation)]

\* GossipEnvelope, as far as its sender goes; chain is history, the lineage
\* that vouched for the signing key when it signed.
GossipEnvelope == [sender_node_id : NodeId, sender_public_key : SigKey,
                   chain : LineageWire]
Acceptance == [envelope : GossipEnvelope, pin : LineageWire]

-----------------------------------------------------------------------------
(* KeyLineage *)

InceptionState(kem, sig) ==
    [sequence |-> 0, kem |-> kem, sig |-> sig, next_key_commitment |-> NoCommitment]

\* KeyLineage::inception; from_identity adds only a check that a freshly
\* derived id passes.
inception(kem, sig) ==
    [held |-> TRUE, node_id |-> derive_node_id(kem, sig),
     inception |-> InceptionState(kem, sig), rotations |-> <<>>,
     current |-> InceptionState(kem, sig)]

StateOf(r) == [sequence |-> r.sequence, kem |-> r.kem, sig |-> r.sig,
               next_key_commitment |-> r.next_key_commitment]

\* The checks of KeyLineage::verify_next on a successor of state.
Follows(id, state, r) ==
    /\ r.node_id = id
    /\ r.sequence = state.sequence + 1
    /\ r.prev_state_digest = digest(id, state)
    /\ r.possession = r.sig
    /\ IF state.next_key_commitment = NoCommitment
       THEN r.authorization = state.sig
       ELSE r.sig = state.next_key_commitment /\ r.authorization = NoSignature

\* Mutant: the digest of the replaced state is not compared.
verify_next_any_digest(l, r) ==
    /\ r.node_id = l.node_id
    /\ r.sequence = l.current.sequence + 1
    /\ r.possession = r.sig
    /\ IF l.current.next_key_commitment = NoCommitment
       THEN r.authorization = l.current.sig
       ELSE r.sig = l.current.next_key_commitment /\ r.authorization = NoSignature

\* Mutant: the commitment is not compared.
verify_next_any_key(l, r) ==
    /\ r.node_id = l.node_id
    /\ r.sequence = l.current.sequence + 1
    /\ r.prev_state_digest = digest(l.node_id, l.current)
    /\ r.possession = r.sig

verify_next(l, r) == Follows(l.node_id, l.current, r)

Extended(l, r) ==
    [held |-> TRUE, node_id |-> l.node_id, inception |-> l.inception,
     rotations |-> Append(l.rotations, r), current |-> StateOf(r)]

Known(l, r) == 1 <= r.sequence /\ r.sequence <= l.current.sequence

\* The error "lineage fork" of KeyLineage::apply.
ReportsFork(l, r) == Known(l, r) /\ l.rotations[r.sequence] # r

\* Mutant: the later record of two wins.
apply_last_wins(l, r) ==
    IF ReportsFork(l, r)
    THEN [held |-> TRUE, node_id |-> l.node_id, inception |-> l.inception,
          rotations |-> Append(SubSeq(l.rotations, 1, r.sequence - 1), r),
          current |-> StateOf(r)]
    ELSE IF ~Known(l, r) /\ verify_next(l, r) THEN Extended(l, r) ELSE l

\* Mutant: the sequence compared is that of the state replaced.
apply_off_by_one(l, r) ==
    IF ~Known(l, r) /\ r.sequence = l.current.sequence /\ verify_next(l, r)
    THEN Extended(l, r) ELSE l

\* KeyLineage::apply: a known record changes nothing, whether it is refused as
\* a fork or not.
apply(l, r) == IF ~Known(l, r) /\ verify_next(l, r) THEN Extended(l, r) ELSE l

\* Mutant: the two inception keys exchanged.
encode_swapped(l) == [kem |-> l.inception.sig, sig |-> l.inception.kem,
                      rotations |-> l.rotations]

encode(l) == [kem |-> l.inception.kem, sig |-> l.inception.sig, rotations |-> l.rotations]

\* The state record i of a chain replaces.
StateBefore(w, i) == IF i = 1 THEN InceptionState(w.kem, w.sig)
                              ELSE StateOf(w.rotations[i - 1])

\* Mutant: a chain of just the limit is refused.
decode_below_limit(w) ==
    LET id == derive_node_id(w.kem, w.sig)
        size == Len(w.rotations)
    IN  IF /\ size < MaxRecords
           /\ \A i \in 1 .. size : Follows(id, StateBefore(w, i), w.rotations[i])
        THEN {[held |-> TRUE, node_id |-> id,
               inception |-> InceptionState(w.kem, w.sig),
               rotations |-> w.rotations, current |-> StateBefore(w, size + 1)]}
        ELSE {}

\* KeyLineage::decode: no lineage, or the one its loop builds when every
\* record follows the one before it.
decode(w) ==
    LET id == derive_node_id(w.kem, w.sig)
        size == Len(w.rotations)
    IN  IF /\ size <= MaxRecords
           /\ \A i \in 1 .. size : Follows(id, StateBefore(w, i), w.rotations[i])
        THEN {[held |-> TRUE, node_id |-> id,
               inception |-> InceptionState(w.kem, w.sig),
               rotations |-> w.rotations, current |-> StateBefore(w, size + 1)]}
        ELSE {}

\* The record build_and_apply makes of the current state; signer is unused
\* while a commitment is in force.
BuildRotation(l, signer, kem, sig, commitment, timestamp) ==
    [node_id |-> l.node_id, sequence |-> l.current.sequence + 1,
     prev_state_digest |-> digest(l.node_id, l.current), kem |-> kem, sig |-> sig,
     next_key_commitment |-> commitment, timestamp |-> timestamp,
     authorization |-> IF l.current.next_key_commitment = NoCommitment
                       THEN signer ELSE NoSignature,
     possession |-> sig]

\* Mutant: the key a lineage started with.
check_envelope_sender_inception(l, envelope) ==
    /\ envelope.sender_node_id = l.node_id
    /\ envelope.sender_public_key = l.inception.sig

\* KeyLineage::check_envelope_sender
check_envelope_sender(l, envelope) ==
    /\ envelope.sender_node_id = l.node_id
    /\ envelope.sender_public_key = l.current.sig

-----------------------------------------------------------------------------
(* The node and its host *)

\* A call finds an engine; other than a hasty host's, it comes after the
\* call that set it has returned.
Callable == identity # NoEngine /\ (Hasty \/ installing = NoLineage)

\* The first half of install: GOSSIP_STATE is set, once in a process.
Install(id, l) ==
    /\ identity = NoEngine
    /\ identity' = id
    /\ installing' = l
    /\ UNCHANGED <<lineage, overtaken, pinned, host, talk>>

\* The second half of install: LINEAGE is set, whatever it was.
FinishInstall ==
    /\ installing # NoLineage
    /\ lineage' = installing
    /\ installing' = NoLineage
    /\ UNCHANGED <<identity, overtaken, pinned, host, talk>>

\* gossip_init with seeds.
GossipInit(kem, sig) ==
    /\ ~Careful /\ sig \in Restarted
    /\ Install([running |-> TRUE, node_id |-> derive_node_id(kem, sig),
                kem |-> kem, sig |-> sig], inception(kem, sig))

\* gossip_init_with_lineage: the host has the seeds of the current keys.
GossipInitWithLineage(kem, sig) ==
    \E l \in decode(disk) :
        /\ sig = l.current.sig
        /\ kem = l.current.kem
        /\ Install([running |-> TRUE, node_id |-> l.node_id, kem |-> kem, sig |-> sig], l)

\* Mutant: the new identity keeps the id derived from its own keys.
RotateKeysUnderIdDerived(kem, sig, commitment, timestamp) ==
    LET r == BuildRotation(lineage, identity.sig, kem, sig, commitment, timestamp)
    IN  /\ Callable /\ lineage # NoLineage
        /\ lineage.current.sequence < MaxSequence
        /\ lineage.node_id = identity.node_id
        /\ identity.sig = lineage.current.sig
        /\ verify_next(lineage, r)
        /\ lineage' = Extended(lineage, r)
        /\ identity' = [running |-> TRUE, node_id |-> derive_node_id(kem, sig),
                        kem |-> kem, sig |-> sig]
        /\ UNCHANGED <<installing, overtaken, pinned, host, talk>>

\* Mutant: the copy that was extended is not stored back.
RotateKeysUnderIdForgetting(kem, sig, commitment, timestamp) ==
    LET r == BuildRotation(lineage, identity.sig, kem, sig, commitment, timestamp)
    IN  /\ Callable /\ lineage # NoLineage
        /\ lineage.current.sequence < MaxSequence
        /\ lineage.node_id = identity.node_id
        /\ identity.sig = lineage.current.sig
        /\ verify_next(lineage, r)
        /\ identity' = [running |-> TRUE, node_id |-> lineage.node_id,
                        kem |-> kem, sig |-> sig]
        /\ disk' = encode(Extended(lineage, r))
        /\ UNCHANGED <<lineage, installing, overtaken, pinned, sent, generated, talk>>

\* gossip_rotate_keys_under_id; a refused rotation changes nothing.
RotateKeysUnderId(kem, sig, commitment, timestamp) ==
    LET r == BuildRotation(lineage, identity.sig, kem, sig, commitment, timestamp)
    IN  /\ Callable /\ lineage # NoLineage
        /\ lineage.current.sequence < MaxSequence
        /\ lineage.node_id = identity.node_id
        /\ identity.sig = lineage.current.sig
        /\ verify_next(lineage, r)
        /\ lineage' = Extended(lineage, r)
        /\ identity' = [running |-> TRUE, node_id |-> lineage.node_id,
                        kem |-> kem, sig |-> sig]
        /\ UNCHANGED <<installing, overtaken, pinned, host, talk>>

\* gossip_rotate_keys: generated keys, a new id and a new lineage.
RotateKeys ==
    LET key == <<"generated", generated>>
    IN  /\ Callable
        /\ generated < MaxGenerated
        /\ generated' = generated + 1
        /\ identity' = [running |-> TRUE, node_id |-> derive_node_id(key, key),
                        kem |-> key, sig |-> key]
        /\ lineage' = inception(key, key)
        /\ overtaken' = (installing # NoLineage)
        /\ UNCHANGED <<installing, pinned, disk, sent, talk>>

\* gossip_recover_lineage on the stored lineage; the host stores the result.
RecoverLineage(kem, sig, commitment, timestamp) ==
    /\ Careful => identity = NoEngine
    /\ \E l \in decode(disk) :
           LET r == BuildRotation(l, NoSignature, kem, sig, commitment, timestamp)
           IN  /\ l.current.sequence < MaxSequence
               /\ l.current.next_key_commitment # NoCommitment
               /\ verify_next(l, r)
               /\ disk' = encode(Extended(l, r))
    /\ UNCHANGED <<identity, lineage, installing, overtaken, pinned, sent, generated, talk>>

\* The host stores what gossip_get_key_lineage returns.
Persist ==
    /\ lineage # NoLineage
    /\ disk' = encode(lineage)
    /\ UNCHANGED <<identity, lineage, installing, overtaken, pinned, sent, generated, talk>>

\* The host sends what it has stored, or what it has not stored yet.
Send ==
    /\ \/ sent' = sent \cup {disk}
       \/ ~Careful /\ lineage # NoLineage /\ sent' = sent \cup {encode(lineage)}
    /\ Cardinality(sent') <= MaxSent
    /\ UNCHANGED <<identity, lineage, installing, overtaken, pinned, disk, generated, talk>>

\* The process ends: only what the host has stored is left.
Crash ==
    /\ identity # NoEngine
    /\ identity' = NoEngine
    /\ lineage' = NoLineage
    /\ installing' = NoLineage
    /\ overtaken' = FALSE
    /\ UNCHANGED <<pinned, host, talk>>

\* The lineage that vouches for the engine's keys.
Vouching == IF lineage = NoLineage THEN installing ELSE lineage

\* gossip_encode_envelope: the engine's id and key, no look at the lineage.
EncodeEnvelope ==
    /\ Callable
    /\ Careful => disk = encode(Vouching)
    /\ envelopes' = envelopes \cup
           {[sender_node_id |-> identity.node_id, sender_public_key |-> identity.sig,
             chain |-> encode(Vouching)]}
    /\ Cardinality(envelopes') <= MaxEnvelopes
    /\ UNCHANGED <<identity, lineage, installing, overtaken, pinned, host, heard, stats>>

-----------------------------------------------------------------------------
(* Peers *)

Records == UNION {{w.rotations[i] : i \in 1 .. Len(w.rotations)} : w \in sent}

\* A peer applies a record of a lineage it was sent.
PeerApply(p, r) ==
    /\ pinned' = [pinned EXCEPT ![p] = apply(@, r)]
    /\ UNCHANGED <<identity, lineage, installing, overtaken, host, talk>>

\* gossip_verify_envelope_from_lineage with the peer's pin; valid is the outcome
\* of verify_envelope, which knows nothing of lineages.
VerifyFromLineage(p, envelope, valid) ==
    /\ stats[p].messages_received + stats[p].messages_dropped < MaxVerified
    /\ \E l \in decode(encode(pinned[p])) :
           IF check_envelope_sender(l, envelope) /\ valid
           THEN /\ stats' = [stats EXCEPT ![p].messages_received = @ + 1]
                /\ heard' = [heard EXCEPT ![p] =
                       Append(@, [envelope |-> envelope, pin |-> encode(l)])]
           ELSE /\ stats' = [stats EXCEPT ![p].messages_dropped = @ + 1]
                /\ UNCHANGED heard
    /\ UNCHANGED <<identity, lineage, installing, overtaken, pinned, host, envelopes>>

-----------------------------------------------------------------------------

Init ==
    /\ identity = [running |-> TRUE, node_id |-> derive_node_id(First.kem, First.sig),
                   kem |-> First.kem, sig |-> First.sig]
    /\ lineage = inception(First.kem, First.sig)
    /\ installing = NoLineage
    /\ overtaken = FALSE
    /\ disk = encode(inception(First.kem, First.sig))
    /\ sent = {}
    /\ pinned = [p \in Peer |-> inception(First.kem, First.sig)]
    /\ generated = 0
    /\ envelopes = {}
    /\ heard = [p \in Peer |-> <<>>]
    /\ stats = [p \in Peer |-> [messages_received |-> 0, messages_dropped |-> 0]]

Next ==
    \/ \E kem \in KemSeed, sig \in SigSeed :
           \/ GossipInit(kem, sig)
           \/ GossipInitWithLineage(kem, sig)
           \/ \E c \in Committed \cup {NoCommitment}, t \in Time :
                  \/ RotateKeysUnderId(kem, sig, c, t)
                  \/ RecoverLineage(kem, sig, c, t)
    \/ FinishInstall \/ RotateKeys \/ Persist \/ Send \/ Crash \/ EncodeEnvelope
    \/ \E p \in Peer :
           \/ \E r \in Records : PeerApply(p, r)
           \/ \E envelope \in envelopes, valid \in BOOLEAN :
                  VerifyFromLineage(p, envelope, valid)

Spec == Init /\ [][Next]_vars

\* Peers are handed every record again until they have applied it.
DistributionFairness ==
    \A p \in Peer : WF_vars(\E r \in Records : PeerApply(p, r))

DistributedSpec == Spec /\ DistributionFairness

-----------------------------------------------------------------------------
(* Properties *)

\* Engine, stored and sent lineages, and pins have their types.
TypeOK ==
    /\ identity \in NodeIdentity \cup {NoEngine}
    /\ lineage \in KeyLineage \cup {NoLineage}
    /\ disk \in LineageWire
    /\ sent \subseteq LineageWire
    /\ pinned \in [Peer -> KeyLineage]
    /\ generated \in Nat
    /\ installing \in KeyLineage \cup {NoLineage}
    /\ overtaken \in BOOLEAN
    /\ envelopes \subseteq GossipEnvelope
    /\ heard \in [Peer -> Seq(Acceptance)]
    /\ stats \in [Peer -> [messages_received : Nat, messages_dropped : Nat]]

\* After every call, rotation and restart, and between the two halves of
\* install, the engine runs under its lineage's id with its current keys: what
\* it signs is what its lineage vouches for.  The one exception is an install
\* that a rotation to a new id has overtaken, which leaves the lineage of an id
\* that is not the engine's, so that no rotation can extend it.
EngineSpeaks ==
    LET Agrees(l) == /\ identity.node_id = l.node_id
                     /\ identity.kem = l.current.kem
                     /\ identity.sig = l.current.sig
    IN  IF identity = NoEngine THEN Vouching = NoLineage
        ELSE /\ Vouching # NoLineage
             /\ IF overtaken /\ installing = NoLineage
                THEN identity.node_id # Vouching.node_id
                ELSE Agrees(Vouching)

\* Every chain of a node id that exists anywhere.
Wires == {disk} \cup sent \cup {encode(pinned[p]) : p \in Peer}
         \cup (IF lineage = NoLineage THEN {} ELSE {encode(lineage)})

IsChain(w) == \A i \in 1 .. Len(w.rotations) :
                  Follows(derive_node_id(w.kem, w.sig), StateBefore(w, i), w.rotations[i])

\* l is the lineage its own wire form stands for.
IsLineage(l) ==
    /\ l.node_id = derive_node_id(l.inception.kem, l.inception.sig)
    /\ l.inception = InceptionState(l.inception.kem, l.inception.sig)
    /\ l.current = StateBefore(encode(l), Len(l.rotations) + 1)
    /\ l.current.sequence = Len(l.rotations)

\* "Holding a KeyLineage means holding a valid chain": every chain in memory,
\* stored, sent or pinned verifies from its inception on, and the current state
\* a holder keeps is the one the chain ends in.
ChainsVerify ==
    /\ \A w \in Wires : IsChain(w)
    /\ \A p \in Peer : IsLineage(pinned[p])
    /\ lineage # NoLineage => IsLineage(lineage)

\* Once a state carries a commitment, all its successors anywhere, forks
\* included, have the committed signing key: a stale copy of the node, a
\* recovery and a peer can disagree about the record but not about that key.
CommitmentBinds ==
    \A v, w \in Wires : \A i \in 1 .. Len(v.rotations) : \A j \in 1 .. Len(w.rotations) :
        LET r == v.rotations[i]
            s == w.rotations[j]
        IN  /\ r.prev_state_digest = s.prev_state_digest
            /\ r.prev_state_digest.state.next_key_commitment # NoCommitment
            => r.sig = s.sig

IsPrefixOf(s, t) == Len(s) <= Len(t) /\ \A i \in 1 .. Len(s) : s[i] = t[i]

\* apply never takes back or replaces a record a peer has accepted, whatever
\* records arrive in whatever order.
PinnedGrows ==
    [][\A p \in Peer : /\ pinned'[p].node_id = pinned[p].node_id
                       /\ IsPrefixOf(pinned[p].rotations, pinned'[p].rotations)]_vars

\* With a careful host, crashes at any point never fork a node id: of two
\* chains of one id, one extends the other.
NoFork ==
    \A v, w \in Wires :
        v.kem = w.kem /\ v.sig = w.sig =>
            IsPrefixOf(v.rotations, w.rotations) \/ IsPrefixOf(w.rotations, v.rotations)

OneLine(v, w) ==
    /\ v.kem = w.kem /\ v.sig = w.sig
    /\ IsPrefixOf(v.rotations, w.rotations) \/ IsPrefixOf(w.rotations, v.rotations)

LastState(w) == StateBefore(w, Len(w.rotations) + 1)

\* With a careful host, whatever a peer counts as received from its pinned node
\* was signed at a point of the history the peer has pinned, earlier or later,
\* and with the key that is current where the peer stands.
HeardIsSpoken ==
    \A p \in Peer :
        /\ stats[p].messages_received = Len(heard[p])
        /\ \A i \in 1 .. Len(heard[p]) :
               LET h == heard[p][i]
               IN  /\ OneLine(h.envelope.chain, h.pin)
                   /\ LastState(h.envelope.chain).sig = LastState(h.pin).sig

\* With a careful host, a peer comes to accept what the running engine signs
\* once the node's lineage has been sent.
SpeakerHeard ==
    \A p \in Peer :
        []<>(/\ identity # NoEngine
             /\ identity.node_id = pinned[p].node_id
             /\ encode(Vouching) \in sent
             => check_envelope_sender(pinned[p],
                    [sender_node_id |-> identity.node_id,
                     sender_public_key |-> identity.sig]))

\* With a careful host, peers end up with every record sent to them of the id
\* they pin, although records arrive in any order.
PeersCatchUp ==
    \A p \in Peer :
        []<>(\A r \in Records :
                r.node_id = pinned[p].node_id =>
                    Known(pinned[p], r) /\ ~ReportsFork(pinned[p], r))

\* "A different valid record at a sequence the chain already has is reported as
\* a fork": what a peer reports as a fork verifies at that sequence.
ForkIsValidRecord ==
    \A p \in Peer : \A r \in Records :
        ReportsFork(pinned[p], r) =>
            Follows(pinned[p].node_id, StateBefore(encode(pinned[p]), r.sequence), r)

\* What the host has stored restarts the node, as what it was, as long as it
\* fits in MAX_LINEAGE_BYTES: decode gives back what encode was given.
Restartable ==
    /\ Len(disk.rotations) <= MaxRecords => \E l \in decode(disk) : encode(l) = disk
    /\ Vouching # NoLineage /\ Len(Vouching.rotations) <= MaxRecords
           => decode(encode(Vouching)) = {Vouching}
=============================================================================
