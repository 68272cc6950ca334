---------------------------- MODULE LineageProofs ----------------------------
(***************************************************************************)
(* Proofs about Lineage: for any peers, seeds, clock and bounds, and for   *)
(* any host where a theorem does not say that the host is careful.         *)
(***************************************************************************)
EXTENDS Lineage, TLAPS

IdOf(w) == derive_node_id(w.kem, w.sig)

\* A wire form whose records follow each other and are numbered from 1.
GoodWire(w) ==
    /\ w \in LineageWire
    /\ IsChain(w)
    /\ \A i \in 1 .. Len(w.rotations) : w.rotations[i].sequence = i

\* A lineage that is what its wire form, a good one, stands for.
Good(l) == l \in KeyLineage /\ IsLineage(l) /\ GoodWire(encode(l))

-----------------------------------------------------------------------------
(* Chains and lineages *)

LEMMA NoLineageApart == \A l \in KeyLineage : l # NoLineage
<1> TAKE l \in KeyLineage
<1>1. l.held \in {TRUE}
  BY DEF KeyLineage
<1>2. NoLineage.held = FALSE
  BY DEF NoLineage
<1> QED  BY <1>1, <1>2

LEMMA EncodeType ==
    ASSUME NEW l \in KeyLineage
    PROVE  /\ encode(l) \in LineageWire
           /\ encode(l).rotations = l.rotations /\ l.rotations \in Seq(KeyRotation)
           /\ Len(l.rotations) \in Nat
           /\ encode(l).kem = l.inception.kem /\ encode(l).sig = l.inception.sig
<1>1. /\ l.inception \in KeyState /\ l.rotations \in Seq(KeyRotation)
  BY DEF KeyLineage
<1>2. l.inception.kem \in KemKey /\ l.inception.sig \in SigKey
  BY <1>1 DEF KeyState
<1> QED  BY <1>1, <1>2 DEF encode, LineageWire

LEMMA StateTypes ==
    ASSUME NEW kem \in KemKey, NEW sig \in SigKey
    PROVE  InceptionState(kem, sig) \in KeyState /\ derive_node_id(kem, sig) \in NodeId
  BY DEF InceptionState, KeyState, derive_node_id, NodeId

LEMMA RecordState ==
    ASSUME NEW r \in KeyRotation
    PROVE  StateOf(r) \in KeyState /\ StateOf(r).sequence = r.sequence /\ r.sequence \in Nat
           /\ StateOf(r).sig = r.sig /\ StateOf(r).kem = r.kem
  BY DEF StateOf, KeyState, KeyRotation

\* An inception is a good lineage without records.
LEMMA InceptionGood ==
    ASSUME NEW kem \in KemKey, NEW sig \in SigKey
    PROVE  /\ Good(inception(kem, sig))
           /\ encode(inception(kem, sig)) = [kem |-> kem, sig |-> sig, rotations |-> <<>>]
           /\ inception(kem, sig).node_id = derive_node_id(kem, sig)
           /\ inception(kem, sig).current.kem = kem /\ inception(kem, sig).current.sig = sig
<1> DEFINE l == inception(kem, sig)
<1>1. /\ l.held = TRUE /\ l.node_id = derive_node_id(kem, sig)
      /\ l.inception = InceptionState(kem, sig) /\ l.current = InceptionState(kem, sig)
      /\ l.rotations = <<>>
  BY DEF inception
<1>2. l \in KeyLineage
  <2>1. <<>> \in Seq(KeyRotation)
    OBVIOUS
  <2> QED  BY <2>1, StateTypes DEF inception, KeyLineage
<1> HIDE DEF l
<1>3. l.inception.kem = kem /\ l.inception.sig = sig /\ l.current.sequence = 0
      /\ l.current.kem = kem /\ l.current.sig = sig
  BY <1>1 DEF InceptionState
<1>4. encode(l) = [kem |-> kem, sig |-> sig, rotations |-> <<>>]
  BY <1>1, <1>3 DEF encode
<1>5. Len(encode(l).rotations) = 0 /\ Len(l.rotations) = 0
  BY <1>1, <1>4
<1>6. StateBefore(encode(l), 1) = InceptionState(kem, sig)
  BY <1>4 DEF StateBefore
<1>7. IsLineage(l)
  BY <1>1, <1>3, <1>5, <1>6 DEF IsLineage
<1>8. GoodWire(encode(l))
  BY <1>2, <1>5, EncodeType DEF GoodWire, IsChain
<1> QED  BY <1>1, <1>2, <1>3, <1>4, <1>7, <1>8 DEF Good, l

\* Appending a record leaves the states before the old records, and the new
\* record replaces the state the chain ended in.
LEMMA AppendStates ==
    ASSUME NEW w \in LineageWire, NEW v \in LineageWire, NEW r \in KeyRotation,
           v.kem = w.kem, v.sig = w.sig, v.rotations = Append(w.rotations, r)
    PROVE  /\ Len(v.rotations) = Len(w.rotations) + 1 /\ Len(w.rotations) \in Nat
           /\ \A i \in 1 .. Len(w.rotations) : v.rotations[i] = w.rotations[i]
           /\ v.rotations[Len(w.rotations) + 1] = r
           /\ \A i \in 1 .. Len(w.rotations) + 1 : StateBefore(v, i) = StateBefore(w, i)
           /\ StateBefore(v, Len(w.rotations) + 2) = StateOf(r)
<1> DEFINE s == w.rotations
<1>1. s \in Seq(KeyRotation)
  BY DEF LineageWire
<1>2. /\ Len(v.rotations) = Len(s) + 1 /\ Len(s) \in Nat
      /\ \A i \in 1 .. Len(s) : v.rotations[i] = s[i]
      /\ v.rotations[Len(s) + 1] = r
  BY <1>1
<1>3. ASSUME NEW i \in 1 .. Len(s) + 1
      PROVE  StateBefore(v, i) = StateBefore(w, i)
  <2>1. CASE i = 1
    BY <2>1 DEF StateBefore
  <2>2. CASE i # 1
    <3>1. v.rotations[i - 1] = s[i - 1]
      BY <1>2, <2>2
    <3> QED  BY <2>2, <3>1 DEF StateBefore
  <2> QED  BY <2>1, <2>2
<1>4. StateBefore(v, Len(s) + 2) = StateOf(r)
  <2>1. Len(s) + 2 # 1 /\ (Len(s) + 2) - 1 = Len(s) + 1
    BY <1>2
  <2> QED  BY <1>2, <2>1 DEF StateBefore
<1> QED  BY <1>2, <1>3, <1>4

\* verify_next is what a good lineage needs to stay one.
LEMMA ExtendedGood ==
    ASSUME NEW l, Good(l), NEW r \in KeyRotation, verify_next(l, r)
    PROVE  /\ Good(Extended(l, r))
           /\ Extended(l, r).node_id = l.node_id
           /\ encode(Extended(l, r)).kem = encode(l).kem
           /\ encode(Extended(l, r)).sig = encode(l).sig
           /\ encode(Extended(l, r)).rotations = Append(encode(l).rotations, r)
           /\ Extended(l, r).current.kem = r.kem /\ Extended(l, r).current.sig = r.sig
           /\ r.sequence = Len(encode(l).rotations) + 1
<1> DEFINE x == Extended(l, r)
           w == encode(l)
           v == encode(x)
<1>1. /\ x.held = TRUE /\ x.node_id = l.node_id /\ x.inception = l.inception
      /\ x.rotations = Append(l.rotations, r) /\ x.current = StateOf(r)
  BY DEF Extended
<1>2. l \in KeyLineage /\ IsLineage(l) /\ GoodWire(w)
  BY DEF Good
<1>3. /\ l.node_id \in NodeId /\ l.inception \in KeyState /\ l.rotations \in Seq(KeyRotation)
      /\ l.current \in KeyState
  BY <1>2 DEF KeyLineage
<1>4. x \in KeyLineage
  <2>1. Append(l.rotations, r) \in Seq(KeyRotation)
    BY <1>3
  <2> QED  BY <1>3, <2>1, RecordState DEF Extended, KeyLineage
<1> HIDE DEF x
<1>5. /\ w \in LineageWire /\ w.rotations = l.rotations
      /\ w.kem = l.inception.kem /\ w.sig = l.inception.sig
  BY <1>2, EncodeType
<1>6. /\ v \in LineageWire /\ v.rotations = x.rotations
      /\ v.kem = x.inception.kem /\ v.sig = x.inception.sig
  BY <1>4, EncodeType
<1> HIDE DEF w, v
<1> DEFINE n == Len(w.rotations)
<1>7. /\ Len(v.rotations) = n + 1 /\ n \in Nat
      /\ \A i \in 1 .. n : v.rotations[i] = w.rotations[i]
      /\ v.rotations[n + 1] = r
      /\ \A i \in 1 .. n + 1 : StateBefore(v, i) = StateBefore(w, i)
      /\ StateBefore(v, n + 2) = StateOf(r)
  <2>1. v.kem = w.kem /\ v.sig = w.sig /\ v.rotations = Append(w.rotations, r)
    BY <1>1, <1>5, <1>6
  <2> QED  BY <1>5, <1>6, <2>1, AppendStates
<1>8. /\ l.current = StateBefore(w, n + 1) /\ l.current.sequence = n
      /\ l.node_id = derive_node_id(l.inception.kem, l.inception.sig)
      /\ l.inception = InceptionState(l.inception.kem, l.inception.sig)
  BY <1>2, <1>5 DEF IsLineage, w
<1>9. Follows(l.node_id, l.current, r) /\ r.sequence = n + 1
  BY <1>8 DEF verify_next, Follows
<1>10. GoodWire(v)
  <2>1. ASSUME NEW i \in 1 .. n + 1
        PROVE  Follows(derive_node_id(v.kem, v.sig), StateBefore(v, i), v.rotations[i])
               /\ v.rotations[i].sequence = i
    <3>1. v.kem = w.kem /\ v.sig = w.sig
      BY <1>1, <1>5, <1>6
    <3>2. CASE i \in 1 .. n
      BY <1>2, <1>7, <3>1, <3>2 DEF GoodWire, IsChain
    <3>3. CASE i = n + 1
      BY <1>5, <1>7, <1>8, <1>9, <3>1, <3>3
    <3> QED  BY <1>7, <3>2, <3>3
  <2> QED  BY <1>6, <1>7, <2>1 DEF GoodWire, IsChain
<1>11. IsLineage(x)
  <2>1. x.current = StateBefore(v, Len(x.rotations) + 1) /\ x.current.sequence = Len(x.rotations)
    <3>1. Len(x.rotations) = n + 1
      BY <1>6, <1>7
    <3> QED  BY <1>1, <1>7, <1>9, <3>1, RecordState
  <2> QED  BY <1>1, <1>8, <2>1 DEF IsLineage, v
<1>12. Good(x)
  BY <1>4, <1>10, <1>11 DEF Good, v
<1> QED  BY <1>1, <1>5, <1>6, <1>9, <1>12, RecordState DEF x, w, v

\* decode gives a good lineage, which encode turns back into what was decoded.
LEMMA DecodeGood ==
    ASSUME NEW w, GoodWire(w), NEW l \in decode(w)
    PROVE  /\ Good(l) /\ encode(l) = w
           /\ l.node_id = IdOf(w) /\ l.current = LastState(w)
<1> DEFINE n == Len(w.rotations)
<1>1. /\ w \in LineageWire /\ w.kem \in KemKey /\ w.sig \in SigKey
      /\ w.rotations \in Seq(KeyRotation) /\ n \in Nat
  BY DEF GoodWire, LineageWire
<1>2. l = [held |-> TRUE, node_id |-> derive_node_id(w.kem, w.sig),
           inception |-> InceptionState(w.kem, w.sig),
           rotations |-> w.rotations, current |-> StateBefore(w, n + 1)]
  BY DEF decode
<1>3. /\ l.held = TRUE /\ l.node_id = derive_node_id(w.kem, w.sig)
      /\ l.inception = InceptionState(w.kem, w.sig)
      /\ l.rotations = w.rotations /\ l.current = StateBefore(w, n + 1)
  BY <1>2
<1>4. l.inception.kem = w.kem /\ l.inception.sig = w.sig
  BY <1>3 DEF InceptionState
<1>5. encode(l) = w
  BY <1>1, <1>3, <1>4 DEF encode, LineageWire
<1>6. StateBefore(w, n + 1) \in KeyState /\ StateBefore(w, n + 1).sequence = n
  <2>1. CASE n = 0
    BY <1>1, <2>1, StateTypes DEF StateBefore, InceptionState
  <2>2. CASE n # 0
    <3>1. n \in 1 .. n /\ n + 1 # 1 /\ (n + 1) - 1 = n
      BY <1>1, <2>2
    <3>2. w.rotations[n] \in KeyRotation /\ w.rotations[n].sequence = n
      BY <1>1, <3>1 DEF GoodWire
    <3> QED  BY <3>1, <3>2, RecordState DEF StateBefore
  <2> QED  BY <2>1, <2>2
<1>7. l \in KeyLineage
  BY <1>1, <1>2, <1>6, StateTypes DEF KeyLineage
<1>8. IsLineage(l)
  BY <1>3, <1>4, <1>5, <1>6 DEF IsLineage
<1> QED  BY <1>3, <1>5, <1>7, <1>8 DEF Good, IdOf, LastState

\* A good wire form that fits is decoded.
LEMMA DecodeFits ==
    ASSUME NEW w, GoodWire(w), Len(w.rotations) <= MaxRecords
    PROVE  decode(w) # {}
  BY DEF decode, GoodWire, IsChain

\* decode takes back what encode did.
LEMMA DecodeEncode ==
    ASSUME NEW l, Good(l), Len(l.rotations) <= MaxRecords
    PROVE  decode(encode(l)) = {l}
<1> DEFINE w == encode(l)
<1>1. l \in KeyLineage /\ IsLineage(l) /\ GoodWire(w)
  BY DEF Good
<1>2. /\ w.rotations = l.rotations /\ w.kem = l.inception.kem /\ w.sig = l.inception.sig
  BY <1>1, EncodeType
<1>3. decode(w) = {[held |-> TRUE, node_id |-> derive_node_id(w.kem, w.sig),
                    inception |-> InceptionState(w.kem, w.sig), rotations |-> w.rotations,
                    current |-> StateBefore(w, Len(w.rotations) + 1)]}
  BY <1>1, <1>2 DEF decode, GoodWire, IsChain
<1>4. /\ l.node_id = derive_node_id(w.kem, w.sig)
      /\ l.inception = InceptionState(w.kem, w.sig)
      /\ l.current = StateBefore(w, Len(w.rotations) + 1)
  BY <1>1, <1>2 DEF IsLineage
<1> HIDE DEF w
<1>5. l.held = TRUE
  BY <1>1 DEF KeyLineage
<1>6. l = [held |-> TRUE, node_id |-> l.node_id, inception |-> l.inception,
           rotations |-> l.rotations, current |-> l.current]
  BY <1>1, <1>5 DEF KeyLineage
<1> QED  BY <1>2, <1>3, <1>4, <1>6 DEF w

\* The records a host makes.
LEMMA BuiltType ==
    ASSUME NEW l \in KeyLineage, NEW signer \in SigKey \cup {NoSignature},
           NEW kem \in KemSeed, NEW sig \in SigSeed, NEW c \in Committed \cup {NoCommitment},
           NEW t \in Time
    PROVE  /\ BuildRotation(l, signer, kem, sig, c, t) \in KeyRotation
           /\ BuildRotation(l, signer, kem, sig, c, t).kem = kem
           /\ BuildRotation(l, signer, kem, sig, c, t).sig = sig
<1> DEFINE a == IF l.current.next_key_commitment = NoCommitment THEN signer ELSE NoSignature
           d == digest(l.node_id, l.current)
<1>1. l.node_id \in NodeId /\ l.current \in KeyState /\ l.current.sequence \in Nat
  BY DEF KeyLineage, KeyState
<1>2. d \in Digest
  BY <1>1 DEF digest, Digest
<1>3. kem \in KemKey /\ sig \in SigKey /\ c \in SigKey \cup {NoCommitment}
  BY SeedAssumption DEF KemKey, SigKey
<1>4. a \in SigKey \cup {NoSignature} /\ l.current.sequence + 1 \in Nat
  BY <1>1
<1>5. BuildRotation(l, signer, kem, sig, c, t) =
          [node_id |-> l.node_id, sequence |-> l.current.sequence + 1,
           prev_state_digest |-> d, kem |-> kem, sig |-> sig, next_key_commitment |-> c,
           timestamp |-> t, authorization |-> a, possession |-> sig]
  BY DEF BuildRotation
<1> HIDE DEF a, d
<1> QED  BY <1>1, <1>2, <1>3, <1>4, <1>5 DEF KeyRotation

\* What every record of a sent lineage is.
LEMMA RecordsTypes ==
    ASSUME sent \subseteq LineageWire, NEW r \in Records
    PROVE  /\ r \in KeyRotation
           /\ \E w \in sent : \E i \in 1 .. Len(w.rotations) : r = w.rotations[i]
<1>1. PICK w \in sent : \E i \in 1 .. Len(w.rotations) : r = w.rotations[i]
  BY DEF Records
<1>2. w.rotations \in Seq(KeyRotation)
  BY DEF LineageWire
<1> QED  BY <1>1, <1>2

\* What a peer makes of a record.
LEMMA AppliedGood ==
    ASSUME NEW l, Good(l), NEW r \in KeyRotation
    PROVE  /\ Good(apply(l, r)) /\ apply(l, r).node_id = l.node_id
           /\ \/ apply(l, r) = l
              \/ verify_next(l, r) /\ apply(l, r) = Extended(l, r)
  BY ExtendedGood DEF apply

-----------------------------------------------------------------------------
(* The invariant for any host *)

\* Whatever is held, stored, sent or pinned is good.
Sound ==
    /\ GoodWire(disk)
    /\ \A w \in sent : GoodWire(w)
    /\ \A p \in Peer : Good(pinned[p])
    /\ lineage # NoLineage => Good(lineage)
    /\ installing # NoLineage => Good(installing)

\* kem is not a key that is still to be generated when g pairs have been.
Old(kem, g) == \A k \in Nat : k >= g => kem # <<"generated", k>>

\* gossip_rotate_keys draws keys that no lineage started with, and peers stay
\* with the id they pinned.
Fresh ==
    /\ Old(disk.kem, generated)
    /\ \A w \in sent : Old(w.kem, generated)
    /\ lineage # NoLineage => Old(lineage.inception.kem, generated)
    /\ installing # NoLineage => Old(installing.inception.kem, generated)
    /\ \A p \in Peer : pinned[p].node_id = derive_node_id(First.kem, First.sig)

Agrees(id, l) == /\ id.node_id = l.node_id
                 /\ id.kem = l.current.kem /\ id.sig = l.current.sig

\* EngineSpeaks, and what it needs while install is under way.
Speaks ==
    /\ identity = NoEngine => lineage = NoLineage /\ installing = NoLineage /\ overtaken = FALSE
    /\ identity # NoEngine =>
        /\ lineage # NoLineage \/ installing # NoLineage
        /\ lineage # NoLineage /\ installing # NoLineage => overtaken
        /\ overtaken => /\ lineage # NoLineage
                        /\ identity.node_id.kem \in Generated
        /\ overtaken /\ installing # NoLineage =>
               /\ Agrees(identity, lineage)
               /\ identity.node_id # installing.node_id
               /\ lineage.inception.kem # installing.inception.kem
        /\ overtaken /\ installing = NoLineage => identity.node_id # lineage.node_id
        /\ ~overtaken /\ lineage # NoLineage => Agrees(identity, lineage)
        /\ ~overtaken /\ installing # NoLineage => Agrees(identity, installing)

\* The inductive invariant.
LInv == TypeOK /\ Sound /\ Fresh /\ Speaks

LEMMA GoodType ==
    ASSUME NEW l, Good(l)
    PROVE  /\ l \in KeyLineage /\ l # NoLineage
           /\ l.node_id = derive_node_id(l.inception.kem, l.inception.sig)
           /\ l.node_id.kem = l.inception.kem
           /\ encode(l).kem = l.inception.kem /\ encode(l).sig = l.inception.sig
           /\ l.current.kem \in KemKey /\ l.current.sig \in SigKey
           /\ l.current = LastState(encode(l))
<1>1. l \in KeyLineage /\ IsLineage(l)
  BY DEF Good
<1>2. l.current \in KeyState
  BY <1>1 DEF KeyLineage
<1>3. l.current.kem \in KemKey /\ l.current.sig \in SigKey
  BY <1>2 DEF KeyState
<1>4. l.node_id.kem = l.inception.kem
  BY <1>1 DEF IsLineage, derive_node_id
<1>5. l.current = LastState(encode(l))
  BY <1>1, EncodeType DEF IsLineage, LastState
<1> QED  BY <1>1, <1>3, <1>4, <1>5, NoLineageApart, EncodeType DEF IsLineage

LEMMA EngineApart == \A id \in NodeIdentity : id # NoEngine
<1> TAKE id \in NodeIdentity
<1>1. id.running \in {TRUE}
  BY DEF NodeIdentity
<1>2. NoEngine.running = FALSE
  BY DEF NoEngine
<1> QED  BY <1>1, <1>2

\* A seed of the host is a key, and none that is generated.
LEMMA SeedOld ==
    ASSUME NEW kem \in KemSeed, NEW g \in Nat
    PROVE  kem \in KemKey /\ kem \notin Generated /\ Old(kem, g)
<1>1. kem \in KemKey /\ kem \notin Generated
  BY FreshAssumption DEF KemKey
<1>2. \A k \in Nat : <<"generated", k>> \in Generated
  BY DEF Generated
<1> QED  BY <1>1, <1>2 DEF Old

LEMMA LineageInit == Init => LInv
<1> SUFFICES ASSUME Init PROVE LInv
  OBVIOUS
<1> DEFINE l == inception(First.kem, First.sig)
<1>1. First.kem \in KemSeed /\ First.sig \in SigSeed
  BY SeedAssumption
<1>2. First.kem \in KemKey /\ First.sig \in SigKey
  BY <1>1 DEF KemKey, SigKey
<1>3. /\ Good(l) /\ l.node_id = derive_node_id(First.kem, First.sig)
      /\ l.current.kem = First.kem /\ l.current.sig = First.sig
  BY <1>2, InceptionGood
<1>4. /\ l \in KeyLineage /\ l # NoLineage /\ encode(l).kem = l.inception.kem
      /\ GoodWire(encode(l)) /\ encode(l) \in LineageWire
  BY <1>3, GoodType DEF Good, GoodWire
<1>5. l.inception.kem = First.kem
  BY DEF inception, InceptionState
<1> HIDE DEF l
<1>6. /\ identity = [running |-> TRUE, node_id |-> derive_node_id(First.kem, First.sig),
                     kem |-> First.kem, sig |-> First.sig]
      /\ lineage = l /\ installing = NoLineage /\ overtaken = FALSE /\ disk = encode(l)
      /\ sent = {} /\ pinned = [p \in Peer |-> l] /\ generated = 0
      /\ envelopes = {} /\ heard = [p \in Peer |-> <<>>]
      /\ stats = [p \in Peer |-> [messages_received |-> 0, messages_dropped |-> 0]]
  BY DEF Init, l
<1>7. identity \in NodeIdentity
  BY <1>2, <1>6, StateTypes DEF NodeIdentity
<1>8. TypeOK
  <2>1. heard \in [Peer -> Seq(Acceptance)]
    BY <1>6
  <2> QED  BY <1>4, <1>6, <1>7, <2>1 DEF TypeOK
<1>9. Sound
  BY <1>3, <1>4, <1>6 DEF Sound
<1>10. Fresh
  BY <1>1, <1>3, <1>4, <1>5, <1>6, SeedOld DEF Fresh
<1>11. Speaks
  <2>1. Agrees(identity, l)
    BY <1>3, <1>6 DEF Agrees
  <2> QED  BY <1>4, <1>6, <1>7, <2>1, EngineApart DEF Speaks
<1> QED  BY <1>8, <1>9, <1>10, <1>11 DEF LInv

-----------------------------------------------------------------------------
(* A step for each action *)

\* The first half of install, with an identity that speaks for its lineage.
LEMMA InstallStep ==
    ASSUME LInv, NEW id \in NodeIdentity, NEW l, Good(l), Agrees(id, l),
           Old(l.inception.kem, generated), Install(id, l)
    PROVE  LInv'
<1>1. /\ identity = NoEngine /\ identity' = id /\ installing' = l
      /\ UNCHANGED <<lineage, overtaken, pinned, disk, sent, generated, envelopes, heard, stats>>
  BY DEF Install, host, talk
<1>2. l \in KeyLineage /\ l # NoLineage
  BY GoodType
<1>3. lineage = NoLineage /\ overtaken = FALSE
  BY <1>1 DEF LInv, Speaks
<1>4. TypeOK'
  BY <1>1, <1>2 DEF LInv, TypeOK
<1>5. Sound'
  BY <1>1 DEF LInv, Sound
<1>6. Fresh'
  BY <1>1 DEF LInv, Fresh
<1>7. Speaks'
  BY <1>1, <1>2, <1>3, EngineApart DEF Speaks
<1> QED  BY <1>4, <1>5, <1>6, <1>7 DEF LInv

LEMMA GossipInitStep ==
    ASSUME LInv, NEW kem \in KemSeed, NEW sig \in SigSeed, GossipInit(kem, sig)
    PROVE  LInv'
<1> DEFINE id == [running |-> TRUE, node_id |-> derive_node_id(kem, sig), kem |-> kem, sig |-> sig]
           l == inception(kem, sig)
<1>1. kem \in KemKey /\ sig \in SigKey /\ generated \in Nat
  BY DEF KemKey, SigKey, LInv, TypeOK
<1>2. /\ Good(l) /\ l.node_id = derive_node_id(kem, sig)
      /\ l.current.kem = kem /\ l.current.sig = sig
  BY <1>1, InceptionGood
<1>3. l.inception.kem = kem
  BY DEF inception, InceptionState
<1>4. id \in NodeIdentity
  BY <1>1, StateTypes DEF NodeIdentity
<1>5. Install(id, l)
  BY DEF GossipInit
<1> HIDE DEF l
<1>6. Agrees(id, l)
  BY <1>2 DEF Agrees
<1> HIDE DEF id
<1> QED  BY <1>1, <1>2, <1>3, <1>4, <1>5, <1>6, SeedOld, InstallStep

LEMMA RestartStep ==
    ASSUME LInv, NEW kem \in KemSeed, NEW sig \in SigSeed, GossipInitWithLineage(kem, sig)
    PROVE  LInv'
<1>1. PICK l \in decode(disk) :
        /\ sig = l.current.sig /\ kem = l.current.kem
        /\ Install([running |-> TRUE, node_id |-> l.node_id, kem |-> kem, sig |-> sig], l)
  BY DEF GossipInitWithLineage
<1> DEFINE id == [running |-> TRUE, node_id |-> l.node_id, kem |-> kem, sig |-> sig]
<1>2. Good(l) /\ encode(l) = disk
  BY DecodeGood DEF LInv, Sound
<1>3. /\ l \in KeyLineage /\ l.node_id \in NodeId
      /\ l.current.kem \in KemKey /\ l.current.sig \in SigKey
      /\ l.inception.kem = disk.kem
  BY <1>2, GoodType DEF KeyLineage
<1>4. id \in NodeIdentity /\ Agrees(id, l)
  BY <1>1, <1>3 DEF NodeIdentity, Agrees
<1>5. Old(l.inception.kem, generated)
  BY <1>3 DEF LInv, Fresh
<1>6. Install(id, l)
  BY <1>1
<1> HIDE DEF id
<1> QED  BY <1>2, <1>4, <1>5, <1>6, InstallStep

LEMMA FinishInstallStep ==
    ASSUME LInv, FinishInstall
    PROVE  LInv'
<1>1. /\ installing # NoLineage /\ lineage' = installing /\ installing' = NoLineage
      /\ UNCHANGED <<identity, overtaken, pinned, disk, sent, generated, envelopes, heard, stats>>
  BY DEF FinishInstall, host, talk
<1>2. TypeOK'
  BY <1>1 DEF LInv, TypeOK
<1>3. Sound'
  BY <1>1 DEF LInv, Sound
<1>4. Fresh'
  BY <1>1 DEF LInv, Fresh
<1>5. Speaks'
  <2>1. identity # NoEngine
    BY <1>1 DEF LInv, Speaks
  <2> QED  BY <1>1, <2>1 DEF LInv, Speaks
<1> QED  BY <1>2, <1>3, <1>4, <1>5 DEF LInv

LEMMA RotateUnderIdStep ==
    ASSUME LInv, NEW kem \in KemSeed, NEW sig \in SigSeed,
           NEW c \in Committed \cup {NoCommitment}, NEW t \in Time,
           RotateKeysUnderId(kem, sig, c, t)
    PROVE  LInv'
<1> DEFINE r == BuildRotation(lineage, identity.sig, kem, sig, c, t)
           x == Extended(lineage, r)
<1>1. /\ identity # NoEngine /\ lineage # NoLineage /\ lineage.node_id = identity.node_id
      /\ identity.sig = lineage.current.sig /\ verify_next(lineage, r)
      /\ lineage' = x
      /\ identity' = [running |-> TRUE, node_id |-> lineage.node_id, kem |-> kem, sig |-> sig]
      /\ UNCHANGED <<installing, overtaken, pinned, disk, sent, generated, envelopes, heard, stats>>
  BY DEF RotateKeysUnderId, Callable, host, talk
<1>2. Good(lineage) /\ lineage \in KeyLineage /\ identity \in NodeIdentity
  BY <1>1, GoodType DEF LInv, Sound, TypeOK
<1>3. r \in KeyRotation /\ r.kem = kem /\ r.sig = sig
  BY <1>2, BuiltType DEF NodeIdentity
<1> HIDE DEF r
<1>4. /\ Good(x) /\ x.node_id = lineage.node_id
      /\ x.current.kem = kem /\ x.current.sig = sig
  BY <1>1, <1>2, <1>3, ExtendedGood
<1>5. x.inception = lineage.inception
  BY DEF Extended
<1> HIDE DEF x
<1>6. x \in KeyLineage /\ x # NoLineage
  BY <1>4, GoodType
<1>7. identity' \in NodeIdentity /\ identity' # NoEngine
  <2>1. kem \in KemKey /\ sig \in SigKey /\ lineage.node_id \in NodeId
    BY <1>2 DEF KemKey, SigKey, KeyLineage
  <2> QED  BY <1>1, <2>1, EngineApart DEF NodeIdentity
<1>8. Agrees(identity', x) /\ identity'.node_id = identity.node_id
  BY <1>1, <1>4 DEF Agrees
<1>9. TypeOK'
  BY <1>1, <1>6, <1>7 DEF LInv, TypeOK
<1>10. Sound'
  BY <1>1, <1>4 DEF LInv, Sound
<1>11. Fresh'
  BY <1>1, <1>5, <1>6 DEF LInv, Fresh
<1>12. Speaks'
  BY <1>1, <1>5, <1>6, <1>7, <1>8 DEF LInv, Speaks
<1> QED  BY <1>9, <1>10, <1>11, <1>12 DEF LInv

LEMMA RotateKeysStep ==
    ASSUME LInv, RotateKeys
    PROVE  LInv'
<1> DEFINE key == <<"generated", generated>>
           l == inception(key, key)
<1>1. /\ identity # NoEngine /\ generated' = generated + 1
      /\ identity' = [running |-> TRUE, node_id |-> derive_node_id(key, key),
                      kem |-> key, sig |-> key]
      /\ lineage' = l /\ overtaken' = (installing # NoLineage)
      /\ UNCHANGED <<installing, pinned, disk, sent, envelopes, heard, stats>>
  BY DEF RotateKeys, Callable, talk
<1>2. generated \in Nat /\ generated' \in Nat
  BY <1>1 DEF LInv, TypeOK
<1>3. key \in Generated /\ key \in KemKey /\ key \in SigKey
  BY <1>2 DEF Generated, KemKey, SigKey
<1>4. Old(key, generated')
  BY <1>1, <1>2 DEF Old
<1>5. \A kem : Old(kem, generated) => kem # key /\ Old(kem, generated')
  BY <1>1, <1>2 DEF Old
<1> HIDE DEF key
<1>6. /\ Good(l) /\ l.node_id = derive_node_id(key, key)
      /\ l.current.kem = key /\ l.current.sig = key
  BY <1>3, InceptionGood
<1>7. l.inception.kem = key
  BY DEF inception, InceptionState
<1> HIDE DEF l
<1>8. l \in KeyLineage /\ l # NoLineage /\ l.node_id.kem = key
  BY <1>6, <1>7, GoodType
<1>9. identity' \in NodeIdentity /\ identity' # NoEngine
  BY <1>1, <1>3, StateTypes, EngineApart DEF NodeIdentity
<1>10. Agrees(identity', l) /\ identity'.node_id = l.node_id
  BY <1>1, <1>6 DEF Agrees
<1>11. overtaken' \in BOOLEAN /\ (overtaken' <=> installing # NoLineage)
  BY <1>1
<1>12. TypeOK'
  BY <1>1, <1>2, <1>8, <1>9, <1>11 DEF LInv, TypeOK
<1>13. Sound'
  BY <1>1, <1>6 DEF LInv, Sound
<1>14. Fresh'
  BY <1>1, <1>4, <1>5, <1>7 DEF LInv, Fresh
<1>15. Speaks'
  <2>1. installing # NoLineage => /\ installing.inception.kem # key
                                  /\ installing.node_id.kem = installing.inception.kem
    BY <1>5, GoodType DEF LInv, Fresh, Sound
  <2>2. installing # NoLineage => identity'.node_id # installing.node_id
    BY <1>8, <1>10, <2>1
  <2> QED  BY <1>1, <1>3, <1>7, <1>8, <1>9, <1>10, <1>11, <2>1, <2>2 DEF Speaks
<1> QED  BY <1>12, <1>13, <1>14, <1>15 DEF LInv

\* The host stores a good wire form of an old id.
LEMMA StoreStep ==
    ASSUME LInv, NEW w, disk' = w, GoodWire(w), Old(w.kem, generated),
           UNCHANGED <<identity, lineage, installing, overtaken, pinned, sent, generated,
                       envelopes, heard, stats>>
    PROVE  LInv'
<1>1. TypeOK'
  BY DEF LInv, TypeOK, GoodWire
<1>2. Sound' /\ Fresh'
  BY DEF LInv, Sound, Fresh
<1>3. Speaks'
  BY DEF LInv, Speaks
<1> QED  BY <1>1, <1>2, <1>3 DEF LInv

LEMMA RecoverStep ==
    ASSUME LInv, NEW kem \in KemSeed, NEW sig \in SigSeed,
           NEW c \in Committed \cup {NoCommitment}, NEW t \in Time,
           RecoverLineage(kem, sig, c, t)
    PROVE  LInv'
<1>1. PICK l \in decode(disk) :
          LET r == BuildRotation(l, NoSignature, kem, sig, c, t)
          IN  verify_next(l, r) /\ disk' = encode(Extended(l, r))
  BY DEF RecoverLineage
<1> DEFINE r == BuildRotation(l, NoSignature, kem, sig, c, t)
           w == encode(Extended(l, r))
<1>2. Good(l) /\ encode(l) = disk /\ l \in KeyLineage
  BY DecodeGood, GoodType DEF LInv, Sound
<1>3. r \in KeyRotation
  BY <1>2, BuiltType
<1>4. Good(Extended(l, r)) /\ w.kem = disk.kem
  BY <1>1, <1>2, <1>3, ExtendedGood
<1>5. GoodWire(w) /\ Old(w.kem, generated) /\ disk' = w
  BY <1>1, <1>4 DEF Good, LInv, Fresh
<1> HIDE DEF w
<1> QED  BY <1>5, StoreStep DEF RecoverLineage, talk

LEMMA PersistStep ==
    ASSUME LInv, Persist
    PROVE  LInv'
<1> DEFINE w == encode(lineage)
<1>1. lineage # NoLineage /\ disk' = w
  BY DEF Persist
<1>2. GoodWire(w) /\ w.kem = lineage.inception.kem
  BY <1>1, GoodType DEF LInv, Sound, Good
<1>3. Old(w.kem, generated)
  BY <1>1, <1>2 DEF LInv, Fresh
<1> HIDE DEF w
<1> QED  BY <1>1, <1>2, <1>3, StoreStep DEF Persist, talk

LEMMA SendStep ==
    ASSUME LInv, Send
    PROVE  LInv'
<1>1. UNCHANGED <<identity, lineage, installing, overtaken, pinned, disk, generated,
                  envelopes, heard, stats>>
  BY DEF Send, talk
<1>2. \A w \in sent' : w \in sent \/ w = disk \/ (lineage # NoLineage /\ w = encode(lineage))
  BY DEF Send
<1>3. GoodWire(disk) /\ (lineage # NoLineage => GoodWire(encode(lineage)))
  BY DEF LInv, Sound, Good
<1>4. lineage # NoLineage => Old(encode(lineage).kem, generated)
  BY GoodType DEF LInv, Sound, Fresh
<1>5. \A w \in sent' : GoodWire(w) /\ Old(w.kem, generated)
  BY <1>2, <1>3, <1>4 DEF LInv, Sound, Fresh
<1>6. TypeOK'
  BY <1>1, <1>5 DEF LInv, TypeOK, GoodWire
<1>7. Sound' /\ Fresh'
  BY <1>1, <1>5 DEF LInv, Sound, Fresh
<1>8. Speaks'
  BY <1>1 DEF LInv, Speaks
<1> QED  BY <1>6, <1>7, <1>8 DEF LInv

LEMMA CrashStep ==
    ASSUME LInv, Crash
    PROVE  LInv'
<1>1. /\ identity' = NoEngine /\ lineage' = NoLineage /\ installing' = NoLineage
      /\ overtaken' = FALSE
      /\ UNCHANGED <<pinned, disk, sent, generated, envelopes, heard, stats>>
  BY DEF Crash, host, talk
<1>2. TypeOK'
  BY <1>1 DEF LInv, TypeOK
<1>3. Sound' /\ Fresh'
  BY <1>1 DEF LInv, Sound, Fresh
<1>4. Speaks'
  BY <1>1 DEF Speaks
<1> QED  BY <1>2, <1>3, <1>4 DEF LInv

\* Something vouches for a running engine.
LEMMA VouchingGood ==
    ASSUME LInv, identity # NoEngine
    PROVE  Good(Vouching) /\ Vouching \in {lineage, installing}
  BY DEF LInv, Sound, Speaks, Vouching

LEMMA EnvelopeStep ==
    ASSUME LInv, EncodeEnvelope
    PROVE  LInv'
<1> DEFINE e == [sender_node_id |-> identity.node_id, sender_public_key |-> identity.sig,
                 chain |-> encode(Vouching)]
<1>1. /\ identity # NoEngine /\ envelopes' = envelopes \cup {e}
      /\ UNCHANGED <<identity, lineage, installing, overtaken, pinned, disk, sent, generated,
                     heard, stats>>
  BY DEF EncodeEnvelope, Callable, host
<1>2. identity \in NodeIdentity
  BY <1>1 DEF LInv, TypeOK
<1>3. encode(Vouching) \in LineageWire
  BY <1>1, VouchingGood DEF Good, GoodWire
<1>4. e \in GossipEnvelope
  BY <1>2, <1>3 DEF GossipEnvelope, NodeIdentity
<1> HIDE DEF e
<1>5. TypeOK'
  BY <1>1, <1>4 DEF LInv, TypeOK
<1>6. Sound' /\ Fresh'
  BY <1>1 DEF LInv, Sound, Fresh
<1>7. Speaks'
  BY <1>1 DEF LInv, Speaks
<1> QED  BY <1>5, <1>6, <1>7 DEF LInv

LEMMA ApplyStep ==
    ASSUME LInv, NEW p \in Peer, NEW r \in Records, PeerApply(p, r)
    PROVE  LInv'
<1> DEFINE x == apply(pinned[p], r)
<1>1. /\ pinned' = [pinned EXCEPT ![p] = x]
      /\ UNCHANGED <<identity, lineage, installing, overtaken, disk, sent, generated,
                     envelopes, heard, stats>>
  BY DEF PeerApply, host, talk
<1>2. r \in KeyRotation
  BY RecordsTypes DEF LInv, TypeOK
<1>3. Good(x) /\ x.node_id = pinned[p].node_id
  BY <1>2, AppliedGood DEF LInv, Sound
<1>4. x \in KeyLineage
  BY <1>3, GoodType
<1> HIDE DEF x
<1>5. pinned \in [Peer -> KeyLineage]
  BY DEF LInv, TypeOK
<1>6. \A q \in Peer : pinned'[q] = IF q = p THEN x ELSE pinned[q]
  BY <1>1, <1>5
<1>7. TypeOK'
  BY <1>1, <1>4, <1>5 DEF LInv, TypeOK
<1>8. Sound' /\ Fresh'
  BY <1>1, <1>3, <1>6 DEF LInv, Sound, Fresh
<1>9. Speaks'
  BY <1>1 DEF LInv, Speaks
<1> QED  BY <1>7, <1>8, <1>9 DEF LInv

ReceivedBy(p) == [stats EXCEPT ![p].messages_received = @ + 1]
DroppedBy(p) == [stats EXCEPT ![p].messages_dropped = @ + 1]

LEMMA CountTypes ==
    ASSUME NEW p \in Peer,
           stats \in [Peer -> [messages_received : Nat, messages_dropped : Nat]]
    PROVE  /\ ReceivedBy(p) \in [Peer -> [messages_received : Nat, messages_dropped : Nat]]
           /\ DroppedBy(p) \in [Peer -> [messages_received : Nat, messages_dropped : Nat]]
           /\ \A q \in Peer : ReceivedBy(p)[q].messages_received =
                  IF q = p THEN stats[q].messages_received + 1 ELSE stats[q].messages_received
           /\ \A q \in Peer : DroppedBy(p)[q].messages_received = stats[q].messages_received
  BY DEF ReceivedBy, DroppedBy

\* A peer that verifies an envelope counts it as received and remembers it with
\* its pin, or counts it as dropped.
LEMMA VerifyCases ==
    ASSUME LInv, NEW p \in Peer, NEW e \in envelopes, NEW valid \in BOOLEAN,
           VerifyFromLineage(p, e, valid)
    PROVE  /\ UNCHANGED <<identity, lineage, installing, overtaken, pinned, disk, sent,
                          generated, envelopes>>
           /\ \/ /\ e.sender_node_id = pinned[p].node_id
                 /\ e.sender_public_key = LastState(encode(pinned[p])).sig
                 /\ stats' = ReceivedBy(p)
                 /\ heard' = [heard EXCEPT ![p] =
                        Append(@, [envelope |-> e, pin |-> encode(pinned[p])])]
              \/ /\ stats' = DroppedBy(p)
                 /\ heard' = heard
<1>1. Good(pinned[p])
  BY DEF LInv, Sound
<1>2. PICK l \in decode(encode(pinned[p])) :
           IF check_envelope_sender(l, e) /\ valid
           THEN /\ stats' = ReceivedBy(p)
                /\ heard' = [heard EXCEPT ![p] =
                       Append(@, [envelope |-> e, pin |-> encode(l)])]
           ELSE /\ stats' = DroppedBy(p)
                /\ UNCHANGED heard
  BY DEF VerifyFromLineage, ReceivedBy, DroppedBy
<1>3. /\ encode(l) = encode(pinned[p]) /\ l.node_id = IdOf(encode(pinned[p]))
      /\ l.current = LastState(encode(pinned[p]))
  BY <1>1, DecodeGood DEF Good
<1>4. l.node_id = pinned[p].node_id
  BY <1>1, <1>3, GoodType DEF IdOf
<1>5. check_envelope_sender(l, e) =>
          /\ e.sender_node_id = pinned[p].node_id
          /\ e.sender_public_key = LastState(encode(pinned[p])).sig
  BY <1>3, <1>4 DEF check_envelope_sender
<1> QED  BY <1>2, <1>3, <1>5 DEF VerifyFromLineage, host

LEMMA VerifyStep ==
    ASSUME LInv, NEW p \in Peer, NEW e \in envelopes, NEW valid \in BOOLEAN,
           VerifyFromLineage(p, e, valid)
    PROVE  LInv'
<1> DEFINE h == [envelope |-> e, pin |-> encode(pinned[p])]
<1>1. UNCHANGED <<identity, lineage, installing, overtaken, pinned, disk, sent, generated,
                  envelopes>>
  BY VerifyCases
<1>2. h \in Acceptance
  <2>1. encode(pinned[p]) \in LineageWire /\ e \in GossipEnvelope
    BY DEF LInv, Sound, Good, GoodWire, TypeOK
  <2> QED  BY <2>1 DEF Acceptance
<1>3. \/ heard' = heard
      \/ heard' = [heard EXCEPT ![p] = Append(@, h)]
  BY VerifyCases
<1> HIDE DEF h
<1>4. heard' \in [Peer -> Seq(Acceptance)]
  <2>1. heard \in [Peer -> Seq(Acceptance)] /\ Append(heard[p], h) \in Seq(Acceptance)
    BY <1>2 DEF LInv, TypeOK
  <2> QED  BY <1>3, <2>1
<1>5. stats' \in [Peer -> [messages_received : Nat, messages_dropped : Nat]]
  <2>1. stats' = ReceivedBy(p) \/ stats' = DroppedBy(p)
    BY VerifyCases
  <2> QED  BY <2>1, CountTypes DEF LInv, TypeOK
<1>6. TypeOK'
  BY <1>1, <1>4, <1>5 DEF LInv, TypeOK
<1>7. Sound' /\ Fresh'
  BY <1>1 DEF LInv, Sound, Fresh
<1>8. Speaks'
  BY <1>1 DEF LInv, Speaks
<1> QED  BY <1>6, <1>7, <1>8 DEF LInv

LEMMA LineageStep == LInv /\ [Next]_vars => LInv'
<1> SUFFICES ASSUME LInv, [Next]_vars PROVE LInv'
  OBVIOUS
<1>1. CASE UNCHANGED vars
  <2>1. UNCHANGED <<identity, lineage, installing, overtaken, pinned, disk, sent, generated,
                    envelopes, heard, stats>>
    BY <1>1 DEF vars, host, talk
  <2>2. TypeOK' /\ Sound' /\ Fresh'
    BY <2>1 DEF LInv, TypeOK, Sound, Fresh
  <2>3. Speaks'
    BY <2>1 DEF LInv, Speaks
  <2> QED  BY <2>2, <2>3 DEF LInv
<1>2. ASSUME NEW kem \in KemSeed, NEW sig \in SigSeed,
             GossipInit(kem, sig) \/ GossipInitWithLineage(kem, sig)
      PROVE  LInv'
  BY <1>2, GossipInitStep, RestartStep
<1>3. ASSUME NEW kem \in KemSeed, NEW sig \in SigSeed,
             NEW c \in Committed \cup {NoCommitment}, NEW t \in Time,
             RotateKeysUnderId(kem, sig, c, t) \/ RecoverLineage(kem, sig, c, t)
      PROVE  LInv'
  BY <1>3, RotateUnderIdStep, RecoverStep
<1>4. CASE FinishInstall \/ RotateKeys \/ Persist \/ Send \/ Crash \/ EncodeEnvelope
  BY <1>4, FinishInstallStep, RotateKeysStep, PersistStep, SendStep, CrashStep, EnvelopeStep
<1>5. ASSUME NEW p \in Peer, NEW r \in Records, PeerApply(p, r)
      PROVE  LInv'
  BY <1>5, ApplyStep
<1>6. ASSUME NEW p \in Peer, NEW e \in envelopes, NEW valid \in BOOLEAN,
             VerifyFromLineage(p, e, valid)
      PROVE  LInv'
  BY <1>6, VerifyStep
<1> QED  BY <1>1, <1>2, <1>3, <1>4, <1>5, <1>6 DEF Next

-----------------------------------------------------------------------------
(* Theorems for any host *)

\* The invariant behind the other theorems: what is held, stored, sent or pinned
\* is a chain that verifies, generated keys are fresh, and the engine speaks for
\* its lineage.
THEOREM LineageInductive == Spec => []LInv
  BY LineageInit, LineageStep, PTL DEF Spec

\* Types of the engine, the stored and sent lineages and the pins.
THEOREM LineageTypeCorrect == Spec => []TypeOK
<1>1. LInv => TypeOK
  BY DEF LInv
<1> QED  BY LineageInductive, <1>1, PTL

\* What Wires holds is good.
LEMMA WiresGood == LInv => \A w \in Wires : GoodWire(w)
  BY DEF LInv, Sound, Good, Wires

\* "Holding a KeyLineage means holding a valid chain", for any sequence of
\* rotations, recoveries, restarts and records in any order.
THEOREM ChainsTheorem == Spec => []ChainsVerify
<1>1. LInv => ChainsVerify
  <2> SUFFICES ASSUME LInv PROVE ChainsVerify
    OBVIOUS
  <2>1. \A w \in Wires : IsChain(w)
    BY WiresGood DEF GoodWire
  <2>2. \A p \in Peer : IsLineage(pinned[p])
    BY DEF LInv, Sound, Good
  <2>3. lineage # NoLineage => IsLineage(lineage)
    BY DEF LInv, Sound, Good
  <2> QED  BY <2>1, <2>2, <2>3 DEF ChainsVerify
<1> QED  BY LineageInductive, <1>1, PTL

\* Two successors of a state with a commitment have the committed key: a stale
\* copy of the node cannot lead a peer to another one.
THEOREM CommitmentTheorem == Spec => []CommitmentBinds
<1>1. ASSUME NEW v, IsChain(v), NEW i \in 1 .. Len(v.rotations),
             v.rotations[i].prev_state_digest.state.next_key_commitment # NoCommitment
      PROVE  v.rotations[i].sig = v.rotations[i].prev_state_digest.state.next_key_commitment
  <2> DEFINE s == StateBefore(v, i)
             r == v.rotations[i]
  <2>1. Follows(IdOf(v), s, r)
    BY <1>1 DEF IsChain, IdOf
  <2>2. r.prev_state_digest.state = s
    BY <2>1 DEF Follows, digest
  <2> QED  BY <1>1, <2>1, <2>2 DEF Follows
<1>2. LInv => CommitmentBinds
  BY <1>1, WiresGood DEF GoodWire, CommitmentBinds
<1> QED  BY LineageInductive, <1>2, PTL

\* A lineage is a prefix of what it is extended to.
LEMMA ExtendedPrefix ==
    ASSUME NEW l \in KeyLineage, NEW r \in KeyRotation
    PROVE  IsPrefixOf(l.rotations, Extended(l, r).rotations)
<1>1. l.rotations \in Seq(KeyRotation)
  BY DEF KeyLineage
<1>2. Extended(l, r).rotations = Append(l.rotations, r)
  BY DEF Extended
<1> QED  BY <1>1, <1>2 DEF IsPrefixOf

\* A peer's pin keeps its id and its records, whatever records arrive.
THEOREM PinnedGrowsTheorem == Spec => PinnedGrows
<1> DEFINE Grows == \A p \in Peer : /\ pinned'[p].node_id = pinned[p].node_id
                                    /\ IsPrefixOf(pinned[p].rotations, pinned'[p].rotations)
<1>1. LInv /\ [Next]_vars => [Grows]_vars
  <2> SUFFICES ASSUME LInv, [Next]_vars PROVE Grows
    OBVIOUS
  <2>1. \A p \in Peer : pinned[p].rotations \in Seq(KeyRotation)
    BY DEF LInv, TypeOK, KeyLineage
  <2>2. CASE pinned' = pinned
    BY <2>1, <2>2 DEF IsPrefixOf
  <2>3. ASSUME NEW q \in Peer, NEW r \in Records, PeerApply(q, r)
        PROVE  Grows
    <3> SUFFICES ASSUME NEW p \in Peer
                 PROVE  /\ pinned'[p].node_id = pinned[p].node_id
                        /\ IsPrefixOf(pinned[p].rotations, pinned'[p].rotations)
      OBVIOUS
    <3>1. pinned'[p] = IF p = q THEN apply(pinned[p], r) ELSE pinned[p]
      BY <2>3 DEF PeerApply, LInv, TypeOK
    <3>2. r \in KeyRotation /\ Good(pinned[p]) /\ pinned[p] \in KeyLineage
      BY RecordsTypes DEF LInv, Sound, TypeOK
    <3>3. CASE pinned'[p] = pinned[p]
      BY <2>1, <3>3 DEF IsPrefixOf
    <3>4. CASE pinned'[p] = Extended(pinned[p], r)
      BY <3>2, <3>4, ExtendedPrefix DEF Extended
    <3> QED  BY <3>1, <3>2, <3>3, <3>4, AppliedGood
  <2>4. pinned' = pinned \/ \E q \in Peer : \E r \in Records : PeerApply(q, r)
    BY DEF Next, vars, host, GossipInit, GossipInitWithLineage, Install, RotateKeysUnderId,
           RecoverLineage, FinishInstall, RotateKeys, Persist, Send, Crash, EncodeEnvelope,
           VerifyFromLineage
  <2> QED  BY <2>2, <2>3, <2>4
<1> QED  BY LineageInductive, <1>1, PTL DEF Spec, PinnedGrows

\* decode gives back every lineage that fits in MAX_LINEAGE_BYTES, so that the
\* stored one restarts the node as what it was.
THEOREM RestartTheorem == Spec => []Restartable
<1>1. LInv => Restartable
  <2> SUFFICES ASSUME LInv PROVE Restartable
    OBVIOUS
  <2>1. GoodWire(disk)
    BY DEF LInv, Sound
  <2>2. Len(disk.rotations) <= MaxRecords => \E l \in decode(disk) : encode(l) = disk
    BY <2>1, DecodeFits, DecodeGood
  <2>3. Vouching # NoLineage => Good(Vouching)
    BY DEF LInv, Sound, Vouching
  <2> QED  BY <2>2, <2>3, DecodeEncode DEF Restartable
<1> QED  BY LineageInductive, <1>1, PTL

\* The engine runs with the id and the current keys of the lineage that vouches
\* for it, in the middle of install too, and never under the id of a lineage
\* that a rotation has overtaken.
THEOREM SpeaksTheorem == Spec => []EngineSpeaks
<1>1. LInv => EngineSpeaks
  BY DEF LInv, Speaks, EngineSpeaks, Vouching, Agrees
<1> QED  BY LineageInductive, <1>1, PTL
=============================================================================
