-------------------------- MODULE CarefulHostProofs --------------------------
(***************************************************************************)
(* Proofs about Lineage under a careful host: it persists before anything  *)
(* leaves the node, recovers a stopped node only and restarts from what it *)
(* persisted.  Node ids are then never forked, and what peers accept was   *)
(* signed on the history they have pinned.                                 *)
(***************************************************************************)
EXTENDS LineageProofs

SameId(v, w) == v.kem = w.kem /\ v.sig = w.sig

\* If w belongs to the id of x, x holds all of w.
Ahead(w, x) == SameId(w, x) => IsPrefixOf(w.rotations, x.rotations)

Comparable(v, w) ==
    SameId(v, w) =>
        IsPrefixOf(v.rotations, w.rotations) \/ IsPrefixOf(w.rotations, v.rotations)

\* Chains that have left the host: they can be neither recalled nor extended.
Outside == sent \cup {encode(pinned[p]) : p \in Peer} \cup {e.chain : e \in envelopes}

\* What has left is linear, and the host is at least as far in the history of
\* each of its ids: on its disk, in its lineage and in the one it installs.
Linear ==
    /\ \A v, w \in Outside : Comparable(v, w)
    /\ \A w \in Outside : Ahead(w, disk)
    /\ lineage # NoLineage => \A w \in Outside \cup {disk} : Ahead(w, encode(lineage))
    /\ installing # NoLineage => \A w \in Outside \cup {disk} : Ahead(w, encode(installing))

\* The envelopes of the id that peers have pinned are signed with the key their
\* chain ends in; no chain starts with a key that is still to be generated.
Truthful ==
    \A e \in envelopes :
        /\ Old(e.chain.kem, generated)
        /\ e.sender_node_id = derive_node_id(First.kem, First.sig) =>
               /\ IdOf(e.chain) = derive_node_id(First.kem, First.sig)
               /\ LastState(e.chain).sig = e.sender_public_key

\* The inductive invariant.
CInv == LInv /\ Linear /\ Truthful /\ HeardIsSpoken

-----------------------------------------------------------------------------
(* Prefixes *)

\* v is part of w's history.
Below(v, w) == SameId(v, w) /\ IsPrefixOf(v.rotations, w.rotations)

LEMMA WireLen ==
    ASSUME NEW w \in LineageWire
    PROVE  Len(w.rotations) \in Nat /\ w.rotations \in Seq(KeyRotation)
  BY DEF LineageWire

LEMMA PrefixTransitive ==
    ASSUME NEW u \in LineageWire, NEW v \in LineageWire, NEW w \in LineageWire,
           IsPrefixOf(u.rotations, v.rotations), IsPrefixOf(v.rotations, w.rotations)
    PROVE  IsPrefixOf(u.rotations, w.rotations)
  BY WireLen DEF IsPrefixOf

LEMMA PrefixesCompare ==
    ASSUME NEW u \in LineageWire, NEW v \in LineageWire, NEW w \in LineageWire,
           IsPrefixOf(u.rotations, w.rotations), IsPrefixOf(v.rotations, w.rotations)
    PROVE  IsPrefixOf(u.rotations, v.rotations) \/ IsPrefixOf(v.rotations, u.rotations)
  BY WireLen DEF IsPrefixOf

LEMMA Reflexive ==
    ASSUME NEW w \in LineageWire
    PROVE  Ahead(w, w) /\ Comparable(w, w) /\ Below(w, w)
  BY WireLen DEF Ahead, Comparable, Below, SameId, IsPrefixOf

LEMMA Symmetric == \A v, w : Comparable(v, w) => Comparable(w, v)
  BY DEF Comparable, SameId

LEMMA AheadCompares == \A v, w : Ahead(v, w) => Comparable(v, w)
  BY DEF Comparable, Ahead

\* Whoever is ahead of a history is ahead of each part of it.
LEMMA BelowAhead ==
    ASSUME NEW v \in LineageWire, NEW w \in LineageWire, NEW x \in LineageWire,
           Below(v, w), Ahead(w, x)
    PROVE  Ahead(v, x)
  BY PrefixTransitive DEF Below, Ahead, SameId

LEMMA AheadBelow ==
    ASSUME NEW w \in LineageWire, NEW x \in LineageWire, NEW y \in LineageWire,
           Ahead(w, x), Below(x, y)
    PROVE  Ahead(w, y)
  BY PrefixTransitive DEF Below, Ahead, SameId

LEMMA BelowCompares ==
    ASSUME NEW v \in LineageWire, NEW w \in LineageWire, NEW x \in LineageWire,
           Below(v, w), Comparable(w, x)
    PROVE  Comparable(v, x)
  BY PrefixTransitive, PrefixesCompare DEF Below, Comparable, SameId

\* A lineage is part of what a record extends it to.
LEMMA ExtendedBelow ==
    ASSUME NEW l, Good(l), NEW r \in KeyRotation, verify_next(l, r)
    PROVE  Below(encode(l), encode(Extended(l, r)))
<1>1. l \in KeyLineage /\ Extended(l, r) \in KeyLineage
  BY ExtendedGood, GoodType
<1>2. IsPrefixOf(encode(l).rotations, encode(Extended(l, r)).rotations)
  BY <1>1, ExtendedPrefix, EncodeType
<1> QED  BY <1>2, ExtendedGood DEF Below, SameId

\* Everything that has left is a wire form.
LEMMA OutsideType == LInv => Outside \subseteq LineageWire
<1> SUFFICES ASSUME LInv PROVE Outside \subseteq LineageWire
  OBVIOUS
<1>1. sent \subseteq LineageWire
  BY DEF LInv, TypeOK
<1>2. \A p \in Peer : encode(pinned[p]) \in LineageWire
  BY DEF LInv, Sound, Good, GoodWire
<1>3. \A e \in envelopes : e.chain \in LineageWire
  BY DEF LInv, TypeOK, GossipEnvelope
<1> QED  BY <1>1, <1>2, <1>3 DEF Outside

LEMMA HeldType ==
    ASSUME LInv
    PROVE  /\ disk \in LineageWire /\ GoodWire(disk)
           /\ lineage # NoLineage => encode(lineage) \in LineageWire
           /\ installing # NoLineage => encode(installing) \in LineageWire
  BY DEF LInv, Sound, Good, GoodWire

-----------------------------------------------------------------------------
(* Steps *)

LEMMA CarefulInit == Init => CInv
<1> SUFFICES ASSUME Init PROVE CInv
  OBVIOUS
<1> DEFINE w == encode(inception(First.kem, First.sig))
<1>1. LInv
  BY LineageInit
<1>2. /\ disk = w /\ lineage = inception(First.kem, First.sig) /\ installing = NoLineage
      /\ sent = {} /\ envelopes = {}
      /\ \A p \in Peer : encode(pinned[p]) = w
  BY DEF Init
<1>3. w \in LineageWire /\ encode(lineage) = w
  BY <1>1, <1>2, HeldType
<1> HIDE DEF w
<1>4. Outside \subseteq {w}
  BY <1>2 DEF Outside
<1>5. Linear
  BY <1>2, <1>3, <1>4, Reflexive DEF Linear
<1>6. Truthful
  BY <1>2 DEF Truthful
<1>7. HeardIsSpoken
  <2>1. \A p \in Peer : heard[p] = <<>> /\ stats[p].messages_received = 0
    BY DEF Init
  <2>2. \A p \in Peer : Len(heard[p]) = 0
    BY <2>1
  <2> QED  BY <2>1, <2>2 DEF HeardIsSpoken
<1> QED  BY <1>1, <1>5, <1>6, <1>7 DEF CInv

\* A chain leaves that is no further than the host and fits what has left.
LEMMA LeavesStep ==
    ASSUME CInv, NEW v \in LineageWire, UNCHANGED <<disk, lineage, installing>>,
           Outside' \subseteq Outside \cup {v},
           \A w \in Outside : Comparable(v, w),
           Ahead(v, disk),
           lineage # NoLineage => Ahead(v, encode(lineage)),
           installing # NoLineage => Ahead(v, encode(installing))
    PROVE  Linear'
<1>1. \A u, w \in Outside' : Comparable(u, w)
  BY Reflexive, Symmetric DEF CInv, Linear
<1>2. \A w \in Outside' : Ahead(w, disk')
  BY DEF CInv, Linear
<1>3. lineage' # NoLineage => \A w \in Outside' \cup {disk'} : Ahead(w, encode(lineage'))
  BY DEF CInv, Linear
<1>4. installing' # NoLineage => \A w \in Outside' \cup {disk'} : Ahead(w, encode(installing'))
  BY DEF CInv, Linear
<1> QED  BY <1>1, <1>2, <1>3, <1>4 DEF Linear

\* What is stored leaves: the host sends it, or signs under it.
LEMMA StoredLeaves ==
    ASSUME CInv, UNCHANGED <<disk, lineage, installing>>,
           Outside' \subseteq Outside \cup {disk}
    PROVE  Linear'
<1>1. disk \in LineageWire
  BY HeldType DEF CInv
<1>2. \A w \in Outside : Comparable(disk, w)
  BY AheadCompares, Symmetric DEF CInv, Linear
<1>3. Ahead(disk, disk)
  BY <1>1, Reflexive
<1> QED  BY <1>1, <1>2, <1>3, LeavesStep DEF CInv, Linear

LEMMA QuietTalk ==
    ASSUME CInv, UNCHANGED <<envelopes, heard, stats>>,
           generated' = generated \/ generated' = generated + 1
    PROVE  Truthful' /\ HeardIsSpoken'
<1>1. generated \in Nat
  BY DEF CInv, LInv, TypeOK
<1>2. \A kem : Old(kem, generated) => Old(kem, generated')
  BY <1>1 DEF Old
<1>3. Truthful'
  BY <1>2 DEF CInv, Truthful
<1>4. HeardIsSpoken'
  BY DEF CInv, HeardIsSpoken
<1> QED  BY <1>3, <1>4

LEMMA OutsideSame == UNCHANGED <<sent, pinned, envelopes>> => Outside' = Outside
  BY DEF Outside

\* A stored lineage is installed in a process that holds none.
LEMMA RestartLinear ==
    ASSUME CInv, NEW kem \in KemSeed, NEW sig \in SigSeed, GossipInitWithLineage(kem, sig)
    PROVE  Linear' /\ Truthful' /\ HeardIsSpoken'
<1>1. PICK l \in decode(disk) :
          Install([running |-> TRUE, node_id |-> l.node_id, kem |-> kem, sig |-> sig], l)
  BY DEF GossipInitWithLineage
<1>2. /\ identity = NoEngine /\ installing' = l
      /\ UNCHANGED <<lineage, pinned, disk, sent, generated, envelopes, heard, stats>>
  BY <1>1 DEF Install, host, talk
<1>3. encode(l) = disk /\ disk \in LineageWire
  BY HeldType, DecodeGood DEF CInv
<1>4. lineage = NoLineage
  BY <1>2 DEF CInv, LInv, Speaks
<1>5. Outside' = Outside
  BY <1>2, OutsideSame
<1>6. Linear'
  BY <1>2, <1>3, <1>4, <1>5, Reflexive DEF CInv, Linear
<1> QED  BY <1>2, <1>6, QuietTalk

LEMMA FinishInstallLinear ==
    ASSUME CInv, FinishInstall
    PROVE  Linear' /\ Truthful' /\ HeardIsSpoken'
<1>1. /\ installing # NoLineage /\ lineage' = installing /\ installing' = NoLineage
      /\ UNCHANGED <<pinned, disk, sent, generated, envelopes, heard, stats>>
  BY DEF FinishInstall, host, talk
<1>2. Outside' = Outside
  BY <1>1, OutsideSame
<1>3. Linear'
  BY <1>1, <1>2 DEF CInv, Linear
<1> QED  BY <1>1, <1>3, QuietTalk

\* The lineage in memory gets further ahead.
LEMMA RotateUnderIdLinear ==
    ASSUME CInv, NEW kem \in KemSeed, NEW sig \in SigSeed,
           NEW c \in Committed \cup {NoCommitment}, NEW t \in Time,
           RotateKeysUnderId(kem, sig, c, t)
    PROVE  Linear' /\ Truthful' /\ HeardIsSpoken'
<1> DEFINE r == BuildRotation(lineage, identity.sig, kem, sig, c, t)
           x == Extended(lineage, r)
<1>1. /\ identity # NoEngine /\ lineage # NoLineage /\ verify_next(lineage, r) /\ lineage' = x
      /\ UNCHANGED <<installing, pinned, disk, sent, generated, envelopes, heard, stats>>
  BY DEF RotateKeysUnderId, Callable, host, talk
<1>2. Good(lineage) /\ lineage \in KeyLineage /\ identity \in NodeIdentity
  BY <1>1, GoodType DEF CInv, LInv, Sound, TypeOK
<1>3. r \in KeyRotation
  BY <1>2, BuiltType DEF NodeIdentity
<1> HIDE DEF r
<1>4. Below(encode(lineage), encode(x))
  BY <1>1, <1>2, <1>3, ExtendedBelow
<1>5. encode(lineage) \in LineageWire /\ encode(x) \in LineageWire
  BY <1>1, <1>2, <1>3, ExtendedGood DEF Good, GoodWire
<1> HIDE DEF x
<1>6. Outside' = Outside /\ Outside \cup {disk} \subseteq LineageWire
  BY <1>1, OutsideSame, OutsideType, HeldType DEF CInv
<1>7. \A w \in Outside \cup {disk} : Ahead(w, encode(x))
  BY <1>1, <1>4, <1>5, <1>6, AheadBelow DEF CInv, Linear
<1>8. Linear'
  BY <1>1, <1>6, <1>7 DEF CInv, Linear
<1> QED  BY <1>1, <1>8, QuietTalk

\* A generated id has no history anywhere.
LEMMA RotateKeysLinear ==
    ASSUME CInv, RotateKeys
    PROVE  Linear' /\ Truthful' /\ HeardIsSpoken'
<1> DEFINE key == <<"generated", generated>>
           x == inception(key, key)
<1>1. /\ generated' = generated + 1 /\ lineage' = x
      /\ UNCHANGED <<installing, pinned, disk, sent, envelopes, heard, stats>>
  BY DEF RotateKeys, talk
<1>2. generated \in Nat
  BY DEF CInv, LInv, TypeOK
<1>3. key \in KemKey /\ key \in SigKey
  BY <1>2 DEF Generated, KemKey, SigKey
<1>4. \A k : Old(k, generated) => k # key
  BY <1>2 DEF Old
<1> HIDE DEF key
<1>5. encode(x).kem = key
  BY <1>3, InceptionGood
<1> HIDE DEF x
<1>6. \A w \in Outside \cup {disk} : Old(w.kem, generated)
  <2>1. Old(disk.kem, generated) /\ \A w \in sent : Old(w.kem, generated)
    BY DEF CInv, LInv, Fresh
  <2>2. \A e \in envelopes : Old(e.chain.kem, generated)
    BY DEF CInv, Truthful
  <2>3. ASSUME NEW p \in Peer PROVE Old(encode(pinned[p]).kem, generated)
    <3>1. Good(pinned[p]) /\ pinned[p].node_id = derive_node_id(First.kem, First.sig)
      BY DEF CInv, LInv, Sound, Fresh
    <3>2. encode(pinned[p]).kem = pinned[p].node_id.kem
      BY <3>1, GoodType
    <3>3. encode(pinned[p]).kem = First.kem /\ First.kem \in KemSeed
      BY <3>1, <3>2, SeedAssumption DEF derive_node_id
    <3> QED  BY <1>2, <3>3, SeedOld
  <2> QED  BY <2>1, <2>2, <2>3 DEF Outside
<1>7. \A w \in Outside \cup {disk} : Ahead(w, encode(x))
  BY <1>4, <1>5, <1>6 DEF Ahead, SameId
<1>8. Outside' = Outside
  BY <1>1, OutsideSame
<1>9. Linear'
  BY <1>1, <1>7, <1>8 DEF CInv, Linear
<1> QED  BY <1>1, <1>9, QuietTalk

\* A recovery extends what is stored while nothing runs.
LEMMA RecoverLinear ==
    ASSUME CInv, Careful, NEW kem \in KemSeed, NEW sig \in SigSeed,
           NEW c \in Committed \cup {NoCommitment}, NEW t \in Time,
           RecoverLineage(kem, sig, c, t)
    PROVE  Linear' /\ Truthful' /\ HeardIsSpoken'
<1>1. PICK l \in decode(disk) :
          LET r == BuildRotation(l, NoSignature, kem, sig, c, t)
          IN  verify_next(l, r) /\ disk' = encode(Extended(l, r))
  BY DEF RecoverLineage
<1> DEFINE r == BuildRotation(l, NoSignature, kem, sig, c, t)
           w == encode(Extended(l, r))
<1>2. Good(l) /\ encode(l) = disk /\ l \in KeyLineage /\ disk \in LineageWire
  BY HeldType, DecodeGood, GoodType DEF CInv
<1>3. r \in KeyRotation
  BY <1>2, BuiltType
<1>4. disk' = w /\ Below(disk, w) /\ w \in LineageWire
  BY <1>1, <1>2, <1>3, ExtendedGood, ExtendedBelow DEF Good, GoodWire
<1> HIDE DEF w
<1>5. /\ identity = NoEngine
      /\ UNCHANGED <<lineage, installing, pinned, sent, generated, envelopes, heard, stats>>
  BY DEF RecoverLineage, talk
<1>6. lineage = NoLineage /\ installing = NoLineage
  BY <1>5 DEF CInv, LInv, Speaks
<1>7. Outside' = Outside /\ Outside \subseteq LineageWire
  BY <1>5, OutsideSame, OutsideType DEF CInv
<1>8. \A v \in Outside : Ahead(v, disk')
  BY <1>2, <1>4, <1>7, AheadBelow DEF CInv, Linear
<1>9. Linear'
  BY <1>5, <1>6, <1>7, <1>8 DEF CInv, Linear
<1> QED  BY <1>5, <1>9, QuietTalk

LEMMA PersistLinear ==
    ASSUME CInv, Persist
    PROVE  Linear' /\ Truthful' /\ HeardIsSpoken'
<1>1. /\ lineage # NoLineage /\ disk' = encode(lineage)
      /\ UNCHANGED <<lineage, installing, pinned, sent, generated, envelopes, heard, stats>>
  BY DEF Persist, talk
<1>2. Outside' = Outside
  BY <1>1, OutsideSame
<1>3. Ahead(disk', encode(lineage))
  BY <1>1, HeldType, Reflexive DEF CInv
<1>4. installing # NoLineage => Ahead(disk', encode(installing))
  <2> SUFFICES ASSUME installing # NoLineage PROVE Ahead(disk', encode(installing))
    OBVIOUS
  <2>1. lineage.inception.kem # installing.inception.kem
    BY <1>1 DEF CInv, LInv, Speaks
  <2>2. encode(lineage).kem # encode(installing).kem
    BY <2>1 DEF encode
  <2> QED  BY <1>1, <2>2 DEF Ahead, SameId
<1>5. Linear'
  BY <1>1, <1>2, <1>3, <1>4 DEF CInv, Linear
<1> QED  BY <1>1, <1>5, QuietTalk

LEMMA SendLinear ==
    ASSUME CInv, Careful, Send
    PROVE  Linear' /\ Truthful' /\ HeardIsSpoken'
<1>1. /\ sent' = sent \cup {disk}
      /\ UNCHANGED <<lineage, installing, pinned, disk, generated, envelopes, heard, stats>>
  BY DEF Send, talk
<1>2. Outside' \subseteq Outside \cup {disk}
  BY <1>1 DEF Outside
<1> QED  BY <1>1, <1>2, StoredLeaves, QuietTalk

LEMMA CrashLinear ==
    ASSUME CInv, Crash
    PROVE  Linear' /\ Truthful' /\ HeardIsSpoken'
<1>1. /\ lineage' = NoLineage /\ installing' = NoLineage
      /\ UNCHANGED <<pinned, disk, sent, generated, envelopes, heard, stats>>
  BY DEF Crash, host, talk
<1>2. Outside' = Outside
  BY <1>1, OutsideSame
<1>3. Linear'
  BY <1>1, <1>2 DEF CInv, Linear
<1> QED  BY <1>1, <1>3, QuietTalk

\* An envelope is signed for what is stored, with the key of what vouches for
\* the engine, or under an id that no peer has pinned.
LEMMA EnvelopeLinear ==
    ASSUME CInv, Careful, EncodeEnvelope
    PROVE  Linear' /\ Truthful' /\ HeardIsSpoken'
<1> DEFINE e == [sender_node_id |-> identity.node_id, sender_public_key |-> identity.sig,
                 chain |-> encode(Vouching)]
<1>1. /\ identity # NoEngine /\ envelopes' = envelopes \cup {e} /\ disk = encode(Vouching)
      /\ UNCHANGED <<lineage, installing, pinned, disk, sent, generated, heard, stats>>
  BY DEF EncodeEnvelope, Callable, host
<1>2. /\ e.sender_node_id = identity.node_id /\ e.sender_public_key = identity.sig
      /\ e.chain = disk
  BY <1>1
<1> HIDE DEF e
<1>3. Outside' \subseteq Outside \cup {disk}
  BY <1>1, <1>2 DEF Outside
<1>4. Linear'
  BY <1>1, <1>3, StoredLeaves
<1>5. e.sender_node_id = derive_node_id(First.kem, First.sig) =>
          /\ IdOf(e.chain) = derive_node_id(First.kem, First.sig)
          /\ LastState(e.chain).sig = e.sender_public_key
  <2> SUFFICES ASSUME identity.node_id = derive_node_id(First.kem, First.sig)
               PROVE  /\ IdOf(disk) = identity.node_id
                      /\ LastState(disk).sig = identity.sig
    BY <1>2
  <2>1. ~overtaken
    <3>1. identity.node_id.kem = First.kem
      BY DEF derive_node_id
    <3>2. First.kem \notin Generated
      BY SeedAssumption, FreshAssumption
    <3> QED  BY <1>1, <3>1, <3>2 DEF CInv, LInv, Speaks
  <2>2. Agrees(identity, Vouching)
    BY <1>1, <2>1 DEF CInv, LInv, Speaks, Vouching
  <2>3. Good(Vouching)
    BY <1>1, VouchingGood DEF CInv
  <2>4. /\ Vouching.node_id = IdOf(disk)
        /\ Vouching.current = LastState(disk)
    BY <1>1, <2>3, GoodType DEF IdOf
  <2> QED  BY <2>2, <2>4 DEF Agrees
<1>6. Old(e.chain.kem, generated)
  BY <1>2 DEF CInv, LInv, Fresh
<1>7. Truthful'
  BY <1>1, <1>5, <1>6 DEF CInv, Truthful
<1>8. HeardIsSpoken'
  BY <1>1 DEF CInv, HeardIsSpoken
<1> QED  BY <1>4, <1>7, <1>8

\* A record that extends a pin is the next one of a chain that has left, of
\* which the pin is a part: so is the extended pin.
LEMMA AppliedBelow ==
    ASSUME NEW l, Good(l), NEW w, GoodWire(w), NEW i \in 1 .. Len(w.rotations),
           Comparable(w, encode(l)), verify_next(l, w.rotations[i])
    PROVE  Below(encode(Extended(l, w.rotations[i])), w)
<1> DEFINE r == w.rotations[i]
           v == encode(l)
           x == encode(Extended(l, r))
<1>1. w \in LineageWire /\ w.rotations \in Seq(KeyRotation) /\ Len(w.rotations) \in Nat
  BY WireLen DEF GoodWire
<1>2. r \in KeyRotation /\ r.sequence = i
  BY <1>1 DEF GoodWire
<1>3. /\ x.kem = v.kem /\ x.sig = v.sig /\ x.rotations = Append(v.rotations, r)
      /\ r.sequence = Len(v.rotations) + 1
  BY <1>2, ExtendedGood
<1>4. v \in LineageWire /\ v.rotations \in Seq(KeyRotation) /\ Len(v.rotations) \in Nat
  BY WireLen DEF Good, GoodWire
<1>5. SameId(w, v)
  <2>1. r.node_id = IdOf(w)
    BY DEF GoodWire, IsChain, Follows, IdOf
  <2>2. r.node_id = l.node_id
    BY DEF verify_next, Follows
  <2>3. l.node_id = IdOf(v)
    BY GoodType DEF IdOf
  <2>4. IdOf(w) = IdOf(v)
    BY <2>1, <2>2, <2>3
  <2>5. IdOf(w).kem = w.kem /\ IdOf(w).sig = w.sig /\ IdOf(v).kem = v.kem /\ IdOf(v).sig = v.sig
    BY DEF IdOf, derive_node_id
  <2> QED  BY <2>4, <2>5 DEF SameId
<1>6. IsPrefixOf(v.rotations, w.rotations)
  <2>1. IsPrefixOf(w.rotations, v.rotations) \/ IsPrefixOf(v.rotations, w.rotations)
    BY <1>5 DEF Comparable
  <2>2. ~IsPrefixOf(w.rotations, v.rotations)
    BY <1>1, <1>2, <1>3, <1>4 DEF IsPrefixOf
  <2> QED  BY <2>1, <2>2
<1> HIDE DEF r, v, x
<1>7. r = w.rotations[Len(v.rotations) + 1] /\ Len(v.rotations) + 1 <= Len(w.rotations)
  BY <1>1, <1>2, <1>3 DEF r
<1>8. IsPrefixOf(x.rotations, w.rotations)
  <2> DEFINE a == v.rotations
             b == w.rotations
  <2>1. /\ Len(x.rotations) = Len(a) + 1
        /\ \A j \in 1 .. Len(a) : x.rotations[j] = a[j]
        /\ x.rotations[Len(a) + 1] = r
    BY <1>2, <1>3, <1>4
  <2>2. \A j \in 1 .. Len(a) : a[j] = b[j]
    BY <1>6 DEF IsPrefixOf
  <2>3. \A j \in 1 .. Len(a) + 1 : x.rotations[j] = b[j]
    BY <1>4, <1>7, <2>1, <2>2
  <2> QED  BY <1>7, <2>1, <2>3 DEF IsPrefixOf
<1> QED  BY <1>3, <1>5, <1>8 DEF Below, SameId, r, x

LEMMA ApplyLinear ==
    ASSUME CInv, NEW p \in Peer, NEW r \in Records, PeerApply(p, r)
    PROVE  Linear' /\ Truthful' /\ HeardIsSpoken'
<1> DEFINE v == encode(apply(pinned[p], r))
<1>1. /\ pinned' = [pinned EXCEPT ![p] = apply(pinned[p], r)]
      /\ UNCHANGED <<lineage, installing, disk, sent, generated, envelopes, heard, stats>>
  BY DEF PeerApply, host, talk
<1>2. pinned \in [Peer -> KeyLineage] /\ LInv
  BY DEF CInv, LInv, TypeOK
<1>3. r \in KeyRotation
  BY <1>2, RecordsTypes DEF LInv, TypeOK
<1>4. Good(pinned[p]) /\ encode(pinned[p]) \in Outside
  BY <1>2 DEF LInv, Sound, Outside
<1>5. Outside' \subseteq Outside \cup {v}
  <2>1. \A q \in Peer : encode(pinned'[q]) \in Outside \cup {v}
    BY <1>1, <1>2 DEF Outside
  <2> QED  BY <1>1, <2>1 DEF Outside
<1>6. v \in LineageWire
  BY <1>3, <1>4, AppliedGood DEF Good, GoodWire
<1>7. \E w \in Outside : Below(v, w)
  <2>1. CASE apply(pinned[p], r) = pinned[p]
    BY <1>4, <1>6, <2>1, Reflexive
  <2>2. CASE verify_next(pinned[p], r) /\ apply(pinned[p], r) = Extended(pinned[p], r)
    <3>1. PICK w \in sent : \E i \in 1 .. Len(w.rotations) : r = w.rotations[i]
      BY <1>2, RecordsTypes DEF LInv, TypeOK
    <3>2. w \in Outside /\ GoodWire(w)
      BY <1>2 DEF Outside, LInv, Sound
    <3>3. Comparable(w, encode(pinned[p]))
      BY <1>4, <3>2 DEF CInv, Linear
    <3>4. PICK i \in 1 .. Len(w.rotations) : r = w.rotations[i]
      BY <3>1
    <3>5. Below(encode(Extended(pinned[p], w.rotations[i])), w)
      BY <1>4, <2>2, <3>2, <3>3, <3>4, AppliedBelow
    <3> QED  BY <2>2, <3>2, <3>4, <3>5
  <2> QED  BY <1>3, <1>4, <2>1, <2>2, AppliedGood
<1> HIDE DEF v
<1>8. PICK w \in Outside : Below(v, w)
  BY <1>7
<1>9. w \in LineageWire /\ Outside \subseteq LineageWire /\ disk \in LineageWire
  BY <1>2, OutsideType, HeldType
<1>10. \A u \in Outside : Comparable(v, u)
  BY <1>6, <1>8, <1>9, BelowCompares DEF CInv, Linear
<1>11. Ahead(v, disk)
  BY <1>6, <1>8, <1>9, BelowAhead DEF CInv, Linear
<1>12. lineage # NoLineage => Ahead(v, encode(lineage))
  BY <1>2, <1>6, <1>8, <1>9, BelowAhead, HeldType DEF CInv, Linear
<1>13. installing # NoLineage => Ahead(v, encode(installing))
  BY <1>2, <1>6, <1>8, <1>9, BelowAhead, HeldType DEF CInv, Linear
<1>14. Linear'
  BY <1>1, <1>5, <1>6, <1>10, <1>11, <1>12, <1>13, LeavesStep
<1> QED  BY <1>1, <1>14, QuietTalk

Spoken(h) == /\ OneLine(h.envelope.chain, h.pin)
             /\ LastState(h.envelope.chain).sig = LastState(h.pin).sig

LEMMA HeardMeans ==
    HeardIsSpoken <=> \A p \in Peer :
                          /\ stats[p].messages_received = Len(heard[p])
                          /\ \A i \in 1 .. Len(heard[p]) : Spoken(heard[p][i])
  BY DEF HeardIsSpoken, Spoken

LEMMA VerifyLinear ==
    ASSUME CInv, NEW p \in Peer, NEW e \in envelopes, NEW valid \in BOOLEAN,
           VerifyFromLineage(p, e, valid)
    PROVE  Linear' /\ Truthful' /\ HeardIsSpoken'
<1> DEFINE v == encode(pinned[p])
           h == [envelope |-> e, pin |-> v]
           Accepted == /\ e.sender_node_id = pinned[p].node_id
                       /\ e.sender_public_key = LastState(v).sig
<1>1. LInv
  BY DEF CInv
<1>2. UNCHANGED <<lineage, installing, pinned, disk, sent, generated, envelopes>>
  BY <1>1, VerifyCases
<1>3. \/ Accepted /\ stats' = ReceivedBy(p) /\ heard' = [heard EXCEPT ![p] = Append(@, h)]
      \/ stats' = DroppedBy(p) /\ heard' = heard
  BY <1>1, VerifyCases
<1>4. Linear' /\ Truthful'
  <2>1. Outside' = Outside
    BY <1>2, OutsideSame
  <2>2. Linear'
    BY <1>2, <2>1 DEF CInv, Linear
  <2>3. Truthful'
    BY <1>2 DEF CInv, Truthful
  <2> QED  BY <2>2, <2>3
<1>5. Accepted => Spoken(h)
  <2> SUFFICES ASSUME Accepted PROVE Spoken(h)
    OBVIOUS
  <2>1. Good(pinned[p]) /\ pinned[p].node_id = derive_node_id(First.kem, First.sig)
    BY <1>1 DEF LInv, Sound, Fresh
  <2>2. IdOf(e.chain) = pinned[p].node_id /\ LastState(e.chain).sig = LastState(v).sig
    BY <2>1 DEF CInv, Truthful
  <2>3. pinned[p].node_id = IdOf(v)
    BY <2>1, GoodType DEF IdOf
  <2>4. SameId(e.chain, v)
    <3>1. \A w : IdOf(w).kem = w.kem /\ IdOf(w).sig = w.sig
      BY DEF IdOf, derive_node_id
    <3> QED  BY <2>2, <2>3, <3>1 DEF SameId
  <2>5. Comparable(e.chain, v)
    BY DEF CInv, Linear, Outside
  <2>6. OneLine(e.chain, v)
    BY <2>4, <2>5 DEF OneLine, Comparable, SameId
  <2> QED  BY <2>2, <2>6 DEF Spoken
<1> HIDE DEF h, Accepted
<1>6. /\ heard \in [Peer -> Seq(Acceptance)]
      /\ stats \in [Peer -> [messages_received : Nat, messages_dropped : Nat]]
  BY <1>1 DEF LInv, TypeOK
<1>7. ASSUME NEW q \in Peer
      PROVE  /\ stats'[q].messages_received = Len(heard'[q])
             /\ \A i \in 1 .. Len(heard'[q]) : Spoken(heard'[q][i])
  <2>1. /\ stats[q].messages_received = Len(heard[q])
        /\ \A i \in 1 .. Len(heard[q]) : Spoken(heard[q][i])
    BY HeardMeans DEF CInv
  <2>2. CASE stats' = DroppedBy(p) /\ heard' = heard
    BY <1>6, <2>1, <2>2, CountTypes
  <2>3. CASE Accepted /\ stats' = ReceivedBy(p) /\ heard' = [heard EXCEPT ![p] = Append(@, h)]
    <3>1. stats'[q].messages_received =
              IF q = p THEN stats[q].messages_received + 1 ELSE stats[q].messages_received
      BY <1>6, <2>3, CountTypes
    <3>2. heard'[q] = IF q = p THEN Append(heard[q], h) ELSE heard[q]
      BY <1>6, <2>3
    <3>3. CASE q # p
      BY <2>1, <3>1, <3>2, <3>3
    <3>4. CASE q = p
      <4> DEFINE s == heard[q]
      <4>1. s \in Seq(Acceptance)
        BY <1>6
      <4>2. /\ Len(Append(s, h)) = Len(s) + 1 /\ Len(s) \in Nat
            /\ \A i \in 1 .. Len(s) : Append(s, h)[i] = s[i]
            /\ Append(s, h)[Len(s) + 1] = h
        BY <4>1
      <4>3. \A i \in 1 .. Len(s) + 1 : Spoken(Append(s, h)[i])
        BY <1>5, <2>1, <2>3, <4>2
      <4> QED  BY <2>1, <3>1, <3>2, <3>4, <4>2, <4>3
    <3> QED  BY <3>3, <3>4
  <2> QED  BY <1>3, <2>2, <2>3
<1>8. HeardIsSpoken'
  BY <1>7 DEF HeardIsSpoken, Spoken
<1> QED  BY <1>4, <1>8

LEMMA CarefulStep == Careful /\ CInv /\ [Next]_vars => CInv'
<1> SUFFICES ASSUME Careful, CInv, [Next]_vars PROVE CInv'
  OBVIOUS
<1>1. LInv'
  BY LineageStep DEF CInv
<1>2. CASE UNCHANGED vars
  <2>1. UNCHANGED <<lineage, installing, pinned, disk, sent, generated, envelopes, heard, stats>>
    BY <1>2 DEF vars, host, talk
  <2>2. Outside' = Outside
    BY <2>1, OutsideSame
  <2>3. Linear'
    BY <2>1, <2>2 DEF CInv, Linear
  <2> QED  BY <1>1, <2>1, <2>3, QuietTalk DEF CInv
<1>3. ASSUME NEW kem \in KemSeed, NEW sig \in SigSeed,
             GossipInit(kem, sig) \/ GossipInitWithLineage(kem, sig)
      PROVE  CInv'
  <2>1. ~GossipInit(kem, sig)
    BY DEF GossipInit
  <2> QED  BY <1>1, <1>3, <2>1, RestartLinear DEF CInv
<1>4. ASSUME NEW kem \in KemSeed, NEW sig \in SigSeed,
             NEW c \in Committed \cup {NoCommitment}, NEW t \in Time,
             RotateKeysUnderId(kem, sig, c, t) \/ RecoverLineage(kem, sig, c, t)
      PROVE  CInv'
  BY <1>1, <1>4, RotateUnderIdLinear, RecoverLinear DEF CInv
<1>5. CASE FinishInstall \/ RotateKeys \/ Persist \/ Send \/ Crash \/ EncodeEnvelope
  BY <1>1, <1>5, FinishInstallLinear, RotateKeysLinear, PersistLinear, SendLinear, CrashLinear,
     EnvelopeLinear DEF CInv
<1>6. ASSUME NEW p \in Peer, NEW r \in Records, PeerApply(p, r)
      PROVE  CInv'
  BY <1>1, <1>6, ApplyLinear DEF CInv
<1>7. ASSUME NEW p \in Peer, NEW e \in envelopes, NEW valid \in BOOLEAN,
             VerifyFromLineage(p, e, valid)
      PROVE  CInv'
  BY <1>1, <1>7, VerifyLinear DEF CInv
<1> QED  BY <1>2, <1>3, <1>4, <1>5, <1>6, <1>7 DEF Next

-----------------------------------------------------------------------------
(* Theorems *)

\* The invariant behind the theorems: what has left the host is linear and the
\* host is ahead of it.
THEOREM CarefulInductive ==
    ASSUME Careful
    PROVE  Spec => []CInv
<1>1. Init => CInv
  BY CarefulInit
<1>2. CInv /\ [Next]_vars => CInv'
  BY CarefulStep
<1> QED  BY <1>1, <1>2, PTL DEF Spec

\* A host that persists before anything leaves never forks a node id, wherever
\* it crashes and in whatever order records reach the peers.
THEOREM NoForkTheorem ==
    ASSUME Careful
    PROVE  Spec => []NoFork
<1>1. CInv => NoFork
  <2> SUFFICES ASSUME CInv, NEW v \in Wires, NEW w \in Wires PROVE Comparable(v, w)
    BY DEF NoFork, Comparable, SameId
  <2> DEFINE Held == IF lineage = NoLineage THEN {} ELSE {encode(lineage)}
  <2>1. Wires \subseteq Outside \cup {disk} \cup Held
    BY DEF Wires, Outside
  <2>2. ASSUME NEW a \in Outside \cup {disk}, NEW b \in Outside \cup {disk}
        PROVE  Comparable(a, b)
    BY AheadCompares, Symmetric, Reflexive, HeldType DEF CInv, Linear
  <2>3. ASSUME NEW a \in Outside \cup {disk}, NEW b \in Held
        PROVE  Comparable(a, b)
    BY AheadCompares DEF CInv, Linear
  <2>4. ASSUME NEW a \in Held, NEW b \in Held
        PROVE  Comparable(a, b)
    <3>1. a = b /\ a \in LineageWire
      BY HeldType DEF CInv
    <3> QED  BY <3>1, Reflexive
  <2> HIDE DEF Held
  <2> QED  BY <2>1, <2>2, <2>3, <2>4, Symmetric
<1> QED  BY <1>1, CarefulInductive, PTL

\* Whatever a peer counts as received was signed on the history it has pinned,
\* with the key that is current where the peer stands.
THEOREM HeardTheorem ==
    ASSUME Careful
    PROVE  Spec => []HeardIsSpoken
<1>1. CInv => HeardIsSpoken
  BY DEF CInv
<1> QED  BY <1>1, CarefulInductive, PTL
=============================================================================
