---------------------------- MODULE WasiAbiProofs ----------------------------
(***************************************************************************)
(* Proofs about WasiAbi: for any memory, any sizes and any bounds, a host  *)
(* that follows the convention leaks nothing and frees nothing foreign.    *)
(***************************************************************************)
EXTENDS WasiAbi, TLAPS

Result == [ptr |-> out.ptr, len |-> out.len, use |-> "result"]

\* What the host holds besides results is not empty, and the unread result is
\* no block that it holds already.
Apart ==
    /\ \A h \in held : h.use # "result" => h.len # 0
    /\ call # NoCall /\ out.ptr # 0 /\ out.len # 0 =>
           \A h \in held : h.len # 0 => h.ptr # out.ptr

\* The inductive invariant.
WInv == TypeOK /\ NothingLeaks /\ MemorySound /\ Apart

\* A block the host owes.
IsBlock(h) == h.ptr # 0 /\ h.len # 0

\* NothingLeaks, one pointer at a time, of a heap and what is owed.
Backed(hp, owed) ==
    \A a \in Address : hp[a] # Free => \E h \in owed : IsBlock(h) /\ h.ptr = a
AllLive(hp, owed) ==
    \A h \in owed : IsBlock(h) => h.ptr \in Address /\ hp[h.ptr] # Free /\ h.len <= hp[h.ptr].size
Single(owed) ==
    \A h, k \in owed : IsBlock(h) /\ IsBlock(k) /\ h.ptr = k.ptr => h = k

\* NothingLeaks is these three, now and after a step.
LEMMA LeaksPointwise ==
    NothingLeaks <=> Backed(heap, Owed) /\ AllLive(heap, Owed) /\ Single(Owed)
  BY DEF NothingLeaks, IsBlock, Live, FreeAddress, Backed, AllLive, Single

LEMMA LeaksPointwiseNext ==
    NothingLeaks' <=> Backed(heap', Owed') /\ AllLive(heap', Owed') /\ Single(Owed')
  BY DEF NothingLeaks, IsBlock, Live, FreeAddress, Backed, AllLive, Single

\* The unread result is owed.
LEMMA ResultOwed == call # NoCall => Result \in Owed
  BY DEF Result, Owed

\* A free block that is filled and handed to the host.
LEMMA FillSound ==
    ASSUME NothingLeaks, heap \in [Address -> {Free} \cup [size : Nat \ {0}, data : Nat]],
           NEW a \in FreeAddress, NEW n \in Nat \ {0}, NEW size \in Nat, n <= size,
           NEW data \in Nat, NEW use,
           heap' = [heap EXCEPT ![a] = [size |-> size, data |-> data]],
           \A h \in Owed' : IsBlock(h) => h \in Owed \/ h = [ptr |-> a, len |-> n, use |-> use],
           \A h \in Owed : IsBlock(h) => h \in Owed',
           [ptr |-> a, len |-> n, use |-> use] \in Owed'
    PROVE  NothingLeaks'
<1> DEFINE new == [ptr |-> a, len |-> n, use |-> use]
           block == [size |-> size, data |-> data]
<1>1. a \in Address /\ heap[a] = Free /\ a # 0
  BY AddressAssumption DEF FreeAddress
<1>2. IsBlock(new) /\ new.ptr = a /\ new.len = n
  BY <1>1 DEF IsBlock
<1>3. block # Free /\ block.size = size
  BY DEF Free
<1>4. heap'[a] = block /\ \A b \in Address : b # a => heap'[b] = heap[b]
  BY <1>1
<1>5. \A h \in Owed : IsBlock(h) => h.ptr # a
  BY <1>1, LeaksPointwise DEF AllLive
<1> HIDE DEF new, block
<1>6. Backed(heap', Owed')
  <2> SUFFICES ASSUME NEW b \in Address, heap'[b] # Free
               PROVE  \E h \in Owed' : IsBlock(h) /\ h.ptr = b
    BY DEF Backed
  <2>1. CASE b = a
    BY <1>2, <2>1 DEF new
  <2>2. CASE b # a
    BY <1>4, <2>2, LeaksPointwise DEF Backed
  <2> QED  BY <2>1, <2>2
<1>7. AllLive(heap', Owed')
  <2> SUFFICES ASSUME NEW h \in Owed', IsBlock(h)
               PROVE  h.ptr \in Address /\ heap'[h.ptr] # Free /\ h.len <= heap'[h.ptr].size
    BY DEF AllLive
  <2>1. CASE h = new
    BY <1>1, <1>2, <1>3, <1>4, <2>1
  <2>2. CASE h \in Owed
    BY <1>4, <1>5, <2>2, LeaksPointwise DEF AllLive
  <2> QED  BY <2>1, <2>2 DEF new
<1>8. Single(Owed')
  BY <1>2, <1>5, LeaksPointwise DEF Single, new
<1> QED  BY <1>6, <1>7, <1>8, LeaksPointwiseNext

\* Blocks that stay, with what is owed for them.
LEMMA SameSound ==
    ASSUME NothingLeaks, heap' = heap,
           \A h \in Owed' : IsBlock(h) => h \in Owed,
           \A h \in Owed : IsBlock(h) => h \in Owed'
    PROVE  NothingLeaks'
<1>1. Backed(heap', Owed')
  BY LeaksPointwise DEF Backed
<1>2. AllLive(heap', Owed') /\ Single(Owed')
  BY LeaksPointwise DEF AllLive, Single
<1> QED  BY <1>1, <1>2, LeaksPointwiseNext

\* The names of the exports and the types they return.
LEMMA ExportNames ==
    /\ "none" \notin Function
    /\ \A f \in Function : Export[f].returns \in {"unit", "fixed", "bytes", "bool", "option"}
  BY DEF Function, Export

\* No block is empty.
LEMMA Sizes ==
    /\ Size \subseteq Nat \ {0}
    /\ ErrorSize \subseteq Size /\ PayloadSize \subseteq Size /\ InputSize \subseteq Size
    /\ FixedSize \in Size /\ SlotSize \in Size
  BY AddressAssumption DEF Size, FixedSize, SlotSize

\* The four kinds of outcome, by the type the export returns.
LEMMA OutcomeKinds ==
    ASSUME NEW f \in Function, NEW outcome \in Outcome(f)
    PROVE  \/ \E n \in Size : outcome = Err(Bytes(n, calls))
           \/ outcome = Ok(Nothing) /\ Export[f].returns \in {"unit", "option"}
           \/ \E v \in {True, False} : outcome = Ok(v) /\ Export[f].returns = "bool"
           \/ \E n \in Size : /\ outcome = Ok(Bytes(n, calls))
                              /\ Export[f].returns \in {"fixed", "bytes", "option"}
<1>1. CASE \E n \in ErrorSize : outcome = Err(Bytes(n, calls))
  BY <1>1, Sizes
<1>2. CASE \E v \in Value(f) : outcome = Ok(v)
  <2>1. PICK v \in Value(f) : outcome = Ok(v)
    BY <1>2
  <2>2. \/ v = Nothing /\ Export[f].returns \in {"unit", "option"}
        \/ v \in {True, False} /\ Export[f].returns = "bool"
        \/ /\ \E n \in Size : v = Bytes(n, calls)
           /\ Export[f].returns \in {"fixed", "bytes", "option"}
    BY ExportNames, Sizes DEF Value
  <2> QED  BY <2>1, <2>2
<1> QED  BY <1>1, <1>2 DEF Outcome

\* An error has bytes; a success has bytes or is one of three constants.
LEMMA OutcomeShape ==
    ASSUME NEW f \in Function, NEW outcome \in Outcome(f)
    PROVE  \/ /\ outcome.ok = 0
              /\ \E n \in Size : outcome.value = Bytes(n, calls)
           \/ /\ outcome.ok = 1
              /\ \/ outcome.value \in {Nothing, True, False}
                 \/ \E n \in Size : outcome.value = Bytes(n, calls)
  BY OutcomeKinds DEF Ok, Err

\* An export either leaves memory alone and writes no block into the out-slot,
\* or fills a free block and writes its address and length there.
Quiet(w) == /\ w.heap = heap
            /\ w.out \in [ok : {0, 1}, ptr : {0, 1}, len : {0}]
Fills(w, a, n, extra) ==
    /\ w.heap = [heap EXCEPT ![a] = [size |-> n + extra, data |-> calls]]
    /\ w.out \in [ok : {0, 1}, ptr : {a}, len : {n}]

\* A leaked buffer fills a free block.
LEMMA LeakedShape ==
    ASSUME NEW ok \in {0, 1}, NEW n \in Size, NEW slack \in Nat,
           NEW w \in Leaked(ok, Bytes(n, calls), slack)
    PROVE  \E a \in FreeAddress, extra \in Nat : Fills(w, a, n, extra)
  BY DEF Leaked, Fills, Bytes, write_out

\* Every export does one or the other.
LEMMA WrittenShape ==
    ASSUME NEW f \in Function, NEW outcome \in Outcome(f), NEW w \in Written(f, outcome)
    PROVE  Quiet(w) \/ \E a \in FreeAddress, n \in Size, extra \in Nat : Fills(w, a, n, extra)
<1>1. MaxSlack \in Nat /\ 0 \in Nat
  BY AddressAssumption
<1>2. CASE outcome.ok = 0
  <2>1. PICK n \in Size : outcome.value = Bytes(n, calls)
    BY <1>2, OutcomeShape
  <2>2. w \in Leaked(0, Bytes(n, calls), MaxSlack)
    BY <1>2, <2>1 DEF Written, write_err
  <2> QED  BY <1>1, <2>2, LeakedShape
<1>3. CASE outcome.ok = 1 /\ outcome.value \in {Nothing, True, False}
  <2>1. w \in write_ok_unit \/ w \in write_bool(outcome.value)
    BY <1>3 DEF Written, Nothing, True, False
  <2> QED  BY <2>1 DEF write_ok_unit, write_bool, write_out, Quiet
<1>4. CASE outcome.ok = 1 /\ \E n \in Size : outcome.value = Bytes(n, calls)
  <2>1. PICK n \in Size : outcome.value = Bytes(n, calls)
    BY <1>4
  <2>2. outcome.value.is = "bytes" /\ outcome.value # Nothing
    BY <2>1 DEF Bytes, Nothing
  <2>3. w \in write_ok_fixed(outcome.value) \/ w \in write_ok_bytes(outcome.value)
    BY <1>4, <2>2 DEF Written
  <2>4. w \in Leaked(1, Bytes(n, calls), MaxSlack) \/ w \in Leaked(1, Bytes(n, calls), 0)
    BY <2>1, <2>3 DEF write_ok_fixed, write_ok_bytes
  <2> QED  BY <1>1, <2>4, LeakedShape
<1> QED  BY <1>2, <1>3, <1>4, OutcomeShape

-----------------------------------------------------------------------------
(* The steps *)

\* Initially there are no blocks and nothing is owed.
LEMMA InitStep == Init => WInv
<1> SUFFICES ASSUME Init PROVE WInv
  OBVIOUS
<1>1. TypeOK
  BY DEF Init, TypeOK, write_out, Pointer, Free, Size
<1>2. Owed = {}
  BY DEF Init, Owed
<1>3. NothingLeaks
  BY <1>2, LeaksPointwise DEF Init, Backed, AllLive, Single
<1>4. MemorySound /\ Apart
  BY DEF Init, MemorySound, Apart
<1> QED  BY <1>1, <1>3, <1>4 DEF WInv

\* Memory for the out-slot or an input.
LEMMA AllocStep ==
    ASSUME WInv, NEW size \in Size, NEW use \in {"slot", "input"}, wasi_alloc(size, use)
    PROVE  WInv'
<1> USE DEF WInv
<1>1. size \in Nat \ {0}
  BY Sizes
<1>2. ASSUME NEW a \in FreeAddress,
             heap' = [heap EXCEPT ![a] = [size |-> size, data |-> 0]],
             held' = held \cup {[ptr |-> a, len |-> size, use |-> use]}
      PROVE  WInv'
  <2>1. a \in Address /\ heap[a] = Free
    BY DEF FreeAddress
  <2>2. TypeOK'
    BY <1>1, <1>2, <2>1 DEF TypeOK, wasi_alloc, Pointer
  <2>3. Owed' = Owed \cup {[ptr |-> a, len |-> size, use |-> use]}
    BY <1>2 DEF Owed, wasi_alloc
  <2>4. NothingLeaks'
    <3>1. heap \in [Address -> {Free} \cup [size : Nat \ {0}, data : Nat]]
      BY DEF TypeOK
    <3>2. size <= size /\ size \in Nat /\ 0 \in Nat
      BY <1>1
    <3> QED  BY <1>1, <1>2, <2>3, <3>1, <3>2, FillSound
  <2>5. call # NoCall /\ out.ptr # 0 /\ out.len # 0 => out.ptr # a
    BY <2>1, ResultOwed, LeaksPointwise DEF AllLive, IsBlock, Result
  <2>6. MemorySound' /\ Apart'
    BY <1>1, <1>2, <2>5 DEF MemorySound, Apart, wasi_alloc
  <2> QED  BY <2>2, <2>4, <2>6
<1>3. ASSUME held' = held \cup {[ptr |-> 0, len |-> size, use |-> use]}, UNCHANGED heap
      PROVE  WInv'
  <2>1. TypeOK'
    BY <1>3 DEF TypeOK, wasi_alloc, Pointer
  <2>2. Owed' = Owed \cup {[ptr |-> 0, len |-> size, use |-> use]}
    BY <1>3 DEF Owed, wasi_alloc
  <2>3. NothingLeaks'
    BY <1>3, <2>2, SameSound DEF IsBlock
  <2>4. MemorySound' /\ Apart'
    BY <1>1, <1>3 DEF MemorySound, Apart, wasi_alloc
  <2> QED  BY <2>1, <2>3, <2>4
<1> QED  BY <1>2, <1>3 DEF wasi_alloc

\* The blocks a call is given are live, and what it leaks is new.
LEMMA CallStep ==
    ASSUME WInv, NEW f \in Function, NEW slot \in held, NEW arguments \in SUBSET held,
           Call(f, slot, arguments)
    PROVE  WInv'
<1> USE DEF WInv
<1>1. PICK outcome \in Outcome(f) : \E w \in Written(f, outcome) :
           /\ out' = w.out
           /\ heap' = w.heap
           /\ call' = [function |-> f, outcome |-> outcome]
           /\ initialized' = (initialized \/ (f = "gossip_init_wasi" /\ outcome.ok = 1))
  BY DEF Call
<1>2. PICK w \in Written(f, outcome) :
           /\ out' = w.out
           /\ heap' = w.heap
           /\ call' = [function |-> f, outcome |-> outcome]
           /\ initialized' = (initialized \/ (f = "gossip_init_wasi" /\ outcome.ok = 1))
  BY <1>1
<1>3. call = NoCall /\ held' = held /\ calls' = calls + 1
  BY DEF Call
<1>4. call' # NoCall /\ call'.function \in Function
  BY <1>2, ExportNames DEF NoCall
<1>5. Owed = held /\ Owed' = held \cup {Result'}
  BY <1>3, <1>4 DEF Owed, Result
<1>6. MemorySound'
  <2>1. \A h \in arguments \cup {slot} : h \in Owed /\ IsBlock(h)
    BY <1>5 DEF Call, Apart, IsBlock
  <2>2. \A h \in arguments \cup {slot} : Live(h.ptr, h.len)
    BY <2>1, LeaksPointwise DEF AllLive, Live
  <2> QED  BY <2>2 DEF Call, MemorySound, read_bytes
<1>7. initialized' \in BOOLEAN /\ misused' \in BOOLEAN /\ calls' \in Nat
  BY <1>2, <1>3, <1>6 DEF TypeOK, MemorySound, Call
<1>8. CASE Quiet(w)
  <2>1. heap' = heap /\ out' \in [ok : {0, 1}, ptr : {0, 1}, len : {0}]
    BY <1>2, <1>8 DEF Quiet
  <2>2. TypeOK'
    BY <1>3, <1>4, <1>7, <2>1 DEF TypeOK, Pointer
  <2>3. ~IsBlock(Result')
    BY <2>1 DEF Result, IsBlock
  <2>4. NothingLeaks'
    BY <1>5, <2>1, <2>3, SameSound
  <2>5. Apart'
    BY <1>3, <2>1 DEF Apart
  <2> QED  BY <1>6, <2>2, <2>4, <2>5
<1>9. ASSUME NEW a \in FreeAddress, NEW n \in Size, NEW extra \in Nat, Fills(w, a, n, extra)
      PROVE  WInv'
  <2>1. a \in Address /\ heap[a] = Free /\ n \in Nat \ {0}
    BY Sizes DEF FreeAddress
  <2>2. /\ heap' = [heap EXCEPT ![a] = [size |-> n + extra, data |-> calls]]
        /\ out' \in [ok : {0, 1}, ptr : {a}, len : {n}]
    BY <1>2, <1>9 DEF Fills
  <2>3. n + extra \in Nat \ {0} /\ n <= n + extra /\ calls \in Nat
    BY <2>1 DEF TypeOK
  <2>4. TypeOK'
    BY <1>3, <1>4, <1>7, <2>1, <2>2, <2>3 DEF TypeOK, Pointer
  <2>5. Result' = [ptr |-> a, len |-> n, use |-> "result"]
    BY <2>2 DEF Result
  <2>6. NothingLeaks'
    BY <1>5, <2>1, <2>2, <2>3, <2>5, FillSound DEF TypeOK
  <2>7. \A h \in held : IsBlock(h) => h.ptr # a
    BY <1>5, <2>1, LeaksPointwise DEF AllLive
  <2>8. \A h \in held : h.len # 0 => h.ptr # a
    BY <2>1, <2>7, AddressAssumption DEF IsBlock
  <2>9. Apart'
    BY <1>3, <2>2, <2>8 DEF Apart
  <2> QED  BY <1>6, <2>4, <2>6, <2>9
<1> QED  BY <1>8, <1>9, WrittenShape

\* The result goes from the out-slot to what the host holds.
LEMMA ReadStep ==
    ASSUME WInv, ReadResult PROVE WInv'
<1> USE DEF WInv
<1>1. call # NoCall /\ call' = NoCall /\ heap' = heap /\ out' = out
  BY DEF ReadResult
<1>2. held' = IF out.ptr = 0 THEN held ELSE held \cup {Result}
  BY DEF ReadResult, Result
<1>3. TypeOK'
  <2>1. Result \in [ptr : Pointer, len : Size \cup {0}, use : {"slot", "input", "result"}]
    BY DEF TypeOK, Result
  <2> QED  BY <1>1, <1>2, <2>1 DEF TypeOK, ReadResult
<1>4. NothingLeaks'
  <2>1. Owed = held \cup {Result} /\ Owed' = held'
    BY <1>1 DEF Owed, Result
  <2>2. out.ptr = 0 => ~IsBlock(Result)
    BY DEF IsBlock, Result
  <2> QED  BY <1>1, <1>2, <2>1, <2>2, SameSound
<1>5. MemorySound' /\ Apart'
  BY <1>1, <1>2 DEF MemorySound, Apart, ReadResult, Result
<1> QED  BY <1>3, <1>4, <1>5

\* What the host gives back is a live block, or nothing wasi_free looks at.
LEMMA ReleaseStep ==
    ASSUME WInv, NEW h \in held, Release(h)
    PROVE  WInv'
<1> USE DEF WInv
<1>1. h \in Owed
  BY DEF Owed
<1>2. out' = out /\ call' = call /\ held' = held \ {h}
  BY DEF Release
<1>3. Apart'
  BY <1>2 DEF Apart
<1>4. CASE ~IsBlock(h)
  <2>1. heap' = heap /\ misused' = misused
    BY <1>4 DEF Release, wasi_free, IsBlock
  <2>2. TypeOK' /\ MemorySound'
    BY <1>2, <2>1 DEF TypeOK, MemorySound, Release
  <2>3. \A k \in Owed' : k \in Owed
    BY <1>2 DEF Owed
  <2>4. \A k \in Owed : k # h => k \in Owed'
    BY <1>2 DEF Owed
  <2>5. NothingLeaks'
    BY <1>4, <2>1, <2>3, <2>4, SameSound
  <2> QED  BY <1>3, <2>2, <2>5
<1>5. CASE IsBlock(h)
  <2>1. h.ptr \in Address /\ heap[h.ptr] # Free /\ Live(h.ptr, h.len)
    BY <1>1, <1>5, LeaksPointwise DEF AllLive, Live
  <2>2. heap' = [heap EXCEPT ![h.ptr] = Free] /\ misused' = misused
    BY <1>5, <2>1 DEF Release, wasi_free, IsBlock, TypeOK
  <2>3. TypeOK' /\ MemorySound'
    BY <1>2, <2>1, <2>2 DEF TypeOK, MemorySound, Release
  <2>4. \A k \in Owed' : k \in Owed
    BY <1>2 DEF Owed
  <2>5. \A k \in Owed : k # h => k \in Owed'
    BY <1>2 DEF Owed
  <2>6. h \notin Owed'
    BY <1>2, <1>5 DEF Owed, Apart, IsBlock
  <2>7. heap'[h.ptr] = Free /\ \A b \in Address : b # h.ptr => heap'[b] = heap[b]
    BY <2>1, <2>2 DEF TypeOK
  <2>8. Backed(heap', Owed')
    BY <2>5, <2>7, LeaksPointwise DEF Backed
  <2>9. AllLive(heap', Owed')
    <3> SUFFICES ASSUME NEW k \in Owed', IsBlock(k)
                 PROVE  k.ptr \in Address /\ heap'[k.ptr] # Free /\ k.len <= heap'[k.ptr].size
      BY DEF AllLive
    <3>1. k \in Owed /\ k.ptr # h.ptr
      BY <1>1, <1>5, <2>4, <2>6, LeaksPointwise DEF Single
    <3> QED  BY <2>7, <3>1, LeaksPointwise DEF AllLive
  <2>10. Single(Owed')
    BY <2>4, LeaksPointwise DEF Single
  <2> QED  BY <1>3, <2>3, <2>8, <2>9, <2>10, LeaksPointwiseNext
<1> QED  BY <1>4, <1>5

\* Nothing changes.
LEMMA StutterStep ==
    ASSUME WInv, UNCHANGED vars PROVE WInv'
  BY DEF vars, WInv, TypeOK, NothingLeaks, Owed, FreeAddress, Live, MemorySound, Apart

-----------------------------------------------------------------------------

\* The invariant of the exports and their host holds in every reachable state.
THEOREM AbiInductive == Spec => []WInv
<1>1. WInv /\ [Next]_vars => WInv'
  <2> SUFFICES ASSUME WInv, [Next]_vars PROVE WInv'
    OBVIOUS
  <2>1. CASE wasi_alloc(SlotSize, "slot")
    BY <2>1, AllocStep, Sizes
  <2>2. ASSUME NEW n \in InputSize, wasi_alloc(n, "input") PROVE WInv'
    BY <2>2, AllocStep, Sizes
  <2>3. ASSUME NEW f \in Function, NEW slot \in held, NEW arguments \in SUBSET held,
               Call(f, slot, arguments)
        PROVE  WInv'
    BY <2>3, CallStep
  <2>4. CASE ReadResult
    BY <2>4, ReadStep
  <2>5. ASSUME NEW h \in held, Release(h) PROVE WInv'
    BY <2>5, ReleaseStep
  <2>6. CASE UNCHANGED vars
    BY <2>6, StutterStep
  <2> QED  BY <2>1, <2>2, <2>3, <2>4, <2>5, <2>6 DEF Next
<1> QED  BY <1>1, InitStep, PTL DEF Spec

\* Blocks, pointers and the out-slot have their types, whatever the host does.
THEOREM AbiTypeCorrect == Spec => []TypeOK
<1>1. WInv => TypeOK
  BY DEF WInv
<1> QED  BY <1>1, AbiInductive, PTL

\* Whatever mixture of results and errors the exports return, the live blocks
\* are exactly the ones the host has still to free.
THEOREM NothingLeaksTheorem == Spec => []NothingLeaks
<1>1. WInv => NothingLeaks
  BY DEF WInv
<1> QED  BY <1>1, AbiInductive, PTL

\* No export and no wasi_free touches memory that is no block of the host's.
THEOREM MemorySoundTheorem == Spec => []MemorySound
<1>1. WInv => MemorySound
  BY DEF WInv
<1> QED  BY <1>1, AbiInductive, PTL

-----------------------------------------------------------------------------
(* What the host decodes *)

\* An out-slot that holds no block holds no address either.
RInv == /\ ResultReachesHost
        /\ call # NoCall /\ out.len = 0 => out.ptr \notin Address

\* What Decoded makes of the bytes of a block that has just been filled.
LEMMA FilledBytes ==
    ASSUME heap \in [Address -> {Free} \cup [size : Nat \ {0}, data : Nat]],
           NEW ok \in {0, 1}, NEW n \in Size, NEW slack \in Nat,
           NEW w \in Leaked(ok, Bytes(n, calls), slack), out' = w.out, heap' = w.heap
    PROVE  /\ out'.ok = ok /\ out'.ptr \in Address /\ out'.len = n
           /\ BytesAt(out.ptr, out.len)' = Bytes(n, calls)
<1>1. PICK a \in FreeAddress, extra \in 0..slack :
          w = [out |-> write_out(ok, a, Bytes(n, calls).size),
               heap |-> [heap EXCEPT ![a] = [size |-> Bytes(n, calls).size + extra,
                                            data |-> Bytes(n, calls).data]]]
  BY DEF Leaked
<1>2. Bytes(n, calls).size = n /\ Bytes(n, calls).data = calls
  BY DEF Bytes
<1>3. a \in Address
  BY DEF FreeAddress
<1>4. out' = [ok |-> ok, ptr |-> a, len |-> n]
  BY <1>1, <1>2 DEF write_out
<1>5. heap'[a] = [size |-> n + extra, data |-> calls]
  BY <1>1, <1>2, <1>3
<1>6. out'.ok = ok /\ out'.ptr = a /\ out'.len = n /\ heap'[a].data = calls
  BY <1>4, <1>5
<1> QED  BY <1>3, <1>6 DEF BytesAt

\* After a call the out-slot decodes to its outcome.
LEMMA CallDecodes ==
    ASSUME WInv, NEW f \in Function, NEW outcome \in Outcome(f),
           NEW w \in Written(f, outcome), out' = w.out, heap' = w.heap
    PROVE  /\ Decoded(f)' = outcome
           /\ out'.len = 0 => out'.ptr \notin Address
<1>1. MaxSlack \in Nat /\ 0 \in Nat /\ 0 \in {0, 1} /\ 1 \in {0, 1}
  BY AddressAssumption
<1>2. heap \in [Address -> {Free} \cup [size : Nat \ {0}, data : Nat]]
  BY DEF WInv, TypeOK
<1>3. 0 \notin Address /\ 1 \notin Address
  BY AddressAssumption
<1>4. ASSUME NEW n \in Size, outcome = Err(Bytes(n, calls))
      PROVE  Decoded(f)' = outcome /\ out'.len # 0
  <2>1. outcome.ok = 0 /\ outcome.value = Bytes(n, calls)
    BY <1>4 DEF Err
  <2>2. w \in Leaked(0, Bytes(n, calls), MaxSlack)
    BY <2>1 DEF Written, write_err
  <2>3. out'.ok = 0 /\ out'.len = n /\ BytesAt(out.ptr, out.len)' = Bytes(n, calls)
    BY <1>1, <1>2, <2>2, FilledBytes
  <2>4. n # 0
    BY Sizes
  <2> QED  BY <1>4, <2>3, <2>4 DEF Decoded
<1>5. CASE outcome = Ok(Nothing) /\ Export[f].returns \in {"unit", "option"}
  <2>1. outcome.ok = 1 /\ outcome.value = Nothing
    BY <1>5 DEF Ok
  <2>2. w \in write_ok_unit
    BY <2>1 DEF Written, Nothing
  <2>3. out'.ok = 1 /\ out'.ptr = 0
    BY <2>2 DEF write_ok_unit, write_out
  <2> QED  BY <1>3, <1>5, <2>3 DEF Decoded
<1>6. ASSUME NEW v \in {True, False}, outcome = Ok(v), Export[f].returns = "bool"
      PROVE  Decoded(f)' = outcome /\ out'.ptr \in {0, 1}
  <2>1. outcome.ok = 1 /\ outcome.value = v
    BY <1>6 DEF Ok
  <2>2. v.is \in {"true", "false"} /\ v # Nothing /\ True # False
    BY DEF True, False, Nothing
  <2>3. w \in write_bool(v)
    BY <2>1, <2>2 DEF Written
  <2>4. out'.ok = 1 /\ out'.ptr = IF v = True THEN 1 ELSE 0
    BY <2>3 DEF write_bool, write_out
  <2>5. v = IF out'.ptr = 1 THEN True ELSE False
    BY <2>2, <2>4
  <2> QED  BY <1>6, <2>4, <2>5 DEF Decoded
<1>7. ASSUME NEW n \in Size, outcome = Ok(Bytes(n, calls)),
             Export[f].returns \in {"fixed", "bytes", "option"}
      PROVE  Decoded(f)' = outcome /\ out'.len # 0
  <2>1. outcome.ok = 1 /\ outcome.value = Bytes(n, calls)
    BY <1>7 DEF Ok
  <2>2. outcome.value.is = "bytes" /\ outcome.value # Nothing
    BY <2>1 DEF Bytes, Nothing
  <2>3. w \in write_ok_fixed(outcome.value) \/ w \in write_ok_bytes(outcome.value)
    BY <2>1, <2>2 DEF Written
  <2>4. w \in Leaked(1, Bytes(n, calls), MaxSlack) \/ w \in Leaked(1, Bytes(n, calls), 0)
    BY <2>1, <2>3 DEF write_ok_fixed, write_ok_bytes
  <2>5. /\ out'.ok = 1 /\ out'.ptr \in Address /\ out'.len = n
        /\ BytesAt(out.ptr, out.len)' = Bytes(n, calls)
    BY <1>1, <1>2, <2>4, FilledBytes
  <2>6. n # 0 /\ out'.ptr # 0 /\ out'.ok # 0
    BY <1>3, <2>5, Sizes
  <2> QED  BY <1>7, <2>5, <2>6 DEF Decoded
<1> QED  BY <1>3, <1>4, <1>5, <1>6, <1>7, OutcomeKinds

\* Other steps leave the unread result alone.
LEMMA KeepsResult ==
    ASSUME RInv, out' = out, call' = call,
           call # NoCall /\ out.ptr \in Address => heap'[out.ptr] = heap[out.ptr]
    PROVE  RInv'
<1>1. CASE call = NoCall
  BY <1>1 DEF RInv, ResultReachesHost
<1>2. CASE call # NoCall
  <2>1. BytesAt(out.ptr, out.len)' = BytesAt(out.ptr, out.len)
    BY <1>2 DEF BytesAt
  <2>2. Decoded(call.function)' = Decoded(call.function)
    BY <2>1 DEF Decoded
  <2> QED  BY <1>2, <2>2 DEF RInv, ResultReachesHost
<1> QED  BY <1>1, <1>2

\* The host decodes what the API returned, whatever it allocates and frees
\* between a call and the reading of its out-slot.
THEOREM ResultTheorem == Spec => []ResultReachesHost
<1>1. Init => RInv
  BY DEF Init, RInv, ResultReachesHost
<1>2. WInv /\ RInv /\ [Next]_vars => RInv'
  <2> SUFFICES ASSUME WInv, RInv, [Next]_vars PROVE RInv'
    OBVIOUS
  <2>1. call # NoCall /\ out.ptr \in Address => out.ptr # 0 /\ out.len # 0
    BY AddressAssumption DEF RInv
  <2>2. call # NoCall /\ out.ptr \in Address => heap[out.ptr] # Free
    BY <2>1, ResultOwed, LeaksPointwise DEF WInv, AllLive, IsBlock, Result
  <2>3. ASSUME NEW size, NEW use, wasi_alloc(size, use) PROVE RInv'
    <3>1. out' = out /\ call' = call
      BY <2>3 DEF wasi_alloc
    <3>2. call # NoCall /\ out.ptr \in Address => heap'[out.ptr] = heap[out.ptr]
      BY <2>2, <2>3 DEF wasi_alloc, FreeAddress, WInv, TypeOK
    <3> QED  BY <3>1, <3>2, KeepsResult
  <2>4. ASSUME NEW f \in Function, NEW slot \in held, NEW arguments \in SUBSET held,
               Call(f, slot, arguments)
        PROVE  RInv'
    <3>1. PICK outcome \in Outcome(f) : \E w \in Written(f, outcome) :
              out' = w.out /\ heap' = w.heap
              /\ call' = [function |-> f, outcome |-> outcome]
      BY <2>4 DEF Call
    <3>2. Decoded(f)' = outcome /\ (out'.len = 0 => out'.ptr \notin Address)
      BY <3>1, CallDecodes
    <3>3. call'.function = f /\ call'.outcome = outcome
      BY <3>1
    <3>4. Decoded(call.function)' = call'.outcome
      BY <3>2, <3>3 DEF Decoded
    <3> QED  BY <3>2, <3>4 DEF RInv, ResultReachesHost
  <2>5. CASE ReadResult
    BY <2>5 DEF ReadResult, RInv, ResultReachesHost
  <2>6. ASSUME NEW h \in held, Release(h) PROVE RInv'
    <3>1. out' = out /\ call' = call
      BY <2>6 DEF Release
    <3>2. call # NoCall /\ out.ptr \in Address => heap'[out.ptr] = heap[out.ptr]
      BY <2>1, <2>6 DEF Release, wasi_free, WInv, TypeOK, Apart
    <3> QED  BY <3>1, <3>2, KeepsResult
  <2>7. CASE UNCHANGED vars
    BY <2>7, KeepsResult DEF vars
  <2> QED  BY <2>3, <2>4, <2>5, <2>6, <2>7 DEF Next
<1>3. RInv => ResultReachesHost
  BY DEF RInv
<1> QED  BY <1>1, <1>2, <1>3, AbiInductive, PTL DEF Spec
=============================================================================
