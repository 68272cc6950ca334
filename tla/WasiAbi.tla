------------------------------- MODULE WasiAbi -------------------------------
(***************************************************************************)
(* The C ABI of wasi_exports.rs (feature wasi-abi): linear memory shared   *)
(* by the module and its host, the allocator exports, and one call per     *)
(* gossip_*_wasi export that hands its result over through a 12-byte       *)
(* out-slot.  A core module has one thread, so each call is one action.    *)
(*                                                                         *)
(* The host is the one the header of the file asks for: it allocates its   *)
(* inputs and the out-slot with wasi_alloc, reads the out-slot before it   *)
(* reuses it, and calls wasi_free with every non-null pointer it finds     *)
(* there and with everything it has allocated, in any order.               *)
(*                                                                         *)
(* Data abstraction: a block lies at one address and holds the number of   *)
(* the call whose bytes it holds; inputs are read and not told apart; the  *)
(* API behind the exports answers anything its type and the global state   *)
(* allow.  A Vec or String may have more bytes allocated than it has       *)
(* elements; the allocator of wasm32-wasip1 finds a block by its address   *)
(* alone, so wasi_free works although its layout names the elements.       *)
(***************************************************************************)
EXTENDS Integers, FiniteSets

CONSTANTS
    Address,      \* where the allocator may place blocks
    InputSize,    \* lengths of the inputs the host writes
    PayloadSize,  \* lengths of the Vec and String results
    ErrorSize,    \* lengths of the JSON errors
    MaxSlack,     \* bound: capacity a Vec or String has beyond its length
    MaxCalls,     \* bound: calls of the exports
    MaxHeld       \* bound: pointers the host keeps

\* Address 0 is null, address 1 the pointer of an empty Vec.
ASSUME AddressAssumption ==
    /\ IsFiniteSet(Address) /\ Address \subseteq Nat \ {0, 1}
    /\ InputSize \cup PayloadSize \cup ErrorSize \subseteq Nat \ {0}
    /\ MaxSlack \in Nat /\ MaxCalls \in Nat /\ MaxHeld \in Nat

VARIABLES
    heap,         \* heap[a]: the block at address a, or Free
    held,         \* pointers the host has to free, with length and use
    out,          \* the contents of the out-slot
    call,         \* the call whose result the host has not read, or NoCall
    calls,        \* calls so far
    initialized,  \* GOSSIP_STATE is set
    misused       \* history: memory was freed, read or written that was no block

vars == <<heap, held, out, call, calls, initialized, misused>>

-----------------------------------------------------------------------------
(* Values *)

SlotSize == 12
FixedSize == 32
Free == [size |-> 0, data |-> 0]

\* The exports: how many (pointer, length) arguments, and what they return.
Export ==
    [gossip_init_wasi |-> [args |-> 1, returns |-> "unit"],
     gossip_publish_wasi |-> [args |-> 1, returns |-> "fixed"],
     gossip_connect_peer_wasi |-> [args |-> 1, returns |-> "bytes"],
     gossip_disconnect_peer_wasi |-> [args |-> 1, returns |-> "unit"],
     gossip_get_peers_wasi |-> [args |-> 0, returns |-> "bytes"],
     gossip_get_node_identity_wasi |-> [args |-> 0, returns |-> "bytes"],
     gossip_verify_envelope_wasi |-> [args |-> 1, returns |-> "bool"],
     gossip_encode_envelope_wasi |-> [args |-> 1, returns |-> "bytes"],
     gossip_decode_envelope_wasi |-> [args |-> 1, returns |-> "bytes"],
     gossip_get_stats_wasi |-> [args |-> 0, returns |-> "bytes"],
     gossip_process_handshake_bytes_wasi |-> [args |-> 2, returns |-> "option"],
     gossip_build_handshake_ack_wasi |-> [args |-> 2, returns |-> "bytes"],
     gossip_build_finish_ack_wasi |-> [args |-> 2, returns |-> "bytes"],
     gossip_get_version_wasi |-> [args |-> 0, returns |-> "bytes"],
     gossip_get_session_wasi |-> [args |-> 1, returns |-> "bytes"]]

Function == DOMAIN Export

Nothing == [is |-> "nothing"]
True == [is |-> "true"]
False == [is |-> "false"]
Bytes(size, data) == [is |-> "bytes", size |-> size, data |-> data]

\* What the API returns: an error, or a value of the export's type.
Ok(value) == [ok |-> 1, value |-> value]
Err(value) == [ok |-> 0, value |-> value]
Value(f) ==
    LET payloads == {Bytes(n, calls) : n \in PayloadSize}
    IN  CASE Export[f].returns = "unit" -> {Nothing}
          [] Export[f].returns = "fixed" -> {Bytes(FixedSize, calls)}
          [] Export[f].returns = "bytes" -> payloads
          [] Export[f].returns = "bool" -> {True, False}
          [] Export[f].returns = "option" -> {Nothing} \cup payloads

\* gossip_init succeeds once, the version is always there, and everything else
\* is an error before gossip_init has succeeded.
Outcome(f) ==
    {Err(Bytes(n, calls)) : n \in IF f = "gossip_get_version_wasi" THEN {} ELSE ErrorSize}
    \cup {Ok(v) : v \in IF \/ f = "gossip_get_version_wasi"
                           \/ initialized # (f = "gossip_init_wasi")
                        THEN Value(f) ELSE {}}

-----------------------------------------------------------------------------
(* The allocator *)

FreeAddress == {a \in Address : heap[a] = Free}
Live(ptr, len) == ptr \in Address /\ heap[ptr] # Free /\ len <= heap[ptr].size

\* Mutant: an empty result is given back to the allocator.
wasi_free_any_len(ptr, len) ==
    IF ptr = 0 THEN UNCHANGED <<heap, misused>>
    ELSE /\ heap' = (IF Live(ptr, len) THEN [heap EXCEPT ![ptr] = Free] ELSE heap)
         /\ misused' = (misused \/ ~Live(ptr, len))

wasi_free(ptr, len) ==
    IF ptr = 0 \/ len = 0 THEN UNCHANGED <<heap, misused>>
    ELSE /\ heap' = (IF Live(ptr, len) THEN [heap EXCEPT ![ptr] = Free] ELSE heap)
         /\ misused' = (misused \/ ~Live(ptr, len))

\* The host allocates the out-slot or an input and writes it; wasi_alloc
\* returns null when there is no memory left.
wasi_alloc(size, use) ==
    /\ Cardinality(held) < MaxHeld
    /\ \/ \E a \in FreeAddress :
              /\ heap' = [heap EXCEPT ![a] = [size |-> size, data |-> 0]]
              /\ held' = held \cup {[ptr |-> a, len |-> size, use |-> use]}
       \/ /\ FreeAddress = {}
          /\ held' = held \cup {[ptr |-> 0, len |-> size, use |-> use]}
          /\ UNCHANGED heap
    /\ UNCHANGED <<out, call, calls, initialized, misused>>

-----------------------------------------------------------------------------
(* Results: what an export leaves in the out-slot and in memory *)

\* Mutant: the fields in another order.
write_out_swapped(ok, ptr, len) == [ok |-> ok, ptr |-> len, len |-> ptr]

write_out(ok, ptr, len) == [ok |-> ok, ptr |-> ptr, len |-> len]

\* Mutant: the buffer is dropped when the export returns.
Leaked_dropped(ok, bytes, slack) ==
    {[out |-> write_out(ok, a, bytes.size), heap |-> heap] : a \in FreeAddress}

\* A buffer that is forgotten, or a box turned into a raw pointer.
Leaked(ok, bytes, slack) ==
    {[out |-> write_out(ok, a, bytes.size),
      heap |-> [heap EXCEPT ![a] = [size |-> bytes.size + extra, data |-> bytes.data]]] :
         a \in FreeAddress, extra \in 0..slack}

write_ok_bytes(bytes) == Leaked(1, bytes, MaxSlack)
write_ok_fixed(bytes) == Leaked(1, bytes, 0)
write_err(bytes) == Leaked(0, bytes, MaxSlack)
write_ok_unit == {[out |-> write_out(1, 0, 0), heap |-> heap]}

\* Mutant: the answer in the length.
write_bool_in_len(valid) ==
    {[out |-> write_out(1, 0, IF valid = True THEN 1 ELSE 0), heap |-> heap]}

write_bool(valid) ==
    {[out |-> write_out(1, IF valid = True THEN 1 ELSE 0, 0), heap |-> heap]}

Written(f, outcome) ==
    CASE outcome.ok = 0 -> write_err(outcome.value)
      [] outcome.ok = 1 /\ outcome.value = Nothing -> write_ok_unit
      [] outcome.ok = 1 /\ outcome.value.is \in {"true", "false"} ->
             write_bool(outcome.value)
      [] outcome.ok = 1 /\ outcome.value.is = "bytes" ->
             IF Export[f].returns = "fixed" THEN write_ok_fixed(outcome.value)
                                            ELSE write_ok_bytes(outcome.value)

-----------------------------------------------------------------------------
(* The exports and the host *)

NoCall == [function |-> "none"]

\* read_bytes and read_str only read blocks.
read_bytes(arguments) == \A h \in arguments : Live(h.ptr, h.len)

\* A gossip_*_wasi export.  An argument the host leaves out has length zero and
\* a pointer read_bytes does not follow.  A result there is no memory for
\* traps, which ends the module.
Call(f, slot, arguments) ==
    /\ call = NoCall
    /\ calls < MaxCalls
    /\ slot.use = "slot" /\ slot.ptr # 0
    /\ \A h \in arguments : h.use = "input" /\ h.ptr # 0
    /\ Cardinality(arguments) <= Export[f].args
    /\ \E outcome \in Outcome(f) : \E w \in Written(f, outcome) :
           /\ out' = w.out
           /\ heap' = w.heap
           /\ call' = [function |-> f, outcome |-> outcome]
           /\ initialized' = (initialized \/ (f = "gossip_init_wasi" /\ outcome.ok = 1))
    /\ calls' = calls + 1
    /\ misused' = (misused \/ ~read_bytes(arguments) \/ ~Live(slot.ptr, slot.len))
    /\ UNCHANGED held

\* The host reads the out-slot and keeps the pointer it finds there.
ReadResult ==
    /\ call # NoCall
    /\ Cardinality(held) < MaxHeld
    /\ held' = (IF out.ptr = 0 THEN held
                ELSE held \cup {[ptr |-> out.ptr, len |-> out.len, use |-> "result"]})
    /\ call' = NoCall
    /\ UNCHANGED <<heap, out, calls, initialized, misused>>

\* The host gives back something it holds; the out-slot only when it has read it.
Release(h) ==
    /\ h.use = "slot" => call = NoCall
    /\ wasi_free(h.ptr, h.len)
    /\ held' = held \ {h}
    /\ UNCHANGED <<out, call, calls, initialized>>

-----------------------------------------------------------------------------

Init ==
    /\ heap = [a \in Address |-> Free]
    /\ held = {}
    /\ out = write_out(0, 0, 0)
    /\ call = NoCall
    /\ calls = 0
    /\ initialized = FALSE
    /\ misused = FALSE

NoSlot == \A h \in held : h.use # "slot"

Next ==
    \/ NoSlot /\ wasi_alloc(SlotSize, "slot")
    \/ \E n \in InputSize : wasi_alloc(n, "input")
    \/ \E f \in Function, slot \in held : \E arguments \in SUBSET held :
           Call(f, slot, arguments)
    \/ ReadResult
    \/ \E h \in held : Release(h)

Spec == Init /\ [][Next]_vars

-----------------------------------------------------------------------------
(* Properties *)

Size == InputSize \cup PayloadSize \cup ErrorSize \cup {SlotSize, FixedSize}
Pointer == Address \cup {0, 1}

\* Blocks, pointers and the out-slot have their types.
TypeOK ==
    /\ heap \in [Address -> {Free} \cup [size : Nat \ {0}, data : Nat]]
    /\ held \subseteq [ptr : Pointer, len : Size \cup {0}, use : {"slot", "input", "result"}]
    /\ out \in [ok : {0, 1}, ptr : Pointer, len : Size \cup {0}]
    /\ call = NoCall \/ call.function \in Function
    /\ calls \in Nat
    /\ initialized \in BOOLEAN /\ misused \in BOOLEAN

\* What the host has yet to give back, the unread result included.
Owed == held \cup (IF call = NoCall THEN {}
                   ELSE {[ptr |-> out.ptr, len |-> out.len, use |-> "result"]})

\* The live blocks are what the host has yet to give back, each under one
\* pointer: whatever mixture of successes and errors the exports return, a host
\* that frees every non-null pointer leaks nothing, and an idle one holds an
\* empty heap.
NothingLeaks ==
    LET blocks == {h \in Owed : h.ptr # 0 /\ h.len # 0}
    IN  /\ Address \ FreeAddress = {h.ptr : h \in blocks}
        /\ \A h \in blocks : Live(h.ptr, h.len)
        /\ \A h, k \in blocks : h.ptr = k.ptr => h = k

\* No export and no wasi_free touches memory that is not a block of that size,
\* although the out-slot of gossip_verify_envelope_wasi holds a non-null pointer
\* that is none, and wasi_alloc may have returned null.
MemorySound == ~misused

\* What the host makes of the out-slot and of the bytes it points to.
BytesAt(ptr, len) == Bytes(len, IF ptr \in Address THEN heap[ptr].data ELSE 0)
Decoded(f) ==
    IF out.ok = 0 THEN Err(BytesAt(out.ptr, out.len))
    ELSE CASE Export[f].returns = "unit" -> Ok(Nothing)
           [] Export[f].returns = "bool" -> Ok(IF out.ptr = 1 THEN True ELSE False)
           [] Export[f].returns = "option" /\ out.ptr = 0 -> Ok(Nothing)
           [] OTHER -> Ok(BytesAt(out.ptr, out.len))

\* The host decodes from the out-slot exactly what the API returned, whatever
\* it allocates and frees between the call and the reading.
ResultReachesHost == call # NoCall => Decoded(call.function) = call.outcome
=============================================================================
