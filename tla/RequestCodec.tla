----------------------------- MODULE RequestCodec -----------------------------
(***************************************************************************)
(* The byte layouts the oracle reads and writes (src/standalone-vrf-server *)
(* .js): isRequestPending and processRequestAccount decode a               *)
(* RandomnessRequest account by hand-computed offsets, and                 *)
(* createFulfillmentInstruction encodes the fulfill_randomness data.  The  *)
(* field widths of the code (8-byte discriminator, 32-byte keys, u32, u64) *)
(* are CONSTANTS, so that TLC can check every offset computation on        *)
(* narrow fields; bytes are 0..Base-1 and integers little-endian in Base.  *)
(*                                                                         *)
(* The reference is the Borsh layout of spec 4.2: EncodeRequest lays a     *)
(* record out field after field, DecodeFulfil reads the instruction data   *)
(* the way the on-chain program does.  A state is one record and a cut: the *)
(* account data is the first `cut` bytes of the record's encoding.         *)
(***************************************************************************)
EXTENDS Naturals, Sequences

CONSTANTS
    Base,          \* values of a byte
    DiscW,         \* discriminator width (8)
    KeyW,          \* public key, seed and request_id width (32)
    U32W,          \* u32 width (4)
    U64W,          \* u64 width (8)
    RequestTag,    \* discriminator of RandomnessRequest (f4e7e4a0941c11b8)
    FulfilTag,     \* discriminator of fulfill_randomness
    Records,       \* the request records enumerated as inputs
    Proof,         \* Buffer.from(proofResult.proof, 'hex')
    PublicKey      \* Buffer.from(cli.getPublicKey(), 'hex')

Byte == 0..(Base - 1)

ASSUME WidthsAssumption ==
    /\ Base \in Nat /\ Base >= 2
    /\ {DiscW, KeyW, U32W, U64W} \subseteq Nat \ {0}
ASSUME TagsAssumption ==
    /\ RequestTag \in [1..DiscW -> Byte]
    /\ FulfilTag \in [1..DiscW -> Byte]
ASSUME PayloadAssumption ==
    /\ Proof \in Seq(Byte) /\ PublicKey \in Seq(Byte)
    /\ Len(Proof) < Base ^ U32W /\ Len(PublicKey) < Base ^ U32W

VARIABLES
    rec,       \* the record the account was written from
    cut,       \* bytes of its data: a prefix, or one byte of slack past it
    phase,     \* where the account is in scan, parse and encode
    parsed,    \* processRequestAccount's result
    payload    \* the fulfill_randomness instruction data built from it

vars == <<rec, cut, phase, parsed, payload>>

-----------------------------------------------------------------------------
(* Integers and slices as Buffer handles them.                             *)

Lesser(a, b) == IF a <= b THEN a ELSE b

\* data.slice(from, to): clipped to the buffer, never an error.
Slice(data, from, to) == SubSeq(data, from + 1, Lesser(to, Len(data)))

\* readUIntLE of the bytes s.
LEValue(s) ==
    LET acc[i \in 0..Len(s)] ==
            IF i = 0 THEN 0 ELSE acc[i - 1] + s[i] * Base ^ (i - 1)
    IN  acc[Len(s)]

\* writeUIntLE of v on w bytes.
LEBytes(v, w) == [i \in 1..w |-> (v \div Base ^ (i - 1)) % Base]

\* readUInt32LE(off) throws unless U32W bytes lie inside the buffer.
ReadsPastEnd(data, off, w) == off + w > Len(data)

-----------------------------------------------------------------------------
(* The reference layout of a RandomnessRequest (spec 4.2).                *)

EncodeRequest(r) ==
    r.disc \o r.subscription \o r.seed \o r.requester
    \o LEBytes(Len(r.callbackData), U32W) \o r.callbackData
    \o LEBytes(r.requestSlot, U64W) \o <<r.status>>
    \o LEBytes(r.numWords, U32W) \o LEBytes(r.callbackGasLimit, U64W)
    \o <<r.poolId>> \o LEBytes(r.requestIndex, U32W) \o r.requestId

\* Offset of the status byte in the layout.
StatusOffset(r) == DiscW + 3 * KeyW + U32W + Len(r.callbackData) + U64W

\* The fields processRequestAccount passes on to submitFulfillment.
FieldsOf(r) ==
    [subscription |-> r.subscription, seed |-> r.seed,
     poolId |-> r.poolId, requestIndex |-> r.requestIndex,
     requestId |-> r.requestId]

\* The account's data: the encoding cut short, or followed by a zero byte
\* of allocated space the record does not use.
data ==
    IF cut <= Len(EncodeRequest(rec))
    THEN SubSeq(EncodeRequest(rec), 1, cut)
    ELSE EncodeRequest(rec) \o <<0>>

\* The data holds the whole encoding.
Complete == cut > Len(EncodeRequest(rec)) - 1

------------------------------------------------------------------------------------------------------------------------------------------------------
(* The decoders of the code.                                               *)

\* Offset of callback_data's u32 length: discriminator and three keys.
CallbackOffset == DiscW + 3 * KeyW

\* u32 callback_data length as the code reads it from the data.
CallbackLen(d) == LEValue(Slice(d, CallbackOffset, CallbackOffset + U32W))

\* Mutant: the status offset computed without skipping request_slot.
StatusOffsetNoSlot(d) == CallbackOffset + U32W + CallbackLen(d)

\* isRequestPending's offset of the status byte.
StatusOffsetOf(d) == CallbackOffset + U32W + CallbackLen(d) + U64W

\* isRequestPending, past its processedRequests check: the discriminator,
\* callback_data's length, the status byte read only inside the buffer.
IsRequestPending(d) ==
    /\ Slice(d, 0, DiscW) = RequestTag
    /\ Len(d) > CallbackOffset + U32W
    /\ Len(d) > StatusOffsetOf(d)
    /\ d[StatusOffsetOf(d) + 1] = 0

\* getPendingRequestAccounts: skip data under 32 bytes (a key's width),
\* keep the request discriminator, then ask isRequestPending.
ScannerAccepts(d) ==
    /\ Len(d) >= KeyW
    /\ Slice(d, 0, DiscW) = RequestTag
    /\ IsRequestPending(d)

\* Mutant: processRequestAccount forgets to skip the status byte.
PoolOffsetNoStatus(d) == StatusOffsetOf(d) + U32W + U64W

\* processRequestAccount's offset of pool_id: past request_slot, status,
\* num_words and callback_gas_limit.
PoolOffset(d) == StatusOffsetOf(d) + 1 + U32W + U64W

\* processRequestAccount's parse: "skip" where it returns false, "throw"
\* where readUInt32LE or readUInt8 reads past the end, else the fields it
\* extracts with slices, which are clipped and never throw.
ParseRequest(d) ==
    LET p == PoolOffset(d)
    IN  IF Len(d) < DiscW \/ Slice(d, 0, DiscW) # RequestTag
        THEN [outcome |-> "skip"]
        ELSE IF \/ ReadsPastEnd(d, CallbackOffset, U32W)
                \/ ReadsPastEnd(d, p, 1)
                \/ ReadsPastEnd(d, p + 1, U32W)
        THEN [outcome |-> "throw"]
        ELSE [outcome |-> "ok",
              fields |->
                [subscription |-> Slice(d, DiscW, DiscW + KeyW),
                 seed |-> Slice(d, DiscW + KeyW, DiscW + 2 * KeyW),
                 poolId |-> d[p + 1],
                 requestIndex |-> LEValue(Slice(d, p + 1, p + 1 + U32W)),
                 requestId |-> Slice(d, p + 1 + U32W, p + 1 + U32W + KeyW)]]

----
(* The fulfill_randomness instruction data.                                *)

\* requestId.copy into the zero-filled Buffer.alloc: a short id is padded.
PadTo(s, w) == s \o [i \in 1..(w - Len(s)) |-> 0]

\* Mutant: pool_id and request_index written in the opposite order.
FulfilDataSwapped(proof, pk, f) ==
    FulfilTag \o LEBytes(Len(proof), U32W) \o proof
    \o LEBytes(Len(pk), U32W) \o pk \o PadTo(f.requestId, KeyW)
    \o LEBytes(f.requestIndex, U32W) \o <<f.poolId>>

FulfilData(proof, pk, f) ==
    FulfilTag \o LEBytes(Len(proof), U32W) \o proof
    \o LEBytes(Len(pk), U32W) \o pk \o PadTo(f.requestId, KeyW)
    \o <<f.poolId>> \o LEBytes(f.requestIndex, U32W)

\* fulfillTotalSize, the size of Buffer.alloc.
FulfilSize(proof, pk) ==
    DiscW + U32W + Len(proof) + U32W + Len(pk) + KeyW + 1 + U32W

\* The program's Borsh decode of the instruction data: Vec<u8> proof,
\* Vec<u8> public_key, [u8; 32] request_id, u8 pool_id, u32 request_index.
DecodeFulfil(b) ==
    LET pOff == DiscW + U32W
        pLen == LEValue(SubSeq(b, DiscW + 1, DiscW + U32W))
        kOff == pOff + pLen + U32W
        kLen == LEValue(SubSeq(b, pOff + pLen + 1, kOff))
        iOff == kOff + kLen
    IN  [tag |-> SubSeq(b, 1, DiscW),
         proof |-> SubSeq(b, pOff + 1, pOff + pLen),
         publicKey |-> SubSeq(b, kOff + 1, kOff + kLen),
         requestId |-> SubSeq(b, iOff + 1, iOff + KeyW),
         poolId |-> b[iOff + KeyW + 1],
         requestIndex |-> LEValue(SubSeq(b, iOff + KeyW + 2,
                                             iOff + KeyW + 1 + U32W))]

------------------------------------------------------------------------------------------------------------------------------------------------------
(* One account through the pipeline: the scan's filter, the parse, the     *)
(* encoding of the fulfillment.  Proof generation and submission are       *)
(* VrfOracle's; here they are the step from a parse to its payload.        *)

Phases == {"fetched", "rejected", "queued", "thrown", "parsed", "encoded"}

NotParsed == [outcome |-> "none"]

TypeOK ==
    /\ rec \in Records
    /\ cut \in 0..(Len(EncodeRequest(rec)) + 1)
    /\ phase \in Phases
    /\ payload \in Seq(Byte)

Init ==
    /\ rec \in Records
    /\ cut \in 0..(Len(EncodeRequest(rec)) + 1)
    /\ phase = "fetched"
    /\ parsed = NotParsed
    /\ payload = <<>>

\* getPendingRequestAccounts keeps the account.
AcceptAccount ==
    /\ phase = "fetched"
    /\ ScannerAccepts(data)
    /\ phase' = "queued"
    /\ UNCHANGED <<rec, cut, parsed, payload>>

\* getPendingRequestAccounts drops it: too short, another discriminator, or
\* isRequestPending false.
RejectAccount ==
    /\ phase = "fetched"
    /\ ~ScannerAccepts(data)
    /\ phase' = "rejected"
    /\ UNCHANGED <<rec, cut, parsed, payload>>

\* processRequestAccount throws inside its try: the caller counts an error.
\* Its "skip" outcome cannot follow the scanner's acceptance.
ParseThrows ==
    /\ phase = "queued"
    /\ ParseRequest(data).outcome = "throw"
    /\ phase' = "thrown"
    /\ parsed' = ParseRequest(data)
    /\ UNCHANGED <<rec, cut, payload>>

ParseOk ==
    /\ phase = "queued"
    /\ ParseRequest(data).outcome = "ok"
    /\ phase' = "parsed"
    /\ parsed' = ParseRequest(data)
    /\ UNCHANGED <<rec, cut, payload>>

\* createFulfillmentInstruction from the parsed fields.
EncodeFulfil ==
    /\ phase = "parsed"
    /\ payload' = FulfilData(Proof, PublicKey, parsed.fields)
    /\ phase' = "encoded"
    /\ UNCHANGED <<rec, cut, parsed>>

Next ==
    \/ AcceptAccount \/ RejectAccount
    \/ ParseThrows \/ ParseOk
    \/ EncodeFulfil

Spec == Init /\ [][Next]_vars

-----------------------------------------------------------------------------
(* Properties.                                                             *)

\* The scanner's verdict is the layout's: an account is queued exactly when
\* its data holds the request discriminator and reaches the status byte,
\* and that byte is Pending.  Catches a wrong skip over the variable-length
\* callback_data or request_slot in isRequestPending.
PendingMatchesLayout ==
    phase \in {"rejected", "queued"}
    => (phase = "queued"
        <=> /\ rec.disc = RequestTag
            /\ cut > StatusOffset(rec)
            /\ rec.status = 0)

\* From a complete record (trailing space included) processRequestAccount's
\* own offsets extract exactly the encoded subscription, seed, pool_id,
\* request_index and request_id, and it never throws.
ParseRoundTrip ==
    Complete /\ phase \in {"thrown", "parsed", "encoded"}
    => parsed = [outcome |-> "ok", fields |-> FieldsOf(rec)]

\* The instruction data built from a complete record has the size
\* allocated for it, and the program decodes from it the proof, the public
\* key and the request's request_id, pool_id and request_index.
FulfilRoundTrip ==
    Complete /\ phase = "encoded"
    => /\ Len(payload) = FulfilSize(Proof, PublicKey)
       /\ DecodeFulfil(payload) =
             [tag |-> FulfilTag, proof |-> Proof, publicKey |-> PublicKey,
              requestId |-> rec.requestId, poolId |-> rec.poolId,
              requestIndex |-> rec.requestIndex]

=============================================================================
