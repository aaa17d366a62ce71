---------------------------- MODULE MCRequestCodec ----------------------------
(***************************************************************************)
(* RequestCodec on narrow fields: binary bytes, a one-byte discriminator, *)
(* two-byte keys and u32s, three-byte u64s.  The widths differ from one   *)
(* another so that a field skipped with the wrong width shows; every      *)
(* multi-byte integer has a non-zero high byte in some record, so that    *)
(* byte order shows.                                                       *)
(***************************************************************************)
EXTENDS RequestCodec

MCRequestTag == <<1>>
MCFulfilTag == <<0>>
MCProof == <<1, 0, 1>>
MCPublicKey == <<1, 1>>

\* Request records: the discriminator, callback_data of length 0, 1 and 3,
\* a request_slot whose low byte is or is not a Pending status, and the
\* fields that travel to the fulfillment.
MCRecords ==
    [disc : {<<1>>, <<0>>},
     subscription : {<<0, 1>>},
     seed : {<<1, 0>>},
     requester : {<<1, 1>>},
     callbackData : {<<>>, <<1>>, <<1, 0, 1>>},
     requestSlot : {0, 6},
     status : {0, 1},
     numWords : {1},
     callbackGasLimit : {5},
     poolId : {0, 1},
     requestIndex : {1, 2},
     requestId : {<<1, 0>>, <<0, 1>>}]

=============================================================================
