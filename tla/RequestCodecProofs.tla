-------------------------- MODULE RequestCodecProofs --------------------------
(***************************************************************************)
(* Proofs about RequestCodec, for every width of the fields: the buffer    *)
(* createFulfillmentInstruction allocates is exactly as long as the data  *)
(* it writes into it, so no write runs past its end and no byte is left   *)
(* over for the program to misread.                                        *)
(***************************************************************************)
EXTENDS RequestCodec, SequenceTheorems, TLAPS

USE WidthsAssumption, TagsAssumption

\* writeUIntLE writes exactly w bytes.
LEMMA LEBytesLen ==
    ASSUME NEW v \in Nat, NEW w \in Nat
    PROVE  /\ LEBytes(v, w) \in Seq(Nat)
           /\ Len(LEBytes(v, w)) = w
<1>1. \A i \in 1..w : (v \div Base ^ (i - 1)) % Base \in Nat
  BY DEF Byte
<1> QED
  BY <1>1 DEF LEBytes

\* requestId.copy into the zero-filled 32-byte field fills it exactly.
LEMMA PadToLen ==
    ASSUME NEW s \in Seq(Nat), NEW w \in Nat, Len(s) <= w
    PROVE  /\ PadTo(s, w) \in Seq(Nat)
           /\ Len(PadTo(s, w)) = w
<1>1. [i \in 1..(w - Len(s)) |-> 0] \in Seq(Nat)
      /\ Len([i \in 1..(w - Len(s)) |-> 0]) = w - Len(s)
  OBVIOUS
<1> QED
  BY <1>1 DEF PadTo

\* Concatenation of byte strings adds their lengths.
LEMMA ConcatLen ==
    ASSUME NEW a \in Seq(Nat), NEW b \in Seq(Nat)
    PROVE  a \o b \in Seq(Nat) /\ Len(a \o b) = Len(a) + Len(b)
BY ConcatProperties

\* fulfillTotalSize is the length of the data createFulfillmentInstruction
\* writes: the discriminator, the two length-prefixed vectors, the 32-byte
\* request_id, pool_id and request_index, for every proof and public key
\* and every request_id no longer than a key.
THEOREM FulfilSizeExact ==
    ASSUME NEW proof \in Seq(Nat), NEW pk \in Seq(Nat),
           NEW f, f.requestId \in Seq(Nat), Len(f.requestId) <= KeyW,
           f.poolId \in Nat, f.requestIndex \in Nat
    PROVE  Len(FulfilData(proof, pk, f)) = FulfilSize(proof, pk)
<1>0. /\ DiscW \in Nat /\ KeyW \in Nat /\ U32W \in Nat
      /\ Len(proof) \in Nat /\ Len(pk) \in Nat
  BY LenProperties
<1>1. FulfilTag \in Seq(Nat) /\ Len(FulfilTag) = DiscW
  <2>1. Byte \subseteq Nat
    BY DEF Byte
  <2>2. FulfilTag \in [1..DiscW -> Nat]
    BY <2>1
  <2> QED
    BY <1>0, <2>2
<1>2. LEBytes(Len(proof), U32W) \in Seq(Nat)
      /\ Len(LEBytes(Len(proof), U32W)) = U32W
  BY <1>0, LEBytesLen
<1>3. LEBytes(Len(pk), U32W) \in Seq(Nat)
      /\ Len(LEBytes(Len(pk), U32W)) = U32W
  BY <1>0, LEBytesLen
<1>4. LEBytes(f.requestIndex, U32W) \in Seq(Nat)
      /\ Len(LEBytes(f.requestIndex, U32W)) = U32W
  BY <1>0, LEBytesLen
<1>5. PadTo(f.requestId, KeyW) \in Seq(Nat)
      /\ Len(PadTo(f.requestId, KeyW)) = KeyW
  BY <1>0, PadToLen
<1>6. <<f.poolId>> \in Seq(Nat) /\ Len(<<f.poolId>>) = 1
  OBVIOUS
\* The concatenation, one field at a time.
<1> DEFINE w1 == FulfilTag \o LEBytes(Len(proof), U32W)
           w2 == w1 \o proof
           w3 == w2 \o LEBytes(Len(pk), U32W)
           w4 == w3 \o pk
           w5 == w4 \o PadTo(f.requestId, KeyW)
           w6 == w5 \o <<f.poolId>>
           w7 == w6 \o LEBytes(f.requestIndex, U32W)
\* Each field appended adds its length: first the instance of ConcatLen,
\* then the arithmetic.
<1>7. w1 \in Seq(Nat) /\ Len(w1) = DiscW + U32W
  <2>1. w1 \in Seq(Nat)
        /\ Len(w1) = Len(FulfilTag) + Len(LEBytes(Len(proof), U32W))
    BY <1>1, <1>2, ConcatLen, Zenon
  <2> QED
    BY <1>0, <1>1, <1>2, <2>1
<1>8. w2 \in Seq(Nat) /\ Len(w2) = DiscW + U32W + Len(proof)
  <2>1. w2 \in Seq(Nat) /\ Len(w2) = Len(w1) + Len(proof)
    BY <1>7, ConcatLen, Zenon
  <2> QED
    BY <1>0, <1>7, <2>1
<1>9. w3 \in Seq(Nat) /\ Len(w3) = DiscW + U32W + Len(proof) + U32W
  <2>1. w3 \in Seq(Nat)
        /\ Len(w3) = Len(w2) + Len(LEBytes(Len(pk), U32W))
    BY <1>3, <1>8, ConcatLen, Zenon
  <2> QED
    BY <1>0, <1>3, <1>8, <2>1
<1>10. w4 \in Seq(Nat)
      /\ Len(w4) = DiscW + U32W + Len(proof) + U32W + Len(pk)
  <2>1. w4 \in Seq(Nat) /\ Len(w4) = Len(w3) + Len(pk)
    BY <1>9, ConcatLen, Zenon
  <2> QED
    BY <1>0, <1>9, <2>1
<1>11. w5 \in Seq(Nat)
      /\ Len(w5) = DiscW + U32W + Len(proof) + U32W + Len(pk) + KeyW
  <2>1. w5 \in Seq(Nat)
        /\ Len(w5) = Len(w4) + Len(PadTo(f.requestId, KeyW))
    BY <1>5, <1>10, ConcatLen, Zenon
  <2> QED
    BY <1>0, <1>5, <1>10, <2>1
<1>12. w6 \in Seq(Nat)
       /\ Len(w6) = DiscW + U32W + Len(proof) + U32W + Len(pk) + KeyW + 1
  <2>1. w6 \in Seq(Nat) /\ Len(w6) = Len(w5) + Len(<<f.poolId>>)
    BY <1>6, <1>11, ConcatLen, Zenon
  <2> QED
    BY <1>0, <1>6, <1>11, <2>1
<1>13. Len(w7) = FulfilSize(proof, pk)
  <2>1. Len(w7) = Len(w6) + Len(LEBytes(f.requestIndex, U32W))
    BY <1>4, <1>12, ConcatLen, Zenon
  <2> QED
    BY <1>0, <1>4, <1>12, <2>1 DEF FulfilSize
<1> QED
  BY <1>13 DEF FulfilData

=============================================================================
