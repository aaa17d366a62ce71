------------------------ MODULE VrfOracleCountProofs -------------------------
(***************************************************************************)
(* Proof that the requestsFulfilled counter of StandaloneVRFServer never   *)
(* overstates what the ledger shows, for every configuration: restarts,    *)
(* slow sends and any number of faults included.                          *)
(***************************************************************************)
EXTENDS VrfOracleProofs, FiniteSetTheorems

USE RequestsFiniteAssumption

\* The requests the ledger shows as Fulfilled.
FulfilledSet == {r \in Requests : status[r] = "Fulfilled"}

\* A confirmation that landed and that Confirm has not counted yet.
Uncounted == IF curTx = "landed" THEN 1 ELSE 0

(***************************************************************************)
(* The strengthening of FulfilledCountSound: the counter plus a landing    *)
(* not yet counted is at most the number of Fulfilled requests.  A landing *)
(* of the awaited tx is "landed" only when it turned its Pending request   *)
(* into Fulfilled, and no request ever leaves Fulfilled.                   *)
(***************************************************************************)
CountInv ==
    /\ TypeOK
    /\ stats.requestsFulfilled + Uncounted <= Cardinality(FulfilledSet)

\* The set of Fulfilled requests is finite and its size a natural.
LEMMA FulfilledSetFinite ==
    IsFiniteSet(FulfilledSet) /\ Cardinality(FulfilledSet) \in Nat
<1>1. FulfilledSet \subseteq Requests
  BY DEF FulfilledSet
<1>2. IsFiniteSet(FulfilledSet)
  BY <1>1, FS_Subset
<1> QED
  BY <1>2, FS_CardinalityType

\* A step that keeps every Fulfilled request Fulfilled does not shrink the
\* count.
LEMMA FulfilledGrows ==
    ASSUME FulfilledSet \subseteq FulfilledSet'
    PROVE  Cardinality(FulfilledSet) <= Cardinality(FulfilledSet')
<1>1. FulfilledSet' \subseteq Requests
  BY DEF FulfilledSet
<1>2. IsFiniteSet(FulfilledSet')
  BY <1>1, FS_Subset
<1> QED
  BY <1>2, FS_Subset

\* Landing a tx on a Pending request adds that request to the count.
LEMMA FulfilledAddsOne ==
    ASSUME NEW r \in Requests, status[r] = "Pending",
           FulfilledSet' = FulfilledSet \cup {r}
    PROVE  Cardinality(FulfilledSet') = Cardinality(FulfilledSet) + 1
<1>1. r \notin FulfilledSet
  BY DEF FulfilledSet
<1> QED
  BY <1>1, FulfilledSetFinite, FS_AddElement

LEMMA CountInit == Init => CountInv
<1> SUFFICES ASSUME Init PROVE CountInv
  OBVIOUS
<1>1. TypeOK
  BY TypeInit
<1>2. Cardinality(FulfilledSet) \in Nat
  BY FulfilledSetFinite
<1> QED
  BY <1>1, <1>2 DEF Init, CountInv, Uncounted, ZeroStats

\* A step that loses no Fulfilled request and does not raise the counter
\* plus the uncounted landing keeps the strengthening.
LEMMA CountKept ==
    ASSUME CountInv, TypeOK', FulfilledSet \subseteq FulfilledSet',
           stats'.requestsFulfilled + Uncounted'
             <= stats.requestsFulfilled + Uncounted
    PROVE  CountInv'
<1>1. Cardinality(FulfilledSet) <= Cardinality(FulfilledSet')
  BY FulfilledGrows
<1>2. /\ Cardinality(FulfilledSet) \in Nat
      /\ Cardinality(FulfilledSet') \in Nat
  <2>1. FulfilledSet' \subseteq Requests
    BY DEF FulfilledSet
  <2>2. IsFiniteSet(FulfilledSet')
    BY <2>1, FS_Subset
  <2> QED
    BY <2>2, FulfilledSetFinite, FS_CardinalityType
<1>3. /\ stats.requestsFulfilled \in Nat /\ Uncounted \in Nat
      /\ stats'.requestsFulfilled \in Nat /\ Uncounted' \in Nat
  BY DEF CountInv, TypeOK, Uncounted
<1> QED
  BY <1>1, <1>2, <1>3 DEF CountInv

\* No step of the loop, of the ledger, of time or a restart breaks the
\* strengthening.
LEMMA CountStep ==
    ASSUME CountInv, [Next]_vars
    PROVE  CountInv'
<1>1. TypeOK'
  BY TypeStep DEF CountInv
<1> USE DEF CountInv, TypeOK, TxState
<1>2. CASE LandCurrent
  <2>1. CASE status[cur] = "Pending"
    <3>1. FulfilledSet' = FulfilledSet \cup {cur}
      BY <1>2, <2>1 DEF LandCurrent, Fulfil, FulfilledSet
    <3>2. Cardinality(FulfilledSet') = Cardinality(FulfilledSet) + 1
      BY <2>1, <3>1, FulfilledAddsOne
    <3>3. Uncounted = 0 /\ Uncounted' = 1
          /\ stats' = stats
      BY <1>2, <2>1 DEF LandCurrent, Uncounted
    <3> QED
      BY <1>1, <3>2, <3>3, FulfilledSetFinite
  <2>2. CASE status[cur] # "Pending"
    BY <1>1, <1>2, <2>2, CountKept
    DEF LandCurrent, Fulfil, FulfilledSet, Uncounted
  <2> QED
    BY <2>1, <2>2
<1>3. CASE Confirm
  BY <1>1, <1>3, CountKept DEF Confirm, FulfilledSet, Uncounted
<1>4. CASE ConfirmFails
  BY <1>1, <1>4, CountKept DEF ConfirmFails, FulfilledSet, Uncounted
<1>5. CASE Restart
  BY <1>1, <1>5, CountKept DEF Restart, ZeroStats, FulfilledSet, Uncounted
<1>6. ASSUME NEW r \in Requests, LandOrphan(r)
      PROVE  CountInv'
  BY <1>1, <1>6, CountKept DEF LandOrphan, Fulfil, FulfilledSet, Uncounted
<1>7. ASSUME NEW r \in Requests,
             CreateRequest(r) \/ CloseRequest(r) \/ DropOrphan(r)
      PROVE  CountInv'
  BY <1>1, <1>7, CountKept
  DEF CreateRequest, CloseRequest, DropOrphan, FulfilledSet, Uncounted
<1>8. CASE \/ Scan \/ ScanFails \/ NextAccount \/ ProveOk \/ ProveFails
           \/ VerifyOk \/ VerifyFails \/ SendOk \/ SendFails
           \/ DropCurrent \/ Tick \/ UNCHANGED vars
  BY <1>1, <1>8, CountKept
  DEF Scan, ScanFails, NextAccount, ProveOk, ProveFails, VerifyOk,
      VerifyFails, SendOk, SendFails, DropCurrent, Tick, vars, Fault,
      CountError, FulfilledSet, Uncounted
<1> QED
  BY <1>2, <1>3, <1>4, <1>5, <1>6, <1>7, <1>8 DEF Next, Server, Environment

\* For every set of requests, window, fault budget and number of restarts,
\* slow sends included, requestsFulfilled never exceeds the number of
\* requests the ledger shows as Fulfilled: only a confirmation without err
\* of the awaited tx, which fulfilled a Pending request, is counted.
THEOREM FulfilledCountSoundHolds == Spec => []FulfilledCountSound
<1>1. CountInv => FulfilledCountSound
  <2> SUFFICES ASSUME CountInv PROVE FulfilledCountSound
    OBVIOUS
  <2>1. Cardinality(FulfilledSet) \in Nat /\ Uncounted \in Nat
        /\ stats.requestsFulfilled \in Nat
    BY FulfilledSetFinite DEF Uncounted, CountInv, TypeOK
  <2> QED
    BY <2>1 DEF CountInv, FulfilledCountSound, FulfilledSet
<1> QED
  BY CountInit, CountStep, <1>1, PTL DEF Spec

-----------------------------------------------------------------------------
(***************************************************************************)
(* The success rate.  requestsFulfilled <= requestsProcessed alone is not  *)
(* inductive: between VerifyOk and the end of submitFulfillment the        *)
(* request is counted as processed and may still be counted as fulfilled.  *)
(* The strengthening counts that pending fulfillment on the left.          *)
(***************************************************************************)
Submitting == IF pc \in {"send", "confirm"} THEN 1 ELSE 0

RateInv ==
    /\ TypeOK
    /\ stats.requestsFulfilled + Submitting <= stats.requestsProcessed

LEMMA RateStep ==
    ASSUME RateInv, [Next]_vars
    PROVE  RateInv'
<1>1. TypeOK'
  BY TypeStep DEF RateInv
<1> USE DEF RateInv, TypeOK, Submitting, Locations
<1>2. CASE VerifyOk
  BY <1>1, <1>2 DEF VerifyOk
<1>3. CASE Confirm
  BY <1>1, <1>3 DEF Confirm
<1>4. CASE Restart
  BY <1>1, <1>4 DEF Restart, ZeroStats
<1>5. CASE Scan \/ NextAccount \/ ProveOk \/ VerifyFails
  BY <1>1, <1>5 DEF Scan, NextAccount, ProveOk, VerifyFails
<1>6. CASE ScanFails \/ ProveFails
  BY <1>1, <1>6 DEF ScanFails, ProveFails, CountError
<1>7. CASE SendOk \/ SendFails \/ ConfirmFails
  BY <1>1, <1>7 DEF SendOk, SendFails, ConfirmFails
<1>8. ASSUME NEW r \in Requests,
             CreateRequest(r) \/ CloseRequest(r) \/ LandOrphan(r)
             \/ DropOrphan(r)
      PROVE  RateInv'
  BY <1>1, <1>8 DEF CreateRequest, CloseRequest, LandOrphan, DropOrphan
<1>9. CASE LandCurrent \/ DropCurrent \/ Tick \/ UNCHANGED vars
  BY <1>1, <1>9 DEF LandCurrent, DropCurrent, Tick, vars
<1> QED
  BY <1>2, <1>3, <1>4, <1>5, <1>6, <1>7, <1>8, <1>9
  DEF Next, Server, Environment

\* In every configuration, restarts and slow sends included, the success
\* rate printStats reports never exceeds 100%.
THEOREM SuccessRateBoundedHolds == Spec => []SuccessRateBounded
<1>1. Init => RateInv
  BY TypeInit DEF Init, RateInv, ZeroStats, Submitting
<1>2. RateInv => SuccessRateBounded
  BY DEF RateInv, TypeOK, Submitting, SuccessRateBounded
<1> QED
  BY <1>1, <1>2, RateStep, PTL DEF Spec
=============================================================================
