--------------------------- MODULE VrfOracleProofs ---------------------------
(***************************************************************************)
(* Proofs about VrfOracle: type correctness of every behaviour, and that   *)
(* a process that neither restarts nor hangs in submitFulfillment past the *)
(* window never has two fulfillment transactions of one request in flight. *)
(***************************************************************************)
EXTENDS VrfOracle, TLAPS

(***************************************************************************)
(* The strengthening of NoConcurrentSubmission.  A tx of r is in flight   *)
(* only while r has a fresh record (the record is written before the send  *)
(* and no time passes while the tx can still land); the request being     *)
(* processed has no tx in flight of its own until the send.               *)
(***************************************************************************)
IInv ==
    /\ TypeOK
    /\ \A r \in Requests : orphans[r] <= 1
    /\ \A r \in Requests : orphans[r] > 0 => Fresh(r)
    /\ curTx # "none" => pc = "confirm"
    /\ curTx = "inflight" => Fresh(cur)
    /\ pc \in Pipeline => orphans[cur] = 0
    /\ pc = "send" => Fresh(cur)

USE WindowAssumption, MaxFaultsAssumption, MaxRestartsAssumption,
    SlowRpcAssumption

\* The initial states are within the type.
LEMMA TypeInit == Init => TypeOK
BY DEF Init, TypeOK, Status, Age, NoRecord, Locations, TxState, ZeroStats

\* No step, a restart or a slow send included, leaves the type.
LEMMA TypeStep ==
    ASSUME TypeOK, [Next]_vars
    PROVE  TypeOK'
<1> USE DEF TypeOK, Age, NoRecord, Locations, TxState, Has, InFlight
<1>1. CASE Scan
  BY <1>1 DEF Scan, Stale, Eligible
<1>2. CASE ScanFails
  BY <1>2 DEF ScanFails, Fault, CountError
<1>3. CASE NextAccount
  BY <1>3 DEF NextAccount
<1>4. CASE ProveOk
  BY <1>4 DEF ProveOk
<1>5. CASE ProveFails
  BY <1>5 DEF ProveFails, Fault, CountError
<1>6. CASE VerifyOk
  BY <1>6 DEF VerifyOk
<1>7. CASE VerifyFails
  BY <1>7 DEF VerifyFails, Fault
<1>8. CASE SendOk
  BY <1>8 DEF SendOk
<1>9. CASE SendFails
  BY <1>9 DEF SendFails, Fault
<1>10. CASE Confirm
  BY <1>10 DEF Confirm
<1>11. CASE ConfirmFails
  BY <1>11 DEF ConfirmFails, Fault
<1>12. CASE Restart
  BY <1>12 DEF Restart, ZeroStats
<1>13. CASE \E r \in Requests : CreateRequest(r) \/ CloseRequest(r)
                                \/ LandOrphan(r) \/ DropOrphan(r)
  BY <1>13 DEF CreateRequest, CloseRequest, LandOrphan, DropOrphan,
               Fulfil, Status
<1>14. CASE LandCurrent
  BY <1>14 DEF LandCurrent, Fulfil, Status
<1>15. CASE DropCurrent
  BY <1>15 DEF DropCurrent, Fault
<1>16. CASE Tick
  BY <1>16 DEF Tick
<1>17. CASE UNCHANGED vars
  BY <1>17 DEF vars
<1>18. QED
  BY <1>1, <1>2, <1>3, <1>4, <1>5, <1>6, <1>7, <1>8, <1>9, <1>10,
     <1>11, <1>12, <1>13, <1>14, <1>15, <1>16, <1>17
  DEF Next, Server, Environment
\* Every step keeps each variable within its type.
THEOREM TypeCorrect == Spec => []TypeOK
BY TypeInit, TypeStep, PTL DEF Spec

\* The strengthening holds initially.
LEMMA IInvInit == Init => IInv
BY DEF Init, Status, ZeroStats, IInv, TypeOK, Fresh, Has, NoRecord, Age,
       Locations, TxState, Pipeline

\* Without restarts and slow sends, no step breaks the strengthening.
LEMMA IInvStep ==
    ASSUME MaxRestarts = 0, ~SlowRpc, IInv, [Next]_vars
    PROVE  IInv'
<1> USE DEF IInv, TypeOK, Fresh, Has, NoRecord, Age, Locations, TxState,
            Pipeline
<1>1. CASE Scan
  BY <1>1 DEF Scan, Stale, Eligible
<1>2. CASE ScanFails
  BY <1>2 DEF ScanFails, Fault, CountError
<1>3. CASE NextAccount
  BY <1>3 DEF NextAccount
<1>4. CASE ProveOk
  BY <1>4 DEF ProveOk
<1>5. CASE ProveFails
  BY <1>5 DEF ProveFails, Fault, CountError
<1>6. CASE VerifyOk
  BY <1>6 DEF VerifyOk
<1>7. CASE VerifyFails
  BY <1>7 DEF VerifyFails, Fault
<1>8. CASE SendOk
  BY <1>8 DEF SendOk
<1>9. CASE SendFails
  BY <1>9 DEF SendFails, Fault
<1>10. CASE Confirm
  BY <1>10 DEF Confirm
<1>11. CASE ConfirmFails
  BY <1>11 DEF ConfirmFails, Fault, InFlight
<1>12. CASE Restart
  BY <1>12 DEF Restart
<1>13. CASE \E r \in Requests : CreateRequest(r) \/ CloseRequest(r)
                                \/ LandOrphan(r) \/ DropOrphan(r)
  <2> SUFFICES ASSUME NEW r \in Requests,
                      CreateRequest(r) \/ CloseRequest(r)
                      \/ LandOrphan(r) \/ DropOrphan(r)
               PROVE  IInv'
    BY <1>13
  <2>1. CASE CreateRequest(r)
    BY <2>1 DEF CreateRequest, Status
  <2>2. CASE CloseRequest(r)
    BY <2>2 DEF CloseRequest, Status
  <2>3. CASE LandOrphan(r)
    BY <2>3 DEF LandOrphan, Fulfil, Status
  <2>4. CASE DropOrphan(r)
    BY <2>4 DEF DropOrphan
  <2>5. QED
    BY <2>1, <2>2, <2>3, <2>4
<1>14. CASE LandCurrent
  BY <1>14 DEF LandCurrent, Fulfil, Status
<1>15. CASE DropCurrent
  BY <1>15 DEF DropCurrent, Fault
<1>16. CASE Tick
  BY <1>16 DEF Tick
<1>17. CASE UNCHANGED vars
  BY <1>17 DEF vars
<1>18. QED
  BY <1>1, <1>2, <1>3, <1>4, <1>5, <1>6, <1>7, <1>8, <1>9, <1>10,
     <1>11, <1>12, <1>13, <1>14, <1>15, <1>16, <1>17
  DEF Next, Server, Environment

\* A process that is never restarted, and whose submitFulfillment never
\* waits past a tick before the tx is out, never has two fulfillment
\* transactions of one request in flight.
THEOREM NoConcurrentSubmissionHolds ==
    ASSUME MaxRestarts = 0, ~SlowRpc
    PROVE  Spec => []NoConcurrentSubmission
<1>1. IInv /\ [Next]_vars => IInv'
  BY IInvStep
<1>2. IInv => NoConcurrentSubmission
  BY DEF IInv, TypeOK, Pipeline, NoConcurrentSubmission, InFlight
<1> QED
  BY IInvInit, <1>1, <1>2, PTL DEF Spec


-----------------------------------------------------------------------------
(***************************************************************************)
(* Refinement of OracleAbstract.  A send is an abstract Submit, so besides *)
(* IInv (nothing of the request is in flight at the send) the proof needs  *)
(* that the request being processed is not Fulfilled.  It was Pending at   *)
(* the scan; a queued request that became Fulfilled since has a record,   *)
(* because only its own tx, covered by a fresh record, can fulfil it, and  *)
(* NextAccount skips a request with a record.                              *)
(***************************************************************************)

\* The ledger's view: the abstract outstanding submissions.
AbsOutstanding == [r \in Requests |-> InFlight(r)]

QueuedFulfilledRecorded ==
    \A a \in queue : status[a] = "Fulfilled" => Has(a)

ProcessingNotFulfilled ==
    pc \in {"prove", "verify", "send"} => status[cur] # "Fulfilled"

RInv == IInv /\ QueuedFulfilledRecorded /\ ProcessingNotFulfilled

LEMMA RInvInit == Init => RInv
BY IInvInit DEF Init, RInv, QueuedFulfilledRecorded, ProcessingNotFulfilled

\* The two added conjuncts survive every step of a process that is not
\* restarted and whose sends are not slow.
LEMMA RInvStep ==
    ASSUME MaxRestarts = 0, ~SlowRpc, RInv, [Next]_vars
    PROVE  RInv'
<1>1. IInv'
  BY IInvStep DEF RInv
<1> USE DEF RInv, IInv, TypeOK, Fresh, Has, NoRecord, Age, Locations,
            TxState, Pipeline, QueuedFulfilledRecorded,
            ProcessingNotFulfilled
<1>2. CASE Scan
  BY <1>1, <1>2 DEF Scan, Stale, Eligible
<1>3. CASE NextAccount
  BY <1>1, <1>3 DEF NextAccount
<1>4. CASE VerifyOk
  BY <1>1, <1>4 DEF VerifyOk
<1>5. CASE LandCurrent
  BY <1>1, <1>5 DEF LandCurrent, Fulfil
<1>6. CASE \E r \in Requests : LandOrphan(r)
  BY <1>1, <1>6 DEF LandOrphan, Fulfil
<1>7. CASE \E r \in Requests : CreateRequest(r) \/ CloseRequest(r)
                               \/ DropOrphan(r)
  BY <1>1, <1>7 DEF CreateRequest, CloseRequest, DropOrphan
<1>8. CASE Restart
  BY <1>8 DEF Restart
<1>9. CASE Tick
  BY <1>1, <1>9 DEF Tick
<1>10. CASE \/ ScanFails \/ ProveOk \/ ProveFails \/ VerifyFails
            \/ SendOk \/ SendFails \/ Confirm \/ ConfirmFails
            \/ DropCurrent \/ UNCHANGED vars
  BY <1>1, <1>10 DEF ScanFails, ProveOk, ProveFails, VerifyFails, SendOk,
                     SendFails, Confirm, ConfirmFails, DropCurrent, vars
<1> QED
  BY <1>2, <1>3, <1>4, <1>5, <1>6, <1>7, <1>8, <1>9, <1>10
  DEF Next, Server, Environment

\* A step that changes neither a status nor a tx in flight is a stutter of
\* the abstract spec.
LEMMA AbstractUnchanged ==
    ASSUME status' = status,
           \A r \in Requests : InFlight(r)' = InFlight(r)
    PROVE  UNCHANGED Abstract!vars
BY DEF Abstract!vars

\* A step that moves the txs in flight of one request only changes the
\* abstract outstanding submissions at that request.
LEMMA AbstractPoint ==
    ASSUME NEW r \in Requests, NEW v,
           InFlight(r)' = v,
           \A s \in Requests \ {r} : InFlight(s)' = InFlight(s)
    PROVE  [q \in Requests |-> InFlight(q)]'
             = [[q \in Requests |-> InFlight(q)] EXCEPT ![r] = v]
OBVIOUS

\* Every step of the loop and of the ledger is a step of OracleAbstract
\* under the mapping, or leaves the ledger's view unchanged.
LEMMA AbstractStep ==
    ASSUME MaxRestarts = 0, ~SlowRpc, RInv, [Next]_vars
    PROVE  [Abstract!Next]_Abstract!vars
<1> USE DEF RInv, IInv, TypeOK, Fresh, Has, NoRecord, Age, Locations,
            TxState, Pipeline, ProcessingNotFulfilled
<1>1. CASE SendOk
  <2>1. Abstract!Submit(cur)
    BY <1>1 DEF SendOk, Abstract!Submit, InFlight
  <2> QED
    BY <2>1 DEF Abstract!Next
<1>2. CASE SendFails
  <2>1. CASE UNCHANGED orphans
    BY <1>2, <2>1, AbstractUnchanged DEF SendFails, InFlight
  <2>2. CASE orphans' = [orphans EXCEPT ![cur] = @ + 1]
    <3>1. Abstract!Submit(cur)
      BY <1>2, <2>2 DEF SendFails, Abstract!Submit, InFlight
    <3> QED
      BY <3>1 DEF Abstract!Next
  <2> QED
    BY <1>2, <2>1, <2>2 DEF SendFails
<1>3. CASE LandCurrent
  <2>1. InFlight(cur) = 1 /\ InFlight(cur)' = 0
        /\ \A s \in Requests \ {cur} : InFlight(s)' = InFlight(s)
    BY <1>3 DEF LandCurrent, InFlight
  <2>2. Abstract!Land(cur)
    BY <1>3, <2>1, AbstractPoint DEF LandCurrent, Fulfil, Abstract!Land
  <2> QED
    BY <2>2 DEF Abstract!Next
<1>4. CASE DropCurrent
  <2>1. InFlight(cur) = 1 /\ InFlight(cur)' = 0
        /\ \A s \in Requests \ {cur} : InFlight(s)' = InFlight(s)
    BY <1>4 DEF DropCurrent, InFlight
  <2>2. Abstract!Drop(cur)
    BY <1>4, <2>1, AbstractPoint DEF DropCurrent, Abstract!Drop
  <2> QED
    BY <2>2 DEF Abstract!Next
<1>5. ASSUME NEW r \in Requests, LandOrphan(r)
      PROVE  [Abstract!Next]_Abstract!vars
  <2>1. InFlight(r) = 1 /\ InFlight(r)' = 0
        /\ \A s \in Requests \ {r} : InFlight(s)' = InFlight(s)
    BY <1>5 DEF LandOrphan, InFlight
  <2>2. Abstract!Land(r)
    BY <1>5, <2>1, AbstractPoint DEF LandOrphan, Fulfil, Abstract!Land
  <2> QED
    BY <2>2 DEF Abstract!Next
<1>6. ASSUME NEW r \in Requests, DropOrphan(r)
      PROVE  [Abstract!Next]_Abstract!vars
  <2>1. InFlight(r) = 1 /\ InFlight(r)' = 0
        /\ \A s \in Requests \ {r} : InFlight(s)' = InFlight(s)
    BY <1>6 DEF DropOrphan, InFlight
  <2>2. Abstract!Drop(r)
    BY <1>6, <2>1, AbstractPoint DEF DropOrphan, Abstract!Drop
  <2> QED
    BY <2>2 DEF Abstract!Next
<1>7. ASSUME NEW r \in Requests, CreateRequest(r)
      PROVE  [Abstract!Next]_Abstract!vars
  <2>1. Abstract!Create(r)
    BY <1>7 DEF CreateRequest, Abstract!Create, InFlight
  <2> QED
    BY <2>1 DEF Abstract!Next
<1>8. ASSUME NEW r \in Requests, CloseRequest(r)
      PROVE  [Abstract!Next]_Abstract!vars
  <2>1. Abstract!Close(r)
    BY <1>8 DEF CloseRequest, Abstract!Close, InFlight
  <2> QED
    BY <2>1 DEF Abstract!Next
<1>9. CASE ConfirmFails
  BY <1>9, AbstractUnchanged DEF ConfirmFails, InFlight
<1>10. CASE NextAccount
  BY <1>10, AbstractUnchanged DEF NextAccount, InFlight
<1>11. CASE Restart
  BY <1>11 DEF Restart
<1>12. CASE \/ Scan \/ ScanFails \/ ProveOk \/ ProveFails \/ VerifyOk
            \/ VerifyFails \/ Confirm \/ Tick \/ UNCHANGED vars
  BY <1>12, AbstractUnchanged
  DEF Scan, ScanFails, ProveOk, ProveFails, VerifyOk, VerifyFails, Confirm,
      Tick, vars, InFlight
<1> QED
  BY <1>1, <1>2, <1>3, <1>4, <1>5, <1>6, <1>7, <1>8, <1>9, <1>10, <1>11,
     <1>12
  DEF Next, Server, Environment

\* A process that is never restarted and whose sends are not slow
\* implements OracleAbstract: each request gets a fulfillment tx only while
\* none of its txs can still land and only while it is not Fulfilled.
THEOREM ImplementsAbstractHolds ==
    ASSUME MaxRestarts = 0, ~SlowRpc
    PROVE  Spec => ImplementsAbstract
<1>1. Init => Abstract!Init
  BY DEF Init, Abstract!Init, InFlight
<1>2. RInv /\ [Next]_vars => RInv'
  BY RInvStep
<1>3. RInv /\ [Next]_vars => [Abstract!Next]_Abstract!vars
  BY AbstractStep
<1> QED
  BY RInvInit, <1>1, <1>2, <1>3, PTL DEF Spec, ImplementsAbstract, Abstract!Spec
=============================================================================
