-------------------------- MODULE DemoClientProofs ---------------------------
(***************************************************************************)
(* Proofs about DemoClient, for every number of clicks, cancels and polls: *)
(* the page's state keeps its type, "waiting" is shown only while an      *)
(* invocation is in its polling loop, and without a cancel the result      *)
(* shown is always the last click's.                                       *)
(***************************************************************************)
EXTENDS DemoClient, TLAPS

USE ClientBoundsAssumption

\* The page starts idle, with no invocation, within its type.
LEMMA ClientTypeInit == Init => TypeOK
<1> SUFFICES ASSUME Init PROVE TypeOK
  OBVIOUS
<1>1. inv \in [Invocations -> [pc : Pc, polls : 0..MaxPolls]]
  BY DEF Init, Pc
<1>2. status \in RequestStatus
  BY DEF Init, RequestStatus
<1>3. /\ result \in 0..MaxClicks /\ clicks \in 0..MaxClicks
      /\ cancels \in 0..MaxCancels
  BY DEF Init
<1>4. abortRef \in BOOLEAN
  <2>1. abortRef = FALSE
    BY DEF Init
  <2> QED
    BY <2>1
<1>5. onLedger \subseteq Invocations /\ fulfilled \subseteq onLedger
  BY DEF Init
<1> QED
  BY <1>1, <1>2, <1>3, <1>4, <1>5 DEF TypeOK

\* No step of the user, an invocation or the ledger takes a variable of
\* the page out of its type.
LEMMA ClientTypeStep == TypeOK /\ Next => TypeOK'
<1> SUFFICES ASSUME TypeOK, Next PROVE TypeOK'
  OBVIOUS
<1> USE DEF TypeOK, RequestStatus, Invocations, Pc
<1>1. CASE Click
  <2>1. clicks + 1 \in Invocations /\ clicks + 1 \in 0..MaxClicks
    BY <1>1 DEF Click
  <2>2. inv' = [inv EXCEPT ![clicks + 1].pc = "submit"]
        /\ status' = "submitting" /\ result' = 0 /\ abortRef' = FALSE
        /\ clicks' = clicks + 1
        /\ UNCHANGED <<cancels, onLedger, fulfilled>>
    BY <1>1 DEF Click
  <2>3. inv' \in [Invocations -> [pc : Pc, polls : 0..MaxPolls]]
    BY <2>1, <2>2
  <2>4. abortRef' \in BOOLEAN
    BY <2>2
  <2> QED
    BY <2>1, <2>2, <2>3, <2>4
<1>2. CASE Cancel
  BY <1>2 DEF Cancel
<1>3. ASSUME NEW i \in Invocations, Step(i) \/ Fulfil(i) PROVE TypeOK'
  <2>1. CASE Fulfil(i)
    BY <2>1 DEF Fulfil
  <2>2. CASE SubmitOk(i)
    BY <2>2 DEF SubmitOk
  <2>3. CASE SubmitFails(i)
    BY <2>3 DEF SubmitFails
  <2>4. CASE PollHit(i)
    BY <2>4 DEF PollHit
  <2>5. CASE PollMiss(i)
    BY <2>5 DEF PollMiss
  <2>6. CASE PollAgain(i)
    BY <2>6 DEF PollAgain
  <2>7. CASE GiveUp(i)
    BY <2>7 DEF GiveUp
  <2> QED
    BY <1>3, <2>1, <2>2, <2>3, <2>4, <2>5, <2>6, <2>7 DEF Step
<1> QED
  BY <1>1, <1>2, <1>3 DEF Next

\* Every behaviour keeps each variable of the page within its type.
THEOREM ClientTypeCorrect == Spec => []TypeOK
<1>1. TypeOK /\ [Next]_vars => TypeOK'
  BY ClientTypeStep DEF vars, TypeOK
<1> QED
  BY ClientTypeInit, <1>1, PTL DEF Spec

\* Only SubmitOk writes "waiting", and it puts its own invocation into the
\* polling loop; PollHit and GiveUp, the only steps that take an invocation
\* out of the loop, write another status.
LEMMA WaitingStep ==
    TypeOK /\ WaitingHasPoller /\ Next => WaitingHasPoller'
<1> SUFFICES ASSUME TypeOK, WaitingHasPoller, Next, status' = "waiting"
             PROVE  \E j \in Invocations : inv'[j].pc \in {"poll", "sleep"}
  BY DEF WaitingHasPoller
<1> USE DEF TypeOK, Invocations
<1>1. CASE Click \/ Cancel
  BY <1>1 DEF Click, Cancel
<1>2. ASSUME NEW i \in Invocations, SubmitOk(i) PROVE inv'[i].pc = "poll"
  BY <1>2 DEF SubmitOk
<1>3. ASSUME NEW i \in Invocations,
             SubmitFails(i) \/ PollHit(i) \/ GiveUp(i)
      PROVE  FALSE
  BY <1>3 DEF SubmitFails, PollHit, GiveUp
\* The steps that leave the status alone keep the invocation that polls.
<1>4. ASSUME NEW i \in Invocations,
             PollMiss(i) \/ PollAgain(i) \/ Fulfil(i)
      PROVE  \E j \in Invocations : inv'[j].pc \in {"poll", "sleep"}
  BY <1>4 DEF PollMiss, PollAgain, Fulfil, WaitingHasPoller
<1> QED
  BY <1>1, <1>2, <1>3, <1>4 DEF Next, Step

\* The status that setStatus('waiting') writes is overwritten by every path
\* on which that invocation's polling loop returns, so "Waiting for VRF
\* server" is shown only while some invocation polls, whatever the user
\* clicks and however invocations interleave.
THEOREM WaitingHasPollerHolds == Spec => []WaitingHasPoller
<1>1. Init => TypeOK /\ WaitingHasPoller
  BY ClientTypeInit DEF Init, WaitingHasPoller
<1>2. TypeOK /\ WaitingHasPoller /\ [Next]_vars
      => TypeOK' /\ WaitingHasPoller'
  BY ClientTypeStep, WaitingStep DEF vars, TypeOK, WaitingHasPoller
<1> QED
  BY <1>1, <1>2, PTL DEF Spec

-----------------------------------------------------------------------------
(***************************************************************************)
(* Without a cancel the page runs one invocation at a time: the Generate   *)
(* button is disabled from the click until that invocation writes its      *)
(* outcome, so the running invocation is always the last click and the     *)
(* result it shows is that click's.  A cancel breaks the first link: it    *)
(* enables the button while the cancelled loop is still running, which is *)
(* what demo_stale_result shows.                                           *)
(***************************************************************************)
Active(i) == inv[i].pc \in {"submit", "poll", "sleep"}

SeqInv ==
    /\ TypeOK
    /\ \A i \in Invocations : Active(i) => i = clicks /\ IsLoading
    /\ DisplayedResultIsCurrent

LEMMA SeqStep ==
    ASSUME MaxCancels = 0, SeqInv, [Next]_vars
    PROVE  SeqInv'
<1>1. TypeOK'
  <2>1. CASE Next
    BY <2>1, ClientTypeStep DEF SeqInv
  <2>2. CASE UNCHANGED vars
    BY <2>2 DEF SeqInv, TypeOK, vars
  <2> QED
    BY <2>1, <2>2
<1> USE DEF SeqInv, TypeOK, Invocations, Pc, Active, IsLoading,
            DisplayedResultIsCurrent
<1>2. CASE Click
  \* No invocation runs: the button was enabled.
  <2>1. \A i \in Invocations : ~Active(i)
    BY <1>2 DEF Click
  <2> QED
    BY <1>1, <1>2, <2>1 DEF Click
<1>3. CASE Cancel
  BY <1>3 DEF Cancel
<1>4. ASSUME NEW i \in Invocations, SubmitOk(i) PROVE SeqInv'
  BY <1>1, <1>4 DEF SubmitOk
<1>5. ASSUME NEW i \in Invocations,
             SubmitFails(i) \/ PollHit(i) \/ GiveUp(i)
      PROVE SeqInv'
  BY <1>1, <1>5 DEF SubmitFails, PollHit, GiveUp
<1>6. ASSUME NEW i \in Invocations,
             PollMiss(i) \/ PollAgain(i) \/ Fulfil(i)
      PROVE SeqInv'
  BY <1>1, <1>6 DEF PollMiss, PollAgain, Fulfil
<1>7. CASE UNCHANGED vars
  BY <1>7 DEF vars
<1> QED
  BY <1>2, <1>3, <1>4, <1>5, <1>6, <1>7 DEF Next, Step

\* A user who never cancels always sees, as "Your Random Number", the output
\* of the request they made last, for every number of clicks and polls:
\* the stale result of demo_stale_result needs a cancel.
THEOREM ResultCurrentWithoutCancel ==
    ASSUME MaxCancels = 0
    PROVE  Spec => []DisplayedResultIsCurrent
<1>1. Init => SeqInv
  BY ClientTypeInit DEF Init, SeqInv, Active, DisplayedResultIsCurrent
<1>2. SeqInv /\ [Next]_vars => SeqInv'
  BY SeqStep
<1>3. SeqInv => DisplayedResultIsCurrent
  BY DEF SeqInv
<1> QED
  BY <1>1, <1>2, <1>3, PTL DEF Spec

=============================================================================
