------------------------ MODULE OracleBootstrapProofs -------------------------
(***************************************************************************)
(* Proof that a single oracle instance serves with one VRF key across all  *)
(* its restarts, for every set of keys and every number of runs.  The key  *)
(* file outlives the processes, so the argument is an invariant relating   *)
(* the file to the key of the running process and to the history of keys  *)
(* served with.  Type correctness is proved for any number of instances   *)
(* sharing the file.                                                       *)
(***************************************************************************)
EXTENDS OracleBootstrap, TLAPS

USE BootAssumption

\* Steps at which the process holds the key it will serve with.
KeyLoaded == {"testCli", "oracleKey", "connect", "running"}

\* The inductive invariant: every key served with is the one on disk; a
\* process generating a key has never been preceded by a served one (it
\* found no key on disk); and a process past loadVRFKeypair holds the key
\* on disk; from keygen on, the process holds a key.
IInv ==
    /\ TypeOK
    /\ \A k \in servedWith : file = k
    /\ \A p \in Instances : pc[p] \in {"keygen", "writeKey"} => servedWith = {}
    /\ \A p \in Instances : pc[p] \in KeyLoaded => vrfKey[p] = file
    /\ \A p \in Instances : pc[p] \in KeyLoaded \cup {"writeKey"} => vrfKey[p] \in Keys

\* A fresh or provisioned host satisfies the invariant.
LEMMA BootInit == Init => IInv
BY DEF Init, IInv, TypeOK, FileStates, Steps, KeyLoaded

\* With one instance, no startup step breaks the invariant.
LEMMA BootStep ==
    ASSUME NEW q, Instances = {q}, IInv, Next
    PROVE  IInv'
<1>1. PICK p \in Instances : Instance(p)
  BY DEF Next
<1>2. p = q
  BY <1>1
<1> USE <1>2 DEF IInv, TypeOK, FileStates, Steps, KeyLoaded, Goto
<1>3. CASE Start(p)
  BY <1>3 DEF Start
<1>4. CASE CliFound(p)
  BY <1>4 DEF CliFound
<1>5. CASE LoadVRFKeypair(p)
  <2>1. CASE /\ file \in Keys
             /\ Goto(p, "readKey", "testCli")
             /\ vrfKey' = [vrfKey EXCEPT ![p] = file]
             /\ UNCHANGED <<file, runs, generated, servedWith>>
    <3>1. vrfKey' \in [Instances -> Keys \cup {NoKey}] /\ vrfKey'[q] = file
      BY <2>1
    <3>2. pc' \in [Instances -> Steps] /\ pc'[q] = "testCli"
      BY <2>1
    <3> QED
      BY <2>1, <3>1, <3>2
  <2>2. CASE /\ file \notin Keys
             /\ Goto(p, "readKey", "keygen")
             /\ UNCHANGED <<file, vrfKey, runs, generated, servedWith>>
    \* The file holds no key, so no key was ever served with.
    <3>1. servedWith = {}
      BY <2>2
    <3>2. pc' \in [Instances -> Steps] /\ pc'[q] = "keygen"
      BY <2>2
    <3> QED
      BY <2>2, <3>1, <3>2
  <2> QED
    BY <1>5, <2>1, <2>2 DEF LoadVRFKeypair
<1>6. CASE Keygen(p)
  <2>1. PICK k \in Keys \ generated :
               /\ Goto(p, "keygen", "writeKey")
               /\ vrfKey' = [vrfKey EXCEPT ![p] = k]
               /\ generated' = generated \cup {k}
    BY <1>6 DEF Keygen
  <2>2. vrfKey' \in [Instances -> Keys \cup {NoKey}] /\ vrfKey'[q] = k
    BY <2>1
  <2>3. pc' \in [Instances -> Steps] /\ pc'[q] = "writeKey"
    BY <2>1
  <2> QED
    BY <1>6, <2>1, <2>2, <2>3 DEF Keygen
<1>7. CASE SaveKey(p)
  <2>1. servedWith = {} /\ vrfKey[q] \in Keys
    BY <1>7 DEF SaveKey
  <2>2. file' = vrfKey[q] /\ pc' \in [Instances -> Steps] /\ pc'[q] = "testCli"
    BY <1>7 DEF SaveKey
  <2> QED
    BY <1>7, <2>1, <2>2 DEF SaveKey
<1>8. CASE TestCli(p)
  BY <1>8 DEF TestCli
<1>9. CASE LoadOracleKeypair(p)
  BY <1>9 DEF LoadOracleKeypair
<1>10. CASE Connect(p)
  <2>1. vrfKey[q] = file /\ vrfKey[q] \in Keys
    BY <1>10 DEF Connect
  <2>2. servedWith' = servedWith \cup {file}
    BY <1>10, <2>1 DEF Connect
  <2>3. pc' \in [Instances -> Steps] /\ pc'[q] = "running"
    BY <1>10 DEF Connect
  <2> QED
    BY <1>10, <2>1, <2>2, <2>3 DEF Connect
<1>11. CASE StartupFails(p)
  BY <1>11 DEF StartupFails
<1>12. CASE SaveKeyInterrupted(p)
  BY <1>12 DEF SaveKeyInterrupted
<1>13. CASE Stop(p)
  BY <1>13 DEF Stop
<1> QED
  BY <1>1, <1>3, <1>4, <1>5, <1>6, <1>7, <1>8, <1>9, <1>10, <1>11,
     <1>12, <1>13 DEF Instance

\* KeyStable holds in every reachable state of a single instance: however
\* its runs fail, are killed or are cut short while saving the key, every
\* run that reaches the serving loop proves with the same VRF key.
THEOREM KeyStableHolds ==
    ASSUME NEW q, Instances = {q}
    PROVE  Spec => []KeyStable
<1>1. IInv /\ [Next]_vars => IInv'
  BY BootStep DEF vars, IInv, TypeOK, KeyLoaded
<1>2. IInv => KeyStable
  BY DEF IInv, KeyStable
<1> QED
  BY BootInit, <1>1, <1>2, PTL DEF Spec

-----------------------------------------------------------------------------
\* The strengthening of TypeOK: from the loaded or generated key on, the
\* process holds a key, so that SaveKey writes a key to the file and
\* Connect serves with one.
TInv ==
    /\ TypeOK
    /\ \A p \in Instances : pc[p] \in KeyLoaded \cup {"writeKey"} => vrfKey[p] \in Keys

LEMMA TInvInit == Init => TInv
BY DEF Init, TInv, TypeOK, FileStates, Steps, KeyLoaded

\* Whatever the instances do, concurrently on one file, no step leaves the
\* type.
LEMMA TInvStep ==
    ASSUME TInv, [Next]_vars
    PROVE  TInv'
<1> USE DEF TInv, TypeOK, FileStates, Steps, KeyLoaded, Goto
<1>1. ASSUME NEW p \in Instances, Start(p) \/ CliFound(p) PROVE TInv'
  BY <1>1 DEF Start, CliFound
<1>2. ASSUME NEW p \in Instances, LoadVRFKeypair(p) PROVE TInv'
  BY <1>2 DEF LoadVRFKeypair
<1>3. ASSUME NEW p \in Instances, Keygen(p) PROVE TInv'
  BY <1>3 DEF Keygen
<1>4. ASSUME NEW p \in Instances, SaveKey(p) PROVE TInv'
  BY <1>4 DEF SaveKey
<1>5. ASSUME NEW p \in Instances, TestCli(p) \/ LoadOracleKeypair(p)
      PROVE TInv'
  BY <1>5 DEF TestCli, LoadOracleKeypair
<1>6. ASSUME NEW p \in Instances, Connect(p) PROVE TInv'
  BY <1>6 DEF Connect
<1>7. ASSUME NEW p \in Instances,
             StartupFails(p) \/ SaveKeyInterrupted(p) \/ Stop(p)
      PROVE TInv'
  BY <1>7 DEF StartupFails, SaveKeyInterrupted, Stop
<1>8. CASE UNCHANGED vars
  BY <1>8 DEF vars
<1> QED
  BY <1>1, <1>2, <1>3, <1>4, <1>5, <1>6, <1>7, <1>8 DEF Next, Instance

\* For every number of instances on one VRF_KEYPAIR_PATH, keys and runs,
\* the state keeps its type: in particular the key file only ever holds a
\* key, torn data or nothing, and a process only ever holds a key the file
\* or keygen gave it, never the unparsed contents of a torn file.
THEOREM BootTypeCorrect == Spec => []TypeOK
<1>1. TInv => TypeOK
  BY DEF TInv
<1> QED
  BY TInvInit, TInvStep, <1>1, PTL DEF Spec

-----------------------------------------------------------------------------
(***************************************************************************)
(* Refinement of KeyFileAbstract by a single instance.  Besides IInv, it   *)
(* needs that keygen and the save run only while the file holds no key:   *)
(* then a save is the abstract Save, and a key on disk is never replaced.  *)
(***************************************************************************)
StoredKey == IF file \in Keys THEN file ELSE NoKey

RInv ==
    /\ IInv
    /\ \A p \in Instances : pc[p] \in {"keygen", "writeKey"} => file \notin Keys

LEMMA RInvStep ==
    ASSUME NEW q, Instances = {q}, RInv, [Next]_vars
    PROVE  RInv'
<1>1. IInv'
  <2>1. CASE Next
    BY <2>1, BootStep DEF RInv
  <2>2. CASE UNCHANGED vars
    BY <2>2 DEF RInv, IInv, TypeOK, KeyLoaded, vars
  <2> QED
    BY <2>1, <2>2
<1>2. pc'[q] \in {"keygen", "writeKey"} => file' \notin Keys
  <2> USE DEF RInv, IInv, TypeOK, Steps, Goto
  <2>1. CASE UNCHANGED vars
    BY <2>1 DEF vars
  <2>2. CASE Instance(q)
    BY <2>2 DEF Instance, Start, CliFound, LoadVRFKeypair, Keygen, SaveKey,
                TestCli, LoadOracleKeypair, Connect, StartupFails,
                SaveKeyInterrupted, Stop
  <2> QED
    BY <2>1, <2>2 DEF Next
<1> QED
  BY <1>1, <1>2 DEF RInv

\* A step of the instance is a Save, a Serve or leaves the abstract key file
\* and served keys alone.
LEMMA KeyFileStep ==
    ASSUME NEW q, Instances = {q}, RInv, [Next]_vars
    PROVE  [KeyFile!Next]_KeyFile!vars
<1> USE DEF RInv, IInv, TypeOK, FileStates, Steps, KeyLoaded, Goto
<1>1. CASE UNCHANGED vars
  BY <1>1 DEF vars, KeyFile!vars
<1>2. CASE SaveKey(q)
  <2>1. file \notin Keys /\ vrfKey[q] \in Keys /\ file' = vrfKey[q]
    BY <1>2 DEF SaveKey
  <2> QED
    BY <1>2, <2>1 DEF SaveKey, KeyFile!Next, KeyFile!Save
<1>3. CASE SaveKeyInterrupted(q)
  <2>1. file \notin Keys /\ vrfKey[q] \in Keys
    BY <1>3 DEF SaveKeyInterrupted
  <2>2. CASE file' = vrfKey[q]
    BY <1>3, <2>1, <2>2 DEF SaveKeyInterrupted, KeyFile!Next, KeyFile!Save
  <2>3. CASE file' \in {file, "torn"}
    BY <1>3, <2>1, <2>3 DEF SaveKeyInterrupted, KeyFile!vars
  <2> QED
    BY <1>3, <2>2, <2>3 DEF SaveKeyInterrupted
<1>4. CASE Connect(q)
  <2>1. file \in Keys /\ vrfKey[q] = file
    BY <1>4 DEF Connect
  <2> QED
    BY <1>4, <2>1 DEF Connect, KeyFile!Next, KeyFile!Serve
<1>5. CASE \/ Start(q) \/ CliFound(q) \/ LoadVRFKeypair(q) \/ Keygen(q)
           \/ TestCli(q) \/ LoadOracleKeypair(q) \/ StartupFails(q)
           \/ Stop(q)
  BY <1>5 DEF Start, CliFound, LoadVRFKeypair, Keygen, TestCli,
              LoadOracleKeypair, StartupFails, Stop, KeyFile!vars
<1> QED
  BY <1>1, <1>2, <1>3, <1>4, <1>5 DEF Next, Instance

\* A single instance, restarted any number of times, implements
\* KeyFileAbstract: the key file is written once and every run serves with
\* it, whichever step of any run failed or was killed.
THEOREM KeyWrittenOnceHolds ==
    ASSUME NEW q, Instances = {q}
    PROVE  Spec => KeyWrittenOnce
<1>1. Init => RInv
  BY BootInit DEF Init, RInv
<1>2. Init => KeyFile!Init
  BY DEF Init, KeyFile!Init
<1>3. RInv /\ [Next]_vars => RInv'
  BY RInvStep
<1>4. RInv /\ [Next]_vars => [KeyFile!Next]_KeyFile!vars
  BY KeyFileStep
<1> QED
  BY <1>1, <1>2, <1>3, <1>4, PTL DEF Spec, KeyWrittenOnce, KeyFile!Spec
=============================================================================
