--------------------------- MODULE IoMmuInitProofs ---------------------------
(***************************************************************************)
(* Proofs about the initialisation sequencer of IoMmuInit, for every       *)
(* value of its constants that satisfies ConstantsAssumption.             *)
(***************************************************************************)
EXTENDS IoMmuInit, TLAPS

USE ConstantsAssumption

(* The queue list of InitialiseRiscVIoMmu has two or three entries. *)
LEMMA QueuesToProgramLen ==
  ASSUME caps \in Caps
  PROVE  /\ Len(QueuesToProgram) \in {2, 3}
         /\ \A i \in 1 .. Len(QueuesToProgram) : QueuesToProgram[i] \in Queues
  BY DEF QueuesToProgram, Queues, Caps

(* LevelMode always names a DDT mode. *)
LEMMA LevelModeType ==
  ASSUME NEW w \in Nat, NEW ext \in BOOLEAN
  PROVE  LevelMode(w, ext) \in DdtModes
  BY DEF LevelMode, DdtModes, LevelModes

(* A DDTP write, and the IOMMU completing one, keep the register's type. *)
LEMMA DdtpWriteType ==
  ASSUME NEW r \in DdtpRecords, NEW m \in DdtModes, NEW p \in Ppns
  PROVE  [r EXCEPT !.busy = TRUE, !.pmode = m, !.pppn = p] \in DdtpRecords
  BY DEF DdtpRecords

LEMMA DdtpCompleteType ==
  ASSUME NEW r \in DdtpRecords
  PROVE  /\ [r EXCEPT !.mode = r.pmode, !.ppn = r.pppn, !.busy = FALSE]
              \in DdtpRecords
         /\ [r EXCEPT !.busy = FALSE] \in DdtpRecords
  BY DEF DdtpRecords

-----------------------------------------------------------------------------
(* Type correctness: every state the driver and the IOMMU reach is well  *)
(* typed; in particular the queue index of AllocateQueue's loop in        *)
(* InitialiseRiscVIoMmu never leaves the list of queues.                  *)
LEMMA TypeCorrect == Spec => []TypeOK
<1>1. Init => TypeOK
  <2> SUFFICES ASSUME Init PROVE TypeOK
    OBVIOUS
  <2>2. ddtp \in DdtpRecords
    BY DEF Init, DdtpRecords, DdtModes, Ppns
  <2>3. qi \in 1 .. Len(QueuesToProgram)
    BY DEF Init, QueuesToProgram
  <2>4. /\ qbase \in [Queues -> BOOLEAN] /\ qen \in [Queues -> BOOLEAN]
        /\ qon \in [Queues -> BOOLEAN] /\ queueAllocs \in [Queues -> Nat]
    BY DEF Init
  <2>5. driverState \in {STATE_AVAILABLE, STATE_INITIALISED}
    BY DEF Init
  <2>6. calls \in 0 .. MaxCalls
    BY DEF Init
  <2>7. pc \in PcValues /\ mode \in DdtModes /\ rdMode \in DdtModes
    BY DEF Init, PcValues, DdtModes
  <2>. QED
    BY <2>2, <2>3, <2>4, <2>5, <2>6, <2>7 DEF Init, TypeOK
<1>2. TypeOK /\ [Next]_vars => TypeOK'
  <2> SUFFICES ASSUME TypeOK, [Next]_vars PROVE TypeOK'
    OBVIOUS
  <2>. USE DEF TypeOK, QueuesToProgram, Caps, DdtModes, LevelModes, Ppns, Queues, PcValues,
              platformVars, hwVars, ctxVars, threadVars,
              STATE_AVAILABLE, STATE_INITIALISED
  <2>q. Len(QueuesToProgram) \in {2, 3}
        /\ \A i \in 1 .. Len(QueuesToProgram) : QueuesToProgram[i] \in Queues
    BY QueuesToProgramLen
  <2>1. CASE CallInitialised
    BY <2>1 DEF CallInitialised
  <2>2. CASE CallStart
    BY <2>2 DEF CallStart, STATE_AVAILABLE, STATE_INITIALISED
  <2>3. CASE Negotiate
    <3>1. fctl' \in [be: BOOLEAN, gxl: BOOLEAN]
      <4>1. NewBe(caps) \in BOOLEAN
        BY DEF NewBe
      <4>2. [fctl EXCEPT !.be = NewBe(caps)] \in [be: BOOLEAN, gxl: BOOLEAN]
        BY <4>1
      <4>3. [be |-> NewBe(caps), gxl |-> satp = "Sv32"]
              \in [be: BOOLEAN, gxl: BOOLEAN]
        BY <4>1
      <4>. QED
        BY <2>3, <4>2, <4>3 DEF Negotiate
    <3>. QED
      BY <2>3, <2>q, <3>1 DEF Negotiate, ReturnUnsupported
  <2>4. CASE QProgram
    BY <2>4, <2>q DEF QProgram
  <2>5. CASE QEnable
    BY <2>5, <2>q DEF QEnable
  <2>6. CASE QPoll
    BY <2>6, <2>q DEF QPoll
  <2>7. CASE QWaitDone
    BY <2>7, <2>q DEF QWaitDone
  <2>8. CASE CtxProgram
    <3>1. LevelMode(DeviceIdSupportedWidth, caps.msiFlat) \in DdtModes
      BY LevelModeType DEF DeviceIdSupportedWidth, Caps
    <3>2. GarbagePpns \subseteq Ppns
      BY DEF GarbagePpns, Ppns
    <3>3. ddtp' \in DdtpRecords
      <4>1. PICK p \in GarbagePpns :
              ddtp' = [ddtp EXCEPT !.busy = TRUE,
                         !.pmode = LevelMode(DeviceIdSupportedWidth, caps.msiFlat),
                         !.pppn = p]
        BY <2>8 DEF CtxProgram, WriteDdtp
      <4>. QED
        BY <4>1, <3>1, <3>2, DdtpWriteType
    <3>. QED
      BY <2>8, <3>1, <3>3 DEF CtxProgram
  <2>9. ASSUME NEW at \in PcValues PROVE DdtPoll(at) => TypeOK'
    BY DEF DdtPoll, DdtpRecords
  <2>10. ASSUME NEW at \in PcValues, NEW nx \in PcValues
         PROVE  DdtWaitDone(at, nx) => TypeOK'
    BY DEF DdtWaitDone
  <2>11. CASE DdtRead
    BY <2>11 DEF DdtRead, DdtpReadModes, DdtpRecords
  <2>12. CASE DdtCompare
    <3>1. ddtp' \in DdtpRecords
      <4>1. mode \in DdtModes /\ ddtp \in DdtpRecords
        OBVIOUS
      <4>2. [ddtp EXCEPT !.busy = TRUE, !.pmode = mode, !.pppn = "CtxRoot"]
              \in DdtpRecords
        BY <4>1, DdtpWriteType
      <4>. QED
        BY <2>12, <4>2 DEF DdtCompare, WriteDdtpAny, WriteDdtp
    <3>. QED
      BY <2>12, <3>1 DEF DdtCompare, ReturnUnsupported
  <2>13. CASE Install
    BY <2>13 DEF Install
  <2>14. ASSUME NEW q \in Queues PROVE HwQueueOn(q) => TypeOK'
    BY DEF HwQueueOn
  <2>15. CASE HwDdtpComplete
    <3>1. ddtp' \in DdtpRecords
      <4>1. /\ [ddtp EXCEPT !.mode = ddtp.pmode, !.ppn = ddtp.pppn,
                              !.busy = FALSE] \in DdtpRecords
            /\ [ddtp EXCEPT !.busy = FALSE] \in DdtpRecords
        BY DdtpCompleteType
      <4>. QED
        BY <2>15, <4>1 DEF HwDdtpComplete
    <3>. QED
      BY <2>15, <3>1 DEF HwDdtpComplete
  <2>16. CASE UNCHANGED vars
    BY <2>16 DEF vars, platformVars, hwVars, ctxVars, threadVars
  <2>. QED
    BY <2>1, <2>2, <2>3, <2>4, <2>5, <2>6, <2>7, <2>8, <2>9, <2>10,
       <2>11, <2>12, <2>13, <2>14, <2>15, <2>16
    DEF Next, DriverStep, HwStep, PcValues
<1>. QED
  BY <1>1, <1>2, PTL DEF Spec

(* QueueIndex numbers the three queues 1 to 3, one queue per number. *)
LEMMA QueueIndexInjective ==
  /\ \A q \in Queues : QueueIndex[q] \in 1 .. 3
  /\ \A q1, q2 \in Queues : QueueIndex[q1] = QueueIndex[q2] => q1 = q2
<1>1. QueueIndex["CQ"] = 1 /\ QueueIndex["FQ"] = 2 /\ QueueIndex["PQ"] = 3
  BY DEF QueueIndex, Queues
<1>2. Queues = {"CQ", "FQ", "PQ"}
  BY DEF Queues
<1>. QED
  BY <1>1, <1>2

-----------------------------------------------------------------------------
(* The i-th queue InitialiseRiscVIoMmu allocates has index i. *)
LEMMA QueueIndexOfList ==
  ASSUME caps \in Caps
  PROVE  \A i \in 1 .. Len(QueuesToProgram) : QueueIndex[QueuesToProgram[i]] = i
  BY DEF QueuesToProgram, QueueIndex, Queues, Caps

(* What IoMmuCommonInitialise has allocated always follows from how far  *)
(* its one run of InitialiseRiscVIoMmu has got (AllocationsFollowProgress). *)
(* The state is moved to STATE_INITIALISED before the first allocation,  *)
(* so a second call never starts another run.  The invariant is          *)
(* inductive given the types TypeCorrect supplies.                       *)
THEOREM AllocationsFollowProgressHolds == Spec => []AllocationsFollowProgress
<1>1. Init => AllocationsFollowProgress
  BY DEF Init, AllocationsFollowProgress, ProgrammedOnce, STATE_AVAILABLE,
         STATE_INITIALISED, QueuePhase, ContextPhase
<1>2. TypeOK /\ TypeOK' /\ AllocationsFollowProgress /\ [Next]_vars
        => AllocationsFollowProgress'
  <2> SUFFICES ASSUME TypeOK, TypeOK', AllocationsFollowProgress, [Next]_vars
               PROVE  AllocationsFollowProgress'
    OBVIOUS
  <2>. USE DEF TypeOK, AllocationsFollowProgress, ProgrammedOnce, QueuePhase,
              ContextPhase, PcValues, Queues, STATE_AVAILABLE, STATE_INITIALISED,
              platformVars, hwVars, ctxVars, threadVars
  <2>1. CASE CallInitialised
    BY <2>1 DEF CallInitialised
  <2>2. CASE CallStart
    BY <2>2 DEF CallStart
  <2>3. CASE Negotiate
    <3>1. pc = "Negotiate" /\ qi = 1 /\ queueAllocs = [q \in Queues |-> 0]
          /\ ctxAllocs = 0 /\ installs = 0 /\ driverState = STATE_INITIALISED
      BY <2>3 DEF Negotiate
    <3>2. UNCHANGED <<driverState, queueAllocs, ctxAllocs, installs>>
      BY <2>3 DEF Negotiate
    <3>3. pc' = "Idle" \/ (pc' = "QProgram" /\ qi' = 1)
      BY <2>3 DEF Negotiate, ReturnUnsupported
    <3>4. \A q \in Queues : QueueIndex[q] \in 1 .. 3
      BY QueueIndexInjective
    <3>. QED
      BY <3>1, <3>2, <3>3, <3>4
  <2>4. CASE QProgram
    <3>1. QueueIndex[QueuesToProgram[qi]] = qi /\ QueuesToProgram[qi] \in Queues
      BY QueueIndexOfList, QueuesToProgramLen
    <3>2. \A q \in Queues : QueueIndex[q] \in 1 .. 3
      BY QueueIndexInjective
    <3>3. \A q1, q2 \in Queues : QueueIndex[q1] = QueueIndex[q2] => q1 = q2
      BY QueueIndexInjective
    <3>. QED
      BY <2>4, <3>1, <3>2, <3>3 DEF QProgram
  <2>5. CASE QEnable
    BY <2>5 DEF QEnable
  <2>6. CASE QPoll
    BY <2>6 DEF QPoll
  <2>7. CASE QWaitDone
    <3>1. \A q \in Queues : QueueIndex[q] \in 1 .. 3
      BY QueueIndexInjective
    <3>2. Len(QueuesToProgram) \in {2, 3}
      BY QueuesToProgramLen
    <3>. QED
      BY <2>7, <3>1, <3>2 DEF QWaitDone
  <2>8. CASE CtxProgram
    BY <2>8 DEF CtxProgram
  <2>9. ASSUME NEW at \in ContextPhase PROVE DdtPoll(at) => AllocationsFollowProgress'
    BY DEF DdtPoll
  <2>10. CASE DdtWaitDone("DdtWait1", "DdtRead")
    BY <2>10 DEF DdtWaitDone
  <2>17. CASE DdtWaitDone("DdtWait2", "Install")
    BY <2>17 DEF DdtWaitDone
  <2>11. CASE DdtRead
    BY <2>11 DEF DdtRead
  <2>12. CASE DdtCompare
    BY <2>12 DEF DdtCompare, ReturnUnsupported
  <2>13. CASE Install
    BY <2>13 DEF Install
  <2>14. ASSUME NEW q \in Queues PROVE HwQueueOn(q) => AllocationsFollowProgress'
    BY DEF HwQueueOn, threadVars, ctxVars
  <2>15. CASE HwDdtpComplete
    BY <2>15 DEF HwDdtpComplete, threadVars, ctxVars
  <2>16. CASE UNCHANGED vars
    BY <2>16 DEF vars, platformVars, hwVars, ctxVars, threadVars
  <2>. QED
    BY <2>1, <2>2, <2>3, <2>4, <2>5, <2>6, <2>7, <2>8, <2>9, <2>10,
       <2>11, <2>12, <2>13, <2>14, <2>15, <2>16, <2>17
    DEF Next, DriverStep, HwStep
<1>. QED
  BY <1>1, <1>2, TypeCorrect, PTL DEF Spec

(* Idempotence of IoMmuCommonInitialise: in every behaviour, whatever    *)
(* the platform and however often the entry point calls it, each queue   *)
(* buffer and the context root are allocated at most once and the        *)
(* protocol is installed at most once.                                   *)
THEOREM ProgrammedOnceHolds == Spec => []ProgrammedOnce
<1>1. AllocationsFollowProgress => ProgrammedOnce
  BY DEF AllocationsFollowProgress
<1>. QED
  BY <1>1, AllocationsFollowProgressHolds, PTL

-----------------------------------------------------------------------------
(* IoMmuCommonInitialise implements the idempotent bring-up service of    *)
(* IoMmuInitService: the initial state maps to the service's, a call      *)
(* that finds STATE_INITIALISED returns early, the first call starts the  *)
(* bring-up, the failing returns of InitialiseRiscVIoMmu and the          *)
(* installation end it, and every register, queue and hardware step is a *)
(* stutter.  Install needs the protocol not to be installed yet, which    *)
(* AllocationsFollowProgress gives (installs = 0 during the context       *)
(* phase); CallStart needs the state below STATE_INITIALISED to be        *)
(* STATE_AVAILABLE, which TypeOK gives.                                   *)
THEOREM ServiceRefinement == Spec => ImplementsService
<1>1. Init => Service!SInit
  BY DEF Init, Service!SInit, STATE_AVAILABLE, STATE_INITIALISED
<1>2. TypeOK /\ AllocationsFollowProgress /\ [Next]_vars
        => [Service!SNext]_Service!svars
  <2> SUFFICES ASSUME TypeOK, AllocationsFollowProgress, [Next]_vars
               PROVE  [Service!SNext]_Service!svars
    OBVIOUS
  <2>. USE DEF STATE_AVAILABLE, STATE_INITIALISED, platformVars, hwVars,
              ctxVars, threadVars
  (* A step that keeps the thread away from its idle point and leaves   *)
  (* the state, the installations and the result alone is a stutter.   *)
  <2>s. ASSUME pc # "Idle", pc' # "Idle",
               UNCHANGED <<driverState, installs, lastResult>>
        PROVE  UNCHANGED Service!svars
    BY <2>s DEF Service!svars
  <2>1. CASE CallInitialised
    <3>1. Service!SReturnEarly
      BY <2>1 DEF CallInitialised, Service!SReturnEarly, TypeOK
    <3>. QED
      BY <3>1 DEF Service!SNext
  <2>2. CASE CallStart
    <3>1. driverState = STATE_AVAILABLE
      BY <2>2 DEF CallStart, TypeOK
    <3>2. Service!SStart
      BY <2>2, <3>1 DEF CallStart, Service!SStart
    <3>. QED
      BY <3>2 DEF Service!SNext
  <2>3. CASE Negotiate
    <3>1. CASE pc' = "Idle"
      <4>1. Service!SFail
        BY <2>3, <3>1 DEF Negotiate, ReturnUnsupported, Service!SFail
      <4>. QED
        BY <4>1 DEF Service!SNext
    <3>2. CASE pc' # "Idle"
      BY <2>3, <3>2, <2>s DEF Negotiate, ReturnUnsupported
    <3>. QED
      BY <3>1, <3>2
  <2>4. CASE QProgram
    BY <2>4, <2>s DEF QProgram
  <2>5. CASE QEnable
    BY <2>5, <2>s DEF QEnable
  <2>6. CASE QPoll
    BY <2>6, <2>s DEF QPoll
  <2>7. CASE QWaitDone
    BY <2>7, <2>s DEF QWaitDone
  <2>8. CASE CtxProgram
    BY <2>8, <2>s DEF CtxProgram
  <2>9. CASE DdtPoll("DdtWait1") \/ DdtPoll("DdtWait2")
    BY <2>9, <2>s DEF DdtPoll
  <2>10. CASE DdtWaitDone("DdtWait1", "DdtRead")
    BY <2>10, <2>s DEF DdtWaitDone
  <2>11. CASE DdtWaitDone("DdtWait2", "Install")
    BY <2>11, <2>s DEF DdtWaitDone
  <2>12. CASE DdtRead
    BY <2>12, <2>s DEF DdtRead
  <2>13. CASE DdtCompare
    <3>1. CASE pc' = "Idle"
      <4>1. Service!SFail
        BY <2>13, <3>1 DEF DdtCompare, ReturnUnsupported, Service!SFail
      <4>. QED
        BY <4>1 DEF Service!SNext
    <3>2. CASE pc' # "Idle"
      BY <2>13, <3>2, <2>s DEF DdtCompare, ReturnUnsupported
    <3>. QED
      BY <3>1, <3>2
  <2>14. CASE Install
    <3>1. installs = 0
      BY <2>14 DEF Install, AllocationsFollowProgress, ContextPhase
    <3>2. installs \in Nat
      BY DEF TypeOK
    <3>3. Service!SSucceed
      BY <2>14, <3>1, <3>2 DEF Install, Service!SSucceed
    <3>. QED
      BY <3>3 DEF Service!SNext
  <2>15. CASE HwStep
    BY <2>15 DEF HwStep, HwDdtpComplete, HwQueueOn, Service!svars
  <2>16. CASE UNCHANGED vars
    BY <2>16 DEF vars, Service!svars
  <2>. QED
    BY <2>1, <2>2, <2>3, <2>4, <2>5, <2>6, <2>7, <2>8, <2>9, <2>10,
       <2>11, <2>12, <2>13, <2>14, <2>15, <2>16
    DEF Next, DriverStep
<1>. QED
  BY <1>1, <1>2, TypeCorrect, AllocationsFollowProgressHolds, PTL
  DEF Spec, ImplementsService, Service!SSpec

-----------------------------------------------------------------------------
(* The configuration InitialiseRiscVIoMmu negotiated (lines 285-332):     *)
(* what InstalledConfiguration asks of the hardware apart from the queues. *)
Negotiated ==
  /\ caps.version = V10
  /\ hartBE => fctl.be
  /\ ~SatpUnsupported(satp, caps)
  /\ fctl.gxl = (satp = "Sv32")

(* Exactly the queues before position k of the list are enabled. *)
QueuesEnabledBefore(k) == \A q \in Queues : qen[q] <=> QueueIndex[q] < k

(* The hardware configuration follows how far the run of                *)
(* InitialiseRiscVIoMmu has got: nothing is enabled before it starts;   *)
(* from the queue loop on, the negotiated configuration is in fctl and  *)
(* the queues up to the current one (once QEnable set it) are enabled;  *)
(* from ProgramContextRoot on, and after installation, all the queues of *)
(* the list are.                                                        *)
ConfigFollowsProgress ==
  /\ (driverState = STATE_AVAILABLE \/ pc = "Negotiate") => QueuesEnabledBefore(1)
  /\ pc \in QueuePhase =>
       /\ Negotiated
       /\ \A q \in Queues :
            qen[q] <=> \/ QueueIndex[q] < qi
                       \/ QueueIndex[q] = qi /\ pc = "QWait"
  /\ (pc \in ContextPhase \/ installs > 0) =>
       Negotiated /\ QueuesEnabledBefore(Len(QueuesToProgram) + 1)

(* A queue is in the list InitialiseRiscVIoMmu walks exactly when its    *)
(* index is at most the length of the list.                             *)
LEMMA InListIffIndex ==
  ASSUME caps \in Caps
  PROVE  \A q \in Queues :
           (\E i \in 1 .. Len(QueuesToProgram) : QueuesToProgram[i] = q)
             <=> (QueueIndex[q] < Len(QueuesToProgram) + 1)
<1>1. CASE caps.ats
  <2>1. QueuesToProgram = <<"CQ", "FQ", "PQ">>
    BY <1>1 DEF QueuesToProgram
  <2>. QED
    BY <2>1 DEF QueueIndex, Queues
<1>2. CASE ~caps.ats
  <2>1. QueuesToProgram = <<"CQ", "FQ">>
    BY <1>2 DEF QueuesToProgram
  <2>. QED
    BY <2>1 DEF QueueIndex, Queues
<1>. QED
  BY <1>1, <1>2

(* ConfigFollowsProgress holds in every state.  The configuration is     *)
(* written only by the one run of InitialiseRiscVIoMmu, which            *)
(* AllocationsFollowProgress places: Negotiate runs on the reset        *)
(* hardware with nothing installed, and each QEnable enables the queue   *)
(* whose index is qi.                                                    *)
THEOREM ConfigFollowsProgressHolds == Spec => []ConfigFollowsProgress
<1>1. Init => ConfigFollowsProgress
  BY QueueIndexInjective DEF Init, ConfigFollowsProgress, QueuesEnabledBefore,
     QueuePhase, ContextPhase, STATE_AVAILABLE
<1>2. TypeOK /\ AllocationsFollowProgress /\ ConfigFollowsProgress /\ [Next]_vars
        => ConfigFollowsProgress'
  <2> SUFFICES ASSUME TypeOK, AllocationsFollowProgress, ConfigFollowsProgress,
                      [Next]_vars
               PROVE  ConfigFollowsProgress'
    OBVIOUS
  <2>. USE DEF QueuePhase, ContextPhase, STATE_AVAILABLE,
              STATE_INITIALISED, platformVars, hwVars, ctxVars, threadVars,
              SatpUnsupported
  <2>t. /\ caps \in Caps /\ qen \in [Queues -> BOOLEAN] /\ installs \in Nat
        /\ driverState \in {STATE_AVAILABLE, STATE_INITIALISED}
        /\ qi \in 1 .. Len(QueuesToProgram)
    BY DEF TypeOK
  <2>a. /\ pc # "Idle" => driverState = STATE_INITIALISED /\ installs = 0
        /\ driverState = STATE_AVAILABLE => installs = 0
    BY DEF AllocationsFollowProgress, TypeOK, PcValues
  <2>i. /\ \A q \in Queues : QueueIndex[q] \in 1 .. 3
        /\ \A q1, q2 \in Queues : QueueIndex[q1] = QueueIndex[q2] => q1 = q2
    BY QueueIndexInjective
  <2>l. Len(QueuesToProgram) \in {2, 3}
    BY <2>t, QueuesToProgramLen
  (* A step of the context phase or of the hardware that changes none of *)
  (* the configuration and leaves pc in the context phase or at Idle.   *)
  <2>k. ASSUME pc \in ContextPhase, pc' \in ContextPhase \cup {"Idle"},
               UNCHANGED <<caps, hartBE, satp, fctl, qen, driverState>>,
               installs' \in Nat
        PROVE  ConfigFollowsProgress'
    BY <2>k, <2>a DEF ConfigFollowsProgress, Negotiated, QueuesEnabledBefore,
       QueuesToProgram
  <2>1. CASE CallInitialised
    BY <2>1 DEF CallInitialised, ConfigFollowsProgress, Negotiated,
       QueuesEnabledBefore, QueuesToProgram
  <2>2. CASE CallStart
    <3>1. driverState = STATE_AVAILABLE /\ installs = 0 /\ QueuesEnabledBefore(1)
      BY <2>2, <2>a, <2>t DEF CallStart, ConfigFollowsProgress
    <3>2. pc' = "Negotiate" /\ UNCHANGED <<qen, installs>>
      BY <2>2 DEF CallStart
    <3>. QED
      BY <3>1, <3>2 DEF ConfigFollowsProgress, QueuesEnabledBefore
  <2>3. CASE Negotiate
    <3>1. installs = 0 /\ QueuesEnabledBefore(1) /\ UNCHANGED <<installs, qen>>
      BY <2>3, <2>a DEF Negotiate, ConfigFollowsProgress
    <3>2. CASE pc' = "Idle"
      BY <2>3, <3>1, <3>2, <2>a DEF Negotiate, ConfigFollowsProgress
    <3>3. CASE pc' # "Idle"
      <4>1. /\ caps.version = V10 /\ EndiannessSupported(caps)
            /\ ~SatpUnsupported(satp, caps)
            /\ fctl' = [be |-> NewBe(caps), gxl |-> satp = "Sv32"]
            /\ pc' = "QProgram" /\ qi' = 1
            /\ UNCHANGED <<caps, hartBE, satp, driverState>>
        BY <2>3, <3>3 DEF Negotiate, ReturnUnsupported
      <4>2. Negotiated'
        BY <4>1 DEF Negotiated, EndiannessSupported, NewBe
      <4>3. \A q \in Queues : ~qen'[q]
        BY <3>1, <2>i DEF QueuesEnabledBefore
      <4>4. \A q \in Queues :
              qen'[q] <=> \/ QueueIndex[q] < qi'
                          \/ QueueIndex[q] = qi' /\ pc' = "QWait"
        BY <4>1, <4>3, <2>i
      <4>5. driverState' = STATE_INITIALISED /\ installs' = 0
        BY <2>3, <4>1, <3>1, <2>a DEF Negotiate
      <4>. QED
        BY <4>1, <4>2, <4>4, <4>5 DEF ConfigFollowsProgress
    <3>. QED
      BY <3>2, <3>3
  <2>4. CASE QProgram
    BY <2>4, <2>a DEF QProgram, ConfigFollowsProgress, Negotiated
  <2>5. CASE QEnable
    <3>. DEFINE cur == QueuesToProgram[qi]
    <3>1. cur \in Queues /\ QueueIndex[cur] = qi
      BY <2>t, QueueIndexOfList, QueuesToProgramLen
    <3>2. /\ qen' = [qen EXCEPT ![cur] = TRUE] /\ pc = "QEnable" /\ pc' = "QWait"
          /\ UNCHANGED <<caps, hartBE, satp, fctl, qi, driverState, installs>>
      BY <2>5 DEF QEnable
    <3>3. \A q \in Queues : qen[q] <=> QueueIndex[q] < qi
      BY <3>2 DEF ConfigFollowsProgress
    <3>4. \A q \in Queues : qen'[q] <=> QueueIndex[q] < qi \/ QueueIndex[q] = qi
      BY <3>1, <3>2, <3>3, <2>i, <2>t
    <3>5. Negotiated'
      BY <3>2 DEF ConfigFollowsProgress, Negotiated
    <3>. QED
      BY <3>2, <3>4, <3>5, <2>a DEF ConfigFollowsProgress
  <2>6. CASE QPoll
    BY <2>6, <2>a DEF QPoll, ConfigFollowsProgress, Negotiated
  <2>7. CASE QWaitDone
    <3>1. /\ pc = "QWait"
          /\ UNCHANGED <<caps, hartBE, satp, fctl, qen, driverState, installs>>
          /\ \/ qi < Len(QueuesToProgram) /\ qi' = qi + 1 /\ pc' = "QProgram"
             \/ qi = Len(QueuesToProgram) /\ pc' = "CtxProgram" /\ qi' = qi
      BY <2>7 DEF QWaitDone
    <3>2. Negotiated /\ \A q \in Queues : qen[q] <=> QueueIndex[q] < qi + 1
      BY <3>1, <2>i, <2>t DEF ConfigFollowsProgress
    <3>3. Negotiated'
      BY <3>1, <3>2 DEF Negotiated
    <3>. QED
      BY <3>1, <3>2, <3>3, <2>a, <2>t
      DEF ConfigFollowsProgress, QueuesEnabledBefore, QueuesToProgram
  <2>8. CASE CtxProgram
    <3>1. /\ UNCHANGED <<caps, hartBE, satp, fctl, qen, driverState, installs>>
          /\ pc = "CtxProgram" /\ pc' = "DdtWait1"
      BY <2>8 DEF CtxProgram
    <3>. QED
      BY <3>1, <2>k, <2>t
  <2>9. ASSUME NEW at \in {"DdtWait1", "DdtWait2"} PROVE DdtPoll(at) => ConfigFollowsProgress'
    BY <2>k, <2>t DEF DdtPoll
  <2>10. CASE DdtWaitDone("DdtWait1", "DdtRead") \/ DdtWaitDone("DdtWait2", "Install")
    BY <2>10, <2>k, <2>t DEF DdtWaitDone
  <2>11. CASE DdtRead
    BY <2>11, <2>k, <2>t DEF DdtRead
  <2>12. CASE DdtCompare
    BY <2>12, <2>k, <2>t DEF DdtCompare, ReturnUnsupported
  <2>13. CASE Install
    BY <2>13, <2>k, <2>t DEF Install
  <2>14. CASE HwStep
    BY <2>14 DEF HwStep, HwQueueOn, HwDdtpComplete, ConfigFollowsProgress,
       Negotiated, QueuesEnabledBefore, QueuesToProgram
  <2>15. CASE UNCHANGED vars
    BY <2>15 DEF vars, ConfigFollowsProgress, Negotiated, QueuesEnabledBefore,
       QueuesToProgram
  <2>. QED
    BY <2>1, <2>2, <2>3, <2>4, <2>5, <2>6, <2>7, <2>8, <2>9, <2>10,
       <2>11, <2>12, <2>13, <2>14, <2>15
    DEF Next, DriverStep
<1>. QED
  BY <1>1, <1>2, TypeCorrect, AllocationsFollowProgressHolds, PTL DEF Spec

(* Once the protocol is installed, the IOMMU runs with the configuration *)
(* InitialiseRiscVIoMmu negotiated, for every platform: version 1.0, the *)
(* HART's endianness, a satp mode the IOMMU supports, GXL exactly for    *)
(* Sv32, and exactly the queues of the list enabled.                     *)
THEOREM InstalledConfigurationHolds == Spec => []InstalledConfiguration
<1>1. TypeOK /\ ConfigFollowsProgress => InstalledConfiguration
  <2> SUFFICES ASSUME TypeOK, ConfigFollowsProgress, installs > 0
               PROVE  InstalledConfiguration
    BY DEF InstalledConfiguration
  <2>1. Negotiated /\ QueuesEnabledBefore(Len(QueuesToProgram) + 1)
    BY DEF ConfigFollowsProgress
  <2>3. qen \in [Queues -> BOOLEAN]
    BY DEF TypeOK
  <2>2. \A q \in Queues :
           (\E i \in 1 .. Len(QueuesToProgram) : QueuesToProgram[i] = q)
             <=> (QueueIndex[q] < Len(QueuesToProgram) + 1)
    BY InListIffIndex DEF TypeOK
  <2>. QED
    BY <2>1, <2>2, <2>3 DEF InstalledConfiguration, Negotiated, QueuesEnabledBefore
<1>. QED
  BY <1>1, TypeCorrect, ConfigFollowsProgressHolds, PTL

=============================================================================
