------------------------------ MODULE IoMmuInit ------------------------------
(***************************************************************************)
(* The initialisation sequencer of the RISC-V IOMMU DXE driver             *)
(* (RiscVIoMmuDxe.c: IoMmuCommonInitialise, InitialiseRiscVIoMmu,          *)
(* AllocateQueue, ProgramContextRoot) together with the polling helpers of *)
(* Utilities.c, run against a model of the IOMMU's registers.              *)
(*                                                                         *)
(* The driver is one thread of control; its control point is pc.  Every   *)
(* register access whose outcome depends on the hardware is a step of its *)
(* own, so that the hardware, which completes DDTP writes and turns queues *)
(* on asynchronously, can act between any two of them.  Register accesses *)
(* to registers the hardware never changes by itself (capabilities, fctl) *)
(* are folded into the step that uses them.                                *)
(*                                                                         *)
(* The platform (capabilities, HART endianness and satp mode, the DDT     *)
(* modes the hardware accepts) is fixed in the initial state.             *)
(***************************************************************************)
EXTENDS Naturals, Sequences

CONSTANTS
  Versions,      \* capability versions the hardware may report
  V10,           \* V_RISCV_IOMMU_CAPABILITIES_VERSION_1_0, the one supported
  SatpModes,     \* satp modes the HART may run in when the driver starts
  DdtModeSets,   \* the sets of DDT modes a hardware implementation accepts
  StackGarbage,  \* values an uninitialised bit of a stack local may hold
  MaxCalls       \* bound on the calls of IoMmuCommonInitialise

(* The satp MODE values of RiscVImpl.h the driver tests. *)
AllSatpModes == {"Bare", "Sv32", "Sv39", "Sv48", "Sv57", "Sv64"}

(* ddtp.iommu_mode values, V_RISCV_IOMMU_DDTP_IOMMU_MODE_*. *)
LevelModes == {"1LVL", "2LVL", "3LVL"}
DdtModes   == {"Off", "Bare"} \cup LevelModes

(* Queues of the global driver context. *)
Queues == {"CQ", "FQ", "PQ"}

(* Physical page numbers the model tells apart: zero (the reset value and *)
(* a zeroed stack), other stack garbage, and the allocated context root.  *)
Ppns == {"Zero", "Junk", "CtxRoot"}

ASSUME ConstantsAssumption ==
  /\ V10 \in Versions
  /\ SatpModes \subseteq AllSatpModes
  /\ DdtModeSets \subseteq SUBSET LevelModes
  /\ StackGarbage \subseteq BOOLEAN /\ StackGarbage # {}
  /\ MaxCalls \in Nat \ {0}

(* The enum of RiscVIoMmu.h; the driver compares states with >= and <.   *)
STATE_INIT        == 0
STATE_DETECTED    == 1
STATE_AVAILABLE   == 2
STATE_INITIALISED == 3

(* Values an uninitialised PPN field may hold: zero if the stack is      *)
(* zero, anything else otherwise.                                        *)
GarbagePpns == {"Zero"} \cup (IF TRUE \in StackGarbage THEN {"Junk"} ELSE {})

VARIABLES
  \* platform, fixed in the initial state
  caps,          \* capabilities register
  hartBE,        \* the HART runs big-endian (sstatus.UBE)
  satp,          \* the HART's satp MODE
  hwModes,       \* DDT modes the hardware accepts
  \* IOMMU registers
  fctl,          \* feature control: [be, gxl]
  ddtp,          \* [mode, ppn, busy] plus the pending write [pmode, pppn]
  qbase,         \* qbase[q]: the queue base register holds q's buffer
  qen,           \* queue CSR enable bit
  qon,           \* queue CSR "on" bit, set by the hardware
  \* global driver context
  driverState,   \* DriverState
  queueAllocs,   \* number of buffers AllocateQueue allocated per queue
  ctxAllocs,     \* number of context roots ProgramContextRoot allocated
  ctxExtended,   \* DeviceContext.ContextStructIsExtended
  installs,      \* installations of the IOMMU protocol
  \* the driver thread
  pc,            \* control point
  calls,         \* calls of IoMmuCommonInitialise so far
  lastResult,    \* value returned by the last completed call
  qi,            \* index of the queue being allocated
  regSet,        \* the masked bit of RegValue in IoMmuWriteAndWait*
  mode,          \* IoMmuMode of ProgramContextRoot
  rdMode         \* iommu_mode read back at line 239

platformVars == <<caps, hartBE, satp, hwModes>>
hwVars       == <<fctl, ddtp, qbase, qen, qon>>
ctxVars      == <<driverState, queueAllocs, ctxAllocs, ctxExtended, installs>>
threadVars   == <<pc, calls, lastResult, qi, regSet, mode, rdMode>>
vars == <<platformVars, hwVars, ctxVars, threadVars>>

PcValues == {"Idle", "Negotiate", "QProgram", "QEnable", "QWait",
             "CtxProgram", "DdtWait1", "DdtRead", "DdtCompare", "DdtWait2",
             "Install"}

DdtpRecords == [mode: DdtModes, ppn: Ppns, busy: BOOLEAN,
                pmode: DdtModes, pppn: Ppns]

Caps == [version: Versions, sv: SUBSET {"Sv32", "Sv39", "Sv48", "Sv57"},
         end: BOOLEAN, ats: BOOLEAN, msiFlat: BOOLEAN]

-----------------------------------------------------------------------------
(* Helpers translated from the code.                                       *)

(* The queues InitialiseRiscVIoMmu allocates, in order: the page-request *)
(* queue only when the IOMMU supports ATS.                               *)
QueuesToProgram ==
  IF caps.ats THEN <<"CQ", "FQ", "PQ">> ELSE <<"CQ", "FQ">>

(* DeviceIdSupportedWidth of ProgramContextRoot. *)
DeviceIdSupportedWidth == 16

(* The IOMMU mode ProgramContextRoot chooses for a device_id width.  The *)
(* per-level widths are N_RISCV_IOMMU_DEVICE_ID_{BASE,EXTENDED}_I{1,2}   *)
(* of the RISC-V IOMMU specification.  With no else branch in the code, *)
(* a width above 24 leaves the initial value, BARE.                      *)
LevelMode(w, ext) ==
  LET oneLevel == IF ext THEN 6 ELSE 7
      twoLevel == IF ext THEN 15 ELSE 16
  IN  CASE w <= oneLevel -> "1LVL"
        [] w <= twoLevel -> "2LVL"
        [] w <= 24       -> "3LVL"
        [] OTHER         -> "Bare"

(* The condition of line 321 under which the satp mode is refused. *)
SatpUnsupported(m, c) ==
  \/ m = "Sv64"
  \/ m \in {"Sv32", "Sv39", "Sv48", "Sv57"} /\ m \notin c.sv

(* A write of the DDTP register: the hardware turns busy and processes it. *)
WriteDdtp(m, p) == ddtp' = [ddtp EXCEPT !.busy = TRUE, !.pmode = m, !.pppn = p]

(* A write of DDTP while it may still be busy with an earlier one: the    *)
(* RISC-V IOMMU specification leaves it to the implementation, which may *)
(* take the new value or drop the write.                                 *)
WriteDdtpAny(m, p) ==
  \/ WriteDdtp(m, p)
  \/ ddtp.busy /\ UNCHANGED ddtp

(* InitialiseRiscVIoMmu returns EFI_UNSUPPORTED, and so does the caller. *)
ReturnUnsupported ==
  /\ pc' = "Idle"
  /\ lastResult' = "Unsupported"

-----------------------------------------------------------------------------
Init ==
  /\ caps \in Caps
  /\ hartBE \in BOOLEAN
  /\ satp \in SatpModes
  /\ hwModes \in DdtModeSets
  \* the IOMMU is in its reset state (IoMmuIsReset holds)
  /\ fctl \in [be: BOOLEAN, gxl: BOOLEAN] /\ ~fctl.gxl
  /\ ddtp = [mode |-> "Off", ppn |-> "Zero", busy |-> FALSE,
             pmode |-> "Off", pppn |-> "Zero"]
  /\ qbase = [q \in Queues |-> FALSE]
  /\ qen = [q \in Queues |-> FALSE]
  /\ qon = [q \in Queues |-> FALSE]
  \* discovery has made the IOMMU available
  /\ driverState = STATE_AVAILABLE
  /\ queueAllocs = [q \in Queues |-> 0]
  /\ ctxAllocs = 0
  /\ ctxExtended = FALSE
  /\ installs = 0
  /\ pc = "Idle"
  /\ calls = 0
  /\ lastResult = "None"
  /\ qi = 1
  /\ regSet = FALSE
  /\ mode = "Bare"
  /\ rdMode = "Off"

-----------------------------------------------------------------------------
(* IoMmuCommonInitialise, lines 379-381: a call once the state has       *)
(* reached STATE_INITIALISED returns EFI_SUCCESS at once.                *)
CallInitialised ==
  /\ pc = "Idle" /\ calls < MaxCalls
  /\ driverState >= STATE_INITIALISED
  /\ calls' = calls + 1
  /\ lastResult' = "Success"
  /\ UNCHANGED <<platformVars, hwVars, ctxVars, pc, qi, regSet, mode, rdMode>>

(* IoMmuCommonInitialise, lines 383-409: the state is set to             *)
(* STATE_INITIALISED before the hardware is touched; the page is marked  *)
(* uncached and InitialiseRiscVIoMmu starts by asserting IoMmuIsReset,   *)
(* which holds on the reset hardware of Init.                            *)
CallStartUnguarded ==
  /\ pc = "Idle" /\ calls < MaxCalls
  /\ calls' = calls + 1
  /\ driverState' = STATE_INITIALISED
  /\ pc' = "Negotiate"
  /\ lastResult' = "None"
  /\ UNCHANGED <<platformVars, hwVars, queueAllocs, ctxAllocs, ctxExtended,
                 installs, qi, regSet, mode, rdMode>>
CallStart ==
  /\ pc = "Idle" /\ calls < MaxCalls
  /\ driverState < STATE_INITIALISED
  /\ calls' = calls + 1
  /\ driverState' = STATE_INITIALISED
  /\ pc' = "Negotiate"
  /\ lastResult' = "None"
  /\ UNCHANGED <<platformVars, hwVars, queueAllocs, ctxAllocs, ctxExtended,
                 installs, qi, regSet, mode, rdMode>>

(* Lines 299-302: a big-endian HART needs the IOMMU to be big-endian    *)
(* already or to be able to switch (capabilities.END).                   *)
EndiannessSupportedNoCheck(c) == TRUE
EndiannessSupported(c) == ~(hartBE /\ ~fctl.be /\ ~c.end)

(* fctl.BE after lines 307-310: set when the HART is big-endian and the  *)
(* IOMMU can switch.                                                     *)
NewBe(c) == fctl.be \/ (hartBE /\ c.end)

(* InitialiseRiscVIoMmu, lines 285-332: version, endianness and paging   *)
(* mode negotiation.  The BE bit is written (line 309) before the satp   *)
(* check, so a refused satp mode leaves it set.                          *)
Negotiate ==
  LET ok == caps.version = V10 /\ EndiannessSupported(caps) IN
  /\ pc = "Negotiate"
  /\ \/ /\ ~ok
        /\ ReturnUnsupported
        /\ UNCHANGED <<fctl, qi>>
     \/ /\ ok
        /\ SatpUnsupported(satp, caps)
        /\ ReturnUnsupported
        /\ fctl' = [fctl EXCEPT !.be = NewBe(caps)]
        /\ UNCHANGED qi
     \/ /\ ok
        /\ ~SatpUnsupported(satp, caps)
        /\ fctl' = [be |-> NewBe(caps), gxl |-> satp = "Sv32"]
        /\ pc' = "QProgram"
        /\ qi' = 1
        /\ UNCHANGED lastResult
  /\ UNCHANGED <<platformVars, ddtp, qbase, qen, qon, ctxVars, calls,
                 regSet, mode, rdMode>>

(* AllocateQueue, lines 147-161: allocate the buffer and program the     *)
(* base register (the head/tail write of line 161 writes the reset value *)
(* 0 and is left out).                                                   *)
QProgram ==
  LET q == QueuesToProgram[qi] IN
  /\ pc = "QProgram"
  /\ queueAllocs' = [queueAllocs EXCEPT ![q] = @ + 1]
  /\ qbase' = [qbase EXCEPT ![q] = TRUE]
  /\ pc' = "QEnable"
  /\ UNCHANGED <<platformVars, fctl, ddtp, qen, qon, driverState, ctxAllocs,
                 ctxExtended, installs, calls, lastResult, qi, regSet, mode,
                 rdMode>>

(* AllocateQueue, lines 166-171, and the write of IoMmuWriteAndWait32:   *)
(* the CSR value is an uninitialised local with only qen set, so the qon *)
(* bit the wait loop tests first is stack garbage.                       *)
QEnable ==
  LET q == QueuesToProgram[qi] IN
  /\ pc = "QEnable"
  /\ qen' = [qen EXCEPT ![q] = TRUE]
  /\ regSet' \in StackGarbage
  /\ pc' = "QWait"
  /\ UNCHANGED <<platformVars, fctl, ddtp, qbase, qon, ctxVars, calls,
                 lastResult, qi, mode, rdMode>>

(* IoMmuWriteAndWait32, lines 67-70: while qon is clear in RegValue,     *)
(* delay and re-read the CSR.                                            *)
QPollNoReread ==
  /\ pc = "QWait" /\ ~regSet
  /\ UNCHANGED <<platformVars, hwVars, ctxVars, pc, calls, lastResult, qi,
                 regSet, mode, rdMode>>
QPoll ==
  LET q == QueuesToProgram[qi] IN
  /\ pc = "QWait" /\ ~regSet
  /\ regSet' = qon[q]
  /\ UNCHANGED <<platformVars, hwVars, ctxVars, pc, calls, lastResult, qi,
                 mode, rdMode>>

(* The loop exits; InitialiseRiscVIoMmu goes on with the next queue, or, *)
(* after the last, with ProgramContextRoot (lines 341-351).              *)
QWaitDoneOffByOne ==
  /\ pc = "QWait" /\ regSet
  /\ \/ qi <= Len(QueuesToProgram) /\ qi' = qi + 1 /\ pc' = "QProgram"
     \/ qi = Len(QueuesToProgram) /\ pc' = "CtxProgram" /\ UNCHANGED qi
  /\ UNCHANGED <<platformVars, hwVars, ctxVars, calls, lastResult, regSet,
                 mode, rdMode>>
QWaitDone ==
  /\ pc = "QWait" /\ regSet
  /\ \/ qi < Len(QueuesToProgram) /\ qi' = qi + 1 /\ pc' = "QProgram"
     \/ qi = Len(QueuesToProgram) /\ pc' = "CtxProgram" /\ UNCHANGED qi
  /\ UNCHANGED <<platformVars, hwVars, ctxVars, calls, lastResult, regSet,
                 mode, rdMode>>

(* ProgramContextRoot, lines 197-237: choose the mode and write it      *)
(* speculatively.  Ddtp is an uninitialised local of which only          *)
(* iommu_mode is set: its PPN and busy bits are stack garbage.           *)
CtxProgram ==
  LET m == LevelMode(DeviceIdSupportedWidth, caps.msiFlat) IN
  /\ pc = "CtxProgram"
  /\ ctxExtended' = caps.msiFlat
  /\ ctxAllocs' = ctxAllocs + 1
  /\ mode' = m
  /\ \E p \in GarbagePpns : WriteDdtp(m, p)
  /\ regSet' \in StackGarbage
  /\ pc' = "DdtWait1"
  /\ UNCHANGED <<platformVars, fctl, qbase, qen, qon, driverState,
                 queueAllocs, installs, calls, lastResult, qi, rdMode>>

(* IoMmuWriteAndWait64, lines 126-129: while busy is set in RegValue,    *)
(* delay and re-read DDTP.                                               *)
DdtPoll(at) ==
  /\ pc = at /\ regSet
  /\ regSet' = ddtp.busy
  /\ UNCHANGED <<platformVars, hwVars, ctxVars, pc, calls, lastResult, qi,
                 mode, rdMode>>

(* The wait loop of IoMmuWriteAndWait64 exits. *)
DdtWaitDone(at, next) ==
  /\ pc = at /\ ~regSet
  /\ pc' = next
  /\ UNCHANGED <<platformVars, hwVars, ctxVars, calls, lastResult, qi,
                 regSet, mode, rdMode>>

(* What a read of iommu_mode returns.  While busy the RISC-V IOMMU       *)
(* specification leaves the fields to the implementation: the mode in    *)
(* effect or the one being written.                                      *)
DdtpReadModes ==
  IF ddtp.busy THEN {ddtp.mode, ddtp.pmode} ELSE {ddtp.mode}

(* Line 239: read DDTP back. *)
DdtRead ==
  /\ pc = "DdtRead"
  /\ rdMode' \in DdtpReadModes
  /\ regSet' = ddtp.busy
  /\ pc' = "DdtCompare"
  /\ UNCHANGED <<platformVars, hwVars, ctxVars, calls, lastResult, qi, mode>>

(* Line 240: the mode read back is the mode written. *)
ModeAccepted(rd, m) == rd = m

(* Lines 240-247: a mode other than the one written means it is not     *)
(* supported; otherwise write the mode with the root's PPN, keeping the  *)
(* busy bit that was read as RegValue's first value.                     *)
DdtCompare ==
  /\ pc = "DdtCompare"
  /\ \/ /\ ~ModeAccepted(rdMode, mode)
        /\ ReturnUnsupported
        /\ UNCHANGED <<ddtp, regSet>>
     \/ /\ ModeAccepted(rdMode, mode)
        /\ WriteDdtpAny(mode, "CtxRoot")
        /\ pc' = "DdtWait2"
        /\ UNCHANGED <<regSet, lastResult>>
  /\ UNCHANGED <<platformVars, fctl, qbase, qen, qon, ctxVars, calls, qi,
                 mode, rdMode>>

(* IoMmuCommonInitialise, lines 416-425: install the IOMMU protocol. *)
Install ==
  /\ pc = "Install"
  /\ installs' = installs + 1
  /\ lastResult' = "Success"
  /\ pc' = "Idle"
  /\ UNCHANGED <<platformVars, hwVars, driverState, queueAllocs, ctxAllocs,
                 ctxExtended, calls, qi, regSet, mode, rdMode>>

-----------------------------------------------------------------------------
(* The hardware.                                                           *)

(* An enabled queue turns on. *)
HwQueueOn(q) ==
  /\ qen[q] /\ ~qon[q]
  /\ qon' = [qon EXCEPT ![q] = TRUE]
  /\ UNCHANGED <<platformVars, fctl, ddtp, qbase, qen, ctxVars, threadVars>>

(* The IOMMU completes a DDTP write: a mode it accepts takes effect with *)
(* the written PPN; any other leaves the register as it was (WARL).  A   *)
(* read before completion may show either mode (DdtpReadModes).          *)
HwDdtpComplete ==
  /\ ddtp.busy
  /\ \/ /\ ddtp.pmode \in hwModes \cup {"Off", "Bare"}
        /\ ddtp' = [ddtp EXCEPT !.mode = ddtp.pmode, !.ppn = ddtp.pppn,
                                !.busy = FALSE]
     \/ /\ ddtp.pmode \notin hwModes \cup {"Off", "Bare"}
        /\ ddtp' = [ddtp EXCEPT !.busy = FALSE]
  /\ UNCHANGED <<platformVars, fctl, qbase, qen, qon, ctxVars, threadVars>>

-----------------------------------------------------------------------------
DriverStep ==
  \/ Negotiate \/ QProgram \/ QEnable \/ QPoll \/ QWaitDone \/ CtxProgram
  \/ DdtPoll("DdtWait1") \/ DdtWaitDone("DdtWait1", "DdtRead")
  \/ DdtRead \/ DdtCompare
  \/ DdtPoll("DdtWait2") \/ DdtWaitDone("DdtWait2", "Install")
  \/ Install

HwStep == HwDdtpComplete \/ \E q \in Queues : HwQueueOn(q)

Next == CallInitialised \/ CallStart \/ DriverStep \/ HwStep

(* The driver thread is never descheduled for good once it runs; the     *)
(* hardware is assumed to respond (the code has no timeout).             *)
Fairness ==
  /\ WF_vars(DriverStep)
  /\ WF_vars(HwDdtpComplete)
  /\ \A q \in Queues : WF_vars(HwQueueOn(q))

Spec == Init /\ [][Next]_vars /\ Fairness

-----------------------------------------------------------------------------
TypeOK ==
  /\ caps \in Caps
  /\ hartBE \in BOOLEAN
  /\ satp \in SatpModes
  /\ hwModes \in DdtModeSets
  /\ fctl \in [be: BOOLEAN, gxl: BOOLEAN]
  /\ ddtp \in DdtpRecords
  /\ qbase \in [Queues -> BOOLEAN]
  /\ qen \in [Queues -> BOOLEAN]
  /\ qon \in [Queues -> BOOLEAN]
  /\ driverState \in {STATE_AVAILABLE, STATE_INITIALISED}
  /\ queueAllocs \in [Queues -> Nat]
  /\ ctxAllocs \in Nat
  /\ ctxExtended \in BOOLEAN
  /\ installs \in Nat
  /\ pc \in PcValues
  /\ calls \in 0..MaxCalls
  /\ lastResult \in {"None", "Success", "Unsupported"}
  /\ qi \in 1..Len(QueuesToProgram)
  /\ regSet \in BOOLEAN
  /\ mode \in DdtModes
  /\ rdMode \in DdtModes

-----------------------------------------------------------------------------
(* Properties.                                                             *)

(* Idempotence (IoMmuCommonInitialise): however often it is called, each *)
(* queue buffer and the context root are allocated and programmed at     *)
(* most once, and the protocol is installed at most once.                *)
ProgrammedOnce ==
  /\ \A q \in Queues : queueAllocs[q] <= 1
  /\ ctxAllocs <= 1
  /\ installs <= 1

(* Once the protocol is installed, the hardware is configured as         *)
(* InitialiseRiscVIoMmu negotiated it: a supported version, the IOMMU's  *)
(* endianness matching the HART's, a satp mode the IOMMU supports with   *)
(* GXL set for Sv32 only, and exactly the queues it should have enabled  *)
(* (the page-request queue only with ATS).                               *)
InstalledConfiguration ==
  installs > 0 =>
    /\ caps.version = V10
    /\ hartBE => fctl.be
    /\ ~SatpUnsupported(satp, caps)
    /\ fctl.gxl = (satp = "Sv32")
    /\ \A q \in Queues :
         qen[q] = (\E i \in 1..Len(QueuesToProgram) : QueuesToProgram[i] = q)

(* The position of each queue in the list InitialiseRiscVIoMmu walks. *)
QueueIndex == [q \in Queues |-> CASE q = "CQ" -> 1 [] q = "FQ" -> 2 [] OTHER -> 3]

QueuePhase   == {"QProgram", "QEnable", "QWait"}
ContextPhase == {"CtxProgram", "DdtWait1", "DdtRead", "DdtCompare", "DdtWait2",
                 "Install"}

(* What has been allocated follows from how far the one run of           *)
(* InitialiseRiscVIoMmu has got: nothing before IoMmuCommonInitialise     *)
(* first moves the state to STATE_INITIALISED, exactly the queues before  *)
(* the current one (and the current one once AllocateQueue has allocated *)
(* it) during the queue loop, one context root after ProgramContextRoot   *)
(* allocates it, one installation after the call returns EFI_SUCCESS.     *)
AllocationsFollowProgress ==
  /\ driverState = STATE_AVAILABLE => pc = "Idle"
  /\ pc # "Idle" => driverState = STATE_INITIALISED
  /\ (driverState = STATE_AVAILABLE \/ pc = "Negotiate") =>
        /\ qi = 1 /\ queueAllocs = [q \in Queues |-> 0]
        /\ ctxAllocs = 0 /\ installs = 0
  /\ pc \in QueuePhase =>
        /\ ctxAllocs = 0 /\ installs = 0
        /\ \A q \in Queues :
             queueAllocs[q] =
               IF \/ QueueIndex[q] < qi
                  \/ QueueIndex[q] = qi /\ pc # "QProgram" THEN 1 ELSE 0
  /\ pc \in ContextPhase =>
        /\ installs = 0
        /\ ctxAllocs = IF pc = "CtxProgram" THEN 0 ELSE 1
        /\ \A q \in Queues : queueAllocs[q] <= 1
  /\ ProgrammedOnce

(* Every call of IoMmuCommonInitialise returns: each register the driver *)
(* polls eventually shows the awaited value.                             *)
InitCallReturns == (pc # "Idle") ~> (pc = "Idle")

(* The hardware never translates through a root other than the zeroed   *)
(* context table ProgramContextRoot allocated.                           *)
DdtpRootValid ==
  ddtp.mode \in LevelModes => ddtp.ppn = "CtxRoot"

(* Each IoMmuWriteAndWait64 of ProgramContextRoot returns only once     *)
(* DDTP's busy bit has cleared: both calls pass the busy mask with        *)
(* Set = FALSE, and section 4.3 of the spec says to wait for busy to     *)
(* clear.  Otherwise the read-back at line 239 and the root write at     *)
(* line 247 meet a busy register, and the driver returns with the root   *)
(* not yet (or never) in effect.                                         *)
DdtpWaitReturnsIdle ==
  [][(pc \in {"DdtWait1", "DdtWait2"} /\ pc' # pc) => ~ddtp.busy]_vars

(* A call of IoMmuCommonInitialise returns EFI_SUCCESS only when the     *)
(* IOMMU protocol has been installed.                                    *)
SuccessOnlyIfInstalled ==
  lastResult = "Success" => installs > 0

(* Once the protocol is installed, RiscVGetIoMmuMemoryTop has a top to   *)
(* return: GXL is set or the HART runs Sv39, Sv48 or Sv57.               *)
InstalledMemoryTopDefined ==
  installs > 0 => (fctl.gxl \/ satp \in {"Sv39", "Sv48", "Sv57"})


-----------------------------------------------------------------------------
(* The refinement mapping to the service IoMmuCommonInitialise offers    *)
(* (IoMmuInitService): a call is busy while the thread is away from its  *)
(* idle point, a bring-up has started once DriverState is                *)
(* STATE_INITIALISED, and the protocol is installed once Install ran.    *)
Service == INSTANCE IoMmuInitService
             WITH busy <- pc # "Idle",
                  started <- driverState = STATE_INITIALISED,
                  installed <- installs > 0,
                  result <- lastResult

(* IoMmuCommonInitialise with InitialiseRiscVIoMmu is an idempotent      *)
(* bring-up: a call after the first returns at once, the first runs the  *)
(* one bring-up there is, and only that run installs the protocol, once. *)
ImplementsService == Service!SSpec

=============================================================================
