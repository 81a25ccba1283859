---------------------------- MODULE IoMmuDiscovery ----------------------------
(***************************************************************************)
(* Discovery of the RISC-V IOMMU and the entry point of the DXE driver     *)
(* (IoMmuDetection.c, RiscVIoMmuDxeEntryPoint): the device-tree search,   *)
(* the ACPI RIMT walk, the PciEnumerationComplete notification and the    *)
(* call of IoMmuCommonInitialise that each of them may lead to.           *)
(*                                                                         *)
(* The platform (which firmware tables exist and what they describe, and  *)
(* whether an IOMMU-class PCI function exists) is fixed in the initial    *)
(* state.  IoMmuCommonInitialise is one step here: its guard and its      *)
(* move to STATE_INITIALISED (lines 379-383) are kept, the hardware        *)
(* bring-up it then runs is the subject of IoMmuInit.                      *)
(***************************************************************************)
EXTENDS Naturals, Sequences

CONSTANTS
  RimtTables     \* the node arrays an ACPI RIMT may hold, in table order

(* The RIMT node types of RiscVIoMappingTable.h (an enum from 0) and the *)
(* flags of an IOMMU node.                                               *)
RISCV_IOMMU_NODE_TYPE       == 0
PCIE_ROOT_COMPLEX_NODE_TYPE == 1
PLATFORM_DEVICE_NODE_TYPE   == 2
IOMMU_NODE_FLAG_PCIE_DEVICE            == "PcieDevice"
IOMMU_NODE_FLAG_PROXIMITY_DOMAIN_VALID == "ProximityDomainValid"

(* A node as the walk reads it: RIMT_NODE_HEADER's Type and, for an IOMMU *)
(* node, RIMT_IOMMU_NODE's Flags (a set of flag bits).  BaseAddress and   *)
(* PcieBdf are the addresses Addr(_, "Rimt", i) stands for.  Each node's *)
(* Length leads to the next, so the header's NumberOfNodes is the length *)
(* of the array.                                                          *)
RimtNodes ==
  [Type: {RISCV_IOMMU_NODE_TYPE, PCIE_ROOT_COMPLEX_NODE_TYPE,
          PLATFORM_DEVICE_NODE_TYPE},
   Flags: SUBSET {IOMMU_NODE_FLAG_PCIE_DEVICE,
                  IOMMU_NODE_FLAG_PROXIMITY_DOMAIN_VALID}]

ASSUME DiscoveryAssumption == RimtTables \subseteq Seq(RimtNodes)

(* The enum of RiscVIoMmu.h. *)
STATE_INIT        == 0
STATE_DETECTED    == 1
STATE_AVAILABLE   == 2
STATE_INITIALISED == 3

(* mRiscVIoMmuGlobalDriverContext.Address: what it holds and where it    *)
(* came from: the device tree, the PCI BAR, or RIMT node number node.   *)
Addr(kind, from, node) == [kind |-> kind, from |-> from, node |-> node]
NoAddress == Addr("None", "None", 0)

VARIABLES
  \* platform, fixed in the initial state
  hasDt,        \* gEdkiiPlatformHasDeviceTreeGuid is installed
  dtNode,       \* the first compatible node: "riscv,iommu", "riscv,pci-iommu" or none
  hasAcpi,      \* gEdkiiPlatformHasAcpiGuid is installed
  hasRimt,      \* EfiLocateFirstAcpiTable finds a RIMT
  rimt,         \* the RIMT's node kinds, in table order
  pciIommu,     \* the PCI bus has a function of the IOMMU class
  \* global driver context
  driverState, isPci, address,
  \* the notification event of PciEnumerationComplete
  evt,          \* "None", "Open" or "Closed"
  signalled,    \* the event is signalled and its notify function pending
  enumDone,     \* gEfiPciEnumerationCompleteProtocolGuid is installed
  \* the entry point's thread
  pc, idx,
  \* history: the runs of InitialiseRiscVIoMmu and the address each used
  initAddrs

vars == <<hasDt, dtNode, hasAcpi, hasRimt, rimt, pciIommu, driverState, isPci,
          address, evt, signalled, enumDone, pc, idx, initAddrs>>
platform == <<hasDt, dtNode, hasAcpi, hasRimt, rimt, pciIommu>>

-----------------------------------------------------------------------------
(* IoMmuCommonInitialise called with the context's state st and address  *)
(* a: a no-op once the state is STATE_INITIALISED, otherwise the state is *)
(* set and the bring-up runs on a.                                       *)
CommonInitialise(st, a) ==
  IF st >= STATE_INITIALISED
    THEN driverState' = st /\ UNCHANGED initAddrs
    ELSE driverState' = STATE_INITIALISED /\ initAddrs' = Append(initAddrs, a)

(* A provider records an IOMMU in the global context. *)
Adopt(st, pci, a) == driverState' = st /\ isPci' = pci /\ address' = a

Init ==
  /\ hasDt \in BOOLEAN /\ dtNode \in {"System", "Pci", "None"}
  /\ hasAcpi \in BOOLEAN /\ hasRimt \in BOOLEAN /\ rimt \in RimtTables
  /\ pciIommu \in BOOLEAN
  /\ driverState = STATE_INIT /\ isPci = FALSE /\ address = NoAddress
  /\ evt = "None" /\ signalled = FALSE
  /\ enumDone \in BOOLEAN
  /\ pc = "Start" /\ idx = 1
  /\ initAddrs = <<>>

(* DetectRiscVIoMmus, lines 241-243: the device tree is searched when   *)
(* the platform has one.                                                 *)
DetectStart ==
  /\ pc = "Start"
  /\ pc' = IF hasDt THEN "Dt" ELSE "Acpi"
  /\ UNCHANGED <<platform, driverState, isPci, address, evt, signalled,
                 enumDone, idx, initAddrs>>

(* IoMmuDeviceTreeDiscovery, lines 131-176.  A PCI IOMMU node only gives *)
(* the BDF; the notify event it creates is signalled at once, and its    *)
(* function runs before EfiCreateProtocolNotifyEvent returns.            *)
DtDiscovery ==
  /\ pc = "Dt"
  /\ \/ /\ dtNode = "System"
        /\ Adopt(STATE_AVAILABLE, FALSE, Addr("Mmio", "Dt", 0))
        /\ pc' = "Entry"
        /\ UNCHANGED <<evt, signalled>>
     \/ /\ dtNode = "Pci"
        /\ Adopt(STATE_DETECTED, TRUE, Addr("Bdf", "Dt", 0))
        /\ evt' = "Open" /\ signalled' = TRUE
        /\ pc' = "DtNotify"
     \/ /\ dtNode = "None"
        /\ pc' = "Acpi"
        /\ UNCHANGED <<driverState, isPci, address, evt, signalled>>
  /\ UNCHANGED <<platform, enumDone, idx, initAddrs>>

(* OnPciEnumerationComplete, lines 55-99: before enumeration it returns   *)
(* and stays registered; after it, it adopts the first IOMMU-class        *)
(* function's BAR, initialises, and closes the event, found or not.       *)
OnPciEnumerationComplete ==
  /\ evt = "Open" /\ signalled
  /\ signalled' = FALSE
  /\ \/ /\ ~enumDone
        /\ UNCHANGED <<driverState, isPci, address, evt, initAddrs>>
     \/ /\ enumDone /\ pciIommu
        /\ address' = Addr("Mmio", "Bar", 0)
        /\ CommonInitialise(STATE_AVAILABLE, Addr("Mmio", "Bar", 0))
        /\ evt' = "Closed"
        /\ UNCHANGED isPci
     \/ /\ enumDone /\ ~pciIommu
        /\ evt' = "Closed"
        /\ UNCHANGED <<driverState, isPci, address, initAddrs>>
  /\ pc' = IF pc = "DtNotify" THEN "Entry" ELSE pc
  /\ UNCHANGED <<platform, enumDone, idx>>

(* DetectRiscVIoMmus, lines 252-258, and IoMmuAcpiRimtDiscovery, lines  *)
(* 197-202: the RIMT walk starts when the platform has ACPI and a RIMT.  *)
AcpiStart ==
  /\ pc = "Acpi"
  /\ pc' = IF hasAcpi /\ hasRimt THEN "Rimt" ELSE "Entry"
  /\ idx' = 1
  /\ UNCHANGED <<platform, driverState, isPci, address, evt, signalled,
                 enumDone, initAddrs>>

(* EFI_ACPI_RIMT_HEADER.NumberOfNodes, the bound of the walk. *)
NumberOfNodes(t) == Len(t)

(* RimtIoMmuNode->Flags & IOMMU_NODE_FLAG_PCIE_DEVICE. *)
IsPcieDevice(n) == IOMMU_NODE_FLAG_PCIE_DEVICE \in n.Flags

(* Line 216: the walk moves to the next node header.  NextNodeTwice      *)
(* advances two nodes per iteration (a Length added on top of a stride).  *)
NextNodeTwice(i) == i + 2
NextNode(i) == i + 1

(* Lines 203-217: one node of the walk; every IOMMU node overwrites the  *)
(* context, a PCIe one with its BDF.                                     *)
RimtNode ==
  LET n == rimt[idx] IN
  /\ pc = "Rimt" /\ idx <= NumberOfNodes(rimt)
  /\ \/ /\ n.Type = RISCV_IOMMU_NODE_TYPE /\ IsPcieDevice(n)
        /\ Adopt(STATE_DETECTED, TRUE, Addr("Bdf", "Rimt", idx))
     \/ /\ n.Type = RISCV_IOMMU_NODE_TYPE /\ ~IsPcieDevice(n)
        /\ Adopt(STATE_AVAILABLE, FALSE, Addr("Mmio", "Rimt", idx))
     \/ /\ n.Type # RISCV_IOMMU_NODE_TYPE
        /\ UNCHANGED <<driverState, isPci, address>>
  /\ idx' = NextNode(idx)
  /\ UNCHANGED <<platform, evt, signalled, enumDone, pc, initAddrs>>

(* Lines 218-220: the walk ends and returns EFI_NOT_FOUND, which        *)
(* DetectRiscVIoMmus ignores.                                            *)
RimtDone ==
  /\ pc = "Rimt" /\ idx > NumberOfNodes(rimt)
  /\ pc' = "Entry"
  /\ UNCHANGED <<platform, driverState, isPci, address, evt, signalled,
                 enumDone, idx, initAddrs>>

(* RiscVIoMmuDxeEntryPoint, lines 447-452: initialise once discovery    *)
(* has made an IOMMU available.                                          *)
EntryAvailableDetected(st) == st >= STATE_DETECTED
EntryAvailable(st) == st >= STATE_AVAILABLE

EntryPoint ==
  /\ pc = "Entry"
  /\ IF EntryAvailable(driverState)
       THEN CommonInitialise(driverState, address)
       ELSE UNCHANGED <<driverState, initAddrs>>
  /\ pc' = "Done"
  /\ UNCHANGED <<platform, isPci, address, evt, signalled, enumDone, idx>>

(* Whether installing the protocol signals the event: only an open event *)
(* has a notify function left to queue.  NotifiesNever models a notify  *)
(* registered on the wrong GUID.                                         *)
NotifiesNever(e) == FALSE
Notifies(e) == e = "Open"

(* The PCI bus driver installs gEfiPciEnumerationCompleteProtocolGuid    *)
(* after the entry point has returned, which signals the notify event.   *)
EnumComplete ==
  /\ pc = "Done" /\ ~enumDone
  /\ enumDone' = TRUE
  /\ signalled' = Notifies(evt)
  /\ UNCHANGED <<platform, driverState, isPci, address, evt, pc, idx,
                 initAddrs>>

Next ==
  \/ DetectStart \/ DtDiscovery \/ AcpiStart \/ RimtNode \/ RimtDone
  \/ EntryPoint \/ OnPciEnumerationComplete \/ EnumComplete

(* The entry point runs to completion, a signalled notify function is    *)
(* dispatched, and PCI enumeration completes on a booting platform.      *)
Spec == Init /\ [][Next]_vars /\ WF_vars(Next)

-----------------------------------------------------------------------------
Addresses ==
  {NoAddress} \cup {Addr(k, f, 0) : k \in {"Mmio", "Bdf"}, f \in {"Dt", "Bar"}}
    \cup {Addr(k, "Rimt", i) : k \in {"Mmio", "Bdf"}, i \in 1 .. Len(rimt)}

TypeOK ==
  /\ hasDt \in BOOLEAN /\ dtNode \in {"System", "Pci", "None"}
  /\ hasAcpi \in BOOLEAN /\ hasRimt \in BOOLEAN /\ rimt \in RimtTables
  /\ pciIommu \in BOOLEAN
  /\ driverState \in STATE_INIT .. STATE_INITIALISED
  /\ isPci \in BOOLEAN
  /\ address \in Addresses
  /\ evt \in {"None", "Open", "Closed"} /\ signalled \in BOOLEAN
  /\ enumDone \in BOOLEAN
  /\ pc \in {"Start", "Dt", "DtNotify", "Acpi", "Rimt", "Entry", "Done"}
  /\ idx \in 1 .. Len(rimt) + 1
  /\ initAddrs \in Seq(Addresses)

(* IoMmuCommonInitialise brings up the IOMMU at most once, and always on *)
(* a register window (a device-tree reg, a RIMT base address or a PCI   *)
(* BAR), never on the BDF a PCI provider recorded: the entry point and   *)
(* the enumeration callback, which both call it, see the context only    *)
(* after a provider made it STATE_AVAILABLE with an MMIO address.         *)
InitUsesMmioAddress ==
  /\ Len(initAddrs) <= 1
  /\ \A i \in 1 .. Len(initAddrs) : initAddrs[i].kind = "Mmio"

(* Why IoMmuCommonInitialise runs at most once and on a window: it has   *)
(* run exactly when the state is STATE_INITIALISED; the state is          *)
(* STATE_AVAILABLE only with an MMIO address recorded; the notify event  *)
(* is open only while a device-tree PCI IOMMU waits at STATE_DETECTED,   *)
(* so the callback, which sets STATE_AVAILABLE itself before calling,    *)
(* never finds a bring-up done; and before the entry point no provider   *)
(* has initialised or opened the event.  Several providers, the callback *)
(* and the entry point must agree for this to hold.                      *)
InitRanOnState == Len(initAddrs) = IF driverState = STATE_INITIALISED THEN 1 ELSE 0
InitOnWindows == \A i \in 1 .. Len(initAddrs) : initAddrs[i].kind = "Mmio"
AvailableIsMmio == driverState = STATE_AVAILABLE => address.kind = "Mmio"
OpenWhileDetected == evt = "Open" => driverState = STATE_DETECTED
EarlyPhase == pc \in {"Start", "Dt", "Acpi", "Rimt"} =>
                driverState < STATE_INITIALISED /\ evt = "None"
DiscoveryInvRest ==
  InitRanOnState /\ InitOnWindows /\ AvailableIsMmio /\ OpenWhileDetected
    /\ EarlyPhase
DiscoveryInv == TypeOK /\ DiscoveryInvRest

(* An IOMMU the device tree describes, as a platform device or as a PCI *)
(* function that enumeration finds, is eventually initialised.           *)
DeviceTreeIommuInitialised ==
  (hasDt /\ (dtNode = "System" \/ (dtNode = "Pci" /\ pciIommu)))
    => <>(driverState = STATE_INITIALISED)

(* The discovery state only moves forward (spec, Global Driver State:    *)
(* "monotonically increases; never regresses").                          *)
DriverStateMonotonic == [][driverState' >= driverState]_vars

(* An IOMMU that a provider reports as a PCI function present on the bus *)
(* is initialised once PCI enumeration completes.                         *)
PciIommuInitialised ==
  (isPci /\ pciIommu) ~> (driverState = STATE_INITIALISED)

=============================================================================
