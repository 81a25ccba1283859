------------------------- MODULE IoMmuDiscoveryProofs -------------------------
(***************************************************************************)
(* Proofs about discovery and the entry point (IoMmuDiscovery), for every *)
(* set of RIMT tables allowed by DiscoveryAssumption.                     *)
(***************************************************************************)
EXTENDS IoMmuDiscovery, TLAPS

USE DiscoveryAssumption

(* The addresses a provider records are addresses of the model. *)
LEMMA NoAddressKnown == NoAddress \in Addresses
  BY DEF Addresses

LEMMA FixedAddressesKnown ==
  /\ Addr("Mmio", "Dt", 0) \in Addresses
  /\ Addr("Bdf", "Dt", 0) \in Addresses
  /\ Addr("Mmio", "Bar", 0) \in Addresses
  BY DEF Addresses

LEMMA AddressesKnown ==
  ASSUME NEW i \in 1 .. Len(rimt)
  PROVE  /\ Addr("Mmio", "Rimt", i) \in Addresses
         /\ Addr("Bdf", "Rimt", i) \in Addresses
  BY DEF Addresses

(* IoMmuCommonInitialise, as a step, keeps the history a sequence of     *)
(* addresses and the state in range.                                     *)
LEMMA CommonInitialiseType ==
  ASSUME NEW st \in STATE_INIT .. STATE_INITIALISED, NEW a \in Addresses,
         initAddrs \in Seq(Addresses), UNCHANGED rimt,
         CommonInitialise(st, a)
  PROVE  /\ driverState' \in STATE_INIT .. STATE_INITIALISED
         /\ initAddrs' \in Seq(Addresses)'
  BY DEF CommonInitialise, Addresses, STATE_INIT, STATE_INITIALISED

-----------------------------------------------------------------------------
(* Type correctness of discovery: in particular the RIMT walk's index    *)
(* stays within one past the last node, and every address the context    *)
(* or the bring-up history holds is one a provider can record.           *)
THEOREM DiscoveryTypeCorrect == Spec => []TypeOK
<1>1. Init => TypeOK
  <2> SUFFICES ASSUME Init PROVE TypeOK
    OBVIOUS
  <2>1. rimt \in Seq(RimtNodes)
    BY DEF Init
  <2>2. idx \in 1 .. Len(rimt) + 1 /\ initAddrs \in Seq(Addresses)
    BY <2>1 DEF Init
  <2>3. address \in Addresses
    BY NoAddressKnown DEF Init
  <2>4. driverState \in STATE_INIT .. STATE_INITIALISED
    BY DEF Init, STATE_INIT, STATE_INITIALISED
  <2>. QED
    BY <2>2, <2>3, <2>4 DEF Init, TypeOK
<1>2. TypeOK /\ [Next]_vars => TypeOK'
  <2> SUFFICES ASSUME TypeOK, [Next]_vars PROVE TypeOK'
    OBVIOUS
  <2>. USE DEF TypeOK, platform, STATE_INIT, STATE_DETECTED, STATE_AVAILABLE,
              STATE_INITIALISED
  <2>r. rimt \in Seq(RimtNodes)
    OBVIOUS
  (* The platform, and with it the set of addresses, never changes. *)
  <2>p. Addresses' = Addresses
    <3>1. rimt' = rimt
      BY DEF Next, vars, DetectStart, DtDiscovery, OnPciEnumerationComplete,
             AcpiStart, RimtNode, RimtDone, EntryPoint, EnumComplete
    <3>. QED
      BY <3>1 DEF Addresses
  <2>1. CASE DetectStart
    BY <2>1, <2>p DEF DetectStart
  <2>2. CASE DtDiscovery
    <3>1. address' \in Addresses
      BY <2>2, FixedAddressesKnown DEF DtDiscovery, Adopt
    <3>2. driverState' \in {driverState, STATE_AVAILABLE, STATE_DETECTED}
          /\ isPci' \in BOOLEAN
      BY <2>2 DEF DtDiscovery, Adopt
    <3>3. evt' \in {"None", "Open", "Closed"} /\ signalled' \in BOOLEAN
          /\ pc' \in {"Start", "Dt", "DtNotify", "Acpi", "Rimt", "Entry", "Done"}
      BY <2>2 DEF DtDiscovery
    <3>. QED
      BY <2>2, <2>p, <3>1, <3>2, <3>3 DEF DtDiscovery
  <2>3. CASE OnPciEnumerationComplete
    <3>1. CASE enumDone /\ pciIommu /\ evt' = "Closed"
      <4>1. /\ driverState' \in STATE_INIT .. STATE_INITIALISED
            /\ initAddrs' \in Seq(Addresses)'
        BY <2>3, <3>1, <2>p, FixedAddressesKnown, CommonInitialiseType
        DEF OnPciEnumerationComplete
      <4>. QED
        BY <2>3, <3>1, <2>p, <4>1, FixedAddressesKnown DEF OnPciEnumerationComplete
    <3>2. CASE ~(enumDone /\ pciIommu /\ evt' = "Closed")
      BY <2>3, <2>p, <3>2 DEF OnPciEnumerationComplete
    <3>. QED
      BY <3>1, <3>2
  <2>4. CASE AcpiStart
    BY <2>4, <2>p DEF AcpiStart
  <2>5. CASE RimtNode
    <3>1. idx \in 1 .. Len(rimt)
      BY <2>5 DEF RimtNode, NumberOfNodes
    <3>2. /\ Addr("Mmio", "Rimt", idx) \in Addresses
          /\ Addr("Bdf", "Rimt", idx) \in Addresses
      BY <3>1, AddressesKnown
    <3>3. idx' \in 1 .. Len(rimt) + 1
      BY <2>5, <3>1, <2>r DEF RimtNode, NextNode
    <3>4. address' \in Addresses
      BY <2>5, <3>2 DEF RimtNode, Adopt
    <3>5. driverState' \in {driverState, STATE_AVAILABLE, STATE_DETECTED}
          /\ isPci' \in BOOLEAN
      BY <2>5 DEF RimtNode, Adopt
    <3>. QED
      BY <2>5, <2>p, <3>3, <3>4, <3>5 DEF RimtNode
  <2>6. CASE RimtDone
    BY <2>6, <2>p DEF RimtDone
  <2>7. CASE EntryPoint
    <3>1. CASE EntryAvailable(driverState)
      <4>1. /\ driverState' \in STATE_INIT .. STATE_INITIALISED
            /\ initAddrs' \in Seq(Addresses)'
        BY <2>7, <2>p, <3>1, CommonInitialiseType DEF EntryPoint
      <4>. QED
        BY <2>7, <2>p, <3>1, <4>1 DEF EntryPoint
    <3>2. CASE ~EntryAvailable(driverState)
      BY <2>7, <2>p, <3>2 DEF EntryPoint
    <3>. QED
      BY <3>1, <3>2
  <2>8. CASE EnumComplete
    BY <2>8, <2>p DEF EnumComplete, Notifies
  <2>9. CASE UNCHANGED vars
    BY <2>9, <2>p DEF vars
  <2>. QED
    BY <2>1, <2>p, <2>2, <2>3, <2>4, <2>5, <2>6, <2>7, <2>8, <2>9 DEF Next
<1>. QED
  BY <1>1, <1>2, PTL DEF Spec


-----------------------------------------------------------------------------
(* Appending one window to an empty history keeps the history of        *)
(* windows, of length one.                                              *)
LEMMA AppendWindow ==
  ASSUME NEW a, a.kind = "Mmio", NEW h \in Seq(Addresses), Len(h) = 0
  PROVE  /\ Len(Append(h, a)) = 1
         /\ \A i \in 1 .. Len(Append(h, a)) : Append(h, a)[i].kind = "Mmio"
  BY DEF Addresses

(* DiscoveryInv holds in every state: the bring-up ran exactly when the  *)
(* state says so and only on MMIO windows, STATE_AVAILABLE always comes   *)
(* with an MMIO address, the enumeration callback is registered only     *)
(* while a PCI IOMMU waits in STATE_DETECTED, and nothing happens before *)
(* discovery.  DiscoveryInvRest is inductive given the types that        *)
(* DiscoveryTypeCorrect supplies in the state and its successor.          *)
THEOREM DiscoveryInvHolds == Spec => []DiscoveryInv
<1>1. Init => DiscoveryInvRest
  BY DEF Init, DiscoveryInvRest, InitRanOnState, InitOnWindows, AvailableIsMmio,
         OpenWhileDetected, EarlyPhase, STATE_INIT, STATE_DETECTED,
         STATE_AVAILABLE, STATE_INITIALISED
<1>2. TypeOK /\ TypeOK' /\ DiscoveryInvRest /\ [Next]_vars => DiscoveryInvRest'
  <2> SUFFICES ASSUME TypeOK, TypeOK', DiscoveryInvRest, [Next]_vars PROVE DiscoveryInvRest'
    OBVIOUS
  <2>. USE DEF DiscoveryInvRest, TypeOK, STATE_INIT, STATE_DETECTED, STATE_AVAILABLE,
              STATE_INITIALISED
  <2>1. CASE DetectStart
    BY <2>1 DEF DetectStart, InitRanOnState, InitOnWindows, AvailableIsMmio,
              OpenWhileDetected, EarlyPhase
  <2>2. CASE DtDiscovery
    <3>1. driverState < STATE_INITIALISED /\ evt = "None" /\ Len(initAddrs) = 0
      BY <2>2 DEF DtDiscovery, EarlyPhase, InitRanOnState
    <3>2. CASE dtNode = "System"
      BY <2>2, <3>1, <3>2 DEF DtDiscovery, Adopt, Addr, InitRanOnState,
         InitOnWindows, AvailableIsMmio, OpenWhileDetected, EarlyPhase
    <3>3. CASE dtNode = "Pci"
      BY <2>2, <3>1, <3>3 DEF DtDiscovery, Adopt, InitRanOnState,
         InitOnWindows, AvailableIsMmio, OpenWhileDetected, EarlyPhase
    <3>4. CASE dtNode = "None"
      BY <2>2, <3>1, <3>4 DEF DtDiscovery, InitRanOnState,
         InitOnWindows, AvailableIsMmio, OpenWhileDetected, EarlyPhase
    <3>. QED
      BY <3>2, <3>3, <3>4
  <2>3. CASE OnPciEnumerationComplete
    <3>1. driverState = STATE_DETECTED /\ Len(initAddrs) = 0
          /\ pc \notin {"Start", "Dt", "Acpi", "Rimt"}
      BY <2>3 DEF OnPciEnumerationComplete, OpenWhileDetected, InitRanOnState,
                  EarlyPhase
    <3>2. CASE enumDone /\ pciIommu
      <4>1. /\ driverState' = STATE_INITIALISED
            /\ initAddrs' = Append(initAddrs, Addr("Mmio", "Bar", 0))
            /\ evt' = "Closed"
        BY <2>3, <3>2 DEF OnPciEnumerationComplete, CommonInitialise
      <4>2. /\ Len(initAddrs') = 1
            /\ \A i \in 1 .. Len(initAddrs') : initAddrs'[i].kind = "Mmio"
        BY <3>1, <4>1, AppendWindow DEF Addr
      <4>3. pc' \notin {"Start", "Dt", "Acpi", "Rimt"}
        BY <2>3, <3>1 DEF OnPciEnumerationComplete
      <4>. QED
        BY <4>1, <4>2, <4>3 DEF InitRanOnState, InitOnWindows, AvailableIsMmio,
           OpenWhileDetected, EarlyPhase
    <3>3. CASE ~(enumDone /\ pciIommu)
      <4>1. UNCHANGED <<driverState, address, initAddrs>>
        BY <2>3, <3>3 DEF OnPciEnumerationComplete
      <4>2. pc' \notin {"Start", "Dt", "Acpi", "Rimt"}
        BY <2>3, <3>1 DEF OnPciEnumerationComplete
      <4>. QED
        BY <3>1, <4>1, <4>2 DEF InitRanOnState, InitOnWindows,
           AvailableIsMmio, OpenWhileDetected, EarlyPhase
    <3>. QED
      BY <3>2, <3>3
  <2>4. CASE AcpiStart
    BY <2>4 DEF AcpiStart, InitRanOnState, InitOnWindows, AvailableIsMmio,
              OpenWhileDetected, EarlyPhase
  <2>5. CASE RimtNode
    <3>1. driverState < STATE_INITIALISED /\ evt = "None" /\ Len(initAddrs) = 0
      BY <2>5 DEF RimtNode, EarlyPhase, InitRanOnState
    <3>2. CASE rimt[idx].Type = RISCV_IOMMU_NODE_TYPE /\ ~IsPcieDevice(rimt[idx])
      BY <2>5, <3>1, <3>2 DEF RimtNode, Adopt, Addr, InitRanOnState,
         InitOnWindows, AvailableIsMmio, OpenWhileDetected, EarlyPhase
    <3>3. CASE rimt[idx].Type = RISCV_IOMMU_NODE_TYPE /\ IsPcieDevice(rimt[idx])
      BY <2>5, <3>1, <3>3 DEF RimtNode, Adopt, InitRanOnState,
         InitOnWindows, AvailableIsMmio, OpenWhileDetected, EarlyPhase
    <3>4. CASE rimt[idx].Type # RISCV_IOMMU_NODE_TYPE
      BY <2>5, <3>1, <3>4 DEF RimtNode, InitRanOnState,
         InitOnWindows, AvailableIsMmio, OpenWhileDetected, EarlyPhase
    <3>. QED
      BY <3>2, <3>3, <3>4
  <2>6. CASE RimtDone
    BY <2>6 DEF RimtDone, InitRanOnState, InitOnWindows, AvailableIsMmio,
              OpenWhileDetected, EarlyPhase
  <2>7. CASE EntryPoint
    <3>1. CASE driverState = STATE_AVAILABLE
      <4>1. /\ driverState' = STATE_INITIALISED
            /\ initAddrs' = Append(initAddrs, address)
            /\ UNCHANGED <<address, evt>> /\ pc' = "Done"
        BY <2>7, <3>1 DEF EntryPoint, EntryAvailable, CommonInitialise
      <4>2. address.kind = "Mmio" /\ Len(initAddrs) = 0
        BY <3>1 DEF AvailableIsMmio, InitRanOnState
      <4>3. /\ Len(initAddrs') = 1
            /\ \A i \in 1 .. Len(initAddrs') : initAddrs'[i].kind = "Mmio"
        BY <4>1, <4>2, AppendWindow
      <4>4. evt # "Open"
        BY <3>1 DEF OpenWhileDetected
      <4>. QED
        BY <4>1, <4>3, <4>4 DEF InitRanOnState, InitOnWindows,
           AvailableIsMmio, OpenWhileDetected, EarlyPhase
    <3>2. CASE driverState # STATE_AVAILABLE
      <4>1. UNCHANGED <<driverState, address, evt, initAddrs>> /\ pc' = "Done"
        BY <2>7, <3>2 DEF EntryPoint, EntryAvailable, CommonInitialise
      <4>. QED
        BY <4>1 DEF InitRanOnState, InitOnWindows, AvailableIsMmio,
           OpenWhileDetected, EarlyPhase
    <3>. QED
      BY <3>1, <3>2
  <2>8. CASE EnumComplete
    BY <2>8 DEF EnumComplete, InitRanOnState, InitOnWindows, AvailableIsMmio,
              OpenWhileDetected, EarlyPhase
  <2>9. CASE UNCHANGED vars
    BY <2>9 DEF vars, InitRanOnState, InitOnWindows, AvailableIsMmio,
              OpenWhileDetected, EarlyPhase
  <2>. QED
    BY <2>1, <2>2, <2>3, <2>4, <2>5, <2>6, <2>7, <2>8, <2>9 DEF Next
<1>. QED
  BY <1>1, <1>2, DiscoveryTypeCorrect, PTL DEF Spec, DiscoveryInv

(* IoMmuCommonInitialise is brought up at most once by the entry point   *)
(* and the PCI enumeration callback together, and only on an MMIO        *)
(* register window, never on a BDF.                                       *)
THEOREM InitUsesMmioAddressHolds == Spec => []InitUsesMmioAddress
<1>1. DiscoveryInv => InitUsesMmioAddress
  BY DEF DiscoveryInv, DiscoveryInvRest, InitRanOnState, InitOnWindows,
         InitUsesMmioAddress
<1>. QED
  BY <1>1, DiscoveryInvHolds, PTL

=============================================================================
