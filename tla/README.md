# TLA+ models of the RISC-V IOMMU DXE driver

This directory holds TLA+ models of `src/UefiCpuPkg/RiscVIoMmuDxe`, the
UEFI DXE driver for the RISC-V IOMMU. It also holds TLC configurations that
model-check them, and TLAPS proofs about the initialisation sequence and
discovery. Two abstract specifications state what a component promises, and
the detailed models are shown to implement them.
`PROJECT.json` maps each definition to the source lines it translates. It also
lists the runs, the mutants that show each property can fail, the findings, the
hazards and the theorems.

## The system

The driver runs in a single thread at boot. The hardware and the firmware
around it are its concurrent actors.

* **Discovery** (`IoMmuDetection.c`). `DetectRiscVIoMmus` looks for the IOMMU
  in three places:
  * the device tree: a `riscv,iommu` node gives an MMIO window, and a
    `riscv,pci-iommu` node gives a BDF;
  * the ACPI RIMT: the walk visits every node;
  * a PCI enumeration callback: the device-tree PCI path registers it, and it
    takes the BAR of the IOMMU-class function.

  The result is recorded in the global context (`RiscVIoMmu.h`):
  `DriverState`, `IoMmuIsPciDevice` and `Address`.
* **Entry point** (`RiscVIoMmuDxeEntryPoint`). It calls
  `IoMmuCommonInitialise` when the state is at least `STATE_AVAILABLE`. The
  callback calls it too.
* **Init sequencer** (`IoMmuCommonInitialise`, `InitialiseRiscVIoMmu`).
  `IoMmuCommonInitialise` returns early once the state is `INITIALISED`, then
  sets that state. `InitialiseRiscVIoMmu` does the following:
  * checks the capability version and the endianness;
  * writes `fctl.BE`;
  * checks the HART's satp mode and sets GXL;
  * allocates and enables the command and fault queues, and the page-request
    queue when the IOMMU supports ATS (`AllocateQueue`);
  * programs the device-directory root (`ProgramContextRoot`).

  On success, `IoMmuCommonInitialise` installs the IOMMU protocol.
* **Register access** (`Utilities.c`). `IoMmuWriteAndWait32/64` writes a
  register, then polls it for a bit to be set (qon) or clear (busy).
* **DMA mapping engine** (`IoMmuProtocol.c`):
  * `IoMmuMap` either maps a host buffer identically or remaps it into a bounce
    buffer below a limit;
  * `IoMmuUnmap` copies bus-master writes back and frees the bounce buffer;
  * `IoMmuAllocateBuffer` and `IoMmuFreeBuffer` manage common buffers;
  * `RiscVGetIoMmuMemoryTop` gives the limit: 4 GiB - 1 under GXL, otherwise the
    top of the satp mode.

## Modules

| Module | Models | State | Actions |
|---|---|---|---|
| `IoMmuDiscovery` | `IoMmuDetection.c`, the entry point | platform (fixed in Init), global context, notify event, entry thread `pc`/`idx`, history `initAddrs` | `DetectStart`, `DtDiscovery`, `OnPciEnumerationComplete`, `AcpiStart`, `RimtNode`, `RimtDone`, `EntryPoint`, `EnumComplete` (the PCI bus driver) |
| `IoMmuInit` | `IoMmuCommonInitialise`, `InitialiseRiscVIoMmu`, `AllocateQueue`, `ProgramContextRoot`, `Utilities.c` | capabilities, HART endianness and satp (fixed), the `fctl`, `ddtp` and queue registers, global context, allocation counters, the driver thread (`pc`, `qi`, `regSet`, `mode`, `rdMode`) | `CallInitialised`, `CallStart`, `Negotiate`, `QProgram`, `QEnable`, `QPoll`, `QWaitDone`, `CtxProgram`, `DdtPoll`, `DdtWaitDone`, `DdtRead`, `DdtCompare`, `Install`; hardware: `HwQueueOn`, `HwDdtpComplete` |
| `IoMmuInitService` | what `IoMmuCommonInitialise` offers its callers (`RiscVIoMmu.h` 75-82, `RiscVIoMmuDxe.c` 379-425) | `busy`, `started`, `installed`, `result` | `SReturnEarly`, `SStart`, `SFail`, `SSucceed` |
| `IoMmuInitProofs` | TLAPS proofs about `IoMmuInit` | | |
| `IoMmuDma` | `IoMmuProtocol.c` | satp/GXL, memory contents, free pages, buffers, live mappings, device writes, freed `MAP_INFO` records | `Map`, `Unmap`, `AllocateBuffer`, `FreeBuffer`, `DeviceWrite` (the bus master) |
| `IoMmuDmaContract` | the DMA promise documented with the protocol prototypes (`RiscVIoMmu.h` 130-227) | `host` (the caller's view of each byte), `lent`, `view` (what the device sees per mapping) | `CMap`, `CDeviceWrite`, `CUnmap`, `CAllocate`, `CFree` |
| `IoMmuDiscoveryProofs` | TLAPS proofs about `IoMmuDiscovery` | | |
| `IoMmuDmaProofs` | TLAPS proofs about `IoMmuDma`; defines `ProtocolSpec` | | |
| `IoMmuDmaContractProofs` | TLAPS proof that `IoMmuDma` under `ProtocolSpec` implements `IoMmuDmaContract` | | |
| `MC_*` | TLC instances | | |

How the models correspond to the code:

* Each wait loop is a pair of actions:
  * a poll step that re-reads the register (`QPoll`, `DdtPoll`);
  * an exit step (`QWaitDone`, `DdtWaitDone`).

  `regSet` is the loop's `RegValue`. Its first value is the value written, as
  in the code.
* The DDTP hardware (`HwDdtpComplete`) completes a write asynchronously:
  a mode it accepts takes effect with the written PPN, any other leaves the
  register as it was. While the register is busy the RISC-V IOMMU
  specification leaves reads and further writes to the implementation, so
  the model allows every outcome: a read of `iommu_mode` returns the mode in
  effect or the one being written (`DdtpReadModes`), and a write made while
  busy either replaces the pending one or is dropped (`WriteDdtpAny`).
* Uninitialised stack locals are a nondeterministic choice over
  `StackGarbage`. These are the DDTP local of `ProgramContextRoot` and the
  queue CSR locals of `AllocateQueue`.
* In the DMA model, memory is scaled down:
  * a page is 2 bytes, memory is 6 pages, and the 4 GiB line is at byte 6;
  * the satp tops are 11 (Sv39) and 31 (Sv48);
  * each byte initially holds its own address, so a copy from the wrong place
    shows.

  `AllocatePages(AllocateMaxAddress)` chooses any free run that fits.
* `IoMmuUnmap` validates a handle only by the `Signature` of the `MAP_INFO`
  it points to (line 438; the list lookup is compiled out) and frees the
  record at line 475 without clearing it. A second Unmap of the same handle
  reads freed pool memory, which is undefined: `Unmap` of a record in
  `unmapped` (the freed records) either refuses it (the pool reused the
  memory) or releases the record again.
* RIMT nodes are records of `RIMT_NODE_HEADER.Type` and `RIMT_IOMMU_NODE.Flags`
  (`RimtNodes`); the walk is bounded by the header's `NumberOfNodes`.
* The three modules interact through the global context. `IoMmuDiscovery`
  treats `IoMmuCommonInitialise` as one step: its early return and its state
  update are kept. `IoMmuInit` models that step in full. `IoMmuDma` takes satp
  and GXL as `IoMmuInit` leaves them.

### Refinements

* **`IoMmuDma` implements `IoMmuDmaContract`** (`ImplementsContract`, checked by
  TLC in `dma_pass`, and proved for a caller that keeps the protocol by
  `ContractRefinement`). The contract does not say where a device sees a buffer.
  It says that the device sees the caller's data for a read or common-buffer
  mapping, that the lent bytes are off limits to the caller, and that after
  Unmap the caller's bytes hold what the device saw. The mapping:
  * `host` is `HostView`: `mem` on the caller's bytes that no mapping covers,
    `Lent` on covered ones, and `NotOwned` elsewhere;
  * `lent` is the set of `Map` requests outstanding (`Loans`);
  * `view[id]` reads `mem` at the mapping's device address (`DeviceViews`).

  Bounce buffers, their copy-in and copy-back, and the page allocator are
  therefore invisible to a caller exactly when the refinement holds.
* **`IoMmuInit` implements `IoMmuInitService`** (`ImplementsService`, checked
  by TLC in `init_pass` and proved by TLAPS). `busy` is `pc # "Idle"`,
  `started` is `DriverState = STATE_INITIALISED`, `installed` is
  `installs > 0`, and `result` is `lastResult`. Every register, queue and
  hardware step is a stutter of the service.

## Runs

| Run | Expect | Shows |
|---|---|---|
| `init_pass` | pass | These properties hold: `ProgrammedOnce`, `AllocationsFollowProgress`, `InstalledConfiguration`, `InitCallReturns`, `ImplementsService`. |
| `init_root_garbage` | violation | `DdtpRootValid`: the speculative DDTP write enables a multi-level mode on a PPN that is not the context root. |
| `init_busy_not_awaited` | violation | `DdtpWaitReturnsIdle`: `IoMmuWriteAndWait64` returns while DDTP is busy. The read-back at line 239 then meets the pending write; where the hardware shows the new mode while busy, the root write of line 247 is made while busy (and may be dropped), and the driver returns before the root is in effect. |
| `init_success_without_install` | violation | `SuccessOnlyIfInstalled`: a second call after a failure returns EFI_SUCCESS. |
| `init_bare_satp` | violation | `InstalledMemoryTopDefined`: satp Bare is accepted. |
| `dma_pass` | pass | These properties hold: `ReadMappingCoherent`, `DeviceRangeAddressable`, `PagesConserved`, `UnmapDeliversWrites`, `ImplementsContract`. |
| `dma_stale_unmap` | violation | `PagesConserved`: Map, Unmap, Map again onto the freed bounce page, then Unmap of the first handle again frees the page the second mapping holds. |
| `dma_32bit_bounce_high` | violation | `Device32BitReachable`: an unaligned 32-bit map gets a bounce buffer above 4 GiB. |
| `dma_common_buffer_refused` | violation | `CommonBufferMappable`: an AllocateBuffer buffer at the top is refused by Map. |
| `discovery_pass` | pass | These properties hold: `InitUsesMmioAddress`, `DiscoveryInv` (its inductive strengthening), `DeviceTreeIommuInitialised`. |
| `discovery_state_regresses` | violation | `DriverStateMonotonic`: a RIMT walk moves the state back from AVAILABLE to DETECTED. |
| `discovery_acpi_pci_stranded` | violation | `PciIommuInitialised`: a RIMT PCIe IOMMU is never initialised. |

Each violation is a finding in `PROJECT.json`. Each pass-run property has a
mutant: a plausible bug in one mapped definition that TLC shows breaks it.

### Bounds

* **`MC_IoMmuInit`**:
  * two calls of `IoMmuCommonInitialise`, enough for a call after a success
    and a call after a failure;
  * the five satp modes an RV64 HART can report (Bare, Sv39, Sv48, Sv57, Sv64);
  * two capability versions;
  * both endiannesses, with and without ATS;
  * hardware that accepts every multi-level mode, or only one level.

  The garbage set is {zero, non-zero}. The violation run `init_root_garbage`
  uses a zeroed stack only, to show the bug needs no garbage.
* **`MC_IoMmuDma`**:
  * two mapping ids and lengths 1-3, covering unaligned, aligned and
    page-crossing requests;
  * caller pages below and above 4 GiB;
  * one-page buffers;
  * three protocol calls, enough for two overlapping mappings or
    allocate/map/unmap;
  * four calls in `dma_stale_unmap`: the double free needs map, unmap, map
    onto the freed page and the stale unmap. Within the three calls of
    `dma_pass` a stale Unmap happens (map, unmap, unmap again) but finds its
    pages still free, so the properties hold there; the harm needs the
    fourth call.
* **`MC_IoMmuDiscovery`**: every RIMT of at most two nodes, a node being an
  IOMMU node with any combination of its two flags, a PCIe root complex or a
  platform device. Two nodes are enough for one IOMMU node to follow another.

### Fairness

* **`IoMmuInit`**. There is weak fairness on the driver's steps: the thread is
  not preempted for good. There is also weak fairness on the hardware's
  completion of a DDTP write and on each queue turning on. The code has no
  timeouts, so termination relies on the hardware; the model assumes exactly
  that. What a busy DDTP reads back, and whether a write made while busy
  takes effect, is left open (see above), not assumed.
* **`IoMmuDiscovery`**. There is weak fairness on `Next`:
  * the entry point runs to completion;
  * a signalled notify function is dispatched;
  * PCI enumeration completes, because the PCI bus driver runs on every
    booting platform.
* **`IoMmuDma`**. There is no fairness, and only safety is checked.

## Proofs (checked by TLAPS)

Each proof module extends its model and `TLAPS`. Every invariant is proved the
same way. First an inductive invariant is found and checked with TLC as an
invariant of the model's own instance. Then three facts are proved: `Init`
establishes it, every step of `Next` (one step per action) keeps it, and it
implies the property. A temporal `PTL` step closes the proof.

`IoMmuInitProofs`, for every value of the constants allowed by
`ConstantsAssumption`:

* `TypeCorrect`: `Spec => []TypeOK`.
* `AllocationsFollowProgressHolds`: `Spec => []AllocationsFollowProgress`.
  The invariant ties the allocation counters to the thread's progress:
  * nothing is allocated before the first call passes the state check;
  * during the queue loop, exactly the queues before `qi` are allocated, plus
    `qi` once `QProgram` has run;
  * one context root is allocated after `CtxProgram`;
  * nothing is installed before `Install`.

  It is inductive given `TypeOK`. For `DdtWaitDone` the proof has one step
  for each of its two instances. Lemmas give:
  * the length of `QueuesToProgram`;
  * that `QueueIndex` is injective on it;
  * that a queue is in the list exactly when its index is below its length;
  * the type of `LevelMode` and record-update typing for `ddtp`.
* `ProgrammedOnceHolds`: `Spec => []ProgrammedOnce`. Each queue and the
  context root are programmed at most once, and the protocol is installed at
  most once, however many times `IoMmuCommonInitialise` is called.
  `ProgrammedOnce` is not inductive; it follows from
  `AllocationsFollowProgress`.
* `InstalledConfigurationHolds`: `Spec => []InstalledConfiguration`. It is
  proved through `ConfigFollowsProgress`, which says when the configuration
  was fixed:
  * the queue enables are all clear until the queue loop;
  * during the loop, exactly the queues before `qi` are enabled, plus `qi`
    once its enable is awaited;
  * from the context phase on, and after installation, the configuration is
    the negotiated one (`Negotiated`) and the enabled queues are exactly
    those of the list.

  `InstalledConfiguration` alone is not inductive: it says nothing before
  `Install`, when the registers are still being written.
* `ServiceRefinement`: `Spec => ImplementsService`. The initial state maps to
  the service's. `CallInitialised` is `SReturnEarly`; `CallStart` is `SStart`
  (`TypeOK` gives that a state below `STATE_INITIALISED` is
  `STATE_AVAILABLE`); the failing returns of `Negotiate` and `DdtCompare` are
  `SFail`; `Install` is `SSucceed`, which needs the protocol not yet
  installed: `AllocationsFollowProgress` gives `installs = 0` in the context
  phase. Every other step is a stutter.

`IoMmuDiscoveryProofs`, for every set of RIMT tables allowed by
`DiscoveryAssumption`:

* `DiscoveryTypeCorrect`: `Spec => []TypeOK`, including that the RIMT walk's
  index stays within one past the last node.
* `DiscoveryInvHolds`: `Spec => []DiscoveryInv`. `DiscoveryInv` is
  inductive as stated. It strengthens `InitUsesMmioAddress` with:
  * the bring-up has run (once) exactly when the state is
    `STATE_INITIALISED`;
  * `STATE_AVAILABLE` only with an MMIO address;
  * the notify event open only at `STATE_DETECTED`, so the callback, which
    sets `STATE_AVAILABLE` itself before calling `IoMmuCommonInitialise`,
    never finds a bring-up done;
  * before the entry point, nothing is initialised and no event is open.
* `InitUsesMmioAddressHolds`: `Spec => []InitUsesMmioAddress`, from
  `DiscoveryInv`.

`IoMmuDmaProofs`, for every memory size, page size, 4 GiB line, satp tops and
number of calls allowed by `DmaAssumption`. The proofs cite the lemma
`DmaConstants` rather than `DmaAssumption`. It holds the same facts except
the alignment of `Size4G`, which no proof needs; leaving that remainder out
keeps the SMT solver fast.

* `DmaTypeOK`: `Spec => []TypeOK`, stale Unmaps included. It is proved
  through `DmaTypeInv`, which adds that every allocated buffer and every
  MAP_INFO record, outstanding or freed, lies in memory. A freed record is
  needed because a stale Unmap releases it again: what it copies and frees
  must be memory. Lemmas give:
  * `EFI_SIZE_TO_PAGES` rounding;
  * that a range inside free pages lies in memory and below their end;
  * that `CopyMem` keeps memory typed;
  * that the caller's bytes lie in memory.
* `DeviceRangeAddressableHolds`: `Spec => []DeviceRangeAddressable`, stale
  Unmaps included. `satp` and GXL never change, so the memory top is fixed.
  * A mapping that is not remapped passed the remap test, so it ends below
    the top, and below 4 GiB if it is a 32-bit operation.
  * A remapped one lies in pages that AllocatePages found at or below
    `DmaMemoryTop`, which is at most the property's limit (lemma
    `DmaMemoryTopBelow`).
* `PagesConservedUnderProtocol`: `ProtocolSpec => []PagesConserved`.
  `ProtocolSpec` is `Spec` with one change: Unmap is called only on handles
  of outstanding mappings (`LiveUnmap`), as the protocol requires of callers.
  For `Spec` itself the property is false (`dma_stale_unmap`), so this is the
  strongest statement that holds. It is proved through `PagesInv`:
  * free pages, bounce pages and buffer pages partition the memory the caller
    does not own;
  * bounce buffers start on a page;
  * no two bounce buffers, and no two buffers, share a page.

  The disjointness of pages is what makes a release return exactly the
  pages that were taken. Alignment gives disjoint device ranges from
  disjoint pages. Map needs one more fact: a bounce page is never the
  caller's own buffer, because that page is free while the caller's bytes
  lie on its own pages and buffers (lemma `CallerBytePage`).
* `ReadMappingCoherentUnderProtocol`: `ProtocolSpec => []ReadMappingCoherent`.
  Every outstanding read mapping's device range holds the bytes of the
  caller's buffer it was made from. It is proved through `CoherentInv`.
  That is `ReadMappingCoherent` plus two facts:
  * `HostsOwned`: every mapping's host range lies in the caller's bytes;
  * `HostsDisjoint`: no two mappings share a host byte.

  Both facts hold because of Map's and FreeBuffer's guards. The step lemma
  `CoherentStep` shows that no write lands on either range of another live
  read mapping (lemma `ReadFrame`):
  * Map's copy into a bounce buffer writes free pages only. Neither the
    caller's bytes nor another mapping's device range lies on free pages
    (lemmas `CallerByteNotPool` and `BounceByteNotCaller`).
  * Unmap's copy-back writes the released mapping's host range only. That
    range is disjoint from the other host ranges, and from every bounce
    range.
  * A device write through a write mapping writes its device range only.
    That is either its own host range or bounce pages, which are disjoint
    from other bounce ranges by `PagesConserved`.

  The new read mapping is coherent by Map's copy (the definition of `CopyMem`).
  The caller's bytes it copies from are outside the bounce buffer.
* `UnmapDeliversWritesUnderProtocol`: `ProtocolSpec => UnmapDeliversWrites`,
  an action property. It is proved through `DeliverInv`, which is two facts:
  * `IdsUnique`: no two outstanding mappings share a handle;
  * `WritesHeld`: the device range of every outstanding mapping the device
    wrote through still holds the device's markers.

  Lemma `RangesApart` gives what the step lemma `DeliverStep` needs. The
  device range of a live mapping shares no byte with another mapping's
  device range, nor with its host range. So no copy-back or other device
  write lands on it. Map's copy lands on free pages (lemmas `MapBounce` and
  `FreeByteUnused`). `DeliversWritesStep` then shows that only `LiveUnmap`
  ends a mapping. For a written write mapping it copies the bounce buffer
  back, or the host range is the device range itself.

`IoMmuDmaContractProofs`, from the same assumptions:

* `ContractRefinement`: `ProtocolSpec => ImplementsContract`. The engine,
  seen through `HostView`, `Loans` and `DeviceViews`, takes only steps of
  the contract or stutters. It rests on `RefineInv`: `DmaTypeInv`,
  `PagesInv`, `CoherentInv`, `DeliverInv` and one more fact, `CommonDirect`.
  That fact says a common-buffer mapping is never bounced, because Map
  refuses one that needs a remap. The step lemma `RefineStep` takes one case
  per action:
  * A Map that adds a mapping is `CMap`. It writes no caller byte and no
    other device range. The new view is the caller's data for a read
    (`ReadMappingCoherent` after the step) and for a common buffer
    (`CommonDirect`). A Map that fails or is refused is a stutter.
  * `LiveUnmap` is `CUnmap`. After the step the host range holds what the
    device saw:
    * a written bounce buffer is copied back;
    * a read bounce buffer equals the host bytes (`ReadMappingCoherent`);
    * a direct mapping shares the host bytes.

    The other views and the other host bytes are untouched (`RangesApart`).
  * `DeviceWrite` is `CDeviceWrite`. It writes only lent bytes or bounce
    bytes, so the caller's view does not change.
  * `AllocateBuffer` and `FreeBuffer` are `CAllocate` and `CFree`. The
    bytes gained or given back are covered by no loan, which is
    FreeBuffer's guard.

  Lemma `ChooseById` turns `DeviceViews`' `CHOOSE` into the mapping of a
  handle, by `IdsUnique`.

TLC checked `PagesInv`, `CoherentInv`, `WritesHeld`, `CommonDirect`,
`UnmapDeliversWrites` and `ImplementsContract` under `ProtocolSpec` with 4
calls (8.3 million states, no violation). This was a one-off check outside
the runs.

Only TLC checks these:

* all liveness properties (`InitCallReturns`,
  `DeviceTreeIommuInitialised`), because TLAPS does not handle fairness or
  ENABLED;
* `ReadMappingCoherent`, `UnmapDeliversWrites` and the DMA refinement
  `ImplementsContract` under `Spec` itself. With stale Unmaps, a fourth call
  can hand freed bounce pages out again. TLC then finds
  `ReadMappingCoherent`, `ImplementsContract` and `WritesHeld` violated
  under `Spec` with 4 calls. `UnmapDeliversWrites` shows no violation
  within 4 calls, but the invariant its proof rests on fails. So no theorem
  about `Spec` states these for every number of calls. `dma_pass` checks
  them within 3 calls, where a stale Unmap frees only pages that are
  already free. All three are proved under `ProtocolSpec` (see above);
* the violations.

## Not modelled

* `IoMmuSetAttribute`: it validates its arguments, looks up the PCI location
  and always returns `EFI_DEVICE_ERROR` (a TODO), so it changes no state.
* The PCIe root complex and platform device node layouts of the RIMT header,
  which the driver never reads. Malformed RIMTs (a node `Length` of 0, or a
  `NumberOfNodes` beyond the array): the tables are assumed well formed, and
  the hazard is listed in `PROJECT.json`.
* `SetMemoryAttributes` on the register window, which only changes page
  attributes.
* `ASSERT (IoMmuIsReset ())`.
* Map's and AllocateBuffer's `EFI_INVALID_PARAMETER` validation, which has no
  state change.
* 64-bit wrap-around of `HostAddress + NumberOfBytes` at line 272 is not a
  hazard of this code: a caller's buffer is memory it owns, and no buffer
  wraps the top of the address space. The scaled memory does not model it.

## Plan for later sittings

* Compose discovery with the full init sequence, so that a PCI IOMMU's second
  callback meets a failed initialisation.
