------------------------------ MODULE IoMmuDma ------------------------------
(***************************************************************************)
(* The DMA mapping engine of the RISC-V IOMMU driver (IoMmuProtocol.c):    *)
(* Map, Unmap, AllocateBuffer and FreeBuffer of EDKII_IOMMU_PROTOCOL,      *)
(* RiscVGetIoMmuMemoryTop, and the page allocator of boot services they    *)
(* call, with a bus-master device that reads and writes mapped ranges.     *)
(*                                                                         *)
(* Memory is byte addressed on a scaled address space: PageSize bytes per *)
(* page (SIZE_4KB), Size4G bytes below the 4 GiB line (SIZE_4GB), and the *)
(* tops of the satp modes given by TopOf.  Every byte initially holds its *)
(* own address, so a copy shows where its data came from; the device      *)
(* writes Marker(id, i) at offset i of mapping id.                        *)
(***************************************************************************)
EXTENDS Integers, FiniteSets

CONSTANTS
  PageSize,      \* SIZE_4KB, scaled
  NumPages,      \* pages of physical memory
  Size4G,        \* SIZE_4GB, scaled
  TopOf,         \* TopOf[m]: (1ULL << bits of satp mode m) - 1, scaled
  SatpModes,     \* satp modes the HART may run in
  CallerPages,   \* pages the calling driver owns and maps from
  MapIds,        \* handles Map can return (bounds the outstanding mappings)
  Lengths,       \* the byte counts callers map
  BufferPages,   \* the page counts callers allocate with AllocateBuffer
  MaxCalls       \* bound on the protocol calls of a behaviour

Pages == 0 .. NumPages - 1
Addr  == 0 .. NumPages * PageSize - 1

ASSUME DmaAssumption ==
  /\ PageSize \in Nat \ {0}
  /\ NumPages \in Nat \ {0}
  /\ Size4G \in Nat /\ Size4G % PageSize = 0
  /\ SatpModes \subseteq {"Bare", "Sv32", "Sv39", "Sv48", "Sv57", "Sv64"}
  /\ TopOf \in [{"Sv39", "Sv48", "Sv57"} -> Nat]
  /\ CallerPages \subseteq Pages
  /\ MapIds \subseteq Nat
  /\ Lengths \subseteq Nat \ {0}
  /\ BufferPages \subseteq Nat \ {0}
  /\ MaxCalls \in Nat

(* EDKII_IOMMU_OPERATION. *)
ReadOps   == {"BusMasterRead", "BusMasterRead64"}
WriteOps  == {"BusMasterWrite", "BusMasterWrite64"}
CommonOps == {"BusMasterCommonBuffer", "BusMasterCommonBuffer64"}
Ops64     == {"BusMasterRead64", "BusMasterWrite64", "BusMasterCommonBuffer64"}
Ops       == ReadOps \cup WriteOps \cup CommonOps

(* The data a device writes at offset i of mapping id. *)
Marker(id, i) == 1000 + 100 * id + i

VARIABLES
  satp,       \* the HART's satp MODE
  gxl,        \* the IOMMU's fctl.GXL
  mem,        \* mem[a]: the byte at physical address a
  free,       \* pages free in the boot-services memory map
  bufs,       \* buffers AllocateBuffer returned and FreeBuffer has not freed
  maps,       \* MAP_INFO records Map returned and Unmap has not consumed
  devWrote,   \* mappings the device has written through
  refused,    \* the last Map request refused with EFI_UNSUPPORTED
  calls,      \* protocol calls so far
  unmapped    \* MAP_INFO records Unmap freed, still carrying their Signature

vars == <<satp, gxl, mem, free, bufs, maps, devWrote, refused, calls, unmapped>>

-----------------------------------------------------------------------------
(* Address arithmetic of the code.                                         *)

(* EFI_SIZE_TO_PAGES. *)
SizeToPages(n) == (n + PageSize - 1) \div PageSize

(* Bytes from a for n bytes, and the pages from p for n pages. *)
Bytes(a, n) == a .. a + n - 1
PageRange(p, n) == p .. p + n - 1
PageBytes(p, n) == Bytes(p * PageSize, n * PageSize)

(* x # ALIGN_VALUE(x, SIZE_4KB). *)
Unaligned(x) == x % PageSize # 0

Min(a, b) == IF a <= b THEN a ELSE b

(* RiscVGetIoMmuMemoryTop: 4 GiB - 1 under GXL, the top of the HART's   *)
(* satp mode otherwise; for any other mode it asserts and returns 0.     *)
MemoryTop ==
  CASE gxl                              -> Size4G - 1
    [] satp \in {"Sv39", "Sv48", "Sv57"} -> TopOf[satp]
    [] OTHER                             -> 0

(* gBS->AllocatePages (AllocateMaxAddress, n): the first pages of the   *)
(* runs of n free pages whose last byte is at most max.                  *)
MaxAddressFitsFirstPage(n, max) ==
  { p \in Pages : /\ p \in free
                  /\ (p + n) * PageSize - 1 <= max }
MaxAddressFits(n, max) ==
  { p \in Pages : /\ PageRange(p, n) \subseteq free
                  /\ (p + n) * PageSize - 1 <= max }

(* The bytes the caller owns: its own pages and its allocated buffers. *)
CallerBytes ==
  UNION ({PageBytes(p, 1) : p \in CallerPages} \cup
         {PageBytes(b.base, b.pages) : b \in bufs})

(* The pages held by bounce buffers of outstanding mappings. *)
BouncePages(ms) ==
  UNION {PageRange(m.dev \div PageSize, SizeToPages(m.len)) :
           m \in {x \in ms : x.dev # x.host}}

(* The pages held by buffers from AllocateBuffer. *)
BufferPagesHeld(bs) == UNION {PageRange(b.base, b.pages) : b \in bs}

(* A Map request. *)
Request(op, host, len) == [op |-> op, host |-> host, len |-> len]
NoRequest == Request("None", 0, 0)

(* CopyMem (dst, src, n) on memory m. *)
CopyMemShort(m, dst, src, n) ==
  [a \in Addr |-> IF a \in Bytes(dst, n - 1) THEN m[src + (a - dst)] ELSE m[a]]
CopyMem(m, dst, src, n) ==
  [a \in Addr |-> IF a \in Bytes(dst, n) THEN m[src + (a - dst)] ELSE m[a]]

-----------------------------------------------------------------------------
(* The remap decision of IoMmuMap, lines 269-296.                          *)

(* The three independent reasons to remap. *)
NeedRemap(op, host, len) ==
  \/ host + len >= MemoryTop
  \/ op \notin Ops64 /\ host + len > Size4G
  \/ op \notin CommonOps /\ (Unaligned(host) \/ Unaligned(len))

(* DmaMemoryTop after line 285. *)
DmaMemoryTopNoMin(op, host, len) == MemoryTop
DmaMemoryTop(op, host, len) ==
  IF op \notin Ops64 /\ host + len > Size4G
    THEN Min(MemoryTop, Size4G - 1)
    ELSE MemoryTop

-----------------------------------------------------------------------------
Init ==
  /\ satp \in SatpModes
  /\ gxl = (satp = "Sv32")
  /\ mem = [a \in Addr |-> a]
  /\ free = Pages \ CallerPages
  /\ bufs = {}
  /\ maps = {}
  /\ devWrote = {}
  /\ refused = NoRequest
  /\ calls = 0
  /\ unmapped = {}

(* Every protocol call counts against MaxCalls. *)
Count == calls < MaxCalls /\ calls' = calls + 1

(* The caller maps a range of memory it owns that no outstanding mapping *)
(* covers (two live mappings of one host byte are caller error).         *)
MapInputs ==
  LET owned == CallerBytes \ UNION {Bytes(m.host, m.len) : m \in maps}
  IN  { r \in [op: Ops, host: owned, len: Lengths] :
          Bytes(r.host, r.len) \subseteq owned }

(* IoMmuMap, lines 257-371.  A common-buffer operation that needs a     *)
(* remap is refused; the pool allocation of MAP_INFO may fail; a remap   *)
(* allocates pages at or below DmaMemoryTop, failing when none fit, and  *)
(* for a read operation copies the host buffer into them.                *)
Map(r, id) ==
  LET rec(dev) == [id |-> id, op |-> r.op, host |-> r.host, len |-> r.len,
                   dev |-> dev]
      n == SizeToPages(r.len)
      remap == NeedRemap(r.op, r.host, r.len)
      fits == MaxAddressFits(n, DmaMemoryTop(r.op, r.host, r.len))
  IN
  /\ Count
  /\ id \in MapIds \ {m.id : m \in maps}
  /\ \/ /\ r.op \in CommonOps /\ remap
        /\ refused' = r
        /\ UNCHANGED <<mem, free, maps>>
     \/ /\ ~(r.op \in CommonOps /\ remap)
        /\ UNCHANGED <<mem, free, maps, refused>>
     \/ /\ ~remap
        /\ maps' = maps \cup {rec(r.host)}
        /\ UNCHANGED <<mem, free, refused>>
     \/ /\ r.op \notin CommonOps /\ remap
        /\ fits = {}
        /\ UNCHANGED <<mem, free, maps, refused>>
     \/ /\ r.op \notin CommonOps /\ remap
        /\ \E p \in fits :
             /\ free' = free \ PageRange(p, n)
             /\ maps' = maps \cup {rec(p * PageSize)}
             /\ mem' = IF r.op \in ReadOps
                         THEN CopyMem(mem, p * PageSize, r.host, r.len)
                         ELSE mem
        /\ UNCHANGED refused
  /\ devWrote' = devWrote \ {id}
  /\ UNCHANGED <<satp, gxl, bufs, unmapped>>

(* Lines 460-461: the operations Unmap copies back to the host buffer. *)
CopiesBackOnly32(op) == op = "BusMasterWrite"
CopiesBack(op) == op \in WriteOps

(* IoMmuUnmap, lines 454-472, on the MAP_INFO record m: a remapped write *)
(* operation copies the bounce buffer back, and the bounce pages are     *)
(* freed.                                                                *)
Release(m) ==
  \/ /\ m.dev # m.host
     /\ mem' = IF CopiesBack(m.op)
                 THEN CopyMem(mem, m.host, m.dev, m.len)
                 ELSE mem
     /\ free' = free \cup PageRange(m.dev \div PageSize, SizeToPages(m.len))
  \/ /\ m.dev = m.host
     /\ UNCHANGED <<mem, free>>

(* IoMmuUnmap, lines 387-476, on the MAP_INFO record m a handle points  *)
(* to.  The only validation (line 438) reads m's Signature, and the      *)
(* record is freed with FreePool (line 475) with its Signature intact.   *)
(* For a handle Map returned, the mapping is released and its record     *)
(* freed.  For a handle already unmapped, the read of freed pool memory  *)
(* is undefined: the pool may have reused it (the check fails and        *)
(* EFI_INVALID_PARAMETER is returned) or left it intact (the check       *)
(* passes and the record is released a second time).                    *)
Unmap(m) ==
  /\ Count
  /\ \/ /\ m \in maps
        /\ maps' = maps \ {m}
        /\ Release(m)
        /\ unmapped' = unmapped \cup {m}
     \/ /\ m \in unmapped
        /\ \/ UNCHANGED <<mem, free>>
           \/ Release(m)
        /\ UNCHANGED <<maps, unmapped>>
  /\ UNCHANGED <<satp, gxl, bufs, devWrote, refused>>

(* IoMmuAllocateBuffer, lines 548-566, for a valid memory type and       *)
(* attributes: below 4 GiB unless DUAL_ADDRESS_CYCLE is requested.       *)
AllocateBuffer(n, dac) ==
  LET max == IF dac THEN MemoryTop ELSE Min(MemoryTop, Size4G - 1)
      fits == MaxAddressFits(n, max)
  IN
  /\ Count
  /\ \/ /\ fits = {}
        /\ UNCHANGED <<free, bufs>>
     \/ \E p \in fits :
          /\ free' = free \ PageRange(p, n)
          /\ bufs' = bufs \cup {[base |-> p, pages |-> n, dac |-> dac]}
  /\ UNCHANGED <<satp, gxl, mem, maps, devWrote, refused, unmapped>>

(* IoMmuFreeBuffer, line 593, for a buffer AllocateBuffer returned that *)
(* no outstanding mapping uses.                                          *)
FreeBuffer(b) ==
  /\ Count
  /\ b \in bufs
  /\ \A m \in maps : Bytes(m.host, m.len) \cap PageBytes(b.base, b.pages) = {}
  /\ bufs' = bufs \ {b}
  /\ free' = free \cup PageRange(b.base, b.pages)
  /\ UNCHANGED <<satp, gxl, mem, maps, devWrote, refused, unmapped>>

(* The bus master writes the whole device-visible range of a mapping it *)
(* may write through.                                                    *)
DeviceWrite(m) ==
  /\ m \in maps /\ m.op \notin ReadOps /\ m.id \notin devWrote
  /\ mem' = [a \in Addr |-> IF a \in Bytes(m.dev, m.len)
                              THEN Marker(m.id, a - m.dev) ELSE mem[a]]
  /\ devWrote' = devWrote \cup {m.id}
  /\ UNCHANGED <<satp, gxl, free, bufs, maps, refused, calls, unmapped>>

Next ==
  \/ \E r \in MapInputs, id \in MapIds : Map(r, id)
  \/ \E m \in maps \cup unmapped : Unmap(m)
  \/ \E m \in maps : DeviceWrite(m)
  \/ \E n \in BufferPages, dac \in BOOLEAN : AllocateBuffer(n, dac)
  \/ \E b \in bufs : FreeBuffer(b)

Spec == Init /\ [][Next]_vars

-----------------------------------------------------------------------------
MapRecords == [id: MapIds, op: Ops, host: Addr, len: Lengths, dev: Addr]

TypeOK ==
  /\ satp \in SatpModes
  /\ gxl \in BOOLEAN
  /\ mem \in [Addr -> Nat]
  /\ free \subseteq Pages
  /\ bufs \subseteq [base: Pages, pages: BufferPages, dac: BOOLEAN]
  /\ maps \subseteq MapRecords
  /\ \A m \in maps : Bytes(m.dev, m.len) \subseteq Addr
  /\ devWrote \subseteq MapIds
  /\ refused \in [op: Ops \cup {"None"}, host: Addr, len: Lengths \cup {0}]
  /\ calls \in 0 .. MaxCalls
  /\ unmapped \subseteq MapRecords

(* While a read mapping is outstanding, the device-visible range holds  *)
(* the host buffer's data: the bounce buffer got the copy and nothing   *)
(* else (another bounce buffer, a device write) lands on either range.  *)
ReadMappingCoherent ==
  \A m \in maps :
    m.op \in ReadOps => \A i \in 0 .. m.len - 1 : mem[m.dev + i] = mem[m.host + i]

(* Unmap of a write mapping the device wrote through leaves the device's *)
(* data in the host buffer, remapped or not.                             *)
UnmapDeliversWrites ==
  [][\A m \in maps :
       (m \notin maps' /\ m.op \in WriteOps /\ m.id \in devWrote) =>
          \A i \in 0 .. m.len - 1 : mem'[m.host + i] = Marker(m.id, i)]_vars

(* Every device-visible range lies at or below the top of the memory the *)
(* IOMMU can address, and below 4 GiB when a 32-bit operation's host     *)
(* range crosses it: the bounce buffer Map allocates honours the limit   *)
(* its checks derived.                                                   *)
DeviceRangeAddressable ==
  \A m \in maps :
    m.dev + m.len - 1 <= IF m.op \notin Ops64 /\ m.host + m.len > Size4G
                          THEN Size4G - 1 ELSE MemoryTop

(* No page is lost or held twice: free pages, bounce buffers and         *)
(* allocated buffers partition the memory the caller does not own.       *)
PagesConserved ==
  /\ free \cup BouncePages(maps) \cup BufferPagesHeld(bufs) = Pages \ CallerPages
  /\ free \cap BouncePages(maps) = {}
  /\ free \cap BufferPagesHeld(bufs) = {}
  /\ BouncePages(maps) \cap BufferPagesHeld(bufs) = {}
  /\ \A m1, m2 \in maps :
       (m1 # m2 /\ m1.dev # m1.host /\ m2.dev # m2.host) =>
         Bytes(m1.dev, m1.len) \cap Bytes(m2.dev, m2.len) = {}

(* A 32-bit operation's device-visible range lies below 4 GiB. *)
Device32BitReachable ==
  \A m \in maps : m.op \notin Ops64 => m.dev + m.len <= Size4G

(* A buffer from AllocateBuffer (64-bit only if allocated with           *)
(* DUAL_ADDRESS_CYCLE) maps as a common buffer: Map never refuses it.    *)
CommonBufferMappable ==
  [][refused' # refused =>
       ~\E b \in bufs : /\ refused'.host = b.base * PageSize
                        /\ refused'.len = b.pages * PageSize
                        /\ b.dac = (refused'.op \in Ops64)]_vars

-----------------------------------------------------------------------------
(* The refinement mapping to the protocol's contract (IoMmuDmaContract):  *)
(* the caller sees its own bytes, except those lent to a mapping; the     *)
(* device sees the device-visible range of each mapping, wherever Map     *)
(* placed it.                                                             *)
(* The contract's marks for a lent byte and a byte the caller does not  *)
(* own: values no byte of memory holds.                                  *)
LentByte == -1
NotOwnedByte == -2

LentBytes == UNION {Bytes(m.host, m.len) : m \in maps}

HostView ==
  [a \in Addr |-> IF a \notin CallerBytes THEN NotOwnedByte
                  ELSE IF a \in LentBytes THEN LentByte
                  ELSE mem[a]]

Loans == {[id |-> m.id, op |-> m.op, host |-> m.host, len |-> m.len] : m \in maps}

DeviceViews ==
  [id \in {m.id : m \in maps} |->
     LET m == CHOOSE x \in maps : x.id = id
     IN  [i \in 0 .. m.len - 1 |-> mem[m.dev + i]]]

Contract == INSTANCE IoMmuDmaContract
              WITH Addresses <- Addr, Data <- Nat,
                   Lent <- LentByte, NotOwned <- NotOwnedByte,
                   host <- HostView, lent <- Loans, view <- DeviceViews

(* Map, Unmap, AllocateBuffer and FreeBuffer, with their bounce buffers,  *)
(* implement the protocol's contract: to its caller, the engine behaves   *)
(* as if the device read and wrote the caller's memory directly, with the *)
(* results visible once Unmap returns.                                    *)
ImplementsContract == Contract!CSpec

=============================================================================
