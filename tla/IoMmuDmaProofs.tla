--------------------------- MODULE IoMmuDmaProofs ---------------------------
(***************************************************************************)
(* Proofs about the DMA mapping engine of IoMmuDma, for every value of    *)
(* its constants that satisfies DmaAssumption.                            *)
(***************************************************************************)
EXTENDS IoMmuDma, TLAPS

(* The facts of DmaAssumption the proofs use, without the alignment of   *)
(* Size4G, whose remainder the arithmetic provers need not see.           *)
LEMMA DmaConstants ==
  /\ PageSize \in Nat \ {0}
  /\ NumPages \in Nat \ {0}
  /\ Size4G \in Nat
  /\ TopOf \in [{"Sv39", "Sv48", "Sv57"} -> Nat]
  /\ CallerPages \subseteq Pages
  /\ MapIds \subseteq Nat
  /\ Lengths \subseteq Nat \ {0}
  /\ BufferPages \subseteq Nat \ {0}
  /\ MaxCalls \in Nat
  BY DmaAssumption

USE DmaConstants

-----------------------------------------------------------------------------
(* Page arithmetic of the code.                                            *)

(* EFI_SIZE_TO_PAGES rounds up: n bytes fit in SizeToPages(n) pages, and *)
(* a non-empty range needs at least one page.                             *)
LEMMA SizeToPagesCovers ==
  ASSUME NEW n \in Nat
  PROVE  /\ SizeToPages(n) \in Nat
         /\ n <= SizeToPages(n) * PageSize
         /\ n > 0 => SizeToPages(n) >= 1
  BY DEF SizeToPages

(* The byte address of page p, divided by the page size, is p. *)
LEMMA PageOfPageAddress ==
  ASSUME NEW p \in Nat
  PROVE  (p * PageSize) \div PageSize = p
  OBVIOUS

(* A range of len bytes starting at page p, within k pages of memory,   *)
(* lies in the address space and ends below the first byte after them.  *)
LEMMA RangeWithinPages ==
  ASSUME NEW p \in Nat, NEW k \in Nat \ {0}, NEW len \in Nat \ {0},
         PageRange(p, k) \subseteq Pages, len <= k * PageSize
  PROVE  /\ Bytes(p * PageSize, len) \subseteq Addr
         /\ p * PageSize + len - 1 <= (p + k) * PageSize - 1
<1>1. p + k - 1 \in Pages
  BY DEF PageRange
<1>2. p + k <= NumPages
  BY <1>1 DEF Pages
<1>3. (p + k) * PageSize <= NumPages * PageSize
  BY <1>2
<1>4. p * PageSize + len - 1 <= (p + k) * PageSize - 1
  BY <1>3
<1>. QED
  BY <1>3, <1>4 DEF Bytes, Addr

-----------------------------------------------------------------------------
(* The invariant that makes TypeOK inductive.                             *)

(* Every buffer from AllocateBuffer lies in memory. *)
BuffersInMemory == \A b \in bufs : PageRange(b.base, b.pages) \subseteq Pages

(* Every MAP_INFO record, outstanding or freed, has its device range in  *)
(* memory, and a bounce buffer's pages are the pages from the page of    *)
(* its address: what Unmap frees, even for a stale handle, is memory.    *)
RecordsInMemory ==
  /\ unmapped \subseteq MapRecords
  /\ \A m \in maps \cup unmapped :
       /\ Bytes(m.dev, m.len) \subseteq Addr
       /\ m.dev # m.host =>
            PageRange(m.dev \div PageSize, SizeToPages(m.len)) \subseteq Pages

(* CopyMem keeps memory a map from addresses to bytes when the source    *)
(* range lies in memory.                                                 *)
LEMMA CopyMemType ==
  ASSUME NEW m \in [Addr -> Nat], NEW dst \in Int, NEW src \in Int,
         NEW n \in Nat, Bytes(src, n) \subseteq Addr
  PROVE  CopyMem(m, dst, src, n) \in [Addr -> Nat]
<1>1. \A a \in Addr : a \in Bytes(dst, n) => src + (a - dst) \in Bytes(src, n)
  BY DEF Bytes, Addr
<1>. QED
  BY <1>1 DEF CopyMem

(* The bytes the caller owns lie in memory. *)
LEMMA CallerBytesInMemory ==
  ASSUME bufs \subseteq [base: Pages, pages: BufferPages, dac: BOOLEAN],
         BuffersInMemory
  PROVE  CallerBytes \subseteq Addr
<1>1. ASSUME NEW p \in CallerPages PROVE PageBytes(p, 1) \subseteq Addr
  <2>1. p \in Nat /\ PageRange(p, 1) \subseteq Pages
    BY DEF Pages, PageRange
  <2>. QED
    BY <2>1, RangeWithinPages DEF PageBytes
<1>2. ASSUME NEW b \in bufs PROVE PageBytes(b.base, b.pages) \subseteq Addr
  <2>0. b.base \in Pages /\ b.pages \in BufferPages
    OBVIOUS
  <2>1. b.base \in Nat /\ b.pages \in Nat \ {0}
    <3>1. b.base \in Nat
      BY <2>0 DEF Pages
    <3>2. b.pages \in Nat \ {0}
      BY <2>0
    <3>. QED
      BY <3>1, <3>2
  <2>3. PageRange(b.base, b.pages) \subseteq Pages
    BY DEF BuffersInMemory
  <2>2. b.pages * PageSize \in Nat \ {0}
    BY <2>1
  <2>. QED
    BY <2>1, <2>2, <2>3, RangeWithinPages DEF PageBytes
<1>. QED
  BY <1>1, <1>2 DEF CallerBytes

(* Addresses are integers. *)
LEMMA AddrInt == Addr \subseteq Int
  BY DEF Addr

(* A request Map accepts names a range of memory. *)
LEMMA MapInputsInMemory ==
  ASSUME CallerBytes \subseteq Addr, NEW r \in MapInputs
  PROVE  /\ r \in [op: Ops, host: Addr, len: Lengths]
         /\ r.host \in Int /\ r.len \in Nat \ {0}
         /\ Bytes(r.host, r.len) \subseteq Addr
<1>1. /\ r \in [op: Ops, host: Addr, len: Lengths]
      /\ Bytes(r.host, r.len) \subseteq Addr
  BY DEF MapInputs
<1>2. r.host \in Int /\ r.len \in Nat \ {0}
  BY <1>1, AddrInt, Zenon
<1>. QED
  BY <1>1, <1>2

(* The fields of a MAP_INFO record. *)
LEMMA MapRecordFields ==
  ASSUME NEW m \in MapRecords
  PROVE  /\ m.id \in MapIds /\ m.op \in Ops /\ m.host \in Addr
         /\ m.len \in Lengths /\ m.dev \in Addr
         /\ m.id \in Nat /\ m.host \in Int /\ m.len \in Nat \ {0} /\ m.dev \in Int
  BY AddrInt, Zenon DEF MapRecords

DmaTypeInv == TypeOK /\ BuffersInMemory /\ RecordsInMemory

(* A MAP_INFO record Map builds for a request that names memory, with its *)
(* device range in memory, is one of MapRecords.                          *)
LEMMA RecordType ==
  ASSUME NEW id \in MapIds, NEW op \in Ops, NEW host \in Addr,
         NEW len \in Lengths, NEW dev \in Int, Bytes(dev, len) \subseteq Addr
  PROVE  [id |-> id, op |-> op, host |-> host, len |-> len, dev |-> dev]
           \in MapRecords
<1>1. len \in Nat \ {0}
  BY Zenon
<1>2. dev \in Bytes(dev, len)
  BY <1>1 DEF Bytes
<1>. QED
  BY <1>2, Zenon DEF MapRecords

(* Init establishes DmaTypeInv. *)
LEMMA DmaTypeInit == Init => DmaTypeInv
  BY DEF Init, DmaTypeInv, TypeOK, BuffersInMemory, RecordsInMemory, NoRequest,
         Request, Ops, ReadOps, WriteOps, CommonOps, Pages, Addr

(* Every step of the mapping engine, stale Unmaps included, keeps       *)
(* DmaTypeInv.                                                          *)
LEMMA DmaTypeStep == DmaTypeInv /\ [Next]_vars => DmaTypeInv'
<2> SUFFICES ASSUME DmaTypeInv, [Next]_vars PROVE DmaTypeInv'
  OBVIOUS
<2>t. /\ satp \in SatpModes /\ gxl \in BOOLEAN /\ mem \in [Addr -> Nat]
      /\ free \subseteq Pages
      /\ bufs \subseteq [base: Pages, pages: BufferPages, dac: BOOLEAN]
      /\ maps \subseteq MapRecords /\ unmapped \subseteq MapRecords
      /\ devWrote \subseteq MapIds
      /\ refused \in [op: Ops \cup {"None"}, host: Addr, len: Lengths \cup {0}]
      /\ calls \in 0 .. MaxCalls
  BY DEF DmaTypeInv, TypeOK, RecordsInMemory
<2>b. BuffersInMemory
  BY DEF DmaTypeInv
<2>r. \A m \in maps \cup unmapped :
        /\ Bytes(m.dev, m.len) \subseteq Addr
        /\ m.dev # m.host =>
             PageRange(m.dev \div PageSize, SizeToPages(m.len)) \subseteq Pages
  BY DEF DmaTypeInv, RecordsInMemory
<2>c. CallerBytes \subseteq Addr
  BY <2>t, <2>b, CallerBytesInMemory
(* The conclusion, from its parts. *)
<2>q. ASSUME satp' \in SatpModes, gxl' \in BOOLEAN, mem' \in [Addr -> Nat],
             free' \subseteq Pages,
             bufs' \subseteq [base: Pages, pages: BufferPages, dac: BOOLEAN],
             maps' \subseteq MapRecords, unmapped' \subseteq MapRecords,
             devWrote' \subseteq MapIds,
             refused' \in [op: Ops \cup {"None"}, host: Addr, len: Lengths \cup {0}],
             calls' \in 0 .. MaxCalls,
             BuffersInMemory',
             \A m \in maps' \cup unmapped' :
               /\ Bytes(m.dev, m.len) \subseteq Addr
               /\ m.dev # m.host =>
                    PageRange(m.dev \div PageSize, SizeToPages(m.len)) \subseteq Pages
      PROVE  DmaTypeInv'
  BY <2>q DEF DmaTypeInv, TypeOK, RecordsInMemory
<2>n. calls < MaxCalls /\ calls' = calls + 1 => calls' \in 0 .. MaxCalls
  BY <2>t
<2>1. ASSUME NEW r \in MapInputs, NEW id \in MapIds, Map(r, id)
      PROVE  DmaTypeInv'
  <3>. DEFINE n == SizeToPages(r.len)
              rec(dev) == [id |-> id, op |-> r.op, host |-> r.host,
                           len |-> r.len, dev |-> dev]
              fits == MaxAddressFits(n, DmaMemoryTop(r.op, r.host, r.len))
  <3>0. /\ r \in [op: Ops, host: Addr, len: Lengths]
        /\ r.host \in Int /\ r.len \in Nat \ {0}
        /\ Bytes(r.host, r.len) \subseteq Addr
    BY <2>c, MapInputsInMemory
  <3>f. r.op \in Ops /\ r.host \in Addr /\ r.len \in Lengths
    BY <3>0, Zenon
  <3>1. /\ calls' \in 0 .. MaxCalls
        /\ devWrote' \subseteq MapIds
        /\ UNCHANGED <<satp, gxl, bufs, unmapped>>
    BY <2>1, <2>n, <2>t DEF Map, Count
  <3>2. refused' \in [op: Ops \cup {"None"}, host: Addr, len: Lengths \cup {0}]
    <4>1. refused' = r \/ refused' = refused
      BY <2>1, Zenon DEF Map
    <4>2. r \in [op: Ops \cup {"None"}, host: Addr, len: Lengths \cup {0}]
      BY <3>0, Zenon
    <4>. QED
      BY <4>1, <4>2, <2>t, Zenon
  (* The outcomes that leave memory, pages and mappings as they were.  *)
  <3>3. CASE UNCHANGED <<mem, free, maps>>
    BY <3>1, <3>2, <3>3, <2>t, <2>b, <2>r, <2>q DEF BuffersInMemory
  (* A mapping of the caller's buffer itself. *)
  <3>4. CASE maps' = maps \cup {rec(r.host)} /\ UNCHANGED <<mem, free>>
    <4>1. rec(r.host) \in MapRecords
      BY <3>0, <3>f, RecordType, Zenon
    <4>2. Bytes(rec(r.host).dev, rec(r.host).len) \subseteq Addr
          /\ rec(r.host).dev = rec(r.host).host
      BY <3>0, Zenon
    <4>. QED
      BY <3>1, <3>2, <3>4, <4>1, <4>2, <2>t, <2>b, <2>r, <2>q DEF BuffersInMemory
  (* A mapping through a bounce buffer at page p. *)
  <3>5. CASE \E p \in fits :
               /\ free' = free \ PageRange(p, n)
               /\ maps' = maps \cup {rec(p * PageSize)}
               /\ mem' = IF r.op \in ReadOps
                           THEN CopyMem(mem, p * PageSize, r.host, r.len)
                           ELSE mem
    <4>1. PICK p \in fits :
               /\ free' = free \ PageRange(p, n)
               /\ maps' = maps \cup {rec(p * PageSize)}
               /\ mem' = IF r.op \in ReadOps
                           THEN CopyMem(mem, p * PageSize, r.host, r.len)
                           ELSE mem
      BY <3>5
    <4>2. /\ p \in Nat /\ PageRange(p, n) \subseteq Pages
          /\ n \in Nat \ {0} /\ r.len <= n * PageSize
      <5>1. p \in Pages /\ PageRange(p, n) \subseteq free
        BY Zenon DEF MaxAddressFits
      <5>2. p \in Nat /\ PageRange(p, n) \subseteq Pages
        <6>1. p \in Nat
          BY <5>1 DEF Pages
        <6>2. PageRange(p, n) \subseteq Pages
          BY <5>1, <2>t, Zenon
        <6>. QED
          BY <6>1, <6>2
      <5>3. n \in Nat /\ r.len <= n * PageSize /\ n >= 1
        BY <3>0, SizeToPagesCovers
      <5>. QED
        BY <5>2, <5>3
    <4>3. Bytes(p * PageSize, r.len) \subseteq Addr
      BY <4>2, <3>0, RangeWithinPages
    <4>p. p * PageSize \in Int
      BY <4>2
    <4>4. rec(p * PageSize) \in MapRecords
      BY <4>p, <4>3, <3>f, RecordType, Zenon
    <4>5. (p * PageSize) \div PageSize = p
      BY <4>2, PageOfPageAddress
    <4>6. mem' \in [Addr -> Nat]
      <5>1. CopyMem(mem, p * PageSize, r.host, r.len) \in [Addr -> Nat]
        BY <4>p, <3>0, <2>t, CopyMemType
      <5>. QED
        BY <4>1, <5>1, <2>t
    <4>7. /\ Bytes(rec(p * PageSize).dev, rec(p * PageSize).len) \subseteq Addr
          /\ PageRange(rec(p * PageSize).dev \div PageSize,
                       SizeToPages(rec(p * PageSize).len)) \subseteq Pages
      <5>1. rec(p * PageSize).dev = p * PageSize /\ rec(p * PageSize).len = r.len
        OBVIOUS
      <5>. QED
        BY <5>1, <4>2, <4>3, <4>5
    <4>8. /\ maps' \subseteq MapRecords
          /\ \A m \in maps' \cup unmapped' :
               /\ Bytes(m.dev, m.len) \subseteq Addr
               /\ m.dev # m.host =>
                    PageRange(m.dev \div PageSize, SizeToPages(m.len)) \subseteq Pages
      BY <4>1, <4>4, <4>7, <3>1, <2>t, <2>r, Zenon
    <4>. QED
      BY <3>1, <3>2, <4>1, <4>2, <4>6, <4>8, <2>t, <2>b, <2>q DEF BuffersInMemory
  <3>. QED
    BY <2>1, <3>3, <3>4, <3>5 DEF Map
<2>2. ASSUME NEW m \in maps \cup unmapped, Unmap(m) PROVE DmaTypeInv'
  <3>1. /\ calls' \in 0 .. MaxCalls
        /\ UNCHANGED <<satp, gxl, bufs, devWrote, refused>>
        /\ maps' \subseteq maps /\ unmapped' \subseteq unmapped \cup maps
    BY <2>2, <2>n DEF Unmap, Count
  <3>2. m \in MapRecords
    BY <2>t
  <3>3. Release(m) \/ UNCHANGED <<mem, free>>
    BY <2>2 DEF Unmap
  <3>4. mem' \in [Addr -> Nat] /\ free' \subseteq Pages
    <4>1. CASE UNCHANGED <<mem, free>>
      BY <4>1, <2>t
    <4>2. CASE Release(m)
      <5>1. CopyMem(mem, m.host, m.dev, m.len) \in [Addr -> Nat]
        <6>1. m.host \in Int /\ m.dev \in Int /\ m.len \in Nat
          BY <3>2, MapRecordFields
        <6>. QED
          BY <6>1, <2>r, <2>t, CopyMemType
      <5>. QED
        BY <4>2, <5>1, <2>t, <2>r DEF Release
    <4>. QED
      BY <3>3, <4>1, <4>2
  <3>5. \A x \in maps' \cup unmapped' :
          /\ Bytes(x.dev, x.len) \subseteq Addr
          /\ x.dev # x.host =>
               PageRange(x.dev \div PageSize, SizeToPages(x.len)) \subseteq Pages
    BY <3>1, <2>r
  <3>. QED
    BY <3>1, <3>4, <3>5, <2>t, <2>b, <2>q DEF BuffersInMemory
<2>3. ASSUME NEW m \in maps, DeviceWrite(m) PROVE DmaTypeInv'
  <3>0. m \in MapRecords
    BY <2>t
  <3>1. m.id \in Nat /\ m.dev \in Int /\ m.len \in Nat /\ m.id \in MapIds
    BY <3>0, MapRecordFields
  <3>2. mem' \in [Addr -> Nat]
    <4>1. \A a \in Bytes(m.dev, m.len) : Marker(m.id, a - m.dev) \in Nat
      BY <3>1 DEF Marker, Bytes
    <4>2. mem' = [a \in Addr |-> IF a \in Bytes(m.dev, m.len)
                                   THEN Marker(m.id, a - m.dev) ELSE mem[a]]
      BY <2>3, Zenon DEF DeviceWrite
    <4>. QED
      BY <4>1, <4>2, <2>t
  <3>3. /\ UNCHANGED <<satp, gxl, free, bufs, maps, refused, calls, unmapped>>
        /\ devWrote' = devWrote \cup {m.id}
    BY <2>3, Zenon DEF DeviceWrite
  <3>4. devWrote' \subseteq MapIds
    BY <3>1, <3>3, <2>t
  <3>. QED
    BY <3>2, <3>3, <3>4, <2>t, <2>b, <2>r, <2>q DEF BuffersInMemory
<2>4. ASSUME NEW k \in BufferPages, NEW dac \in BOOLEAN, AllocateBuffer(k, dac)
      PROVE  DmaTypeInv'
  <3>. DEFINE fits == MaxAddressFits(k, IF dac THEN MemoryTop
                                            ELSE Min(MemoryTop, Size4G - 1))
  <3>1. /\ calls' \in 0 .. MaxCalls
        /\ UNCHANGED <<satp, gxl, mem, maps, devWrote, refused, unmapped>>
    BY <2>4, <2>n DEF AllocateBuffer, Count
  <3>2. CASE UNCHANGED <<free, bufs>>
    BY <3>1, <3>2, <2>t, <2>b, <2>r, <2>q DEF BuffersInMemory
  <3>3. CASE \E p \in fits :
               /\ free' = free \ PageRange(p, k)
               /\ bufs' = bufs \cup {[base |-> p, pages |-> k, dac |-> dac]}
    <4>1. PICK p \in fits :
               /\ free' = free \ PageRange(p, k)
               /\ bufs' = bufs \cup {[base |-> p, pages |-> k, dac |-> dac]}
      BY <3>3
    <4>2. p \in Pages /\ PageRange(p, k) \subseteq Pages
      BY <2>t DEF MaxAddressFits
    <4>3. BuffersInMemory' /\ bufs' \subseteq [base: Pages, pages: BufferPages, dac: BOOLEAN]
      BY <4>1, <4>2, <2>b, <2>t DEF BuffersInMemory
    <4>. QED
      BY <3>1, <4>1, <4>3, <2>t, <2>r, <2>q
  <3>. QED
    BY <2>4, <3>2, <3>3 DEF AllocateBuffer
<2>5. ASSUME NEW b \in bufs, FreeBuffer(b) PROVE DmaTypeInv'
  <3>1. /\ calls' \in 0 .. MaxCalls
        /\ UNCHANGED <<satp, gxl, mem, maps, devWrote, refused, unmapped>>
        /\ bufs' = bufs \ {b}
        /\ free' = free \cup PageRange(b.base, b.pages)
    BY <2>5, <2>n DEF FreeBuffer, Count
  <3>2. PageRange(b.base, b.pages) \subseteq Pages
    BY <2>b DEF BuffersInMemory
  <3>. QED
    BY <3>1, <3>2, <2>t, <2>b, <2>r, <2>q DEF BuffersInMemory
<2>6. CASE UNCHANGED vars
  BY <2>6 DEF vars, DmaTypeInv, TypeOK, BuffersInMemory, RecordsInMemory
<2>. QED
  BY <2>1, <2>2, <2>3, <2>4, <2>5, <2>6 DEF Next

(* Type correctness of the mapping engine, stale Unmaps included: every  *)
(* reachable state is well typed, every buffer and every MAP_INFO record *)
(* (outstanding or freed) lies in memory, and what Unmap frees is pages  *)
(* of memory.                                                             *)
THEOREM DmaTypeCorrect == Spec => []DmaTypeInv
  BY DmaTypeInit, DmaTypeStep, PTL DEF Spec

(* The type invariant the run checks. *)
THEOREM DmaTypeOK == Spec => []TypeOK
  BY DmaTypeCorrect, PTL DEF DmaTypeInv

-----------------------------------------------------------------------------
(* The device-visible range of every mapping is addressable.             *)

(* RiscVGetIoMmuMemoryTop returns an integer in every satp mode. *)
LEMMA MemoryTopInt == MemoryTop \in Int
  BY DEF MemoryTop

(* The limit IoMmuMap allocates a bounce buffer under is at most the    *)
(* limit DeviceRangeAddressable asks of the device range.                *)
LEMMA DmaMemoryTopBelow ==
  ASSUME NEW op, NEW h \in Int, NEW l \in Int
  PROVE  DmaMemoryTop(op, h, l)
           <= IF op \notin Ops64 /\ h + l > Size4G THEN Size4G - 1 ELSE MemoryTop
  BY MemoryTopInt DEF DmaMemoryTop, Min

(* A step of the mapping engine, stale Unmaps included, keeps every   *)
(* outstanding mapping's device range addressable.                     *)
LEMMA DeviceRangeStep ==
  DmaTypeInv /\ DeviceRangeAddressable /\ [Next]_vars => DeviceRangeAddressable'
<2> SUFFICES ASSUME DmaTypeInv, DeviceRangeAddressable, [Next]_vars
             PROVE  DeviceRangeAddressable'
  OBVIOUS
<2>c. CallerBytes \subseteq Addr
  <3>1. bufs \subseteq [base: Pages, pages: BufferPages, dac: BOOLEAN]
        /\ BuffersInMemory
    BY DEF DmaTypeInv, TypeOK
  <3>. QED
    BY <3>1, CallerBytesInMemory
(* satp and fctl.GXL never change, so neither does the memory top; a  *)
(* step that only drops mappings keeps the property.                   *)
<2>k. ASSUME UNCHANGED <<satp, gxl>>, maps' \subseteq maps
      PROVE  DeviceRangeAddressable'
  BY <2>k DEF DeviceRangeAddressable, MemoryTop
<2>1. ASSUME NEW r \in MapInputs, NEW id \in MapIds, Map(r, id)
      PROVE  DeviceRangeAddressable'
  <3>. DEFINE n == SizeToPages(r.len)
              rec(dev) == [id |-> id, op |-> r.op, host |-> r.host,
                           len |-> r.len, dev |-> dev]
              fits == MaxAddressFits(n, DmaMemoryTop(r.op, r.host, r.len))
              limit == IF r.op \notin Ops64 /\ r.host + r.len > Size4G
                         THEN Size4G - 1 ELSE MemoryTop
  <3>0. /\ r \in [op: Ops, host: Addr, len: Lengths]
        /\ r.host \in Int /\ r.len \in Nat \ {0}
        /\ Bytes(r.host, r.len) \subseteq Addr
    BY <2>c, MapInputsInMemory
  <3>1. UNCHANGED <<satp, gxl>>
    BY <2>1 DEF Map
  (* Adding one record within its limit keeps the property. *)
  <3>2. ASSUME NEW dev \in Int, maps' = maps \cup {rec(dev)},
               dev + r.len - 1 <= limit
        PROVE  DeviceRangeAddressable'
    <4>1. rec(dev).dev + rec(dev).len - 1
            <= IF rec(dev).op \notin Ops64 /\ rec(dev).host + rec(dev).len > Size4G
                 THEN Size4G - 1 ELSE MemoryTop'
      BY <3>1, <3>2 DEF MemoryTop
    <4>. QED
      BY <3>1, <3>2, <4>1 DEF DeviceRangeAddressable, MemoryTop
  <3>3. CASE UNCHANGED maps
    BY <3>1, <3>3, <2>k
  (* Not remapped: the buffer ends below the memory top, below 4 GiB   *)
  (* for a 32-bit operation.                                           *)
  <3>4. CASE ~NeedRemap(r.op, r.host, r.len) /\ maps' = maps \cup {rec(r.host)}
    <4>1. /\ ~(r.host + r.len >= MemoryTop)
          /\ ~(r.op \notin Ops64 /\ r.host + r.len > Size4G)
      BY <3>4, Zenon DEF NeedRemap
    <4>2. limit = MemoryTop
      BY <4>1, Zenon
    <4>3. r.host + r.len - 1 <= MemoryTop
      BY <4>1, <3>0, MemoryTopInt
    <4>. QED
      BY <3>0, <3>4, <4>2, <4>3, <3>2
  (* Remapped: the bounce buffer lies in pages below DmaMemoryTop.    *)
  <3>5. CASE \E p \in fits : maps' = maps \cup {rec(p * PageSize)}
    <4>1. PICK p \in fits : maps' = maps \cup {rec(p * PageSize)}
      BY <3>5
    <4>2. /\ p \in Nat /\ PageRange(p, n) \subseteq Pages
          /\ (p + n) * PageSize - 1 <= DmaMemoryTop(r.op, r.host, r.len)
      <5>1. p \in Pages /\ PageRange(p, n) \subseteq free
            /\ (p + n) * PageSize - 1 <= DmaMemoryTop(r.op, r.host, r.len)
        BY Zenon DEF MaxAddressFits
      <5>2. free \subseteq Pages
        BY DEF DmaTypeInv, TypeOK
      <5>3. p \in Nat
        BY <5>1 DEF Pages
      <5>. QED
        BY <4>1, <5>1, <5>2, <5>3, Zenon
    <4>3. n \in Nat \ {0} /\ r.len <= n * PageSize
      BY <3>0, SizeToPagesCovers
    <4>4. p * PageSize + r.len - 1 <= (p + n) * PageSize - 1
      BY <4>2, <4>3, <3>0, RangeWithinPages
    <4>5. DmaMemoryTop(r.op, r.host, r.len) <= limit
      BY <3>0, DmaMemoryTopBelow
    <4>6. p * PageSize \in Int /\ (p + n) * PageSize - 1 \in Int
          /\ DmaMemoryTop(r.op, r.host, r.len) \in Int /\ limit \in Int
      BY <4>2, <4>3, MemoryTopInt DEF DmaMemoryTop, Min
    <4>. QED
      BY <4>1, <4>2, <4>4, <4>5, <4>6, <3>0, <3>2
  <3>. QED
    BY <2>1, <3>3, <3>4, <3>5 DEF Map
<2>2. ASSUME NEW m \in maps \cup unmapped, Unmap(m)
      PROVE  DeviceRangeAddressable'
  <3>1. UNCHANGED <<satp, gxl>> /\ maps' \subseteq maps
    BY <2>2 DEF Unmap
  <3>. QED
    BY <3>1, <2>k
<2>3. ASSUME NEW m \in maps, DeviceWrite(m) PROVE DeviceRangeAddressable'
  BY <2>3, <2>k DEF DeviceWrite
<2>4. ASSUME NEW k \in BufferPages, NEW dac \in BOOLEAN, AllocateBuffer(k, dac)
      PROVE  DeviceRangeAddressable'
  BY <2>4, <2>k DEF AllocateBuffer
<2>5. ASSUME NEW b \in bufs, FreeBuffer(b) PROVE DeviceRangeAddressable'
  BY <2>5, <2>k DEF FreeBuffer
<2>6. CASE UNCHANGED vars
  BY <2>6, <2>k DEF vars
<2>. QED
  BY <2>1, <2>2, <2>3, <2>4, <2>5, <2>6 DEF Next

(* Every outstanding mapping's device range, from its first to its last *)
(* byte, lies at or below the top a device may address: 4 GiB - 1 for a *)
(* 32-bit operation of a buffer that reaches past 4 GiB, and           *)
(* RiscVGetIoMmuMemoryTop otherwise.  A mapping IoMmuMap does not remap *)
(* is below the top by the remap test (lines 269-279); a remapped one   *)
(* lies in pages AllocatePages found below DmaMemoryTop (line 285).     *)
THEOREM DeviceRangeAddressableHolds == Spec => []DeviceRangeAddressable
<1>1. Init => DeviceRangeAddressable
  BY DEF Init, DeviceRangeAddressable
<1>. QED
  BY <1>1, DeviceRangeStep, DmaTypeCorrect, PTL DEF Spec

-----------------------------------------------------------------------------
(* The page allocator under a caller that keeps the protocol.            *)

(* IoMmuUnmap on a handle Map returned and Unmap has not consumed: the   *)
(* record is live, its Signature check passes and the mapping is         *)
(* released (lines 438-475).  The stale-handle path of Unmap is the      *)
(* caller breaking the protocol, which PagesConserved does not survive.  *)
LiveUnmap(m) == Unmap(m) /\ m \in maps /\ maps' = maps \ {m}

(* The steps of the mapping engine under a caller that passes Unmap only *)
(* handles of outstanding mappings.                                      *)
ProtocolNext ==
  \/ \E r \in MapInputs, id \in MapIds : Map(r, id)
  \/ \E m \in maps : LiveUnmap(m)
  \/ \E m \in maps : DeviceWrite(m)
  \/ \E n \in BufferPages, dac \in BOOLEAN : AllocateBuffer(n, dac)
  \/ \E b \in bufs : FreeBuffer(b)

ProtocolSpec == Init /\ [][ProtocolNext]_vars

(* The pages of the bounce buffer of a remapped mapping. *)
BounceRange(m) == PageRange(m.dev \div PageSize, SizeToPages(m.len))
Remapped(ms) == {x \in ms : x.dev # x.host}

(* Free pages, bounce pages and buffer pages partition the memory the   *)
(* caller does not own.                                                  *)
Partition(F, B, U) ==
  /\ F \cup B \cup U = Pages \ CallerPages
  /\ F \cap B = {} /\ F \cap U = {} /\ B \cap U = {}

(* Bounce buffers start on a page. *)
BounceAligned == \A m \in Remapped(maps) : m.dev = (m.dev \div PageSize) * PageSize

(* No two bounce buffers, and no two allocated buffers, share a page. *)
BouncesDisjoint ==
  \A m1, m2 \in Remapped(maps) :
    m1 # m2 => BounceRange(m1) \cap BounceRange(m2) = {}
BuffersDisjoint ==
  \A b1, b2 \in bufs :
    b1 # b2 => PageRange(b1.base, b1.pages) \cap PageRange(b2.base, b2.pages) = {}

(* PagesConserved, made inductive. *)
PagesInv ==
  /\ Partition(free, BouncePages(maps), BufferPagesHeld(bufs))
  /\ BounceAligned /\ BouncesDisjoint /\ BuffersDisjoint

(* Pages moved from the free list to a bounce buffer or an allocated    *)
(* buffer, or back, keep the partition.                                  *)
LEMMA TakeToBounce ==
  ASSUME NEW F, NEW B, NEW U, NEW R, Partition(F, B, U), R \subseteq F
  PROVE  Partition(F \ R, B \cup R, U)
  BY DEF Partition

LEMMA TakeToBuffer ==
  ASSUME NEW F, NEW B, NEW U, NEW R, Partition(F, B, U), R \subseteq F
  PROVE  Partition(F \ R, B, U \cup R)
  BY DEF Partition

LEMMA ReturnFromBounce ==
  ASSUME NEW F, NEW B, NEW U, NEW R, Partition(F, B \cup R, U), B \cap R = {}
  PROVE  Partition(F \cup R, B, U)
  BY DEF Partition

LEMMA ReturnFromBuffer ==
  ASSUME NEW F, NEW B, NEW U, NEW R, Partition(F, B, U \cup R), U \cap R = {}
  PROVE  Partition(F \cup R, B, U)
  BY DEF Partition

(* The bounce pages of a set of mappings, one mapping added or removed.  *)
LEMMA BounceAdd ==
  ASSUME NEW ms, NEW x
  PROVE  BouncePages(ms \cup {x})
           = BouncePages(ms) \cup (IF x.dev # x.host THEN BounceRange(x) ELSE {})
<1>1. CASE x.dev # x.host
  <2>1. Remapped(ms \cup {x}) = Remapped(ms) \cup {x}
    BY <1>1 DEF Remapped
  <2>. QED
    BY <1>1, <2>1 DEF BouncePages, BounceRange, Remapped
<1>2. CASE x.dev = x.host
  <2>1. Remapped(ms \cup {x}) = Remapped(ms)
    BY <1>2 DEF Remapped
  <2>. QED
    BY <1>2, <2>1 DEF BouncePages, BounceRange, Remapped
<1>. QED
  BY <1>1, <1>2

LEMMA BounceRemove ==
  ASSUME NEW ms, NEW m \in ms,
         \A m1, m2 \in Remapped(ms) :
           m1 # m2 => BounceRange(m1) \cap BounceRange(m2) = {}
  PROVE  /\ BouncePages(ms) = BouncePages(ms \ {m})
                                \cup (IF m.dev # m.host THEN BounceRange(m) ELSE {})
         /\ m.dev # m.host => BouncePages(ms \ {m}) \cap BounceRange(m) = {}
<1>1. ms = (ms \ {m}) \cup {m}
  OBVIOUS
<1>2. BouncePages(ms) = BouncePages(ms \ {m})
                          \cup (IF m.dev # m.host THEN BounceRange(m) ELSE {})
  BY <1>1, BounceAdd
<1>3. ASSUME m.dev # m.host PROVE BouncePages(ms \ {m}) \cap BounceRange(m) = {}
  <2>1. ASSUME NEW y \in Remapped(ms \ {m})
        PROVE  BounceRange(y) \cap BounceRange(m) = {}
    <3>1. y \in Remapped(ms) /\ m \in Remapped(ms) /\ y # m
      BY <1>3 DEF Remapped
    <3>. QED
      BY <3>1
  <2>2. BouncePages(ms \ {m}) = UNION {BounceRange(y) : y \in Remapped(ms \ {m})}
    BY DEF BouncePages, BounceRange, Remapped
  <2>. QED
    BY <2>1, <2>2
<1>. QED
  BY <1>2, <1>3

(* The pages of the allocated buffers, one buffer added or removed. *)
LEMMA BufferAdd ==
  ASSUME NEW bs, NEW b
  PROVE  BufferPagesHeld(bs \cup {b}) = BufferPagesHeld(bs) \cup PageRange(b.base, b.pages)
  BY DEF BufferPagesHeld

LEMMA BufferRemove ==
  ASSUME NEW bs, NEW b \in bs,
         \A b1, b2 \in bs :
           b1 # b2 => PageRange(b1.base, b1.pages) \cap PageRange(b2.base, b2.pages) = {}
  PROVE  /\ BufferPagesHeld(bs) = BufferPagesHeld(bs \ {b}) \cup PageRange(b.base, b.pages)
         /\ BufferPagesHeld(bs \ {b}) \cap PageRange(b.base, b.pages) = {}
  BY DEF BufferPagesHeld


(* A byte of k pages from page q lies on one of those pages. *)
LEMMA PageOfByte ==
  ASSUME NEW q \in Nat, NEW k \in Nat, NEW a \in PageBytes(q, k)
  PROVE  a \div PageSize \in PageRange(q, k)
<1>1. a \in Int /\ q * PageSize <= a /\ a <= q * PageSize + k * PageSize - 1
  BY DEF PageBytes, Bytes
<1>2. q <= a \div PageSize
  BY <1>1
<1>3. a \div PageSize <= q + k - 1
  BY <1>1
<1>4. a \div PageSize \in Int
  BY <1>1
<1>. QED
  BY <1>2, <1>3, <1>4 DEF PageRange

(* A byte of a range that starts on page q lies on the pages the range *)
(* rounds up to.                                                       *)
LEMMA BytesInBounce ==
  ASSUME NEW q \in Nat, NEW len \in Nat \ {0}, NEW a \in Bytes(q * PageSize, len)
  PROVE  a \div PageSize \in PageRange(q, SizeToPages(len))
<1>1. SizeToPages(len) \in Nat /\ len <= SizeToPages(len) * PageSize
  BY SizeToPagesCovers
<1>2. a \in PageBytes(q, SizeToPages(len))
  BY <1>1 DEF PageBytes, Bytes
<1>. QED
  BY <1>1, <1>2, PageOfByte


(* A byte the caller owns lies on one of its own pages or on a page of  *)
(* one of its buffers.                                                   *)
LEMMA CallerBytePage ==
  ASSUME bufs \subseteq [base: Pages, pages: BufferPages, dac: BOOLEAN],
         NEW a \in CallerBytes
  PROVE  a \div PageSize \in CallerPages \cup BufferPagesHeld(bufs)
<1>1. CASE \E p \in CallerPages : a \in PageBytes(p, 1)
  <2>1. PICK p \in CallerPages : a \in PageBytes(p, 1)
    BY <1>1
  <2>2. p \in Nat
    BY DEF Pages
  <2>3. a \div PageSize \in PageRange(p, 1)
    BY <2>1, <2>2, PageOfByte
  <2>4. a \div PageSize = p
    BY <2>2, <2>3 DEF PageRange
  <2>. QED
    BY <2>1, <2>4
<1>2. CASE \E b \in bufs : a \in PageBytes(b.base, b.pages)
  <2>1. PICK b \in bufs : a \in PageBytes(b.base, b.pages)
    BY <1>2
  <2>2. b.base \in Nat /\ b.pages \in Nat
    <3>1. b.base \in Pages /\ b.pages \in BufferPages
      BY Zenon
    <3>2. b.base \in Nat
      BY <3>1 DEF Pages
    <3>3. b.pages \in Nat
      BY <3>1, Zenon
    <3>. QED
      BY <3>2, <3>3
  <2>3. a \div PageSize \in PageRange(b.base, b.pages)
    BY <2>1, <2>2, PageOfByte
  <2>. QED
    BY <2>3 DEF BufferPagesHeld
<1>. QED
  BY <1>1, <1>2 DEF CallerBytes

(* A byte of the device range of a bounce buffer lies on its pages. *)
LEMMA BounceBytePage ==
  ASSUME maps \subseteq MapRecords, BounceAligned,
         NEW m \in Remapped(maps), NEW a \in Bytes(m.dev, m.len)
  PROVE  a \div PageSize \in BounceRange(m)
<1>1. m.dev \in Nat /\ m.len \in Nat \ {0}
  <2>1. m \in MapRecords
    BY DEF Remapped
  <2>2. m.dev \in Addr /\ m.len \in Nat \ {0}
    BY <2>1, MapRecordFields
  <2>. QED
    BY <2>2 DEF Addr
<1>2. m.dev = (m.dev \div PageSize) * PageSize
  BY DEF BounceAligned
<1>3. m.dev \div PageSize \in Nat
  BY <1>1
<1>4. a \in Bytes((m.dev \div PageSize) * PageSize, m.len)
  BY <1>2
<1>. QED
  BY <1>1, <1>3, <1>4, BytesInBounce DEF BounceRange

(* Bounce buffers on disjoint pages, each starting on its first page,   *)
(* have disjoint device ranges: PagesInv gives PagesConserved.           *)
LEMMA PagesInvConserved ==
  ASSUME maps \subseteq MapRecords, PagesInv
  PROVE  PagesConserved
<1>1. ASSUME NEW m1 \in maps, NEW m2 \in maps, m1 # m2,
             m1.dev # m1.host, m2.dev # m2.host
      PROVE  Bytes(m1.dev, m1.len) \cap Bytes(m2.dev, m2.len) = {}
  <2>1. m1 \in Remapped(maps) /\ m2 \in Remapped(maps)
    BY <1>1 DEF Remapped
  <2>2. BounceRange(m1) \cap BounceRange(m2) = {}
    BY <1>1, <2>1 DEF PagesInv, BouncesDisjoint
  <2>3. \A m \in Remapped(maps) : \A a \in Bytes(m.dev, m.len) :
          a \div PageSize \in BounceRange(m)
    BY BounceBytePage DEF PagesInv
  <2>. QED
    BY <2>1, <2>2, <2>3
<1>. QED
  BY <1>1 DEF PagesInv, Partition, PagesConserved

(* A caller that keeps the protocol takes steps of the mapping engine. *)
LEMMA ProtocolNextIsNext == [ProtocolNext]_vars => [Next]_vars
  BY DEF ProtocolNext, Next, LiveUnmap


(* Every step of a caller that keeps the protocol keeps PagesInv: Map   *)
(* moves the pages of a bounce buffer from the free list, Unmap and     *)
(* FreeBuffer return them, AllocateBuffer takes a buffer's pages.        *)
LEMMA PagesInvStep == DmaTypeInv /\ PagesInv /\ [ProtocolNext]_vars => PagesInv'
<2> SUFFICES ASSUME DmaTypeInv, PagesInv, [ProtocolNext]_vars PROVE PagesInv'
  OBVIOUS
<2>t. /\ free \subseteq Pages
      /\ bufs \subseteq [base: Pages, pages: BufferPages, dac: BOOLEAN]
      /\ maps \subseteq MapRecords
      /\ BuffersInMemory
  BY DEF DmaTypeInv, TypeOK
<2>c. CallerBytes \subseteq Addr
  BY <2>t, CallerBytesInMemory
<2>p. Partition(free, BouncePages(maps), BufferPagesHeld(bufs))
  BY DEF PagesInv
<2>a. BounceAligned
  BY DEF PagesInv
<2>d. BouncesDisjoint
  BY DEF PagesInv
<2>e. BuffersDisjoint
  BY DEF PagesInv
(* A step that leaves the free list, the mappings and the buffers alone. *)
<2>k. ASSUME UNCHANGED <<free, maps, bufs>> PROVE PagesInv'
  BY <2>k, <2>p, <2>a, <2>d, <2>e
     DEF PagesInv, BounceAligned, BouncesDisjoint, BuffersDisjoint
<2>1. ASSUME NEW r \in MapInputs, NEW id \in MapIds, Map(r, id) PROVE PagesInv'
  <3>. DEFINE n == SizeToPages(r.len)
              rec(dev) == [id |-> id, op |-> r.op, host |-> r.host,
                           len |-> r.len, dev |-> dev]
              fits == MaxAddressFits(n, DmaMemoryTop(r.op, r.host, r.len))
              B == BouncePages(maps)
              U == BufferPagesHeld(bufs)
  <3>0. /\ r.host \in Int /\ r.len \in Nat \ {0}
        /\ r.host \in CallerBytes
    <4>1. r.host \in Int /\ r.len \in Nat \ {0}
      BY <2>c, MapInputsInMemory
    <4>2. r.host \in CallerBytes
      BY Zenon DEF MapInputs
    <4>. QED
      BY <4>1, <4>2
  <3>u. UNCHANGED bufs
    BY <2>1 DEF Map
  <3>1. CASE UNCHANGED <<free, maps>>
    BY <3>1, <3>u, <2>k
  (* Mapped in place: the record is not a bounce buffer. *)
  <3>2. CASE maps' = maps \cup {rec(r.host)} /\ UNCHANGED free
    <4>0. rec(r.host).dev = rec(r.host).host
      OBVIOUS
    <4>1. BouncePages(maps') = B
      BY <3>2, <4>0, BounceAdd
    <4>2. Remapped(maps') = Remapped(maps)
      BY <3>2, <4>0 DEF Remapped
    <4>. QED
      BY <4>1, <4>2, <3>2, <3>u, <2>p, <2>a, <2>d, <2>e
         DEF PagesInv, BounceAligned, BouncesDisjoint, BuffersDisjoint
  (* Remapped: the pages of the bounce buffer leave the free list. *)
  <3>3. CASE \E p \in fits : /\ free' = free \ PageRange(p, n)
                             /\ maps' = maps \cup {rec(p * PageSize)}
    <4>1. PICK p \in fits : /\ free' = free \ PageRange(p, n)
                            /\ maps' = maps \cup {rec(p * PageSize)}
      BY <3>3
    <4>2. /\ p \in Nat /\ PageRange(p, n) \subseteq free
          /\ n \in Nat \ {0}
      <5>1. p \in Pages /\ PageRange(p, n) \subseteq free
        BY Zenon DEF MaxAddressFits
      <5>2. p \in Nat
        BY <5>1 DEF Pages
      <5>3. n \in Nat /\ n >= 1
        BY <3>0, SizeToPagesCovers
      <5>. QED
        BY <5>1, <5>2, <5>3
    <4>3. p \in free
      <5>1. p \in PageRange(p, n)
        BY <4>2 DEF PageRange
      <5>. QED
        BY <5>1, <4>2
    <4>4. (p * PageSize) \div PageSize = p
      BY <4>2, PageOfPageAddress
    (* The bounce buffer is not the caller's buffer: its page is free,   *)
    (* the caller's bytes lie on its own pages and its buffers.          *)
    <4>5. p * PageSize # r.host
      <5>1. r.host \div PageSize \in CallerPages \cup U
        BY <3>0, <2>t, CallerBytePage
      <5>2. p \notin CallerPages \cup U
        BY <4>3, <2>p DEF Partition
      <5>. QED
        BY <5>1, <5>2, <4>4
    <4>6. BounceRange(rec(p * PageSize)) = PageRange(p, n)
      BY <4>4 DEF BounceRange
    <4>7. BouncePages(maps') = B \cup PageRange(p, n)
      BY <4>1, <4>5, <4>6, BounceAdd
    <4>8. Partition(free', BouncePages(maps'), BufferPagesHeld(bufs'))
      <5>1. Partition(free \ PageRange(p, n), B \cup PageRange(p, n), U)
        BY <4>2, <2>p, TakeToBounce
      <5>2. BufferPagesHeld(bufs') = U
        BY <3>u
      <5>3. free' = free \ PageRange(p, n)
        BY <4>1
      <5>. QED
        BY <5>1, <5>2, <5>3, <4>7
    <4>9. Remapped(maps') = Remapped(maps) \cup {rec(p * PageSize)}
      BY <4>1, <4>5 DEF Remapped
    <4>10. BounceAligned'
      BY <4>9, <4>4, <2>a DEF BounceAligned
    <4>11. BouncesDisjoint'
      <5>1. \A m \in Remapped(maps) : BounceRange(m) \subseteq B
        BY DEF BouncePages, BounceRange, Remapped
      <5>2. PageRange(p, n) \cap B = {}
        BY <4>2, <2>p DEF Partition
      <5>. QED
        BY <4>9, <4>6, <5>1, <5>2, <2>d DEF BouncesDisjoint
    <4>. QED
      BY <4>8, <4>10, <4>11, <3>u, <2>e DEF PagesInv, BuffersDisjoint
  <3>. QED
    BY <2>1, <3>1, <3>2, <3>3 DEF Map
<2>2. ASSUME NEW m \in maps, LiveUnmap(m) PROVE PagesInv'
  <3>1. maps' = maps \ {m} /\ UNCHANGED bufs /\ Release(m)
    BY <2>2, Zenon DEF LiveUnmap, Unmap
  <3>2. Remapped(maps') \subseteq Remapped(maps)
    BY <3>1 DEF Remapped
  <3>3. BounceAligned' /\ BouncesDisjoint' /\ BuffersDisjoint'
    BY <3>1, <3>2, <2>a, <2>d, <2>e
       DEF BounceAligned, BouncesDisjoint, BuffersDisjoint
  <3>4. BouncePages(maps) = BouncePages(maps \ {m})
                              \cup (IF m.dev # m.host THEN BounceRange(m) ELSE {})
        /\ (m.dev # m.host => BouncePages(maps \ {m}) \cap BounceRange(m) = {})
    BY <2>d, BounceRemove DEF BouncesDisjoint
  <3>5. BufferPagesHeld(bufs') = BufferPagesHeld(bufs)
    BY <3>1
  (* A bounce buffer's pages go back to the free list. *)
  <3>6. CASE m.dev # m.host
    <4>1. free' = free \cup BounceRange(m)
      BY <3>1, <3>6 DEF Release, BounceRange
    <4>2. Partition(free \cup BounceRange(m), BouncePages(maps \ {m}),
                    BufferPagesHeld(bufs))
      BY <3>4, <3>6, <2>p, ReturnFromBounce
    <4>. QED
      BY <4>1, <4>2, <3>1, <3>3, <3>5 DEF PagesInv
  <3>7. CASE m.dev = m.host
    <4>1. free' = free
      BY <3>1, <3>7 DEF Release
    <4>2. BouncePages(maps') = BouncePages(maps)
      BY <3>1, <3>4, <3>7
    <4>. QED
      BY <4>1, <4>2, <3>3, <3>5, <2>p DEF PagesInv
  <3>. QED
    BY <3>6, <3>7
<2>3. ASSUME NEW m \in maps, DeviceWrite(m) PROVE PagesInv'
  BY <2>3, <2>k DEF DeviceWrite
<2>4. ASSUME NEW k \in BufferPages, NEW dac \in BOOLEAN, AllocateBuffer(k, dac)
      PROVE  PagesInv'
  <3>. DEFINE fits == MaxAddressFits(k, IF dac THEN MemoryTop
                                            ELSE Min(MemoryTop, Size4G - 1))
              B == BouncePages(maps)
              U == BufferPagesHeld(bufs)
  <3>1. UNCHANGED maps
    BY <2>4 DEF AllocateBuffer
  <3>2. CASE UNCHANGED <<free, bufs>>
    BY <3>1, <3>2, <2>k
  (* The buffer's pages leave the free list. *)
  <3>3. CASE \E p \in fits :
               /\ free' = free \ PageRange(p, k)
               /\ bufs' = bufs \cup {[base |-> p, pages |-> k, dac |-> dac]}
    <4>1. PICK p \in fits :
               /\ free' = free \ PageRange(p, k)
               /\ bufs' = bufs \cup {[base |-> p, pages |-> k, dac |-> dac]}
      BY <3>3
    <4>2. PageRange(p, k) \subseteq free
      BY Zenon DEF MaxAddressFits
    <4>3. BufferPagesHeld(bufs') = U \cup PageRange(p, k)
      BY <4>1, BufferAdd
    <4>4. Partition(free', BouncePages(maps'), BufferPagesHeld(bufs'))
      <5>1. Partition(free \ PageRange(p, k), B, U \cup PageRange(p, k))
        BY <4>2, <2>p, TakeToBuffer
      <5>. QED
        BY <5>1, <4>1, <4>3, <3>1
    <4>5. BuffersDisjoint'
      <5>1. \A b \in bufs : PageRange(b.base, b.pages) \subseteq U
        BY DEF BufferPagesHeld
      <5>2. PageRange(p, k) \cap U = {}
        BY <4>2, <2>p DEF Partition
      <5>. QED
        BY <4>1, <5>1, <5>2, <2>e DEF BuffersDisjoint
    <4>. QED
      BY <4>4, <4>5, <3>1, <2>a, <2>d DEF PagesInv, BounceAligned, BouncesDisjoint
  <3>. QED
    BY <2>4, <3>2, <3>3 DEF AllocateBuffer
<2>5. ASSUME NEW b \in bufs, FreeBuffer(b) PROVE PagesInv'
  <3>1. /\ bufs' = bufs \ {b}
        /\ free' = free \cup PageRange(b.base, b.pages)
        /\ UNCHANGED maps
    BY <2>5 DEF FreeBuffer
  <3>2. /\ BufferPagesHeld(bufs) = BufferPagesHeld(bufs \ {b})
                                     \cup PageRange(b.base, b.pages)
        /\ BufferPagesHeld(bufs \ {b}) \cap PageRange(b.base, b.pages) = {}
    BY <2>e, BufferRemove DEF BuffersDisjoint
  <3>3. Partition(free \cup PageRange(b.base, b.pages), BouncePages(maps),
                  BufferPagesHeld(bufs \ {b}))
    BY <3>2, <2>p, ReturnFromBuffer
  <3>4. BuffersDisjoint'
    BY <3>1, <2>e DEF BuffersDisjoint
  <3>. QED
    BY <3>1, <3>3, <3>4, <2>a, <2>d DEF PagesInv, BounceAligned, BouncesDisjoint
<2>6. CASE UNCHANGED vars
  BY <2>6, <2>k DEF vars
<2>. QED
  BY <2>1, <2>2, <2>3, <2>4, <2>5, <2>6 DEF ProtocolNext


(* Under a caller that passes IoMmuUnmap only handles of outstanding    *)
(* mappings, no page is ever lost or handed out twice, for every size   *)
(* of memory and every number of calls: the free list of AllocatePages  *)
(* (lines 327-337 of IoMmuMap), the bounce buffers of outstanding        *)
(* mappings and the buffers of IoMmuAllocateBuffer partition the memory  *)
(* the caller does not own, and no two bounce buffers overlap.  With a  *)
(* stale handle the property fails (run dma_stale_unmap).                *)
THEOREM PagesConservedUnderProtocol == ProtocolSpec => []PagesConserved
<1>1. Init => PagesInv
  BY DEF Init, PagesInv, Partition, BouncePages, BufferPagesHeld,
         BounceAligned, BouncesDisjoint, BuffersDisjoint, Remapped
<1>2. ProtocolSpec => []DmaTypeInv
  BY DmaTypeInit, DmaTypeStep, ProtocolNextIsNext, PTL DEF ProtocolSpec
<1>3. ProtocolSpec => []PagesInv
  BY <1>1, <1>2, PagesInvStep, PTL DEF ProtocolSpec
<1>4. DmaTypeInv /\ PagesInv => PagesConserved
  BY PagesInvConserved DEF DmaTypeInv, TypeOK
<1>. QED
  BY <1>2, <1>3, <1>4, PTL


-----------------------------------------------------------------------------
(* Read mappings under a caller that keeps the protocol.                 *)

(* The host range of every outstanding mapping is the caller's, and no   *)
(* two outstanding mappings share a host byte: Map takes only owned      *)
(* bytes no mapping covers, and FreeBuffer frees only a buffer no        *)
(* mapping uses.                                                         *)
HostsOwned == \A m \in maps : Bytes(m.host, m.len) \subseteq CallerBytes
HostsDisjoint ==
  \A m1, m2 \in maps :
    m1 # m2 => Bytes(m1.host, m1.len) \cap Bytes(m2.host, m2.len) = {}

(* ReadMappingCoherent, made inductive. *)
CoherentInv == ReadMappingCoherent /\ HostsOwned /\ HostsDisjoint


(* A byte the caller owns is neither free nor on a bounce buffer. *)
LEMMA CallerByteNotPool ==
  ASSUME DmaTypeInv, PagesInv, NEW a \in CallerBytes
  PROVE  a \div PageSize \notin free \cup BouncePages(maps)
<1>1. a \div PageSize \in CallerPages \cup BufferPagesHeld(bufs)
  <2>1. bufs \subseteq [base: Pages, pages: BufferPages, dac: BOOLEAN]
    BY DEF DmaTypeInv, TypeOK
  <2>. QED
    BY <2>1, CallerBytePage
<1>2. Partition(free, BouncePages(maps), BufferPagesHeld(bufs))
  BY DEF PagesInv
<1>. QED
  BY <1>1, <1>2 DEF Partition

(* A byte of the device range of a bounce buffer lies on a bounce page, *)
(* so the caller does not own it.                                        *)
LEMMA BounceByteNotCaller ==
  ASSUME DmaTypeInv, PagesInv, NEW m \in Remapped(maps),
         NEW a \in Bytes(m.dev, m.len)
  PROVE  a \div PageSize \in BouncePages(maps) /\ a \notin CallerBytes
<1>1. a \div PageSize \in BounceRange(m)
  <2>1. maps \subseteq MapRecords /\ BounceAligned
    BY DEF DmaTypeInv, TypeOK, PagesInv
  <2>. QED
    BY <2>1, BounceBytePage
<1>2. BounceRange(m) \subseteq BouncePages(maps)
  BY DEF BouncePages, BounceRange, Remapped
<1>3. a \notin CallerBytes
  BY <1>1, <1>2, CallerByteNotPool
<1>. QED
  BY <1>1, <1>2, <1>3

(* CopyMem changes only the bytes of its destination. *)
LEMMA CopyMemOutside ==
  ASSUME NEW f, NEW dst, NEW src, NEW n, NEW a \in Addr, a \notin Bytes(dst, n)
  PROVE  CopyMem(f, dst, src, n)[a] = f[a]
  BY DEF CopyMem

(* A step that leaves both ranges of a coherent read mapping alone     *)
(* keeps it coherent.                                                     *)
LEMMA ReadFrame ==
  ASSUME NEW m \in MapRecords,
         \A i \in 0 .. m.len - 1 : mem[m.dev + i] = mem[m.host + i],
         \A a \in Bytes(m.host, m.len) \cup Bytes(m.dev, m.len) : mem'[a] = mem[a]
  PROVE  \A i \in 0 .. m.len - 1 : mem'[m.dev + i] = mem'[m.host + i]
<1> SUFFICES ASSUME NEW i \in 0 .. m.len - 1
             PROVE  mem'[m.dev + i] = mem'[m.host + i]
  OBVIOUS
<1>1. m.dev \in Int /\ m.host \in Int /\ m.len \in Nat
  BY MapRecordFields
<1>2. m.dev + i \in Bytes(m.dev, m.len) /\ m.host + i \in Bytes(m.host, m.len)
  BY <1>1 DEF Bytes
<1>. QED
  BY <1>2

(* Every step of a caller that keeps the protocol keeps CoherentInv.    *)
(* What a step writes (a bounce buffer on free pages, a host buffer on  *)
(* copy-back, the device range of a write mapping) never touches either *)
(* range of another outstanding read mapping.                           *)
LEMMA CoherentStep ==
  DmaTypeInv /\ PagesInv /\ CoherentInv /\ [ProtocolNext]_vars => CoherentInv'
<2> SUFFICES ASSUME DmaTypeInv, PagesInv, CoherentInv, [ProtocolNext]_vars
             PROVE  CoherentInv'
  OBVIOUS
<2>t. /\ mem \in [Addr -> Nat] /\ maps \subseteq MapRecords
      /\ bufs \subseteq [base: Pages, pages: BufferPages, dac: BOOLEAN]
      /\ BuffersInMemory
      /\ \A m \in maps : Bytes(m.dev, m.len) \subseteq Addr
  BY DEF DmaTypeInv, TypeOK
<2>c. CallerBytes \subseteq Addr
  BY <2>t, CallerBytesInMemory
<2>r. ReadMappingCoherent
  BY DEF CoherentInv
<2>o. HostsOwned
  BY DEF CoherentInv
<2>h. HostsDisjoint
  BY DEF CoherentInv
<2>p. Partition(free, BouncePages(maps), BufferPagesHeld(bufs))
  BY DEF PagesInv
(* The device range of a mapping is its host range, or lies on bounce   *)
(* pages the caller does not own.                                        *)
<2>dv. ASSUME NEW m \in maps, m.dev # m.host, NEW a \in Bytes(m.dev, m.len)
       PROVE  a \notin CallerBytes /\ a \div PageSize \in BouncePages(maps)
  <3>1. m \in Remapped(maps)
    BY <2>dv DEF Remapped
  <3>. QED
    BY <3>1, BounceByteNotCaller
(* A step that changes neither memory, the mappings nor the buffers. *)
<2>k. ASSUME UNCHANGED <<mem, maps, bufs>> PROVE CoherentInv'
  BY <2>k, <2>r, <2>o, <2>h
     DEF CoherentInv, ReadMappingCoherent, HostsOwned, HostsDisjoint, CallerBytes
<2>1. ASSUME NEW r \in MapInputs, NEW id \in MapIds, Map(r, id) PROVE CoherentInv'
  <3>. DEFINE n == SizeToPages(r.len)
              rec(dev) == [id |-> id, op |-> r.op, host |-> r.host,
                           len |-> r.len, dev |-> dev]
              fits == MaxAddressFits(n, DmaMemoryTop(r.op, r.host, r.len))
              owned == CallerBytes \ UNION {Bytes(m.host, m.len) : m \in maps}
  <3>0. /\ r.host \in Int /\ r.len \in Nat \ {0}
        /\ Bytes(r.host, r.len) \subseteq owned
    <4>1. r.host \in Int /\ r.len \in Nat \ {0}
      BY <2>c, MapInputsInMemory
    <4>2. Bytes(r.host, r.len) \subseteq owned
      BY Zenon DEF MapInputs
    <4>. QED
      BY <4>1, <4>2
  <3>u. UNCHANGED bufs
    BY <2>1 DEF Map
  <3>cb. CallerBytes' = CallerBytes
    BY <3>u DEF CallerBytes
  (* The new mapping's host range is owned and no other mapping's. *)
  <3>hx. ASSUME NEW dev, maps' = maps \cup {rec(dev)} PROVE HostsOwned' /\ HostsDisjoint'
    <4>1. rec(dev).host = r.host /\ rec(dev).len = r.len
      OBVIOUS
    <4>2. HostsOwned'
      BY <3>hx, <4>1, <3>0, <3>cb, <2>o DEF HostsOwned
    <4>3. HostsDisjoint'
      BY <3>hx, <4>1, <3>0, <2>h DEF HostsDisjoint
    <4>. QED
      BY <4>2, <4>3
  <3>1. CASE UNCHANGED <<mem, maps>>
    BY <3>1, <3>u, <2>k
  <3>2. CASE maps' = maps \cup {rec(r.host)} /\ UNCHANGED mem
    <4>1. ReadMappingCoherent'
      BY <3>2, <2>r DEF ReadMappingCoherent
    <4>. QED
      BY <4>1, <3>2, <3>hx DEF CoherentInv
  (* A bounce buffer: a read operation copies the host buffer into it.  *)
  <3>3. CASE \E p \in fits :
               /\ free' = free \ PageRange(p, n)
               /\ maps' = maps \cup {rec(p * PageSize)}
               /\ mem' = IF r.op \in ReadOps
                           THEN CopyMem(mem, p * PageSize, r.host, r.len)
                           ELSE mem
    <4>1. PICK p \in fits :
               /\ free' = free \ PageRange(p, n)
               /\ maps' = maps \cup {rec(p * PageSize)}
               /\ mem' = IF r.op \in ReadOps
                           THEN CopyMem(mem, p * PageSize, r.host, r.len)
                           ELSE mem
      BY <3>3
    <4>. DEFINE W == Bytes(p * PageSize, r.len)
    <4>2. /\ p \in Nat /\ PageRange(p, n) \subseteq free
          /\ PageRange(p, n) \subseteq Pages /\ n \in Nat \ {0}
          /\ r.len <= n * PageSize
      <5>1. p \in Pages /\ PageRange(p, n) \subseteq free
        BY Zenon DEF MaxAddressFits
      <5>2. p \in Nat
        BY <5>1 DEF Pages
      <5>3. free \subseteq Pages
        BY DEF DmaTypeInv, TypeOK
      <5>4. n \in Nat /\ n >= 1 /\ r.len <= n * PageSize
        BY <3>0, SizeToPagesCovers
      <5>5. n \in Nat \ {0}
        BY <5>4
      <5>. QED
        BY <5>1, <5>2, <5>3, <5>4, <5>5, Zenon
    <4>3. W \subseteq Addr
      BY <4>2, <3>0, RangeWithinPages
    (* The bounce buffer's bytes lie on free pages: no one else's. *)
    <4>4. ASSUME NEW a \in W
          PROVE  /\ a \notin CallerBytes
                 /\ \A m \in maps : a \notin Bytes(m.dev, m.len)
      <5>1. a \div PageSize \in free
        BY <4>2, <3>0, BytesInBounce
      <5>2. a \notin CallerBytes
        BY <5>1, CallerByteNotPool
      <5>3. ASSUME NEW m \in maps, a \in Bytes(m.dev, m.len) PROVE FALSE
        <6>1. CASE m.dev = m.host
          BY <6>1, <5>3, <5>2, <2>o DEF HostsOwned
        <6>2. CASE m.dev # m.host
          BY <6>2, <5>3, <5>1, <2>dv, <2>p DEF Partition
        <6>. QED
          BY <6>1, <6>2
      <5>. QED
        BY <5>2, <5>3
    <4>5. \A a \in Addr \ W : mem'[a] = mem[a]
      BY <4>1, CopyMemOutside
    <4>6. \A m \in maps : m.op \in ReadOps =>
            \A i \in 0 .. m.len - 1 : mem'[m.dev + i] = mem'[m.host + i]
      <5>1. \A m \in maps : m.op \in ReadOps =>
              /\ Bytes(m.host, m.len) \subseteq Addr \ W
              /\ Bytes(m.dev, m.len) \subseteq Addr \ W
        BY <4>4, <2>o, <2>c, <2>t DEF HostsOwned
      <5>. QED
          <6> SUFFICES ASSUME NEW m \in maps, m.op \in ReadOps
                       PROVE  \A i \in 0 .. m.len - 1 : mem'[m.dev + i] = mem'[m.host + i]
            OBVIOUS
          <6>1. m \in MapRecords
            BY <2>t
          <6>2. \A i \in 0 .. m.len - 1 : mem[m.dev + i] = mem[m.host + i]
            BY <2>r DEF ReadMappingCoherent
          <6>3. \A a \in Bytes(m.host, m.len) \cup Bytes(m.dev, m.len) : mem'[a] = mem[a]
            BY <5>1, <4>5
          <6>. QED
            BY <6>1, <6>2, <6>3, ReadFrame
    (* The new read mapping: its bounce buffer holds the host bytes. *)
    <4>7. r.op \in ReadOps =>
            \A i \in 0 .. r.len - 1 : mem'[p * PageSize + i] = mem'[r.host + i]
      <5> SUFFICES ASSUME r.op \in ReadOps, NEW i \in 0 .. r.len - 1
                   PROVE  mem'[p * PageSize + i] = mem'[r.host + i]
        OBVIOUS
      <5>1. mem' = CopyMem(mem, p * PageSize, r.host, r.len)
        BY <4>1
      <5>0. p * PageSize \in Int /\ r.len \in Nat /\ i \in 0 .. r.len - 1
        BY <4>2, <3>0
      <5>a. p * PageSize + i \in W
        BY <5>0 DEF Bytes
      <5>2. p * PageSize + i \in Addr
        BY <5>a, <4>3
      <5>b. r.host \in Int
        BY <3>0
      <5>c. CopyMem(mem, p * PageSize, r.host, r.len)[p * PageSize + i] = mem[r.host + i]
        <6>1. /\ p * PageSize + i \in Bytes(p * PageSize, r.len)
              /\ r.host + ((p * PageSize + i) - p * PageSize) = r.host + i
          BY <5>0, <5>b DEF Bytes
        <6>. QED
          BY <6>1, <5>2 DEF CopyMem
      <5>3. mem'[p * PageSize + i] = mem[r.host + i]
        BY <5>1, <5>c
      <5>4. r.host + i \in CallerBytes \ W
        <6>1. r.host + i \in Bytes(r.host, r.len)
          BY <3>0 DEF Bytes
        <6>. QED
          BY <6>1, <3>0, <4>4
      <5>5. mem'[r.host + i] = mem[r.host + i]
        BY <5>4, <2>c, <4>5
      <5>. QED
        BY <5>3, <5>5
    <4>8. ReadMappingCoherent'
      <5>1. rec(p * PageSize).dev = p * PageSize /\ rec(p * PageSize).host = r.host
            /\ rec(p * PageSize).len = r.len /\ rec(p * PageSize).op = r.op
        OBVIOUS
      <5>. QED
        BY <4>1, <4>6, <4>7, <5>1 DEF ReadMappingCoherent
    <4>. QED
      BY <4>1, <4>8, <3>hx DEF CoherentInv
  <3>. QED
    BY <2>1, <3>1, <3>2, <3>3 DEF Map
<2>2. ASSUME NEW m2 \in maps, LiveUnmap(m2) PROVE CoherentInv'
  <3>1. maps' = maps \ {m2} /\ UNCHANGED bufs /\ Release(m2)
    BY <2>2, Zenon DEF LiveUnmap, Unmap
  <3>2. HostsOwned' /\ HostsDisjoint'
    <4>1. CallerBytes' = CallerBytes
      BY <3>1 DEF CallerBytes
    <4>. QED
      BY <3>1, <4>1, <2>o, <2>h DEF HostsOwned, HostsDisjoint
  (* Copy-back writes only the host buffer of the mapping released. *)
  <3>3. \A a \in Addr \ Bytes(m2.host, m2.len) : mem'[a] = mem[a]
    BY <3>1, CopyMemOutside DEF Release
  <3>4. \A m \in maps \ {m2} : m.op \in ReadOps =>
          /\ Bytes(m.host, m.len) \subseteq Addr \ Bytes(m2.host, m2.len)
          /\ Bytes(m.dev, m.len) \subseteq Addr \ Bytes(m2.host, m2.len)
    <4> SUFFICES ASSUME NEW m \in maps \ {m2}
                 PROVE  /\ Bytes(m.host, m.len) \subseteq Addr \ Bytes(m2.host, m2.len)
                        /\ Bytes(m.dev, m.len) \subseteq Addr \ Bytes(m2.host, m2.len)
      OBVIOUS
    <4>1. Bytes(m.host, m.len) \subseteq Addr \ Bytes(m2.host, m2.len)
      BY <2>h, <2>o, <2>c DEF HostsDisjoint, HostsOwned
    <4>2. CASE m.dev = m.host
      BY <4>1, <4>2
    <4>3. CASE m.dev # m.host
      <5>1. Bytes(m2.host, m2.len) \subseteq CallerBytes
        BY <2>o DEF HostsOwned
      <5>2. \A a \in Bytes(m.dev, m.len) : a \notin CallerBytes
        BY <4>3, <2>dv
      <5>3. Bytes(m.dev, m.len) \subseteq Addr
        BY <2>t
      <5>. QED
        BY <4>1, <5>1, <5>2, <5>3, Zenon
    <4>. QED
      BY <4>1, <4>2, <4>3
  <3>5. ReadMappingCoherent'
    <4>1. maps \ {m2} \subseteq maps
      OBVIOUS
    <4>2. \A m \in maps \ {m2} : m.op \in ReadOps =>
            \A i \in 0 .. m.len - 1 : mem'[m.dev + i] = mem'[m.host + i]
      <5> SUFFICES ASSUME NEW m \in maps \ {m2}, m.op \in ReadOps
                   PROVE  \A i \in 0 .. m.len - 1 : mem'[m.dev + i] = mem'[m.host + i]
        OBVIOUS
      <5>1. m \in MapRecords
        BY <2>t
      <5>2. \A i \in 0 .. m.len - 1 : mem[m.dev + i] = mem[m.host + i]
        BY <2>r DEF ReadMappingCoherent
      <5>3. \A a \in Bytes(m.host, m.len) \cup Bytes(m.dev, m.len) : mem'[a] = mem[a]
        BY <3>4, <3>3
      <5>. QED
        BY <5>1, <5>2, <5>3, ReadFrame
    <4>. QED
      BY <4>2, <3>1 DEF ReadMappingCoherent
  <3>. QED
    BY <3>2, <3>5 DEF CoherentInv
<2>3. ASSUME NEW m2 \in maps, DeviceWrite(m2) PROVE CoherentInv'
  <3>1. /\ UNCHANGED <<maps, bufs>> /\ m2.op \notin ReadOps
        /\ \A a \in Addr \ Bytes(m2.dev, m2.len) : mem'[a] = mem[a]
    BY <2>3 DEF DeviceWrite
  (* The device writes only the device range of a write mapping. *)
  <3>2. \A m \in maps : m.op \in ReadOps =>
          /\ Bytes(m.host, m.len) \subseteq Addr \ Bytes(m2.dev, m2.len)
          /\ Bytes(m.dev, m.len) \subseteq Addr \ Bytes(m2.dev, m2.len)
    <4> SUFFICES ASSUME NEW m \in maps, m.op \in ReadOps
                 PROVE  /\ Bytes(m.host, m.len) \subseteq Addr \ Bytes(m2.dev, m2.len)
                        /\ Bytes(m.dev, m.len) \subseteq Addr \ Bytes(m2.dev, m2.len)
      OBVIOUS
    <4>0. m # m2
      BY <3>1
    <4>1. Bytes(m.host, m.len) \subseteq Addr \ Bytes(m2.dev, m2.len)
      <5>1. Bytes(m.host, m.len) \subseteq CallerBytes \cap Addr
        BY <2>o, <2>c DEF HostsOwned
      <5>2. CASE m2.dev = m2.host
        BY <5>1, <5>2, <4>0, <2>h DEF HostsDisjoint
      <5>3. CASE m2.dev # m2.host
        BY <5>1, <5>3, <2>dv
      <5>. QED
        BY <5>2, <5>3
    <4>2. Bytes(m.dev, m.len) \subseteq Addr \ Bytes(m2.dev, m2.len)
      <5>1. CASE m.dev = m.host
        BY <5>1, <4>1
      <5>2. CASE m.dev # m.host /\ m2.dev = m2.host
        <6>1. Bytes(m2.dev, m2.len) \subseteq CallerBytes
          BY <5>2, <2>o DEF HostsOwned
        <6>. QED
          BY <5>2, <6>1, <2>dv, <2>t
      <5>3. CASE m.dev # m.host /\ m2.dev # m2.host
        <6>1. PagesConserved
          BY <2>t, PagesInvConserved
        <6>2. Bytes(m.dev, m.len) \cap Bytes(m2.dev, m2.len) = {}
          BY <6>1, <5>3, <4>0 DEF PagesConserved
        <6>. QED
          BY <6>2, <2>t
      <5>. QED
        BY <5>1, <5>2, <5>3
    <4>. QED
      BY <4>1, <4>2
  <3>3. ReadMappingCoherent'
    <4>1. \A m \in maps : m.op \in ReadOps =>
            \A i \in 0 .. m.len - 1 : mem'[m.dev + i] = mem'[m.host + i]
        <5> SUFFICES ASSUME NEW m \in maps, m.op \in ReadOps
                     PROVE  \A i \in 0 .. m.len - 1 : mem'[m.dev + i] = mem'[m.host + i]
          OBVIOUS
        <5>1. m \in MapRecords
          BY <2>t
        <5>2. \A i \in 0 .. m.len - 1 : mem[m.dev + i] = mem[m.host + i]
          BY <2>r DEF ReadMappingCoherent
        <5>3. \A a \in Bytes(m.host, m.len) \cup Bytes(m.dev, m.len) : mem'[a] = mem[a]
          BY <3>2, <3>1
        <5>. QED
          BY <5>1, <5>2, <5>3, ReadFrame
    <4>. QED
      BY <4>1, <3>1 DEF ReadMappingCoherent
  <3>. QED
    BY <3>1, <3>3, <2>o, <2>h DEF CoherentInv, HostsOwned, HostsDisjoint, CallerBytes
<2>4. ASSUME NEW k \in BufferPages, NEW dac \in BOOLEAN, AllocateBuffer(k, dac)
      PROVE  CoherentInv'
  <3>1. UNCHANGED <<mem, maps>> /\ bufs \subseteq bufs'
    BY <2>4 DEF AllocateBuffer
  <3>2. CallerBytes \subseteq CallerBytes'
    BY <3>1 DEF CallerBytes
  <3>. QED
    BY <3>1, <3>2, <2>r, <2>o, <2>h
       DEF CoherentInv, ReadMappingCoherent, HostsOwned, HostsDisjoint
<2>5. ASSUME NEW b \in bufs, FreeBuffer(b) PROVE CoherentInv'
  <3>1. /\ UNCHANGED <<mem, maps>> /\ bufs' = bufs \ {b}
        /\ \A m \in maps : Bytes(m.host, m.len) \cap PageBytes(b.base, b.pages) = {}
    BY <2>5 DEF FreeBuffer
  (* FreeBuffer frees only a buffer no mapping's host range touches. *)
  <3>2. CallerBytes \ PageBytes(b.base, b.pages) \subseteq CallerBytes'
    BY <3>1 DEF CallerBytes
  <3>3. HostsOwned'
    BY <3>1, <3>2, <2>o DEF HostsOwned
  <3>. QED
    BY <3>1, <3>3, <2>r, <2>h DEF CoherentInv, ReadMappingCoherent, HostsDisjoint
<2>6. CASE UNCHANGED vars
  BY <2>6, <2>k DEF vars
<2>. QED
  BY <2>1, <2>2, <2>3, <2>4, <2>5, <2>6 DEF ProtocolNext


(* Read mappings are coherent under a caller that keeps the protocol:   *)
(* for every value of the constants, the bytes a device reads through   *)
(* an outstanding IoMmuMap read mapping equal the caller's buffer it    *)
(* was made from, whether the mapping is direct or uses a bounce buffer *)
(* filled by Map's copy.  Under the full Spec, where a stale handle    *)
(* can release pages again, TLC finds it violated at a fourth call.     *)
THEOREM ReadMappingCoherentUnderProtocol == ProtocolSpec => []ReadMappingCoherent
<1>1. Init => PagesInv
  BY DEF Init, PagesInv, Partition, BouncePages, BufferPagesHeld,
         BounceAligned, BouncesDisjoint, BuffersDisjoint, Remapped
<1>2. Init => CoherentInv
  BY DEF Init, CoherentInv, ReadMappingCoherent, HostsOwned, HostsDisjoint
<1>3. ProtocolSpec => []DmaTypeInv
  BY DmaTypeInit, DmaTypeStep, ProtocolNextIsNext, PTL DEF ProtocolSpec
<1>4. ProtocolSpec => []PagesInv
  BY <1>1, <1>3, PagesInvStep, PTL DEF ProtocolSpec
<1>5. ProtocolSpec => []CoherentInv
  BY <1>2, <1>3, <1>4, CoherentStep, PTL DEF ProtocolSpec
<1>6. CoherentInv => ReadMappingCoherent
  BY DEF CoherentInv
<1>. QED
  BY <1>5, <1>6, PTL



-----------------------------------------------------------------------------
(* Unmap delivers the device's writes, under a caller that keeps the     *)
(* protocol.                                                              *)

(* While a mapping the device may write through is outstanding, its     *)
(* device range keeps the data the device wrote: no bounce copy,         *)
(* copy-back or other device write lands on it.                          *)
WritesHeld ==
  \A m \in maps :
    (m.op \notin ReadOps /\ m.id \in devWrote) =>
      \A i \in 0 .. m.len - 1 : mem[m.dev + i] = Marker(m.id, i)


(* No two outstanding mappings share a handle: Map takes a handle no     *)
(* outstanding mapping has.                                               *)
IdsUnique == \A m1, m2 \in maps : m1.id = m2.id => m1 = m2

(* A byte on a free page is neither the caller's nor in the device range *)
(* of an outstanding mapping.                                             *)
LEMMA FreeByteUnused ==
  ASSUME DmaTypeInv, PagesInv, HostsOwned, NEW a, a \div PageSize \in free
  PROVE  a \notin CallerBytes /\ \A m \in maps : a \notin Bytes(m.dev, m.len)
<1>1. a \notin CallerBytes
  BY CallerByteNotPool
<1>2. ASSUME NEW m \in maps, a \in Bytes(m.dev, m.len) PROVE FALSE
  <2>1. CASE m.dev = m.host
    BY <2>1, <1>2, <1>1 DEF HostsOwned
  <2>2. CASE m.dev # m.host
    <3>1. m \in Remapped(maps)
      BY <2>2 DEF Remapped
    <3>2. a \div PageSize \in BouncePages(maps)
      BY <3>1, <1>2, BounceByteNotCaller
    <3>. QED
      BY <3>2 DEF PagesInv, Partition
  <2>. QED
    BY <2>1, <2>2
<1>. QED
  BY <1>1, <1>2

(* The device range of an outstanding mapping shares no byte with the    *)
(* device range or the host range of another: direct ranges are owned    *)
(* and disjoint host ranges, bounce ranges are not owned and disjoint.   *)
LEMMA RangesApart ==
  ASSUME DmaTypeInv, PagesInv, HostsOwned, HostsDisjoint,
         NEW m1 \in maps, NEW m2 \in maps, m1 # m2
  PROVE  /\ Bytes(m1.dev, m1.len) \cap Bytes(m2.dev, m2.len) = {}
         /\ Bytes(m1.dev, m1.len) \cap Bytes(m2.host, m2.len) = {}
<1>1. ASSUME NEW m \in maps, m.dev # m.host, NEW a \in Bytes(m.dev, m.len)
      PROVE  a \notin CallerBytes
  <2>1. m \in Remapped(maps)
    BY <1>1 DEF Remapped
  <2>. QED
    BY <2>1, BounceByteNotCaller
<1>2. Bytes(m1.host, m1.len) \subseteq CallerBytes
      /\ Bytes(m2.host, m2.len) \subseteq CallerBytes
  BY DEF HostsOwned
<1>3. Bytes(m1.host, m1.len) \cap Bytes(m2.host, m2.len) = {}
  BY DEF HostsDisjoint
<1>4. Bytes(m1.dev, m1.len) \cap Bytes(m2.host, m2.len) = {}
  <2>1. CASE m1.dev = m1.host
    BY <2>1, <1>3
  <2>2. CASE m1.dev # m1.host
    BY <2>2, <1>1, <1>2
  <2>. QED
    BY <2>1, <2>2
<1>5. Bytes(m1.dev, m1.len) \cap Bytes(m2.dev, m2.len) = {}
  <2>1. CASE m2.dev = m2.host
    BY <2>1, <1>4
  <2>2. CASE m2.dev # m2.host /\ m1.dev = m1.host
    BY <2>2, <1>1, <1>2
  <2>3. CASE m2.dev # m2.host /\ m1.dev # m1.host
    <3>1. PagesConserved
      BY PagesInvConserved DEF DmaTypeInv, TypeOK
    <3>. QED
      BY <2>3, <3>1 DEF PagesConserved
  <2>. QED
    BY <2>1, <2>2, <2>3
<1>. QED
  BY <1>4, <1>5

(* A step that leaves the device range of a written mapping alone keeps *)
(* the device's data in it.                                              *)
LEMMA MarkFrame ==
  ASSUME NEW m \in MapRecords,
         \A i \in 0 .. m.len - 1 : mem[m.dev + i] = Marker(m.id, i),
         \A a \in Bytes(m.dev, m.len) : mem'[a] = mem[a]
  PROVE  \A i \in 0 .. m.len - 1 : mem'[m.dev + i] = Marker(m.id, i)
<1> SUFFICES ASSUME NEW i \in 0 .. m.len - 1
             PROVE  mem'[m.dev + i] = Marker(m.id, i)
  OBVIOUS
<1>1. m.dev \in Int /\ m.len \in Nat
  BY MapRecordFields
<1>2. m.dev + i \in Bytes(m.dev, m.len)
  BY <1>1 DEF Bytes
<1>. QED
  BY <1>2

(* The bounce buffer Map allocates at page p lies in memory, on free    *)
(* pages.                                                                 *)
LEMMA MapBounce ==
  ASSUME DmaTypeInv, CallerBytes \subseteq Addr, NEW r \in MapInputs,
         NEW p \in MaxAddressFits(SizeToPages(r.len),
                                  DmaMemoryTop(r.op, r.host, r.len))
  PROVE  /\ p \in Nat
         /\ Bytes(p * PageSize, r.len) \subseteq Addr
         /\ \A a \in Bytes(p * PageSize, r.len) : a \div PageSize \in free
<1>. DEFINE n == SizeToPages(r.len)
<1>0. r.host \in Int /\ r.len \in Nat \ {0}
  BY MapInputsInMemory
<1>1. p \in Pages /\ PageRange(p, n) \subseteq free
  BY Zenon DEF MaxAddressFits
<1>2. p \in Nat
  BY <1>1 DEF Pages
<1>3. free \subseteq Pages
  BY DEF DmaTypeInv, TypeOK
<1>4. n \in Nat /\ n >= 1 /\ r.len <= n * PageSize
  BY <1>0, SizeToPagesCovers
<1>5. n \in Nat \ {0}
  BY <1>4
<1>6. Bytes(p * PageSize, r.len) \subseteq Addr
  BY <1>0, <1>1, <1>2, <1>3, <1>4, <1>5, RangeWithinPages
<1>7. \A a \in Bytes(p * PageSize, r.len) : a \div PageSize \in free
  BY <1>0, <1>1, <1>2, BytesInBounce
<1>. QED
  BY <1>2, <1>6, <1>7


(* The invariant behind UnmapDeliversWrites. *)
DeliverInv == IdsUnique /\ WritesHeld

(* Every step of a caller that keeps the protocol keeps DeliverInv. *)
LEMMA DeliverStep ==
  DmaTypeInv /\ PagesInv /\ CoherentInv /\ DeliverInv /\ [ProtocolNext]_vars
    => DeliverInv'
<2> SUFFICES ASSUME DmaTypeInv, PagesInv, CoherentInv, DeliverInv,
                    [ProtocolNext]_vars
             PROVE  DeliverInv'
  OBVIOUS
<2>t. /\ mem \in [Addr -> Nat] /\ maps \subseteq MapRecords
      /\ \A m \in maps : Bytes(m.dev, m.len) \subseteq Addr
  BY DEF DmaTypeInv, TypeOK
<2>c. CallerBytes \subseteq Addr
  BY CallerBytesInMemory DEF DmaTypeInv, TypeOK
<2>o. HostsOwned /\ HostsDisjoint
  BY DEF CoherentInv
<2>u. IdsUnique
  BY DEF DeliverInv
<2>w. WritesHeld
  BY DEF DeliverInv
(* The written mappings of ms keep their data in a step that leaves     *)
(* their device ranges alone and does not add to devWrote.               *)
<2>f. ASSUME NEW ms, ms \subseteq maps, devWrote' \subseteq devWrote,
             \A m \in ms : \A a \in Bytes(m.dev, m.len) : mem'[a] = mem[a]
      PROVE  \A m \in ms : (m.op \notin ReadOps /\ m.id \in devWrote') =>
               \A i \in 0 .. m.len - 1 : mem'[m.dev + i] = Marker(m.id, i)
  <3> SUFFICES ASSUME NEW m \in ms, m.op \notin ReadOps, m.id \in devWrote'
               PROVE  \A i \in 0 .. m.len - 1 : mem'[m.dev + i] = Marker(m.id, i)
    OBVIOUS
  <3>1. m \in MapRecords
    BY <2>f, <2>t
  <3>2. \A i \in 0 .. m.len - 1 : mem[m.dev + i] = Marker(m.id, i)
    BY <2>f, <2>w DEF WritesHeld
  <3>3. \A a \in Bytes(m.dev, m.len) : mem'[a] = mem[a]
    BY <2>f
  <3>. QED
    BY <3>1, <3>2, <3>3, MarkFrame
<2>1. ASSUME NEW r \in MapInputs, NEW id \in MapIds, Map(r, id) PROVE DeliverInv'
  <3>. DEFINE rec(dev) == [id |-> id, op |-> r.op, host |-> r.host,
                           len |-> r.len, dev |-> dev]
              fits == MaxAddressFits(SizeToPages(r.len),
                                     DmaMemoryTop(r.op, r.host, r.len))
  <3>0. /\ id \notin {m.id : m \in maps}
        /\ devWrote' = devWrote \ {id}
    BY <2>1 DEF Map
  (* The new mapping has a fresh handle the device has not written.  *)
  <3>n. ASSUME NEW dev, maps' = maps \cup {rec(dev)},
               \A m \in maps : \A a \in Bytes(m.dev, m.len) : mem'[a] = mem[a]
        PROVE  DeliverInv'
    <4>1. IdsUnique'
      BY <3>n, <3>0, <2>u DEF IdsUnique
    <4>2. \A m \in maps : (m.op \notin ReadOps /\ m.id \in devWrote') =>
            \A i \in 0 .. m.len - 1 : mem'[m.dev + i] = Marker(m.id, i)
      BY <3>n, <3>0, <2>f
    <4>3. rec(dev).id \notin devWrote'
      BY <3>0
    <4>. QED
      BY <3>n, <4>1, <4>2, <4>3 DEF DeliverInv, WritesHeld
  <3>1. CASE UNCHANGED <<mem, maps>>
    <4>1. \A m \in maps : (m.op \notin ReadOps /\ m.id \in devWrote') =>
            \A i \in 0 .. m.len - 1 : mem'[m.dev + i] = Marker(m.id, i)
      BY <3>1, <3>0, <2>f
    <4>. QED
      BY <3>1, <4>1, <2>u DEF DeliverInv, WritesHeld, IdsUnique
  <3>2. CASE maps' = maps \cup {rec(r.host)} /\ UNCHANGED mem
    BY <3>2, <3>n
  <3>3. CASE \E p \in fits :
               /\ maps' = maps \cup {rec(p * PageSize)}
               /\ mem' = IF r.op \in ReadOps
                           THEN CopyMem(mem, p * PageSize, r.host, r.len)
                           ELSE mem
    <4>1. PICK p \in fits :
               /\ maps' = maps \cup {rec(p * PageSize)}
               /\ mem' = IF r.op \in ReadOps
                           THEN CopyMem(mem, p * PageSize, r.host, r.len)
                           ELSE mem
      BY <3>3
    <4>2. \A a \in Bytes(p * PageSize, r.len) : a \div PageSize \in free
      BY <2>c, MapBounce
    (* Map's copy lands on free pages, outside every device range. *)
    <4>3. \A m \in maps : \A a \in Bytes(m.dev, m.len) : mem'[a] = mem[a]
      <5> SUFFICES ASSUME NEW m \in maps, NEW a \in Bytes(m.dev, m.len)
                   PROVE  mem'[a] = mem[a]
        OBVIOUS
      <5>1. a \notin Bytes(p * PageSize, r.len)
        BY <4>2, <2>o, FreeByteUnused DEF CoherentInv
      <5>2. a \in Addr
        BY <2>t
      <5>. QED
        BY <4>1, <5>1, <5>2, CopyMemOutside
    <4>. QED
      BY <4>1, <4>3, <3>n
  <3>. QED
    BY <2>1, <3>1, <3>2, <3>3 DEF Map
<2>2. ASSUME NEW m2 \in maps, LiveUnmap(m2) PROVE DeliverInv'
  <3>1. maps' = maps \ {m2} /\ UNCHANGED devWrote /\ Release(m2)
    BY <2>2, Zenon DEF LiveUnmap, Unmap
  (* Copy-back writes only the released mapping's host range. *)
  <3>2. \A m \in maps \ {m2} : \A a \in Bytes(m.dev, m.len) : mem'[a] = mem[a]
    <4> SUFFICES ASSUME NEW m \in maps \ {m2}, NEW a \in Bytes(m.dev, m.len)
                 PROVE  mem'[a] = mem[a]
      OBVIOUS
    <4>1. a \notin Bytes(m2.host, m2.len)
      BY <2>o, RangesApart DEF CoherentInv
    <4>2. a \in Addr
      BY <2>t
    <4>. QED
      BY <3>1, <4>1, <4>2, CopyMemOutside DEF Release
  <3>3. \A m \in maps \ {m2} : (m.op \notin ReadOps /\ m.id \in devWrote') =>
          \A i \in 0 .. m.len - 1 : mem'[m.dev + i] = Marker(m.id, i)
    BY <3>1, <3>2, <2>f
  <3>. QED
    BY <3>1, <3>3, <2>u DEF DeliverInv, WritesHeld, IdsUnique
<2>3. ASSUME NEW m2 \in maps, DeviceWrite(m2) PROVE DeliverInv'
  <3>1. /\ UNCHANGED maps /\ devWrote' = devWrote \cup {m2.id}
        /\ mem' = [a \in Addr |-> IF a \in Bytes(m2.dev, m2.len)
                                    THEN Marker(m2.id, a - m2.dev) ELSE mem[a]]
    BY <2>3 DEF DeviceWrite
  <3>2. ASSUME NEW m \in maps, m.op \notin ReadOps, m.id \in devWrote'
        PROVE  \A i \in 0 .. m.len - 1 : mem'[m.dev + i] = Marker(m.id, i)
    <4>1. CASE m = m2
      <5> SUFFICES ASSUME NEW i \in 0 .. m.len - 1
                   PROVE  mem'[m.dev + i] = Marker(m.id, i)
        OBVIOUS
      <5>1. m.dev \in Int /\ m.len \in Nat
        BY <2>t, MapRecordFields
      <5>2. m.dev + i \in Bytes(m.dev, m.len) /\ (m.dev + i) - m.dev = i
        BY <5>1 DEF Bytes
      <5>3. m.dev + i \in Addr
        BY <5>2, <2>t
      <5>. QED
        BY <4>1, <3>1, <5>2, <5>3
    (* Another written mapping: its handle differs, so it was written     *)
    (* before, and its device range is apart from m2's.                   *)
    <4>2. CASE m # m2
      <5>1. m.id \in devWrote
        BY <3>2, <4>2, <3>1, <2>u, Zenon DEF IdsUnique
      <5>2. \A a \in Bytes(m.dev, m.len) : mem'[a] = mem[a]
        <6> SUFFICES ASSUME NEW a \in Bytes(m.dev, m.len) PROVE mem'[a] = mem[a]
          OBVIOUS
        <6>1. a \notin Bytes(m2.dev, m2.len)
          BY <4>2, <2>o, RangesApart DEF CoherentInv
        <6>. QED
          BY <6>1, <3>1, <2>t
      <5>3. m \in MapRecords
        BY <2>t
      <5>4. \A i \in 0 .. m.len - 1 : mem[m.dev + i] = Marker(m.id, i)
        BY <3>2, <5>1, <2>w DEF WritesHeld
      <5>. QED
        BY <5>2, <5>3, <5>4, MarkFrame
    <4>. QED
      BY <4>1, <4>2
  <3>. QED
    BY <3>1, <3>2, <2>u DEF DeliverInv, WritesHeld, IdsUnique
<2>4. CASE UNCHANGED <<mem, maps, devWrote>>
  BY <2>4, <2>u, <2>w DEF DeliverInv, WritesHeld, IdsUnique
<2>. QED
  BY <2>1, <2>2, <2>3, <2>4
     DEF ProtocolNext, AllocateBuffer, FreeBuffer, vars


(* The step UnmapDeliversWrites constrains. *)
DeliversWrites ==
  \A m \in maps :
    (m \notin maps' /\ m.op \in WriteOps /\ m.id \in devWrote) =>
      \A i \in 0 .. m.len - 1 : mem'[m.host + i] = Marker(m.id, i)

(* Only Unmap ends a mapping, and it copies a written bounce buffer back *)
(* to the host range, which a direct mapping shares with its device.    *)
LEMMA DeliversWritesStep ==
  DmaTypeInv /\ CoherentInv /\ DeliverInv /\ [ProtocolNext]_vars
    => [DeliversWrites]_vars
<1> SUFFICES ASSUME DmaTypeInv, CoherentInv, DeliverInv, [ProtocolNext]_vars
             PROVE  DeliversWrites
  BY DEF DeliversWrites, vars
<1>1. CASE \E m2 \in maps : LiveUnmap(m2)
  <2>1. PICK m2 \in maps : LiveUnmap(m2)
    BY <1>1
  <2>2. maps' = maps \ {m2} /\ Release(m2)
    BY <2>1, Zenon DEF LiveUnmap, Unmap
  <2> SUFFICES ASSUME m2.op \in WriteOps, m2.id \in devWrote,
                      NEW i \in 0 .. m2.len - 1
               PROVE  mem'[m2.host + i] = Marker(m2.id, i)
    BY <2>2 DEF DeliversWrites
  <2>3. /\ m2 \in MapRecords /\ m2.host \in Int /\ m2.dev \in Int
        /\ m2.len \in Nat
    BY MapRecordFields DEF DmaTypeInv, TypeOK
  <2>4. mem[m2.dev + i] = Marker(m2.id, i)
    <3>1. m2.op \notin ReadOps
      BY DEF ReadOps, WriteOps
    <3>. QED
      BY <3>1 DEF DeliverInv, WritesHeld
  <2>5. m2.host + i \in Addr
    <3>1. m2.host + i \in Bytes(m2.host, m2.len)
      BY <2>3 DEF Bytes
    <3>2. CallerBytes \subseteq Addr
      BY CallerBytesInMemory DEF DmaTypeInv, TypeOK
    <3>. QED
      BY <3>1, <3>2 DEF CoherentInv, HostsOwned
  (* A remapped write mapping: Unmap copies the bounce buffer back. *)
  <2>6. CASE m2.dev # m2.host
    <3>1. mem' = CopyMem(mem, m2.host, m2.dev, m2.len)
      BY <2>6, <2>2 DEF Release, CopiesBack
    <3>2. CopyMem(mem, m2.host, m2.dev, m2.len)[m2.host + i] = mem[m2.dev + i]
      <4>1. /\ m2.host + i \in Bytes(m2.host, m2.len)
            /\ m2.dev + ((m2.host + i) - m2.host) = m2.dev + i
        BY <2>3 DEF Bytes
      <4>. QED
        BY <4>1, <2>5 DEF CopyMem
    <3>. QED
      BY <3>1, <3>2, <2>4
  <2>7. CASE m2.dev = m2.host
    BY <2>7, <2>2, <2>4 DEF Release
  <2>. QED
    BY <2>6, <2>7
(* Every other step keeps all mappings. *)
<1>2. CASE ~\E m2 \in maps : LiveUnmap(m2)
  <2>1. maps \subseteq maps'
    BY <1>2 DEF ProtocolNext, Map, DeviceWrite, AllocateBuffer, FreeBuffer, vars
  <2>. QED
    BY <2>1 DEF DeliversWrites
<1>. QED
  BY <1>1, <1>2

(* Unmap delivers the device's writes under a caller that keeps the      *)
(* protocol: for every value of the constants, when IoMmuUnmap ends a    *)
(* write mapping the device wrote through, the host buffer holds the     *)
(* device's data, whether the mapping was direct or bounced.  Under the  *)
(* full Spec a stale handle can free a live bounce buffer's pages, and   *)
(* TLC finds WritesHeld violated at a fourth call; the property itself   *)
(* shows no violation within four calls.                                 *)
THEOREM UnmapDeliversWritesUnderProtocol == ProtocolSpec => UnmapDeliversWrites
<1>1. Init => PagesInv /\ CoherentInv /\ DeliverInv
  BY DEF Init, PagesInv, Partition, BouncePages, BufferPagesHeld,
         BounceAligned, BouncesDisjoint, BuffersDisjoint, Remapped,
         CoherentInv, ReadMappingCoherent, HostsOwned, HostsDisjoint,
         DeliverInv, IdsUnique, WritesHeld
<1>2. ProtocolSpec => []DmaTypeInv
  BY DmaTypeInit, DmaTypeStep, ProtocolNextIsNext, PTL DEF ProtocolSpec
<1>3. ProtocolSpec => []PagesInv
  BY <1>1, <1>2, PagesInvStep, PTL DEF ProtocolSpec
<1>4. ProtocolSpec => []CoherentInv
  BY <1>1, <1>2, <1>3, CoherentStep, PTL DEF ProtocolSpec
<1>5. ProtocolSpec => []DeliverInv
  BY <1>1, <1>2, <1>3, <1>4, DeliverStep, PTL DEF ProtocolSpec
<1>6. ProtocolSpec => [][DeliversWrites]_vars
  BY <1>2, <1>4, <1>5, DeliversWritesStep, PTL DEF ProtocolSpec
<1>. QED
  BY <1>6 DEF UnmapDeliversWrites, DeliversWrites

=============================================================================
