------------------------ MODULE IoMmuDmaContractProofs ------------------------
(***************************************************************************)
(* Proof that the mapping engine of IoMmuDma implements the contract of    *)
(* EDKII_IOMMU_PROTOCOL (IoMmuDmaContract) for a caller that keeps the     *)
(* protocol: every step of ProtocolSpec maps, through HostView, Loans and  *)
(* DeviceViews, to a step of the contract or a stutter.  The argument      *)
(* rests on the invariants of IoMmuDmaProofs: the pages partition          *)
(* (PagesInv), coherent read mappings with owned, disjoint host ranges     *)
(* (CoherentInv) and unique handles (IdsUnique), with one more fact here:  *)
(* a common-buffer mapping is never bounced (CommonDirect).                *)
(***************************************************************************)
EXTENDS IoMmuDmaProofs

(* A common-buffer mapping is never bounced: Map refuses one that needs  *)
(* a remap (lines 302-308), so the device shares the caller's bytes.     *)
CommonDirect == \A m \in maps : m.op \in CommonOps => m.dev = m.host

(* The loan the contract sees for the MAP_INFO record m. *)
Loan(m) == [id |-> m.id, op |-> m.op, host |-> m.host, len |-> m.len]

(* What the device sees through m. *)
ViewOf(m, f) == [i \in 0 .. m.len - 1 |-> f[m.dev + i]]

(* The invariant the refinement rests on. *)
RefineInv == DmaTypeInv /\ PagesInv /\ CoherentInv /\ DeliverInv /\ CommonDirect

(* Map bounces only operations other than common-buffer ones. *)
LEMMA CommonDirectStep == CommonDirect /\ [ProtocolNext]_vars => CommonDirect'
<1> SUFFICES ASSUME CommonDirect, [ProtocolNext]_vars PROVE CommonDirect'
  OBVIOUS
<1>1. ASSUME NEW r \in MapInputs, NEW id \in MapIds, Map(r, id) PROVE CommonDirect'
  BY <1>1 DEF Map, CommonDirect
<1>2. ASSUME NEW m2 \in maps, LiveUnmap(m2) PROVE CommonDirect'
  BY <1>2 DEF LiveUnmap, CommonDirect
<1>3. CASE UNCHANGED maps
  BY <1>3 DEF CommonDirect
<1>. QED
  BY <1>1, <1>2, <1>3 DEF ProtocolNext, DeviceWrite, AllocateBuffer, FreeBuffer, vars

(* Under a caller that keeps the protocol, RefineInv always holds. *)
LEMMA RefineInvHolds == ProtocolSpec => []RefineInv
<1>1. Init => PagesInv /\ CoherentInv /\ DeliverInv /\ CommonDirect
  BY DEF Init, PagesInv, Partition, BouncePages, BufferPagesHeld,
         BounceAligned, BouncesDisjoint, BuffersDisjoint, Remapped,
         CoherentInv, ReadMappingCoherent, HostsOwned, HostsDisjoint,
         DeliverInv, IdsUnique, WritesHeld, CommonDirect
<1>2. ProtocolSpec => []DmaTypeInv
  BY DmaTypeInit, DmaTypeStep, ProtocolNextIsNext, PTL DEF ProtocolSpec
<1>3. ProtocolSpec => []PagesInv
  BY <1>1, <1>2, PagesInvStep, PTL DEF ProtocolSpec
<1>4. ProtocolSpec => []CoherentInv
  BY <1>1, <1>2, <1>3, CoherentStep, PTL DEF ProtocolSpec
<1>5. ProtocolSpec => []DeliverInv
  BY <1>1, <1>2, <1>3, <1>4, DeliverStep, PTL DEF ProtocolSpec
<1>6. ProtocolSpec => []CommonDirect
  BY <1>1, CommonDirectStep, PTL DEF ProtocolSpec
<1>. QED
  BY <1>2, <1>3, <1>4, <1>5, <1>6, PTL DEF RefineInv

(* With unique handles, the record CHOOSE finds for m's handle is m. *)
LEMMA ChooseById ==
  ASSUME NEW ms, \A m1, m2 \in ms : m1.id = m2.id => m1 = m2, NEW m \in ms
  PROVE  (CHOOSE x \in ms : x.id = m.id) = m
<1>1. \E x \in ms : x.id = m.id
  OBVIOUS
<1>2. (CHOOSE x \in ms : x.id = m.id) \in ms
      /\ (CHOOSE x \in ms : x.id = m.id).id = m.id
  BY <1>1
<1>. QED
  BY <1>2

(* DeviceViews holds, for each outstanding mapping, what the device sees *)
(* through it.                                                             *)
LEMMA DeviceViewsAt ==
  ASSUME IdsUnique
  PROVE  /\ DOMAIN DeviceViews = {m.id : m \in maps}
         /\ \A m \in maps : DeviceViews[m.id] = ViewOf(m, mem)
<1>1. ASSUME NEW m \in maps PROVE (CHOOSE x \in maps : x.id = m.id) = m
  BY ChooseById DEF IdsUnique
<1>. QED
  BY <1>1 DEF DeviceViews, ViewOf

LEMMA DeviceViewsAtPrime ==
  ASSUME IdsUnique'
  PROVE  /\ DOMAIN DeviceViews' = {m.id : m \in maps'}
         /\ \A m \in maps' : DeviceViews'[m.id] = ViewOf(m, mem')
<1>1. ASSUME NEW m \in maps' PROVE (CHOOSE x \in maps' : x.id = m.id) = m
  BY ChooseById DEF IdsUnique
<1>. QED
  BY <1>1 DEF DeviceViews, ViewOf

(* The engine starts in a state of the contract: the caller owns its     *)
(* pages, nothing is lent.                                                *)
LEMMA RefineInit == Init => Contract!CInit
<1> SUFFICES ASSUME Init PROVE Contract!CInit
  OBVIOUS
<1>1. HostView \in [Addr -> Nat \cup {NotOwnedByte}]
  <2>1. LentBytes = {}
    BY DEF Init, LentBytes
  <2>2. \A a \in Addr : a \in Nat
    BY DEF Addr
  <2>. QED
    BY <2>1, <2>2 DEF Init, HostView
<1>2. Loans = {}
  BY DEF Init, Loans
<1>3. DeviceViews = [id \in {} |-> <<>>]
  BY DEF Init, DeviceViews
<1>. QED
  BY <1>1, <1>2, <1>3 DEF Contract!CInit


(* Each step of a caller that keeps the protocol is a step of the        *)
(* contract or leaves the caller's view, the loans and the device views  *)
(* alone.                                                                  *)
LEMMA RefineStep ==
  RefineInv /\ RefineInv' /\ [ProtocolNext]_vars
    => [Contract!CNext]_Contract!cvars
<2> SUFFICES ASSUME RefineInv, RefineInv', [ProtocolNext]_vars
             PROVE  [Contract!CNext]_Contract!cvars
  OBVIOUS
<2>t. /\ mem \in [Addr -> Nat] /\ mem' \in [Addr -> Nat]
      /\ maps \subseteq MapRecords /\ maps' \subseteq MapRecords
      /\ \A m \in maps : Bytes(m.dev, m.len) \subseteq Addr
      /\ \A m \in maps' : Bytes(m.dev, m.len) \subseteq Addr
  BY DEF RefineInv, DmaTypeInv, TypeOK
<2>i. /\ DmaTypeInv /\ PagesInv /\ HostsOwned /\ HostsDisjoint
      /\ IdsUnique /\ IdsUnique' /\ ReadMappingCoherent /\ ReadMappingCoherent'
      /\ CommonDirect
  BY DEF RefineInv, CoherentInv, DeliverInv
<2>v. /\ DOMAIN DeviceViews = {m.id : m \in maps}
      /\ \A m \in maps : DeviceViews[m.id] = ViewOf(m, mem)
      /\ DOMAIN DeviceViews' = {m.id : m \in maps'}
      /\ \A m \in maps' : DeviceViews'[m.id] = ViewOf(m, mem')
  BY <2>i, DeviceViewsAt, DeviceViewsAtPrime
<2>h. /\ \A m \in maps : Bytes(m.host, m.len) \subseteq CallerBytes
      /\ CallerBytes \subseteq Addr
  BY <2>i, CallerBytesInMemory DEF HostsOwned, DmaTypeInv, TypeOK
(* The caller's view of a byte depends only on ownership, loans and the *)
(* byte itself.                                                          *)
<2>b. ASSUME NEW b \in Addr,
             b \in CallerBytes <=> b \in CallerBytes',
             b \in LentBytes <=> b \in LentBytes',
             b \in CallerBytes /\ b \notin LentBytes => mem'[b] = mem[b]
      PROVE  HostView'[b] = HostView[b]
  BY <2>b DEF HostView
<2>s. ASSUME UNCHANGED <<mem, maps, bufs>> PROVE UNCHANGED Contract!cvars
  BY <2>s DEF Contract!cvars, HostView, Loans, DeviceViews, LentBytes, CallerBytes
<2>3. ASSUME NEW m2 \in maps, DeviceWrite(m2) PROVE [Contract!CNext]_Contract!cvars
  <3>1. /\ UNCHANGED <<maps, bufs>> /\ m2.op \notin ReadOps
        /\ \A a \in Addr : a \notin Bytes(m2.dev, m2.len) => mem'[a] = mem[a]
    BY <2>3 DEF DeviceWrite
  (* The device writes bytes it was lent, or bounce bytes the caller does *)
  (* not own.                                                              *)
  <3>2. HostView' = HostView
    <4>1. ASSUME NEW b \in Addr PROVE HostView'[b] = HostView[b]
      <5>1. CallerBytes' = CallerBytes /\ LentBytes' = LentBytes
        BY <3>1 DEF CallerBytes, LentBytes
      <5>2. b \in CallerBytes /\ b \notin LentBytes => mem'[b] = mem[b]
        <6>1. CASE m2.dev = m2.host
          <7>1. Bytes(m2.dev, m2.len) \subseteq LentBytes
            BY <6>1 DEF LentBytes
          <7>. QED
            BY <7>1, <3>1
        <6>2. CASE m2.dev # m2.host
          <7>1. m2 \in Remapped(maps)
            BY <6>2 DEF Remapped
          <7>2. \A a \in Bytes(m2.dev, m2.len) : a \notin CallerBytes
            BY <7>1, <2>i, BounceByteNotCaller
          <7>. QED
            BY <7>2, <3>1
        <6>. QED
          BY <6>1, <6>2
      <5>. QED
        BY <5>1, <5>2, <2>b
    <4>. QED
      BY <4>1 DEF HostView
  <3>3. Loans' = Loans
    BY <3>1 DEF Loans
  (* Other views are kept: device ranges of live mappings are apart. *)
  <3>4. \A m \in maps : m # m2 => ViewOf(m, mem') = ViewOf(m, mem)
    <4> SUFFICES ASSUME NEW m \in maps, m # m2 PROVE ViewOf(m, mem') = ViewOf(m, mem)
      OBVIOUS
    <4>1. Bytes(m.dev, m.len) \cap Bytes(m2.dev, m2.len) = {}
      BY <2>i, RangesApart
    <4>2. \A i \in 0 .. m.len - 1 : m.dev + i \in Bytes(m.dev, m.len)
      BY <2>t, MapRecordFields DEF Bytes
    <4>. QED
      BY <4>1, <4>2, <3>1, <2>t DEF ViewOf
  <3>5. ViewOf(m2, mem') \in [0 .. m2.len - 1 -> Nat]
    <4>1. \A i \in 0 .. m2.len - 1 : m2.dev + i \in Bytes(m2.dev, m2.len)
      BY <2>t, MapRecordFields DEF Bytes
    <4>. QED
      BY <4>1, <2>t DEF ViewOf
  <3>6. Contract!CDeviceWrite(Loan(m2))
    <4>1. Loan(m2) \in Loans /\ Loan(m2).id = m2.id /\ Loan(m2).op = m2.op
          /\ Loan(m2).len = m2.len
      BY DEF Loans, Loan
    <4>2. Contract!OtherViewsKept(m2.id)
      <5> SUFFICES ASSUME NEW j \in DOMAIN DeviceViews \ {m2.id}
                   PROVE  DeviceViews'[j] = DeviceViews[j]
        BY DEF Contract!OtherViewsKept
      <5>1. PICK m \in maps : j = m.id
        BY <2>v
      <5>. QED
        BY <5>1, <3>1, <3>4, <2>v
    <4>. QED
      BY <4>1, <4>2, <3>1, <3>2, <3>3, <3>5, <2>v DEF Contract!CDeviceWrite
  <3>. QED
    <4>1. Loan(m2) \in Loans
      BY DEF Loans, Loan
    <4>. QED
      BY <3>6, <4>1 DEF Contract!CNext
<2>4. ASSUME NEW k \in BufferPages, NEW dac \in BOOLEAN, AllocateBuffer(k, dac)
      PROVE  [Contract!CNext]_Contract!cvars
  <3>1. UNCHANGED <<mem, maps>> /\ bufs \subseteq bufs'
    BY <2>4 DEF AllocateBuffer
  <3>2. CallerBytes \subseteq CallerBytes' /\ LentBytes' = LentBytes
    BY <3>1 DEF CallerBytes, LentBytes
  (* The caller gains bytes no loan covers, holding whatever they hold. *)
  <3>3. Contract!CAllocate
    <4>1. ASSUME NEW b \in Addr, HostView'[b] # HostView[b]
          PROVE  HostView[b] = NotOwnedByte /\ HostView'[b] \in Nat
      <5>1. b \notin CallerBytes
        BY <4>1, <3>1, <3>2, <2>b
      <5>2. b \notin LentBytes
        BY <5>1, <2>h DEF LentBytes
      <5>. QED
        BY <4>1, <5>1, <5>2, <3>1, <3>2, <2>t DEF HostView
    <4>2. DOMAIN HostView' = Addr /\ Loans' = Loans /\ DeviceViews' = DeviceViews
      BY <3>1 DEF HostView, Loans, DeviceViews
    <4>. QED
      BY <4>1, <4>2 DEF Contract!CAllocate
  <3>. QED
    BY <3>3 DEF Contract!CNext
<2>5. ASSUME NEW b0 \in bufs, FreeBuffer(b0) PROVE [Contract!CNext]_Contract!cvars
  <3>1. /\ UNCHANGED <<mem, maps>> /\ bufs' = bufs \ {b0}
        /\ \A m \in maps : Bytes(m.host, m.len) \cap PageBytes(b0.base, b0.pages) = {}
    BY <2>5 DEF FreeBuffer
  <3>2. /\ CallerBytes' \subseteq CallerBytes
        /\ CallerBytes \ CallerBytes' \subseteq PageBytes(b0.base, b0.pages)
        /\ LentBytes' = LentBytes
    BY <3>1 DEF CallerBytes, LentBytes
  (* The caller gives back bytes no loan covers. *)
  <3>3. Contract!CFree
    <4>1. ASSUME NEW b \in Addr, HostView'[b] # HostView[b]
          PROVE  HostView[b] \in Nat /\ HostView'[b] = NotOwnedByte
      <5>1. b \in CallerBytes /\ b \notin CallerBytes'
        BY <4>1, <3>1, <3>2, <2>b
      <5>2. b \notin LentBytes
        BY <5>1, <3>1, <3>2 DEF LentBytes
      <5>. QED
        BY <4>1, <5>1, <5>2, <3>1, <3>2, <2>t DEF HostView
    <4>2. DOMAIN HostView' = Addr /\ Loans' = Loans /\ DeviceViews' = DeviceViews
      BY <3>1 DEF HostView, Loans, DeviceViews
    <4>. QED
      BY <4>1, <4>2 DEF Contract!CFree
  <3>. QED
    BY <3>3 DEF Contract!CNext
<2>1. ASSUME NEW r \in MapInputs, NEW id \in MapIds, Map(r, id)
      PROVE  [Contract!CNext]_Contract!cvars
  <3>. DEFINE rec(dev) == [id |-> id, op |-> r.op, host |-> r.host,
                           len |-> r.len, dev |-> dev]
              fits == MaxAddressFits(SizeToPages(r.len),
                                     DmaMemoryTop(r.op, r.host, r.len))
              owned == CallerBytes \ UNION {Bytes(m.host, m.len) : m \in maps}
  <3>0. /\ r.host \in Int /\ r.len \in Nat \ {0}
        /\ Bytes(r.host, r.len) \subseteq Addr
        /\ Bytes(r.host, r.len) \subseteq owned
        /\ id \notin {m.id : m \in maps}
        /\ UNCHANGED bufs
    <4>1. r.host \in Int /\ r.len \in Nat \ {0} /\ Bytes(r.host, r.len) \subseteq Addr
      BY <2>h, MapInputsInMemory
    <4>2. Bytes(r.host, r.len) \subseteq owned
      BY Zenon DEF MapInputs
    <4>3. id \notin {m.id : m \in maps} /\ UNCHANGED bufs
      BY <2>1 DEF Map
    <4>. QED
      BY <4>1, <4>2, <4>3
  (* A Map that adds a mapping, writing no byte of the caller's and no    *)
  (* device range of another mapping, is the contract's Map.             *)
  <3>n. ASSUME NEW dev, maps' = maps \cup {rec(dev)},
               \A a \in CallerBytes : mem'[a] = mem[a],
               \A m \in maps : ViewOf(m, mem') = ViewOf(m, mem)
        PROVE  [Contract!CNext]_Contract!cvars
    <4>. DEFINE x == rec(dev)
                l == Loan(x)
    <4>0. x \in maps' /\ l = [id |-> id, op |-> r.op, host |-> r.host, len |-> r.len]
      BY <3>n DEF Loan
    <4>1. l \in Loans' \ Loans
      <5>1. l \in Loans'
        BY <4>0 DEF Loans, Loan
      <5>2. l \notin Loans
        <6> SUFFICES ASSUME l \in Loans PROVE FALSE
          OBVIOUS
        <6>1. PICK m \in maps : l = [id |-> m.id, op |-> m.op, host |-> m.host,
                                     len |-> m.len]
          BY DEF Loans
        <6>2. id = m.id
          BY <6>1, <4>0
        <6>. QED
          BY <6>2, <3>0
      <5>. QED
        BY <5>1, <5>2
    <4>2. Loans' = Loans \cup {l}
      BY <3>n, <4>0 DEF Loans, Loan
    <4>3. CallerBytes' = CallerBytes
          /\ LentBytes' = LentBytes \cup Bytes(r.host, r.len)
      <5>1. CallerBytes' = CallerBytes
        BY <3>0 DEF CallerBytes
      <5>2. x.host = r.host /\ x.len = r.len
        OBVIOUS
      <5>3. LentBytes' = LentBytes \cup Bytes(r.host, r.len)
        BY <3>n, <5>2 DEF LentBytes
      <5>. QED
        BY <5>1, <5>3
    <4>4. \A b \in Bytes(r.host, r.len) : b \in CallerBytes /\ b \notin LentBytes
      BY <3>0 DEF LentBytes
    <4>5. \A b \in Bytes(r.host, r.len) : HostView[b] \in Nat
      BY <4>4, <3>0, <2>t DEF HostView
    <4>6. HostView' = [b \in Addr |-> IF b \in Bytes(r.host, r.len)
                                       THEN LentByte ELSE HostView[b]]
      <5>1. ASSUME NEW b \in Addr, b \notin Bytes(r.host, r.len)
            PROVE  HostView'[b] = HostView[b]
        BY <5>1, <4>3, <3>n, <2>b
      <5>2. ASSUME NEW b \in Bytes(r.host, r.len) PROVE HostView'[b] = LentByte
        BY <5>2, <4>3, <4>4, <3>0 DEF HostView
      <5>. QED
        BY <5>1, <5>2, <3>0 DEF HostView
    <4>7. DOMAIN DeviceViews' = DOMAIN DeviceViews \cup {id}
      <5>0. x.id = id
        OBVIOUS
      <5>1. {m.id : m \in maps'} = {m.id : m \in maps} \cup {id}
        BY <3>n, <5>0
      <5>. QED
        BY <5>1, <2>v
    <4>8. \A j \in DOMAIN DeviceViews \ {id} : DeviceViews'[j] = DeviceViews[j]
      <5> SUFFICES ASSUME NEW j \in DOMAIN DeviceViews \ {id}
                   PROVE  DeviceViews'[j] = DeviceViews[j]
        OBVIOUS
      <5>1. PICK m \in maps : j = m.id
        BY <2>v
      <5>. QED
        BY <5>1, <3>n, <2>v
    <4>9. DeviceViews'[id] = ViewOf(x, mem')
      BY <4>0, <2>v
    <4>10. ViewOf(x, mem') \in [0 .. r.len - 1 -> Nat]
      <5>1. \A i \in 0 .. r.len - 1 : dev + i \in Bytes(x.dev, x.len)
        <6>1. x \in MapRecords
          BY <4>0, <2>t
        <6>2. dev \in Int
          BY <6>1, MapRecordFields
        <6>. QED
          BY <6>2, <3>0 DEF Bytes
      <5>. QED
        BY <5>1, <4>0, <2>t DEF ViewOf
    (* The device sees the caller's data through a read mapping (Map's    *)
    (* copy, ReadMappingCoherent) and through a common buffer (the same   *)
    (* bytes, CommonDirect).                                               *)
    <4>11. r.op \in ReadOps \cup CommonOps =>
             ViewOf(x, mem') = [i \in 0 .. r.len - 1 |-> HostView[r.host + i]]
      <5> SUFFICES ASSUME r.op \in ReadOps \cup CommonOps, NEW i \in 0 .. r.len - 1
                   PROVE  mem'[dev + i] = HostView[r.host + i]
        BY DEF ViewOf
      <5>1. mem'[dev + i] = mem'[r.host + i]
        <6>1. CASE r.op \in ReadOps
          BY <6>1, <4>0, <2>i DEF ReadMappingCoherent
        <6>2. CASE r.op \in CommonOps
          <7>1. CommonDirect'
            BY DEF RefineInv
          <7>. QED
            BY <6>2, <7>1, <4>0 DEF CommonDirect
        <6>. QED
          BY <6>1, <6>2
      <5>2. r.host + i \in Bytes(r.host, r.len)
        BY <3>0 DEF Bytes
      <5>. QED
        BY <5>1, <5>2, <4>4, <3>n, <3>0, <2>t DEF HostView
    <4>12. Contract!CMap(l)
      <5>0. l.id = id /\ l.op = r.op /\ l.host = r.host /\ l.len = r.len
        BY <4>0
      <5>1. l.id \notin DOMAIN DeviceViews
        BY <4>0, <3>0, <2>v
      <5>2. Contract!Span(l.host, l.len) \subseteq Addr
            /\ \A b \in Contract!Span(l.host, l.len) : HostView[b] \in Nat
        BY <4>0, <4>5, <3>0 DEF Contract!Span, Bytes
      <5>3. HostView' = [b \in Addr |-> IF b \in Contract!Span(l.host, l.len)
                                         THEN LentByte ELSE HostView[b]]
        BY <4>0, <4>6 DEF Contract!Span, Bytes
      <5>4. Contract!OtherViewsKept(l.id)
        BY <4>0, <4>8 DEF Contract!OtherViewsKept
      <5>5. DeviceViews'[l.id] \in [0 .. l.len - 1 -> Nat]
        BY <4>0, <4>9, <4>10
      <5>6. l.op \in ReadOps \cup CommonOps =>
              DeviceViews'[l.id] = Contract!Contents(l.host, l.len)
        BY <5>0, <4>9, <4>11 DEF Contract!Contents
      <5>. QED
        BY <5>1, <5>2, <5>3, <5>4, <5>5, <5>6, <4>2, <4>7, <4>0, <5>0 DEF Contract!CMap
    <4>. QED
      BY <4>1, <4>12 DEF Contract!CNext
  <3>1. CASE UNCHANGED <<mem, maps>>
    BY <3>1, <3>0, <2>s
  <3>2. CASE maps' = maps \cup {rec(r.host)} /\ UNCHANGED mem
    <4>1. \A m \in maps : ViewOf(m, mem') = ViewOf(m, mem)
      BY <3>2 DEF ViewOf
    <4>. QED
      BY <3>2, <4>1, <3>n
  <3>3. CASE \E p \in fits :
               /\ maps' = maps \cup {rec(p * PageSize)}
               /\ mem' = IF r.op \in ReadOps
                           THEN CopyMem(mem, p * PageSize, r.host, r.len)
                           ELSE mem
    <4>1. PICK p \in fits :
               /\ maps' = maps \cup {rec(p * PageSize)}
               /\ mem' = IF r.op \in ReadOps
                           THEN CopyMem(mem, p * PageSize, r.host, r.len)
                           ELSE mem
      BY <3>3
    (* Map's copy lands on free pages: no caller byte, no device range. *)
    <4>2. \A a \in Addr : a \div PageSize \in free \/ mem'[a] = mem[a]
      <5>1. \A a \in Bytes(p * PageSize, r.len) : a \div PageSize \in free
        BY <2>h, <2>i, MapBounce
      <5>. QED
        BY <4>1, <5>1, CopyMemOutside
    <4>3. \A a \in CallerBytes : mem'[a] = mem[a]
      BY <4>2, <2>h, <2>i, FreeByteUnused
    <4>4. \A m \in maps : ViewOf(m, mem') = ViewOf(m, mem)
      <5> SUFFICES ASSUME NEW m \in maps, NEW i \in 0 .. m.len - 1
                   PROVE  mem'[m.dev + i] = mem[m.dev + i]
        BY DEF ViewOf
      <5>1. m.dev + i \in Bytes(m.dev, m.len)
        BY <2>t, MapRecordFields DEF Bytes
      <5>. QED
        BY <5>1, <4>2, <2>t, <2>i, FreeByteUnused
    <4>. QED
      BY <4>1, <4>3, <4>4, <3>n
  <3>. QED
    BY <2>1, <3>1, <3>2, <3>3 DEF Map
<2>2. ASSUME NEW m2 \in maps, LiveUnmap(m2) PROVE [Contract!CNext]_Contract!cvars
  <3>. DEFINE l == Loan(m2)
  <3>0. /\ m2 \in MapRecords /\ m2.host \in Int /\ m2.dev \in Int /\ m2.len \in Nat
        /\ Bytes(m2.host, m2.len) \subseteq CallerBytes
        /\ l.id = m2.id /\ l.host = m2.host /\ l.len = m2.len
    BY <2>t, <2>h, MapRecordFields DEF Loan
  <3>1. maps' = maps \ {m2} /\ UNCHANGED bufs /\ Release(m2)
    BY <2>2, Zenon DEF LiveUnmap, Unmap
  (* Unmap writes only the host range of the loan it ends. *)
  <3>2. \A a \in Addr : a \notin Bytes(m2.host, m2.len) => mem'[a] = mem[a]
    BY <3>1, CopyMemOutside DEF Release
  (* ... and leaves there what the device saw: the bounce buffer of a     *)
  (* write, or the host bytes a read or a direct mapping already share.  *)
  <3>3. \A i \in 0 .. m2.len - 1 : mem'[m2.host + i] = mem[m2.dev + i]
    <4> SUFFICES ASSUME NEW i \in 0 .. m2.len - 1
                 PROVE  mem'[m2.host + i] = mem[m2.dev + i]
      OBVIOUS
    <4>1. m2.host + i \in Addr
      BY <3>0, <2>h DEF Bytes
    <4>2. CASE m2.dev # m2.host /\ CopiesBack(m2.op)
      <5>1. mem' = CopyMem(mem, m2.host, m2.dev, m2.len)
        BY <4>2, <3>1 DEF Release
      <5>. QED
        <6>1. /\ m2.host + i \in Bytes(m2.host, m2.len)
              /\ m2.dev + ((m2.host + i) - m2.host) = m2.dev + i
          BY <3>0 DEF Bytes
        <6>. QED
          BY <6>1, <5>1, <4>1 DEF CopyMem
    <4>3. CASE m2.dev # m2.host /\ ~CopiesBack(m2.op)
      <5>1. mem' = mem
        BY <4>3, <3>1 DEF Release
      <5>2. m2.op \in ReadOps
        BY <4>3, <3>0, <2>i DEF CopiesBack, CommonDirect, MapRecords, Ops
      <5>. QED
        BY <5>1, <5>2, <2>i DEF ReadMappingCoherent
    <4>4. CASE m2.dev = m2.host
      BY <4>4, <3>1 DEF Release
    <4>. QED
      BY <4>2, <4>3, <4>4
  <3>4. Loans' = Loans \ {l}
    <4>1. \A m \in maps : Loan(m) = l => m = m2
      BY <2>i DEF Loan, IdsUnique
    <4>. QED
      BY <4>1, <3>1 DEF Loans, Loan
  <3>5. CallerBytes' = CallerBytes
        /\ LentBytes' = LentBytes \ Bytes(m2.host, m2.len)
    <5>1. CallerBytes' = CallerBytes
      BY <3>1 DEF CallerBytes
    <5>2. LentBytes' = LentBytes \ Bytes(m2.host, m2.len)
      BY <3>1, <2>i DEF LentBytes, HostsDisjoint
    <5>. QED
      BY <5>1, <5>2
  <3>6. HostView' = [b \in Addr |-> IF b \in Contract!Span(l.host, l.len)
                                     THEN DeviceViews[l.id][b - l.host]
                                     ELSE HostView[b]]
    <4>1. ASSUME NEW b \in Addr, b \notin Bytes(m2.host, m2.len)
          PROVE  HostView'[b] = HostView[b]
      BY <4>1, <3>2, <3>5, <2>b
    <4>2. ASSUME NEW b \in Bytes(m2.host, m2.len)
          PROVE  HostView'[b] = DeviceViews[m2.id][b - m2.host]
      <5>1. b \in CallerBytes' /\ b \notin LentBytes' /\ b \in Addr
        BY <3>0, <3>5, <2>h
      <5>2. b - m2.host \in 0 .. m2.len - 1 /\ m2.host + (b - m2.host) = b
        BY <3>0 DEF Bytes
      <5>3. DeviceViews[m2.id][b - m2.host] = mem[m2.dev + (b - m2.host)]
        <6>1. DeviceViews[m2.id] = ViewOf(m2, mem)
          BY <2>v
        <6>. QED
          BY <6>1, <5>2 DEF ViewOf
      <5>. QED
        BY <5>1, <5>2, <5>3, <3>3 DEF HostView
    <4>. QED
      BY <4>1, <4>2, <3>0 DEF HostView, Contract!Span, Bytes
  (* The other views are kept: no device range meets the host range. *)
  <3>7. DeviceViews' = [j \in DOMAIN DeviceViews \ {l.id} |-> DeviceViews[j]]
    <4>1. DOMAIN DeviceViews' = DOMAIN DeviceViews \ {m2.id}
      <5>1. {m.id : m \in maps \ {m2}} = {m.id : m \in maps} \ {m2.id}
        BY <2>i DEF IdsUnique
      <5>. QED
        BY <5>1, <3>1, <2>v
    <4>2. ASSUME NEW m \in maps \ {m2} PROVE DeviceViews'[m.id] = DeviceViews[m.id]
      <5>1. Bytes(m.dev, m.len) \cap Bytes(m2.host, m2.len) = {}
        BY <2>i, RangesApart
      <5>2. \A i \in 0 .. m.len - 1 : m.dev + i \in Bytes(m.dev, m.len)
        BY <2>t, MapRecordFields DEF Bytes
      <5>3. ViewOf(m, mem') = ViewOf(m, mem)
        BY <5>1, <5>2, <3>2, <2>t DEF ViewOf
      <5>. QED
        BY <5>3, <3>1, <2>v
    <4>3. DeviceViews' = [j \in DOMAIN DeviceViews' |-> DeviceViews'[j]]
      BY DEF DeviceViews
    <4>. QED
      BY <4>1, <4>2, <4>3, <3>0, <2>v
  <3>8. Contract!CUnmap(l)
    <4>1. l \in Loans
      BY DEF Loans, Loan
    <4>. QED
      BY <4>1, <3>4, <3>6, <3>7 DEF Contract!CUnmap
  <3>. QED
    <4>1. l \in Loans
      BY DEF Loans, Loan
    <4>. QED
      BY <3>8, <4>1 DEF Contract!CNext
<2>. QED
  BY <2>1, <2>2, <2>3, <2>4, <2>5, <2>s DEF ProtocolNext, vars


(* The mapping engine implements the contract of EDKII_IOMMU_PROTOCOL   *)
(* under a caller that keeps the protocol: for every value of the       *)
(* constants, IoMmuMap, IoMmuUnmap, IoMmuAllocateBuffer, IoMmuFreeBuffer *)
(* and the device's writes, with their bounce buffers, behave to the     *)
(* caller as if the device read and wrote the caller's memory directly.  *)
(* Under the full Spec, TLC finds it violated once a fourth call can     *)
(* hand a stale handle's pages out again.                                 *)
THEOREM ContractRefinement == ProtocolSpec => ImplementsContract
<1>1. ProtocolSpec => []RefineInv
  BY RefineInvHolds
<1>. QED
  BY <1>1, RefineInit, RefineStep, PTL DEF ProtocolSpec, ImplementsContract, Contract!CSpec

=============================================================================
