-------------------------- MODULE IoMmuDmaContract --------------------------
(***************************************************************************)
(* What EDKII_IOMMU_PROTOCOL promises its callers about DMA, as documented *)
(* with its prototypes in RiscVIoMmu.h: Map lends a range of the caller's *)
(* memory to a bus master and returns an address through which the device *)
(* sees it; Unmap ends the loan, after which the caller's memory holds     *)
(* what the device saw (its data for a read, what it wrote otherwise);     *)
(* AllocateBuffer hands the caller new memory and FreeBuffer takes it      *)
(* back.  How (identity or bounce buffer) is not part of the promise.      *)
(*                                                                         *)
(* host[a] is the caller's view of byte a: its value, Lent while a        *)
(* mapping covers it, or NotOwned when the caller does not own it.         *)
(* lent holds the outstanding loans and view[id] the bytes the device     *)
(* sees through loan id.  The actions are written as relations between    *)
(* the old and the new state, so that TLC checks an implementation's      *)
(* steps against them.                                                     *)
(***************************************************************************)
EXTENDS Naturals

CONSTANTS
  Addresses,   \* the physical address space
  ReadOps,     \* the operations in which the device only reads
  CommonOps,   \* the common-buffer operations
  Data,        \* the values a byte can hold
  Lent,        \* host[a] of a byte lent to a mapping: not in Data
  NotOwned     \* host[a] of a byte the caller does not own: not in Data

VARIABLES host, lent, view

cvars == <<host, lent, view>>

(* The bytes from a for n bytes. *)
Span(a, n) == a .. a + n - 1

(* The caller's data in the n bytes from a, in order. *)
Contents(a, n) == [i \in 0 .. n - 1 |-> host[a + i]]

(* The views of the loans other than id stay as they were. *)
OtherViewsKept(id) == \A j \in DOMAIN view \ {id} : view'[j] = view[j]

CInit ==
  /\ host \in [Addresses -> Data \cup {NotOwned}]
  /\ lent = {}
  /\ view = [id \in {} |-> <<>>]

(* IoMmuMap, RiscVIoMmu.h lines 130-159: the caller lends owned bytes  *)
(* under a fresh handle; the device sees the caller's data, except in a *)
(* write operation, where what it sees before it writes is unspecified. *)
CMap(l) ==
  /\ l.id \notin DOMAIN view
  /\ Span(l.host, l.len) \subseteq Addresses
  /\ \A b \in Span(l.host, l.len) : host[b] \in Data
  /\ lent' = lent \cup {l}
  /\ host' = [b \in Addresses |-> IF b \in Span(l.host, l.len) THEN Lent ELSE host[b]]
  /\ DOMAIN view' = DOMAIN view \cup {l.id}
  /\ OtherViewsKept(l.id)
  /\ view'[l.id] \in [0 .. l.len - 1 -> Data]
  /\ l.op \in ReadOps \cup CommonOps => view'[l.id] = Contents(l.host, l.len)

(* A bus master writes through a loan that allows it. *)
CDeviceWrite(l) ==
  /\ l \in lent /\ l.op \notin ReadOps
  /\ DOMAIN view' = DOMAIN view
  /\ view'[l.id] \in [0 .. l.len - 1 -> Data]
  /\ OtherViewsKept(l.id)
  /\ UNCHANGED <<host, lent>>

(* IoMmuUnmap, RiscVIoMmu.h lines 161-176: the loan ends, and the      *)
(* caller's bytes hold what the device saw.                              *)
CUnmap(l) ==
  /\ l \in lent
  /\ lent' = lent \ {l}
  /\ host' = [b \in Addresses |-> IF b \in Span(l.host, l.len)
                                    THEN view[l.id][b - l.host] ELSE host[b]]
  /\ view' = [j \in DOMAIN view \ {l.id} |-> view[j]]

(* IoMmuAllocateBuffer, RiscVIoMmu.h lines 178-207: bytes the caller    *)
(* did not own become its own, holding unspecified data.                *)
CAllocate ==
  /\ \A b \in Addresses : host'[b] # host[b] => host[b] = NotOwned /\ host'[b] \in Data
  /\ DOMAIN host' = Addresses
  /\ UNCHANGED <<lent, view>>

(* IoMmuFreeBuffer, RiscVIoMmu.h lines 209-227: owned bytes no loan     *)
(* covers are given back.                                               *)
CFree ==
  /\ \A b \in Addresses : host'[b] # host[b] => host[b] \in Data /\ host'[b] = NotOwned
  /\ DOMAIN host' = Addresses
  /\ UNCHANGED <<lent, view>>

CNext ==
  \/ \E l \in lent' \ lent : CMap(l)
  \/ \E l \in lent : CDeviceWrite(l) \/ CUnmap(l)
  \/ CAllocate
  \/ CFree

CSpec == CInit /\ [][CNext]_cvars
=============================================================================
