-------------------------- MODULE MC_IoMmuDiscovery --------------------------
(* Instantiation of IoMmuDiscovery for TLC: every RIMT of at most two    *)
(* nodes, so that an IOMMU node can follow another one or another kind.  *)
EXTENDS IoMmuDiscovery

(* The nodes: an IOMMU node with each combination of its flags, a PCIe *)
(* root complex and a platform device (their flags are not read).      *)
MC_RimtNodes ==
  {[Type |-> RISCV_IOMMU_NODE_TYPE, Flags |-> f] :
     f \in SUBSET {IOMMU_NODE_FLAG_PCIE_DEVICE,
                   IOMMU_NODE_FLAG_PROXIMITY_DOMAIN_VALID}}
  \cup {[Type |-> t, Flags |-> {}] :
          t \in {PCIE_ROOT_COMPLEX_NODE_TYPE, PLATFORM_DEVICE_NODE_TYPE}}

MC_RimtTables ==
  {<<>>} \cup {<<k>> : k \in MC_RimtNodes} \cup
  {<<k1, k2>> : k1 \in MC_RimtNodes, k2 \in MC_RimtNodes}
=============================================================================
