---------------------------- MODULE MC_IoMmuDma -----------------------------
(* Instantiation of IoMmuDma for TLC.  Scale: a page is 2 bytes, memory  *)
(* is 6 pages, the 4 GiB line is at byte 6 (pages 0-2 lie below it).    *)
(* Sv39 addresses exactly the 12 bytes of memory, so its top falls on    *)
(* the last byte; Sv48 and Sv57 reach far beyond memory, as on a real    *)
(* machine.  The caller owns one page below and one above 4 GiB; it maps *)
(* 1 to 3 bytes (unaligned, aligned, and crossing a page) and allocates  *)
(* one-page buffers; two mappings may be outstanding at once, and a      *)
(* behaviour makes up to 3 protocol calls (device writes are not calls): *)
(* enough for two overlapping mappings, or a buffer allocated, mapped    *)
(* and unmapped.                                                         *)
EXTENDS IoMmuDma

MC_PageSize == 2
MC_NumPages == 6
MC_Size4G == 6
MC_TopOf == [m \in {"Sv39", "Sv48", "Sv57"} |->
               CASE m = "Sv39" -> 11 [] m = "Sv48" -> 31 [] OTHER -> 63]
MC_SatpModes == {"Sv39", "Sv48"}
MC_CallerPages == {1, 4}
MC_MapIds == {1, 2}
MC_Lengths == {1, 2, 3}
MC_BufferPages == {1}
MC_MaxCalls == 3
(* Four calls: enough for the bounce pages Unmap freed to be handed out  *)
(* to another mapping before the first handle is passed to Unmap again. *)
MC_MaxCallsRetry == 4
=============================================================================
