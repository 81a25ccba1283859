-------------------------- MODULE IoMmuInitService --------------------------
(***************************************************************************)
(* What IoMmuCommonInitialise ("Initialisation worker function",           *)
(* RiscVIoMmu.h lines 75-82) offers its two callers, the entry point and   *)
(* the PCI enumeration callback, seen from outside: a call either returns  *)
(* at once because a bring-up of the IOMMU has already started, or starts  *)
(* the one bring-up there will ever be, which ends in failure or in the    *)
(* installation of the IOMMU protocol.  Registers, queues and the context  *)
(* root are hidden.                                                        *)
(*                                                                         *)
(* busy: a call is running the bring-up; started: a bring-up has begun     *)
(* (DriverState is STATE_INITIALISED); installed: the protocol is          *)
(* installed; result: what the last call that returned returned.           *)
(***************************************************************************)

VARIABLES busy, started, installed, result

svars == <<busy, started, installed, result>>

Results == {"None", "Success", "Unsupported"}

SInit ==
  /\ busy = FALSE
  /\ started = FALSE
  /\ installed = FALSE
  /\ result = "None"

(* A call made after a bring-up started returns EFI_SUCCESS at once. *)
SReturnEarly ==
  /\ ~busy /\ started
  /\ result' = "Success"
  /\ UNCHANGED <<busy, started, installed>>

(* The first call starts the bring-up. *)
SStart ==
  /\ ~busy /\ ~started
  /\ busy' = TRUE /\ started' = TRUE
  /\ result' = "None"
  /\ UNCHANGED installed

(* The bring-up fails: the call returns an error, nothing is installed. *)
SFail ==
  /\ busy
  /\ busy' = FALSE
  /\ result' = "Unsupported"
  /\ UNCHANGED <<started, installed>>

(* The bring-up succeeds: the protocol is installed, for the first and   *)
(* only time, and the call returns EFI_SUCCESS.                          *)
SSucceed ==
  /\ busy /\ ~installed
  /\ busy' = FALSE /\ installed' = TRUE
  /\ result' = "Success"
  /\ UNCHANGED started

SNext == SReturnEarly \/ SStart \/ SFail \/ SSucceed

SSpec == SInit /\ [][SNext]_svars
=============================================================================
