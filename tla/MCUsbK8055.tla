----------------------------- MODULE MCUsbK8055 -----------------------------
(***************************************************************************)
(* UsbK8055 with two processes that share the open file; the .cfg files    *)
(* say how often the device is plugged in.                                 *)
(***************************************************************************)
EXTENDS UsbK8055, TLC

CONSTANTS u1, u2
=============================================================================
