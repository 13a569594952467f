-------------------------------- MODULE Bus --------------------------------
(***************************************************************************)
(* What src/hal/usb_fs.c tells both halves of the session of the bus: the  *)
(* host has configured the device.                                         *)
(***************************************************************************)

VARIABLE cfg_set  \* usb_configured()
=============================================================================
