---------------------------- MODULE MCGuestTraps ----------------------------
(***************************************************************************)
(* A small machine for GuestTraps.  Tasks are interchangeable, but TLC     *)
(* checks the refinement without symmetry.                                 *)
(***************************************************************************)
EXTENDS GuestTraps

CONSTANTS t1, t2, timer, usb

MCTasks == {t1, t2}
MCSenders == {timer, usb}
=============================================================================
