---------------------------- MODULE MCInterrupts ----------------------------
(***************************************************************************)
(* Nothing in Interrupts depends on how far the ticks are counted, beyond  *)
(* two.                                                                    *)
(***************************************************************************)
EXTENDS Interrupts
=============================================================================
