------------------------------- MODULE MCAta -------------------------------
(***************************************************************************)
(* Four sectors, so that a command with a stale or half written address    *)
(* finds another sector, and every kind of drive.                          *)
(***************************************************************************)
EXTENDS Ata

MCByte  == {0, 1}
MCImage == [l \in Lba |-> "old"]
=============================================================================
