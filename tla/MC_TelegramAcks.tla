-------------------------- MODULE MC_TelegramAcks --------------------------
(* Constants of the model of TelegramAcks.                                 *)
EXTENDS TelegramAcks

CONSTANTS r1, r2, t1, t2
=============================================================================
