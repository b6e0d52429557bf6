----------------------------- MODULE MCInflights -----------------------------
(***************************************************************************)
(* Inflights on every ring of up to three slots (zero included, which the  *)
(* code documents as "disabled") and five log indexes, so that the ring    *)
(* wraps, grows while wrapped, shrinks while in use and takes a waiting    *)
(* size.  The state space is finite without any constraint.                *)
(***************************************************************************)
EXTENDS Inflights

CONSTANTS MaxIndex, MaxCap

MCIndexes == 1..MaxIndex
MCCaps == 0..MaxCap

==============================================================================
