----------------------------- MODULE MCStorage -----------------------------
(***************************************************************************)
(* The buffers and the constant databases for TLC, one of them at a time.  *)
(*                                                                         *)
(* Four keys: k1 and k2 have the same hash and length, k3 begins in the    *)
(* slot after theirs and its record is long, k0 is the empty key in        *)
(* another table.  Positions have few enough values to overflow.           *)
(***************************************************************************)
EXTENDS MCBuffers, CdbRead

CONSTANTS k0, k1, k2, k3

MCKeyLen == k0 :> 0 @@ k1 :> 1 @@ k2 :> 1 @@ k3 :> 2
MCHash   == k0 :> 3 @@ k1 :> 10 @@ k2 :> 10 @@ k3 :> 0

VARIABLE unit   \* what is looked at

buffervars == <<part, pairvars, lineOnly>>

StorageInit ==
  /\ Init /\ CdbInit
  /\ \/ unit = "buffers"
     \/ unit = "cdb" /\ part = "write"

StorageNext ==
  /\ UNCHANGED unit
  /\ \/ unit = "buffers" /\ Next /\ UNCHANGED vars
     \/ unit = "cdb" /\ CdbNext /\ UNCHANGED buffervars

StorageSpec == StorageInit /\ [][StorageNext]_<<unit, buffervars, vars>>
=============================================================================
