----------------------------- MODULE MCQrLogin -----------------------------
(***************************************************************************)
(* Two codes, two phones, two confirmations, and a clock on which a code   *)
(* can expire under a confirmation that is waiting for the database.       *)
(***************************************************************************)
EXTENDS QrLogin, TLC
=============================================================================
