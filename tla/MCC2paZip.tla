------------------------------ MODULE MCC2paZip -----------------------------
(***************************************************************************)
(* The instances of C2paZip that TLC checks.                               *)
(***************************************************************************)
EXTENDS C2paZip, MCArchives
=============================================================================
