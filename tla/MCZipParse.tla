----------------------------- MODULE MCZipParse -----------------------------
(***************************************************************************)
(* An instance of ZipParse for TLC: short records and headers, and every   *)
(* archive length up to one where the scan's window is cut at both ends.   *)
(***************************************************************************)
EXTENDS ZipParse

MCLengths == 0 .. 6
=============================================================================
