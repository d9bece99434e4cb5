--------------------------- MODULE MCLatencySummary ---------------------------
(***************************************************************************)
(* An instance of LatencySummary for TLC: two thirds for the ninety-nine   *)
(* hundredths, an errno of three bits that holds -4 .. 3.  One return      *)
(* value is an error, one a success that does not fit; of the two negative *)
(* ones that are no errors, one becomes a negative errno, one a positive.  *)
(***************************************************************************)
EXTENDS LatencySummary

MCRets   == {-3, 7, -6, -9}
MCDelays == {0, 1, 4}
=============================================================================
