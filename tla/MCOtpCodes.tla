----------------------------- MODULE MCOtpCodes -----------------------------
(***************************************************************************)
(* An instance of OtpCodes alone for TLC: an account of two numbers, and   *)
(* two tabs that each have a code sent within one window.                  *)
(***************************************************************************)
EXTENDS OtpCodes

CONSTANTS n1, n2, t1, t2

BothNumbers == <<n1, n2>>
=============================================================================
