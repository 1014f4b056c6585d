----------------------------- MODULE MCFrontend -----------------------------
(* The two registered formats and one that does not exist, in command lines  *)
(* of up to six options.                                                     *)
EXTENDS Frontend

MCFrontends == {"dot", "json"}
MCFormatArgs == {"dot", "json", "none"}
=============================================================================
