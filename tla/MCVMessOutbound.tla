--------------------------- MODULE MCVMessOutbound ---------------------------
(* Model-checking instance of VMessOutbound: every security type the      *)
(* request options tell apart, two chunks each way, and an idle budget    *)
(* longer than both half-close budgets so that narrowing is visible.     *)
EXTENDS VMessOutbound

MCSecurities == {"AES128_GCM", "NONE", "ZERO"}
=============================================================================
