----------------------------- MODULE MCSessions -----------------------------
(* Two calls of one browser, with one nonce each way of signing in may use. *)
EXTENDS Sessions
=============================================================================
