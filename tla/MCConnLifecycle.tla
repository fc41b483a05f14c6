--------------------------- MODULE MCConnLifecycle ---------------------------
(* Small instances of ConnLifecycle. *)
EXTENDS ConnLifecycle
=============================================================================
