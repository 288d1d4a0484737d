-------------------------- MODULE MCCredentialFile ---------------------------
(* Two threads interleave every two transactions.                           *)
EXTENDS CredentialFile
============================================================================
