---------------------------- MODULE MCWebhookMint ----------------------------
(***************************************************************************)
(* Small instances of WebhookMint for TLC.  Workers are interchangeable,   *)
(* but the runs check liveness or are small, so no symmetry is used.       *)
(***************************************************************************)
EXTENDS WebhookMint, TLC

=============================================================================
