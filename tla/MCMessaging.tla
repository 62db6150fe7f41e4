----------------------------- MODULE MCMessaging -----------------------------
(***************************************************************************)
(* Small instances of Messaging for TLC: what a send, an ack and a read    *)
(* mark do to each other, or a send and its repetition to a third request. *)
(***************************************************************************)
EXTENDS Messaging, TLC

=============================================================================
