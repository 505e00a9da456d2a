----------------------------- MODULE MCChannel -----------------------------
(* The instance of the channel for TLC; MCChannel.cfg gives the constants. *)
EXTENDS Channel

=============================================================================
