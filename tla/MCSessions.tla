----------------------------- MODULE MCSessions -----------------------------
(***************************************************************************)
(* Instances of Sessions for TLC.                                          *)
(***************************************************************************)
EXTENDS Sessions

\* One live wallet: whether it may trade depends on the engine mode.
OneWallet == {"l"}
LiveKind == [w \in OneWallet |-> "live"]
=============================================================================
