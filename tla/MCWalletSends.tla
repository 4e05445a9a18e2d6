---------------------------- MODULE MCWalletSends ----------------------------
(***************************************************************************)
(* WalletSends for TLC: one withdrawal QR, scanned twice, of a merchant    *)
(* who pays from a CLINK wallet first and from a Blink one then.           *)
(***************************************************************************)
EXTENDS WalletSends

MCLane == <<"clink", "blink">>
MCSurface == <<"withdraw", "withdraw">>
=============================================================================
