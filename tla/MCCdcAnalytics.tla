--------------------------- MODULE MCCdcAnalytics ---------------------------
(***************************************************************************)
(* The instance of CdcAnalytics for TLC is given by CdcAnalytics.cfg.      *)
(***************************************************************************)
EXTENDS CdcAnalytics
=============================================================================
