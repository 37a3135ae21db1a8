------------------------------- MODULE MCDrmSetup ------------------------------
(***************************************************************************)
(* DrmSetup for every configuration of two connectors, two encoders and    *)
(* two CRTCs.                                                              *)
(***************************************************************************)
EXTENDS DrmSetup

MCEncoder == 1..2
MCCrtc == 1..2
MCRefresh == 0..2
================================================================================
