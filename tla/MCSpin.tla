-------------------------------- MODULE MCSpin --------------------------------
(* Instances of Spin for TLC.                                                *)
EXTENDS Spin
===============================================================================
