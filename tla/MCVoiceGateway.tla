--------------------------- MODULE MCVoiceGateway ---------------------------
(* Constants of the small instances of VoiceGateway: one switch, so that   *)
(* there are requests of three kinds, on, off and one nobody knows.  That  *)
(* two switches are not mixed up is a matter of WorkingSpace.              *)
EXTENDS VoiceGateway

MCAppliance == {1}
=============================================================================
