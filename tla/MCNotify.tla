------------------------------ MODULE MCNotify ------------------------------
(* Instances of Notify for TLC.                                             *)
EXTENDS Notify

Links == {"CentServer_Connection", "Internet_Connection"}
Modem == {"Internet_Connection", "USB_Modem_Connection"}
=============================================================================
