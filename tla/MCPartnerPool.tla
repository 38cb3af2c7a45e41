---------------------------- MODULE MCPartnerPool ----------------------------
(* Small instances of PartnerPool, with a tick of ten seconds: a statement *)
(* timeout of 20 s, a command timeout of 50 s, keepalives that take 90 s.  *)
EXTENDS PartnerPool

CONSTANTS r1, r2
==============================================================================
