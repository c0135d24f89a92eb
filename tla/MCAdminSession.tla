------------------------------ MODULE MCAdminSession ------------------------------
(* AdminSession with one handle and connections used at will, against the same  *)
(* properties as the server alone.                                              *)
EXTENDS AdminSession, MCAdminServer

CONSTANTS k1, yes
SetK(k) == [keys |-> {k}, value |-> yes]
DropAll == [keys |-> Keys, value |-> None]
MCPlans == {<<SetK(k1)>>, <<SetK(k1), DropAll>>}
MCOtherWrites == {SetK(k1)}
================================================================================
