--------------------------- MODULE MCCgiExecute ---------------------------
EXTENDS CgiExecute

AnyScript == [out : {0, 3}, reads : BOOLEAN, patient : BOOLEAN, end : {"exit", "close", "run"}]

(* A script that is patient without reading would wait for an end of input *)
(* it never sees; that is the same as one that hangs.                      *)
Everything == {s \in AnyScript : s.patient => s.reads}
=============================================================================
