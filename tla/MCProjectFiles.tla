--------------------------- MODULE MCProjectFiles ---------------------------
(* Two generated artifacts, in the order of their paths. *)
EXTENDS ProjectFiles

CONSTANTS actions, graph

MCArtifacts == <<actions, graph>>
=============================================================================
