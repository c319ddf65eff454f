-------------------------------- MODULE MCAgent --------------------------------
(* Every machine there may be - the screenshot tools are not made for Windows  *)
(* - and one grab of the screen that outlasts stop().                          *)
EXTENDS Agent
AllHosts == {h \in SUBSET Installable : ~({"windows", "screenshot"} \subseteq h)}
=============================================================================
