------------------------------- MODULE MCViewer -------------------------------
(* Two connections and two requests: the least in which a connection, a      *)
(* reading thread or a request meets its predecessor.                        *)
EXTENDS Viewer
=============================================================================
