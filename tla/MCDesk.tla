-------------------------------- MODULE MCDesk --------------------------------
(* Two devices and two files.  Jobs may meet at the cleaning of one file, at   *)
(* the cancel button and in the queue of the main thread.                      *)
EXTENDS Desk
CONSTANTS here, p, q, f, g
Job(kind, targets, files, clean) ==
    [kind |-> kind, targets |-> targets, files |-> files, clean |-> clean]
SomeJobs == {Job("single", <<p, q>>, <<f>>, TRUE), Job("multi", <<p, q>>, <<f>>, TRUE),
             Job("multi", <<p>>, <<f, g>>, FALSE), Job("folder", <<p, q>>, <<f, g>>, FALSE),
             Job("privacy", <<here>>, <<f, g>>, TRUE)}
=============================================================================
