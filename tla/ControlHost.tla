------------------------------ MODULE ControlHost ------------------------------
(***************************************************************************)
(* ControlChannel under the window that owns its switch (window.py): the   *)
(* host's page asks before it allows control, shows a banner and a stop    *)
(* button while it is on, and starts and stops the stream server that the  *)
(* channels belong to.  All of it runs on the main thread, which waits in  *)
(* server_close() for the thread of every channel.                         *)
(***************************************************************************)
EXTENDS ControlChannel

VARIABLES
  main,    \* where the main thread is
  asking,  \* the consent dialog is open
  shown,   \* the switch is on, the banner is shown, the stop button works
  was,     \* was_allowed of _disable_control_host
  noted,   \* the window's last control record in the history is a start
  hosting, \* _screen_hosting
  server   \* the stream server: "off", "starting", "up"

pageVars == <<main, asking, shown, was, noted, hosting, server>>
hostVars == <<vars, pageVars>>

PageTypeOK ==
  /\ main \in {"free", "granting", "hiding", "stopping", "closing", "closed"}
  /\ {asking, shown, was, noted, hosting} \subseteq BOOLEAN
  /\ server \in {"off", "starting", "up"}

HostInit ==
  /\ Init
  /\ main = "free" /\ asking = FALSE /\ shown = FALSE /\ was = FALSE /\ noted = FALSE
  /\ hosting = FALSE /\ server = "off"

----------------------------------------------------------------------------
(* The switch                                                              *)

(* The switch is moved on: nothing changes before the dialog is answered.  *)
AskConsent ==
  /\ main = "free" /\ ~asking /\ ~shown
  /\ asking' = TRUE
  /\ UNCHANGED <<vars, main, shown, was, noted, hosting, server>>

(* "Iptal", or the dialog is closed.                                       *)
Decline ==
  /\ main = "free" /\ asking
  /\ asking' = FALSE /\ shown' = FALSE
  /\ UNCHANGED <<vars, main, was, noted, hosting, server>>

(* "Izin Ver": set_control_allowed(True), and only then is it shown.  The  *)
(* kill switch may have been pressed while the dialog was open.            *)
Consent ==
  /\ main = "free" /\ asking
  /\ asking' = FALSE /\ main' = "granting"
  /\ SetAllowed(TRUE)
  /\ UNCHANGED <<shown, was, noted, hosting, server>>

ShowControl ==
  /\ main = "granting"
  /\ shown' = TRUE /\ noted' = TRUE /\ main' = "free"
  /\ UNCHANGED <<vars, asking, was, hosting, server>>

(* set_control_allowed(False), which may find it off.                      *)
Forbid == IF allowed THEN SetAllowed(FALSE) ELSE UNCHANGED vars

(* Mutant: the page is reset, the switch of the server is not.             *)
DisablePageOnly ==
  /\ main = "free"
  /\ was' = allowed /\ main' = "hiding"
  /\ UNCHANGED <<vars, asking, shown, noted, hosting, server>>

(* The switch moved off, the stop button, or Ctrl+Alt+K, which is there    *)
(* whatever the page shows.                                                *)
DisableControl ==
  /\ main = "free"
  /\ was' = allowed /\ main' = "hiding"
  /\ Forbid
  /\ UNCHANGED <<asking, shown, noted, hosting, server>>

HideControl ==
  /\ main = "hiding"
  /\ shown' = FALSE /\ main' = "free" /\ was' = FALSE
  /\ noted' = (noted /\ ~was)
  /\ UNCHANGED <<vars, asking, hosting, server>>

----------------------------------------------------------------------------
(* The stream server                                                       *)

ClickHost ==
  /\ main = "free" /\ ~hosting
  /\ hosting' = TRUE
  /\ server' = IF server = "off" THEN "starting" ELSE server
  /\ UNCHANGED <<vars, main, asking, shown, was, noted>>

(* The thread of run_host has the listener bound.                          *)
ServerUp ==
  /\ server = "starting"
  /\ server' = "up"
  /\ UNCHANGED <<vars, main, asking, shown, was, noted, hosting>>

(* stop_host_stream: a server that is not up yet is not found and stays;   *)
(* control is left as it is.                                               *)
ClickUnhost ==
  /\ main = "free" /\ hosting
  /\ hosting' = FALSE
  /\ main' = IF server = "up" THEN "stopping" ELSE "free"
  /\ UNCHANGED <<vars, asking, shown, was, noted, server>>

(* server_close joins the thread of every channel.                         *)
Joined == \A h \in Channels : pc[h] \in {"idle", "done"}

StopServer ==
  /\ main \in {"stopping", "closing"} /\ Joined
  /\ main' = IF main = "stopping" THEN "free" ELSE "closed"
  /\ server' = "off"
  /\ UNCHANGED <<vars, asking, shown, was, noted, hosting>>

(* _on_window_close: control is forbidden without a record.                *)
CloseWindow ==
  /\ main = "free"
  /\ Forbid
  /\ main' = IF hosting /\ server = "up" THEN "closing" ELSE "closed"
  /\ hosting' = FALSE
  /\ UNCHANGED <<asking, shown, was, noted, server>>

Page ==
  \/ AskConsent \/ Decline \/ Consent \/ ShowControl \/ DisableControl \/ HideControl
  \/ ClickHost \/ ServerUp \/ ClickUnhost \/ StopServer \/ CloseWindow

----------------------------------------------------------------------------
(* The channels, as in ControlChannel, of a server that is up.             *)
Remote(h) ==
  /\ \/ server = "up" /\ \E s \in Sessions : Upgrade(h, s)
     \/ Leave(h)
     \/ \E id \in 0 .. grants : Message(h, id)
  /\ UNCHANGED pageVars

Channel(h) == ChannelStep(h) /\ UNCHANGED pageVars

Ages(s) == Expire(s) /\ UNCHANGED pageVars

HostNext ==
  \/ Page
  \/ \E h \in Channels : Remote(h) \/ Channel(h)
  \/ \E s \in Sessions : Ages(s)

HostSpec == HostInit /\ [][HostNext]_hostVars

FairHostSpec == HostSpec /\ \A h \in Channels : WF_hostVars(Channel(h))

----------------------------------------------------------------------------
(* Properties                                                              *)

(* Nobody holds a control token behind the user's back: while there is     *)
(* one, the page says so and its stop button is on, except in the moment   *)
(* between the consent and its display (window.py:3511-3544: allowed, then *)
(* shown; forbidden, then hidden), whatever the server and the channels do *)
(* in between.                                                             *)
SeenWhileHeld == (\E k \in Keys : tokens[k] # NoSid) => shown \/ main = "granting"
=============================================================================
