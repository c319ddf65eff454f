------------------------------ MODULE FileConsent ------------------------------
(***************************************************************************)
(* ResumeTransfer under the window that lets files in (window.py): the     *)
(* handler of a connection asks on_file_request, which accepts at once     *)
(* what comes from a trusted address, if the user set it so, and asks with *)
(* a dialog otherwise, for two minutes.  Trust is kept in a file           *)
(* (auth/trust_store.py) that every use loads anew; the window changes it  *)
(* and lists it on its settings page, in its main thread.                  *)
(***************************************************************************)
EXTENDS ResumeTransfer, FiniteSets

CONSTANTS
  Devices,   \* fingerprints
  Starts     \* bound: what the trust file and the setting may be at the start

\* "peer" is the sender's address; a device without an address, or with another, is "nowhere"
Places == {"absent", "nowhere", "peer"}
Nobody == [d \in Devices |-> "absent"]

ASSUME ConsentAssumption ==
  IsFiniteSet(Slots) /\ Starts \subseteq [Devices -> Places] \X BOOLEAN

VARIABLES
  trusted,   \* the file: where each device was last seen, or "absent"
  rows,      \* what the settings page lists of it
  blind,     \* ... which is nothing, because the file could not be read
  desk,      \* what the main thread is at
  store,     \* the devices of the TrustStore it is about to save
  enabled,   \* auto_accept_trusted
  changes,   \* changes so far
  question,  \* what on_file_request of a handler has come to
  stale,     \* a dialog is open whose handler has gone on without it
  leave      \* history: what let the last connection of a slot in

trustVars == <<trusted, rows, blind, desk, store, enabled, changes>>
askVars == <<question, stale, leave>>
consentVars == <<trustVars, askVars>>
allVars == <<vars, consentVars>>

ConsentTypeOK ==
  /\ {trusted, rows, store} \subseteq [Devices -> Places]
  /\ {blind, enabled, stale} \subseteq BOOLEAN
  /\ desk \in {"free", "save", "refresh", "config"}
  /\ changes \in Nat
  /\ question \in [Slots -> {"none", "posted", "open", "yes", "no"}]
  /\ leave \in [Slots -> {"none", "clicked", "trusted", "unseen"}]

ConsentInit ==
  /\ Init
  /\ \E kept \in Starts : trusted = kept[1] /\ enabled = kept[2]
  /\ rows = trusted /\ blind = FALSE /\ desk = "free" /\ store = Nobody /\ changes = 0
  /\ question = [s \in Slots |-> "none"] /\ stale = FALSE
  /\ leave = [s \in Slots |-> "none"]

(* Bound: faults and changes together are at most MaxFaults, with a fault   *)
(* left for every connection that will be refused.                         *)
Spare == changes + faults + Cardinality({s \in Slots : question[s] = "no"}) < MaxFaults

----------------------------------------------------------------------------
(* The trusted devices                                                     *)

(* _load: a file that cannot be read is an empty one.                      *)
Loaded == {trusted, Nobody}

(* is_ip_trusted                                                           *)
IsTrusted(devices) == \E d \in Devices : devices[d] = "peer"

(* record_pairing, up to its save: without an address the last one stays.  *)
RecordPairing(d, address) ==
  /\ desk = "free" /\ Spare
  /\ changes' = changes + 1 /\ desk' = "save"
  /\ \E old \in Loaded :
       store' = [old EXCEPT ![d] = IF address # "none" THEN address
                                   ELSE IF @ = "absent" THEN "nowhere" ELSE @]
  /\ UNCHANGED <<trusted, rows, blind, enabled, vars, askVars>>

(* The trust button of a discovered device.                                *)
TrustDevice(d) == \E address \in {"nowhere", "peer"} : RecordPairing(d, address)

(* A pairing link, which holds an address.                                 *)
PairFromUri(d) == \E address \in {"nowhere", "peer"} : RecordPairing(d, address)

(* The form of the settings page, where the address may be left out.       *)
AddManually(d) == \E address \in {"none", "nowhere", "peer"} : RecordPairing(d, address)

(* remove_trusted_device saves only if it finds the device.                *)
Untrust(d) ==
  /\ desk = "free" /\ rows[d] # "absent" /\ Spare
  /\ changes' = changes + 1
  /\ \E old \in Loaded :
       /\ store' = [old EXCEPT ![d] = "absent"]
       /\ desk' = IF old[d] = "absent" THEN "refresh" ELSE "save"
  /\ UNCHANGED <<trusted, rows, blind, enabled, vars, askVars>>

(* _save writes a temporary file and moves it, or fails and only logs it.  *)
Save ==
  /\ desk = "save" /\ desk' = "refresh"
  /\ trusted' \in {store, trusted} /\ store' = Nobody
  /\ UNCHANGED <<rows, blind, enabled, changes, vars, askVars>>

RefreshRows ==
  /\ desk = "refresh" /\ desk' = "free" /\ store' = Nobody
  /\ rows' \in Loaded /\ blind' = (rows' # trusted)
  /\ UNCHANGED <<trusted, enabled, changes, vars, askVars>>

(* The switch of the settings page; AppConfig.save writes in place.        *)
SetAutoAccept ==
  /\ desk = "free" /\ Spare
  /\ changes' = changes + 1 /\ desk' = "config" /\ enabled' = ~enabled
  /\ UNCHANGED <<trusted, rows, blind, store, vars, askVars>>

SaveConfig ==
  /\ desk = "config" /\ desk' = "free"
  /\ UNCHANGED <<trusted, rows, blind, store, enabled, changes, vars, askVars>>

----------------------------------------------------------------------------
(* on_file_request                                                         *)

(* The page lists a device at the sender's address, or is not up to date.  *)
Listed == IsTrusted(rows) \/ blind \/ desk = "refresh"

(* should_auto_accept, or the dialog is posted to the main thread.         *)
Ask(s) ==
  /\ rpc[s] = "header" /\ question[s] = "none"
  /\ \E devices \in Loaded :
       IF enabled /\ IsTrusted(devices)
         THEN /\ question' = [question EXCEPT ![s] = "yes"]
              /\ leave' = [leave EXCEPT ![s] = IF Listed THEN "trusted" ELSE "unseen"]
         ELSE /\ question' = [question EXCEPT ![s] = "posted"]
              /\ leave' = [leave EXCEPT ![s] = "none"]
  /\ UNCHANGED <<stale, trustVars, vars>>

ShowDialog(s) ==
  /\ desk = "free" /\ question[s] = "posted"
  /\ question' = [question EXCEPT ![s] = "open"]
  /\ UNCHANGED <<stale, leave, trustVars, vars>>

ClickAccept(s) ==
  /\ desk = "free" /\ question[s] = "open"
  /\ question' = [question EXCEPT ![s] = "yes"]
  /\ leave' = [leave EXCEPT ![s] = "clicked"]
  /\ UNCHANGED <<stale, trustVars, vars>>

ClickRefuse(s) ==
  /\ desk = "free" /\ question[s] = "open" /\ Spare
  /\ question' = [question EXCEPT ![s] = "no"]
  /\ UNCHANGED <<stale, leave, trustVars, vars>>

(* 120 s have passed: the handler refuses, and the dialog stays or is yet  *)
(* to come.                                                                *)
TimeOut(s) ==
  /\ question[s] \in {"posted", "open"} /\ Spare
  /\ question' = [question EXCEPT ![s] = "no"] /\ stale' = TRUE
  /\ UNCHANGED <<leave, trustVars, vars>>

(* Mutant: the dialogs share one decision.                                 *)
ClickStaleCounts ==
  /\ desk = "free" /\ stale /\ stale' = FALSE
  /\ question' = [s \in Slots |-> IF question[s] = "open" THEN "yes" ELSE question[s]]
  /\ UNCHANGED <<leave, trustVars, vars>>

(* The answer to a dialog whose handler has gone on changes nothing.       *)
ClickStale ==
  /\ desk = "free" /\ stale /\ stale' = FALSE
  /\ UNCHANGED <<question, leave, trustVars, vars>>

----------------------------------------------------------------------------
(* The transfer, as in ResumeTransfer                                      *)

Send(s) == SenderStep(s) /\ UNCHANGED consentVars

Handle(s) ==
  /\ HandlerStep(s)
  /\ rpc[s] = "header" => question[s] = "yes"
  /\ question' = [question EXCEPT ![s] = "none"]
  /\ UNCHANGED <<stale, leave, trustVars>>

Refused(s) ==
  /\ question[s] = "no" /\ Refuse(s)
  /\ question' = [question EXCEPT ![s] = "none"]
  /\ UNCHANGED <<stale, leave, trustVars>>

Fails(s) == Spare /\ (AbortSend(s) \/ RecvTimeout(s)) /\ UNCHANGED consentVars

(* The program dies and starts again: a setting that was being written is  *)
(* the old, the new or (from a torn file) the default, and the dialogs are *)
(* gone.                                                                   *)
Dies ==
  /\ \/ Spare /\ Crash
     \/ (\A s \in Slots : HandlerGone(s)) /\ UNCHANGED vars
  /\ question' = [s \in Slots |-> "none"] /\ stale' = FALSE
  /\ desk' = "free" /\ store' = Nobody
  /\ enabled' \in IF desk = "config" THEN BOOLEAN ELSE {enabled}
  /\ rows' \in Loaded /\ blind' = (rows' # trusted)
  /\ UNCHANGED <<trusted, changes, leave>>

Changes == ChangeSource /\ UNCHANGED consentVars

Desk == Save \/ RefreshRows \/ SaveConfig
User ==
  \/ SetAutoAccept \/ ClickStale
  \/ \E d \in Devices : TrustDevice(d) \/ PairFromUri(d) \/ AddManually(d) \/ Untrust(d)

ConsentNext ==
  \/ Desk \/ User \/ Changes \/ Dies
  \/ \E s \in Slots :
       \/ Ask(s) \/ ShowDialog(s) \/ ClickAccept(s) \/ ClickRefuse(s) \/ TimeOut(s)
       \/ Send(s) \/ Handle(s) \/ Refused(s) \/ Fails(s)

ConsentSpec == ConsentInit /\ [][ConsentNext]_allVars

(* As in ResumeTransfer; the main loop runs, and a dialog is answered.     *)
FairConsentSpec ==
  /\ ConsentSpec /\ WF_allVars(Desk)
  /\ \A s \in Slots :
       /\ WF_allVars(Send(s)) /\ WF_allVars(Handle(s) \/ Refused(s)) /\ WF_allVars(Ask(s))
       /\ WF_allVars(ShowDialog(s)) /\ WF_allVars(ClickAccept(s) \/ ClickRefuse(s))

----------------------------------------------------------------------------
(* Properties                                                              *)

(* What a handler writes or acknowledges was let in, by a click on the     *)
(* dialog of this very request within its time, or by a trust that the     *)
(* settings page lists (window.py:3047-3094): not by the late answer to an *)
(* earlier request, nor by a device that the user has seen removed.        *)
NothingUnasked ==
  \A s \in Slots :
    rpc[s] \notin {"idle", "header"} \/ verdict[s] = "ok" => leave[s] \in {"clicked", "trusted"}
=============================================================================
