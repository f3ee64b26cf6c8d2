----------------------------- MODULE Reconnect -----------------------------
(***************************************************************************)
(* The reconnection dialog of the UI (ReconnectModal.razor.js): a page     *)
(* whose connection to its circuit on the server is gone covers itself     *)
(* with a dialog and tries to get the connection, the circuit or at least  *)
(* the page back.                                                          *)
(*                                                                         *)
(* Blazor is the environment.  It announces a lost or paused connection    *)
(* ("show"), tries to connect for a while, and says how that ended         *)
(* ("hide", "failed", "rejected").  Blazor.reconnect and resumeCircuit are *)
(* answered when the server is reached and throw when it is not; calls of  *)
(* resumeCircuit that overlap share one answer.                            *)
(***************************************************************************)
EXTENDS Integers

CONSTANT Calls      (* calls of retry and resume that may be in flight *)

VARIABLES
  server,           (* "reachable" or "away"                             *)
  circuit,          (* on the server: "live", "stored" or "gone"         *)
  link,             (* "up" or "down"                                    *)
  face,             (* the class of the dialog                           *)
  modal,            (* "open" or "closed"                                *)
  listener,         (* "armed" when visibilitychange leads to a retry    *)
  tab,              (* "visible" or "hidden"                             *)
  call,             (* per call: what it awaits                          *)
  doomed,           (* calls on their way when the server was away       *)
  outdated,         (* calls that ask for a circuit since replaced       *)
  page              (* changes whenever the page is loaded anew          *)

dialog == <<face, modal>>
inFlight == <<call, doomed, outdated>>
vars == <<server, circuit, link, dialog, listener, tab, inFlight, page>>

Init ==
  /\ server = "reachable" /\ circuit = "live" /\ link = "up"
  /\ face = "none" /\ modal = "closed" /\ listener = "off" /\ tab = "visible"
  /\ call = [k \in Calls |-> "idle"] /\ doomed = {} /\ outdated = {} /\ page = 0
-----------------------------------------------------------------------------
(* handleReconnectStateChanged, and the class Blazor sets with each event *)
Show(class) == face' = class /\ modal' = "open"

(* Slip: the dialog is left to the class. *)
Hide_ClassOnly == face' = "none" /\ UNCHANGED modal
Hide == face' = "none" /\ modal' = "closed"

Reload ==
  /\ page' = 1 - page
  /\ link' = "up" /\ circuit' = "live" /\ Hide /\ listener' = "off"
  /\ call' = [k \in Calls |-> "idle"] /\ doomed' = {} /\ outdated' = {}
  /\ UNCHANGED <<server, tab>>

(* The connection is back, with the circuit it had or with a resumed one. *)
Connected(C) ==
  /\ link' = "up" /\ circuit' = "live" /\ Hide
  /\ call' = [k \in Calls |-> IF k \in C THEN "idle" ELSE call[k]]
  /\ doomed' = doomed \ C
  /\ outdated' = (IF circuit = "live" THEN outdated
                   ELSE {k \in Calls : call[k] = "reconnecting"}) \ C
  /\ UNCHANGED <<server, listener, tab, page>>
-----------------------------------------------------------------------------
Drop ==
  /\ link = "up"
  /\ link' = "down" /\ Show("show")
  /\ UNCHANGED <<server, circuit, listener, tab, inFlight, page>>

(* The server pauses the session and stores its state. *)
Pause ==
  /\ link = "up"
  /\ link' = "down" /\ circuit' = "stored" /\ Show("paused")
  /\ UNCHANGED <<server, listener, tab, inFlight, page>>

AutoConnected ==
  /\ face = "show" /\ server = "reachable" /\ circuit \in {"live", "stored"}
  /\ Connected({})

(* Slip: the dialog is closed, the page stays. *)
Rejected_Closes ==
  /\ face = "show" /\ server = "reachable" /\ circuit = "gone"
  /\ Hide
  /\ UNCHANGED <<server, circuit, link, listener, tab, inFlight, page>>

Rejected ==
  /\ face = "show" /\ server = "reachable" /\ circuit = "gone"
  /\ Reload

(* Slip: the dialog waits for the button only. *)
Failed_NotArmed ==
  /\ face = "show" /\ server = "away"
  /\ face' = "failed"
  /\ UNCHANGED <<server, circuit, link, modal, listener, tab, inFlight, page>>

Failed ==
  /\ face = "show" /\ server = "away"
  /\ face' = "failed" /\ listener' = "armed"
  /\ UNCHANGED <<server, circuit, link, modal, tab, inFlight, page>>

(* A circuit without its page is stored after a while, and forgotten in the   *)
(* end, or at once when the server restarts.                                  *)
Expire ==
  /\ link = "down"
  /\ \/ circuit = "live" /\ circuit' \in {"stored", "gone"}
     \/ circuit = "stored" /\ circuit' = "gone"
  /\ UNCHANGED <<server, link, dialog, listener, tab, inFlight, page>>

ServerLeaves ==
  /\ server = "reachable" /\ link = "down"
  /\ server' = "away" /\ doomed' = {k \in Calls : call[k] # "idle"}
  /\ UNCHANGED <<circuit, link, dialog, listener, tab, call, outdated, page>>

ServerReturns ==
  /\ server = "away"
  /\ server' = "reachable"
  /\ UNCHANGED <<circuit, link, dialog, listener, tab, inFlight, page>>
-----------------------------------------------------------------------------
Await(k, what) ==
  /\ call' = [call EXCEPT ![k] = what]
  /\ doomed' = IF server = "away" THEN doomed \cup {k} ELSE doomed \ {k}
  /\ outdated' = outdated \ {k}

(* retry: the listener is taken off until it is known how the attempt ends. *)
Retry(k) ==
  /\ call[k] = "idle" /\ Await(k, "reconnecting") /\ listener' = "off"
  /\ UNCHANGED <<server, circuit, link, dialog, page>>

ClickRetry(k) == face = "failed" /\ tab = "visible" /\ Retry(k) /\ UNCHANGED tab

ClickResume(k) ==
  /\ face \in {"paused", "resume-failed"} /\ tab = "visible"
  /\ call[k] = "idle" /\ Await(k, "resuming")
  /\ UNCHANGED <<server, circuit, link, dialog, listener, tab, page>>

HideTab ==
  /\ tab = "visible" /\ tab' = "hidden"
  /\ UNCHANGED <<server, circuit, link, dialog, listener, inFlight, page>>

(* retryWhenDocumentBecomesVisible *)
ShowTab ==
  /\ tab = "hidden" /\ tab' = "visible"
  /\ IF listener = "armed" THEN \E k \in Calls : Retry(k)
     ELSE UNCHANGED <<server, circuit, link, dialog, listener, inFlight, page>>

Reconnected(k) ==
  /\ call[k] = "reconnecting" /\ server = "reachable"
  /\ circuit = "live" /\ k \notin outdated
  /\ Connected({k})

(* Slip: the page is reloaded at once. *)
ReconnectRefused_Reloads(k) ==
  /\ call[k] = "reconnecting" /\ server = "reachable"
  /\ circuit # "live" \/ k \in outdated
  /\ Reload

(* The server was reached but has no such circuit: resume it. *)
ReconnectRefused(k) ==
  /\ call[k] = "reconnecting" /\ server = "reachable"
  /\ circuit # "live" \/ k \in outdated
  /\ Await(k, "retryResuming")
  /\ UNCHANGED <<server, circuit, link, dialog, listener, tab, page>>

End(C) ==
  /\ call' = [k \in Calls |-> IF k \in C THEN "idle" ELSE call[k]]
  /\ doomed' = doomed \ C /\ outdated' = outdated \ C

Unreached(k) == server = "away" \/ k \in doomed

(* Slip: the listener is not put back. *)
ReconnectThrows_NotArmed(k) ==
  /\ call[k] = "reconnecting" /\ Unreached(k)
  /\ End({k})
  /\ UNCHANGED <<server, circuit, link, dialog, listener, tab, page>>

ReconnectThrows(k) ==
  /\ call[k] = "reconnecting" /\ Unreached(k)
  /\ End({k}) /\ listener' = "armed"
  /\ UNCHANGED <<server, circuit, link, dialog, tab, page>>

Resumers == {k \in Calls : call[k] \in {"retryResuming", "resuming"}}

Resumed ==
  /\ Resumers # {} /\ server = "reachable" /\ (circuit = "stored" \/ link = "up")
  /\ Connected(Resumers)

ResumeRefused ==
  /\ Resumers # {} /\ server = "reachable" /\ link = "down" /\ circuit # "stored"
  /\ Reload

(* In retry the listener is armed again, in resume the dialog says so. *)
ResumeThrows ==
  /\ \E k \in Resumers : Unreached(k)
  /\ End(Resumers)
  /\ listener' = IF \E k \in Calls : call[k] = "retryResuming" THEN "armed" ELSE listener
  /\ face' = IF face = "paused" /\ \E k \in Calls : call[k] = "resuming"
               THEN "resume-failed" ELSE face
  /\ UNCHANGED <<server, circuit, link, modal, tab, page>>

Blazor == AutoConnected \/ Rejected \/ Failed
Settle(k) == Reconnected(k) \/ ReconnectRefused(k) \/ ReconnectThrows(k)
Resume == Resumed \/ ResumeRefused \/ ResumeThrows

Next ==
  \/ Drop \/ Pause \/ Expire \/ ServerLeaves \/ ServerReturns
  \/ Blazor \/ Resume \/ HideTab \/ ShowTab
  \/ \E k \in Calls : ClickRetry(k) \/ ClickResume(k) \/ Settle(k)

Spec == Init /\ [][Next]_vars

(* Every attempt comes to an end, Blazor's and the script's. *)
FairSpec == Spec /\ WF_vars(Blazor) /\ WF_vars(Resume) /\ \A k \in Calls : WF_vars(Settle(k))
-----------------------------------------------------------------------------
(* Every variable has its type; a page that is connected is so to a live      *)
(* circuit, and only such a page has no class on its dialog.                  *)
TypeOK ==
  /\ server \in {"reachable", "away"} /\ circuit \in {"live", "stored", "gone"}
  /\ link \in {"up", "down"} /\ face \in {"none", "show", "failed", "paused", "resume-failed"}
  /\ modal \in {"open", "closed"} /\ listener \in {"armed", "off"}
  /\ tab \in {"visible", "hidden"} /\ page \in {0, 1}
  /\ call \in [Calls -> {"idle", "reconnecting", "retryResuming", "resuming"}]
  /\ doomed \subseteq {k \in Calls : call[k] # "idle"}
  /\ outdated \subseteq {k \in Calls : call[k] = "reconnecting"}
  /\ link = "up" <=> face = "none"
  /\ link = "up" => circuit = "live" /\ server = "reachable"

(* The dialog covers the page exactly while it has no connection: nobody      *)
(* works on a dead page, nobody is locked out of a live one, whichever of     *)
(* Blazor, the button and the listener got there first.                       *)
ModalCoversOutage == modal = "open" <=> link = "down"

(* A page without connection is never left to itself: Blazor or a call is at  *)
(* it, or there is a button to press, and after "failed" the listener waits   *)
(* for the customer to come back to the tab.                                  *)
WayBack ==
  link = "down" /\ face # "show" /\ (\A k \in Calls : call[k] = "idle") =>
    \/ face = "failed" /\ listener = "armed"
    \/ face \in {"paused", "resume-failed"}

(* The page is reloaded as a last resort: never while it is connected, as it  *)
(* is when another retry has resumed its circuit, nor while a circuit is      *)
(* stored that could be resumed.                                              *)
ReloadIsLast == [][page' # page => link = "down" /\ circuit # "stored"]_vars

(* If the server stays, and the customer goes and comes back and resumes a    *)
(* paused session, the page is connected again and again: although Retry is   *)
(* never pressed, attempts overlap, and the circuit is gone by then.          *)
CustomerFairness ==
  /\ WF_vars(HideTab) /\ WF_vars(ShowTab)
  /\ SF_vars(\E k \in Calls : ClickResume(k))
ComesBack ==
  CustomerFairness /\ <>[](server = "reachable") => []<>(link = "up")
=============================================================================
