-------------------------- MODULE ReconnectProofs --------------------------
(***************************************************************************)
(* Theorems about Reconnect: for any number of attempts that overlap, the  *)
(* dialog covers the page exactly while it has no connection, the page     *)
(* always has a way back, and is reloaded as a last resort only.           *)
(***************************************************************************)
EXTENDS Reconnect, TLAPS

-----------------------------------------------------------------------------
(* Why a page that gave up is not left to itself: the listener is off only    *)
(* while a retry is under way, whose end arms it or connects the page.        *)
SomebodyRetries ==
  face = "failed" /\ listener = "off" =>
    \E k \in Calls : call[k] \in {"reconnecting", "retryResuming"}

IInv == TypeOK /\ ModalCoversOutage /\ SomebodyRetries

LEMMA InitIInv == Init => IInv
BY DEF Init, IInv, TypeOK, ModalCoversOutage, SomebodyRetries

-----------------------------------------------------------------------------
(* The two ways in which a page comes to be connected: all calls end, or the  *)
(* calls that asked for it.                                                   *)
LEMMA ReloadKeeps ==
  ASSUME IInv, server = "reachable", Reload
  PROVE  IInv'
BY DEF IInv, TypeOK, ModalCoversOutage, SomebodyRetries, Reload, Hide

LEMMA ConnectedKeeps ==
  ASSUME IInv, server = "reachable", NEW C \in SUBSET Calls, Connected(C)
  PROVE  IInv'
<1>1. TypeOK'
  BY DEF IInv, TypeOK, Connected, Hide
<1>2. ModalCoversOutage' /\ SomebodyRetries'
  BY DEF ModalCoversOutage, SomebodyRetries, Connected, Hide
<1> QED
  BY <1>1, <1>2 DEF IInv

(* Blazor and the server. *)
LEMMA EnvironmentKeeps ==
  ASSUME IInv, Drop \/ Pause \/ Expire \/ ServerLeaves \/ ServerReturns \/ Blazor \/ HideTab
  PROVE  IInv'
<1> USE DEF IInv, TypeOK, ModalCoversOutage, SomebodyRetries, dialog, inFlight, Show
<1>1. CASE Drop
  BY <1>1 DEF Drop
<1>2. CASE Pause
  BY <1>2 DEF Pause
<1>3. CASE Expire
  BY <1>3 DEF Expire
<1>4. CASE ServerLeaves
  BY <1>4 DEF ServerLeaves
<1>5. CASE ServerReturns
  BY <1>5 DEF ServerReturns
<1>6. CASE AutoConnected
  BY <1>6, ConnectedKeeps, {} \in SUBSET Calls DEF AutoConnected
<1>7. CASE Rejected
  BY <1>7, ReloadKeeps DEF Rejected
<1>8. CASE Failed
  BY <1>8 DEF Failed
<1>9. CASE HideTab
  BY <1>9 DEF HideTab
<1> QED
  BY <1>1, <1>2, <1>3, <1>4, <1>5, <1>6, <1>7, <1>8, <1>9 DEF Blazor

-----------------------------------------------------------------------------
(* What an attempt that begins or goes on leaves as it was. *)
LEMMA AwaitKeepsTypes ==
  ASSUME IInv, NEW k \in Calls, NEW what \in {"reconnecting", "retryResuming", "resuming"},
         Await(k, what)
  PROVE  /\ call' \in [Calls -> {"idle", "reconnecting", "retryResuming", "resuming"}]
         /\ doomed' \subseteq {j \in Calls : call'[j] # "idle"}
         /\ outdated' \subseteq {j \in Calls : call'[j] = "reconnecting"}
         /\ call'[k] = what
         /\ \A j \in Calls \ {k} : call'[j] = call[j]
<1>1. /\ call' \in [Calls -> {"idle", "reconnecting", "retryResuming", "resuming"}]
      /\ call'[k] = what /\ \A j \in Calls \ {k} : call'[j] = call[j]
  BY DEF IInv, TypeOK, Await
<1>2. doomed' \subseteq doomed \cup {k} /\ outdated' \subseteq outdated \ {k}
  BY DEF Await
<1>3. /\ doomed \subseteq {j \in Calls : call[j] # "idle"}
      /\ outdated \subseteq {j \in Calls : call[j] = "reconnecting"}
  BY DEF IInv, TypeOK
<1> QED
  BY <1>1, <1>2, <1>3

LEMMA EndKeepsTypes ==
  ASSUME IInv, NEW C \in SUBSET Calls, End(C)
  PROVE  /\ call' \in [Calls -> {"idle", "reconnecting", "retryResuming", "resuming"}]
         /\ doomed' \subseteq {j \in Calls : call'[j] # "idle"}
         /\ outdated' \subseteq {j \in Calls : call'[j] = "reconnecting"}
         /\ \A j \in Calls \ C : call'[j] = call[j]
BY DEF IInv, TypeOK, End

LEMMA RetryKeeps ==
  ASSUME IInv, NEW k \in Calls, Retry(k), tab' \in {"visible", "hidden"}
  PROVE  IInv'
<1>1. Await(k, "reconnecting") /\ call'[k] = "reconnecting"
  BY AwaitKeepsTypes DEF Retry
<1>2. TypeOK'
  BY <1>1, AwaitKeepsTypes DEF IInv, TypeOK, Retry, dialog
<1>3. ModalCoversOutage' /\ SomebodyRetries'
  BY <1>1 DEF IInv, ModalCoversOutage, SomebodyRetries, Retry, dialog
<1> QED
  BY <1>2, <1>3 DEF IInv

(* The tab and the buttons. *)
LEMMA CustomerKeeps ==
  ASSUME IInv, NEW k \in Calls, ShowTab \/ ClickRetry(k) \/ ClickResume(k)
  PROVE  IInv'
<1>1. CASE ShowTab
  <2>1. CASE listener = "armed"
    BY <1>1, <2>1, RetryKeeps DEF ShowTab
  <2>2. CASE listener # "armed"
    BY <1>1, <2>2 DEF ShowTab, IInv, TypeOK, ModalCoversOutage, SomebodyRetries, dialog, inFlight
  <2> QED
    BY <2>1, <2>2
<1>2. CASE ClickRetry(k)
  BY <1>2, RetryKeeps DEF ClickRetry, IInv, TypeOK
<1>3. CASE ClickResume(k)
  <2>1. TypeOK'
    BY <1>3, AwaitKeepsTypes DEF ClickResume, IInv, TypeOK, dialog
  <2>2. ModalCoversOutage' /\ SomebodyRetries'
    BY <1>3 DEF ClickResume, IInv, ModalCoversOutage, SomebodyRetries, dialog
  <2> QED
    BY <2>1, <2>2 DEF IInv
<1> QED
  BY <1>1, <1>2, <1>3

(* The answers to Blazor.reconnect. *)
LEMMA SettleKeeps ==
  ASSUME IInv, NEW k \in Calls, Settle(k)
  PROVE  IInv'
<1>1. CASE Reconnected(k)
  BY <1>1, ConnectedKeeps, {k} \in SUBSET Calls DEF Reconnected
<1>2. CASE ReconnectRefused(k)
  <2>1. /\ Await(k, "retryResuming") /\ call'[k] = "retryResuming"
        /\ UNCHANGED <<server, circuit, link, face, modal, listener, tab, page>>
    BY <1>2, AwaitKeepsTypes DEF ReconnectRefused, dialog
  <2>2. TypeOK'
    BY <2>1, AwaitKeepsTypes DEF IInv, TypeOK
  <2>3. ModalCoversOutage' /\ SomebodyRetries'
    BY <2>1 DEF IInv, ModalCoversOutage, SomebodyRetries
  <2> QED
    BY <2>2, <2>3 DEF IInv
<1>3. CASE ReconnectThrows(k)
  <2>1. /\ End({k}) /\ listener' = "armed"
        /\ UNCHANGED <<server, circuit, link, face, modal, tab, page>>
    BY <1>3 DEF ReconnectThrows, dialog
  <2>2. TypeOK'
    BY <2>1, EndKeepsTypes, {k} \in SUBSET Calls DEF IInv, TypeOK
  <2>3. ModalCoversOutage' /\ SomebodyRetries'
    BY <2>1 DEF IInv, ModalCoversOutage, SomebodyRetries
  <2> QED
    BY <2>2, <2>3 DEF IInv
<1> QED
  BY <1>1, <1>2, <1>3 DEF Settle

(* The answers to Blazor.resumeCircuit. *)
LEMMA ResumeKeeps ==
  ASSUME IInv, Resume
  PROVE  IInv'
<1>0. Resumers \in SUBSET Calls
  BY DEF Resumers
<1>1. CASE Resumed
  BY <1>0, <1>1, ConnectedKeeps DEF Resumed
<1>2. CASE ResumeRefused
  BY <1>2, ReloadKeeps DEF ResumeRefused
<1>3. CASE ResumeThrows
  <2>1. TypeOK'
    BY <1>0, <1>3, EndKeepsTypes DEF IInv, TypeOK, ResumeThrows
  <2>2. ModalCoversOutage'
    BY <1>3 DEF IInv, ModalCoversOutage, ResumeThrows
  <2>3. SomebodyRetries'
    <3>1. SUFFICES ASSUME face' = "failed", listener' = "off"
                   PROVE  \E k \in Calls : call'[k] \in {"reconnecting", "retryResuming"}
      BY DEF SomebodyRetries
    <3>2. face = "failed" /\ listener = "off" /\ ~\E k \in Calls : call[k] = "retryResuming"
      BY <1>3, <3>1 DEF ResumeThrows
    <3>3. PICK k \in Calls : call[k] = "reconnecting"
      BY <3>2 DEF IInv, SomebodyRetries
    <3>4. call'[k] = call[k]
      BY <1>0, <1>3, <3>3, EndKeepsTypes DEF ResumeThrows, Resumers
    <3> QED
      BY <3>3, <3>4
  <2> QED
    BY <2>1, <2>2, <2>3 DEF IInv
<1> QED
  BY <1>1, <1>2, <1>3 DEF Resume

-----------------------------------------------------------------------------
LEMMA NextIInv == IInv /\ [Next]_vars => IInv'
<1> SUFFICES ASSUME IInv, [Next]_vars
             PROVE  IInv'
  OBVIOUS
<1>1. CASE Drop \/ Pause \/ Expire \/ ServerLeaves \/ ServerReturns \/ Blazor \/ HideTab
  BY <1>1, EnvironmentKeeps
<1>2. CASE ShowTab
  <2>1. CASE Calls = {}
    BY <1>2, <2>1 DEF ShowTab, IInv, TypeOK, ModalCoversOutage, SomebodyRetries, dialog, inFlight
  <2>2. CASE Calls # {}
    BY <1>2, <2>2, CustomerKeeps
  <2> QED
    BY <2>1, <2>2
<1>3. CASE Resume
  BY <1>3, ResumeKeeps
<1>4. ASSUME NEW k \in Calls, ClickRetry(k) \/ ClickResume(k) \/ Settle(k)
      PROVE  IInv'
  BY <1>4, CustomerKeeps, SettleKeeps
<1>5. CASE UNCHANGED vars
  BY <1>5 DEF vars, dialog, inFlight, IInv, TypeOK, ModalCoversOutage, SomebodyRetries
<1> QED
  BY <1>1, <1>2, <1>3, <1>4, <1>5 DEF Next

LEMMA SpecIInv == Spec => []IInv
BY InitIInv, NextIInv, PTL DEF Spec

(* The dialog, the page, its calls and its circuit keep their types; only a   *)
(* connected page has no class on its dialog.                                 *)
THEOREM TypeCorrect == Spec => []TypeOK
<1>1. IInv => TypeOK
  BY DEF IInv
<1> QED
  BY <1>1, SpecIInv, PTL

(* The dialog is open exactly while the page has no connection.               *)
THEOREM DialogCoversOutage == Spec => []ModalCoversOutage
<1>1. IInv => ModalCoversOutage
  BY DEF IInv
<1> QED
  BY <1>1, SpecIInv, PTL

(* A page without connection is at work, has a button, or waits for its tab.  *)
THEOREM AlwaysAWayBack == Spec => []WayBack
<1>1. IInv => WayBack
  <2>1. SUFFICES ASSUME IInv, link = "down", face # "show", \A k \in Calls : call[k] = "idle"
                 PROVE  \/ face = "failed" /\ listener = "armed"
                        \/ face \in {"paused", "resume-failed"}
    BY DEF WayBack
  <2>2. face \in {"failed", "paused", "resume-failed"} /\ listener \in {"armed", "off"}
    BY <2>1 DEF IInv, TypeOK
  <2>3. face = "failed" => listener # "off"
    BY <2>1 DEF IInv, SomebodyRetries
  <2> QED
    BY <2>2, <2>3
<1> QED
  BY <1>1, SpecIInv, PTL

-----------------------------------------------------------------------------
(* A reload is a reaction to the answer that there is no circuit to resume,   *)
(* on a page that has no connection.                                          *)
THEOREM ReloadsAsLastResort == Spec => ReloadIsLast
<1> DEFINE Last == page' # page => link = "down" /\ circuit # "stored"
<1>1. IInv /\ [Next]_vars => [Last]_vars
  <2>1. SUFFICES ASSUME IInv, Next, page' # page
                 PROVE  link = "down" /\ circuit # "stored"
    BY DEF vars
  <2>2. Rejected \/ ResumeRefused
    <3>1. ~Drop /\ ~Pause /\ ~Expire /\ ~ServerLeaves /\ ~ServerReturns /\ ~HideTab
      BY <2>1 DEF Drop, Pause, Expire, ServerLeaves, ServerReturns, HideTab
    <3>2. ~AutoConnected /\ ~Failed /\ ~Resumed /\ ~ResumeThrows
      BY <2>1 DEF AutoConnected, Failed, Resumed, ResumeThrows, Connected
    <3>3. ~ShowTab
      BY <2>1 DEF ShowTab, Retry
    <3>4. \A k \in Calls : ~ClickRetry(k) /\ ~ClickResume(k) /\ ~Settle(k)
      BY <2>1 DEF ClickRetry, Retry, ClickResume, Settle, Reconnected, ReconnectRefused,
                  ReconnectThrows, Connected
    <3> QED
      BY <2>1, <3>1, <3>2, <3>3, <3>4 DEF Next, Blazor, Resume
  <2>3. face = "show" => link = "down"
    BY <2>1 DEF IInv, TypeOK
  <2> QED
    BY <2>2, <2>3 DEF Rejected, ResumeRefused
<1> QED
  BY <1>1, SpecIInv, PTL DEF Spec, ReloadIsLast
=============================================================================
