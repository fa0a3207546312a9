----------------------------- MODULE WakeProofs -----------------------------
(***************************************************************************)
(* Proof about ClientWake: no reported change is slept over.               *)
(***************************************************************************)
EXTENDS ClientWake, TLAPS

\* A reported change that no scan has seen is still to be delivered, or has
\* set the flag, or the loop is on its way to a scan; and the loop only waits
\* while the flag is down.
Noticed ==
    /\ "watched" \in dirty =>
          event \/ isReady \/ loop \in {"time", "reset", "request", "scan", "ended"}
    /\ loop = "waiting" => ~isReady

LEMMA NoticedInductive == Spec => []Noticed
<1>1. Init => Noticed
    BY DEF Init, Noticed
<1>2. ASSUME Noticed, [Next]_wakeVars PROVE Noticed'
  <2> USE DEF Noticed, At
  <2>1. CASE StartQt
    BY <1>2, <2>1 DEF StartQt
  <2>2. CASE DirectoryChanged \/ Timeout
    BY <1>2, <2>2 DEF DirectoryChanged, Timeout, Waker
  <2>3. ASSUME NEW kind \in Kind, Change(kind) PROVE Noticed'
    BY <1>2, <2>3 DEF Change
  <2>4. CASE CheckTime \/ Reset \/ RequestList
    BY <1>2, <2>4 DEF CheckTime, Reset, RequestList
  <2>5. CASE Scan \/ Apply
    BY <1>2, <2>5 DEF Scan, Apply
  <2>6. CASE Check \/ WakeUp
    BY <1>2, <2>6 DEF Check, WakeUp
  <2>7. CASE UNCHANGED wakeVars
    BY <1>2, <2>7 DEF wakeVars
  <2>8. QED
    BY <1>2, <2>1, <2>2, <2>3, <2>4, <2>5, <2>6, <2>7 DEF Next, LoopNext
<1>3. QED
    BY <1>1, <1>2, PTL DEF Spec

\* The loop never waits while a reported change has been forgotten
\* (ClientLogic::loop, the waker of client.cpp).
THEOREM NoWakeIsLost == Spec => []NoLostWake
<1>1. Noticed => NoLostWake
    BY DEF Noticed, NoLostWake
<1>2. QED
    BY <1>1, NoticedInductive, PTL
=============================================================================
