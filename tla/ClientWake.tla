----------------------------- MODULE ClientWake -----------------------------
(***************************************************************************)
(* What makes the client synchronise: the thread of the Qt application,    *)
(* with a watcher on the root directory and a timer, wakes the thread of   *)
(* ClientLogic::loop through a flag and a condition variable.  What a pass *)
(* does to the files is left out (see SyncClient), but that it may change  *)
(* the directory is not.                                                   *)
(*                                                                         *)
(* The watcher reports files that appear or disappear in the root          *)
(* directory itself.  It reports neither what happens in the directories   *)
(* below nor a file that gets new contents, nor what happened before it    *)
(* was set up: the timer is there for these.                               *)
(***************************************************************************)
EXTENDS Naturals

VARIABLES
    qt,         \* the Qt thread: "starting" or "running"
    timer,      \* is the timer active?
    event,      \* is there a change of the directory to be reported?
    isReady,    \* ConcurrentContext::isReady
    loop,       \* where the thread of ClientLogic is
    dirty       \* the kinds of changes that no scan has seen yet

wakeVars == <<qt, timer, event, isReady, loop, dirty>>

Kind == {"watched", "unwatched"}

At(from, to) == loop = from /\ loop' = to

-----------------------------------------------------------------------------
\* startQAppThread: addPath and timer.start, then the event loop.
StartQt ==
    /\ qt = "starting"
    /\ qt' = "running"
    /\ timer' = TRUE
    /\ UNCHANGED <<event, isReady, loop, dirty>>

\* Mutation: the single-shot timer is not started again.
WakerOnce ==
    /\ isReady' = TRUE
    /\ timer' = FALSE
    /\ loop' = IF loop = "waiting" THEN "woken" ELSE loop

\* Mutation: the flag is not set.
WakerSilent ==
    /\ timer' = TRUE
    /\ loop' = IF loop = "waiting" THEN "woken" ELSE loop
    /\ UNCHANGED isReady

\* The waker, under the lock: it sets the flag, notifies a waiting loop and
\* starts the single-shot timer again.
Waker ==
    /\ isReady' = TRUE
    /\ timer' = TRUE
    /\ loop' = IF loop = "waiting" THEN "woken" ELSE loop

\* directoryChanged
DirectoryChanged ==
    /\ qt = "running"
    /\ event
    /\ event' = FALSE
    /\ Waker
    /\ UNCHANGED <<qt, dirty>>

\* timeout
Timeout ==
    /\ qt = "running"
    /\ timer
    /\ Waker
    /\ UNCHANGED <<qt, event, dirty>>

\* Somebody changes the files; only some changes are reported.
Change(kind) ==
    /\ kind = "watched" => qt = "running"
    /\ dirty' = dirty \cup {kind}
    /\ event' = (event \/ kind = "watched")
    /\ UNCHANGED <<qt, timer, isReady, loop>>
-----------------------------------------------------------------------------
\* The constructor: checkTimeDiff, then the loop, whose first pass leaves the
\* flag alone.
CheckTime ==
    /\ At("time", "request") \/ At("time", "ended")
    /\ UNCHANGED <<qt, timer, event, isReady, dirty>>

Reset ==
    /\ At("reset", "request")
    /\ isReady' = FALSE
    /\ UNCHANGED <<qt, timer, event, dirty>>

\* GetFileList; without an answer the loop ends.
RequestList ==
    /\ At("request", "scan") \/ At("request", "ended")
    /\ UNCHANGED <<qt, timer, event, isReady, dirty>>

\* onIncomingFileList looks at the files,
Scan ==
    /\ At("scan", "apply")
    /\ dirty' = {}
    /\ UNCHANGED <<qt, timer, event, isReady>>

\* and does the rest of the pass, which may change the directory.
Apply ==
    /\ At("apply", "check") \/ At("apply", "ended")
    /\ event' \in BOOLEAN
    /\ event => event'
    /\ event' => event \/ qt = "running"
    /\ UNCHANGED <<qt, timer, isReady, dirty>>

\* Mutation: the flag is reset after the pass instead of before it.
CheckResetting ==
    /\ At("check", "waiting")
    /\ isReady' = FALSE
    /\ UNCHANGED <<qt, timer, event, dirty>>

\* The condition is looked at under the lock.
Check ==
    /\ IF isReady THEN At("check", "reset") ELSE At("check", "waiting")
    /\ UNCHANGED <<qt, timer, event, isReady, dirty>>

\* wait returns, with or without a notification, and the condition is looked
\* at again.
WakeUp ==
    /\ At("woken", "check") \/ At("waiting", "check")
    /\ UNCHANGED <<qt, timer, event, isReady, dirty>>
-----------------------------------------------------------------------------
Init ==
    /\ qt = "starting"
    /\ timer = FALSE
    /\ event = FALSE
    /\ isReady = FALSE
    /\ loop = "time"
    /\ dirty \in SUBSET {"unwatched"}

LoopNext == CheckTime \/ Reset \/ RequestList \/ Scan \/ Apply \/ Check

Next ==
    \/ StartQt \/ DirectoryChanged \/ Timeout
    \/ LoopNext \/ WakeUp
    \/ \E kind \in Kind : Change(kind)

\* Both threads go on; a notified thread wakes up.  Nothing makes a thread
\* wake up without a notification.
Spec ==
    /\ Init /\ [][Next]_wakeVars
    /\ WF_wakeVars(StartQt) /\ WF_wakeVars(DirectoryChanged) /\ WF_wakeVars(Timeout)
    /\ WF_wakeVars(LoopNext)
    /\ WF_wakeVars(loop = "woken" /\ WakeUp)
-----------------------------------------------------------------------------
\* The loop does not wait while there is a change the watcher reports, unless
\* the report is still on its way: none falls between the end of a pass and
\* the wait (ClientLogic::loop).
NoLostWake ==
    loop = "waiting" /\ "watched" \in dirty => event

\* Every change is seen by a scan sooner or later, as long as the loop goes on.
ChangeSeen == \A kind \in Kind : kind \in dirty ~> kind \notin dirty \/ loop = "ended"

\* The client goes on asking the server, so that it learns of other clients'
\* changes and the server does not take it for gone (ClientHandler::handleLoop).
AsksAgain == []<>(loop \in {"request", "ended"})
=============================================================================
