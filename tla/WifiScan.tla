------------------------------ MODULE WifiScan ------------------------------
(***************************************************************************)
(* main/wifi/wifi_view.c, wifi_scan_ui_state.c and wifi_scan_worker.c: a   *)
(* scan for networks, from the modal that asks for it to the list.         *)
(*                                                                         *)
(* The view belongs to the LVGL task and to the delivery task, under the   *)
(* LVGL lock; the scan itself runs on a worker with one request waiting.   *)
(* Everything between them is a command that may be rejected: other events *)
(* fill the queue at any time.  A scan carries its generation through.     *)
(*                                                                         *)
(* What a list contains is left out, and so are the wrap of the generation *)
(* after 2^32 scans, which the code steps over, the password dialog's      *)
(* contents, and time: the 15 s of the timer and the 1.5 s of a result's   *)
(* toast pass whenever TimeoutFires and ToastCloses are taken.             *)
(* VIEW_EVENT_WIFI_LIST_START has no producer, and VIEW_EVENT_SCREEN_START *)
(* opens the modal as its icon does.                                       *)
(***************************************************************************)
EXTENDS Naturals, Sequences

CONSTANTS
  QueueSize,     \* room the delivery queue leaves to these events
  Attempts,      \* WIFI_SCAN_RESULT_DELIVERY_ATTEMPTS
  MaxScans,      \* bound on scans asked for
  MaxResults,    \* bound on results of connections
  MaxJoins       \* bound on commands of the dialogs

ASSUME ScanAssumptions ==
  /\ QueueSize \in Nat \ {0} /\ Attempts \in Nat \ {0}
  /\ MaxScans \in Nat /\ MaxResults \in Nat /\ MaxJoins \in Nat

NoScan == 0     \* generations begin with 1

VARIABLES
  scan,       \* s_wifi_scan_state; next_generation is active
  timer,      \* generation of s_wifi_scan_timeout_timer, if there is one
  modal,      \* s_wifi_modal is visible
  spinner,    \* s_wifi_spinner is visible
  shown,      \* generation of the visible list, if it is
  dialog,     \* s_connect_screen
  toasts,     \* toasts on the screen, timers that close one, s_result_toast # NULL
  queue,      \* VIEW_EVENT commands on their way
  handling,   \* the delivery task is in a result, between its two locks
  slot,       \* s_request_queue of the worker
  worker,     \* what the worker does
  lost,       \* scans nobody will answer any more
  results, joins    \* counted for the bounds

screen == <<modal, spinner, shown, dialog, toasts>>
view   == <<scan, timer, screen>>
work   == <<slot, worker, lost>>
vars   == <<scan, timer, modal, spinner, shown, dialog, toasts, queue, handling,
            slot, worker, lost, results, joins>>

Idle == [step |-> "idle", scan |-> NoScan, attempt |-> 0]

Init ==
  /\ scan = [active |-> NoScan, pending |-> FALSE, accept |-> FALSE]
  /\ timer = NoScan
  /\ modal = FALSE /\ spinner = FALSE /\ shown = NoScan /\ dialog = "none"
  /\ toasts = [shown |-> 0, timers |-> 0, held |-> FALSE]
  /\ queue = <<>>
  /\ handling = FALSE
  /\ slot = NoScan /\ worker = Idle /\ lost = {}
  /\ results = 0 /\ joins = 0

-----------------------------------------------------------------------------
(* Commands and the generations of scans.                                  *)

Event(kind, g) == [kind |-> kind, scan |-> g]

\* view_event_post_command, to what is left of the queue.
Post(rest, e, enqueued) ==
  /\ enqueued => Len(rest) < QueueSize
  /\ queue' = IF enqueued THEN Append(rest, e) ELSE rest

\* Mutant: the generation of a completion is not looked at.
CompletesAny(g) == scan.pending

\* wifi_scan_ui_complete, not WIFI_SCAN_UI_COMPLETION_STALE.
Completes(g) == scan.pending /\ g = scan.active

Complete == scan' = [scan EXCEPT !.pending = FALSE]

\* _request_wifi_scan, on a queue with this much left: the command may be
\* rejected, and there may be no memory for the timer.  A rejected request
\* leaves the timer of an older one.
RequestScan(rest, enqueued, created) ==
  /\ scan.active < MaxScans
  /\ scan' = [active |-> scan.active + 1, pending |-> enqueued /\ created,
              accept |-> TRUE]
  /\ Post(rest, Event("request", scan.active + 1), enqueued)
  /\ timer' = IF ~enqueued THEN timer
              ELSE IF created THEN scan.active + 1 ELSE NoScan
  /\ spinner' = (enqueued /\ created)
  /\ shown' = NoScan

-----------------------------------------------------------------------------
(* The LVGL task.                                                          *)

\* _show_wifi_modal.
OpenModal(enqueued, created) ==
  /\ modal' = TRUE
  /\ RequestScan(queue, enqueued, created)
  /\ UNCHANGED <<dialog, toasts, handling, work, results, joins>>

\* _hide_wifi_modal: the result of the scan is discarded when it comes.
HideModal ==
  /\ modal
  /\ modal' = FALSE
  /\ dialog' = "none"
  /\ scan' = IF scan.pending THEN [scan EXCEPT !.accept = FALSE] ELSE scan
  /\ UNCHANGED <<timer, spinner, shown, toasts, queue, handling, work, results,
                 joins>>

\* A tap on a network of the list.
OpenDialog(kind) ==
  /\ modal /\ shown # NoScan /\ dialog = "none"
  /\ dialog' = kind
  /\ UNCHANGED <<scan, timer, modal, spinner, shown, toasts, queue, handling,
                 work, results, joins>>

CancelDialog ==
  /\ dialog # "none"
  /\ dialog' = "none"
  /\ UNCHANGED <<scan, timer, modal, spinner, shown, toasts, queue, handling,
                 work, results, joins>>

\* _on_join and _on_delete: a dialog whose command is rejected stays.
ConfirmDialog(enqueued) ==
  /\ dialog # "none"
  /\ joins < MaxJoins
  /\ joins' = joins + 1
  /\ Post(queue, Event(dialog, NoScan), enqueued)
  /\ dialog' = IF enqueued THEN "none" ELSE dialog
  /\ UNCHANGED <<scan, timer, modal, spinner, shown, toasts, handling, work,
                 results>>

\* _wifi_scan_timeout_cb.
TimeoutFires ==
  /\ timer # NoScan
  /\ timer' = NoScan
  /\ IF Completes(timer) THEN Complete /\ spinner' = FALSE
                         ELSE UNCHANGED <<scan, spinner>>
  /\ UNCHANGED <<modal, shown, dialog, toasts, queue, handling, work, results,
                 joins>>

\* _toast_close_cb: it deletes the toast shown last, if that is still there.
ToastCloses ==
  /\ toasts.timers > 0
  /\ toasts' = [shown  |-> IF toasts.held THEN toasts.shown - 1 ELSE toasts.shown,
                timers |-> toasts.timers - 1,
                held   |-> FALSE]
  /\ UNCHANGED <<scan, timer, modal, spinner, shown, dialog, queue, handling,
                 work, results, joins>>

-----------------------------------------------------------------------------
(* The delivery task.                                                      *)

Delivers(kind) == ~handling /\ queue # <<>> /\ Head(queue).kind = kind

\* Mutant: a request does not replace the one that waits.
SubmitIfFree(g) == slot' = IF slot = NoScan THEN g ELSE slot

\* wifi_scan_worker_request, which overwrites the request that waits.
Submit(g) == slot' = g

\* VIEW_EVENT_WIFI_LIST_REQ in wifi_model.c: the state's mutex may be busy.
DeliverRequest(busy, enqueued) ==
  /\ Delivers("request")
  /\ LET g == Head(queue).scan IN
       IF busy
         THEN /\ Post(Tail(queue), Event("failed", g), enqueued)
              /\ lost' = IF enqueued THEN lost ELSE lost \cup {g}
              /\ UNCHANGED slot
         ELSE /\ Submit(g)
              /\ queue' = Tail(queue)
              /\ UNCHANGED lost
  /\ UNCHANGED <<view, handling, worker, results, joins>>

DeliverList ==
  /\ Delivers("list")
  /\ queue' = Tail(queue)
  /\ IF Completes(Head(queue).scan)
       THEN /\ Complete
            /\ timer' = NoScan
            /\ spinner' = FALSE
            /\ shown' = IF scan.accept THEN Head(queue).scan ELSE shown
       ELSE UNCHANGED <<scan, timer, spinner, shown>>
  /\ UNCHANGED <<modal, dialog, toasts, handling, work, results, joins>>

\* Mutant: any failure stops the timer.
DeliverFailureStopsTimer ==
  /\ Delivers("failed")
  /\ queue' = Tail(queue)
  /\ timer' = NoScan
  /\ IF Completes(Head(queue).scan)
       THEN Complete /\ spinner' = FALSE
       ELSE UNCHANGED <<scan, spinner>>
  /\ UNCHANGED <<modal, shown, dialog, toasts, handling, work, results, joins>>

DeliverFailure ==
  /\ Delivers("failed")
  /\ queue' = Tail(queue)
  /\ IF Completes(Head(queue).scan)
       THEN Complete /\ timer' = NoScan /\ spinner' = FALSE
       ELSE UNCHANGED <<scan, timer, spinner>>
  /\ UNCHANGED <<modal, shown, dialog, toasts, handling, work, results, joins>>

\* VIEW_EVENT_WIFI_CONNECT, of which module WifiLink has the other half.
DeliverConnect ==
  /\ Delivers("connect")
  /\ queue' = Tail(queue)
  /\ spinner' = TRUE
  /\ shown' = NoScan
  /\ UNCHANGED <<scan, timer, modal, dialog, toasts, handling, work, results,
                 joins>>

\* VIEW_EVENT_WIFI_CFG_DELETE, whether or not the modal is open.
DeliverDelete(enqueued, created) ==
  /\ Delivers("details")
  /\ RequestScan(Tail(queue), enqueued, created)
  /\ UNCHANGED <<modal, dialog, toasts, handling, work, results, joins>>

\* VIEW_EVENT_WIFI_CONNECT_RET looks at the modal under one lock ...
DeliverResult ==
  /\ Delivers("result")
  /\ queue' = Tail(queue)
  /\ handling' = modal
  /\ UNCHANGED <<view, work, results, joins>>

\* ... and scans under the next.
FinishResult(enqueued, created) ==
  /\ handling
  /\ handling' = FALSE
  /\ RequestScan(queue, enqueued, created)
  /\ toasts' = [shown |-> toasts.shown + 1, timers |-> toasts.timers + 1,
                held |-> TRUE]
  /\ UNCHANGED <<modal, dialog, work, results, joins>>

-----------------------------------------------------------------------------
(* The worker, and the event loop that reports a connection.               *)

WorkerTakes ==
  /\ worker = Idle
  /\ slot # NoScan
  /\ worker' = [step |-> "scan", scan |-> slot, attempt |-> 0]
  /\ slot' = NoScan
  /\ UNCHANGED <<view, queue, handling, lost, results, joins>>

\* wifi_scan_worker_adapter_scan.
WorkerScans(found) ==
  /\ worker.step = "scan"
  /\ worker' = [worker EXCEPT !.step = IF found THEN "list" ELSE "failed"]
  /\ UNCHANGED <<view, queue, handling, slot, lost, results, joins>>

\* Mutant: an attempt more than the worker has.
TriesOnceMore == worker.attempt < Attempts

TriesAgain == worker.attempt + 1 < Attempts

\* wifi_scan_worker_post, and the failure that follows a list nobody took.
WorkerPosts(enqueued) ==
  /\ worker.step \in {"list", "failed"}
  /\ Post(queue, Event(worker.step, worker.scan), enqueued)
  /\ LET gone == ~enqueued /\ ~TriesAgain /\ worker.step = "failed"
     IN /\ worker' =
             CASE enqueued \/ gone -> Idle
               [] ~enqueued /\ TriesAgain -> [worker EXCEPT !.attempt = @ + 1]
               [] OTHER -> [worker EXCEPT !.step = "failed", !.attempt = 0]
        /\ lost' = IF gone THEN lost \cup {worker.scan} ELSE lost
  /\ UNCHANGED <<view, handling, slot, results, joins>>

\* wifi_model.c posts a result whenever a connection is made or given up.
ConnectionEnds(enqueued) ==
  /\ results < MaxResults
  /\ results' = results + 1
  /\ Post(queue, Event("result", NoScan), enqueued)
  /\ UNCHANGED <<view, handling, work, joins>>

-----------------------------------------------------------------------------
User ==
  \/ HideModal \/ CancelDialog
  \/ \E kind \in {"connect", "details"} : OpenDialog(kind)
  \/ \E e \in BOOLEAN : ConfirmDialog(e) \/ \E c \in BOOLEAN : OpenModal(e, c)

Delivery ==
  \/ DeliverList \/ DeliverFailure \/ DeliverConnect \/ DeliverResult
  \/ \E e \in BOOLEAN :
       \/ \E busy \in BOOLEAN : DeliverRequest(busy, e)
       \/ \E c \in BOOLEAN : DeliverDelete(e, c) \/ FinishResult(e, c)

Worker ==
  \/ WorkerTakes
  \/ \E b \in BOOLEAN : WorkerScans(b) \/ WorkerPosts(b)

Next ==
  \/ User \/ TimeoutFires \/ ToastCloses
  \/ Delivery \/ Worker
  \/ \E e \in BOOLEAN : ConnectionEnds(e)

Spec == Init /\ [][Next]_vars

-----------------------------------------------------------------------------
Scans == 0 .. MaxScans

\* Type invariant; the delivery queue keeps to its room and the worker to its
\* attempts.
TypeOK ==
  /\ scan \in [active : Scans, pending : BOOLEAN, accept : BOOLEAN]
  /\ timer \in Scans /\ shown \in Scans /\ slot \in Scans
  /\ modal \in BOOLEAN /\ spinner \in BOOLEAN /\ handling \in BOOLEAN
  /\ dialog \in {"none", "connect", "details"}
  /\ toasts \in [shown : Nat, timers : Nat, held : BOOLEAN]
  /\ queue \in Seq([kind : {"request", "list", "failed", "connect", "details",
                            "result"}, scan : Scans])
  /\ Len(queue) <= QueueSize
  /\ worker \in [step : {"idle", "scan", "list", "failed"}, scan : Scans,
                 attempt : 0 .. Attempts - 1]
  /\ lost \subseteq Scans
  /\ results \in 0 .. MaxResults /\ joins \in 0 .. MaxJoins

\* A modal that waits for a scan has the timer of that scan running, so that a
\* rejected result and a rejected failure cannot leave it waiting for ever,
\* whatever older scans, their answers and their timers do meanwhile.
PendingIsTimed == scan.pending => timer = scan.active

\* The scan the modal waits for is on its way through the queue, the worker or
\* back, or its answer was rejected as often as the worker tries: requests that
\* overtake each other never drop the newest.
InQueue(g) == \E i \in DOMAIN queue :
                queue[i].scan = g /\ queue[i].kind \in {"request", "list", "failed"}

AnswerIsOwed ==
  scan.pending =>
    \/ InQueue(scan.active)
    \/ slot = scan.active
    \/ worker.step # "idle" /\ worker.scan = scan.active
    \/ scan.active \in lost

\* The list on the screen is that of the newest scan asked for, which is over:
\* no late result replaces or outlives a newer one.
NewestListStays ==
  shown # NoScan => shown = scan.active /\ ~scan.pending /\ ~spinner
=============================================================================
