---------------------------- MODULE NativeControl ----------------------------
(***************************************************************************)
(* main/ha/native_api_server.c: how the Native API server follows its      *)
(* configuration.                                                          *)
(*                                                                         *)
(* The console changes the enable setting and the pre-shared key, each     *)
(* first in NVS and then announced to the server; Wi-Fi status events      *)
(* change has_ip.  A change bumps a generation under s_state_mux.  The     *)
(* server task compares it with the generation it last applied and         *)
(* restarts: stop, read the key, listen.  It looks at the generation again *)
(* once the key is read and once the server listens, because both take     *)
(* long enough for the configuration to move.  A failed listen is retried. *)
(*                                                                         *)
(* A stored key carries the number of its write, so that an older one can  *)
(* be told from a newer one.  Time is left out: the 5 s to a retry pass    *)
(* whenever RetryDelayPasses is taken.  mDNS follows the server and        *)
(* decides nothing, and a write to NVS that fails changes and announces    *)
(* nothing: both are left out.                                             *)
(***************************************************************************)
EXTENDS Naturals

CONSTANTS
  Keys,         \* pre-shared keys the console may store
  NoKey,        \* nothing stored: the server speaks plain text
  Slots,        \* s_clients
  Closed,       \* a slot without a client
  MaxChanges,   \* bound on writes to NVS and on changes of has_ip
  MaxFailures,  \* bound on failed reads and listens
  MaxReboots    \* bound on restarts of the device

StoredKeys == [n : Nat, key : Keys \cup {NoKey}]

ASSUME ControlAssumptions ==
  /\ Closed \notin StoredKeys
  /\ MaxChanges \in Nat
  /\ MaxFailures \in Nat
  /\ MaxReboots \in Nat

VARIABLES
  stored,         \* the key in NVS
  storedEnabled,  \* the enable setting in NVS
  enabled, hasIp, generation,     \* s_enabled, s_has_ip, s_control_generation
  console,        \* what the console has written and not announced yet
  pc,             \* where the server task is
  retrying,       \* its restart was begun by retry_server
  seen,           \* the control snapshot its restart works with
  read,           \* the key it has read
  applied,        \* s_applied_generation
  running, blocked,   \* s_running, s_psk_blocked
  using,          \* s_psk and s_noise_required
  retryDue,       \* s_retry_at has passed
  clients,        \* per slot, the key its client was accepted under
  announced,      \* number of the newest announced key
  checked,        \* that number when the task last looked at the generation
  changes, failures, reboots      \* counted for the bounds

nvs     == <<stored, storedEnabled>>
control == <<enabled, hasIp, generation>>
restart == <<retrying, seen, read>>
serving == <<running, using, clients>>
counts  == <<changes, failures, reboots>>
vars == <<stored, storedEnabled, enabled, hasIp, generation, console, pc,
          retrying, seen, read, applied, running, blocked, using, retryDue,
          clients, announced, checked, changes, failures, reboots>>

Control  == [generation |-> generation, enabled |-> enabled, hasIp |-> hasIp]
Plain(n) == [n |-> n, key |-> NoKey]

\* native_api_server_init; the Wi-Fi station has no address yet.
Boot(setting) ==
  /\ enabled' = setting
  /\ hasIp' = FALSE
  /\ generation' = 1
  /\ console' = "idle"
  /\ pc' = "apply"
  /\ retrying' = FALSE
  /\ seen' = [generation |-> 0, enabled |-> FALSE, hasIp |-> FALSE]
  /\ read' = Plain(0)
  /\ applied' = 0
  /\ running' = FALSE
  /\ blocked' = FALSE
  /\ using' = Plain(0)
  /\ retryDue' = TRUE
  /\ clients' = [c \in Slots |-> Closed]
  /\ checked' = 0

Init ==
  /\ stored \in [n : {0}, key : Keys \cup {NoKey}]
  /\ storedEnabled \in BOOLEAN
  /\ enabled = storedEnabled
  /\ hasIp = FALSE
  /\ generation = 1
  /\ console = "idle"
  /\ pc = "apply"
  /\ retrying = FALSE
  /\ seen = [generation |-> 0, enabled |-> FALSE, hasIp |-> FALSE]
  /\ read = Plain(0)
  /\ applied = 0
  /\ running = FALSE
  /\ blocked = FALSE
  /\ using = Plain(0)
  /\ retryDue = TRUE
  /\ clients = [c \in Slots |-> Closed]
  /\ announced = 0
  /\ checked = 0
  /\ changes = 0
  /\ failures = 0
  /\ reboots = 0

-----------------------------------------------------------------------------
(* The callers.                                                            *)

\* native_api_set_enabled: the setting is stored first.
WriteEnabled(b) ==
  /\ console = "idle"
  /\ changes < MaxChanges
  /\ changes' = changes + 1
  /\ storedEnabled' = b
  /\ console' = "enabled"
  /\ UNCHANGED <<stored, control, pc, restart, applied, serving, blocked,
                 retryDue, announced, checked, failures, reboots>>

\* native_api_server_set_enabled: only a different value is a change.
AnnounceEnabled ==
  /\ console = "enabled"
  /\ console' = "idle"
  /\ enabled' = storedEnabled
  /\ generation' = IF enabled # storedEnabled THEN generation + 1 ELSE generation
  /\ UNCHANGED <<nvs, hasIp, pc, restart, applied, serving, blocked, retryDue,
                 announced, checked, counts>>

\* native_config_psk_set or native_config_psk_clear.
WriteKey(k) ==
  /\ console = "idle"
  /\ changes < MaxChanges
  /\ changes' = changes + 1
  /\ stored' = [n |-> stored.n + 1, key |-> k]
  /\ console' = "key"
  /\ UNCHANGED <<storedEnabled, control, pc, restart, applied, serving, blocked,
                 retryDue, announced, checked, failures, reboots>>

\* native_api_server_configuration_changed.
AnnounceKey ==
  /\ console = "key"
  /\ console' = "idle"
  /\ announced' = stored.n
  /\ generation' = generation + 1
  /\ UNCHANGED <<nvs, enabled, hasIp, pc, restart, applied, serving, blocked,
                 retryDue, checked, counts>>

\* native_api_server_set_has_ip: a Wi-Fi status that differs from the last.
SetHasIp ==
  /\ changes < MaxChanges
  /\ changes' = changes + 1
  /\ hasIp' = ~hasIp
  /\ generation' = generation + 1
  /\ UNCHANGED <<nvs, enabled, console, pc, restart, applied, serving, blocked,
                 retryDue, announced, checked, failures, reboots>>

-----------------------------------------------------------------------------
(* The server task.                                                        *)

Go(step)  == pc' = step
\* restart_server_with_config returns to the loop, which still has to decide
\* on a retry unless this was one.
Return    == Go(IF retrying THEN "serve" ELSE "decide")
\* control_is_current, for the snapshot this restart works with.
IsCurrent == seen = Control

StopServer ==
  /\ running' = FALSE
  /\ using' = Plain(0)
  /\ clients' = [c \in Slots |-> Closed]

\* The snapshot, stop_server, and the return of a server that is not wanted.
BeginRestart(isRetry) ==
  /\ seen' = Control
  /\ checked' = announced
  /\ retrying' = isRetry
  /\ StopServer
  /\ blocked' = FALSE
  /\ IF enabled /\ hasIp
       THEN Go("read") /\ UNCHANGED applied
       ELSE /\ applied' = generation
            /\ Go(IF isRetry THEN "serve" ELSE "decide")
  /\ UNCHANGED <<nvs, control, console, read, retryDue, announced, counts>>

\* apply_control.
ApplyControl ==
  /\ pc = "apply"
  /\ generation # applied
  /\ BeginRestart(FALSE)

NothingToApply ==
  /\ pc = "apply"
  /\ generation = applied
  /\ checked' = announced
  /\ Go("decide")
  /\ UNCHANGED <<nvs, control, console, restart, applied, serving, blocked,
                 retryDue, announced, counts>>

\* Mutant: a retry waits for a change too.
RetryWantedAfterChange == ~running /\ ~blocked /\ retryDue /\ generation # applied

\* retry_server.
RetryWanted == ~running /\ ~blocked /\ retryDue

RetryServer ==
  /\ pc = "decide"
  /\ RetryWanted
  /\ BeginRestart(TRUE)

NoRetry ==
  /\ pc = "decide"
  /\ ~RetryWanted
  /\ Go("serve")
  /\ UNCHANGED <<nvs, control, console, restart, applied, serving, blocked,
                 retryDue, announced, checked, counts>>

\* Mutant: the outcome of a failed read is taken for a key.
ReadKeyUnchecked ==
  /\ pc = "read"
  /\ read' = Closed
  /\ Go("check")
  /\ UNCHANGED <<nvs, control, console, retrying, seen, applied, serving,
                 blocked, retryDue, announced, checked, counts>>

\* native_config_psk_read.
ReadKey ==
  /\ pc = "read"
  /\ read' = stored
  /\ Go("check")
  /\ UNCHANGED <<nvs, control, console, retrying, seen, applied, serving,
                 blocked, retryDue, announced, checked, counts>>

ReadFails ==
  /\ pc = "read"
  /\ failures < MaxFailures
  /\ failures' = failures + 1
  /\ Go("checkError")
  /\ UNCHANGED <<nvs, control, console, restart, applied, serving, blocked,
                 retryDue, announced, checked, changes, reboots>>

CheckAfterRead ==
  /\ pc = "check"
  /\ checked' = announced
  /\ IF IsCurrent
       THEN using' = read /\ Go("listen")
       ELSE Return /\ UNCHANGED using
  /\ UNCHANGED <<nvs, control, console, restart, applied, running, clients,
                 blocked, retryDue, announced, counts>>

\* A key that cannot be read keeps the server down until the next change.
CheckAfterError ==
  /\ pc = "checkError"
  /\ checked' = announced
  /\ IF IsCurrent
       THEN blocked' = TRUE /\ applied' = seen.generation
       ELSE UNCHANGED <<blocked, applied>>
  /\ Return
  /\ UNCHANGED <<nvs, control, console, restart, serving, retryDue, announced,
                 counts>>

\* start_server.
Listen ==
  /\ pc = "listen"
  /\ running' = TRUE
  /\ Go("started")
  /\ UNCHANGED <<nvs, control, console, restart, applied, using, clients,
                 blocked, retryDue, announced, checked, counts>>

ListenFails ==
  /\ pc = "listen"
  /\ failures < MaxFailures
  /\ failures' = failures + 1
  /\ Go("failed")
  /\ UNCHANGED <<nvs, control, console, restart, applied, serving, blocked,
                 retryDue, announced, checked, changes, reboots>>

CheckAfterFailure ==
  /\ pc = "failed"
  /\ checked' = announced
  /\ IF IsCurrent
       THEN applied' = seen.generation /\ retryDue' = FALSE
       ELSE UNCHANGED <<applied, retryDue>>
  /\ Return
  /\ UNCHANGED <<nvs, control, console, restart, serving, blocked, announced,
                 counts>>

\* Mutant: a server that listens is taken to serve what is current.
CheckAfterStartSkipped ==
  /\ pc = "started"
  /\ applied' = generation
  /\ Return
  /\ UNCHANGED <<nvs, control, console, restart, serving, blocked, retryDue,
                 announced, checked, counts>>

\* Mutant: a server of a superseded configuration goes on until the next loop.
CheckAfterStartLeavesRunning ==
  /\ pc = "started"
  /\ checked' = announced
  /\ applied' = IF IsCurrent THEN seen.generation ELSE applied
  /\ Return
  /\ UNCHANGED <<nvs, control, console, restart, serving, blocked, retryDue,
                 announced, counts>>

CheckAfterStart ==
  /\ pc = "started"
  /\ checked' = announced
  /\ IF IsCurrent
       THEN applied' = seen.generation /\ UNCHANGED serving
       ELSE StopServer /\ UNCHANGED applied
  /\ Return
  /\ UNCHANGED <<nvs, control, console, restart, blocked, retryDue, announced,
                 counts>>

\* accept_clients: the client speaks what the server now requires.
AcceptClient(c) ==
  /\ pc = "serve"
  /\ running
  /\ clients[c] = Closed
  /\ clients' = [clients EXCEPT ![c] = using]
  /\ UNCHANGED <<nvs, control, console, pc, restart, applied, running, using,
                 blocked, retryDue, announced, checked, counts>>

\* close_client, for a session that ends: module NativeSession.
CloseClient(c) ==
  /\ pc = "serve"
  /\ running
  /\ clients[c] # Closed
  /\ clients' = [clients EXCEPT ![c] = Closed]
  /\ UNCHANGED <<nvs, control, console, pc, restart, applied, running, using,
                 blocked, retryDue, announced, checked, counts>>

\* The rest of the loop, or the wait of a server that is down, ends.
LoopEnds ==
  /\ pc = "serve"
  /\ Go("apply")
  /\ UNCHANGED <<nvs, control, console, restart, applied, serving, blocked,
                 retryDue, announced, checked, counts>>

RetryDelayPasses ==
  /\ ~retryDue
  /\ retryDue' = TRUE
  /\ UNCHANGED <<nvs, control, console, pc, restart, applied, serving, blocked,
                 announced, checked, counts>>

\* The device restarts: only NVS survives, announced or not.
Reboot ==
  /\ reboots < MaxReboots
  /\ reboots' = reboots + 1
  /\ Boot(storedEnabled)
  /\ announced' = stored.n
  /\ UNCHANGED <<nvs, changes, failures>>

-----------------------------------------------------------------------------
Announce == AnnounceEnabled \/ AnnounceKey

Caller ==
  \/ \E b \in BOOLEAN : WriteEnabled(b)
  \/ \E k \in Keys \cup {NoKey} : WriteKey(k)
  \/ Announce
  \/ SetHasIp

Restart ==
  \/ ApplyControl \/ RetryServer
  \/ ReadKey \/ ReadFails \/ CheckAfterRead \/ CheckAfterError
  \/ Listen \/ ListenFails \/ CheckAfterFailure \/ CheckAfterStart

Loop == NothingToApply \/ NoRetry \/ LoopEnds

Next ==
  \/ Caller
  \/ Restart
  \/ Loop
  \/ \E c \in Slots : AcceptClient(c) \/ CloseClient(c)
  \/ RetryDelayPasses
  \/ Reboot

Spec == Init /\ [][Next]_vars

\* The task runs, a console command that has begun ends, time passes.  Nobody
\* has to connect, change anything or lose the connection.
FairSpec ==
  /\ Spec
  /\ WF_vars(Restart)
  /\ WF_vars(Loop)
  /\ WF_vars(Announce)
  /\ WF_vars(RetryDelayPasses)

-----------------------------------------------------------------------------
\* Type invariant of the configuration, the server task and its clients, who are
\* known by the key they were accepted under.
TypeOK ==
  /\ stored \in StoredKeys /\ read \in StoredKeys /\ using \in StoredKeys
  /\ storedEnabled \in BOOLEAN /\ enabled \in BOOLEAN /\ hasIp \in BOOLEAN
  /\ retrying \in BOOLEAN /\ running \in BOOLEAN /\ blocked \in BOOLEAN
  /\ retryDue \in BOOLEAN
  /\ generation \in Nat /\ applied \in Nat
  /\ console \in {"idle", "enabled", "key"}
  /\ pc \in {"apply", "decide", "serve", "read", "check", "checkError",
             "listen", "failed", "started"}
  /\ seen \in [generation : Nat, enabled : BOOLEAN, hasIp : BOOLEAN]
  /\ clients \in [Slots -> StoredKeys \cup {Closed}]
  /\ announced \in Nat /\ checked \in Nat
  /\ changes \in Nat /\ failures \in Nat /\ reboots \in Nat

\* Once the newest generation is applied and the console is between commands,
\* a server that runs is wanted, requires the stored key, and so does every
\* client it ever accepted: the reads of native_config.c and of the control
\* fields that restart_server_with_config makes one after the other amount to
\* one look at the configuration.
AppliedIsServed ==
  applied = generation /\ console = "idle" =>
    /\ running => enabled /\ hasIp /\ using = stored
    /\ \A c \in Slots : clients[c] # Closed => running /\ clients[c] = stored

\* A client is never accepted under a key older than the one the console had
\* announced when the task last looked, however the announcement and the
\* restart interleave.
NoOlderKey ==
  [][\A c \in Slots :
       clients[c] = Closed /\ clients'[c] # Closed
        => clients'[c].n >= checked]_vars

\* When the changes stop, the server ends up serving the stored configuration:
\* listening with the stored key if it is enabled and there is an address and
\* the key can be read, and closed otherwise.
Converges ==
  <>[](IF enabled /\ hasIp
         THEN blocked \/ (running /\ using = stored)
         ELSE ~running)
=============================================================================
