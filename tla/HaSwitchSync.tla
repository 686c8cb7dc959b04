---------------------------- MODULE HaSwitchSync ----------------------------
(***************************************************************************)
(* main/ha/ha_switch_sync.c: the pure state machine between a control's    *)
(* widget and the entity core.  Each operation maps a state to the new     *)
(* state and the kind of action the screen has to take.  The generation    *)
(* and the value of the C action are always the new visible ones, so they  *)
(* are not repeated; "apply" is both APPLY and CANCEL_AND_APPLY, which     *)
(* _apply_sync_action treats alike.                                        *)
(***************************************************************************)
EXTENDS Integers

CONSTANT Generations   \* how many values a generation has, 2^32

ASSUME GenerationsAssumption == Generations \in Nat \ {0, 1}

Generation == 0 .. Generations - 1

Sync == [next_generation : Generation, visible_generation : Generation,
         accepted_generation : Generation, visible_value : Int,
         accepted_value : Int, debounce_pending : BOOLEAN,
         result_timed_out : BOOLEAN, timed_out_generation : Generation]

Fresh(v) ==
  [next_generation |-> 0, visible_generation |-> 0, accepted_generation |-> 0,
   visible_value |-> v, accepted_value |-> v, debounce_pending |-> FALSE,
   result_timed_out |-> FALSE, timed_out_generation |-> 0]

Outcome(s, kind) == [sync |-> s, action |-> kind]

\* Generation 0 means none and is skipped when the counter wraps.
NextGeneration(s) ==
  LET g == (s.next_generation + 1) % Generations IN IF g = 0 THEN 1 ELSE g

UserChanged(s, v, debounced) ==
  Outcome([s EXCEPT !.next_generation = NextGeneration(s),
                    !.visible_generation = NextGeneration(s),
                    !.visible_value = v,
                    !.debounce_pending = debounced,
                    !.result_timed_out = FALSE],
          IF debounced THEN "schedule" ELSE "publish")

DebounceElapsed(s) ==
  IF s.debounce_pending
    THEN Outcome([s EXCEPT !.debounce_pending = FALSE], "publish")
    ELSE Outcome(s, "none")

\* Mutant: a result that comes after the timeout is taken for settled.
LateNever(s, g) == FALSE

\* Generation g is the visible one and the screen has given up on it.
Late(s, g) ==
  /\ g = s.visible_generation
  /\ s.result_timed_out
  /\ s.timed_out_generation = g

\* The core's answer to generation g.  An accepted value is shown again when it
\* had timed out, or when a newer local value was rejected meanwhile; the answer
\* to an older generation than the visible one only moves what is accepted.
PublishResult(s, g, v, ok) ==
  LET newer == g > s.visible_generation
      known == IF ok /\ g > s.accepted_generation
                 THEN [s EXCEPT !.accepted_generation = g, !.accepted_value = v]
                 ELSE s
      settled == [known EXCEPT !.result_timed_out = FALSE]
      back == IF ok THEN settled
                    ELSE [settled EXCEPT !.accepted_value = v,
                                         !.debounce_pending = FALSE]
  IN IF g = 0
       THEN Outcome(s, "none")
     ELSE IF g # s.visible_generation /\ ~(ok /\ newer)
       THEN Outcome(known, "none")
     ELSE IF ok /\ ~Late(s, g) /\ ~newer
       THEN Outcome(settled, "none")
     ELSE Outcome([back EXCEPT !.visible_value = back.accepted_value,
                               !.visible_generation = back.accepted_generation],
                  "apply")

LocalRejected(s, g) == PublishResult(s, g, s.accepted_value, FALSE)

ResultTimeout(s, g) ==
  IF g = s.visible_generation
    THEN Outcome([s EXCEPT !.result_timed_out = TRUE,
                           !.timed_out_generation = g,
                           !.visible_value = s.accepted_value], "apply")
    ELSE Outcome(s, "none")

\* Mutant: older results are not invalidated.
ModelChangedKeepsGeneration(s, v) ==
  Outcome([s EXCEPT !.visible_value = v,
                    !.accepted_value = v,
                    !.debounce_pending = FALSE,
                    !.result_timed_out = FALSE], "apply")

\* A committed value invalidates every older local one and its result.
ModelChanged(s, v) ==
  Outcome([s EXCEPT !.next_generation = NextGeneration(s),
                    !.visible_generation = NextGeneration(s),
                    !.accepted_generation = NextGeneration(s),
                    !.visible_value = v,
                    !.accepted_value = v,
                    !.debounce_pending = FALSE,
                    !.result_timed_out = FALSE], "apply")
=============================================================================
