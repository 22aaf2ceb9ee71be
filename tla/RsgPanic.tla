------------------------------ MODULE RsgPanic ------------------------------
(***************************************************************************)
(* Panics: runtime/rsg_panic.c together with the C that cgen emits around  *)
(* it.  A function with defers pushes a recovery frame, and pops it at its *)
(* cleanup label, where the flagged defers run; catch_panic pushes a frame *)
(* around a closure call.  rsg_panic and rsg_repanic longjmp to the newest *)
(* frame without popping it.                                               *)
(*                                                                         *)
(* Only the activations that hold a frame are modelled: a function without *)
(* defers runs in its caller's activation, and longjmp passes over it.     *)
(* The program may do anything the language lets it do at any point; the   *)
(* constants that begin with DEFER_ open, one at a time, the ways in which *)
(* a defer body can leave the straight path.                               *)
(***************************************************************************)
EXTENDS Integers, SequencesExt

CONSTANTS Msgs,                    \* panic messages
          DEFERS,                  \* defer statements in a function, numbered
                                   \* in the order of the text
          MAX_DEPTH,               \* bound on the nesting of activations
          DEFER_LOOPS,             \* defers may stand inside a loop
          DEFER_PANICS,            \* a defer body may be left by a panic
          DEFER_CATCHES,           \* a panic may start, and be caught, in a
                                   \* defer body that runs because of a panic
          DEFER_RETURNS            \* a defer body may hold a return

NOMSG == "no message"

ASSUME PanicAssumption ==
  /\ DEFERS \in Nat /\ MAX_DEPTH \in Nat
  /\ NOMSG \notin Msgs
  /\ {DEFER_LOOPS, DEFER_PANICS, DEFER_CATCHES, DEFER_RETURNS} \subseteq BOOLEAN

VARIABLES frames,      \* g_rsg_panic_stack, newest last; a frame is named by
                       \* the depth of the activation whose C frame holds it
          msg,         \* g_rsg_panic_msg
          panicking,   \* g_rsg_panicking
          calls,       \* the C stack
          outcome,     \* what the last catch_panic to end gave: see Outcomes
          exited,      \* the process has ended with exit(1)
          cause        \* history: the message the running longjmp carries
                       \* from the rsg_panic where it started

vars == <<frames, msg, panicking, calls, outcome, exited, cause>>

Maybe == Msgs \cup {NOMSG}
Defers == 1 .. DEFERS

\* An activation of a function with defers or of catch_panic.
\*   phase   "body": inside the frame; "cleanup": at the label, looking at
\*           defer number next; "defer": running that defer's body;
\*           "caught": in catch_panic's else branch
\*   flags   the _rsg_defer_N that are true
\*   next    the cleanup's position
\*   fault   NOMSG, or (panicked is true) the message that unwound to it
\*   order, ran   history: the defers in the order the body reached them and
\*           in the order their bodies were entered
Activations ==
  [kind: {"fn", "catch"}, phase: {"body", "cleanup", "defer", "caught"},
   flags: SUBSET Defers, next: 0 .. DEFERS, fault: Maybe,
   order: Seq(Defers), ran: Seq(Defers)]

Outcomes == [tag: {"none", "Ok"}] \cup [tag: {"Err"}, msg: Maybe, fault: Maybe]

TypeOK ==
  /\ frames \in Seq(1 .. MAX_DEPTH)
  /\ msg \in Maybe /\ cause \in Maybe
  /\ panicking \in BOOLEAN /\ exited \in BOOLEAN
  /\ calls \in Seq(Activations) /\ Len(calls) <= MAX_DEPTH
  /\ outcome \in Outcomes

-----------------------------------------------------------------------------
depth == Len(calls)
top == calls[depth]

\* The innermost activation runs the program's own statements.
InProgram ==
  /\ ~ exited
  /\ depth # 0 => top.phase \in {"body", "defer"}

InCleanup == ~ exited /\ depth > 0 /\ top.phase = "cleanup"

Enter(k) ==
  [kind |-> k, phase |-> "body", flags |-> {}, next |-> 0, fault |-> NOMSG,
   order |-> << >>, ran |-> << >>]

Butlast(s) == SubSeq(s, 1, Len(s) - 1)

\* rsg_panic_pop.
Popped == IF frames # << >> THEN Butlast(frames) ELSE frames

\* longjmp to the newest frame, or exit(1) if there is none.  Everything
\* above the activation that owns the frame is gone; there, setjmp returns 1.
Unwind(m) ==
  IF frames = << >>
  THEN exited' = TRUE /\ UNCHANGED calls
  ELSE LET d == frames[Len(frames)]
           a == calls[d]
       IN /\ exited' = FALSE
          /\ calls' = [SubSeq(calls, 1, d) EXCEPT
                         ![d] = IF a.kind = "fn"
                                THEN [a EXCEPT !.fault = m, !.phase = "cleanup",
                                               !.next = DEFERS]
                                ELSE [a EXCEPT !.fault = m, !.phase = "caught"]]

\* A longjmp that lands in a function is at its cleanup label, whose first
\* call is rsg_panic_pop; catch_panic pops after it has built its result.
PoppedAfterUnwind ==
  IF frames # << >> /\ calls[frames[Len(frames)]].kind = "fn" THEN Popped ELSE frames

-----------------------------------------------------------------------------
(* The program's statements.                                               *)

\* Call a function that has defers: emit_fn_body's prologue.
Call ==
  /\ InProgram /\ depth < MAX_DEPTH
  /\ calls' = Append(calls, Enter("fn"))
  /\ frames' = Append(frames, depth + 1)
  /\ UNCHANGED <<msg, panicking, outcome, exited, cause>>

\* catch_panic(f): emit_catch_panic_call up to the call of the closure.
CatchPanic ==
  /\ InProgram /\ depth < MAX_DEPTH
  /\ calls' = Append(calls, Enter("catch"))
  /\ frames' = Append(frames, depth + 1)
  /\ UNCHANGED <<msg, panicking, outcome, exited, cause>>

\* A defer statement: set its flag.  Outside loops statements are reached in
\* the order of the text, each at most once.
Defer(i) ==
  /\ InProgram /\ depth > 0 /\ top.kind = "fn" /\ top.phase = "body"
  /\ DEFER_LOOPS \/ \A j \in top.flags : j < i
  /\ calls' = [calls EXCEPT ![depth].flags = @ \cup {i},
                            ![depth].order = IF i \in top.flags THEN @ ELSE Append(@, i)]
  /\ UNCHANGED <<frames, msg, panicking, outcome, exited, cause>>

\* A panic now would leave a defer body: no catch_panic above it is open.
LeavesDefer ==
  \E d \in 1 .. depth :
    /\ calls[d].phase = "defer"
    /\ \A e \in (d + 1) .. depth : ~ (calls[e].kind = "catch" /\ calls[e].phase = "body")

\* Mutant: the message of an earlier panic is kept.
PanicKeepsMsg(m) ==
  /\ InProgram
  /\ DEFER_PANICS \/ ~ LeavesDefer
  /\ DEFER_CATCHES \/ ~ panicking
  /\ msg' = IF msg = NOMSG THEN m ELSE msg
  /\ panicking' = TRUE /\ cause' = m
  /\ Unwind(m)
  /\ frames' = PoppedAfterUnwind
  /\ UNCHANGED outcome

\* rsg_panic.
Panic(m) ==
  /\ InProgram
  /\ DEFER_PANICS \/ ~ LeavesDefer
  /\ DEFER_CATCHES \/ ~ panicking
  /\ msg' = m /\ panicking' = TRUE /\ cause' = m
  /\ Unwind(m)
  /\ frames' = PoppedAfterUnwind
  /\ UNCHANGED outcome

\* Mutant: return leaves at once, past the cleanup label.
ReturnAtOnce ==
  /\ InProgram /\ depth > 0 /\ top.kind = "fn"
  /\ top.phase = "body" \/ DEFER_RETURNS
  /\ calls' = Butlast(calls)
  /\ frames' = Popped
  /\ UNCHANGED <<msg, panicking, outcome, exited, cause>>

\* return, or the end of the body: goto the cleanup label, and its first call.
\* A return inside a defer body goes there again.
Return ==
  /\ InProgram /\ depth > 0 /\ top.kind = "fn"
  /\ top.phase = "body" \/ DEFER_RETURNS
  /\ calls' = [calls EXCEPT ![depth].phase = "cleanup", ![depth].next = DEFERS]
  /\ frames' = Popped
  /\ UNCHANGED <<msg, panicking, outcome, exited, cause>>

-----------------------------------------------------------------------------
(* emit_deferred_cleanup, after the pop.                                   *)

\* Mutant: the defers are counted down to 0, not to 1.
RunDeferTooFar ==
  /\ InCleanup /\ top.next >= 0
  /\ calls' = IF top.next \in top.flags
              THEN [calls EXCEPT ![depth].phase = "defer",
                                 ![depth].ran = Append(@, top.next)]
              ELSE [calls EXCEPT ![depth].next = @ - 1]
  /\ UNCHANGED <<frames, msg, panicking, outcome, exited, cause>>

RunDefer ==
  /\ InCleanup /\ top.next > 0
  /\ calls' = IF top.next \in top.flags
              THEN [calls EXCEPT ![depth].phase = "defer",
                                 ![depth].ran = Append(@, top.next)]
              ELSE [calls EXCEPT ![depth].next = @ - 1]
  /\ UNCHANGED <<frames, msg, panicking, outcome, exited, cause>>

EndDefer ==
  /\ ~ exited /\ depth > 0 /\ top.phase = "defer"
  /\ calls' = [calls EXCEPT ![depth].phase = "cleanup", ![depth].next = @ - 1]
  /\ UNCHANGED <<frames, msg, panicking, outcome, exited, cause>>

\* if (panicked && rsg_is_panicking()) rsg_repanic();
Repanic ==
  /\ InCleanup /\ top.next = 0
  /\ top.fault # NOMSG /\ panicking
  /\ cause' = top.fault
  /\ Unwind(top.fault)
  /\ frames' = PoppedAfterUnwind
  /\ UNCHANGED <<msg, panicking, outcome>>

\* Mutant: the function returns whether or not it was unwound.
LeaveAlways ==
  /\ InCleanup /\ top.next = 0
  /\ calls' = Butlast(calls)
  /\ UNCHANGED <<frames, msg, panicking, outcome, exited, cause>>

\* return result;
LeaveFn ==
  /\ InCleanup /\ top.next = 0
  /\ ~ (top.fault # NOMSG /\ panicking)
  /\ calls' = Butlast(calls)
  /\ UNCHANGED <<frames, msg, panicking, outcome, exited, cause>>

-----------------------------------------------------------------------------
(* emit_catch_panic_call, from the end of the closure on.                  *)

\* Mutants: the frame stays when the closure returns; the flag stays set.
ClosureKeepsFrame ==
  /\ InProgram /\ depth > 0 /\ top.kind = "catch"
  /\ outcome' = [tag |-> "Ok"]
  /\ calls' = Butlast(calls)
  /\ UNCHANGED <<frames, msg, panicking, exited, cause>>

RecoverKeepsFlag ==
  /\ ~ exited /\ depth > 0 /\ top.phase = "caught"
  /\ outcome' = [tag |-> "Err", msg |-> IF panicking THEN msg ELSE NOMSG,
                 fault |-> top.fault]
  /\ frames' = Popped
  /\ calls' = Butlast(calls)
  /\ UNCHANGED <<msg, panicking, exited, cause>>

ClosureReturns ==
  /\ InProgram /\ depth > 0 /\ top.kind = "catch"
  /\ outcome' = [tag |-> "Ok"]
  /\ frames' = Popped
  /\ calls' = Butlast(calls)
  /\ UNCHANGED <<msg, panicking, exited, cause>>

\* rsg_recover gives the message and clears the flag.
Recover ==
  /\ ~ exited /\ depth > 0 /\ top.phase = "caught"
  /\ outcome' = [tag |-> "Err", msg |-> IF panicking THEN msg ELSE NOMSG,
                 fault |-> top.fault]
  /\ panicking' = FALSE
  /\ frames' = Popped
  /\ calls' = Butlast(calls)
  /\ UNCHANGED <<msg, exited, cause>>

-----------------------------------------------------------------------------
Init ==
  /\ frames = << >> /\ msg = NOMSG /\ panicking = FALSE
  /\ calls = << >> /\ outcome = [tag |-> "none"]
  /\ exited = FALSE /\ cause = NOMSG

Next ==
  \/ Call \/ CatchPanic \/ Return
  \/ \E i \in Defers : Defer(i)
  \/ \E m \in Msgs : Panic(m)
  \/ RunDefer \/ EndDefer \/ Repanic \/ LeaveFn
  \/ ClosureReturns \/ Recover

Spec == Init /\ [][Next]_vars

-----------------------------------------------------------------------------
(* Properties.                                                             *)

Guarded(d) == calls[d].phase \in {"body", "caught"}

\* Every frame on the panic stack lies in a C frame that still exists, and it
\* is there exactly as long as its activation is inside the guarded region:
\* longjmp never jumps into a function that has returned, and no function
\* loses its frame (rsg_panic.c:13-22, emit_file.c:148-158).
FramesMatchCalls ==
  /\ \A i \in DOMAIN frames : frames[i] <= depth /\ Guarded(frames[i])
  /\ \A i, j \in DOMAIN frames : i < j => frames[i] < frames[j]
  /\ \A d \in 1 .. depth : Guarded(d) => \E i \in DOMAIN frames : frames[i] = d

\* The panic state says what the stack says: it is set exactly while an
\* activation is being unwound (rsg_panic.c:47, 59-65).
PanickingMeansUnwinding ==
  ~ exited => (panicking <=> \E d \in 1 .. depth : calls[d].fault # NOMSG)

\* Defers execute LIFO on function exit (README.md:342): when an activation is
\* gone, by a return, because a panic passed it, or with the process, the
\* defers its body reached have run, each once, in the opposite order.
DefersRunLifo ==
  [][ \A d \in 1 .. depth :
        (d > Len(calls') \/ exited') /\ calls[d].kind = "fn"
          => calls[d].ran = Reverse(calls[d].order) ]_vars

\* A function that a panic unwound does not return to its caller as if the
\* panic had not happened: when it is gone, the panic has reached another
\* activation, or ended the process (README.md:351, emit_file.c:77-80).
PanicGoesOn ==
  [][ \A d \in 1 .. depth :
        (d > Len(calls') /\ calls[d].kind = "fn" /\ calls[d].fault # NOMSG)
          => exited' \/ \E e \in 1 .. Len(calls') : calls'[e].fault # NOMSG ]_vars

\* What is reported is what happened: Err(message) carries the message of the
\* panic that the closure raised and did not catch (README.md:351), and a
\* process that dies prints the message of the panic it dies of, whatever other
\* panics were raised and caught in between (rsg_panic.c:37-45, 64-69).
CauseIsReported ==
  /\ outcome.tag = "Err" => outcome.msg = outcome.fault
  /\ exited => msg = cause
=============================================================================
