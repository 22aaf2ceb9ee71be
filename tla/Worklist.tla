------------------------------ MODULE Worklist ------------------------------
(***************************************************************************)
(* The worklist of pass/mono/mono.c on its own: the passes ask for         *)
(* instances of generic functions by putting them at the end of a queue,   *)
(* and the mono pass goes through the queue, adding to the program each    *)
(* instance whose name it has not met before.  To add one is to check its  *)
(* body, and that may ask for more.  Which bodies ask for what is left     *)
(* open; Sema, whose passes do know, is shown to implement this module.    *)
(*                                                                         *)
(* The depth guard (mono.c:44) is not here: mono_depth is raised around    *)
(* the check of a body and lowered after it, so it is 0 at the guard.      *)
(***************************************************************************)
EXTENDS Integers, Sequences

VARIABLES queue,       \* sema->pending_insts: records with a name n
          gi,          \* how many of them mono has seen
          emitted,     \* the instances added to the program
          over         \* mono is over, and nothing was reported

workVars == <<queue, gi, emitted, over>>

\* A sequence, of whatever elements.
IsList(s) == s \in Seq({s[i] : i \in DOMAIN s})

\* BUF_PUSH, any number of times: what is queued stays where it is.
Grows ==
  /\ IsList(queue') /\ Len(queue') >= Len(queue)
  /\ \A i \in 1 .. Len(queue) : queue'[i] = queue[i]

\* Resolve and check: calls of generic functions are met before mono starts.
Ask ==
  /\ gi = 0 /\ ~ over
  /\ Grows
  /\ UNCHANGED <<gi, emitted, over>>

Met(i) == \E j \in 1 .. (i - 1) : queue[j].n = queue[i].n

\* One round of instantiate_pending_generics.
Skip ==
  /\ gi < Len(queue) /\ Met(gi + 1)
  /\ gi' = gi + 1
  /\ UNCHANGED <<queue, emitted, over>>

Emit ==
  /\ gi < Len(queue) /\ ~ Met(gi + 1)
  /\ gi' = gi + 1
  /\ emitted' = Append(emitted, queue[gi + 1])
  /\ Grows
  /\ UNCHANGED over

End ==
  /\ gi = Len(queue)
  /\ over' = TRUE
  /\ UNCHANGED <<queue, gi, emitted>>

WorkInit == queue = << >> /\ gi = 0 /\ emitted = << >> /\ over = FALSE

WorkNext == ~ over /\ (Ask \/ Skip \/ Emit \/ End)

WorkSpec == WorkInit /\ [][WorkNext]_workVars

-----------------------------------------------------------------------------
(* Properties.                                                             *)

\* Whatever has been asked for when mono is over is in the program, once, and
\* it is what was asked for first under that name (mono.c:31-41).
AllEmittedOnce ==
  over => \A i \in DOMAIN queue :
            \E k \in DOMAIN emitted :
              /\ emitted[k].n = queue[i].n
              /\ \A l \in DOMAIN emitted : emitted[l].n = queue[i].n => l = k
              /\ \E j \in 1 .. i : emitted[k] = queue[j] /\ ~ Met(j)

NamesOf(s) == {s[i].n : i \in DOMAIN s}

\* A round of mono adds a name to the program, or it leaves one instance less
\* in the queue and asks for none: mono can only go on for ever if there is no
\* end to the names, and nothing in it stops that.
RoundsAdvance ==
  [][gi' # gi =>
       \/ NamesOf(emitted) \subseteq NamesOf(emitted') /\ NamesOf(emitted') # NamesOf(emitted)
       \/ /\ emitted' = emitted /\ queue' = queue
          /\ Len(queue) - gi \in Nat /\ Len(queue') - gi' \in Nat
          /\ Len(queue') - gi' < Len(queue) - gi]_workVars
=============================================================================
