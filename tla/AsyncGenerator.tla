--------------------------- MODULE AsyncGenerator ---------------------------
(***************************************************************************)
(* A coroutine that reads an AsyncGenerator, which waits for events.  The  *)
(* promise is an Awaitable<bool>: TRUE for a value, FALSE at the end.  The *)
(* generator runs within advance() or in the interrupt of an event, and    *)
(* nothing else runs meanwhile; the reader's steps are those of thread     *)
(* mode, between which events may come.                                    *)
(***************************************************************************)
EXTENDS Naturals, Sequences

CONSTANTS
  MaxYields, \* bound: values
  MaxEvents  \* bound: events that nobody waits for

VARIABLES
  gen,    \* the generator: "fresh", "runs", awaits an "event", at a "yield",
          \* at its "final" suspension, or destroyed ("gone")
  more,   \* val of the promise: "none", "yes" or "no"
  value,  \* value_
  caller, \* whether handle of the promise is set
  user,   \* the reader: "away", in advance ("calls"), before await_"ready",
          \* "suspend" or "resume", "suspended", "done" or destroyed ("gone")
  event,  \* the awaitable of the event: its flag, and whether it has a handle
  made,   \* history: number of values
  read,   \* history: the values the reader has got
  early   \* history: events that came before they were awaited

vars == <<gen, more, value, caller, user, event, made, read, early>>

Init ==
  /\ gen = "fresh" /\ more = "none" /\ value = 0 /\ caller = FALSE
  /\ user = "away"
  /\ event = [flag |-> FALSE, handle |-> FALSE]
  /\ made = 0 /\ read = << >> /\ early = 0

-----------------------------------------------------------------------------
(* The generator. *)

(* It suspends: the one who waits is resumed, or control returns to the    *)
(* one who called advance, or to what the interrupt has interrupted.       *)
Return ==
  user' = CASE caller -> "resume" [] user = "calls" -> "ready" [] OTHER -> user

(* yield_value, YieldAwaitable *)
Yield ==
  /\ gen = "runs" /\ made < MaxYields
  /\ gen' = "yield" /\ more' = "yes"
  /\ made' = made + 1 /\ value' = made'
  /\ Return
  /\ UNCHANGED <<caller, event, read, early>>

(* return_void, FinalAwaitable *)
End ==
  /\ gen = "runs"
  /\ gen' = "final" /\ more' = "no"
  /\ Return
  /\ UNCHANGED <<value, caller, event, made, read, early>>

(* co_await of an event that has not come yet, or that has. *)
Await ==
  /\ gen = "runs" /\ ~event.flag
  /\ gen' = "event" /\ event' = [event EXCEPT !.handle = TRUE]
  /\ user' = IF user = "calls" THEN "ready" ELSE user
  /\ UNCHANGED <<more, value, caller, made, read, early>>

AwaitPast ==
  /\ gen = "runs" /\ event.flag
  /\ event' = [event EXCEPT !.flag = FALSE]
  /\ UNCHANGED <<gen, more, value, caller, user, made, read, early>>

-----------------------------------------------------------------------------
(* The event, in an interrupt. *)

Resumes ==
  /\ gen # "runs" /\ event.handle
  /\ event' = [event EXCEPT !.handle = FALSE]
  /\ gen' = IF gen = "event" THEN "runs" ELSE "dangling"
  /\ UNCHANGED <<more, value, caller, user, made, read, early>>

ComesEarly ==
  /\ gen # "runs" /\ ~event.handle /\ early < MaxEvents
  /\ event' = [event EXCEPT !.flag = TRUE]
  /\ early' = early + 1
  /\ UNCHANGED <<gen, more, value, caller, user, made, read>>

-----------------------------------------------------------------------------
(* The reader. *)

At(place) == gen # "runs" /\ user = place
UnchangedByUser == UNCHANGED <<made, early>>

Advance ==
  /\ At("away")
  /\ gen' = IF gen \in {"fresh", "yield"} THEN "runs" ELSE "dangling"
  /\ user' = "calls"
  /\ UNCHANGED <<more, value, caller, event, read>> /\ UnchangedByUser

AwaitReady ==
  /\ At("ready")
  /\ user' = IF more = "none" THEN "suspend" ELSE "resume"
  /\ UNCHANGED <<gen, more, value, caller, event, read>> /\ UnchangedByUser

(* Faulty variant: that the promise has a value by now is overlooked, as   *)
(* Task::await_suspend does. *)
AwaitSuspendBlindly ==
  /\ At("suspend")
  /\ user' = "suspended" /\ caller' = TRUE
  /\ UNCHANGED <<gen, more, value, event, read>> /\ UnchangedByUser

AwaitSuspend ==
  /\ At("suspend")
  /\ IF more = "none" THEN user' = "suspended" /\ caller' = TRUE
     ELSE user' = "resume" /\ UNCHANGED caller
  /\ UNCHANGED <<gen, more, value, event, read>> /\ UnchangedByUser

(* await_resume, and get() if there is a value. *)
AwaitResume ==
  /\ At("resume")
  /\ more' = "none" /\ caller' = FALSE
  /\ IF more = "yes" THEN user' = "away" /\ read' = Append(read, value)
     ELSE user' = "done" /\ UNCHANGED read
  /\ UNCHANGED <<gen, value, event>> /\ UnchangedByUser

(* Faulty variant: the awaiter is not removed with the generator. *)
DestroyOnly ==
  /\ At("away") \/ At("suspended") \/ At("done")
  /\ user' = "gone" /\ gen' = "gone"
  /\ UNCHANGED <<more, value, caller, event, read>> /\ UnchangedByUser

(* The reader is destroyed, and the generator with it, whose Wrapper       *)
(* withdraws it from the event.                                            *)
Destroy ==
  /\ At("away") \/ At("suspended") \/ At("done")
  /\ user' = "gone" /\ gen' = "gone"
  /\ event' = [event EXCEPT !.handle = FALSE]
  /\ UNCHANGED <<more, value, caller, read>> /\ UnchangedByUser

Generator == Yield \/ End \/ Await \/ AwaitPast
Reader == Advance \/ AwaitReady \/ AwaitSuspend \/ AwaitResume \/ Destroy
Next == Generator \/ Resumes \/ ComesEarly \/ Reader

Spec == Init /\ [][Next]_vars

-----------------------------------------------------------------------------
(* Reader and generator take turns: every value is read once and in order, *)
(* whether it comes within advance, before the reader suspends or after;   *)
(* the generator only runs where it has suspended and while it exists; and *)
(* who is suspended waits for one who will resume it.                      *)
GeneratorInStep ==
  /\ gen # "dangling"
  /\ \A i \in DOMAIN read : read[i] = i
  /\ made - Len(read) \in {0, 1}
  /\ user = "away" => Len(read) = made
  /\ user = "done" => gen = "final" /\ Len(read) = made
  /\ user = "suspended" /\ gen # "runs" =>
       caller /\ more = "none" /\ gen = "event" /\ event.handle
=============================================================================
