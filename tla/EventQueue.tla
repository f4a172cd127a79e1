---------------------------- MODULE EventQueue ----------------------------
(***************************************************************************)
(* CWalleveEventQueue: the queue through which IO threads hand events to   *)
(* the event thread of a module.  Every operation below runs under the     *)
(* queue's mutex and is therefore one action on the two variables.         *)
(*                                                                         *)
(* AddNew and Interrupt notify the condition variable after a change made  *)
(* under the mutex, and Fetch tests its predicate under the same mutex, so *)
(* no wake-up is lost and a blocked Fetch is simply a disabled action.     *)
(***************************************************************************)
EXTENDS Sequences

VARIABLES que,     \* the events queued and not fetched, oldest first
          fAbort   \* set by Interrupt, cleared by Reset

\* Mutant of AddNew: the event goes to the front.
AddNewFirst(event) ==
    /\ que' = <<event>> \o que
    /\ UNCHANGED fAbort

AddNew(event) ==
    /\ que' = Append(que, event)
    /\ UNCHANGED fAbort

\* Fetch returns an event ...
Fetch(event) ==
    /\ ~fAbort
    /\ que # <<>>
    /\ event = Head(que)
    /\ que' = Tail(que)
    /\ UNCHANGED fAbort

\* Mutant of FetchNull: the abort is noticed only by an empty queue.
FetchNullWhenEmpty ==
    /\ fAbort
    /\ que = <<>>
    /\ UNCHANGED <<que, fAbort>>

\* ... or NULL, which ends the event thread.
FetchNull ==
    /\ fAbort
    /\ UNCHANGED <<que, fAbort>>

\* Mutant of Reset: only the flag is cleared.
ResetFlagOnly ==
    /\ fAbort' = FALSE
    /\ UNCHANGED que

\* Both free every queued event; they differ in the flag they leave.
Reset ==
    /\ que' = <<>>
    /\ fAbort' = FALSE

Interrupt ==
    /\ que' = <<>>
    /\ fAbort' = TRUE
===========================================================================
