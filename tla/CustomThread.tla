---------------------------- MODULE CustomThread ----------------------------
(***************************************************************************)
(* The base class of the two worker threads (Worker/Events.h): a state     *)
(* behind a critical section, and the events the thread posts to the page  *)
(* that owns it.  Each method runs under the critical section from its     *)
(* first to its last statement, so each is one atomic operator here.       *)
(***************************************************************************)
EXTENDS Naturals, Sequences

VARIABLES
  tstate,    (* CustomThread::state                                        *)
  events,    (* pending events of the page that is the event_handler: FIFO *)
  listening, (* FALSE once the page is destroyed but the thread is not     *)
  pc,        (* where Entry() is; "none" when there is no worker           *)
  isoOpen    (* Entry's local: iso != nullptr                              *)

threadVars == <<tstate, events, listening, pc, isoOpen>>

ThreadState ==
  {"NOTSTARTED", "STARTED", "FINISHED", "TERMINATING", "TERMINATED"}

(* The thread events carry the state as payload; an ErrorEvent is "ERROR". *)
(* Message and progress events only change texts and are left out.         *)
EventKind == ThreadState \cup {"ERROR"}

ThreadType ==
  /\ tstate \in ThreadState
  /\ events \in Seq(EventKind)
  /\ listening \in BOOLEAN
  /\ isoOpen \in BOOLEAN

(***************************************************************************)
(* wxQueueEvent to the page.  Once the page is gone the thread still holds *)
(* its address; what such a post does is undefined, but no page receives   *)
(* it.                                                                     *)
(***************************************************************************)
Post(e) ==
  events' = IF listening THEN Append(events, e) ELSE events

(* Mutant of Terminate: a cancel request without the look at the state.    *)
TerminateUnguarded ==
  /\ tstate' = "TERMINATING"
  /\ Post("TERMINATING")

(* Called by the page: only a started thread can be cancelled, and only once. *)
Terminate ==
  IF tstate = "STARTED"
  THEN tstate' = "TERMINATING" /\ Post("TERMINATING")
  ELSE UNCHANGED <<tstate, events>>

TerminateRequired == tstate = "TERMINATING"

SetStateStart ==
  /\ tstate' = "STARTED"
  /\ Post("STARTED")

(* Mutant of CompletedState: the pending request is forgotten.             *)
CompletedForgetsRequest == "FINISHED"

CompletedState ==
  IF tstate \in {"TERMINATING", "TERMINATED"} THEN "TERMINATED" ELSE "FINISHED"

SetStateComplete ==
  /\ tstate' = CompletedState
  /\ Post(CompletedState)

(* The worker has run SetStateComplete. *)
Completed == tstate \in {"FINISHED", "TERMINATED"}
=============================================================================
