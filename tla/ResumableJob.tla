----------------------------- MODULE ResumableJob -----------------------------
(***************************************************************************)
(* What a resumable computation promises: it goes through its N steps in   *)
(* order, each exactly once between two saves, and after a stop or a crash *)
(* it goes on from the step it last saved.                                 *)
(***************************************************************************)
EXTENDS Naturals

CONSTANT N

VARIABLES
  done,   \* steps done
  saved,  \* steps done when it last saved
  state   \* "idle", "running" or "done"

vars == <<done, saved, state>>

Init == done = 0 /\ saved = 0 /\ state = "idle"

Start ==
  /\ state = "idle"
  /\ state' = "running"
  /\ UNCHANGED <<done, saved>>

Step ==
  /\ state = "running"
  /\ done < N
  /\ done' = done + 1
  /\ state' = IF done' = N THEN "done" ELSE "running"
  /\ UNCHANGED saved

Save ==
  /\ state = "running"
  /\ saved' = done
  /\ state' \in {"idle", "running"}
  /\ UNCHANGED done

Crash ==
  /\ state = "running"
  /\ done' = saved
  /\ state' = "idle"
  /\ UNCHANGED saved

Next == Start \/ Step \/ Save \/ Crash

Spec == Init /\ [][Next]_vars
=============================================================================
