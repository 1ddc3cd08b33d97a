----------------------------- MODULE TaskRegister -----------------------------
(***************************************************************************)
(* What the control center promises about tasks, with no links, frames or  *)
(* leaders: a register that shows the outcomes of the newest submissions.  *)
(* CenterTasks implements it.                                              *)
(***************************************************************************)
EXTENDS Naturals, Sequences, FiniteSets

CONSTANTS Task,     \* submissions: each has a life of the control center, and an id in it
          Window    \* how many are shown

VARIABLES life,     \* of the control center
          outcome,  \* outcome[t]: "none" before t is submitted, "gone" once it is not shown
          shown,    \* the submissions shown, oldest first
          worked    \* the submissions the swarm reported

vars == <<life, outcome, shown, worked>>

Init ==
  /\ life = 0
  /\ outcome = [t \in Task |-> "none"]
  /\ shown = << >>
  /\ worked = {}

\* t is taken, or fails at once; the oldest submission makes room for it.
Submit(t, as) ==
  /\ t.life = life /\ outcome[t] = "none" /\ as \in {"pending", "failed"}
  /\ LET full == Len(shown) = Window
     IN  /\ shown' = Append(IF full THEN Tail(shown) ELSE shown, t)
         /\ outcome' = [u \in Task |-> IF u = t THEN as
                                       ELSE IF full /\ u = Head(shown) THEN "gone" ELSE outcome[u]]
  /\ UNCHANGED <<life, worked>>

\* The swarm reports a submission, shown or not.
Work(t) ==
  /\ outcome[t] # "none"
  /\ worked' = worked \cup {t}
  /\ UNCHANGED <<life, outcome, shown>>

\* A pending task settles, once: done only if the swarm worked a task of that id.
Settle(t, as) ==
  /\ outcome[t] = "pending"
  /\ as \in {"done", "failed"} /\ (as = "done" => \E u \in worked : u.id = t.id)
  /\ outcome' = [outcome EXCEPT ![t] = as]
  /\ UNCHANGED <<life, shown, worked>>

\* The control center restarts: what was submitted is shown no more.
Forget ==
  /\ life' = life + 1
  /\ shown' = << >>
  /\ outcome' = [t \in Task |-> IF t.life <= life THEN "gone" ELSE outcome[t]]
  /\ UNCHANGED worked

Next ==
  \/ \E t \in Task : Work(t) \/ \E as \in {"pending", "done", "failed"} : Submit(t, as) \/ Settle(t, as)
  \/ Forget

Spec == Init /\ [][Next]_vars
===============================================================================
