----------------------------- MODULE AtomicJob -----------------------------
(***************************************************************************)
(* What a durable batched job promises to those who read its output: runs  *)
(* happen one after the other, and the output of a run appears at once and *)
(* whole, or never.  Batches, cursors, locks, crashes and resumptions are  *)
(* not visible.                                                            *)
(***************************************************************************)
EXTENDS Integers

CONSTANTS
  RunId,     \* an initial segment of 1, 2, ...
  Part,      \* parts every output has
  Item       \* items a run may be asked to cover

VARIABLES
  started,   \* runs started so far
  state,     \* "absent", "running", "failed" or "visible"
  demand,    \* per run, the items it must cover
  output     \* per run, how often each item is in each part

vars == <<started, state, demand, output>>

Nothing == [p \in Part |-> [i \in Item |-> 0]]

Init ==
  /\ started = 0
  /\ state = [r \in RunId |-> "absent"]
  /\ demand \in [RunId -> SUBSET Item]
  /\ output = [r \in RunId |-> Nothing]

\* A run starts when no run is in progress.
Start ==
  /\ started + 1 \in RunId
  /\ \A r \in RunId : state[r] # "running"
  /\ started' = started + 1
  /\ state' = [state EXCEPT ![started + 1] = "running"]
  /\ demand' \in [RunId -> SUBSET Item]
  /\ \A r \in 1..started : demand'[r] = demand[r]
  /\ UNCHANGED output

\* A run in progress may be given up.
Fail(r) ==
  /\ state[r] = "running"
  /\ state' = [state EXCEPT ![r] = "failed"]
  /\ UNCHANGED <<started, demand, output>>

\* The newest run, given up or not, may still complete: its output appears, and
\* it has every item it must cover exactly once in every part.
Complete(r) ==
  /\ r = started
  /\ state[r] \in {"running", "failed"}
  /\ state' = [state EXCEPT ![r] = "visible"]
  /\ output' \in {[output EXCEPT ![r] = out] :
                    out \in [Part -> [Item -> 0..1]]}
  /\ \A p \in Part, i \in demand[r] : output'[r][p][i] = 1
  /\ UNCHANGED <<started, demand>>

\* Items may stop being wanted while a run is in progress.
Relax ==
  /\ demand' \in [RunId -> SUBSET Item]
  /\ \A r \in RunId : demand'[r] \subseteq demand[r]
  /\ UNCHANGED <<started, state, output>>

Next ==
  \/ Start
  \/ \E r \in RunId : Fail(r) \/ Complete(r)
  \/ Relax

Spec == Init /\ [][Next]_vars
=============================================================================
