----------------------------- MODULE OpDelivery -----------------------------
(***************************************************************************)
(* What the push promises of a queued operation, without its mechanism:    *)
(* the server decides each operation once, the decision and its effect are *)
(* one step, and the device forgets an operation only once it is decided.  *)
(***************************************************************************)
EXTENDS Naturals

CONSTANT Ops   \* operation ids

VARIABLES
  held,        \* operations in the device's outbox
  verdict,     \* the server's decision, "none" before it
  effect       \* how many times the operation's write is in the books

Verdicts == {"applied", "conflict", "rejected"}

Init ==
  /\ held = {}
  /\ verdict = [q \in Ops |-> "none"]
  /\ effect = [q \in Ops |-> 0]

Queue(q) ==
  /\ q \notin held
  /\ verdict[q] = "none"
  /\ held' = held \cup {q}
  /\ UNCHANGED <<verdict, effect>>

\* An applied operation takes effect once, a rejected one never, and a conflict
\* either not at all or with the fields the server accepted.
Decide(q, v) ==
  /\ verdict[q] = "none"
  /\ verdict' = [verdict EXCEPT ![q] = v]
  /\ \E n \in {0, 1} :
       /\ v = "applied" => n = 1
       /\ v = "rejected" => n = 0
       /\ effect' = [effect EXCEPT ![q] = n]
  /\ UNCHANGED held

\* One answer may settle several operations.
Forget(settled) ==
  /\ settled \subseteq held
  /\ \A q \in settled : verdict[q] # "none"
  /\ held' = held \ settled
  /\ UNCHANGED <<verdict, effect>>

Next ==
  \/ \E q \in Ops : Queue(q) \/ \E v \in Verdicts : Decide(q, v)
  \/ \E settled \in SUBSET held : Forget(settled)

Spec == Init /\ [][Next]_<<held, verdict, effect>>
=============================================================================
