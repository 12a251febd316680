----------------------------- MODULE MCPayment -----------------------------
(* Payment on small instances: every run picks the event types it is about. *)
EXTENDS Payment, TLC

\* The event of a charged session alone.
CompletedEvents == {"checkout.session.completed"}
\* The events that write `payments', from both outcomes of a charge.
WritingEvents == { "checkout.session.completed", "charge.updated", "charge.failed" }

\* Two deliveries at a time as long as one session and no refund is about;
\* else one, of the event of a charged session.
Running(d) == delivery[d].step # "idle"
Single == /\ \A s, t \in Sessions : stripe[s].state # "none" /\ stripe[t].state # "none" => s = t
          /\ \A r \in Refunders : refund[r].step = "idle"
          /\ \A o \in Orders : refunds[o] = 0
Bounded ==
  Single \/ \A d, e \in Deliveries :
               /\ Running(d) /\ Running(e) => d = e
               /\ Running(d) => delivery[d].event.type \in CompletedEvents

Symmetry == Permutations(Sessions) \cup Permutations(Deliveries) \cup Permutations(Refunders)
=============================================================================
