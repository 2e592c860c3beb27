----------------------------- MODULE AtMostOnce -----------------------------
(***************************************************************************)
(* What a queue of jobs promises to whoever puts something into it, in     *)
(* spite of crashes: an item is handed out at most once, acts at most once *)
(* and only in between, and once it has ended it is not touched again.  It *)
(* may be lost on the way; nothing is promised of that.                    *)
(***************************************************************************)
EXTENDS Naturals

CONSTANT Items

VARIABLES
    stage,      \* where each item is
    acts        \* how often it has acted

onceVars == <<stage, acts>>

OnceTypeOK == /\ stage \in [Items -> {"absent", "waiting", "taken", "ended"}]
              /\ acts \in [Items -> Nat]

Init == /\ stage = [i \in Items |-> "absent"]
        /\ acts = [i \in Items |-> 0]

Moved(I, from, to) ==
    /\ \A i \in I : stage[i] = from
    /\ stage' = [i \in Items |-> IF i \in I THEN to ELSE stage[i]]

\* Items that come in together are there together.
Offer(I) == Moved(I, "absent", "waiting") /\ UNCHANGED acts

Take(i) == Moved({i}, "waiting", "taken") /\ UNCHANGED acts

Act(i) == /\ stage[i] = "taken" /\ acts[i] = 0
          /\ acts' = [acts EXCEPT ![i] = 1]
          /\ UNCHANGED stage

End(i) == Moved({i}, "taken", "ended") /\ UNCHANGED acts

Next == \/ \E I \in SUBSET Items : Offer(I)
        \/ \E i \in Items : Take(i) \/ Act(i) \/ End(i)

Spec == Init /\ [][Next]_onceVars
=============================================================================
