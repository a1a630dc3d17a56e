---------------------------- MODULE EventQueue ----------------------------
(***************************************************************************)
(* What the outbox promises about an event, with no workers, locks,        *)
(* handlers or databases in sight: an event is submitted once, tried at    *)
(* most MaxTries times, delivered at most once per try (a late delivery    *)
(* may come at any time after its try began), completed only if the try    *)
(* that completes it was delivered, and dead only after MaxTries tries.    *)
(***************************************************************************)
EXTENDS Naturals

CONSTANTS Events, MaxTries

VARIABLES
  entry,      (* "none", "waiting", "taken", "done" or "dead"              *)
  tries,      (* tries that ended without completing the event             *)
  delivered   (* the tries that were delivered                             *)

vars == <<entry, tries, delivered>>

Init ==
  /\ entry = [e \in Events |-> "none"]
  /\ tries = [e \in Events |-> 0]
  /\ delivered = [e \in Events |-> {}]

Submit(e) ==
  /\ entry[e] = "none"
  /\ entry' = [entry EXCEPT ![e] = "waiting"]
  /\ UNCHANGED <<tries, delivered>>

\* Several events may be taken at once.
Take(S) ==
  /\ \A e \in S : entry[e] = "waiting"
  /\ entry' = [e \in Events |-> IF e \in S THEN "taken" ELSE entry[e]]
  /\ UNCHANGED <<tries, delivered>>

Deliver(e, n) ==
  /\ entry[e] # "none"
  /\ n \in 0 .. tries[e]
  /\ n = tries[e] => entry[e] = "taken"
  /\ n \notin delivered[e]
  /\ delivered' = [delivered EXCEPT ![e] = @ \cup {n}]
  /\ UNCHANGED <<entry, tries>>

Complete(e) ==
  /\ entry[e] = "taken"
  /\ tries[e] \in delivered[e]
  /\ entry' = [entry EXCEPT ![e] = "done"]
  /\ UNCHANGED <<tries, delivered>>

GiveBack(e) ==
  /\ entry[e] = "taken"
  /\ tries[e] + 1 < MaxTries
  /\ entry' = [entry EXCEPT ![e] = "waiting"]
  /\ tries' = [tries EXCEPT ![e] = @ + 1]
  /\ UNCHANGED delivered

Bury(e) ==
  /\ entry[e] = "taken"
  /\ tries[e] + 1 = MaxTries
  /\ entry' = [entry EXCEPT ![e] = "dead"]
  /\ tries' = [tries EXCEPT ![e] = MaxTries]
  /\ UNCHANGED delivered

Next ==
  \/ \E S \in SUBSET Events : Take(S)
  \/ \E e \in Events :
       \/ Submit(e) \/ Complete(e) \/ GiveBack(e) \/ Bury(e)
       \/ \E n \in 0 .. MaxTries : Deliver(e, n)

Spec == Init /\ [][Next]_vars
=============================================================================
