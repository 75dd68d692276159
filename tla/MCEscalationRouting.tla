------------------------ MODULE MCEscalationRouting ------------------------
(***************************************************************************)
(* Small instances of EscalationRouting. Escalation 1 asks for a skill that*)
(* the members of Skilled have; the other escalations ask for none.        *)
(***************************************************************************)
EXTENDS EscalationRouting, TLC

CONSTANTS Skilled

MCMatch == [e \in Escalations |-> [m \in Members |->
              IF e = 1 /\ m \in Skilled THEN 1 ELSE 0]]

\* Members may be permuted where all or none are in Skilled.
Symmetry == Permutations(Members) \cup Permutations(Handlers)

\* ended is only ever written, and so are the assignee and the reason of an
\* escalation that was routed, claimed or relabelled: guards and properties read
\* whether it was relabelled and to whom it was drained.
WithoutHistory ==
  <<[e \in Escalations |->
       [esc[e] EXCEPT !.reason = IF @ \in {"routed", "claim"} THEN "none" ELSE @,
                      !.owner = IF esc[e].reason = "drain" THEN @ ELSE NoOne]],
    stat, assignee, flagged, available, present, outbox, claimed, task, lock,
    patches, aborts>>

=============================================================================
