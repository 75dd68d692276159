--------------------------- MODULE MCToolApproval ---------------------------
(***************************************************************************)
(* Small instances of ToolApproval: two requests, both of one conversation *)
(* (so that they can be cancelled together and their tasks interfere).     *)
(***************************************************************************)
EXTENDS ToolApproval, TLC

CONSTANTS r1, r2, c1

MCConvOf == [r \in Requests |-> c1]

Symmetry == Permutations(Requests) \cup Permutations(Staff) \cup Permutations(Sweepers)
              \cup Permutations(Workers)

\* held, followups and unanswered are only ever written: no guard and no safety
\* property of the run that uses this view reads them.
WithoutHistory == <<status, gated, overdue, decidedBy, outbox, claimed, worker,
                    decider, sweeper, cancelTasks, escalated, executions, aborts>>

=============================================================================
