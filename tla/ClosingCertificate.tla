------------------------ MODULE ClosingCertificate ------------------------
(***************************************************************************)
(* What the annual closing of a cycle promises, without locks, revisions,  *)
(* evidence files or concurrent requests: the figures that become official *)
(* are the figures the Master approved, the figures approved are the last  *)
(* ones reviewed, and nothing happens to either afterwards.                *)
(***************************************************************************)

VARIABLES stage,     \* assessing, reviewed, approved, closed
          figures,   \* of the last review
          official   \* of the snapshot

NoFigures == {}

Init == stage = "assessing" /\ figures = NoFigures /\ official = NoFigures

\* Figures are reviewed, as often as wanted, until they are approved.
Review == /\ stage \in {"assessing", "reviewed"}
          /\ stage' = "reviewed"
          /\ figures' # NoFigures
          /\ UNCHANGED official

Approve == /\ stage = "reviewed"
           /\ stage' = "approved"
           /\ UNCHANGED <<figures, official>>

Close == /\ stage = "approved"
         /\ stage' = "closed"
         /\ official' = figures
         /\ UNCHANGED figures

Next == Review \/ Approve \/ Close

Spec == Init /\ [][Next]_<<stage, figures, official>>

=============================================================================
