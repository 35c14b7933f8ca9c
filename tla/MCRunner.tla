------------------------------ MODULE MCRunner ------------------------------
(* Two services of phase 1 and three of phase 2.                            *)
EXTENDS Runner
CONSTANTS dashboard, order, inventory, payment, notification
MCPhase1 == <<dashboard, order>>
MCPhase2 == <<inventory, payment, notification>>
=============================================================================
