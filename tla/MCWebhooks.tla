------------------------------ MODULE MCWebhooks ------------------------------
(***************************************************************************)
(* The pipeline for TLC: one change, which touches every party, and one    *)
(* tenant or two.                                                          *)
(***************************************************************************)
EXTENDS WebhookPipeline

CONSTANTS a, b, t1, t2

MCParties == {a, b}
MCOneParty == {a}
MCTenants == {t1, t2}
MCOneTenant == {t1}
MCOneChange == {1}
MCTouches == [c \in Changes |-> Parties]
=============================================================================
