------------------------------- MODULE MCWebhook -------------------------------
(* Small instances of webhook delivery for TLC: one row with its job and one    *)
(* replay, or rows of one tenant with a job each.                               *)
EXTENDS WebhookDelivery, TLC

CONSTANTS deliver, replay, delivery, org, w1, w2

OneTenant == [j \in Jobs |-> org]
OneDelivery == [j \in Jobs |-> delivery]
FirstJob == delivery :> deliver
NamedByJob == [j \in Jobs |-> j]
=============================================================================
