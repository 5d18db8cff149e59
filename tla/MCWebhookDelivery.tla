-------------------------- MODULE MCWebhookDelivery --------------------------
(* Values of the constants of WebhookDelivery for TLC *)
EXTENDS WebhookDelivery, TLC

CONSTANTS m1, p1, p2, p3, w1, w2, h1

MCHostOf == [w \in Webhooks |-> h1]

\* Passes are the same to each other.
MCPasses == Permutations(Passes)

=============================================================================
