------------------------------ MODULE MCWebhook ------------------------------
(* Two events: the first for both webhooks, the second for one of them.      *)
EXTENDS WebhookDelivery

CONSTANTS e1, e2, w1, w2, d1, d2, d3

EventOf == [d \in Deliveries |-> IF d = d3 THEN e2 ELSE e1]

WebhookOf == [d \in Deliveries |-> IF d = d2 THEN w2 ELSE w1]

=============================================================================
