------------------------- MODULE MCWebhookDelivery -------------------------
(* A pool of SQLite connections of which one only got the pragma.           *)
EXTENDS WebhookDelivery, TLC

Pool == {TRUE, FALSE}
=============================================================================
