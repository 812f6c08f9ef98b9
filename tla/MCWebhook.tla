----------------------------- MODULE MCWebhook -----------------------------
(* A small instance of Webhook for TLC: two messages of one customer, a    *)
(* delivery report and a notice, in two envelopes that share a message.    *)
EXTENDS Webhook, TLC

CONSTANTS hello, question, delivered, quality, customer, sent1

MCSender == [m \in {hello, question} |-> customer]
MCAt == hello :> 1 @@ question :> 2
MCAbout == delivered :> sent1
MCReport == delivered :> "delivered"
MCEnvelopes == {<<hello, question>>, <<question, delivered, quality>>}
=============================================================================
