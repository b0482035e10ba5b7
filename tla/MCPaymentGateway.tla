-------------------------- MODULE MCPaymentGateway --------------------------
(* Instances of PaymentGateway. *)
EXTENDS PaymentGateway, TLC

CONSTANTS c1, c2, k1, none

TwoCalls == {c1, c2}

Request(amount, key, manual, confirm) ==
    [amount |-> amount, currency |-> "EUR", method |-> "card", future |-> FALSE,
     key |-> key, manual |-> manual, confirm |-> confirm]

(* A keyed payment, one without a key, and one to be captured by hand; amounts *)
(* are small enough to refund and capture in parts.                            *)
MCRequests == {Request(2, k1, FALSE, TRUE), Request(2, none, TRUE, TRUE), Request(2, none, FALSE, FALSE)}
PlainRequests == {Request(2, none, FALSE, TRUE)}
MCParts == {0, 1, 2}

(* The defaults of the service, and a configuration that falls back to Stripe. *)
DefaultListed == <<"stripe", "razorpay", "paypal">>
DefaultFallbacks == <<"paypal", "square">>
TwoListed == <<"stripe", "paypal">>
StripeFallback == <<"paypal", "stripe">>

AllFaults == {"publish", "lost", "setup"}
PublishOnly == {"publish"}
=============================================================================
