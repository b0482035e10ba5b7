--------------------------- MODULE PaymentRouting ---------------------------
(***************************************************************************)
(* Which provider PaymentGatewayService picks for a request: the scoring   *)
(* of selectProvider, over the tables of the service.  Scores have         *)
(* fractions; they are compared here after multiplication by ten times the *)
(* amount, which makes them whole.  Amounts are whole and positive.        *)
(***************************************************************************)
EXTENDS Integers, Sequences

Known == {"stripe", "razorpay", "paypal", "square", "adyen"}

Currencies ==
    LET common == {"USD", "EUR", "GBP", "CAD", "AUD", "JPY"} IN
    [stripe   |-> common \cup {"INR"},
     razorpay |-> {"INR", "USD"},
     paypal   |-> common,
     square   |-> common \ {"EUR"},
     adyen    |-> common \cup {"INR", "SGD"}]

Methods ==
    LET usual == {"card", "bank_account", "digital_wallet"} IN
    [stripe   |-> usual,
     razorpay |-> usual,
     paypal   |-> usual \ {"card"},
     square   |-> usual \ {"bank_account"},
     adyen    |-> usual \cup {"bnpl"}]

(* The amounts each provider is preferred for; factor is in tenths. *)
Preferred(p) ==
    [stripe   |-> [min |-> 50,   max |-> 999999, factor |-> 10],
     razorpay |-> [min |-> 100,  max |-> 999999, factor |-> 11],
     paypal   |-> [min |-> 1,    max |-> 10000,  factor |-> 9],
     square   |-> [min |-> 1,    max |-> 50000,  factor |-> 10],
     adyen    |-> [min |-> 1000, max |-> 999999, factor |-> 12]][p]

(* Scores in tenths. *)
AmountScore(p, amount) ==
    IF amount < Preferred(p).min THEN 50
    ELSE IF amount > Preferred(p).max THEN 100
    ELSE 20 * Preferred(p).factor

Performance == [stripe |-> 95, razorpay |-> 92, paypal |-> 88, square |-> 90, adyen |-> 94]

(* Fixed fee, and percentage in tenths. *)
Fees ==
    [stripe   |-> [fixed |-> 30, percentage |-> 29],
     razorpay |-> [fixed |-> 0,  percentage |-> 20],
     paypal   |-> [fixed |-> 30, percentage |-> 34],
     square   |-> [fixed |-> 10, percentage |-> 26],
     adyen    |-> [fixed |-> 11, percentage |-> 22]]

(* max(0, 30 - 10 * fee percentage), times ten times the amount. *)
ScaledCost(p, amount) ==
    LET cost == (300 - 10 * Fees[p].percentage) * amount - 10000 * Fees[p].fixed
    IN  IF cost > 0 THEN cost ELSE 0

Required(r) ==
    {"webhooks"}
    \cup (IF r.future THEN {"tokenization", "recurring_payments"} ELSE {})
    \cup (IF r.method = "digital_wallet" THEN {"mobile_payments"} ELSE {})
    \cup (IF r.method = "crypto" THEN {"cryptocurrency"} ELSE {})
    \cup (IF r.method = "bnpl" THEN {"bnpl"} ELSE {})

(* Only the Stripe provider supports features; the stubs answer false. *)
Supports(p, feature) ==
    p = "stripe" /\ feature \notin {"cryptocurrency", "bnpl"}

FeatureScore(p, r) ==
    LET has(f) == IF f \in Required(r) /\ Supports(p, f) THEN 100 ELSE 0
    IN  has("webhooks") + has("tokenization") + has("recurring_payments") + has("mobile_payments")

Score(p, r) ==
    r.amount * (1000 + (IF r.method \in Methods[p] THEN 500 ELSE 0)
                     + AmountScore(p, r.amount) + FeatureScore(p, r) + Performance[p])
    + ScaledCost(p, r.amount)

(* Array.from(scores).sort((a, b) => b - a)[0]: the best score, the provider   *)
(* registered first among equals; registered is the key order of the Map.      *)
Suits(p, r) == r.currency \in Currencies[p]

Best(registered, r) ==
    {registered[i] : i \in {i \in 1..Len(registered) :
        /\ Suits(registered[i], r)
        /\ \A j \in 1..Len(registered) :
              Suits(registered[j], r) =>
                 \/ Score(registered[j], r) < Score(registered[i], r)
                 \/ Score(registered[j], r) = Score(registered[i], r) /\ i <= j}}

=============================================================================
