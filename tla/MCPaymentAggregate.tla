------------------------- MODULE MCPaymentAggregate -------------------------
(* Amounts of tenths and their sums, off by a hundredth, and invalid ones.  *)
EXTENDS PaymentAggregate

DecimalAmounts == {-10, 0, 10, 30, 40, 60}
DecimalRefunds == {-10, 0, 10, 20, 30, 40, 50, 60, 70}

=============================================================================
