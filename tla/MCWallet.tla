------------------------------ MODULE MCWallet ------------------------------
(* A wallet small enough to exhaust: rates of one and two points against a *)
(* welcome grant of two, so that any two reservations compete; two quotes  *)
(* of one document, so that a retry can reserve it twice.                  *)
EXTENDS Wallet

CONSTANTS c1, c2, answer, exam, q1, q2, doc, pass1, purchase, adjust

MCUsagePoints == [u \in Usages |-> IF u = exam THEN 2 ELSE 1]
MCQuoteDoc    == [q \in Quotes |-> doc]
MCQuotePoints == [q \in Quotes |-> IF q = q1 THEN 1 ELSE 2]
MCAllowance   == [p \in Passes |-> 1]
MCCredit      == [r \in Credits |-> 1]
MCDebit       == [r \in Debits |-> 1]
=============================================================================
