------------------------------- MODULE MCLedger -------------------------------
(* Small instances of Ledger for TLC.                                      *)
EXTENDS Ledger, TLC

CONSTANTS c1, c2, c3, k1, k2, k3, u1, g1

R(op, k, amount, part) ==
  [op |-> op, key |-> k, user |-> u1, chama |-> g1, amount |-> amount, part |-> part]

Raw(k, postings) ==
  [op |-> "transfer", key |-> k, user |-> u1, chama |-> g1, postings |-> postings]

Reversal(k, of) == [op |-> "reversal", key |-> k, of |-> of]

Nothing == Reversal(k3, k3)          \* finds no rows and throws

InFlight(a, b, c) == (c1 :> a) @@ (c2 :> b) @@ (c3 :> c)

(* One key with two meanings; a reversal racing what it reverses; a loan's *)
(* two sides; a payout retried; legs a caller built wrongly; and two       *)
(* postings of one key with its reversal.                                  *)
Mixed ==
  { InFlight(R("contribution", k1, 2, 0), R("donation", k1, 2, 1), Nothing),
    InFlight(R("donation", k1, 1, 0), Reversal(k2, k1), Nothing),
    InFlight(R("disbursement", k1, 1, 0), R("repayment", k2, 0, 1), Nothing),
    InFlight(R("payout", k1, 1, 0), R("payout", k1, 1, 0), Nothing),
    InFlight(Raw(k1, << Debit(Clearing, 2), Credit(FeeRevenue, 1) >>),
             Raw(k2, << Debit(Clearing, 1),
                        [account |-> Clearing, debit |-> 1, credit |-> 2] >>),
             Reversal(k1, k2)),
    InFlight(Raw(k1, << Debit(Clearing, 1), Credit(FeeRevenue, 1) >>),
             Raw(k1, << Debit(Clearing, 2), Credit(FeeRevenue, 2) >>),
             Reversal(k2, k1)) }

(* A loan lent and repaid.                                                 *)
Loan ==
  { InFlight(R("disbursement", k1, 1, 0), R("repayment", k2, 1, 0), Nothing) }

Requests ==
  UNION { { w[c] : c \in Call } : w \in Mixed \cup Loan }
===============================================================================
