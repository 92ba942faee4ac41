------------------------------- MODULE Money --------------------------------
(***************************************************************************)
(* The arithmetic on amounts in cents that transactions.service.ts does    *)
(* inline.  Amounts are integers; JavaScript computes the quotients in     *)
(* binary floating point and rounds with Math.round, which on the          *)
(* non-negative values used here is "nearest, halves upwards".             *)
(***************************************************************************)
EXTENDS Integers

\* Math.round(n / d) for n >= 0 and d > 0.
RoundedQuotient(n, d) == (2 * n + d) \div (2 * d)

\* Math.min, Math.max and the clamp "if (x < 0) x = 0".
Lesser(a, b) == IF a <= b THEN a ELSE b
Greater(a, b) == IF a >= b THEN a ELSE b
Clamp(x) == IF x < 0 THEN 0 ELSE x

\* The cash and transfer parts of a mixed payment on a debt of `balance`: as
\* requested when the debt covers them, else the cash part scaled to the debt
\* and the transfer part the remainder.
CashPart(cash, transfer, balance) ==
    IF cash + transfer <= balance
    THEN cash
    ELSE RoundedQuotient(cash * balance, cash + transfer)

\* Mutant of TransferPart: both parts are rounded.
TransferPartRounded(cash, transfer, balance) ==
    IF cash + transfer <= balance
    THEN transfer
    ELSE RoundedQuotient(transfer * balance, cash + transfer)

TransferPart(cash, transfer, balance) ==
    Lesser(cash + transfer, balance) - CashPart(cash, transfer, balance)

\* The surcharge of an inflation batch of pct percent on a balance.
Surcharge(balance, pct) == RoundedQuotient(balance * pct, 100)
=============================================================================
