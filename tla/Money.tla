------------------------------- MODULE Money -------------------------------
(***************************************************************************)
(* Money (domain/wallet/entity.go) as the services use it: a signed machine*)
(* integer of money units, made from the floating point amount of a request*)
(* and stored in a DECIMAL column.  Amounts and columns are given in units:*)
(* an amount is what Round(amount * scale) is before it becomes an int64.  *)
(*                                                                         *)
(* Every value that fits the column is below 2^53 units, so Float64, the   *)
(* column and MustMoney give back the units they were given; the values    *)
(* for which floating point rounds are too large for the column.           *)
(***************************************************************************)
EXTENDS Integers

CONSTANTS
    IntMax,     \* math.MaxInt64
    ColumnMax   \* the largest DECIMAL(15,4), in units

\* 2^63 - 1 against 10^15 - 1.
ASSUME MoneyAssumption ==
    /\ IntMax \in Nat /\ ColumnMax \in Nat
    /\ 2 * ColumnMax <= IntMax

(* NewMoney: the values it may return, none for ErrInvalidAmount.  As a    *)
(* float64, MaxInt64 is one more than MaxInt64: that amount passes the     *)
(* test, and converting it to int64 gives the least integer on amd64 and   *)
(* the greatest on arm64.                                                  *)
NewMoney(amount) ==
    IF amount < 0 \/ amount > IntMax + 1 THEN {}
    ELSE IF amount = IntMax + 1 THEN {IntMax, -(IntMax + 1)}
    ELSE {amount}

IsPositive(units) == units > 0

\* Add: int64 addition wraps around; the operands are at most IntMax.
Add(units, other) ==
    IF units + other > IntMax THEN units + other - 2 * (IntMax + 1) ELSE units + other

\* Deduct drops the error of Subtract and is left with the zero Money.
Subtract(units, other) == IF other > units THEN 0 ELSE units - other

\* Mutant: the column is as wide as the integer at its lower end.
FitsAbove(units) == units <= ColumnMax

\* PostgreSQL takes the value; otherwise the statement fails with an overflow.
Fits(units) == -ColumnMax <= units /\ units <= ColumnMax
=============================================================================
