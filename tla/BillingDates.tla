---------------------------- MODULE BillingDates ----------------------------
(***************************************************************************)
(* The dates a subscription is given when it is bought or renewed: the     *)
(* same computation in src/src/payments/payments.service.ts, src/src/      *)
(* payments/services/payment.webhook.service.ts and src/src/payments/      *)
(* services/x402-subscription.service.ts.  Months count from 0, as the     *)
(* Date of JavaScript does; the time of the day is left out.               *)
(***************************************************************************)
EXTENDS Integers

CONSTANT Years  \* the years dates are taken from

ASSUME YearsAssumption == Years \subseteq Nat

-----------------------------------------------------------------------------
(* The calendar.                                                           *)

isLeapYear(year) ==
    \/ year % 4 = 0 /\ year % 100 # 0
    \/ year % 400 = 0

DaysIn(year, month) ==
    CASE month \in {3, 5, 8, 10} -> 30
      [] month = 1 -> IF isLeapYear(year) THEN 29 ELSE 28
      [] OTHER -> 31

IsDate(date) ==
    /\ date \in [year : Nat, month : 0 .. 11, day : 1 .. 31]
    /\ date.day <= DaysIn(date.year, date.month)

Date(year, month, day) == [year |-> year, month |-> month, day |-> day]

(* The month after a month.                                                *)
After(year, month) ==
    IF month = 11 THEN Date(year + 1, 0, 1) ELSE Date(year, month + 1, 1)

(* The setters of Date: a day the month does not have is counted on into   *)
(* the month after it.                                                     *)
Moved(year, month, day) ==
    LET over == After(year, month)
    IN  IF day <= DaysIn(year, month)
        THEN Date(year, month, day)
        ELSE Date(over.year, over.month, day - DaysIn(year, month))

-----------------------------------------------------------------------------
(* A month on: setMonth, and then the day again, or the last day of the    *)
(* month that setMonth has led to.                                         *)
AddMonth(date) ==
    LET next  == After(date.year, date.month)
        moved == Moved(next.year, next.month, date.day)
        last  == DaysIn(moved.year, moved.month)
    IN  [moved EXCEPT !.day = IF date.day > last THEN last ELSE date.day]

(* A year on: setFullYear, and the 28th for a February 29 that the year    *)
(* does not have.                                                          *)
AddYear(date) ==
    LET moved == Moved(date.year + 1, date.month, date.day)
    IN  IF date.month = 1 /\ date.day = 29 /\ ~ isLeapYear(moved.year)
        THEN [moved EXCEPT !.day = 28]
        ELSE moved

calculateNextBillingDate(billingPeriod, date) ==
    CASE billingPeriod = "MONTHLY" -> AddMonth(date)
      [] billingPeriod = "YEARLY" -> AddYear(date)
      [] OTHER -> date

calculateNextResetDate(date) == AddMonth(date)

-----------------------------------------------------------------------------
(* What the comments of the code promise (payment.webhook.service.ts:1096, *)
(* 1108): the same day, or the last day of a month that does not have it.  *)

InMonth(year, month, day) ==
    Date(year, month, IF day > DaysIn(year, month) THEN DaysIn(year, month) ELSE day)

PromisedMonth(date) ==
    LET next == After(date.year, date.month)
    IN  InMonth(next.year, next.month, date.day)

PromisedYear(date) == InMonth(date.year + 1, date.month, date.day)

Dates == {date \in [year : Years, month : 0 .. 11, day : 1 .. 31] : IsDate(date)}

(* The promise is kept exactly when the next month has the day; otherwise  *)
(* the month is left out altogether, and never is a last day taken.        *)
MonthlyAsPromised ==
    \A date \in Dates :
        LET next == After(date.year, date.month)
        IN  IF date.day <= DaysIn(next.year, next.month)
            THEN AddMonth(date) = PromisedMonth(date)
            ELSE LET skipped == After(next.year, next.month)
                 IN  AddMonth(date) = Date(skipped.year, skipped.month, date.day)

(* The promise is kept for every day but February 29, which becomes        *)
(* March 28.                                                               *)
YearlyAsPromised ==
    \A date \in Dates :
        AddYear(date) = IF date.month = 1 /\ date.day = 29
                        THEN Date(date.year + 1, 2, 28)
                        ELSE PromisedYear(date)
=============================================================================
