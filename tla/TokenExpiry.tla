----------------------------- MODULE TokenExpiry -----------------------------
(***************************************************************************)
(* When a password-reset token expires:                                    *)
(* PasswordResetTokenServiceImpl.createPasswordResetTokenForUser computes  *)
(* the date, the column expiry_date stores it, validatePasswordResetToken  *)
(* compares it with the clock.                                             *)
(*                                                                         *)
(* Times are counted in equal ticks from a midnight of the server's local  *)
(* clock; Day is the number of ticks in a day, Offset what the local clock *)
(* is ahead of UTC.                                                        *)
(***************************************************************************)
EXTENDS Integers

CONSTANTS
    Day,     \* ticks in a day
    Offset   \* local time minus UTC, negative in the Americas

ASSUME DayAssumption == Day \in Nat \ {0}

ASSUME OffsetAssumption == Offset \in Int /\ -Day < Offset /\ Offset < Day

\* PasswordResetTokenEntity.EXPIRATION, a day
Expiration == Day

\* Mutant: the local time is converted with the local offset.
ExpiryDateConverted(issued) == (issued + Expiration) \div Day

\* LocalDateTime.now().plusMinutes(EXPIRATION) is read as if it were UTC, so
\* the instant is off by Offset; the column of type date then keeps the day
\* that instant falls on by the local clock, and drops the time of day.
ExpiryDate(issued) == (issued + Expiration + Offset) \div Day

\* The date is read back as its first instant, local midnight.
Expired(date, now) == date * Day - now <= 0

=============================================================================
