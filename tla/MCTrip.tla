-------------------------------- MODULE MCTrip ---------------------------------
(* TLC instances of Trip, and the operators of Pricing against what they     *)
(* are documented to compute, over small arguments.                          *)
EXTENDS Trip

Small == 0..6
Least(q, P(_)) == P(q) /\ \A p \in 0..(q - 1) : ~P(p)

\* ceilDiv: "the smallest integer q such that q * denominator >= numerator".
ASSUME CeilDivIsLeast ==
  \A n \in Small, d \in 1..4 : Least(CeilDiv(n, d), LAMBDA q : q * d >= n)

\* AC-R4: charges between successive totals add up to the price of the last one.
ASSUME ChargesAddUp ==
  \A a, b \in Small : a <= b => ExpectedAmount(a) + ChargeDelta(b, a) = ExpectedAmount(b)

\* The converted price is aligned; so is the one rounded down, and no other.
ASSUME ConvertedIsAligned ==
  \A p \in 1..6 : /\ PricesAligned(p, PricePerMibFromPerMb(p))
                  /\ ~PricesAligned(p, PricePerMibFromPerMb(p) + 1)

\* I2: a full wallet, marked up, is paid for by the deposit; one cent more is not.
ASSUME WalletIsBacked ==
  \A dep \in Small :
    LET cents == MaxWalletCents(dep)
    IN  /\ cents * RawPerCent * Markup <= dep * Rate
        /\ cents < MaxCents => (cents + 1) * RawPerCent * Markup > dep * Rate
=============================================================================
