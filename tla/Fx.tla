--------------------------------- MODULE Fx ---------------------------------
(***************************************************************************)
(* core/services/fx.py: the historical exchange rate.  An observation      *)
(* [base, quote, day, source, rate] says 1 base = rate quote; day, pair    *)
(* and source identify it, so created_at never decides.  Sources are       *)
(* numbered in the order of their names.                                   *)
(***************************************************************************)
EXTENDS Decimals

MissingRate == 0    \* MissingExchangeRate; a stored rate is positive

\* Mutant: the date of the event does not bound the lookup.
ObservedEver(rates, base, quote, day) ==
  {r \in rates : r.base = base /\ r.quote = quote}

Observed(rates, base, quote, day) ==
  {r \in rates : r.base = base /\ r.quote = quote /\ r.day <= day}

Newest(S) ==
  CHOOSE r \in S : \A s \in S \ {r} : s.day < r.day \/ (s.day = r.day /\ r.source < s.source)

\* get_fx_rate: the newer of the direct and the inverse observation, the
\* direct one on a tie.
FxRate(rates, source, target, day) ==
  LET direct == Observed(rates, source, target, day)
      inverse == Observed(rates, target, source, day)
      useDirect == direct # {} /\ (inverse = {} \/ Newest(direct).day >= Newest(inverse).day)
  IN  CASE source = target -> RateUnit
        [] source # target /\ useDirect -> Newest(direct).rate
        [] source # target /\ ~useDirect /\ inverse # {} ->
             RoundDiv(RateUnit * RateUnit, Newest(inverse).rate)
        [] OTHER -> MissingRate
=============================================================================
