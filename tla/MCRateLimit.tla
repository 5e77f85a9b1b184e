---------------------------- MODULE MCRateLimit ----------------------------
EXTENDS RateLimit, TLC
MCOffset == [g \in Gateways |-> IF g = "ahead" THEN 1 ELSE 0]
MCLen == [rpm |-> 4, rph |-> 5, rpd |-> 6]
Lim(rpm, rph, rpd) == [rpm |-> rpm, rph |-> rph, rpd |-> rpd]
MCPlans == {Lim(0, 0, 0), Lim(1, 0, 0)}
Conf(s, limits, usePlan) ==
  [strategy |-> s, limits |-> limits, burst |-> 0, refill |-> 0, plan |-> usePlan]
\* A bucket of one token, full again after two ticks and gone after four.
Small == [Conf("token_bucket", Lim(1, 0, 0), FALSE) EXCEPT !.burst = 1, !.refill = 2]
MCConfigs ==
  {Conf("sliding_window", Lim(1, 0, 2), FALSE), Conf("sliding_window", Lim(0, 2, 0), FALSE),
   Conf("sliding_window", Lim(0, 0, 0), TRUE), Conf("fixed_window", Lim(2, 0, 0), FALSE),
   Conf("token_bucket", Lim(2, 0, 0), FALSE), Small}
\* Six requests, so that three counters of two could be filled.
MCMaxTotal == [c \in MCConfigs |-> IF c.strategy = "fixed_window" THEN 6 ELSE 4]
MCSymmetry == Permutations(Slots)
=============================================================================
