--------------------------------- MODULE MCBars ---------------------------------
(* A day of four slots for Bars: two bars of a quarter of an hour in it.     *)
EXTENDS Bars

MCSpans == [i \in {"BAR_5M", "BAR_15M", "BAR_1D"} |->
              CASE i = "BAR_5M" -> 1 [] i = "BAR_15M" -> 2 [] i = "BAR_1D" -> 4]

\* Both sell hard; inflows that tilt the label.
MCFlows == {-4000, 600}

\* Many ticks, or faults around the recorder, or news around the regime.
Plan(syms, tick, news, fault) == [syms |-> syms, tick |-> tick, news |-> news, fault |-> fault]
MCPlans == {Plan({Index}, 4, 0, 1), Plan({Index, "ONGC"}, 3, 0, 0),
            Plan({Index}, 3, 1, 0), Plan({Index}, 1, 4, 0)}
=============================================================================
