--------------------------------- MODULE Regime ---------------------------------
(***************************************************************************)
(* The market regime: the classifier of agent/regime_classifier.py, the    *)
(* tilt by foreign flows, the shock test and the persistence of            *)
(* agent/regime_change_detector.py, and the strategies a regime lets       *)
(* through.  Returns are in basis points, closes in paise, flows in crore. *)
(***************************************************************************)
EXTENDS Integers, Sequences, SequencesExt

CONSTANTS
  MinReturns,   \* returns the classifier asks for (5)
  MinCloses,    \* closes the price rule asks for, and its short mean (10)
  TrailRows,    \* closes the trailing volatility asks for (30)
  PersistBars   \* REGIME_PERSIST_BARS (3)

ASSUME RegimeAssumption ==
  /\ MinReturns \in Nat \ {0, 1} /\ MinCloses \in Nat \ {0}
  /\ TrailRows \in Nat \ {0, 1} /\ PersistBars \in Nat \ {0}

Buckets == {"BULL", "BEAR", "SIDEWAYS", "HIGH_VOL"}
Labels  == Buckets \cup {"NEUTRAL", "RISK_ON", "RISK_OFF"}

Total(s)    == FoldLeft(LAMBDA a, b : a + b, 0, s)
Squares(s)  == FoldLeft(LAMBDA a, b : a + b * b, 0, s)
Latest(n, s) == SubSeq(s, IF Len(s) > n THEN Len(s) - n + 1 ELSE 1, Len(s))

\* s with x behind it, at most n of them.
Push(n, s, x) == Latest(n, Append(s, x))

Returns(closes) ==
  [i \in 1 .. Len(closes) - 1 |-> (10000 * (closes[i + 1] - closes[i])) \div closes[i]]

NormalRegime(r) ==
  CASE r = "RISK_ON" -> "BULL" [] r = "RISK_OFF" -> "BEAR"
    [] r = "NEUTRAL" -> "SIDEWAYS" [] OTHER -> r

\* classify_regime: volatility first, then the mean of at most 20 returns.
Classify(returns, vix) ==
  LET r == Latest(20, returns)  n == Len(r)
  IN  IF Len(returns) < MinReturns THEN "SIDEWAYS"
      ELSE IF vix > 22 \/ n * Squares(r) - Total(r) * Total(r) > 31111 * n * n THEN "HIGH_VOL"
      ELSE IF Total(r) > 10 * n THEN "BULL"
      ELSE IF Total(r) < -10 * n THEN "BEAR" ELSE "SIDEWAYS"

\* classify_regime_from_prices: the short mean 1.5 % away from the long one.
FromPrices(closes, vix) ==
  LET short == Latest(MinCloses, closes)
      long  == IF Len(closes) >= 50 THEN Latest(50, closes) ELSE closes
      gap   == 1000 * (Total(short) * Len(long) - Total(long) * Len(short))
      step  == 15 * Total(long) * Len(short)
  IN  IF Len(closes) < MinCloses THEN "SIDEWAYS"
      ELSE IF vix > 22 THEN "HIGH_VOL"
      ELSE IF gap > step THEN "BULL" ELSE IF gap < -step THEN "BEAR" ELSE "SIDEWAYS"

\* The closes recent_index_closes finds: five minute bars, else daily ones.
RecentCloses(five, day) ==
  IF Len(five) >= MinCloses THEN Latest(60, five)
  ELSE IF Len(day) >= MinCloses THEN Latest(60, day) ELSE << >>

\* refresh_ctx_regime before the tilt: returns of this life, else closes of
\* the database, else the few returns the database gives.
RawRegime(returns, five, day, vix) ==
  LET closes == RecentCloses(five, day)
  IN  IF Len(returns) >= MinReturns THEN Classify(returns, vix)
      ELSE IF closes # << >> THEN FromPrices(closes, vix)
      ELSE Classify(Returns(Latest(25, five)), vix)

\* apply_fii_regime_nudge.
Nudge(label, fii) ==
  LET r == NormalRegime(label)
  IN  IF fii < -500 THEN (IF r = "BULL" THEN "SIDEWAYS" ELSE "BEAR")
      ELSE IF fii > 500 /\ r = "BEAR" THEN "SIDEWAYS"
      ELSE IF fii > 500 /\ r = "SIDEWAYS" THEN "BULL" ELSE r

\* check_regime_shock: the last three returns against twice the trailing
\* volatility (15 % a year while closes are few), or 35 basis points.
Shock(returns, five) ==
  LET r    == Latest(3, returns)
      past == Returns(five)
      spike == IF Len(five) < TrailRows THEN Squares(r) >= 458 * Len(r)
               ELSE /\ Squares(r) * Len(past) > 4 * Squares(past) * Len(r)
                    /\ Squares(r) >= 51 * Len(r)
  IN  \/ Len(r) >= 2 /\ spike
      \/ Total(r) >= 35 \/ Total(r) <= -35

\* Mutant: the count is kept while the label is the one in force.
PersistKeepsCount(st, raw, shock) ==
  LET count == IF st.pending = raw THEN st.count + 1 ELSE 1
  IN  IF st.regime = "NEUTRAL" THEN [st EXCEPT !.regime = raw]
      ELSE IF raw = st.regime THEN st
      ELSE IF count >= (IF shock THEN 1 ELSE PersistBars)
           THEN [regime |-> raw, pending |-> "none", count |-> 0]
      ELSE [st EXCEPT !.pending = raw, !.count = count]

\* apply_regime_persistence: from NEUTRAL at once, without a reset of what
\* was pending.
Persist(st, raw, shock) ==
  LET count == IF st.pending = raw THEN st.count + 1 ELSE 1
  IN  IF st.regime = "NEUTRAL" THEN [st EXCEPT !.regime = raw]
      ELSE IF raw = st.regime THEN [st EXCEPT !.pending = "none", !.count = 0]
      ELSE IF count >= (IF shock THEN 1 ELSE PersistBars)
           THEN [regime |-> raw, pending |-> "none", count |-> 0]
      ELSE [st EXCEPT !.pending = raw, !.count = count]

-----------------------------------------------------------------------------
\* regime_strategy_whitelist.
Whitelist(regime) ==
  LET core == {
        "macro_confluence", "gift_fii_sync", "volume_breakout", "bollinger_squeeze",
        "dual_momentum_pro", "fii_divergence", "vwap_volume_confirm", "crude_energy_beta",
        "rsi_regime_adaptive", "adaptive_alpha", "strategy_lab", "sector_rotation",
        "options_greeks", "signal_combiner", "connors_ibs", "crabel_nr7",
        "zscore_reversion", "momentum_consensus", "ema_cross_rsi", "liquidity_sweep",
        "turnaround_tuesday", "india_power_hour", "india_lunch_fade",
        "india_opening_drive", "nifty_buy_the_dip", "india_dual_rotation",
        "ath_breakout_in", "lower_highs_fade", "us_overnight_follow",
        "expiry_week_caution", "monday_effect_in", "calendar_activity",
        "sentiment_regime", "stop_loss_guard", "fii_regime", "opening_range",
        "affordable_momentum", "fast_snapshot", "vwap_reversion", "pairs_stat_arb"}
      trend == {"combined_momentum", "turtle_breakout", "gift_gap", "quality_momentum",
                "bulk_accumulation", "insider_cluster"}
      r == NormalRegime(regime)
  IN  core \cup (CASE r = "BULL"     -> trend
                   [] r = "BEAR"     -> {"short_term_reversal", "iv_premium_sell",
                                         "global_risk_beta", "cash_futures_basis", "expiry_gamma"}
                   [] r = "HIGH_VOL" -> {"iv_premium_sell", "expiry_gamma", "earnings_vol",
                                         "global_risk_beta"}
                   [] OTHER          -> trend \cup {"short_term_reversal"})
=============================================================================
