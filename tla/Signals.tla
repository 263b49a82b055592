-------------------------------- MODULE Signals --------------------------------
(***************************************************************************)
(* The rule strategies of strategies/: what each proposes on one event.    *)
(* An operator takes the event e, the market context c, the facts f that   *)
(* come from histories, tables and configuration no property looks into,   *)
(* and the clock k; the signals it returns are a set of at most one.  What *)
(* a strategy writes into the context is in MarketData.  stop_loss_guard   *)
(* is ExecutionEngine's.                                                   *)
(*                                                                         *)
(* Units.  Flows in crore rupees; GIFT, US, crude and dollar moves in      *)
(* hundredths of a percent; returns r1m, r3m, ret5 and lead in basis       *)
(* points; volr and z in tenths; ibs in hundredths; holdings in hundredths *)
(* of a percent; index volatility in points.  Confidence, rail and reason  *)
(* are left out.                                                           *)
(***************************************************************************)
EXTENDS Integers, FiniteSets

Index == "NIFTYBEES"

Energy == {"ONGC", "RELIANCE", "BPCL", "IOC", "GAIL", "HINDPETRO", "OIL"}

Signal(id, sym, act) == [by |-> id, sym |-> sym, act |-> act]

\* payload.get(key, missing)
Get(e, key, missing) == IF key \in DOMAIN e.p THEN e.p[key] ELSE missing

\* A strategy that buys, or else sells, or else is silent.
Pick(id, sym, buy, sell) ==
  IF buy THEN {Signal(id, sym, "BUY")}
  ELSE IF sell THEN {Signal(id, sym, "SELL")} ELSE {}

\* The same for an event that names its symbol.
OnSymbol(id, e, buy, sell) == IF e.sym = "" THEN {} ELSE Pick(id, e.sym, buy, sell)

\* Only on the events a strategy listens to.
On(types, e, signals) == IF e.type \in types THEN signals ELSE {}

Hedge(id, sym, when) == IF when THEN {Signal(id, sym, "HEDGE")} ELSE {}

Calm   == {"BULL", "RISK_ON", "NEUTRAL"}
Stormy == {"BEAR", "RISK_OFF"}

Distance(a) == IF a < 0 THEN -a ELSE a

-----------------------------------------------------------------------------
(* Macro strategies on the index.                                           *)

\* _score_ctx in hundredths; it stays within its clamp.
Score(c) ==
    (IF c.gift > 15 THEN 15 ELSE IF c.gift < -15 THEN -15 ELSE 0)
  + (IF c.fii > 300 THEN 20 ELSE IF c.fii < -300 THEN -20 ELSE 0)
  + (IF c.us > 30 THEN 10 ELSE 0) - (IF c.crude > 150 THEN 10 ELSE 0)
  - (IF c.usd > 20 THEN 5 ELSE 0)
  + (IF c.vix > 22 THEN -10 ELSE IF c.vix < 14 THEN 5 ELSE 0)

MacroConfluence(e, c) == On({"MACRO", "FII_DII", "OPEN"}, e,
  Pick("macro_confluence", Index,
       Score(c) >= 35 /\ c.gift > 10 /\ c.fii > 200, Score(c) <= -35))

\* Mutant: flows of foreigners read the other way round.
GiftFiiSyncSwapped(e, c) == On({"GIFT", "FII_DII"}, e,
  Pick("gift_fii_sync", Index, c.gift < -25 /\ c.fii < -200, c.gift > 25 /\ c.fii > 0))

GiftFiiSync(e, c) == On({"GIFT", "FII_DII"}, e,
  Pick("gift_fii_sync", Index, c.gift > 25 /\ c.fii > 0, c.gift < -25 /\ c.fii < -200))

GiftGap(e, c) == On({"OPEN", "PREOPEN_PRICE"}, e,
  Pick("gift_gap", Index, c.gift > 40, c.gift < -40))

GiftBasisConvergence(e, c) == On({"OPEN", "PREOPEN_PRICE"}, e,
  Pick("gift_basis_convergence", Index, c.gift <= -15, c.gift >= 15))

UsOvernightFollow(e, c) == On({"OPEN"}, e,
  Pick("us_overnight_follow", Index,
       (c.gift > 25 /\ c.regime \in Calm) \/ (c.gift < -35 /\ c.fii > 0), FALSE))

MondayEffect(e, c, k) == On({"OPEN"}, e,
  Pick("monday_effect_in", Index, k.weekday = 0 /\ c.gift < -20 /\ c.regime \in Calm, FALSE))

TurnaroundTuesday(e, c, k) == On({"OPEN"}, e,
  Pick("turnaround_tuesday", Index,
       /\ k.weekday = 1 /\ (c.gift < -15 \/ c.fii < -150)
       /\ c.regime \notin Stormy, FALSE))

SipFlowSeasonality(e, k) == On({"BAR_1D", "OPEN"}, e,
  Pick("sip_flow_seasonality", Index, k.dom \in 5 .. 18, FALSE))

RiskOff(e) == Get(e, "us", 0) < -50 \/ Get(e, "crude", 0) > 200 \/ Get(e, "usd", 0) > 30

\* paper: TRADING_PHASE is paper_learn.
GlobalRiskBeta(e, paper) == On({"MACRO", "GIFT"}, e,
  Pick("global_risk_beta", Index, FALSE, RiskOff(e) /\ ~paper))

FiiRegime(e) == On({"FII_DII"}, e,
  Hedge("fii_regime", "NIFTY", Get(e, "fii", 0) < -3000 /\ Get(e, "dii", 0) < 0))

RetailContrarianFade(e, c) == On({"PARTICIPANT", "BAR_1D"}, e,
  LET net == IF c.client # 0 THEN c.client ELSE Get(e, "client", 0)
  IN  Pick("retail_contrarian_fade", IF e.sym = "" THEN Index ELSE e.sym,
           net < -1500, net > 1500))

\* The strategy keeps the last five day return, which no 1D bar carries.
NiftyBuyTheDip(e, c) ==
  LET dip == c.dip < -150 /\ c.regime # "RISK_OFF"
  IN  On({"OPEN"}, e, Pick("nifty_buy_the_dip", Index, dip, FALSE))
      \cup On({"BAR_1D"}, e, IF e.sym # Index THEN {}
              ELSE Pick("nifty_buy_the_dip", Index,
                        Get(e, "ret5", 0) < -150 /\ c.regime # "RISK_OFF", FALSE))

SentimentRegime(e, c, f, k) ==
  On({"OPEN"}, e, Pick("sentiment_regime", Index, c.fg <= 22, c.fg >= 78))
  \cup On({"BAR_5M"}, e, IF ~k.open THEN {}
          ELSE OnSymbol("sentiment_regime", e,
                        c.fg <= 20 /\ f.r3m < -40, c.fg >= 80 /\ f.r3m > 50))

OptionsGreeks(e, c, f) ==
  On({"IV"}, e, Hedge("options_greeks", "NIFTY", c.vix > 24))
  \cup On({"BAR_5M"}, e, IF e.sym \notin {Index, "NIFTY"} THEN {}
          ELSE Pick("options_greeks", "NIFTY", FALSE, c.vix >= 14 /\ f.ce))

\* Without a key for the basis in any payload it is silent.
CashFuturesBasis(e) == On({"IV"}, e,
  Pick("cash_futures_basis", e.sym, Get(e, "basis", 0) < -100, Get(e, "basis", 0) > 100))

-----------------------------------------------------------------------------
(* Five minute bars: momentum and breakout.                                 *)

CombinedMomentum(e, c, f) == On({"BAR_5M"}, e,
  Pick("combined_momentum", e.sym,
       f.r3m > 200 /\ f.r3m > f.r1m /\ f.rsi < 72 /\ c.fii > -2000, FALSE))

ShortTermReversal(e) == On({"BAR_5M"}, e,
  Pick("short_term_reversal", e.sym, Get(e, "ret5", 0) < -600, Get(e, "ret5", 0) > 800))

TurtleBreakout(e) == On({"BAR_5M"}, e,
  Pick("turtle_breakout", e.sym,
       e.price > Get(e, "high20", 0) /\ Get(e, "high20", 0) > 0,
       e.price < Get(e, "low20", 0)))

\* roe is in no bar: only RISK_ON lets it through, and then the move decides.
QualityMomentum(e, c, f) == On({"BAR_5M"}, e,
  OnSymbol("quality_momentum", e,
           c.regime = "RISK_ON" /\ f.r1m > 500 /\ Get(e, "roe", 0) = 0, FALSE))

VolumeBreakout(e, f) == On({"BAR_5M"}, e,
  OnSymbol("volume_breakout", e, f.volr >= 20 /\ f.atHigh, FALSE))

BollingerSqueeze(e, f) == On({"BAR_5M"}, e,
  OnSymbol("bollinger_squeeze", e, f.squeeze /\ f.r3m > 30, f.squeeze /\ f.r3m < -30))

DualMomentumPro(e, f) == On({"BAR_5M"}, e,
  OnSymbol("dual_momentum_pro", e,
           f.r1m > 0 /\ f.r3m > 50 /\ 3 * f.r1m > f.r3m /\ f.rsi \in 46 .. 71,
           f.r1m < 0 /\ f.r3m < -50 /\ f.rsi > 75))

VwapVolumeConfirm(e, c, f) == On({"BAR_5M"}, e,
  OnSymbol("vwap_volume_confirm", e, c.flag[e.sym] /\ f.volr >= 15, FALSE))

AdaptiveAlpha(e, c, f) == On({"BAR_5M"}, e,
  LET alpha == 35 * Score(c) + 25 * f.r3m + 100 * (f.volr - 10)
               + (IF f.rsi < 35 THEN 1000 ELSE 0) - (IF f.rsi > 70 THEN 1000 ELSE 0)
  IN  OnSymbol("adaptive_alpha", e, alpha >= 4500, alpha <= -4000))

\* _refresh_winners reads an environment value through a module it never
\* imports: whenever a strategy qualifies it fails, and keeps no winner.
StrategyLab(e, c, f) == On({"BAR_5M"}, e,
  OnSymbol("strategy_lab", e, f.r3m > 60 /\ f.volr > 18 /\ c.fii > 0, FALSE))

SectorRotation(e, c, f) == On({"BAR_5M"}, e,
  OnSymbol("sector_rotation", e,
           f.lead > 40 /\ f.r3m > 0 /\ c.regime \in Calm,
           f.lead < -50 /\ f.r3m < 0 /\ c.regime \in Stormy))

CrabelNr7(e, f) == On({"BAR_5M"}, e,
  OnSymbol("crabel_nr7", e, f.nr7 /\ f.r3m > 30 /\ f.volr >= 12,
                            f.nr7 /\ f.r3m < -30 /\ f.volr >= 12))

MomentumConsensus(e, c, f) == On({"BAR_5M"}, e,
  LET up    == <<f.r3m > 40, f.rsi \in 49 .. 67, f.volr >= 13, f.ema, c.fii > 0>>
      down  == <<f.r3m < -40, f.rsi > 72, ~f.ema, c.fii < -200>>
      long  == Cardinality({i \in DOMAIN up : up[i]})
      short == Cardinality({i \in DOMAIN down : down[i]})
  IN  OnSymbol("momentum_consensus", e,
               long >= 4 /\ c.regime \in Calm, short >= 3 /\ c.regime \in Stormy))

EmaCrossRsi(e, f) == On({"BAR_5M"}, e,
  OnSymbol("ema_cross_rsi", e, f.ema /\ f.rsi \in 43 .. 67 /\ f.r1m > 0,
                               f.ema /\ f.rsi > 72 /\ f.r1m < 0))

AthBreakout(e, c, f) == On({"BAR_5M"}, e,
  OnSymbol("ath_breakout_in", e,
           Get(e, "near", FALSE) /\ f.r3m > 20 /\ f.volr >= 13 /\ c.regime \in Calm, FALSE))

IndiaPowerHour(e, c, f, k) == On({"BAR_5M"}, e,
  IF k.phase # "power_hour" THEN {}
  ELSE OnSymbol("india_power_hour", e,
                f.r3m > 35 /\ f.volr >= 12 /\ c.regime \in Calm, f.r3m < -35 /\ f.volr >= 11))

IndiaOpeningDrive(e, f, k) == On({"BAR_5M"}, e,
  IF k.phase # "opening_drive" THEN {}
  ELSE OnSymbol("india_opening_drive", e,
                f.r1m > 20 /\ f.r3m > 40 /\ f.volr >= 13,
                f.r1m < -20 /\ f.r3m < -40 /\ f.volr >= 12))

IndiaDualRotation(e, c) == On({"BAR_5M", "BAR_1D"}, e,
  LET n == c.rot[Index]  g == c.rot["GOLDBEES"]
  IN  CASE e.sym \notin {Index, "GOLDBEES"} \/ {n, g} \cap {<< >>} # {} -> {}
        [] n[1] > 120 /\ n[1] > g[1] + 50 -> {Signal("india_dual_rotation", Index, "BUY")}
        [] g[1] > 80 /\ g[1] > n[1] + 30  -> {Signal("india_dual_rotation", "GOLDBEES", "BUY")}
        [] OTHER -> {})

-----------------------------------------------------------------------------
(* Five minute bars: reversion, pairs and what reads a table.               *)

FiiDivergence(e, c, f) == On({"BAR_5M"}, e,
  OnSymbol("fii_divergence", e,
           c.fii >= 400 /\ f.r3m < -40 /\ f.rsi < 42 /\ c.regime \in Calm, FALSE))

CrudeEnergyBeta(e, c, f) == On({"BAR_5M"}, e,
  IF e.sym \notin Energy THEN {}
  ELSE Pick("crude_energy_beta", e.sym, c.crude > 200 /\ f.r3m > 0, c.crude < -200 /\ f.r3m < 0))

RsiRegimeAdaptive(e, c, f) == On({"BAR_5M"}, e,
  OnSymbol("rsi_regime_adaptive", e, c.regime \in Calm /\ f.rsi < 38,
           c.regime \in Stormy \cup {"HIGH_VOL"} /\ f.rsi > 68))

ConnorsIbs(e, c, f) == On({"BAR_5M"}, e,
  OnSymbol("connors_ibs", e, f.ibs <= 20 /\ f.rsi < 40 /\ c.regime \in Calm,
                             f.ibs >= 80 /\ f.rsi > 65))

ZScoreReversion(e, c, f) == On({"BAR_5M"}, e,
  OnSymbol("zscore_reversion", e, f.z <= -20 /\ f.volr < 25 /\ c.vix < 24,
                                  f.z >= 20 /\ f.volr < 25))

LiquiditySweep(e) == On({"BAR_5M"}, e,
  LET p == e.p IN
  IF p.high <= p.low THEN {}
  ELSE OnSymbol("liquidity_sweep", e,
                p.low < p.low20 /\ 2 * p.close > p.high + p.low /\ p.close > p.low20,
                p.high > p.high20 /\ 2 * p.close < p.high + p.low /\ p.close < p.high20))

IndiaLunchFade(e, c, f, k) == On({"BAR_5M"}, e,
  IF k.phase # "lunch" THEN {}
  ELSE OnSymbol("india_lunch_fade", e, f.ibs <= 18 /\ f.z <= -12 /\ c.vix < 26,
                                       f.ibs >= 82 /\ f.z >= 12))

LowerHighsFade(e, f) == On({"BAR_5M"}, e,
  OnSymbol("lower_highs_fade", e, FALSE, Get(e, "streak", 0) >= 2 /\ f.rsi < 55))

ExpiryWeekCaution(e, f, k) == On({"BAR_5M"}, e,
  IF ~k.expiry THEN {}
  ELSE LET sell == f.rsi > 72 \/ f.z > 18
       IN  OnSymbol("expiry_week_caution", e, ~sell /\ f.rsi < 32 /\ f.z < -15, sell))

\* The pair of RELIANCE and ONGC; its z-score is over their last 30 prices.
PairsStatArb(e, f) == On({"BAR_5M", "TICK"}, e,
  IF e.sym \notin {"RELIANCE", "ONGC"} \/ (e.type = "BAR_5M" /\ f.volr < 12) THEN {}
  ELSE Pick("pairs_stat_arb", e.sym, f.pairz < -20, f.pairz > 20))

AsmGsmEntry(e, f) == On({"BAR_5M"}, e,
  IF f.asm THEN {Signal("asm_gsm_entry", e.sym, "SELL")} ELSE {})

Proximity52wHigh(e, f) == On({"BAR_1D"}, e, OnSymbol("proximity_52w_high", e, f.near52, FALSE))

LowVolAnomaly(e, f) == On({"BAR_1D"}, e, OnSymbol("low_vol_anomaly", e, f.quiet, FALSE))

DeliveryConviction(e, f) == On({"VOLUME"}, e,
  OnSymbol("delivery_conviction", e, Get(e, "delivery", 0) >= 65 /\ f.upday, FALSE))

\* custom_gap_fade, the rule of config.yaml, as CustomRuleStrategy reads it.
CustomGapFade(e, c, f) == On({"BAR_5M"}, e,
  OnSymbol("custom_gap_fade", e, f.r3m < -80 /\ f.rsi < 38 /\ c.fii > 0, FALSE))

-----------------------------------------------------------------------------
(* Ticks.                                                                   *)

OpeningRange(e, c) == On({"TICK"}, e,
  LET hi == c.orbHi[e.sym]  lo == c.orbLo[e.sym]
  IN  IF hi <= lo \/ lo = 0 THEN {}
      ELSE OnSymbol("opening_range", e, e.price > hi, e.price < lo))

AffordableMomentum(e, c, f, paper) == On({"TICK"}, e,
  LET open == c.open[e.sym]
      move == 100000 * (e.price - open)
  IN  IF ~f.afford \/ open = 0 THEN {}
      ELSE OnSymbol("affordable_momentum", e,
                    move >= (IF paper THEN 100 ELSE 220) * open,
                    move <= -280 * open /\ f.held))

VwapReversion(e, c) == On({"TICK", "VWAP_CROSS"}, e,
  LET vwap == c.vwap[e.sym]
  IN  IF vwap = 0 THEN {}
      ELSE OnSymbol("vwap_reversion", e, 1000 * (e.price - vwap) < -15 * vwap,
                                         1000 * (e.price - vwap) > 15 * vwap))

ExpiryGamma(e, c, k) == On({"TICK"}, e,
  Hedge("expiry_gamma", e.sym,
        k.weekday = 3 /\ e.sym \in {"NIFTY", "BANKNIFTY", Index} /\ c.vix > 20))

IvPremiumSell(e, c, f) == On({"TICK"}, e,
  Hedge("iv_premium_sell", e.sym, c.vix >= 22 /\ f.held))

\* Neither ticks nor bars carry their circuit limits.
CircuitBandFlow(e) == On({"TICK", "BAR_5M"}, e,
  LET upper == Get(e, "upper", 0)  lower == Get(e, "lower", 0)
  IN  IF upper = 0 THEN {}
      ELSE OnSymbol("circuit_band_flow", e, 100 * (upper - e.price) < 2 * upper,
                    lower > 0 /\ 100 * (e.price - lower) < 2 * e.price))

-----------------------------------------------------------------------------
(* Filings, deals and news.  A text is its category and the words in it     *)
(* that some rule looks for.                                                *)

Has(e, word) == word \in Get(e, "words", {})

BulkAccumulation(e) == On({"BLOCK"}, e,
  OnSymbol("bulk_accumulation", e, e.p.big /\ e.p.side = "buy", FALSE))

BulkDistribution(e) == On({"BLOCK"}, e,
  OnSymbol("bulk_distribution", e, FALSE, e.p.big /\ e.p.side = "sell"))

InsiderCluster(e) == On({"INSIDER"}, e,
  OnSymbol("insider_cluster", e, e.p.side = "buy" /\ e.p.promoter, FALSE))

InstitutionalFlow(e) ==
  On({"SHARES"}, e, OnSymbol("institutional_flow", e,
     \E d \in {"mf", "fiiShare", "public", "promoterShare"} : Get(e, d, 0) >= 25, FALSE))
  \cup On({"MF"}, e, OnSymbol("institutional_flow", e, Get(e, "dealSide", "buy") = "buy", FALSE))

\* The shareholding poller computes no change of pledged shares.
PromoterPledge(e) == On({"SHARES"}, e,
  OnSymbol("promoter_pledge_signal", e, FALSE, Get(e, "pledge", 0) > 50))

EarningsVol(e, c) == On({"NEWS"}, e,
  CASE e.sym = "" -> {}
    [] Get(e, "cat", "") = "dividend" -> {Signal("earnings_vol", e.sym, "BUY")}
    [] Has(e, "result") -> {Signal("earnings_vol", e.sym, IF c.vix > 18 THEN "HEDGE" ELSE "SELL")}
    [] OTHER -> {})

CalendarActivity(e, c, k) == On({"CORP", "BOARD", "CALENDAR", "BSE", "NEWS"}, e,
  LET cat == Get(e, "cat", "") IN
  IF ~k.open /\ e.type # "NEWS" THEN {}
  ELSE OnSymbol("calendar_activity", e,
         \/ cat \in {"dividend", "buyback"} /\ e.type \in {"CORP", "NEWS"}
         \/ cat \in {"split", "bonus"} /\ e.type = "CORP"
         \/ cat = "earnings" /\ e.type \in {"BOARD", "NEWS"} /\ c.fg < 35,
         cat = "earnings" /\ e.type \in {"BOARD", "NEWS"} /\ c.fg > 72))

IndexReconstitution(e) == On({"NEWS"}, e,
  OnSymbol("index_reconstitution", e, Has(e, "index") /\ Has(e, "add"), Has(e, "index")))

FoBanUnwind(e) == On({"NEWS", "FUT_OI"}, e,
  OnSymbol("fo_ban_unwind", e, FALSE,
           IF e.type = "NEWS" THEN Has(e, "ban") ELSE Get(e, "mwpl", FALSE)))

PeadContinuation(e) == On({"CORP"}, e,
  OnSymbol("pead_continuation", e, Has(e, "result") /\ Has(e, "beat"),
                                   Has(e, "result") /\ Has(e, "miss")))

RegulatoryCatalyst(e) == On({"NEWS", "CALENDAR"}, e,
  Pick("regulatory_catalyst", IF e.sym = "" THEN Index ELSE e.sym, Has(e, "sebi"), FALSE))

-----------------------------------------------------------------------------
\* StrategyRegistry.dispatch over the enabled strategies: it has no handler of
\* its own, one exception takes the signals of all with it.
RuleSignals(e, c, f, k, paper) == UNION {
  MacroConfluence(e, c), GiftFiiSync(e, c), GiftGap(e, c), GiftBasisConvergence(e, c),
  UsOvernightFollow(e, c), MondayEffect(e, c, k), TurnaroundTuesday(e, c, k),
  SipFlowSeasonality(e, k), GlobalRiskBeta(e, paper), FiiRegime(e),
  RetailContrarianFade(e, c), NiftyBuyTheDip(e, c), SentimentRegime(e, c, f, k),
  OptionsGreeks(e, c, f), CashFuturesBasis(e),
  CombinedMomentum(e, c, f), ShortTermReversal(e), TurtleBreakout(e),
  QualityMomentum(e, c, f), VolumeBreakout(e, f), BollingerSqueeze(e, f),
  DualMomentumPro(e, f), VwapVolumeConfirm(e, c, f), AdaptiveAlpha(e, c, f),
  StrategyLab(e, c, f), SectorRotation(e, c, f), CrabelNr7(e, f),
  MomentumConsensus(e, c, f), EmaCrossRsi(e, f), AthBreakout(e, c, f),
  IndiaPowerHour(e, c, f, k), IndiaOpeningDrive(e, f, k), IndiaDualRotation(e, c),
  FiiDivergence(e, c, f), CrudeEnergyBeta(e, c, f), RsiRegimeAdaptive(e, c, f),
  ConnorsIbs(e, c, f), ZScoreReversion(e, c, f), LiquiditySweep(e),
  IndiaLunchFade(e, c, f, k), LowerHighsFade(e, f), ExpiryWeekCaution(e, f, k),
  PairsStatArb(e, f), AsmGsmEntry(e, f), Proximity52wHigh(e, f), LowVolAnomaly(e, f),
  DeliveryConviction(e, f), CustomGapFade(e, c, f),
  OpeningRange(e, c), AffordableMomentum(e, c, f, paper), VwapReversion(e, c),
  ExpiryGamma(e, c, k), IvPremiumSell(e, c, f), CircuitBandFlow(e),
  BulkAccumulation(e), BulkDistribution(e), InsiderCluster(e), InstitutionalFlow(e),
  PromoterPledge(e), EarningsVol(e, c), CalendarActivity(e, c, k),
  IndexReconstitution(e), FoBanUnwind(e), PeadContinuation(e), RegulatoryCatalyst(e)}
=============================================================================
