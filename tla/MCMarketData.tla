------------------------------ MODULE MCMarketData ------------------------------
(* Instances of MarketData: what the sources may show.                       *)
EXTENDS MarketData

Bare == [none |-> 0]
E(type, sym, price, p) == [type |-> type, sym |-> sym, price |-> price, p |-> p]

Flow(fii, dii) == E("FII_DII", "", 0, [fii |-> fii, dii |-> dii])
Gift(x)        == E("GIFT", "", 0, [gift |-> x])
Text(type, cat, words) == E(type, "ONGC", 0, [cat |-> cat, words |-> words])
Deal(side)     == E("BLOCK", "ONGC", 0, [side |-> side, big |-> TRUE])
Bar(sym, high, close) ==
  E("BAR_5M", sym, close, [high |-> high, low |-> 9900, close |-> close,
     high20 |-> high, low20 |-> 9900, near |-> close = high, streak |-> 2, ret5 |-> -700])

MCContents == [src \in Sources |->
  CASE src \in {"fii", "akshare"} -> {<<Flow(-4000, -500)>>, <<Flow(600, 400)>>}
    [] src = "gift"    -> {<<Gift(50)>>, <<Gift(-50)>>}
    [] src = "macro"   -> {<<E("MACRO", "", 0, [us |-> -60, crude |-> 250, usd |-> 40, vix |-> 25]),
                             E("IV", "INDIA VIX", 0, [vix |-> 25])>>,
                           <<E("MACRO", "", 0, [us |-> 50, crude |-> -20, usd |-> 0, vix |-> 0])>>}
    [] src = "llm"     -> {<<E("LLM", "", 0, [bias |-> 80])>>, <<E("LLM", "", 0, [bias |-> -80])>>}
    [] src = "options" -> {<<E("IV", "", 0, [vix |-> 27])>>}
    [] src = "futures" -> {<<E("FUT_OI", "NIFTY_FUT", 0, Bare)>>}
    [] src = "shareholding" -> {<<E("SHARES", "ONGC", 0, [mf |-> 30])>>}
    [] src = "delivery" -> {<<E("VOLUME", "ONGC", 0, [delivery |-> 70])>>}
    [] src = "screener" -> {<<Text("NEWS", "", {"result"})>>}
    [] src = "bulk"    -> {<<Deal("buy"), E("MF", "ONGC", 0, [dealSide |-> "buy"])>>, <<Deal("sell")>>}
    [] src = "insider" -> {<<E("INSIDER", "ONGC", 0, [side |-> "buy", promoter |-> TRUE])>>}
    [] src = "bse"     -> {<<Text("BSE", "dividend", {})>>}
    [] src = "rss"     -> {<<Text("NEWS", "earnings", {"index", "add", "sebi"})>>,
                           <<Text("NEWS", "dividend", {"ban"})>>}
    [] src = "corp"    -> {<<Text("CORP", "bonus", {"result", "beat"})>>,
                           <<Text("CORP", "", {"result", "miss"})>>}
    [] src = "board"   -> {<<Text("BOARD", "earnings", {})>>}
    [] src = "calendar" -> {<<E("CALENDAR", "", 0, [cat |-> "", words |-> {"sebi"}])>>}
    [] src = "participant" -> {<<E("PARTICIPANT", "", 0, [client |-> 200000, fiiOi |-> -150000])>>,
                               <<E("PARTICIPANT", "", 0, [client |-> -90000, fiiOi |-> 50000])>>}
    [] src = "preopen" -> {<<E("PREOPEN_PRICE", "ONGC", 10000, Bare), E("PREOPEN_PRICE", Index, 10050, Bare)>>}
    [] src = "session" -> {<<E("PRE_OPEN", "", 0, Bare)>>, <<E("OPEN", "", 0, Bare)>>,
                           <<E("CLOSE", "", 0, Bare)>>}
    [] src = "ticker"  -> {<<Bar("ONGC", 10100, 10100)>>, <<Bar(Index, 10000, 9950)>>,
                           <<E("TICK", "ONGC", 10300, Bare), E("VWAP_CROSS", "ONGC", 10300, [above |-> TRUE])>>,
                           <<E("TICK", "ONGC", 9600, Bare)>>,
                           <<E("BAR_1D", "GOLDBEES", 9000, [close |-> 9000])>>}]

\* A strong market, a weak one, and a quiet one.
Fact(r1m, r3m, rsi, volr, z, up) ==
  [r1m |-> r1m, r3m |-> r3m, rsi |-> rsi, volr |-> volr, z |-> z, pairz |-> z,
   ibs |-> IF up THEN 85 ELSE 15, lead |-> IF up THEN 60 ELSE -60,
   nr7 |-> TRUE, ema |-> up, squeeze |-> TRUE, atHigh |-> up, ce |-> up, asm |-> ~up,
   near52 |-> up, quiet |-> up, upday |-> up, afford |-> TRUE, held |-> ~up]
MCFacts == {Fact(60, 90, 60, 25, 22, TRUE), Fact(-60, -90, 30, 12, -22, FALSE)}

Clock(phase, weekday, expiry) ==
  [phase |-> phase, open |-> phase # "closed", weekday |-> weekday, dom |-> 10, expiry |-> expiry]
MCClocks == {Clock("power_hour", 0, FALSE), Clock("lunch", 3, TRUE), Clock("opening_drive", 1, FALSE)}

Plan(srcs, row, poll, fault) == [sources |-> srcs, row |-> row, poll |-> poll, fault |-> fault]

\* Every source alone with two rows and a fault, and those that meet in the
\* context together.
MCPlans ==
  {Plan({src}, 2, 0, 1) : src \in Kept} \cup {Plan({src}, 0, 1, 0) : src \in Sources \ Kept}
  \cup {Plan({"bulk"}, 2, 2, 1), Plan({"rss"}, 3, 0, 0), Plan({"fii", "gift"}, 3, 0, 0), Plan({"fii", "macro"}, 2, 2, 0),
        Plan({"fii", "akshare"}, 2, 0, 1), Plan({"preopen", "ticker"}, 1, 2, 0),
        Plan({"session", "llm"}, 1, 1, 0), Plan({"desk", "ticker"}, 2, 1, 1)}
=============================================================================
