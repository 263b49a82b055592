--------------------------- MODULE BudgetGateProofs ---------------------------
(***************************************************************************)
(* Safety of BudgetGate for every amount of money, every horizon and every *)
(* bound on crashes.                                                       *)
(***************************************************************************)
EXTENDS BudgetGate, FiniteSetTheorems, TLAPS

\* The constants' types, one by one: a leaf cites what it needs.
LEMMA Amounts ==
  EnvMin \in Nat /\ EnvMax \in Nat /\ MaxCost \in Nat /\ Slip \in Nat /\ Fee \in Nat
BY BudgetGateAssumption

(* An approved maximum is a number.                                         *)
LEMMA ApprovalsType == ASSUME NEW a \in Approvals PROVE a \in Nat
BY BudgetGateAssumption

(* So is the cost of an order.                                              *)
LEMMA CostType == ASSUME NEW cost \in 1..MaxCost PROVE cost \in Nat
BY Amounts

(* And the slippage of an order, which the constant Slip bounds.            *)
LEMMA SlipType == ASSUME NEW slip \in 0..Slip PROVE slip \in Nat /\ slip <= Slip
BY Amounts

\* The larger of two integers, the first of them an amount.
LEMMA MaxOfType == ASSUME NEW a \in Nat, NEW b \in Int PROVE MaxOf(a, b) \in Nat
BY DEF MaxOf

\* The ceiling is an amount of money.
LEMMA CeilingType ==
  ASSUME NEW p \in Nat, NEW a \in Nat
  PROVE  Ceiling(p, a) \in Nat
BY DEF Ceiling

\* The peak stays an amount of money, and above the ceiling in force.
LEMMA PeakCovers ==
  ASSUME peak \in Nat, pool' \in Nat, approved' \in Nat, NotePeak
  PROVE  /\ peak' \in Nat
         /\ peak' >= peak
         /\ EffectiveDailyMax' <= peak'
<1>1. EffectiveDailyMax' \in Nat
  BY CeilingType DEF EffectiveDailyMax
<1>2. peak' = IF peak >= EffectiveDailyMax' THEN peak ELSE EffectiveDailyMax'
  BY DEF NotePeak, MaxOf, EffectiveDailyMax
<1> QED
  BY <1>1, <1>2

\* The initial state.
LEMMA InitBudget == Init => TypeOK /\ CapInv /\ OnceInv
<1> SUFFICES ASSUME Init PROVE TypeOK /\ CapInv /\ OnceInv
  OBVIOUS
<1>1. TypeOK
  <2>1. bus \in Seq({"closed", "preopen", "open", "fill"})
    BY DEF Init
  <2>2. cli \in [Clients -> Nat]
    BY DEF Init
  <2>3. approved \in Nat /\ peak \in Nat
    BY Amounts DEF Init
  <2>4. /\ day \in Nat /\ amt \in Nat /\ pool \in Nat /\ stipendDay \in Nat
        /\ rolledDay \in Nat /\ deployed \in Int /\ owed \in Int
        /\ credits \in Nat /\ rolls \in Nat /\ crashes \in Nat
    BY DEF Init
  <2>5. /\ manual \in BOOLEAN /\ market \in {"night", "preopen", "open", "post"}
        /\ up \in BOOLEAN /\ seen \in {"none", "closed", "preopen", "open"}
        /\ pc \in {"idle", "checked", "recorded", "stipend", "stipend day",
                   "rollover", "rollover day"}
    BY DEF Init
  <2> QED
    BY <2>1, <2>2, <2>3, <2>4, <2>5 DEF TypeOK
<1>2. CapInv
  <2>1. EffectiveDailyMax = EnvMax /\ peak = EnvMax /\ deployed = 0 /\ pc = "idle"
    BY DEF Init, EffectiveDailyMax, Ceiling
  <2> QED
    BY <2>1, Amounts DEF CapInv
<1>3. OnceInv
  BY DEF Init, OnceInv, OncePerDay
<1> QED
  BY <1>1, <1>2, <1>3

-------------------------------------------------------------------------------
(* Types.                                                                    *)

\* Every step keeps the types.
LEMMA TypeStep == ASSUME TypeOK, [Next]_vars PROVE TypeOK'
<1>a. amt \in Nat /\ deployed \in Int /\ owed \in Int
  BY DEF TypeOK
<1>b. approved \in Nat /\ pool \in Nat /\ peak \in Nat
  BY DEF TypeOK
<1>c. day \in Nat /\ credits \in Nat /\ rolls \in Nat /\ crashes \in Nat
  BY DEF TypeOK
<1>d. EffectiveDailyMax \in Nat
  BY <1>b, CeilingType DEF EffectiveDailyMax
<1> USE DEF exchange, engine, marks, db, seenBy
<1>1. ASSUME NEW cost \in 1..MaxCost, CheckBuy(cost) PROVE TypeOK'
  <2>1. cost \in Nat
    BY CostType
  <2> QED
    BY <1>1, <2>1 DEF TypeOK, CheckBuy
<1>2. ASSUME NEW slip \in 0..Slip, RecordBuy(slip) PROVE TypeOK'
  <2>1. slip \in Nat
    BY SlipType
  <2>2. /\ deployed' = deployed + amt + slip /\ owed' = owed - (amt + slip)
        /\ pc' = "recorded" /\ amt' = 0
        /\ UNCHANGED <<exchange, up, seen, bus, cli, approved, pool, marks,
                       peak, credits, rolls, manual, crashes>>
    BY <1>2 DEF RecordBuy
  <2>3. deployed' \in Int /\ owed' \in Int
    BY <1>a, <2>1, <2>2
  <2> QED
    BY <2>2, <2>3 DEF TypeOK
<1>3. CASE ConsumeRolled
  <2>1. pool' \in Nat /\ approved' \in Nat
    BY <1>3 DEF TypeOK, ConsumeRolled, MaxOf
  <2>2. peak' \in Nat
    BY <1>3, <2>1, PeakCovers DEF TypeOK, ConsumeRolled
  <2>3. bus' \in Seq({"closed", "preopen", "open", "fill"})
    BY <1>3 DEF TypeOK, ConsumeRolled
  <2> QED
    BY <1>3, <2>1, <2>2, <2>3 DEF TypeOK, ConsumeRolled
<1>4. CASE HandleFill
  <2>1. bus' \in Seq({"closed", "preopen", "open", "fill"})
    BY <1>4 DEF TypeOK, HandleFill
  <2>2. deployed' \in Int
    BY <1>4, Amounts DEF TypeOK, HandleFill
  <2> QED
    BY <1>4, <2>1, <2>2 DEF TypeOK, HandleFill
<1>5. ASSUME NEW c \in Clients, NEW cost \in 1..MaxCost, CheckManual(c, cost) PROVE TypeOK'
  <2>1. cost \in Nat
    BY CostType
  <2>2. cli' \in [Clients -> Nat]
    <3>1. cli' = [cli EXCEPT ![c] = cost]
      BY <1>5 DEF TypeOK, CheckManual
    <3> QED
      BY <2>1, <3>1 DEF TypeOK
  <2>3. UNCHANGED <<exchange, engine, db, seenBy>>
    BY <1>5 DEF TypeOK, CheckManual
  <2> QED
    BY <2>2, <2>3 DEF TypeOK
<1>6. ASSUME NEW c \in Clients, NEW slip \in 0..Slip, RecordManual(c, slip) PROVE TypeOK'
  <2>1. cli[c] \in Nat
    BY DEF TypeOK
  <2>2. slip \in Nat /\ Fee \in Nat
    BY SlipType, Amounts
  <2>3. /\ deployed' = deployed + cli[c] + slip + Fee
        /\ owed' = owed - (cli[c] + slip + Fee)
        /\ cli' = [cli EXCEPT ![c] = 0]
        /\ UNCHANGED <<exchange, engine, approved, pool, marks, peak, credits,
                       rolls, crashes>>
        /\ manual' = TRUE
    BY <1>6, Zenon DEF RecordManual
  <2>4. cli' \in [Clients -> Nat]
    BY <2>3 DEF TypeOK
  <2>5. deployed' \in Int /\ owed' \in Int
    BY <1>a, <2>1, <2>2, <2>3
  <2> QED
    BY <2>3, <2>4, <2>5 DEF TypeOK
<1>7. ASSUME NEW a \in Approvals, Approve(a) PROVE TypeOK'
  <2>1. approved' \in Nat
    <3>1. a \in Nat /\ EnvMin \in Nat /\ EnvMax \in Nat
      BY ApprovalsType, Amounts
    <3>2. MinOf(a, 2 * EnvMax) \in Nat
      BY <3>1 DEF MinOf
    <3> QED
      BY <1>7, <3>1, <3>2, MaxOfType DEF Approve
  <2>2. pool' \in Nat
    BY <1>7, <1>b DEF Approve
  <2>3. peak' \in Nat
    BY <1>7, <1>b, <2>1, <2>2, PeakCovers DEF Approve
  <2>4. UNCHANGED <<exchange, engine, cli, pool, marks, deployed, owed, credits, rolls,
                    manual, crashes>>
    BY <1>7 DEF Approve
  <2> QED
    BY <2>1, <2>3, <2>4 DEF TypeOK
<1>8. CASE AutoApprove
  <2>1. pool' \in Nat /\ approved' \in Nat
    BY <1>8, Amounts DEF TypeOK, AutoApprove
  <2>2. peak' \in Nat
    BY <1>8, <2>1, PeakCovers DEF TypeOK, AutoApprove
  <2> QED
    BY <1>8, <2>1, <2>2 DEF TypeOK, AutoApprove
<1>9. CASE Poll
  <2>1. Status \in {"closed", "preopen", "open"}
    BY DEF TypeOK, Status
  <2>2. bus' \in Seq({"closed", "preopen", "open", "fill"})
    BY <1>9, <2>1 DEF TypeOK, Poll
  <2> QED
    BY <1>9, <2>1, <2>2 DEF TypeOK, Poll
<1>10. CASE HandleSession
  <2>1. bus' \in Seq({"closed", "preopen", "open", "fill"})
    BY <1>10 DEF TypeOK, HandleSession
  <2>2. pc' \in {"rollover", "stipend"}
    BY <1>10 DEF TypeOK, HandleSession
  <2> QED
    BY <1>10, <2>1, <2>2 DEF TypeOK, HandleSession
<1>11. CASE CreditPool
  <2>1. \/ /\ pool' = pool + EnvMax /\ owed' = owed + EnvMax
           /\ credits' = credits + 1 /\ pc' = "stipend day"
        \/ UNCHANGED <<pool, owed, credits>> /\ pc' = "idle"
    BY <1>11, Zenon DEF CreditPool
  <2>2. /\ UNCHANGED <<exchange, up, seen, bus, amt, cli, approved, marks, deployed, rolls,
                       manual, crashes>>
        /\ NotePeak
    BY <1>11 DEF CreditPool
  <2>3. pool' \in Nat /\ approved' \in Nat /\ owed' \in Int /\ credits' \in Nat
    <3>1. approved' \in Nat
      BY <1>b, <2>2
    <3>2. /\ pool + EnvMax \in Nat /\ owed + EnvMax \in Int /\ credits + 1 \in Nat
      BY <1>a, <1>b, <1>c, Amounts
    <3>3. pool' \in Nat /\ owed' \in Int /\ credits' \in Nat
      BY <1>a, <1>b, <1>c, <2>1, <3>2, Zenon
    <3> QED
      BY <3>1, <3>3
  <2>4. peak' \in Nat
    BY <1>b, <2>2, <2>3, PeakCovers
  <2>5. pc' \in {"idle", "stipend day"}
    BY <2>1
  <2> QED
    BY <2>2, <2>3, <2>4, <2>5 DEF TypeOK
<1>12. CASE CreditDay
  BY <1>12 DEF TypeOK, CreditDay
<1>13. CASE RollPool
  <2>1. EffectiveDailyMax - deployed \in Int
    BY <1>a, <1>d
  <2>2. \/ /\ pool' = MaxOf(0, EffectiveDailyMax - deployed)
           /\ rolls' = rolls + 1 /\ pc' = "rollover day"
        \/ UNCHANGED <<pool, rolls>> /\ pc' = "idle"
    BY <1>13, Zenon DEF RollPool
  <2>3. /\ UNCHANGED <<exchange, up, seen, bus, amt, cli, approved, marks, deployed,
                       owed, credits, manual, crashes>>
        /\ NotePeak
    BY <1>13 DEF RollPool
  <2>4. MaxOf(0, EffectiveDailyMax - deployed) \in Nat
    BY <2>1, MaxOfType
  <2>5. pool' \in Nat /\ approved' \in Nat /\ rolls' \in Nat
    <3>1. approved' \in Nat
      BY <1>b, <2>3
    <3>2. rolls + 1 \in Nat
      BY <1>c
    <3>3. pool' \in Nat /\ rolls' \in Nat
      BY <1>b, <1>c, <2>2, <2>4, <3>2, Zenon
    <3> QED
      BY <3>1, <3>3
  <2>6. peak' \in Nat
    BY <1>b, <2>3, <2>5, PeakCovers
  <2>7. pc' \in {"idle", "rollover day"}
    BY <2>2
  <2> QED
    BY <2>3, <2>5, <2>6, <2>7 DEF TypeOK
<1>14. CASE RollDay
  BY <1>14 DEF TypeOK, RollDay
<1>15. CASE Crash
  <2>1. /\ up' = FALSE /\ bus' = <<>> /\ pc' = "idle" /\ amt' = 0 /\ seen' = "none"
        /\ crashes' = crashes + 1
        /\ UNCHANGED <<exchange, cli, db, peak, owed, credits, rolls, manual>>
    BY <1>15, Zenon DEF Crash
  <2>2. bus' \in Seq({"closed", "preopen", "open", "fill"})
    BY <2>1
  <2>3. crashes' \in Nat /\ amt' \in Nat
    BY <1>c, <2>1
  <2> QED
    BY <2>1, <2>2, <2>3 DEF TypeOK
<1>16. CASE Start
  BY <1>16 DEF TypeOK, Start
<1>17. CASE AdvanceMarket
  BY <1>17 DEF TypeOK, AdvanceMarket
<1>18. CASE NextDay
  <2>1. /\ day' = day + 1 /\ market' = "night" /\ deployed' = 0
        /\ peak' = EffectiveDailyMax /\ credits' = 0 /\ rolls' = 0 /\ crashes' = 0
        /\ manual' = FALSE
        /\ UNCHANGED <<engine, cli, approved, pool, marks, owed>>
    BY <1>18, Zenon DEF NextDay
  <2>2. /\ day' \in Nat /\ deployed' \in Int /\ peak' \in Nat
        /\ credits' \in Nat /\ rolls' \in Nat /\ crashes' \in Nat
    BY <1>c, <1>d, <2>1
  <2> QED
    BY <2>1, <2>2 DEF TypeOK
<1>19. CASE UNCHANGED vars
  BY <1>19 DEF TypeOK, vars
<1> QED
  BY <1>1, <1>2, <1>3, <1>4, <1>5, <1>6, <1>7, <1>8, <1>9, <1>10, <1>11, <1>12,
     <1>13, <1>14, <1>15, <1>16, <1>17, <1>18, <1>19
  DEF Next, Buy, Dashboard, Session

-------------------------------------------------------------------------------
(* The cap.                                                                  *)

\* Less below more.
LEMMA Below ==
  ASSUME NEW d \in Int, NEW e \in Int, NEW p \in Int, NEW q \in Int, NEW s \in Int,
         e <= d, p <= q, d + s <= p
  PROVE  e + s <= q
OBVIOUS

(* A purchase the gate let through, under a ceiling the day has had, ends   *)
(* below the highest ceiling plus the slippage of one order.                *)
LEMMA BelowWithSlip ==
  ASSUME NEW d \in Int, NEW e \in Int, NEW p \in Int, NEW q \in Int, NEW s \in Int,
         e <= d, p <= q, d <= p + s
  PROVE  e <= q + s
OBVIOUS

\* A step that changes no trade keeps the cap if the ceiling stays under a peak
\* that does not fall, and if it checks no order.
LEMMA CapKept ==
  ASSUME TypeOK, TypeOK', CapInv,
         ~up' => pc' = "idle",
         peak' >= peak, EffectiveDailyMax' <= peak',
         deployed' <= deployed, manual' = manual,
         pc' = "checked" => pc = "checked" /\ amt' = amt
  PROVE  CapInv'
<1>0. /\ amt \in Nat /\ deployed \in Int /\ peak \in Nat
      /\ deployed' \in Int /\ peak' \in Nat
  BY DEF TypeOK
<1>1. /\ amt \in Int /\ deployed \in Int /\ peak \in Int
      /\ deployed' \in Int /\ peak' \in Int
  BY <1>0
<1>2. Slip \in Int
  BY Amounts
<1>3. peak <= peak'
  BY <1>1
<1>4. ASSUME ~manual' PROVE deployed' <= peak' + Slip
  <2>1. deployed <= peak + Slip /\ manual' = manual
    BY <1>4 DEF CapInv
  <2> QED
    BY <1>1, <1>2, <1>3, <2>1, BelowWithSlip
<1>5. ASSUME ~manual', pc' = "checked" PROVE deployed' + amt' <= peak'
  <2>1. deployed + amt <= peak /\ amt' = amt /\ manual' = manual
    BY <1>5 DEF CapInv
  <2> QED
    BY <1>1, <1>3, <2>1, Below
<1> QED
  BY <1>4, <1>5 DEF CapInv

(* No step breaks the engine's cap.                                         *)
LEMMA CapStep ==
  ASSUME TypeOK, TypeOK', CapInv, [Next]_vars PROVE CapInv'
<1>a. /\ amt \in Nat /\ deployed \in Int /\ peak \in Nat /\ pool' \in Nat
      /\ approved' \in Nat
  BY DEF TypeOK
<1>b. EffectiveDailyMax \in Nat
  BY CeilingType DEF TypeOK, EffectiveDailyMax
<1>c. EffectiveDailyMax <= peak
  BY DEF CapInv
<1>d. Slip \in Nat /\ Fee \in Nat
  BY Amounts
<1>e. pool' = pool /\ approved' = approved /\ peak' = peak
        => peak' >= peak /\ EffectiveDailyMax' <= peak'
  BY <1>a, <1>b, <1>c DEF EffectiveDailyMax
<1>f. NotePeak => peak' >= peak /\ EffectiveDailyMax' <= peak'
  BY <1>a, PeakCovers
<1> USE DEF exchange, engine, marks, db, seenBy
<1>1. ASSUME NEW cost \in 1..MaxCost, CheckBuy(cost) PROVE CapInv'
  <2>1. /\ up' = up /\ up /\ peak' = peak /\ deployed' = deployed /\ amt' = cost
        /\ pool' = pool /\ approved' = approved
        /\ cost <= EffectiveDailyMax - deployed /\ manual' = manual
    BY <1>1 DEF CheckBuy, CanDeploy
  <2>2. cost \in Nat
    BY CostType
  <2>3. EffectiveDailyMax' <= peak'
    BY <1>e, <2>1
  <2>4. deployed' + amt' <= peak'
    BY <1>a, <1>b, <1>c, <2>1, <2>2
  <2>5. deployed' <= peak' + Slip
    BY <1>a, <1>b, <1>c, <1>d, <2>1, <2>2
  <2> QED
    BY <2>1, <2>3, <2>4, <2>5 DEF CapInv
<1>2. ASSUME NEW slip \in 0..Slip, RecordBuy(slip) PROVE CapInv'
  <2>1. /\ up' = up /\ up /\ peak' = peak /\ deployed' = deployed + amt + slip
        /\ pc = "checked" /\ pc' = "recorded" /\ pool' = pool /\ approved' = approved /\ manual' = manual
    BY <1>2 DEF RecordBuy
  <2>2. slip \in Nat /\ slip <= Slip
    BY SlipType
  <2>3. EffectiveDailyMax' <= peak'
    BY <1>e, <2>1
  <2>4. ~manual => deployed + amt <= peak
    BY <2>1 DEF CapInv
  <2>5. ~manual => deployed' <= peak' + Slip
    BY <1>a, <1>d, <2>1, <2>2, <2>4
  <2> QED
    BY <2>1, <2>3, <2>5 DEF CapInv
<1>3. CASE ConsumeRolled
  <2>1. /\ up' = up /\ up /\ deployed' = deployed /\ pc' = "idle" /\ NotePeak
        /\ manual' = manual
    BY <1>3 DEF ConsumeRolled
  <2> QED
    BY <1>a, <1>f, <2>1, CapKept
<1>4. CASE HandleFill
  <2>1. /\ up' = up /\ up /\ deployed' = deployed - Fee /\ pc = "idle" /\ pc' = pc
        /\ pool' = pool /\ approved' = approved /\ peak' = peak /\ manual' = manual
    BY <1>4 DEF HandleFill
  <2>2. deployed' <= deployed
    BY <1>a, <1>d, <2>1
  <2> QED
    BY <1>e, <2>1, <2>2, CapKept
<1>5. ASSUME NEW c \in Clients, NEW cost \in 1..MaxCost, CheckManual(c, cost) PROVE CapInv'
  <2>1. /\ up' = up /\ pc' = pc /\ amt' = amt /\ deployed' = deployed
        /\ pool' = pool /\ approved' = approved /\ peak' = peak /\ manual' = manual
    BY <1>5 DEF CheckManual
  <2> QED
    BY <1>a, <1>e, <2>1, CapKept DEF CapInv
<1>6. ASSUME NEW c \in Clients, NEW slip \in 0..Slip, RecordManual(c, slip) PROVE CapInv'
  <2>1. /\ up' = up /\ pc' = pc
        /\ pool' = pool /\ approved' = approved /\ peak' = peak
    BY <1>6 DEF RecordManual
  <2>2. manual' = TRUE
    BY <1>6 DEF RecordManual
  <2> QED
    BY <1>e, <2>1, <2>2 DEF CapInv
<1>7. ASSUME NEW a \in Approvals, Approve(a) PROVE CapInv'
  <2>1. /\ up' = up /\ pc' = pc /\ amt' = amt /\ deployed' = deployed /\ NotePeak
        /\ manual' = manual
    BY <1>7 DEF Approve
  <2> QED
    BY <1>a, <1>f, <2>1, CapKept DEF CapInv
<1>8. CASE AutoApprove
  <2>1. /\ up' = up /\ pc' = pc /\ amt' = amt /\ deployed' = deployed /\ NotePeak
        /\ manual' = manual
    BY <1>8 DEF AutoApprove
  <2> QED
    BY <1>a, <1>f, <2>1, CapKept DEF CapInv
<1>9. CASE Poll
  <2>1. /\ up' = up /\ pc' = pc /\ amt' = amt /\ deployed' = deployed
        /\ pool' = pool /\ approved' = approved /\ peak' = peak /\ manual' = manual
    BY <1>9 DEF Poll
  <2> QED
    BY <1>a, <1>e, <2>1, CapKept DEF CapInv
<1>10. CASE HandleSession
  <2>1. /\ up' = up /\ up /\ pc' # "checked" /\ deployed' = deployed
        /\ pool' = pool /\ approved' = approved /\ peak' = peak /\ manual' = manual
    BY <1>10 DEF HandleSession
  <2> QED
    BY <1>a, <1>e, <2>1, CapKept
<1>11. CASE CreditPool
  <2>1. /\ up' = up /\ up /\ deployed' = deployed /\ NotePeak
        /\ manual' = manual
    BY <1>11 DEF CreditPool
  <2>2. pc' # "checked"
    BY <1>11 DEF CreditPool
  <2> QED
    BY <1>a, <1>f, <2>1, <2>2, CapKept
<1>12. CASE CreditDay
  <2>1. /\ up' = up /\ up /\ pc' = "idle" /\ deployed' = deployed
        /\ pool' = pool /\ approved' = approved /\ peak' = peak /\ manual' = manual
    BY <1>12 DEF CreditDay
  <2> QED
    BY <1>a, <1>e, <2>1, CapKept
<1>13. CASE RollPool
  <2>1. /\ up' = up /\ up /\ deployed' = deployed /\ NotePeak
        /\ manual' = manual
    BY <1>13 DEF RollPool
  <2>2. pc' # "checked"
    BY <1>13 DEF RollPool
  <2> QED
    BY <1>a, <1>f, <2>1, <2>2, CapKept
<1>14. CASE RollDay
  <2>1. /\ up' = up /\ up /\ pc' = "idle" /\ deployed' = deployed
        /\ pool' = pool /\ approved' = approved /\ peak' = peak /\ manual' = manual
    BY <1>14 DEF RollDay
  <2> QED
    BY <1>a, <1>e, <2>1, CapKept
<1>15. CASE Crash
  <2>1. /\ pc' = "idle" /\ deployed' = deployed
        /\ pool' = pool /\ approved' = approved /\ peak' = peak /\ manual' = manual
    BY <1>15 DEF Crash
  <2> QED
    BY <1>a, <1>e, <2>1, CapKept
<1>16. CASE Start
  <2>1. /\ up' = TRUE /\ pc' = "stipend" /\ deployed' = deployed
        /\ pool' = pool /\ approved' = approved /\ peak' = peak /\ manual' = manual
    BY <1>16 DEF Start
  <2> QED
    BY <1>a, <1>e, <2>1, CapKept
<1>17. CASE AdvanceMarket
  <2>1. /\ up' = up /\ pc' = pc /\ amt' = amt /\ deployed' = deployed
        /\ pool' = pool /\ approved' = approved /\ peak' = peak /\ manual' = manual
    BY <1>17 DEF AdvanceMarket
  <2> QED
    BY <1>a, <1>e, <2>1, CapKept DEF CapInv
<1>18. CASE NextDay
  <2>1. /\ up' = up /\ pc' = pc /\ deployed' = 0 /\ peak' = EffectiveDailyMax
        /\ pool' = pool /\ approved' = approved
    BY <1>18, Zenon DEF NextDay
  <2>2. pc = "idle"
    BY <1>18 DEF NextDay, Settled, CapInv
  <2>3. EffectiveDailyMax' = EffectiveDailyMax
    BY <2>1 DEF EffectiveDailyMax
  <2>4. EffectiveDailyMax' <= peak' /\ deployed' <= peak' + Slip
    BY <1>b, <1>d, <2>1, <2>3
  <2> QED
    BY <2>1, <2>2, <2>4 DEF CapInv
<1>19. CASE UNCHANGED vars
  <2>1. /\ up' = up /\ pc' = pc /\ amt' = amt /\ deployed' = deployed
        /\ pool' = pool /\ approved' = approved /\ peak' = peak /\ manual' = manual
    BY <1>19 DEF vars
  <2> QED
    BY <1>a, <1>e, <2>1, CapKept DEF CapInv
<1> QED
  BY <1>1, <1>2, <1>3, <1>4, <1>5, <1>6, <1>7, <1>8, <1>9, <1>10, <1>11, <1>12,
     <1>13, <1>14, <1>15, <1>16, <1>17, <1>18, <1>19
  DEF Next, Buy, Dashboard, Session

-------------------------------------------------------------------------------
(* Once a day.                                                               *)

\* One more of two counts.
LEMMA OneMore ==
  ASSUME NEW n \in Nat, NEW c \in Nat, n <= c
  PROVE  n + 1 <= 1 + c
OBVIOUS

(* A crash raises the bound of a client's stipend or rollover by one.       *)
LEMMA OneMoreCrash ==
  ASSUME NEW n \in Nat, NEW c \in Nat, n <= 1 + c
  PROVE  n <= c + 1 /\ n <= 1 + (c + 1)
OBVIOUS

\* Tomorrow is later.
LEMMA Tomorrow ==
  ASSUME NEW d \in Nat, NEW m \in Nat, m <= d PROVE m <= d + 1
OBVIOUS

\* A step that credits and rolls nothing, and writes no day of either.
LEMMA OnceKept ==
  ASSUME OnceInv,
         UNCHANGED <<day, stipendDay, rolledDay, credits, rolls, crashes>>,
         pc = "stipend day" => pc' = "stipend day",
         pc = "rollover day" => pc' = "rollover day"
  PROVE  OnceInv'
BY DEF OnceInv, OncePerDay

(* No step lets stipend or rollover act again without a crash.              *)
LEMMA OnceStep ==
  ASSUME TypeOK, OnceInv, [Next]_vars, ~up => pc = "idle" PROVE OnceInv'
<1>a. /\ day \in Nat /\ stipendDay \in Nat /\ rolledDay \in Nat
      /\ credits \in Nat /\ rolls \in Nat /\ crashes \in Nat
  BY DEF TypeOK
<1>b. /\ OncePerDay
      /\ stipendDay <= day /\ rolledDay <= day
      /\ stipendDay # day /\ pc # "stipend day" => credits <= crashes
      /\ rolledDay # day /\ pc # "rollover day" => rolls <= crashes
  BY DEF OnceInv
<1> USE DEF exchange, engine, marks, db, seenBy
<1>1. ASSUME NEW cost \in 1..MaxCost, CheckBuy(cost) PROVE OnceInv'
  BY <1>1, OnceKept DEF CheckBuy
<1>2. ASSUME NEW slip \in 0..Slip, RecordBuy(slip) PROVE OnceInv'
  BY <1>2, OnceKept DEF RecordBuy
<1>3. CASE ConsumeRolled
  BY <1>3, OnceKept DEF ConsumeRolled
<1>4. CASE HandleFill
  BY <1>4, OnceKept DEF HandleFill
<1>5. ASSUME NEW c \in Clients, NEW cost \in 1..MaxCost, CheckManual(c, cost) PROVE OnceInv'
  BY <1>5, OnceKept DEF CheckManual
<1>6. ASSUME NEW c \in Clients, NEW slip \in 0..Slip, RecordManual(c, slip) PROVE OnceInv'
  BY <1>6, OnceKept DEF RecordManual
<1>7. ASSUME NEW a \in Approvals, Approve(a) PROVE OnceInv'
  BY <1>7, OnceKept DEF Approve
<1>8. CASE AutoApprove
  BY <1>8, OnceKept DEF AutoApprove
<1>9. CASE Poll
  BY <1>9, OnceKept DEF Poll
<1>10. CASE HandleSession
  BY <1>10, OnceKept DEF HandleSession
<1>11. CASE CreditPool
  <2>1. /\ UNCHANGED <<day, stipendDay, rolledDay, rolls, crashes>>
        /\ pc = "stipend"
    BY <1>11 DEF CreditPool
  <2>2. \/ /\ stipendDay # day
           /\ credits' = credits + 1 /\ pc' = "stipend day"
        \/ credits' = credits /\ pc' = "idle"
    BY <1>11, Zenon DEF CreditPool
  <2>3. CASE stipendDay # day /\ credits' = credits + 1 /\ pc' = "stipend day"
    <3>1. credits <= crashes
      BY <1>b, <2>1, <2>3
    <3>2. credits + 1 <= 1 + crashes
      BY <1>a, <3>1, OneMore
    <3> QED
      BY <1>b, <2>1, <2>3, <3>2 DEF OnceInv, OncePerDay
  <2>4. CASE credits' = credits /\ pc' = "idle"
    BY <2>1, <2>4, OnceKept
  <2> QED
    BY <2>2, <2>3, <2>4
<1>12. CASE CreditDay
  <2>1. /\ UNCHANGED <<day, rolledDay, credits, rolls, crashes>>
        /\ pc = "stipend day" /\ stipendDay' = day
    BY <1>12 DEF CreditDay
  <2>2. stipendDay' <= day'
    <3>1. day <= day
      BY <1>a
    <3> QED
      BY <2>1, <3>1, Zenon
  <2> QED
    BY <1>b, <2>1, <2>2 DEF OnceInv, OncePerDay
<1>13. CASE RollPool
  <2>1. /\ UNCHANGED <<day, stipendDay, rolledDay, credits, crashes>>
        /\ pc = "rollover"
    BY <1>13 DEF RollPool
  <2>2. \/ /\ rolledDay # day
           /\ rolls' = rolls + 1 /\ pc' = "rollover day"
        \/ rolls' = rolls /\ pc' = "idle"
    BY <1>13, Zenon DEF RollPool
  <2>3. CASE rolledDay # day /\ rolls' = rolls + 1 /\ pc' = "rollover day"
    <3>1. rolls <= crashes
      BY <1>b, <2>1, <2>3
    <3>2. rolls + 1 <= 1 + crashes
      BY <1>a, <3>1, OneMore
    <3> QED
      BY <1>b, <2>1, <2>3, <3>2 DEF OnceInv, OncePerDay
  <2>4. CASE rolls' = rolls /\ pc' = "idle"
    BY <2>1, <2>4, OnceKept
  <2> QED
    BY <2>2, <2>3, <2>4
<1>14. CASE RollDay
  <2>1. /\ UNCHANGED <<day, stipendDay, credits, rolls, crashes>>
        /\ pc = "rollover day" /\ rolledDay' = day
    BY <1>14 DEF RollDay
  <2>2. rolledDay' <= day'
    <3>1. day <= day
      BY <1>a
    <3> QED
      BY <2>1, <3>1, Zenon
  <2> QED
    BY <1>b, <2>1, <2>2 DEF OnceInv, OncePerDay
<1>15. CASE Crash
  <2>1. /\ UNCHANGED <<day, stipendDay, rolledDay, credits, rolls>>
        /\ crashes' = crashes + 1
    BY <1>15 DEF Crash
  <2>2. credits <= 1 + crashes /\ rolls <= 1 + crashes
    BY <1>b DEF OncePerDay
  <2>3. /\ credits <= crashes + 1 /\ credits <= 1 + (crashes + 1)
        /\ rolls <= crashes + 1 /\ rolls <= 1 + (crashes + 1)
    BY <1>a, <2>2, OneMoreCrash
  <2> QED
    BY <1>b, <2>1, <2>3 DEF OnceInv, OncePerDay
<1>16. CASE Start
  \* A process that is down has no commit half done.
  <2>1. pc = "idle" /\ UNCHANGED <<day, stipendDay, rolledDay, credits, rolls, crashes>>
    BY <1>16 DEF Start
  <2> QED
    BY <2>1, OnceKept
<1>17. CASE AdvanceMarket
  BY <1>17, OnceKept DEF AdvanceMarket
<1>18. CASE NextDay
  <2>1. /\ day' = day + 1 /\ credits' = 0 /\ rolls' = 0 /\ crashes' = 0
        /\ manual' = FALSE
        /\ stipendDay' = stipendDay /\ rolledDay' = rolledDay
    BY <1>18, Zenon DEF NextDay
  <2>2. stipendDay' <= day' /\ rolledDay' <= day'
    BY <1>a, <1>b, <2>1, Tomorrow
  <2>3. 0 <= 0 /\ 0 <= 1 + 0
    OBVIOUS
  <2> QED
    BY <2>1, <2>2, <2>3, Zenon DEF OnceInv, OncePerDay
<1>19. CASE UNCHANGED vars
  BY <1>19, OnceKept DEF vars
<1> QED
  BY <1>1, <1>2, <1>3, <1>4, <1>5, <1>6, <1>7, <1>8, <1>9, <1>10, <1>11, <1>12,
     <1>13, <1>14, <1>15, <1>16, <1>17, <1>18, <1>19
  DEF Next, Buy, Dashboard, Session

-------------------------------------------------------------------------------
(* The overspending.                                                         *)

Cap == Cardinality(Clients) * Whole

\* The bound with its product named, and d with its order of the engine inside
\* it while the clients' orders are what they are.
Within(d, m) ==
  d <= m + Slip \/ \E c \in Clients : d + Load(c) <= m + Slip + Cap

\* The invariant of what is spent, in these words.
LEMMA SpendIs ==
  SpendInv <=> /\ amt <= MaxCost /\ \A c \in Clients : cli[c] <= MaxCost
               /\ Within(deployed + Pending, peak)
BY DEF SpendInv, Within, Cap

(* The numbers the bound on overspending is made of.                        *)
LEMMA CapType == Whole \in Nat /\ Cap \in Nat /\ IsFiniteSet(Clients) /\ Cardinality(Clients) \in Nat
<1>1. Whole \in Nat
  BY Amounts DEF Whole
<1>2. IsFiniteSet(Clients) /\ Cardinality(Clients) \in Nat
  BY BudgetGateAssumption, FS_CardinalityType
<1>3. \A m, n \in Nat : m * n \in Nat
  OBVIOUS
<1> QED
  BY <1>1, <1>2, <1>3 DEF Cap

\* The engine's order under way is a cost and its slippage.
LEMMA PendingType ==
  ASSUME TypeOK, amt <= MaxCost
  PROVE  Pending \in Nat /\ Pending <= MaxCost + Slip
<1>1. amt \in Nat
  BY DEF TypeOK
<1> QED
  BY <1>1, Amounts DEF Pending

\* The others are fewer than the clients: with a whole order for c beside them
\* the load is within the cap.
LEMMA OthersFit ==
  ASSUME NEW c \in Clients
  PROVE  /\ IsFiniteSet(Others(c)) /\ Cardinality(Others(c)) * Whole \in Nat
         /\ Cardinality(Others(c)) * Whole + Whole <= Cap
<1> DEFINE R == Clients \ {c}
           k == Cardinality(Others(c))
           n == Cardinality(R)
<1>1. IsFiniteSet(R) /\ n \in Nat /\ Cardinality(Clients) = n + 1
  <2>1. IsFiniteSet(R) /\ n = Cardinality(Clients) - 1
    BY CapType, FS_RemoveElement
  <2>2. n \in Nat
    BY <2>1, FS_CardinalityType
  <2> HIDE DEF n
  <2> QED
    BY <2>1, <2>2, CapType
<1>2. IsFiniteSet(Others(c)) /\ k \in Nat /\ k <= n
  BY <1>1, FS_Subset, FS_CardinalityType DEF Others
<1> HIDE DEF k, n, R
<1>3. \A a, b, w \in Nat : a <= b => a * w \in Nat /\ a * w + w <= (b + 1) * w
  <2> SUFFICES ASSUME NEW a \in Nat, NEW b \in Nat, NEW w \in Nat, a <= b
               PROVE  a * w \in Nat /\ a * w + w <= (b + 1) * w
    OBVIOUS
  <2>1. b - a \in Nat
    OBVIOUS
  <2>2. (b - a) * w \in Nat
    BY <2>1
  <2>3. (b + 1) * w = a * w + w + (b - a) * w
    OBVIOUS
  <2> QED
    BY <2>2, <2>3
<1> QED
  BY <1>1, <1>2, <1>3, CapType DEF Cap, k

\* A client's load is its order and the others', and within the cap.
LEMMA LoadFits ==
  ASSUME NEW c \in Clients, cli[c] \in Nat, cli[c] <= MaxCost
  PROVE  /\ Exposed(c) \in Nat /\ Exposed(c) <= Whole
         /\ Load(c) \in Nat /\ Load(c) <= Cap
         /\ Load(c) + Whole <= Cap + Exposed(c)
<1>1. Exposed(c) \in Nat /\ Exposed(c) <= Whole
  BY Amounts DEF Exposed, Whole
<1> DEFINE x == Cardinality(Others(c)) * Whole
<1>2. x \in Nat /\ x + Whole <= Cap /\ Load(c) = Exposed(c) + x
  BY OthersFit DEF Load
<1> HIDE DEF x
<1> QED
  BY <1>1, <1>2, CapType

\* An amount and the slippage.
LEMMA WithSlip == \A n \in Nat : n + Slip \in Nat
BY Amounts

\* Less and less is less.
LEMMA LessAndLess ==
  ASSUME NEW d \in Int, NEW e \in Int, NEW x \in Int, NEW y \in Int, e <= d, y <= x
  PROVE  e + y <= d + x
OBVIOUS

\* A step that lets no manual buy through keeps the bound if purchases and the
\* engine's order do not grow and the peak does not fall.
LEMMA SpendKept ==
  ASSUME TypeOK, TypeOK', SpendInv, cli' = cli, amt' <= MaxCost,
         deployed' + Pending' <= deployed + Pending, peak' >= peak
  PROVE  SpendInv'
<1> DEFINE d == deployed + Pending
           e == deployed' + Pending'
           m == peak
           n == peak'
<1>1. deployed \in Int /\ deployed' \in Int /\ m \in Nat /\ n \in Nat
  BY DEF TypeOK
<1>2. Pending \in Nat /\ Pending' \in Nat
  <2>1. amt \in Nat /\ amt' \in Nat
    BY DEF TypeOK
  <2>2. amt + Slip \in Nat /\ amt' + Slip \in Nat
    BY <2>1, WithSlip
  <2> QED
    BY <2>2 DEF Pending
<1>3. d \in Int /\ e \in Int /\ m \in Int /\ n \in Int /\ e <= d /\ m <= n
  <2> DEFINE x == Pending
             y == Pending'
  <2>1. x \in Nat /\ y \in Nat
    BY <1>2
  <2>2. e <= d
    OBVIOUS
  <2> HIDE DEF x, y
  <2>3. deployed + x \in Int /\ deployed' + y \in Int
    BY <1>1, <2>1
  <2>4. d \in Int /\ e \in Int
    BY <2>3 DEF x, y
  <2> QED
    BY <1>1, <2>2, <2>4
<1>4. Within(d, m)
  BY SpendIs
<1>5. \A c \in Clients : Load(c) \in Nat
  <2>1. \A c \in Clients : cli[c] \in Nat /\ cli[c] <= MaxCost
    BY SpendIs DEF TypeOK
  <2> QED
    BY <2>1, LoadFits
<1> HIDE DEF d, e, m, n
<1>6. e <= n + Slip \/ \E c \in Clients : e + Load(c) <= n + Slip + Cap
  BY <1>3, <1>4, <1>5, CapType, Amounts DEF Within
<1>7. \A c \in Clients : Load(c)' = Load(c)
  BY DEF Load, Exposed, Others
<1> QED
  BY <1>6, <1>7, SpendIs DEF SpendInv, Cap, Whole, e, n

\* Nor does it matter what a step does that leaves the purchases and the
\* engine's order under the highest ceiling.
LEMMA SpendUnder ==
  ASSUME amt' <= MaxCost, \A c \in Clients : cli'[c] <= MaxCost,
         deployed' + Pending' <= peak' + Slip
  PROVE  SpendInv'
BY DEF SpendInv

\* A manual buy that fits under the ceiling: its own order is counted as it is,
\* the others' may all be stale, and so may the engine's.
LEMMA CheckManualKeeps ==
  ASSUME TypeOK, TypeOK', CapInv, SpendInv,
         NEW c \in Clients, NEW cost \in 1 .. MaxCost, CheckManual(c, cost)
  PROVE  SpendInv'
<1>1. /\ cli' = [cli EXCEPT ![c] = cost] /\ amt' = amt /\ pc' = pc
      /\ deployed' = deployed /\ peak' = peak /\ cost <= EffectiveDailyMax - deployed
  BY DEF CheckManual, CanDeploy, exchange, engine, marks, db, seenBy
<1>2. /\ cli \in [Clients -> Nat] /\ deployed \in Int /\ peak \in Nat
      /\ cost \in Nat /\ cost <= MaxCost /\ EffectiveDailyMax <= peak
      /\ MaxCost \in Nat /\ Slip \in Nat /\ Fee \in Nat
  <2>1. cli \in [Clients -> Nat] /\ deployed \in Int /\ peak \in Nat
    BY DEF TypeOK
  <2>2. EffectiveDailyMax <= peak
    BY DEF CapInv
  <2> QED
    BY <2>1, <2>2, Amounts
<1>3. EffectiveDailyMax \in Nat
  BY CeilingType DEF TypeOK, EffectiveDailyMax
<1>4. amt <= MaxCost /\ \A x \in Clients : cli[x] <= MaxCost
  BY SpendIs
<1>5. amt' <= MaxCost /\ \A x \in Clients : cli'[x] <= MaxCost
  BY <1>1, <1>2, <1>4
<1>6. Pending' = Pending /\ Pending \in Nat /\ Pending <= MaxCost + Slip
  BY <1>1, <1>4, PendingType DEF Pending
<1>7. Others(c)' = Others(c)
  BY <1>1, <1>2 DEF Others
<1>8. Exposed(c)' = cost + Slip + Fee
  BY <1>1, <1>2 DEF Exposed
<1> DEFINE x == Cardinality(Others(c)) * Whole
<1>9. x \in Nat /\ x + Whole <= Cap /\ Load(c)' = cost + Slip + Fee + x
  BY <1>7, <1>8, OthersFit DEF Load, Whole
<1>10. deployed' + Pending' + Load(c)' <= peak' + Slip + Cap
  <2> HIDE DEF x
  <2>1. Whole = MaxCost + Slip + Fee
    BY DEF Whole
  <2> QED
    BY <1>1, <1>2, <1>3, <1>6, <1>9, <2>1, CapType
<1> QED
  BY <1>5, <1>10 DEF SpendInv, Cap, Whole

\* A manual buy that is written: what it costs was counted.
LEMMA RecordManualKeeps ==
  ASSUME TypeOK, TypeOK', SpendInv,
         NEW c \in Clients, NEW slip \in 0 .. Slip, RecordManual(c, slip)
  PROVE  SpendInv'
<1>1. /\ cli' = [cli EXCEPT ![c] = 0] /\ amt' = amt /\ pc' = pc /\ cli[c] > 0
      /\ deployed' = deployed + cli[c] + slip + Fee /\ peak' = peak
  BY Zenon DEF RecordManual, exchange, engine, marks, db, seenBy
<1>2. /\ cli \in [Clients -> Nat] /\ deployed \in Int /\ peak \in Nat /\ cli[c] \in Nat
      /\ slip \in Nat /\ slip <= Slip /\ MaxCost \in Nat /\ Slip \in Nat /\ Fee \in Nat
  BY Amounts, SlipType DEF TypeOK
<1>3. amt <= MaxCost /\ \A x \in Clients : cli[x] <= MaxCost
  BY SpendIs
<1>4. amt' <= MaxCost /\ \A x \in Clients : cli'[x] <= MaxCost
  BY <1>1, <1>2, <1>3
<1>5. Pending' = Pending /\ Pending \in Nat
  BY <1>1, <1>3, PendingType DEF Pending
<1>6. \A x \in Clients : Load(x) \in Nat /\ Load(x) <= Cap
  <2>1. \A x \in Clients : cli[x] \in Nat
    BY <1>2
  <2> QED
    BY <2>1, <1>3, LoadFits
<1>7. PICK b \in Clients : deployed + Pending + Load(b) <= peak + Slip + Cap
  <2> DEFINE d == deployed + Pending
  <2>1. d \in Int /\ Within(d, peak)
    BY <1>2, <1>5, SpendIs
  <2> HIDE DEF d
  <2>2. \E b \in Clients : d + Load(b) <= peak + Slip + Cap
    BY <1>2, <1>6, <2>1, CapType DEF Within
  <2> QED
    BY <2>2 DEF d
<1>8. Load(b)' + cli[c] + slip + Fee <= Load(b) /\ Load(b)' \in Nat
  <2> DEFINE x == Cardinality(Others(b)) * Whole
  <2>1. CASE b = c
    <3>1. Others(b)' = Others(b) /\ Exposed(b)' = 0 /\ Exposed(b) = cli[c] + Slip + Fee
      BY <1>1, <1>2, <2>1 DEF Others, Exposed
    <3>2. Load(b) = cli[c] + Slip + Fee + x /\ Load(b)' = 0 + x /\ x \in Nat
      BY <3>1, OthersFit DEF Load, Whole
    <3> HIDE DEF x
    <3> QED
      BY <1>2, <3>2
  <2>2. CASE b # c
    <3>1. /\ Others(b)' = Others(b) \ {c} /\ c \in Others(b) /\ Exposed(b)' = Exposed(b)
      BY <1>1, <1>2, <2>2 DEF Others, Exposed
    <3> DEFINE k == Cardinality(Others(b))
               j == Cardinality(Others(b) \ {c})
    <3>2. IsFiniteSet(Others(b)) /\ IsFiniteSet(Others(b) \ {c})
      BY OthersFit, FS_Subset
    <3>3. k \in Nat /\ j \in Nat /\ j = k - 1
      BY <3>1, <3>2, FS_CardinalityType, FS_RemoveElement
    <3>4. Load(b) = Exposed(b) + k * Whole /\ Load(b)' = Exposed(b) + j * Whole
      BY <3>1 DEF Load, Whole
    <3>5. Exposed(b) \in Nat
      BY <1>2, <1>3, LoadFits
    <3> HIDE DEF k, j
    <3>6. k * Whole = j * Whole + Whole /\ j * Whole \in Nat
      <4>1. \A m, w \in Nat : (m + 1) * w = m * w + w /\ m * w \in Nat
        OBVIOUS
      <4>2. k = j + 1
        BY <3>3
      <4> QED
        BY <3>3, <4>1, <4>2, CapType
    <3> DEFINE y == j * Whole
               z == k * Whole
    <3>7. z = y + Whole /\ y \in Nat /\ Load(b) = Exposed(b) + z /\ Load(b)' = Exposed(b) + y
      BY <3>4, <3>6
    <3>8. Whole = MaxCost + Slip + Fee /\ cli[c] <= MaxCost
      BY <1>3 DEF Whole
    <3> HIDE DEF y, z
    <3> QED
      BY <1>2, <3>5, <3>7, <3>8
  <2> QED
    BY <2>1, <2>2
<1>9. deployed' + Pending' + Load(b)' <= peak' + Slip + Cap
  BY <1>1, <1>2, <1>5, <1>6, <1>7, <1>8, CapType
<1> QED
  BY <1>4, <1>9 DEF SpendInv, Cap, Whole

(* No step breaks what the overspending invariant says of the day's         *)
(* purchases and of the orders under way.                                   *)
LEMMA SpendStep ==
  ASSUME TypeOK, TypeOK', CapInv, SpendInv, [Next]_vars PROVE SpendInv'
<1>a. /\ amt \in Nat /\ deployed \in Int /\ peak \in Nat /\ pool' \in Nat
      /\ approved' \in Nat /\ deployed' \in Int /\ peak' \in Nat
  BY DEF TypeOK
<1>b. EffectiveDailyMax \in Nat /\ EffectiveDailyMax <= peak
  BY CeilingType DEF TypeOK, EffectiveDailyMax, CapInv
<1>c. MaxCost \in Nat /\ Slip \in Nat /\ Fee \in Nat
  BY Amounts
<1>d. amt <= MaxCost /\ \A c \in Clients : cli[c] <= MaxCost
  BY SpendIs
<1>e. Pending \in Nat
  BY <1>d, PendingType
<1>f. NotePeak => peak' >= peak
  BY <1>a, PeakCovers
\* Steps that leave the engine's order alone or drop it.
<1>s. ASSUME cli' = cli, amt' <= MaxCost, deployed' <= deployed, peak' >= peak,
             pc' = "checked" => pc = "checked" /\ amt' = amt
      PROVE  SpendInv'
  <2>1. Pending' \in Nat /\ Pending' <= Pending
    <3>1. CASE pc' = "checked"
      BY <1>e, <1>s, <3>1 DEF Pending
    <3>2. CASE pc' # "checked"
      BY <1>e, <3>2 DEF Pending
    <3> QED
      BY <3>1, <3>2
  <2>2. deployed' + Pending' <= deployed + Pending
    <3> DEFINE x == Pending
               y == Pending'
    <3>1. x \in Nat /\ y \in Nat /\ y <= x /\ deployed' <= deployed
      BY <1>e, <1>s, <2>1
    <3> HIDE DEF x, y
    <3>2. deployed' + y <= deployed + x
      <4>1. deployed \in Int /\ deployed' \in Int /\ x \in Int /\ y \in Int
        BY <1>a, <3>1
      <4> QED
        BY <3>1, <4>1, LessAndLess
    <3> QED
      BY <3>2 DEF x, y
  <2> QED
    BY <1>s, <2>2, SpendKept
<1> USE DEF exchange, engine, marks, db, seenBy
<1>1. ASSUME NEW cost \in 1..MaxCost, CheckBuy(cost) PROVE SpendInv'
  <2>1. /\ cli' = cli /\ amt' = cost /\ pc' = "checked" /\ deployed' = deployed /\ peak' = peak
        /\ cost <= EffectiveDailyMax - deployed
    BY <1>1 DEF CheckBuy, CanDeploy
  <2>2. cost \in Nat /\ cost <= MaxCost
    BY <1>c
  <2>3. Pending' = cost + Slip
    BY <2>1 DEF Pending
  <2>4. deployed' + Pending' <= peak' + Slip
    BY <1>a, <1>b, <1>c, <2>1, <2>2, <2>3
  <2> QED
    BY <1>d, <2>1, <2>2, <2>4, SpendUnder
<1>2. ASSUME NEW slip \in 0..Slip, RecordBuy(slip) PROVE SpendInv'
  <2>1. /\ cli' = cli /\ amt' = 0 /\ pc = "checked" /\ pc' = "recorded" /\ peak' = peak
        /\ deployed' = deployed + amt + slip
    BY <1>2 DEF RecordBuy
  <2>2. slip \in Nat /\ slip <= Slip
    BY SlipType
  <2>3. Pending = amt + Slip /\ Pending' = 0
    BY <2>1 DEF Pending
  <2>4. deployed' + Pending' <= deployed + Pending /\ amt' <= MaxCost /\ peak' >= peak
    BY <1>a, <1>c, <2>1, <2>2, <2>3
  <2> QED
    BY <2>1, <2>4, SpendKept
<1>3. CASE ConsumeRolled
  <2>1. cli' = cli /\ amt' = amt /\ pc' = "idle" /\ deployed' = deployed /\ NotePeak
    BY <1>3 DEF ConsumeRolled
  <2> QED
    BY <1>a, <1>d, <1>f, <1>s, <2>1
<1>4. CASE HandleFill
  <2>1. cli' = cli /\ amt' = amt /\ pc' = pc /\ deployed' = deployed - Fee /\ peak' = peak
    BY <1>4 DEF HandleFill
  <2>2. deployed' <= deployed /\ peak' >= peak
    BY <1>a, <1>c, <2>1
  <2> QED
    BY <1>d, <1>s, <2>1, <2>2
<1>5. ASSUME NEW c \in Clients, NEW cost \in 1..MaxCost, CheckManual(c, cost) PROVE SpendInv'
  BY <1>5, CheckManualKeeps
<1>6. ASSUME NEW c \in Clients, NEW slip \in 0..Slip, RecordManual(c, slip) PROVE SpendInv'
  BY <1>6, RecordManualKeeps
<1>7. ASSUME NEW a \in Approvals, Approve(a) PROVE SpendInv'
  <2>1. cli' = cli /\ amt' = amt /\ pc' = pc /\ deployed' = deployed /\ NotePeak
    BY <1>7 DEF Approve
  <2> QED
    BY <1>a, <1>d, <1>f, <1>s, <2>1
<1>8. CASE AutoApprove
  <2>1. cli' = cli /\ amt' = amt /\ pc' = pc /\ deployed' = deployed /\ NotePeak
    BY <1>8 DEF AutoApprove
  <2> QED
    BY <1>a, <1>d, <1>f, <1>s, <2>1
<1>9. CASE Poll \/ AdvanceMarket \/ Start \/ HandleSession \/ CreditDay \/ RollDay
  <2>1. /\ cli' = cli /\ amt' = amt /\ deployed' = deployed /\ peak' = peak
        /\ pc' = "checked" => pc = "checked"
    BY <1>9 DEF Poll, AdvanceMarket, Start, HandleSession, CreditDay, RollDay
  <2> QED
    BY <1>a, <1>d, <1>s, <2>1
<1>11. CASE CreditPool
  <2>1. cli' = cli /\ amt' = amt /\ pc' # "checked" /\ deployed' = deployed /\ NotePeak
    BY <1>11 DEF CreditPool
  <2> QED
    BY <1>a, <1>d, <1>f, <1>s, <2>1
<1>13. CASE RollPool
  <2>1. cli' = cli /\ amt' = amt /\ pc' # "checked" /\ deployed' = deployed /\ NotePeak
    BY <1>13 DEF RollPool
  <2> QED
    BY <1>a, <1>d, <1>f, <1>s, <2>1
<1>15. CASE Crash
  <2>1. cli' = cli /\ amt' = 0 /\ pc' = "idle" /\ deployed' = deployed /\ peak' = peak
    BY <1>15 DEF Crash
  <2> QED
    BY <1>a, <1>c, <1>s, <2>1
<1>18. CASE NextDay
  <2>1. /\ cli' = cli /\ amt' = amt /\ pc' = pc /\ deployed' = 0 /\ peak' = EffectiveDailyMax
    BY <1>18, Zenon DEF NextDay
  <2>2. pc = "idle"
    BY <1>18 DEF NextDay, Settled, CapInv
  <2>3. Pending' = 0
    BY <2>1, <2>2 DEF Pending
  <2>4. deployed' + Pending' <= peak' + Slip
    BY <1>b, <1>c, <2>1, <2>3
  <2> QED
    BY <1>d, <2>1, <2>4, SpendUnder
<1>19. CASE UNCHANGED vars
  <2>1. cli' = cli /\ amt' = amt /\ pc' = pc /\ deployed' = deployed /\ peak' = peak
    BY <1>19 DEF vars
  <2> QED
    BY <1>a, <1>d, <1>s, <2>1
<1> QED
  BY <1>1, <1>2, <1>3, <1>4, <1>5, <1>6, <1>7, <1>8, <1>9, <1>11,
     <1>13, <1>15, <1>18, <1>19
  DEF Next, Buy, Dashboard, Session

(* A day starts with nothing spent and no order under way.                  *)
LEMMA InitSpend == ASSUME Init, TypeOK PROVE SpendInv
<1>1. amt = 0 /\ pc = "idle" /\ deployed = 0 /\ peak = EnvMax /\ \A c \in Clients : cli[c] = 0
  BY DEF Init
<1>2. Pending = 0
  BY <1>1 DEF Pending
<1> QED
  BY <1>1, <1>2, Amounts DEF SpendInv

-------------------------------------------------------------------------------
(* The theorems.                                                             *)

\* The inductive invariant of the budget gate (on_event's deploy section, the
\* stipend and the rollover, and everything that interleaves with them).
THEOREM BudgetInvariance == Spec => []BudgetInv
<1>1. Init => BudgetInv
  BY InitBudget, InitSpend DEF BudgetInv
<1>2. BudgetInv /\ [Next]_vars => BudgetInv'
  BY TypeStep, CapStep, OnceStep, SpendStep DEF BudgetInv, CapInv
<1> QED
  BY <1>1, <1>2, PTL DEF Spec

\* Types: the approved maximum and the rolled pool never go negative.
THEOREM BudgetTypes == Spec => []TypeOK
<1>1. BudgetInv => TypeOK
  BY DEF BudgetInv
<1> QED
  BY <1>1, BudgetInvariance, PTL

\* The engine alone keeps the daily cap up to the slippage of one order.
THEOREM EngineCap == Spec => []EngineKeepsCap
<1>1. BudgetInv => EngineKeepsCap
  BY DEF BudgetInv, CapInv, EngineKeepsCap
<1> QED
  BY <1>1, BudgetInvariance, PTL

\* credit_daily_stipend_on_open and rollover_at_session_close act once a day,
\* and once more for each crash between their two commits at the most.
THEOREM StipendOnce == Spec => []OncePerDay
<1>1. BudgetInv => OncePerDay
  BY DEF BudgetInv, OnceInv
<1> QED
  BY <1>1, BudgetInvariance, PTL

\* With manual buys racing the engine, the day's purchases exceed the highest
\* ceiling of the day by the slippage of one order and by one stale order for
\* every buy the dashboard serves at a time, however many it serves
\* (execute_manual_paper_buy checks and writes without the deploy lock).
THEOREM OverspendIsBounded == Spec => []OverspendBounded
<1>1. BudgetInv => OverspendBounded
  <2> SUFFICES ASSUME BudgetInv PROVE OverspendBounded
    OBVIOUS
  <2>1. TypeOK /\ amt <= MaxCost /\ \A c \in Clients : cli[c] <= MaxCost
    BY SpendIs DEF BudgetInv
  <2>2. deployed \in Int /\ peak \in Nat /\ \A c \in Clients : cli[c] \in Nat
    BY <2>1 DEF TypeOK
  <2>3. Pending \in Nat /\ \A c \in Clients : Load(c) \in Nat
    BY <2>1, <2>2, PendingType, LoadFits
  <2>4. Within(deployed + Pending, peak)
    BY SpendIs DEF BudgetInv
  <2>5. deployed <= peak + Slip + Cap
    BY <2>2, <2>3, <2>4, CapType, Amounts DEF Within
  <2> QED
    BY <2>5 DEF OverspendBounded, Cap, Whole
<1> QED
  BY <1>1, BudgetInvariance, PTL
===============================================================================
