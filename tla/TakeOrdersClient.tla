-------------------------- MODULE TakeOrdersClient --------------------------
(***************************************************************************)
(* The client that builds the calldata of takeOrders5                      *)
(* (crates/common/src/raindex_client/take_orders and                       *)
(* crates/common/src/take_orders): it picks the Raindex and the orders     *)
(* that serve a request best, checks the taker's allowance, simulates the  *)
(* transaction on an RPC, and drops what makes the simulation fail.        *)
(*                                                                         *)
(* Amounts are counted in ticks, Unit ticks to a base unit of a token, and *)
(* ratios in halves, so that every product and quotient of the model is    *)
(* exact, as it is in the Floats of the code up to their precision.        *)
(* Candidates and Raindexes are numbers: the order of the candidate list   *)
(* and of the addresses.                                                   *)
(***************************************************************************)
EXTENDS Integers, Sequences, FiniteSetsExt

CONSTANTS
    Request,   \* the requests and the worlds they meet, see Init
    MaxFlakes  \* bound: simulations that an RPC fails for no reason

Modes == {"BuyExact", "BuyUpTo", "SpendExact", "SpendUpTo"}

Quotes == [raindex : Nat \ {0}, ratio : Nat, max : Nat, ok : BOOLEAN]

ASSUME ClientAssumption ==
    /\ MaxFlakes \in Nat
    /\ \A r \in Request :
          /\ r.mode \in Modes /\ r.amount \in Nat /\ r.cap \in Nat /\ r.quotes \in Seq(Quotes)
          /\ r.balance \in Nat /\ \A c \in DOMAIN r.quotes : r.allowance[r.quotes[c].raindex] \in Nat

Unit == 12

VARIABLES
    req,        \* the request: mode, amount, cap; and what it meets: the
                \* quotes, the orders that revert (bad), the orders that share
                \* a vault (shared), the taker's balance and allowances
    remaining,  \* remaining_candidates
    built,      \* the selected Raindex, its legs and their totals
    checked,    \* approval_checked_raindex, 0 for none
    iteration,
    at,         \* step of the loop: [pc, idx, try]
    flakes,
    result

vars == <<req, remaining, built, checked, iteration, at, flakes, result>>

NoResult == [kind |-> "none"]

is_buy_mode == req.mode \in {"BuyExact", "BuyUpTo"}

is_exact_mode == req.mode \in {"BuyExact", "SpendExact"}

\* try_build_candidate: a failed quote, an index out of bounds or the other
\* direction (not ok), or no capacity, is no candidate.
Candidates(quotes) == {c \in DOMAIN quotes : quotes[c].ok /\ quotes[c].max > 0}

-----------------------------------------------------------------------------
(* Selection. *)

Smaller(a, b) == IF a <= b THEN a ELSE b

take_leg_for_buy(c, rest) ==
    LET output == Smaller(req.quotes[c].max, rest)
    IN  [c |-> c, input |-> (output * req.quotes[c].ratio) \div 2, output |-> output]

take_leg_for_spend(c, rest) ==
    LET q     == req.quotes[c]
        input == Smaller((q.max * q.ratio) \div 2, rest)
    IN  IF q.ratio = 0 THEN [c |-> c, input |-> 0, output |-> q.max]
        ELSE [c |-> c, input |-> input, output |-> (2 * input) \div q.ratio]

\* A leg of nothing is not taken.
take_leg(c, rest) == IF is_buy_mode THEN take_leg_for_buy(c, rest) ELSE take_leg_for_spend(c, rest)

\* filter_candidates_by_price_cap
Priced(S) == {c \in S : req.quotes[c].ratio <= req.cap}

\* What comes last after sort_candidates_by_price, which is stable.
Last(S) ==
    LET before(a, b) == \/ req.quotes[a].ratio < req.quotes[b].ratio
                        \/ req.quotes[a].ratio = req.quotes[b].ratio /\ a < b
    IN  CHOOSE c \in S : \A d \in S \ {c} : before(d, c)

\* apply_leg_for_buy and apply_leg_for_spend, from the best price on until nothing is
\* left to fill.
AddLeg(sim, c) ==
    LET leg == take_leg(c, sim.rest)
    IN  IF sim.rest <= 0 \/ leg.output <= 0 THEN sim
        ELSE [legs   |-> Append(sim.legs, leg),
              input  |-> sim.input + leg.input,
              output |-> sim.output + leg.output,
              rest   |-> sim.rest - IF is_buy_mode THEN leg.output ELSE leg.input]

simulate_candidates(S) ==
    MapThenFoldSet(LAMBDA c, sim : AddLeg(sim, c),
                   [legs |-> <<>>, input |-> 0, output |-> 0, rest |-> req.amount],
                   LAMBDA c : c, Last, Priced(S))

LegCandidates(sim) == {sim.legs[i].c : i \in DOMAIN sim.legs}

worst_price(sim) == Max({req.quotes[c].ratio : c \in LegCandidates(sim)})

\* What the request asks for (build_take_orders_config_from_simulation).
Achieved(sim) == IF is_buy_mode THEN sim.output ELSE sim.input

selection_primary(sim) == IF req.mode = "SpendExact" THEN sim.input ELSE sim.output

\* is_better of select_best_raindex_simulation; both have legs.
Better(r, s, q, t) ==
    LET a == <<selection_primary(s), s.output, -worst_price(s), -r>>
        b == <<selection_primary(t), t.output, -worst_price(t), -q>>
    IN  \E i \in 1..4 : a[i] > b[i] /\ \A j \in 1..(i - 1) : a[j] = b[j]

Failed(why) == [ok |-> FALSE, why |-> why]

\* select_best_raindex_simulation and build_take_orders_config_from_simulation
\* of the candidates S.
Build(S) ==
    LET raindexes == {req.quotes[c].raindex : c \in S}
        sim   == [r \in raindexes |-> simulate_candidates({c \in S : req.quotes[c].raindex = r})]
        some  == {r \in raindexes : sim[r].legs # <<>>}
        best  == CHOOSE r \in some : \A q \in some : ~Better(q, sim[q], r, sim[r])
    IN  IF some = {} THEN Failed("NoLiquidity")
        ELSE IF is_exact_mode /\ Achieved(sim[best]) < req.amount
        THEN Failed("InsufficientLiquidity")
        ELSE [ok |-> TRUE, raindex |-> best, sim |-> sim[best]]

-----------------------------------------------------------------------------
(* The chain at the block of the request. *)

\* calculate_max_sell_cap, and what an allowance is compared with: the base
\* units that it fills.
calculate_max_sell_cap == IF is_buy_mode THEN (req.amount * req.cap) \div 2 ELSE req.amount

Required == calculate_max_sell_cap \div Unit

\* pullTokens of the contract rounds up.
Pulled(sim) == (sim.input + Unit - 1) \div Unit

\* A take with these orders reverts: one of them does, the allowance or the
\* balance is too small, or two that share a vault miss the minimum together.
Reverts(raindex, sim, minimum) ==
    \/ LegCandidates(sim) \cap req.bad # {}
    \/ Pulled(sim) > Smaller(req.allowance[raindex], req.balance)
    \/ minimum /\ Cardinality(LegCandidates(sim) \cap req.shared) > 1

BuiltReverts == Reverts(built.raindex, built.sim, is_exact_mode)

\* single_order_probe_config: the order alone, without the minimum.
ProbeReverts(i) == Reverts(built.raindex, simulate_candidates({built.sim.legs[i].c}), FALSE)

\* An RPC answers with an error when the take reverts, and may fail otherwise.
Answer(reverts, err) ==
    /\ reverts => err
    /\ IF err /\ ~reverts THEN flakes < MaxFlakes /\ flakes' = flakes + 1 ELSE UNCHANGED flakes

-----------------------------------------------------------------------------
(* get_take_orders_calldata_with_injector. *)

Step(pc) == [pc |-> pc, idx |-> 1, try |-> 1]

Init ==
    /\ req \in Request
    /\ remaining = Candidates(req.quotes)
    /\ built = Failed("none")
    /\ checked = 0
    /\ iteration = 0
    /\ at = Step("select")
    /\ flakes = 0
    /\ result = NoResult

Finish(r) ==
    /\ result' = r
    /\ at' = Step("done")
    /\ UNCHANGED <<req, remaining, built, checked, iteration>>

Error(why) == [kind |-> "error", why |-> why]

\* The first selection; no candidates end in NoLiquidity as well.
Select ==
    /\ at.pc = "select"
    /\ LET b == Build(remaining)
       IN  \/ ~b.ok /\ Finish(Error(b.why))
           \/ /\ b.ok
              /\ built' = b
              /\ at' = Step("approve")
              /\ UNCHANGED <<req, remaining, checked, iteration, result>>
    /\ UNCHANGED flakes

MaxIterations == Cardinality(Candidates(req.quotes))

\* Mutant: the allowance is checked for the first Raindex only.
NeedsCheck_once == checked = 0

NeedsCheck == checked # built.raindex

\* The head of the loop: the allowance for a Raindex that was not checked.
CheckApproval ==
    /\ at.pc = "approve"
    /\ IF iteration >= MaxIterations THEN Finish(Error("Exceeded")) /\ UNCHANGED flakes
       ELSE IF ~NeedsCheck
       THEN at' = Step("simulate") /\ UNCHANGED <<req, remaining, built, checked, iteration, flakes, result>>
       ELSE \E err \in BOOLEAN :
              /\ Answer(FALSE, err)
              /\ \/ err /\ Finish(Error("Rpc"))
                 \/ /\ ~err /\ req.allowance[built.raindex] < Required
                    /\ Finish([kind |-> "approval", raindex |-> built.raindex])
                 \/ /\ ~err /\ req.allowance[built.raindex] >= Required
                    /\ checked' = built.raindex
                    /\ at' = Step("simulate")
                    /\ UNCHANGED <<req, remaining, built, iteration, result>>

Ready == Finish([kind |-> "ready", built |-> built])

\* simulate_take_orders of the built config; an error starts the diagnosis.
Simulate ==
    /\ at.pc = "simulate"
    /\ \E err \in BOOLEAN :
          /\ Answer(BuiltReverts, err)
          /\ \/ ~err /\ Ready
             \/ /\ err
                /\ at' = Step(IF Len(built.sim.legs) = 1 THEN "single" ELSE "probe")
                /\ UNCHANGED <<req, remaining, built, checked, iteration, result>>

\* The best of the candidates that remain, or the end of the call.
Rebuild(S) ==
    LET b == Build(S)
    IN  /\ remaining' = S
        /\ IF S = {} \/ ~b.ok
           THEN /\ result' = Error(IF S = {} THEN "AllFailed" ELSE b.why)
                /\ at' = Step("done")
                /\ UNCHANGED <<built, iteration>>
           ELSE /\ built' = b
                /\ iteration' = iteration + 1
                /\ at' = Step("approve")
                /\ UNCHANGED result
        /\ UNCHANGED <<req, checked>>

rebuild_without_failing_leg(i) == Rebuild(remaining \ {built.sim.legs[i].c})

rebuild_without_raindex == Rebuild({c \in remaining : req.quotes[c].raindex # built.raindex})

\* Mutant: one failed probe condemns an order.
Tries_one == 1

\* Failures in a row that condemn an order.
Tries == 2

\* diagnose_take_orders_failure of one order: two more simulations of it.
DiagnoseSingle ==
    /\ at.pc = "single"
    /\ \E err \in BOOLEAN :
          /\ Answer(BuiltReverts, err)
          /\ \/ ~err /\ Ready
             \/ err /\ at.try >= Tries /\ rebuild_without_failing_leg(1)
             \/ /\ err /\ at.try < Tries
                /\ at' = [at EXCEPT !.try = @ + 1]
                /\ UNCHANGED <<req, remaining, built, checked, iteration, result>>

AfterProbes ==
    /\ at' = Step("whole")
    /\ UNCHANGED <<req, remaining, built, checked, iteration, result>>

\* Its probe of the order idx of several.
DiagnoseProbe ==
    /\ at.pc = "probe"
    /\ \E err \in BOOLEAN :
          /\ Answer(ProbeReverts(at.idx), err)
          /\ \/ err /\ at.try >= Tries /\ rebuild_without_failing_leg(at.idx)
             \/ /\ err /\ at.try < Tries
                /\ at' = [at EXCEPT !.try = @ + 1]
                /\ UNCHANGED <<req, remaining, built, checked, iteration, result>>
             \/ /\ ~err /\ at.idx < Len(built.sim.legs)
                /\ at' = [Step("probe") EXCEPT !.idx = at.idx + 1]
                /\ UNCHANGED <<req, remaining, built, checked, iteration, result>>
             \/ ~err /\ at.idx = Len(built.sim.legs) /\ AfterProbes

\* Its last simulation of all of them.
DiagnoseWhole ==
    /\ at.pc = "whole"
    /\ \E err \in BOOLEAN :
          /\ Answer(BuiltReverts, err)
          /\ IF err THEN rebuild_without_raindex ELSE Ready

Done == at.pc = "done" /\ UNCHANGED vars

Next ==
    \/ Select \/ CheckApproval \/ Simulate \/ DiagnoseSingle \/ DiagnoseProbe
    \/ DiagnoseWhole \/ Done

Spec == Init /\ [][Next]_vars

-----------------------------------------------------------------------------
\* "Preflight simulation to validate the transaction will succeed" (mod.rs):
\* calldata that is handed out goes through at the block it was made for, keeps
\* the price cap on every leg and maxSellCap on the whole, and fills an exact
\* request, also after orders were dropped, the Raindex changed or a failed
\* simulation recovered.
ReadyWillSucceed ==
    result.kind = "ready" =>
        LET b == result.built
        IN  /\ ~Reverts(b.raindex, b.sim, is_exact_mode)
            /\ req.allowance[b.raindex] >= Required
            /\ b.sim.input <= calculate_max_sell_cap
            /\ \A c \in LegCandidates(b.sim) : req.quotes[c].ratio <= req.cap
            /\ IF is_exact_mode THEN Achieved(b.sim) = req.amount
                                ELSE Achieved(b.sim) <= req.amount

\* The allowance that the check asks for covers what a take may pull.
CapIsWhole == calculate_max_sell_cap % Unit = 0

\* Orders that revert cost the request nothing but themselves, and neither does
\* one failure of an RPC: the calldata takes the best of the other orders, the
\* request fails only when those cannot serve it, and the loop never runs out of
\* iterations.  Left out are orders that share a vault, which can fail together
\* and take their Raindex along; a balance below the cap, which nothing checks
\* and orders are dropped for; and a cap of broken base units, for which the
\* allowance is rounded down and the contract's pull up.
BestOfHealthy ==
    at.pc = "done" /\ req.shared = {} /\ CapIsWhole /\ req.balance >= Required =>
        LET healthy == Build(Candidates(req.quotes) \ req.bad)
        IN  /\ result.kind = "ready" => result.built = healthy
            /\ result.kind = "error" /\ result.why # "Rpc" =>
                  ~healthy.ok /\ result.why # "Exceeded"
=============================================================================
