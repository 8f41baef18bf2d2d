------------------------------- MODULE LiveOrder -------------------------------
(***************************************************************************)
(* One entry after another on one hedge leg of a live account: the checks  *)
(* of Engine._process_intents, LiveBroker.submit with its confirmation     *)
(* polls, and the placement of stop and take-profits, interleaved at every *)
(* request with what the exchange does on its own.                         *)
(***************************************************************************)
EXTENDS ProtectionLegs

CONSTANTS
    OrderQty,       \* quantity of an entry, from the sizer
    ClosePct,       \* tp1_close_pct
    MaxOrders,      \* bound: entries of one behaviour
    MaxPolls,       \* _CONFIRM_ATTEMPTS
    RequestFails,   \* a request of submit or a position query may raise
    TriggerFails,   \* a request for a stop or take-profit order may raise
    VerifyFails,    \* the verification query alone may raise
    AccountFails,   \* account() may miss the open position
    SlDropped,      \* a fill may not leave the bundled stop on the position
    PartialFills,   \* an order may fill in parts
    LateFills       \* an order may fill after the last confirmation poll

ASSUME OrderAssumption == OrderQty \in Nat \ {0} /\ ClosePct \in Nat
ASSUME BoundAssumption == MaxOrders \in Nat \ {0} /\ MaxPolls \in Nat \ {0}
ASSUME FaultAssumption ==
    {RequestFails, TriggerFails, VerifyFails, AccountFails, SlDropped,
     PartialFills, LateFills} \subseteq BOOLEAN

VARIABLES
    qty, epoch,       \* the position: its quantity and its positionId
    left,             \* what of each accepted order is not filled yet
    slFull, slQty,    \* resting stops: for the whole position, for a quantity
    tps,              \* resting take-profits, by order and leg
    pc,               \* where the engine stands
    orders,           \* entries sent so far
    base,             \* baseline_qty
    best, pid,        \* best_delta and the positionId seen
    polls,            \* turns of the polling loop
    bundledOk,        \* bundled_protection_ok
    size, next,       \* pos_qty of the placement and the leg to place next
    mishaps           \* what went wrong so far (read by properties only)

exchangeVars == <<qty, epoch, left, slFull, slQty, tps>>
callVars == <<base, best, pid, polls, bundledOk, size, next>>
vars == <<exchangeVars, pc, orders, callVars, mishaps>>

\* "request": an order was accepted and its outcome not seen to the end,
\* "account": the open position was overlooked, "late": an order filled, or filled
\* further, once its confirmation was over, "stop" and "tp": a trigger order was
\* refused, "cut": a stop for a quantity left a rest of the position.
Mishaps == {"request", "account", "late", "stop", "tp", "cut"}
Note(m) == mishaps' = mishaps \union {m}

Orders == 1 .. MaxOrders
LegKeys == Orders \X (1 .. 2)
Nothing == [k \in LegKeys |-> 0]

\* The take-profits placed on a position of total; a plan has one leg or two.
Normalize(plan, total) ==
    LET first == PlaceLeg(NoLegs, plan[1], total)
        both == IF Len(plan) = 1 THEN first ELSE PlaceLeg(first, plan[2], total)
    IN FoldDust(both, total)

\* Mutant: the planned legs are sent as they are.
LegsToPlaceUnclipped == PlanLegs(OrderQty, ClosePct)
LegsToPlace == Normalize(PlanLegs(OrderQty, ClosePct), size)

Init ==
    /\ qty = 0 /\ epoch = 0 /\ left = [o \in Orders |-> 0]
    /\ slFull = FALSE /\ slQty = 0 /\ tps = Nothing
    /\ pc = "idle" /\ orders = 0
    /\ base = 0 /\ best = 0 /\ pid = 0 /\ polls = 0 /\ bundledOk = FALSE
    /\ size = 0 /\ next = 1
    /\ mishaps = {}

--------------------------------------------------------------------------------
(* The engine.                                                             *)

GoTo(l) == pc' = l
\* The call is over: its local variables are gone.
Leave(l) ==
    /\ pc' = l
    /\ base' = 0 /\ best' = 0 /\ pid' = 0 /\ polls' = 0 /\ bundledOk' = FALSE
    /\ size' = 0 /\ next' = 1

\* Mutant: the account is not asked whether the coin is open.
EnterUnchecked ==
    /\ pc = "idle" /\ orders < MaxOrders
    /\ GoTo("baseline")
    /\ UNCHANGED <<exchangeVars, orders, callVars, mishaps>>
\* A first entry, on an account that shows no position on the coin.
Enter ==
    /\ pc = "idle" /\ orders < MaxOrders
    /\ \/ qty = 0 /\ UNCHANGED mishaps
       \/ qty > 0 /\ AccountFails /\ Note("account")
    /\ GoTo("baseline")
    /\ UNCHANGED <<exchangeVars, orders, callVars>>

\* _position_snapshot: the position of the hedge leg and its positionId.
Snapshot == [qty |-> qty, id |-> epoch]

Baseline ==
    /\ pc = "baseline"
    /\ base' = Snapshot.qty
    /\ GoTo("place")
    /\ UNCHANGED <<exchangeVars, orders, best, pid, polls, bundledOk, size, next,
                   mishaps>>

\* place_order with the stop bundled; a raised request may have been accepted.
Place ==
    /\ pc = "place"
    /\ orders' = orders + 1
    /\ \/ /\ left' = [left EXCEPT ![orders + 1] = OrderQty]
          /\ GoTo("confirm")
          /\ UNCHANGED <<callVars, mishaps>>
       \/ /\ RequestFails
          /\ \/ UNCHANGED <<left, mishaps>>
             \/ left' = [left EXCEPT ![orders + 1] = OrderQty] /\ Note("request")
          /\ Leave("idle")
    /\ UNCHANGED <<qty, epoch, slFull, slQty, tps>>

\* Without late fills an order is matched before the last poll.
MatchedInTime == LateFills \/ polls + 1 < MaxPolls \/ left[orders] = 0

\* Mutant: one attempt too many.
LastPollOffByOne == polls = MaxPolls
LastPoll == polls + 1 = MaxPolls

CountPoll == polls' = polls + 1

\* One poll of _confirm_open: "delta >= threshold and delta > 0".
Confirmed(delta) == delta > 0 /\ 2 * delta >= OrderQty
Confirm ==
    LET delta == Snapshot.qty - base
        seenBetter == delta > best
    IN
    /\ pc = "confirm"
    /\ MatchedInTime
    /\ \/ /\ Confirmed(delta) \/ (LastPoll /\ (best > 0 \/ seenBetter))
          /\ GoTo("verify")
          /\ polls' = 0
          /\ best' = IF seenBetter THEN delta ELSE best
          /\ pid' = IF seenBetter THEN Snapshot.id ELSE pid
          /\ UNCHANGED <<base, bundledOk, size, next>>
       \/ /\ ~Confirmed(delta) /\ ~LastPoll
          /\ CountPoll
          /\ best' = IF seenBetter THEN delta ELSE best
          /\ pid' = IF seenBetter THEN Snapshot.id ELSE pid
          /\ UNCHANGED <<pc, base, bundledOk, size, next>>
       \/ \* "order accepted but no position appeared on exchange"
          /\ ~Confirmed(delta) /\ LastPoll /\ best = 0 /\ ~seenBetter
          /\ Leave("idle")
    /\ UNCHANGED <<exchangeVars, orders, mishaps>>

\* A request of submit raises: the order is reported REJECTED.
SubmitRaises ==
    /\ RequestFails
    /\ pc \in {"baseline", "confirm"}
    /\ IF pc = "confirm" THEN Note("request") ELSE UNCHANGED mishaps
    /\ Leave("idle")
    /\ UNCHANGED <<exchangeVars, orders>>

Resting(p) ==
    p = epoch /\ qty > 0 /\ (slFull \/ slQty > 0 \/ tps # Nothing)

\* Mutant: a failed verification counts as verified.
VerifyTrusted ==
    /\ pc = "verify"
    /\ bundledOk' \in {Resting(pid)} \union IF VerifyFails THEN {TRUE} ELSE {}
    /\ GoTo("resolve")
    /\ UNCHANGED <<exchangeVars, orders, base, best, pid, polls, size, next,
                   mishaps>>
\* bundled_ok: at least one order rests for the position; -1 when the query fails.
Verify ==
    /\ pc = "verify"
    /\ bundledOk' \in {Resting(pid)} \union IF VerifyFails THEN {FALSE} ELSE {}
    /\ GoTo("resolve")
    /\ UNCHANGED <<exchangeVars, orders, base, best, pid, polls, size, next,
                   mishaps>>

\* _resolve_position of place_exchange_protections, with the stop only when the
\* bundled one is not verified.
Resolve ==
    /\ pc = "resolve"
    /\ \/ /\ Snapshot.qty > 0
          /\ size' = Snapshot.qty /\ pid' = Snapshot.id
          /\ GoTo(IF bundledOk THEN "tp" ELSE "sl")
          /\ UNCHANGED <<base, best, polls, bundledOk, next>>
       \/ /\ Snapshot.qty = 0 /\ ~LastPoll
          /\ CountPoll
          /\ UNCHANGED <<pc, base, best, pid, bundledOk, size, next>>
       \/ Snapshot.qty = 0 /\ LastPoll /\ Leave("idle")
    /\ UNCHANGED <<exchangeVars, orders, mishaps>>

\* It does not catch a failed request: the exception ends the run.
ResolveRaises ==
    /\ RequestFails /\ pc = "resolve"
    /\ Leave("failed")
    /\ Note("request")
    /\ UNCHANGED <<exchangeVars, orders>>

\* A trigger order is taken while its position is open; any of its failures is
\* logged and the placement goes on.
Attached == pid = epoch /\ qty > 0

PlaceSl ==
    /\ pc = "sl"
    /\ \/ /\ Attached
          /\ slQty' = IF RoundQty(size) > 0 THEN RoundQty(size) ELSE size
          /\ UNCHANGED mishaps
       \/ (~Attached \/ TriggerFails) /\ UNCHANGED slQty /\ Note("stop")
    /\ GoTo("tp")
    /\ UNCHANGED <<qty, epoch, left, slFull, tps, orders, callVars>>

PlaceTp ==
    /\ pc = "tp"
    /\ next <= Len(LegsToPlace)
    /\ \/ Attached /\ tps' = [tps EXCEPT ![<<orders, next>>] = LegsToPlace[next]]
          /\ UNCHANGED mishaps
       \/ (~Attached \/ TriggerFails) /\ UNCHANGED tps /\ Note("tp")
    /\ next' = next + 1
    /\ UNCHANGED <<qty, epoch, left, slFull, slQty, pc, orders, base, best, pid,
                   polls, bundledOk, size>>

PlacementDone ==
    /\ pc = "tp"
    /\ next > Len(LegsToPlace)
    /\ Leave("idle")
    /\ UNCHANGED <<exchangeVars, orders, mishaps>>

EngineStep ==
    \/ Baseline \/ Place \/ Confirm \/ SubmitRaises \/ Verify
    \/ Resolve \/ ResolveRaises \/ PlaceSl \/ PlaceTp \/ PlacementDone

--------------------------------------------------------------------------------
(* The exchange.                                                           *)

\* An accepted order fills; with the fill comes the stop it carries.
Fill(o) ==
    /\ left[o] > 0
    /\ \E n \in 1 .. left[o] :
        /\ PartialFills \/ n = left[o]
        /\ qty' = qty + n
        /\ left' = [left EXCEPT ![o] = @ - n]
    /\ epoch' = IF qty = 0 THEN epoch + 1 ELSE epoch
    /\ slFull' \in {TRUE} \union IF SlDropped THEN {slFull} ELSE {}
    /\ IF pc = "confirm" /\ o = orders THEN UNCHANGED mishaps ELSE Note("late")
    /\ UNCHANGED <<slQty, tps, pc, orders, callVars>>

\* n of the position is closed; a flat position loses its trigger orders.
Reduce(n, restingTps, restingSl) ==
    /\ qty' = qty - n
    /\ IF n = qty
       THEN slFull' = FALSE /\ slQty' = 0 /\ tps' = Nothing
       ELSE slFull' = slFull /\ slQty' = restingSl /\ tps' = restingTps
    /\ UNCHANGED <<epoch, left, pc, orders, callVars>>

TakeProfitHit(k) ==
    /\ qty > 0 /\ tps[k] > 0
    /\ Reduce(Least(tps[k], qty), [tps EXCEPT ![k] = 0], slQty)
    /\ UNCHANGED mishaps

\* A stop for a quantity, smaller than a position that grew, leaves the rest.
StopHit ==
    /\ qty > 0
    /\ slFull \/ slQty > 0
    /\ Reduce(IF slFull THEN qty ELSE Least(slQty, qty), tps, 0)
    /\ IF qty' > 0 THEN Note("cut") ELSE UNCHANGED mishaps

UserCloses == qty > 0 /\ Reduce(qty, Nothing, 0) /\ UNCHANGED mishaps

ExchangeStep ==
    \/ \E o \in Orders : Fill(o)
    \/ \E k \in LegKeys : TakeProfitHit(k)
    \/ StopHit \/ UserCloses

Next == Enter \/ EngineStep \/ ExchangeStep

Spec == Init /\ [][Next]_vars

--------------------------------------------------------------------------------
(* Properties                                                              *)

TypeOK ==
    /\ qty \in Nat /\ epoch \in Nat /\ slQty \in Nat /\ slFull \in BOOLEAN
    /\ left \in [Orders -> 0 .. OrderQty]
    /\ tps \in [LegKeys -> Nat]
    /\ pc \in {"idle", "baseline", "place", "confirm", "verify", "resolve",
                "sl", "tp", "failed"}
    /\ orders \in 0 .. MaxOrders
    /\ base \in Nat /\ best \in Nat /\ pid \in 0 .. epoch
    /\ polls \in 0 .. MaxPolls - 1
    /\ bundledOk \in BOOLEAN
    /\ size \in Nat /\ next \in 1 .. 3
    /\ mishaps \in SUBSET Mishaps

\* "If the bundled SL did not verify on the exchange, we fall back to placing the
\* full plan [...] so the position is never left unprotected" (engine.py:818-820):
\* when the engine has turned to the next event, a stop covers all of an open
\* position.
Protected == (pc \in {"idle", "failed"} /\ qty > 0) => slFull \/ slQty >= qty
NeverUnprotected == Protected

\* That much holds until the stop of the fallback is refused, an order is lost
\* sight of or fills too late, or a position is overlooked: whatever the
\* verification answers, however little of the order fills, wherever the exchange
\* drops the bundled stop, and whichever take-profits hit or are refused.
ProtectedUntilMishap == mishaps \subseteq {"tp"} => Protected

\* One coin is never entered twice, so the position is no larger than one order,
\* until an order is lost sight of or fills once its confirmation is over, or an
\* open position is overlooked.
ExposureBounded == mishaps \subseteq {"stop", "tp"} => qty <= OrderQty

TpsOf(o) == tps[<<o, 1>>] + tps[<<o, 2>>]
NoOtherTps(o) == \A k \in LegKeys : k[1] # o => tps[k] = 0

\* The resting take-profits are those of one entry and never add up to more than
\* the position, although they are placed one request at a time and the first may
\* have hit before the second is sent, the order fills in parts, earlier orders fill
\* late and requests fail; only a stop that covered less than the position leaves
\* them too large, or a second set of them on a position that was overlooked.
TpsWithinPosition ==
    mishaps \intersect {"cut", "account"} = {} =>
        \E o \in Orders : NoOtherTps(o) /\ TpsOf(o) <= qty

\* After the placement the take-profits close all of a position that the minimum
\* volume lets be closed, although the plan was made for the whole order: when only
\* a part of it filled the legs are clipped and the dust is folded in, and when the
\* first leg hits while the second is on its way they still add up.
ExitsCoverPosition ==
    mishaps \subseteq {"stop"} =>
        ((pc = "idle" /\ qty >= MinQty) =>
            \E o \in Orders : NoOtherTps(o) /\ TpsOf(o) = qty)
================================================================================
