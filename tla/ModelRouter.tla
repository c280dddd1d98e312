----------------------------- MODULE ModelRouter -----------------------------
(***************************************************************************)
(* Model calls of one process: _route_with_fallback, _wait_rate and        *)
(* _locally_limited_call of app/llm/router.py with the call budgets of     *)
(* app/llm/budget.py, as the queries of a process without a shared runtime *)
(* make them, several at a time.                                           *)
(*                                                                         *)
(* Time is counted in ticks, and every clock reading is kept as the time   *)
(* that has passed, or has to pass, since it was taken.                    *)
(***************************************************************************)
EXTENDS Integers, Sequences, FiniteSets

CONSTANTS Call,      \* concurrent calls
          Streamed,  \* those that are streamed
          Provider,
          Chain,     \* providers of the model and of the fallback chain
          Rpm,       \* [Provider -> Nat], 0 is unlimited
          Window,    \* a minute
          Retries,   \* min(max(0, max_retries), 3)
          Backoff,   \* ticks between attempts
          Cooldown,  \* ticks a provider is left alone
          Permits,   \* max(1, max_concurrency)
          Budget,    \* call budgets: of queries, and of callers inside one
          BudgetsOf, \* [Call -> SUBSET Budget]
          Limit      \* [Budget -> Nat]

ASSUME RouterAssumption ==
    /\ Streamed \subseteq Call
    /\ Chain \in Seq(Provider)
    /\ Rpm \in [Provider -> Nat] /\ Limit \in [Budget -> Nat]
    /\ BudgetsOf \in [Call -> SUBSET Budget]
    /\ {Retries, Backoff, Cooldown} \subseteq Nat /\ {Window, Permits} \subseteq Nat \ {0}

VARIABLES
    await,    \* [Call -> Await], where a call stands
    pos,      \* [Call -> Nat], position in the chain
    attempt,  \* [Call -> 0 .. Retries]
    wait,     \* [Call -> Nat], ticks left to sleep
    permits,  \* calls that hold a permit of gate("llm-calls")
    status,   \* [Provider -> Status], _provider_status
    cooling,  \* [Provider -> Nat], ticks until _retry_after, 0 if it is not set
    window,   \* [Provider -> Seq(Age)], the slots in _rate_windows, oldest first
    spent,    \* [Budget -> Nat], _llm_call_count
    reached,  \* history: [Budget -> Nat], attempts at a provider that were begun
    slots     \* history: [Provider -> Seq(Age)], every slot taken, oldest first

place     == <<await, pos, attempt, wait>>
providers == <<status, cooling>>
routerVars == <<place, permits, providers, window, spent, reached, slots>>

Await  == {"idle", "choose", "rate", "permit", "call", "stream", "over"}
Status == {"unknown", "good", "bad"}
Age    == 0 .. Window \* Window: a minute or more

RouterTypeOK ==
    /\ await \in [Call -> Await]
    /\ pos \in [Call -> 1 .. Len(Chain) + 1]
    /\ attempt \in [Call -> 0 .. Retries]
    /\ wait \in [Call -> 0 .. Window + Backoff]
    /\ permits \subseteq {c \in Call : await[c] \in {"call", "stream"}}
    /\ Cardinality(permits) <= Permits
    /\ status \in [Provider -> Status]
    /\ cooling \in [Provider -> 0 .. Cooldown]
    /\ \A p \in Provider : status[p] # "bad" => cooling[p] = 0
    /\ \A p \in Provider : /\ window[p] \in Seq(Age)
                           /\ Len(window[p]) <= Rpm[p]
    /\ spent \in [Budget -> Nat] /\ reached \in [Budget -> Nat]
    /\ slots \in [Provider -> Seq(Age)]

RouterInit ==
    /\ await = [c \in Call |-> "idle"]
    /\ pos = [c \in Call |-> 1]
    /\ attempt = [c \in Call |-> 0]
    /\ wait = [c \in Call |-> 0]
    /\ permits = {}
    /\ status = [p \in Provider |-> "unknown"]
    /\ cooling = [p \in Provider |-> 0]
    /\ window = [p \in Provider |-> <<>>]
    /\ spent = [b \in Budget |-> 0]
    /\ reached = [b \in Budget |-> 0]
    /\ slots = [p \in Provider |-> <<>>]

-----------------------------------------------------------------------------
(* Helper state formulae *)

At(c, where) == await[c] = where /\ wait[c] = 0

Goes(c, to) == await' = [await EXCEPT ![c] = to]

(* c is over, whatever the reason, and keeps nothing.                      *)
Ends(c) ==
    /\ Goes(c, "over")
    /\ pos' = [pos EXCEPT ![c] = 1]
    /\ attempt' = [attempt EXCEPT ![c] = 0]
    /\ wait' = [wait EXCEPT ![c] = 0]

Cools(p) == status[p] = "bad" /\ cooling[p] > 0

(* The provider c stands at.                                               *)
Here(c) == Chain[pos[c]]

(* Positions from here on whose provider is not cooling down.              *)
Able(c) == {j \in pos[c] .. Len(Chain) : ~Cools(Chain[j])}

(* What is left of the window when the oldest slots, as long as they are   *)
(* a minute old, are taken out of it.                                      *)
Live(p) ==
    LET old == {i \in DOMAIN window[p] : \A j \in 1 .. i : window[p][j] = Window}
    IN  SubSeq(window[p], Cardinality(old) + 1, Len(window[p]))

Counts(p) == slots' = [slots EXCEPT ![p] = Append(@, 0)]

(* Slots, a tick later.                                                    *)
Older(s) == [i \in DOMAIN s |-> IF s[i] < Window THEN s[i] + 1 ELSE Window]

-----------------------------------------------------------------------------
Begin(c) ==
    /\ await[c] = "idle"
    /\ Goes(c, "choose")
    /\ UNCHANGED <<pos, attempt, wait, permits, providers, window, spent, reached, slots>>

(* The next provider that may be tried, or none is left.                   *)
Choose(c) ==
    /\ At(c, "choose")
    /\ \/ Able(c) = {} /\ Ends(c)
       \/ \E j \in Able(c) :
             /\ \A k \in Able(c) : j <= k
             /\ Goes(c, "rate")
             /\ pos' = [pos EXCEPT ![c] = j]
             /\ attempt' = [attempt EXCEPT ![c] = 0]
             /\ UNCHANGED wait
    /\ UNCHANGED <<permits, providers, window, spent, reached, slots>>

(* Mutant: the window is not looked at again after the sleep.              *)
SlotAfterSleep(c) ==
    /\ At(c, "rate")
    /\ LET p == Here(c)
       IN  IF Rpm[p] = 0
             THEN Goes(c, "permit") /\ UNCHANGED <<wait, window, slots>>
             ELSE IF Len(Live(p)) < Rpm[p]
             THEN /\ window' = [window EXCEPT ![p] = Append(Live(p), 0)]
                  /\ Counts(p)
                  /\ Goes(c, "permit") /\ UNCHANGED wait
             ELSE /\ window' = [window EXCEPT ![p] = Append(Tail(Live(p)), 0)]
                  /\ Counts(p)
                  /\ wait' = [wait EXCEPT ![c] = Window - Head(Live(p))]
                  /\ Goes(c, "permit")
    /\ UNCHANGED <<pos, attempt, permits, providers, spent, reached>>

(* Mutant: slots that are older than a minute stay in the window.          *)
SlotKeepsOld(c) ==
    /\ At(c, "rate")
    /\ LET p == Here(c)
       IN  IF Rpm[p] = 0
             THEN Goes(c, "permit") /\ UNCHANGED <<wait, window, slots>>
             ELSE IF Len(window[p]) < Rpm[p]
             THEN /\ window' = [window EXCEPT ![p] = Append(window[p], 0)]
                  /\ Counts(p)
                  /\ Goes(c, "permit") /\ UNCHANGED wait
             ELSE /\ wait' = [wait EXCEPT ![c] = Window - Head(window[p])]
                  /\ UNCHANGED <<await, window, slots>>
    /\ UNCHANGED <<pos, attempt, permits, providers, spent, reached>>

(* _wait_rate: a slot of the provider's minute, or sleep until the oldest  *)
(* one is free and look again.                                             *)
Slot(c) ==
    /\ At(c, "rate")
    /\ LET p == Here(c)
       IN  IF Rpm[p] = 0
             THEN Goes(c, "permit") /\ UNCHANGED <<wait, window, slots>>
             ELSE IF Len(Live(p)) < Rpm[p]
             THEN /\ window' = [window EXCEPT ![p] = Append(Live(p), 0)]
                  /\ Counts(p)
                  /\ Goes(c, "permit") /\ UNCHANGED wait
             ELSE /\ window' = [window EXCEPT ![p] = Live(p)]
                  /\ wait' = [wait EXCEPT ![c] = Window - Head(Live(p))]
                  /\ UNCHANGED <<await, slots>>
    /\ UNCHANGED <<pos, attempt, permits, providers, spent, reached>>

(* Mutant: the budgets are charged one by one until one refuses.           *)
PermitChargesFirst(c) ==
    /\ At(c, "permit")
    /\ Cardinality(permits) < Permits
    /\ spent' = [b \in Budget |-> IF b \in BudgetsOf[c] /\ spent[b] < Limit[b]
                                    THEN spent[b] + 1 ELSE spent[b]]
    /\ IF \E b \in BudgetsOf[c] : spent[b] >= Limit[b]
         THEN Ends(c) /\ UNCHANGED <<permits, reached>>
         ELSE /\ Goes(c, "call")
              /\ permits' = permits \cup {c}
              /\ reached' = [b \in Budget |-> IF b \in BudgetsOf[c] THEN reached[b] + 1 ELSE reached[b]]
              /\ UNCHANGED <<pos, attempt, wait>>
    /\ UNCHANGED <<providers, window, slots>>

(* The permit is there; reserve_llm_call takes one call of every budget or *)
(* of none, and the attempt begins.                                        *)
Permit(c) ==
    /\ At(c, "permit")
    /\ Cardinality(permits) < Permits
    /\ IF \E b \in BudgetsOf[c] : spent[b] >= Limit[b]
         THEN Ends(c) /\ UNCHANGED <<permits, spent, reached>>
         ELSE /\ Goes(c, "call")
              /\ permits' = permits \cup {c}
              /\ spent' = [b \in Budget |-> IF b \in BudgetsOf[c] THEN spent[b] + 1 ELSE spent[b]]
              /\ reached' = [b \in Budget |-> IF b \in BudgetsOf[c] THEN reached[b] + 1 ELSE reached[b]]
              /\ UNCHANGED <<pos, attempt, wait>>
    /\ UNCHANGED <<providers, window, slots>>

(* The provider answers, or opens its stream, which keeps the permit.      *)
Answered(c) ==
    /\ await[c] = "call"
    /\ status' = [status EXCEPT ![Here(c)] = "good"]
    /\ cooling' = [cooling EXCEPT ![Here(c)] = 0]
    /\ IF c \in Streamed
         THEN Goes(c, "stream") /\ UNCHANGED <<permits, pos, attempt, wait>>
         ELSE Ends(c) /\ permits' = permits \ {c}
    /\ UNCHANGED <<window, spent, reached, slots>>

(* A retryable error, or the deadline: the same provider again after a     *)
(* pause, else it cools down and the next one of the chain is asked.       *)
Failed(c) ==
    /\ await[c] = "call"
    /\ permits' = permits \ {c}
    /\ IF attempt[c] < Retries
         THEN /\ Goes(c, "rate")
              /\ attempt' = [attempt EXCEPT ![c] = @ + 1]
              /\ wait' = [wait EXCEPT ![c] = Backoff]
              /\ UNCHANGED <<pos, providers>>
         ELSE /\ Goes(c, "choose")
              /\ pos' = [pos EXCEPT ![c] = @ + 1]
              /\ status' = [status EXCEPT ![Here(c)] = "bad"]
              /\ cooling' = [cooling EXCEPT ![Here(c)] = Cooldown]
              /\ UNCHANGED <<attempt, wait>>
    /\ UNCHANGED <<window, spent, reached, slots>>

(* An error that is not retryable, the end of the stream by any of its     *)
(* ends, or a cancellation wherever the call stands.                       *)
Leaves(c) ==
    /\ await[c] \notin {"idle", "over"}
    /\ Ends(c)
    /\ permits' = permits \ {c}
    /\ UNCHANGED <<providers, window, spent, reached, slots>>

Tick ==
    /\ wait' = [c \in Call |-> IF wait[c] > 0 THEN wait[c] - 1 ELSE 0]
    /\ cooling' = [p \in Provider |-> IF cooling[p] > 0 THEN cooling[p] - 1 ELSE 0]
    /\ window' = [p \in Provider |-> Older(window[p])]
    /\ slots' = [p \in Provider |-> Older(slots[p])]
    /\ UNCHANGED <<await, pos, attempt, permits, status, spent, reached>>

Step(c) == Begin(c) \/ Choose(c) \/ Slot(c) \/ Permit(c) \/ Answered(c) \/ Failed(c) \/ Leaves(c)

RouterNext == (\E c \in Call : Step(c)) \/ Tick

RouterSpec == RouterInit /\ [][RouterNext]_routerVars

(* Requests to providers and streams end, if only by their deadline; the   *)
(* event loop runs every call that is ready, and time passes.              *)
RouterFairSpec ==
    /\ RouterSpec
    /\ WF_routerVars(Tick)
    /\ \A c \in Call : /\ WF_routerVars(Choose(c)) /\ WF_routerVars(Slot(c)) /\ WF_routerVars(Permit(c))
                       /\ WF_routerVars(await[c] \in {"call", "stream"} /\ (Answered(c) \/ Failed(c) \/ Leaves(c)))

-----------------------------------------------------------------------------
(* Properties *)

(* However many calls share the budgets of a query and of a caller within  *)
(* it, and whenever they were told to wait: no budget is exceeded, and     *)
(* what is charged are the attempts begun, so a refusal by one budget      *)
(* costs none of the others anything.                                      *)
BudgetsAreExact == \A b \in Budget : spent[b] = reached[b] /\ reached[b] <= Limit[b]

(* Calls that wait for the same provider, wake up together, retry or are   *)
(* cancelled never take more slots in a minute than there are (and every   *)
(* variable has its type).                                                 *)
SlotsPerMinute ==
    /\ RouterTypeOK
    /\ \A p \in Provider : Rpm[p] # 0 =>
          Cardinality({i \in DOMAIN slots[p] : slots[p][i] < Window}) <= Rpm[p]

(* Every call that is begun is answered, refused or gives up: permits held *)
(* by streams, slots, cool-downs and backoffs never block one for ever.    *)
CallsEnd == \A c \in Call : await[c] # "idle" ~> await[c] = "over"
=============================================================================
